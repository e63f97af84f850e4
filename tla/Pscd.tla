---------------------------------- MODULE Pscd ----------------------------------
(***************************************************************************)
(* The CD image builder (src/toolsrc/pscd-new/pscd-new.c): it reads a      *)
(* manifest of files, lays them out and writes an ISO 9660 image.          *)
(*                                                                         *)
(* Three orders of the entries meet: dent_list in the order of creation,   *)
(* in which files are placed and parents are named; dent_remap, sorted by  *)
(* parent and name, in which path tables and directories are written; and  *)
(* the order of the directories alone, which gives their sectors.          *)
(*                                                                         *)
(* Indices count from 1, so the root is entry 1, its own parent.  A path   *)
(* is a sequence of names without the leading "."; names are numbers in    *)
(* the order strcmp gives their upper-case forms.                          *)
(***************************************************************************)
EXTENDS Integers, Sequences, FiniteSets, SequencesExt

CONSTANTS
  Paths,      \* the paths of files a manifest may list
  MaxLines,   \* its dat and raw lines
  Lengths,    \* the lengths of files in bytes
  DataSize,   \* bytes of a data sector, 0x800
  RawSize     \* bytes of a raw sector, 0x930

ASSUME PathsAssumption == \A p \in Paths : p \in Seq(Nat) /\ p # <<>>
ASSUME SizesAssumption ==
  /\ MaxLines \in Nat
  /\ Lengths \subseteq Nat
  /\ DataSize \in Nat \ {0} /\ RawSize \in Nat \ {0}

VARIABLES
  pc,          \* parse, sort, table, place, dirs, finish, done or abort
  manifest,    \* history: the lines read, <<path, mode>>
  dents,       \* dent_list
  remap,       \* dent_remap
  k,           \* the loop variable of the phase
  pass,        \* 1: little-endian path tables, 2: big-endian ones
  tables,      \* the path tables of the two passes
  pathRemap,   \* dent_path_remap + 1, 0 where there is none
  lengths,     \* the length of every file placed
  sectorCount, \* sector_count
  image        \* the bin file: sector -> what was written there

vars == <<pc, manifest, dents, remap, k, pass, tables, pathRemap, lengths, sectorCount, image>>

-----------------------------------------------------------------------------
(* Entries. *)

HasDent(ds, p)  == \E i \in 1 .. Len(ds) : ds[i].path = p
FindDent(ds, p) == CHOOSE i \in 1 .. Len(ds) : ds[i].path = p
DirCount(ds)    == Cardinality({i \in 1 .. Len(ds) : ds[i].mode = "dir"})

\* An entry for path p, unless there is one, whatever its mode.  A directory
\* gets its sector at once, a file when it is placed.
AddDent(ds, p, mode) ==
  IF HasDent(ds, p) THEN ds
  ELSE Append(ds, [path   |-> p,
                   mode   |-> mode,
                   parent |-> IF ds = <<>> THEN 1 ELSE FindDent(ds, Front(p)),
                   sector |-> IF mode = "dir" THEN 22 + DirCount(ds) ELSE 0,
                   length |-> 0])

\* assign_dent calls itself for the directory part before it adds the entry.
AssignDent(ds, p, mode) ==
  LET made[n \in 0 .. Len(p)] ==
        IF n = 0 THEN ds ELSE AddDent(made[n - 1], SubSeq(p, 1, n - 1), "dir")
  IN AddDent(made[Len(p)], p, mode)

Swap(r, i, j) == [r EXCEPT ![i] = r[j], ![j] = r[i]]

\* The order of the sort: by parent, then by name (mutant: names forgotten).
AfterByParent(d, e) == d.parent > e.parent
After(d, e) ==
  \/ d.parent > e.parent
  \/ d.parent = e.parent /\ Last(d.path) > Last(e.path)

\* The inner loop of the sort: position i is compared with every later one.
Exchanged(s, i, j) == IF After(dents[s[i]], dents[s[j]]) THEN Swap(s, i, j) ELSE s
Sink(r, i) ==
  LET sunk[j \in i .. Len(r)] == IF j = i THEN r ELSE Exchanged(sunk[j - 1], i, j)
  IN sunk[Len(r)]

CeilDiv(n, d) == (n + d - 1) \div d

\* Sectors written from s on.
Written(s, contents) ==
  [t \in DOMAIN image \cup (s .. s + Len(contents) - 1) |->
     IF t \in s .. s + Len(contents) - 1 THEN contents[t - s + 1] ELSE image[t]]

Same(c, n) == [i \in 1 .. n |-> c]
-----------------------------------------------------------------------------
Init ==
  /\ pc = "parse" /\ manifest = <<>> /\ dents = <<>> /\ remap = <<>>
  /\ k = 0 /\ pass = 0 /\ tables = << <<>>, <<>> >> /\ pathRemap = <<>>
  /\ lengths = <<>> /\ sectorCount = 0 /\ image = <<>>

\* The files are read from a file system, where no path is both a file and a
\* directory.
InOneTree(p) ==
  \A n \in 1 .. Len(manifest) :
    LET q == manifest[n][1] IN p = q \/ ~(IsPrefix(p, q) \/ IsPrefix(q, p))

\* A dat or raw line of the manifest.
Line(p, mode) ==
  /\ pc = "parse"
  /\ Len(manifest) < MaxLines
  /\ InOneTree(p)
  /\ manifest' = Append(manifest, <<p, mode>>)
  /\ dents' = AssignDent(dents, p, mode)
  /\ UNCHANGED <<pc, remap, k, pass, tables, pathRemap, lengths, sectorCount, image>>

\* The end of a manifest that lists a file at all.  dent_remap starts as the
\* identity, and the sort leaves the root where it is.
EndManifest ==
  /\ pc = "parse"
  /\ manifest # <<>>
  /\ pc' = "sort" /\ k' = 2
  /\ remap' = [i \in 1 .. Len(dents) |-> i]
  /\ UNCHANGED <<manifest, dents, pass, tables, pathRemap, lengths, sectorCount, image>>

SortPass ==
  /\ pc = "sort"
  /\ k <= Len(dents)
  /\ remap' = Sink(remap, k)
  /\ k' = k + 1
  /\ UNCHANGED <<pc, manifest, dents, pass, tables, pathRemap, lengths, sectorCount, image>>

\* The first sector after the directories (mutants: one too high, one too low).
FirstFileHigh   == 23 + DirCount(dents)
FirstFileLow    == 21 + DirCount(dents)
FirstFileSector == 22 + DirCount(dents)

\* The licence is written, and the path tables are begun.
BeginImage ==
  /\ pc = "sort"
  /\ k > Len(dents)
  /\ pc' = "table" /\ k' = 1 /\ pass' = 1
  /\ image' = Written(0, Same([kind |-> "licence"], 16))
  /\ sectorCount' = FirstFileSector
  /\ pathRemap' = [i \in 1 .. Len(dents) |-> 0]
  /\ UNCHANGED <<manifest, dents, remap, tables, lengths>>

\* The number a path table gives as an entry's parent (mutant: read too early).
ParentNumberEarly(d) == pathRemap[d.parent]
ParentNumber(d)      == pathRemap'[d.parent]

\* An entry of a path table.  It is numbered before its parent's number is
\* read, for the root is its own parent.
PathEntry ==
  LET me == remap[k]
      d == dents[me]
      number == Len(tables[pass]) + 1
  IN
  /\ pc = "table"
  /\ k <= Len(dents)
  /\ IF d.mode # "dir"
     THEN UNCHANGED <<pc, pathRemap, tables>>
     ELSE IF number # 1 /\ pathRemap[d.parent] = 0
     THEN pc' = "abort" /\ UNCHANGED <<pathRemap, tables>>
     ELSE /\ pathRemap' = [pathRemap EXCEPT ![me] = number]
          /\ tables' = [tables EXCEPT ![pass] =
               Append(@, [path |-> d.path, sector |-> d.sector, parent |-> ParentNumber(d)])]
          /\ UNCHANGED pc
  /\ k' = k + 1
  /\ UNCHANGED <<manifest, dents, remap, pass, lengths, sectorCount, image>>

\* A path table is written, twice.
EndTable ==
  /\ pc = "table"
  /\ k > Len(dents)
  /\ image' = Written(16 + 2 * pass, Same([kind |-> "table", entries |-> tables[pass]], 2))
  /\ k' = 1
  /\ IF pass = 1 THEN pass' = 2 /\ UNCHANGED pc ELSE pc' = "place" /\ UNCHANGED pass
  /\ UNCHANGED <<manifest, dents, remap, tables, pathRemap, lengths, sectorCount>>

\* Sectors of a file of n bytes (mutant: rounded down), and the length its
\* record gives.
FileSectorsDown(mode, n) == n \div (IF mode = "dat" THEN DataSize ELSE RawSize)
FileSectors(mode, n) == CeilDiv(n, IF mode = "dat" THEN DataSize ELSE RawSize)
RecordLength(mode, n) == IF mode = "dat" THEN n ELSE FileSectors(mode, n) * DataSize

Place ==
  LET d == dents[k] IN
  /\ pc = "place"
  /\ k <= Len(dents)
  /\ IF d.mode = "dir"
     THEN /\ dents' = [dents EXCEPT ![k].length = DataSize]
          /\ UNCHANGED <<lengths, sectorCount, image>>
     ELSE \E n \in Lengths :
            LET parts == [j \in 1 .. FileSectors(d.mode, n) |->
                            [kind |-> "data", path |-> d.path, part |-> j]]
            IN /\ dents' = [dents EXCEPT ![k].sector = sectorCount,
                                         ![k].length = RecordLength(d.mode, n)]
               /\ lengths' = [q \in DOMAIN lengths \cup {d.path} |->
                                IF q = d.path THEN n ELSE lengths[q]]
               /\ sectorCount' = sectorCount + Len(parts)
               /\ image' = Written(sectorCount, parts)
  /\ k' = k + 1
  /\ UNCHANGED <<pc, manifest, remap, pass, tables, pathRemap>>

EndPlace ==
  /\ pc = "place"
  /\ k > Len(dents)
  /\ pc' = "dirs" /\ k' = 1
  /\ UNCHANGED <<manifest, dents, remap, pass, tables, pathRemap, lengths, sectorCount, image>>

\* The positions whose entries a directory lists.  The code leaves out
\* position i, a place in dent_remap, of the directory's index i in dent_list.
Listed(i) ==
  LET upTo[j \in 0 .. Len(dents)] ==
        IF j = 0 THEN <<>>
        ELSE IF j # i /\ dents[remap[j]].parent = i THEN Append(upTo[j - 1], j)
        ELSE upTo[j - 1]
  IN upTo[Len(dents)]

Record(d) == [name |-> Last(d.path), sector |-> d.sector, length |-> d.length,
              dir |-> d.mode = "dir"]

DirSector(i) ==
  [kind |-> "dir", self |-> dents[i].sector, up |-> dents[dents[i].parent].sector,
   records |-> [n \in 1 .. Len(Listed(i)) |-> Record(dents[remap[Listed(i)[n]]])]]

\* A directory is written.
Directory ==
  /\ pc = "dirs"
  /\ k <= Len(dents)
  /\ image' = IF dents[k].mode # "dir" THEN image
              ELSE Written(dents[k].sector, <<DirSector(k)>>)
  /\ k' = k + 1
  /\ UNCHANGED <<pc, manifest, dents, remap, pass, tables, pathRemap, lengths, sectorCount>>

\* The volume descriptors are written.
Finish ==
  /\ pc = "dirs"
  /\ k > Len(dents)
  /\ pc' = "done"
  /\ image' = Written(16, << [kind |-> "pvd", root |-> 22, size |-> sectorCount],
                             [kind |-> "terminator"] >>)
  /\ UNCHANGED <<manifest, dents, remap, k, pass, tables, pathRemap, lengths, sectorCount>>
-----------------------------------------------------------------------------
Next ==
  \/ \E p \in Paths, mode \in {"dat", "raw"} : Line(p, mode)
  \/ EndManifest
  \/ SortPass
  \/ BeginImage
  \/ PathEntry
  \/ EndTable
  \/ Place
  \/ EndPlace
  \/ Directory
  \/ Finish

Spec == Init /\ [][Next]_vars
-----------------------------------------------------------------------------
(***************************************************************************)
(* Properties                                                              *)
(***************************************************************************)
(* What a reader of the image finds, starting from the volume descriptor. *)

Children(s) == {image[s].records[n] : n \in 1 .. Len(image[s].records)}

\* The records the first n names of path p lead to.
Reach(p) ==
  LET r[n \in 0 .. Len(p)] ==
        IF n = 0 THEN {[sector |-> image[16].root, dir |-> TRUE]}
        ELSE UNION {{c \in Children(e.sector) : c.name = p[n]} :
                       e \in {e \in r[n - 1] : e.dir}}
  IN r[Len(p)]

\* Every listed file is found under its path by exactly one record, which
\* gives its length and a run of sectors that hold that file's data in order;
\* the mode is that of its first line.  Creation order, sorted order, sector
\* allocation and directory records all have to agree.
EveryFileFound ==
  pc = "done" =>
    \A n \in 1 .. Len(manifest) :
      LET p == manifest[n][1]
          first == CHOOSE m \in 1 .. n :
                     manifest[m][1] = p /\ \A l \in 1 .. m - 1 : manifest[l][1] # p
          raw   == manifest[first][2] = "raw"
          parts == CeilDiv(lengths[p], IF raw THEN RawSize ELSE DataSize)
      IN \E e \in Reach(p) :
           /\ Reach(p) = {e}
           /\ ~e.dir
           /\ e.length = IF raw THEN parts * DataSize ELSE lengths[p]
           /\ \A j \in 1 .. parts :
                /\ e.sector + j - 1 \in DOMAIN image
                /\ image[e.sector + j - 1] = [kind |-> "data", path |-> p, part |-> j]

\* A directory lists each of its entries once, in the order of their names,
\* and its two links lead to itself and to its parent.  In particular the
\* entry left out by `if(j == i)` is never one of the directory's own.
DirectoriesExact ==
  pc = "done" =>
    \A i \in 1 .. Len(dents) : dents[i].mode = "dir" =>
      LET s == image[dents[i].sector]
          names == [n \in 1 .. Len(s.records) |-> s.records[n].name]
      IN /\ s.self = dents[i].sector
         /\ s.up = dents[IF i = 1 THEN 1 ELSE FindDent(dents, Front(dents[i].path))].sector
         /\ {names[n] : n \in 1 .. Len(names)} =
              {Last(dents[j].path) : j \in {j \in 2 .. Len(dents) : Front(dents[j].path) = dents[i].path}}
         /\ \A n \in 1 .. Len(names) - 1 : names[n] < names[n + 1]

\* The assertion that a parent is numbered before its children never fails,
\* and each path table gives every directory's sector and its parent's place.
PathTablesSound ==
  /\ pc # "abort"
  /\ pc = "done" => \A t \in {18, 19, 20, 21} :
       LET es == image[t].entries IN
       /\ Len(es) = DirCount(dents)
       /\ \A n \in 1 .. Len(es) :
            /\ image[es[n].sector].kind = "dir"
            /\ es[n].parent \in 1 .. n
            /\ es[es[n].parent].sector = image[es[n].sector].up

\* No sector is written over: licence, descriptors, path tables, directories
\* and files never overlap.
WrittenOnce == [][\A s \in DOMAIN image : s \in DOMAIN image' /\ image'[s] = image[s]]_vars

\* The volume has no hole and is as long as its descriptor says.
VolumeFull == pc = "done" => DOMAIN image = 0 .. image[16].size - 1

=============================================================================
