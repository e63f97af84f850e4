------------------------------ MODULE XaStreams ------------------------------
(***************************************************************************)
(* Streams on their way to a disc: psxavenc encodes them into files        *)
(* (encode_file_xa, encode_file_str), xainterleave reads a manifest and    *)
(* interleaves the files' sectors, and pscd-new puts the result into the   *)
(* image as a raw file.                                                    *)
(*                                                                         *)
(* A line of the manifest is parsed into a local struct that is never      *)
(* initialised and keeps, from one line to the next, what the next line    *)
(* does not set.                                                           *)
(***************************************************************************)
EXTENDS XaSector

CONSTANTS
  Streams,      \* the files to encode
  Kind,         \* the kind of each: xa, xacd or str
  EncoderIds,   \* file and channel number the encoder is given
  Lengths,      \* samples, or groups of sectors of a str file
  PerSector,    \* samples in a sector
  VideoRun,     \* video sectors before one of audio in a str file, 7 in the code
  Counts,       \* the sector counts in a manifest line
  LineIds,      \* the file and channel numbers there, <<>> where left out
  MaxLines      \* lines of a manifest, at most EntryMax

ASSUME StreamAssumption ==
  /\ Kind \in [Streams -> {"xa", "xacd", "str"}]
  /\ EncoderIds \in (0 .. 255) \X (0 .. 31)
  /\ Lengths \subseteq Nat
  /\ PerSector \in Nat \ {0} /\ VideoRun \in Nat

\* The places of entries[].  parse never compares its count with them, so a
\* longer manifest is written behind the array; it is not an input here.
EntryMax == 64

ASSUME ManifestAssumption ==
  /\ Counts \subseteq Nat \ {0}
  /\ LineIds \subseteq (Int \X Int) \cup {<<>>}
  /\ MaxLines \in Nat /\ MaxLines <= EntryMax

VARIABLES
  pc,         \* parse, chunk, slot, build, done or trap
  files,      \* the files psxavenc has written
  manifest,   \* history: the lines of the manifest
  line,       \* lines parsed
  entries,    \* entries[]: [sectors, type, handle, file, channel]
  handles,    \* the files opened: [stream, pos, eof]
  at,         \* the entry and the sector of it the loop is at
  output,     \* the sectors written
  image       \* the sectors on the disc

vars == <<pc, files, manifest, line, entries, handles, at, output, image>>

-----------------------------------------------------------------------------
(* psxavenc. *)

\* encode_file_xa: whole sectors, the last of them marked.
XaFile(st, samples) ==
  LET n == (samples + PerSector - 1) \div PerSector
      sector(i) == AudioSector(EncoderIds[1], EncoderIds[2], <<st, i>>)
  IN [i \in 1 .. n |-> IF i = n THEN Finalize(sector(i)) ELSE sector(i)]

\* encode_file_str: groups of video sectors and one of audio.
StrFile(st, groups) ==
  [i \in 1 .. groups * (VideoRun + 1) |->
     IF i % (VideoRun + 1) = 0
     THEN AudioSector(EncoderIds[1], EncoderIds[2], <<st, i>>)
     ELSE VideoSector(EncoderIds[1], EncoderIds[2], <<st, i>>)]

Encoded(st, n) == IF Kind[st] = "str" THEN StrFile(st, n) ELSE XaFile(st, n)

-----------------------------------------------------------------------------
(* xainterleave: the manifest. *)

NoFile == 0          \* a handle that is NULL
Wild   == -1         \* a handle that was never set

\* A file of whole sectors is read raw, or as xacd; an xa file has no header.
Types(st) == CASE Kind[st] = "xa"   -> {"xa"}
               [] Kind[st] = "xacd" -> {"xacd", "raw"}
               [] Kind[st] = "str"  -> {"raw"}

LinesOf(st) ==
  [sectors : Counts, type : Types(st) \ {"raw"}, stream : {st}, ids : LineIds]
    \cup [sectors : Counts, type : Types(st) \cap {"raw"}, stream : {st}]

Lines == [sectors : Counts, type : {"null"}] \cup UNION {LinesOf(st) : st \in Streams}

IsXa(l) == l.type \in {"xa", "xacd"}

Init ==
  /\ pc = "parse"
  /\ files \in {[st \in Streams |-> Encoded(st, n[st])] : n \in [Streams -> Lengths]}
  /\ manifest \in UNION {[1 .. n -> Lines] : n \in 1 .. MaxLines}
  /\ line = 0 /\ entries = <<>> /\ handles = <<>>
  /\ at = <<1, 1>> /\ output = <<>> /\ image = <<>>

\* What `e` still holds of the line before, or what was on the stack.
Stale(field, garbage) ==
  IF entries = <<>> THEN garbage ELSE {entries[Len(entries)][field]}

StaleIds == Stale("file", {0}) \X Stale("channel", {-1, 0})

\* File and channel of an entry.  Where a line leaves them out, the first
\* number of the next line is taken for the file.
ReadIds(l) ==
  IF ~IsXa(l) THEN StaleIds
  ELSE IF l.ids # <<>> THEN {l.ids}
  ELSE IF line + 1 = Len(manifest) THEN {<<0, 0>>}
  ELSE {manifest[line + 2].sectors} \X Stale("channel", {-1, 0})

\* A null entry opens no file, but holds one, or a wild pointer.
HandlesOf(l) == IF l.type = "null" THEN Stale("handle", {NoFile, Wild}) ELSE {Len(handles) + 1}

\* A line is parsed.  After one that left its numbers out the next call of
\* fscanf meets a word instead of a number, and the rest is ignored.
ParseLine ==
  LET l == manifest[line + 1] IN
  /\ pc = "parse"
  /\ line < Len(manifest)
  /\ \E h \in HandlesOf(l), ids \in ReadIds(l) :
       entries' = Append(entries, [sectors |-> l.sectors, type |-> l.type, handle |-> h,
                                   file |-> ids[1], channel |-> ids[2]])
  /\ handles' = IF l.type = "null" THEN handles
                ELSE Append(handles, [stream |-> l.stream, pos |-> 0, eof |-> FALSE])
  /\ line' = IF IsXa(l) /\ l.ids = <<>> THEN Len(manifest) ELSE line + 1
  /\ UNCHANGED <<pc, files, manifest, at, output, image>>

EndManifest ==
  /\ pc = "parse"
  /\ line = Len(manifest)
  /\ pc' = "chunk"
  /\ UNCHANGED <<files, manifest, line, entries, handles, at, output, image>>

-----------------------------------------------------------------------------
(* xainterleave: the sectors. *)

\* Some file has not met its end yet (mutant: only as long as none has).
AllCanRead ==
  \A i \in 1 .. Len(entries) :
    entries[i].handle \in 1 .. Len(handles) => ~handles[entries[i].handle].eof
CanRead ==
  \E i \in 1 .. Len(entries) :
    entries[i].handle \in 1 .. Len(handles) /\ ~handles[entries[i].handle].eof

\* After the last chunk (mutant: the loop is entered once more).
AfterChunkAgain == IF CanRead THEN "slot" ELSE "chunk"
AfterChunk == IF CanRead THEN "slot" ELSE "build"

\* A chunk begins, or the file is closed.  The end of every file is asked
\* for, also by an entry that holds no file but an old or a wild pointer.
BeginChunk ==
  /\ pc = "chunk"
  /\ pc' = IF \E i \in 1 .. Len(entries) : entries[i].handle = Wild THEN "trap" ELSE AfterChunk
  /\ UNCHANGED <<files, manifest, line, entries, handles, at, output, image>>

\* Mutant of Following: an entry gets one sector too many.
FollowingLate ==
  IF at[2] <= entries[at[1]].sectors THEN <<at[1], at[2] + 1>>
  ELSE IF at[1] < Len(entries) THEN <<at[1] + 1, 1>>
  ELSE <<1, 1>>

\* The loops over the entries and over the sectors of an entry.
Following ==
  IF at[2] < entries[at[1]].sectors THEN <<at[1], at[2] + 1>>
  ELSE IF at[1] < Len(entries) THEN <<at[1] + 1, 1>>
  ELSE <<1, 1>>

\* A sector is read, patched and written; an empty one is written for a null
\* entry, and after a file's end, which is known only once a read has failed.
WriteSector ==
  LET e == entries[at[1]]
      h == handles[e.handle]
  IN
  /\ pc = "slot"
  /\ IF e.type = "null"
     THEN output' = Append(output, Empty) /\ UNCHANGED handles
     ELSE IF h.pos = Len(files[h.stream])
     THEN /\ output' = Append(output, Empty)
          /\ handles' = [handles EXCEPT ![e.handle].eof = TRUE]
     ELSE LET s == files[h.stream][h.pos + 1] IN
          /\ output' = Append(output, IF e.type = "raw" THEN s ELSE Patch(s, e.file, e.channel))
          /\ handles' = [handles EXCEPT ![e.handle].pos = h.pos + 1]
  /\ at' = Following
  /\ pc' = IF Following = <<1, 1>> THEN "chunk" ELSE "slot"
  /\ UNCHANGED <<files, manifest, line, entries, image>>

-----------------------------------------------------------------------------
(* pscd-new: the raw file's sectors.                                         *)

Build ==
  /\ pc = "build"
  /\ pc' = "done"
  /\ image' = [n \in 1 .. Len(output) |-> EncodeSector(output[n])]
  /\ UNCHANGED <<files, manifest, line, entries, handles, at, output>>

-----------------------------------------------------------------------------
Next == ParseLine \/ EndManifest \/ BeginChunk \/ WriteSector \/ Build

Spec == Init /\ [][Next]_vars /\ WF_vars(Next)
-----------------------------------------------------------------------------
(***************************************************************************)
(* Properties                                                              *)
(***************************************************************************)
\* The types of the variables: in particular the loop stays within the entry
\* it is at, and a file is never read past its end.
TypeOK ==
  /\ pc \in {"parse", "chunk", "slot", "build", "done", "trap"}
  /\ line \in 0 .. Len(manifest)
  /\ \A i \in 1 .. Len(entries) :
       /\ entries[i].handle \in {Wild, NoFile} \cup 1 .. Len(handles)
       /\ entries[i].type # "null" => entries[i].handle \in 1 .. Len(handles)
  /\ \A h \in 1 .. Len(handles) :
       /\ handles[h].pos \in 0 .. Len(files[handles[h].stream])
       /\ handles[h].eof => handles[h].pos = Len(files[handles[h].stream])
  /\ pc = "slot" => /\ at[1] \in 1 .. Len(entries)
                    /\ at[2] \in 1 .. entries[at[1]].sectors

\* Every line that can do without them has its numbers.
NumbersGiven == \A n \in 1 .. Len(manifest) - 1 : IsXa(manifest[n]) => manifest[n].ids # <<>>

\* Sectors of a chunk before line n, and the place of line n's m-th sector.
Before(n) ==
  LET sum[i \in 0 .. n] == IF i = 0 THEN 0 ELSE sum[i - 1] + manifest[i].sectors
  IN sum[n - 1]
Turn == Before(Len(manifest)) + manifest[Len(manifest)].sectors
Slot(n, m) ==
  LET s == manifest[n].sectors IN
  ((m - 1) \div s) * Turn + Before(n) + ((m - 1) % s) + 1

Held(n) == IF manifest[n].type = "null" THEN <<>> ELSE files[manifest[n].stream]

Number(given, encoders) == IF given < 0 THEN encoders ELSE given

\* The file and channel numbers a drive's filter finds on line n's sectors.
FilterOf(n) ==
  LET ids == IF manifest[n].ids = <<>> THEN <<0, 0>> ELSE manifest[n].ids IN
  <<Number(ids[1], EncoderIds[1]), Number(ids[2], EncoderIds[2])>>

\* Every stream of the manifest is whole on the disc: at its own rate, sector
\* after sector, under the numbers its line gives, and followed by nothing but
\* empty sectors, however long the other streams are.
StreamsWhole ==
  pc = "done" /\ NumbersGiven =>
    /\ Len(image) % Turn = 0
    /\ \A n \in 1 .. Len(manifest) :
         LET rate == (Len(image) \div Turn) * manifest[n].sectors
             size == Len(Held(n))
         IN /\ size <= rate
            /\ \A m \in 1 .. size :
                 LET s == image[Slot(n, m)] IN
                 /\ SubSeq(s.data, 1, 2) = <<manifest[n].stream, m>>
                 /\ IsXa(manifest[n]) => <<s.sub.file, s.sub.channel>> = FilterOf(n)
            /\ \A m \in size + 1 .. rate : image[Slot(n, m)] = Empty

\* Every sector on the disc is one a drive accepts: its subheaders agree and
\* its checksum is that of what is stored, though finalize and the interleaver
\* both change a sector after its checksum was made.
SectorsValid ==
  pc = "done" => \A i \in 1 .. Len(image) :
    image[i].mode = 2 => image[i].sub = image[i].copy /\ image[i].edc = EdcOf(image[i])

\* The interleaver ends, whatever the lengths of its files are.
Ends == <>(pc \in {"done", "trap"})
=============================================================================
