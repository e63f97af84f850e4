------------------------------ MODULE PscdProofs ------------------------------
(***************************************************************************)
(* The image pscd-new writes is sound, for every manifest over one file    *)
(* tree and all lengths and sector sizes: nothing is written over, the     *)
(* volume is full, path tables and directories are exact, and every file   *)
(* is found under its path.                                                *)
(***************************************************************************)
EXTENDS Pscd, WellFoundedInduction, FiniteSetTheorems, SequenceTheorems, TLAPS

(***************************************************************************)
(* Loops: recursion and induction over an interval.                        *)
(***************************************************************************)
LEMMA LeastExists ==
  ASSUME NEW S \in SUBSET Nat, S # {}
  PROVE  \E m \in S : \A w \in S : m <= w
  <1>1. PICK x \in S : \A y \in S : ~(<<y, x>> \in OpToRel(<, Nat))
    BY NatLessThanWellFounded, WFMin
  <1>2. \A y \in S : ~(y < x)
    BY <1>1 DEF OpToRel
  <1> QED
    BY <1>2

\* What holds before a loop and is kept by every round holds after it.
LEMMA Rounds ==
  ASSUME NEW lo \in Nat, NEW hi \in Nat, NEW S,
         lo \in S, \A j \in lo + 1 .. hi : j - 1 \in S => j \in S
  PROVE  \A j \in lo .. hi : j \in S
  <1> DEFINE Left == {j \in lo .. hi : j \notin S}
  <1> SUFFICES ASSUME Left # {} PROVE FALSE
    OBVIOUS
  <1>1. PICK j \in Left : \A w \in Left : j <= w
    BY LeastExists, Left \in SUBSET Nat
  <1>2. j # lo /\ j \in lo + 1 .. hi /\ j - 1 \in lo .. hi
    BY <1>1
  <1>3. j - 1 \notin Left
    BY <1>1, <1>2
  <1> QED
    BY <1>1, <1>2, <1>3

\* A loop that starts with b and whose round j takes x to step[<<j, x>>].
IsLoop(f, lo, hi, b, step) ==
  f = [j \in lo .. hi |-> IF j = lo THEN b ELSE step[<<j, f[j - 1]>>]]

\* It has values after each round, in D[j] after round j if no round leaves D.
LEMMA LoopExists ==
  ASSUME NEW lo \in Nat, NEW hi \in Nat, NEW D, NEW b \in D[lo], NEW step,
         \A j \in lo + 1 .. hi : \A x \in D[j - 1] : step[<<j, x>>] \in D[j]
  PROVE  \E f : IsLoop(f, lo, hi, b, step) /\ \A j \in lo .. hi : f[j] \in D[j]
  <1> USE DEF IsLoop
  <1> DEFINE Loop(f, n) ==
               /\ IsLoop(f, lo, n, b, step)
               /\ \A j \in lo .. n : f[j] \in D[j]
             S == {n \in Nat : \E f : Loop(f, n)}
  <1>1. lo \in S
    <2> DEFINE f == [j \in lo .. lo |-> b]
    <2>1. Loop(f, lo)
      OBVIOUS
    <2> QED
      BY <2>1
  <1>2. ASSUME NEW n \in lo + 1 .. hi, n - 1 \in S PROVE n \in S
    <2>1. PICK f : Loop(f, n - 1)
      BY <1>2
    <2> DEFINE x == step[<<n, f[n - 1]>>]
               g == [j \in lo .. n |-> IF j = n THEN x ELSE f[j]]
    <2>2. f[n - 1] \in D[n - 1] /\ x \in D[n]
      BY <2>1
    <2>3. \A j \in lo .. n - 1 : g[j] = f[j] /\ f[j] \in D[j]
      BY <2>1
    <2>4. g[n] = x /\ n \in Nat /\ n # lo /\ n - 1 \in lo .. n - 1
      OBVIOUS
    <2>5. \A j \in lo .. n : j = n \/ (j \in lo .. n - 1 /\ (j # lo => j - 1 \in lo .. n - 1))
      OBVIOUS
    <2>6. \A j \in lo .. n - 1 : f[j] = IF j = lo THEN b ELSE step[<<j, f[j - 1]>>]
      BY <2>1
    <2>7. g = [j \in lo .. n |-> g[j]]
      OBVIOUS
    <2> HIDE DEF g
    <2>8. \A j \in lo .. n : /\ g[j] = IF j = lo THEN b ELSE step[<<j, g[j - 1]>>]
                             /\ g[j] \in D[j]
      BY <2>2, <2>3, <2>4, <2>5, <2>6
    <2>9. Loop(g, n)
      BY <2>7, <2>8
    <2> QED
      BY <2>4, <2>9
  <1> HIDE DEF S
  <1>3. \A n \in lo .. hi : n \in S
    BY <1>1, <1>2, Rounds
  <1>4. CASE lo <= hi
    BY <1>3, <1>4 DEF S
  <1>5. CASE hi < lo
    <2> DEFINE f == [j \in lo .. hi |-> b]
    <2>1. Loop(f, hi)
      BY <1>5
    <2> QED
      BY <2>1
  <1> QED
    BY <1>4, <1>5
-----------------------------------------------------------------------------
(***************************************************************************)
(* Entries: assign_dent.                                                   *)
(***************************************************************************)
Modes    == {"dir", "dat", "raw"}
Entries  == [path : Seq(Nat), mode : Modes, parent : Nat, sector : Nat, length : Nat]
DirsOf(ds) == {i \in 1 .. Len(ds) : ds[i].mode = "dir"}

\* The list is a tree: every entry but the root has its directory before it.
Tree(ds) ==
  /\ ds \in Seq(Entries)
  /\ ds # <<>> => ds[1].path = <<>> /\ ds[1].mode = "dir" /\ ds[1].parent = 1
  /\ \A i \in 2 .. Len(ds) : LET p == ds[i].parent IN
       p \in 1 .. i - 1 /\ ds[p].mode = "dir" /\ ds[i].path # <<>> /\ ds[p].path = Front(ds[i].path)
  /\ \A i, j \in 1 .. Len(ds) : ds[i].path = ds[j].path => i = j

\* The directories have the sectors from 22 on, one each, the root the first.
DirSectors(ds) ==
  /\ ds # <<>> => ds[1].sector = 22
  /\ \A i \in DirsOf(ds) : ds[i].sector \in 22 .. 21 + DirCount(ds)
  /\ \A i, j \in DirsOf(ds) : ds[i].sector = ds[j].sector => i = j
  /\ \A s \in 22 .. 21 + DirCount(ds) : \E i \in DirsOf(ds) : ds[i].sector = s

\* All entries stay, and those that are added are directories on the way to p.
Grown(ds, es, p) ==
  /\ Len(ds) <= Len(es)
  /\ \A i \in 1 .. Len(ds) : es[i] = ds[i]
  /\ \A i \in Len(ds) + 1 .. Len(es) :
       es[i].mode = "dir" /\ \E n \in 0 .. Len(p) - 1 : es[i].path = SubSeq(p, 1, n)

LEMMA DirCountIsNat ==
  ASSUME NEW ds, Len(ds) \in Nat
  PROVE  DirCount(ds) \in Nat /\ IsFiniteSet(DirsOf(ds))
  <1>1. IsFiniteSet(1 .. Len(ds)) /\ DirsOf(ds) \in SUBSET (1 .. Len(ds))
    BY FS_Interval DEF DirsOf
  <1>2. IsFiniteSet(DirsOf(ds))
    BY <1>1, FS_Subset
  <1> QED
    BY <1>2, FS_CardinalityType DEF DirCount, DirsOf

\* An entry more.
LEMMA AddedEntry ==
  ASSUME NEW ds, Tree(ds), DirSectors(ds), NEW q \in Seq(Nat), NEW mode \in Modes,
         ds = <<>> => q = <<>> /\ mode = "dir",
         ds # <<>> /\ q # <<>> => \E i \in DirsOf(ds) : ds[i].path = Front(q)
  PROVE  LET es == AddDent(ds, q, mode) IN
         /\ Tree(es) /\ DirSectors(es) /\ es # <<>>
         /\ \E i \in 1 .. Len(es) : es[i].path = q
         /\ \/ es = ds
            \/ /\ Len(es) = Len(ds) + 1 /\ es[Len(es)].path = q /\ es[Len(es)].mode = mode
               /\ \A i \in 1 .. Len(ds) : es[i] = ds[i]
               /\ ~HasDent(ds, q)
  <1>1. CASE HasDent(ds, q)
    <2>1. AddDent(ds, q, mode) = ds /\ \E i \in 1 .. Len(ds) : ds[i].path = q
      BY <1>1 DEF AddDent, HasDent
    <2>2. ds # <<>>
      BY <2>1
    <2> QED
      BY <2>1, <2>2
  <1>2. CASE ~HasDent(ds, q)
    <2> DEFINE up == IF ds = <<>> THEN 1 ELSE FindDent(ds, Front(q))
               d  == [path |-> q, mode |-> mode, parent |-> up,
                      sector |-> IF mode = "dir" THEN 22 + DirCount(ds) ELSE 0, length |-> 0]
               es == Append(ds, d)
               L  == Len(ds)
    <2>1. AddDent(ds, q, mode) = es
      BY <1>2 DEF AddDent
    <2>2. L \in Nat /\ DirCount(ds) \in Nat /\ IsFiniteSet(DirsOf(ds)) /\ ds \in Seq(Entries)
      BY DirCountIsNat DEF Tree
    <2>3. ds # <<>> => /\ q # <<>> /\ L >= 1
                       /\ up \in DirsOf(ds) /\ ds[up].path = Front(q)
      <3> SUFFICES ASSUME ds # <<>> PROVE q # <<>> /\ L >= 1 /\ up \in DirsOf(ds) /\ ds[up].path = Front(q)
        OBVIOUS
      <3>1. L >= 1 /\ 1 \in 1 .. L
        BY <2>2
      <3>2. q # <<>>
        BY <1>2, <3>1 DEF Tree, HasDent
      <3>3. PICK i \in DirsOf(ds) : ds[i].path = Front(q)
        BY <3>2
      <3>4. up \in 1 .. L /\ ds[up].path = Front(q)
        BY <3>3 DEF FindDent, DirsOf
      <3>5. up = i
        BY <3>3, <3>4 DEF Tree, DirsOf
      <3> QED
        BY <3>1, <3>2, <3>3, <3>5
    <2>4. up \in Nat
      BY <2>2, <2>3 DEF DirsOf
    <2>5. d \in Entries
      BY <2>2, <2>4 DEF Entries
    <2> HIDE DEF d
    <2>6. /\ es \in Seq(Entries) /\ Len(es) = L + 1 /\ es[L + 1] = d
          /\ \A i \in 1 .. L : es[i] = ds[i] /\ i # L + 1
          /\ \A i \in 1 .. L + 1 : i \in 1 .. L \/ i = L + 1
      BY <2>2, <2>5, AppendProperties
    <2> HIDE DEF es, L
    <2>7. d.path = q /\ d.mode = mode /\ d.parent = up
          /\ (mode = "dir" => d.sector = 22 + DirCount(ds))
      BY DEF d
    <2>8. \A i \in 1 .. L : ds[i].path # q
      BY <1>2 DEF HasDent, L
    <2>9. ds = <<>> => L = 0
      BY DEF L
    <2>10. Tree(es)
      <3>1. es # <<>> => es[1].path = <<>> /\ es[1].mode = "dir" /\ es[1].parent = 1
        <4>1. CASE ds = <<>>
          BY <2>6, <2>7, <2>9, <4>1
        <4>2. CASE ds # <<>>
          BY <2>2, <2>3, <2>6, <4>2 DEF Tree
        <4> QED
          BY <4>1, <4>2
      <3>2. ASSUME NEW i \in 2 .. L + 1
            PROVE  LET p == es[i].parent IN
                   /\ p \in 1 .. i - 1 /\ es[p].mode = "dir" /\ es[i].path # <<>>
                   /\ es[p].path = Front(es[i].path)
        <4>1. CASE i = L + 1
          <5>1. ds # <<>> /\ q # <<>> /\ up \in 1 .. L /\ ds[up].mode = "dir" /\ ds[up].path = Front(q)
            BY <2>2, <2>3, <2>9, <4>1 DEF DirsOf, L
          <5> QED
            BY <2>2, <2>6, <2>7, <4>1, <5>1
        <4>2. CASE i # L + 1
          <5>1. i \in 2 .. L /\ i \in 1 .. L
            BY <2>2, <4>2
          <5>2. /\ ds[i].parent \in 1 .. i - 1 /\ ds[ds[i].parent].mode = "dir" /\ ds[i].path # <<>>
                /\ ds[ds[i].parent].path = Front(ds[i].path)
            BY <5>1 DEF Tree, L
          <5>3. ds[i].parent \in 1 .. L
            BY <2>2, <5>1, <5>2
          <5> QED
            BY <2>6, <5>1, <5>2, <5>3
        <4> QED
          BY <4>1, <4>2
      <3>3. \A i, j \in 1 .. L + 1 : es[i].path = es[j].path => i = j
        <4>1. \A i, j \in 1 .. L : ds[i].path = ds[j].path => i = j
          BY DEF Tree, L
        <4>2. \A i \in 1 .. L : es[i].path = ds[i].path /\ ds[i].path # q
          BY <2>6, <2>8
        <4>3. es[L + 1].path = q /\ \A i \in 1 .. L + 1 : i \in 1 .. L \/ i = L + 1
          BY <2>6, <2>7
        <4> QED
          BY <4>1, <4>2, <4>3
      <3> QED
        BY <2>6, <3>1, <3>2, <3>3 DEF Tree
    <2>11. DirSectors(es)
      <3> DEFINE c == DirCount(ds)
      <3>1. DirsOf(es) = IF mode = "dir" THEN DirsOf(ds) \cup {L + 1} ELSE DirsOf(ds)
        <4>1. \A i : i \in DirsOf(es) <=> i \in 1 .. L + 1 /\ es[i].mode = "dir"
          BY <2>6 DEF DirsOf
        <4>2. \A i : i \in DirsOf(ds) <=> i \in 1 .. L /\ ds[i].mode = "dir"
          BY DEF DirsOf, L
        <4>3. L + 1 \in 1 .. L + 1 /\ \A i \in 1 .. L : i \in 1 .. L + 1
          BY <2>2
        <4> QED
          <5>1. \A i : i \in 1 .. L + 1 <=> i \in 1 .. L \/ i = L + 1
            BY <2>6, <4>3
          <5>2. \A i \in 1 .. L : es[i].mode = ds[i].mode
            BY <2>6
          <5>3. \A i : i \in DirsOf(es) <=> i \in DirsOf(ds) \/ (i = L + 1 /\ mode = "dir")
            BY <2>6, <2>7, <4>1, <4>2, <5>1, <5>2
          <5> QED
            BY <5>3
      <3>2. L + 1 \notin DirsOf(ds)
        BY <2>2 DEF DirsOf, L
      <3>3. DirCount(es) = IF mode = "dir" THEN c + 1 ELSE c
        <4>1. DirCount(es) = Cardinality(DirsOf(es)) /\ c = Cardinality(DirsOf(ds))
          BY DEF DirCount, DirsOf
        <4>2. Cardinality(DirsOf(ds) \cup {L + 1}) = Cardinality(DirsOf(ds)) + 1
          BY <2>2, <3>2, FS_AddElement
        <4> QED
          BY <3>1, <4>1, <4>2
      <3>4. \A i \in DirsOf(ds) : es[i] = ds[i]
        BY <2>6 DEF DirsOf, L
      <3>5. c \in Nat
        BY <2>2
      <3> HIDE DEF c
      <3>6. es[1].sector = 22
        <4>1. CASE ds = <<>>
          <5>1. DirsOf(ds) = {}
            BY <4>1 DEF DirsOf
          <5>2. c = 0
            BY <5>1, FS_EmptySet DEF c, DirCount, DirsOf
          <5> QED
            BY <2>6, <2>7, <2>9, <4>1, <5>2 DEF c
        <4>2. CASE ds # <<>>
          BY <2>2, <2>3, <2>6, <4>2 DEF DirSectors
        <4> QED
          BY <4>1, <4>2
      <3>7. CASE mode = "dir"
        <4>1. es[L + 1].sector = 22 + c /\ DirsOf(es) = DirsOf(ds) \cup {L + 1} /\ DirCount(es) = c + 1
          BY <2>6, <2>7, <3>1, <3>3, <3>7 DEF c
        <4>2. /\ \A i \in DirsOf(ds) : ds[i].sector \in 22 .. 21 + c
              /\ \A i, j \in DirsOf(ds) : ds[i].sector = ds[j].sector => i = j
              /\ \A s \in 22 .. 21 + c : \E i \in DirsOf(ds) : ds[i].sector = s
          BY DEF DirSectors, c
        <4>3. \A i \in DirsOf(es) : es[i].sector \in 22 .. 21 + (c + 1)
          BY <3>4, <3>5, <4>1, <4>2
        <4>4. \A i, j \in DirsOf(es) : es[i].sector = es[j].sector => i = j
          BY <3>4, <3>5, <4>1, <4>2
        <4>5. ASSUME NEW s \in 22 .. 21 + (c + 1) PROVE \E i \in DirsOf(es) : es[i].sector = s
          <5>1. s = 22 + c \/ s \in 22 .. 21 + c
            BY <3>5
          <5> QED
            BY <3>4, <4>1, <4>2, <5>1
        <4> QED
          BY <3>6, <4>1, <4>3, <4>4, <4>5 DEF DirSectors
      <3>8. CASE mode # "dir"
        <4>1. DirsOf(es) = DirsOf(ds) /\ DirCount(es) = DirCount(ds)
          BY <3>1, <3>3, <3>8 DEF c
        <4> QED
          BY <3>4, <3>6, <4>1 DEF DirSectors
      <3> QED
        BY <3>7, <3>8
    <2>12. L + 1 \in 1 .. Len(es) /\ es # <<>> /\ ds \in Seq(Entries)
      BY <2>2, <2>6
    <2> QED
      BY <1>2, <2>1, <2>6, <2>7, <2>10, <2>11, <2>12 DEF L
  <1> QED
    BY <1>1, <1>2

\* The directory of a path's first n names.
LEMMA FrontOfPrefix ==
  ASSUME NEW p \in Seq(Nat), NEW n \in 1 .. Len(p)
  PROVE  /\ SubSeq(p, 1, n) \in Seq(Nat) /\ SubSeq(p, 1, n) # <<>>
         /\ Len(SubSeq(p, 1, n)) = n
         /\ Front(SubSeq(p, 1, n)) = SubSeq(p, 1, n - 1)
         /\ Last(SubSeq(p, 1, n)) = p[n]
  <1>1. /\ SubSeq(p, 1, n) \in Seq(Nat) /\ Len(SubSeq(p, 1, n)) = n
        /\ \A i \in 1 .. n : SubSeq(p, 1, n)[i] = p[i]
    BY SubSeqProperties
  <1>2. SubSeq(SubSeq(p, 1, n), 1, n - 1) = SubSeq(p, 1, n - 1)
    <2>1. /\ SubSeq(p, 1, n - 1) \in Seq(Nat) /\ Len(SubSeq(p, 1, n - 1)) = n - 1
          /\ \A i \in 1 .. n - 1 : SubSeq(p, 1, n - 1)[i] = p[i]
      BY SubSeqProperties
    <2>2. /\ SubSeq(SubSeq(p, 1, n), 1, n - 1) \in Seq(Nat)
          /\ Len(SubSeq(SubSeq(p, 1, n), 1, n - 1)) = n - 1
          /\ \A i \in 1 .. n - 1 : SubSeq(SubSeq(p, 1, n), 1, n - 1)[i] = p[i]
      BY <1>1, SubSeqProperties
    <2> QED
      BY <2>1, <2>2, SeqEqual
  <1> QED
    BY <1>1, <1>2 DEF Front, Last

\* assign_dent makes the directories a path needs and then its entry.
\* The entries on the way to p are directories.
Way(ds, p) ==
  \A i \in 1 .. Len(ds) : \A n \in 0 .. Len(p) - 1 :
    ds[i].path = SubSeq(p, 1, n) => ds[i].mode = "dir"

\* es is ds with the directories on the way to p, and p if it was not there.
Assigned(ds, p, mode, es) ==
  /\ Tree(es) /\ DirSectors(es) /\ es # <<>>
  /\ \E i \in 1 .. Len(es) : es[i].path = p
  /\ \E made :
       /\ Grown(ds, made, p) /\ Len(made) \in Nat
       /\ \/ es = made
          \/ /\ Len(es) = Len(made) + 1 /\ es[Len(es)].path = p /\ es[Len(es)].mode = mode
             /\ \A i \in 1 .. Len(made) : es[i] = made[i]
             /\ ~HasDent(made, p)

LEMMA AssignedEntries ==
  ASSUME NEW ds, Tree(ds), DirSectors(ds), NEW p \in Seq(Nat), p # <<>>, NEW mode \in Modes,
         Way(ds, p)
  PROVE  Assigned(ds, p, mode, AssignDent(ds, p, mode))
  <1> DEFINE L == Len(p)
             Inv(n, x) ==
               /\ Tree(x) /\ DirSectors(x) /\ Grown(ds, x, p)
               /\ n >= 1 => x # <<>> /\ \E i \in DirsOf(x) : x[i].path = SubSeq(p, 1, n - 1)
             D == [n \in 0 .. L |-> {x \in Seq(Entries) : Inv(n, x)}]
             Step(n, x) == AddDent(x, SubSeq(p, 1, n - 1), "dir")
             step == [y \in (1 .. L) \X Seq(Entries) |-> Step(y[1], y[2])]
             IsMade(f) == f = [n \in 0 .. L |-> IF n = 0 THEN ds ELSE Step(n, f[n - 1])]
             made == CHOOSE f : f = [n \in 0 .. L |-> IF n = 0 THEN ds ELSE AddDent(f[n - 1], SubSeq(p, 1, n - 1), "dir")]
  <1>1. L \in Nat \ {0}
    OBVIOUS
  <1>2. ds \in D[0]
    BY <1>1 DEF Tree, Grown
  <1>3. ASSUME NEW n \in 1 .. L, NEW x \in D[n - 1]
        PROVE  Step(n, x) \in D[n]
    <2> DEFINE q == SubSeq(p, 1, n - 1)
               es == AddDent(x, q, "dir")
    <2>1. n - 1 \in 0 .. L /\ Inv(n - 1, x) /\ x \in Seq(Entries)
      BY <1>3
    <2>2. q \in Seq(Nat) /\ (n = 1 => q = <<>>) /\ (n # 1 => n - 1 \in 1 .. L)
      BY <1>1, SubSeqProperties, SubSeqEmpty
    <2>3. x = <<>> => q = <<>>
      BY <2>1, <2>2
    <2>4. x # <<>> /\ q # <<>> => \E i \in DirsOf(x) : x[i].path = Front(q)
      <3> SUFFICES ASSUME q # <<>> PROVE \E i \in DirsOf(x) : x[i].path = Front(q)
        OBVIOUS
      <3>1. n - 1 \in 1 .. L /\ Front(q) = SubSeq(p, 1, n - 1 - 1)
        BY <2>2, FrontOfPrefix
      <3> QED
        BY <2>1, <3>1
    <2> HIDE DEF q
    <2>5. /\ Tree(es) /\ DirSectors(es) /\ es # <<>>
          /\ \E i \in 1 .. Len(es) : es[i].path = q
          /\ \/ es = x
             \/ /\ Len(es) = Len(x) + 1 /\ es[Len(es)].path = q /\ es[Len(es)].mode = "dir"
                /\ \A i \in 1 .. Len(x) : es[i] = x[i]
      <3>1. "dir" \in Modes
        BY DEF Modes
      <3>2. Tree(x) /\ DirSectors(x)
        BY <2>1
      <3>3. q \in Seq(Nat)
        BY <2>2
      <3> HIDE DEF L, Inv, D, Step, step, IsMade, made
      <3> QED
        BY <2>3, <2>4, <3>1, <3>2, <3>3, AddedEntry
    <2> HIDE DEF es
    <2>6. Grown(ds, es, p)
      <3>1. Grown(ds, x, p) /\ Len(x) \in Nat /\ Len(ds) \in Nat
        BY <2>1 DEF Tree
      <3>2. CASE es = x
        BY <3>1, <3>2
      <3>3. CASE Len(es) = Len(x) + 1 /\ es[Len(es)].path = q /\ es[Len(es)].mode = "dir"
                 /\ \A i \in 1 .. Len(x) : es[i] = x[i]
        <4>1. n - 1 \in 0 .. L - 1 /\ q = SubSeq(p, 1, n - 1)
          BY <1>1 DEF q
        <4>2. \A i \in 1 .. Len(ds) : es[i] = ds[i]
          BY <3>1, <3>3 DEF Grown
        <4>3. ASSUME NEW i \in Len(ds) + 1 .. Len(es)
              PROVE  es[i].mode = "dir" /\ \E m \in 0 .. L - 1 : es[i].path = SubSeq(p, 1, m)
          <5>1. i = Len(es) \/ (i \in 1 .. Len(x) /\ i \in Len(ds) + 1 .. Len(x))
            BY <3>1, <3>3
          <5> QED
            BY <3>1, <3>3, <4>1, <5>1 DEF Grown
        <4>4. Len(ds) <= Len(es)
          BY <3>1, <3>3 DEF Grown
        <4> HIDE DEF Inv, D, Step, step, IsMade, made
        <4> QED
          BY <4>2, <4>3, <4>4 DEF Grown
      <3> QED
        BY <2>5, <3>2, <3>3
    <2>7. \E i \in DirsOf(es) : es[i].path = SubSeq(p, 1, n - 1)
      <3>1. PICK i \in 1 .. Len(es) : es[i].path = q
        BY <2>5
      <3>2. n - 1 \in 0 .. L - 1 /\ q = SubSeq(p, 1, n - 1)
        BY <1>1 DEF q
      <3>3. Len(ds) \in Nat /\ Len(es) \in Nat
        <4> HIDE DEF Inv, D, Step, step, IsMade, made
        <4>1. ds \in Seq(Entries)
          BY DEF Tree
        <4>2. es \in Seq(Entries)
          BY <2>5 DEF Tree
        <4> QED
          BY <4>1, <4>2
      <3>4. es[i].mode = "dir"
        <4>1. CASE i \in 1 .. Len(ds)
          <5>1. es[i] = ds[i]
            BY <2>6, <4>1 DEF Grown
          <5>2. PICK m \in 0 .. Len(p) - 1 : ds[i].path = SubSeq(p, 1, m)
            BY <3>1, <3>2, <5>1
          <5> QED
            BY <4>1, <5>1, <5>2 DEF Way
        <4>2. CASE i \notin 1 .. Len(ds)
          <5>1. i \in Len(ds) + 1 .. Len(es)
            BY <3>1, <3>3, <4>2
          <5> QED
            BY <2>6, <5>1 DEF Grown
        <4> QED
          BY <4>1, <4>2
      <3> QED
        BY <3>1, <3>2, <3>4 DEF DirsOf
    <2>8. es \in Seq(Entries) /\ Inv(n, es)
      BY <2>5, <2>6, <2>7 DEF Tree
    <2>9. es \in D[n]
      BY <2>8
    <2> QED
      BY <2>9 DEF es, q
  <1>4. \A n \in 0 .. L : D[n] \subseteq Seq(Entries)
    OBVIOUS
  <1>5. \E f : IsMade(f)
    <2>1. \A n \in 0 + 1 .. L : \A x \in D[n - 1] : step[<<n, x>>] = Step(n, x) /\ step[<<n, x>>] \in D[n]
      <3> SUFFICES ASSUME NEW n \in 0 + 1 .. L, NEW x \in D[n - 1]
                   PROVE  step[<<n, x>>] = Step(n, x) /\ step[<<n, x>>] \in D[n]
        OBVIOUS
      <3>1. n \in 1 .. L /\ n - 1 \in 0 .. L
        BY <1>1
      <3>2. x \in Seq(Entries) /\ Step(n, x) \in D[n]
        BY <1>3, <3>1
      <3>3. step[<<n, x>>] = Step(n, x)
        BY <3>1, <3>2
      <3> QED
        BY <3>2, <3>3
    <2> HIDE DEF D, step, Step
    <2>2. 0 \in Nat /\ L \in Nat /\ \A n \in 0 + 1 .. L : \A x \in D[n - 1] : step[<<n, x>>] \in D[n]
      BY <1>1, <2>1
    <2>3. \E f : IsLoop(f, 0, L, ds, step) /\ \A n \in 0 .. L : f[n] \in D[n]
      BY <1>2, <2>2, LoopExists
    <2>4. PICK f : /\ f = [n \in 0 .. L |-> IF n = 0 THEN ds ELSE step[<<n, f[n - 1]>>]]
                   /\ \A n \in 0 .. L : f[n] \in D[n]
      BY <2>3 DEF IsLoop
    <2>5. \A n \in 0 .. L : n # 0 => n \in 0 + 1 .. L /\ n - 1 \in 0 .. L
      BY <1>1
    <2>6. \A n \in 0 .. L : n # 0 => step[<<n, f[n - 1]>>] = Step(n, f[n - 1])
      BY <2>1, <2>4, <2>5
    <2>7. f = [n \in 0 .. L |-> IF n = 0 THEN ds ELSE Step(n, f[n - 1])]
      BY <2>4, <2>6
    <2> QED
      BY <2>7
  <1>6. IsMade(made)
    BY <1>5
  <1>7. AssignDent(ds, p, mode) = AddDent(made[L], p, mode)
    BY DEF AssignDent
  <1> HIDE DEF made
  <1>8. Inv(L, made[L])
    <2> DEFINE S == {n \in 0 .. L : made[n] \in D[n]}
    <2>1. 0 \in S
      BY <1>1, <1>2, <1>6
    <2>2. ASSUME NEW n \in 0 + 1 .. L, n - 1 \in S PROVE n \in S
      <3>1. n \in 1 .. L /\ n \in 0 .. L /\ n # 0
        BY <1>1
      <3>2. made[n] = Step(n, made[n - 1])
        BY <1>6, <3>1
      <3>3. made[n - 1] \in D[n - 1]
        BY <2>2
      <3> HIDE DEF D, Step
      <3> QED
        BY <1>3, <3>1, <3>2, <3>3
    <2> HIDE DEF S
    <2>3. \A n \in 0 .. L : n \in S
      BY <1>1, <2>1, <2>2, Rounds, 0 \in Nat, L \in Nat
    <2> QED
      BY <1>1, <2>3 DEF S
  <1> DEFINE es == AddDent(made[L], p, mode)
  <1>9. /\ Tree(es) /\ DirSectors(es) /\ es # <<>>
        /\ \E i \in 1 .. Len(es) : es[i].path = p
        /\ \/ es = made[L]
           \/ /\ Len(es) = Len(made[L]) + 1 /\ es[Len(es)].path = p /\ es[Len(es)].mode = mode
              /\ \A i \in 1 .. Len(made[L]) : es[i] = made[L][i]
              /\ ~HasDent(made[L], p)
    <2>1. L \in 1 .. Len(p) /\ SubSeq(p, 1, L) = p
      BY <1>1, SubSeqFull
    <2>2. Front(p) = SubSeq(p, 1, L - 1)
      BY <2>1, FrontOfPrefix
    <2>3. made[L] # <<>> /\ \E i \in DirsOf(made[L]) : made[L][i].path = Front(p)
      BY <1>1, <1>8, <2>2
    <2>4. Tree(made[L]) /\ DirSectors(made[L])
      BY <1>8
    <2> QED
      BY <2>3, <2>4, AddedEntry
  <1>10. Grown(ds, made[L], p) /\ Len(made[L]) \in Nat
    BY <1>8 DEF Tree
  <1>11. Assigned(ds, p, mode, es)
    <2> HIDE DEF es
    <2> QED
      BY <1>9, <1>10 DEF Assigned
  <1> QED
    BY <1>7, <1>11
-----------------------------------------------------------------------------
(***************************************************************************)
(* The sort.                                                               *)
(***************************************************************************)
N        == Len(dents)
IsDir(i) == dents[i].mode = "dir"

\* The entries in another order, the root first.
Permutes(r) ==
  /\ r \in [1 .. N -> 1 .. N]
  /\ \A a, b \in 1 .. N : r[a] = r[b] => a = b
  /\ \A i \in 1 .. N : \E a \in 1 .. N : r[a] = i
  /\ r[1] = 1

\* The positions before i, but for the root's, are those of the least entries.
Ordered(r, i) ==
  \A a \in 2 .. i - 1 : \A b \in a + 1 .. N : ~After(dents[r[a]], dents[r[b]])

LEMMA AfterOrders ==
  ASSUME NEW x, NEW y, NEW z,
         x.parent \in Nat, y.parent \in Nat, z.parent \in Nat,
         Last(x.path) \in Nat, Last(y.path) \in Nat, Last(z.path) \in Nat,
         After(x, y)
  PROVE  ~After(y, x) /\ (~After(x, z) => ~After(y, z))
  BY DEF After

LEMMA EntryFacts ==
  ASSUME Tree(dents)
  PROVE  /\ N \in Nat
         /\ \A i \in 1 .. N : /\ dents[i] \in Entries /\ dents[i].path \in Seq(Nat)
                              /\ dents[i].parent \in Nat /\ dents[i].sector \in Nat
         /\ \A i \in 2 .. N : i \in 1 .. N /\ Last(dents[i].path) \in Nat
  <1>1. N \in Nat /\ \A i \in 1 .. N : dents[i] \in Entries
    BY DEF Tree, N
  <1>2. \A i \in 1 .. N : dents[i].path \in Seq(Nat) /\ dents[i].parent \in Nat /\ dents[i].sector \in Nat
    BY <1>1 DEF Entries
  <1>3. ASSUME NEW i \in 2 .. N PROVE i \in 1 .. N /\ Last(dents[i].path) \in Nat
    <2>1. i \in 1 .. N /\ dents[i].path # <<>> /\ dents[i].path \in Seq(Nat)
      BY <1>1, <1>2 DEF Tree, N
    <2>2. Len(dents[i].path) \in 1 .. Len(dents[i].path)
      BY <2>1
    <2> QED
      BY <2>1, <2>2 DEF Last
  <1> QED
    BY <1>1, <1>2, <1>3

\* The root stays where it is.
LEMMA RootStays ==
  ASSUME N \in Nat, NEW r, Permutes(r), NEW a \in 2 .. N
  PROVE  r[a] \in 2 .. N
  <1>1. a \in 1 .. N /\ 1 \in 1 .. N /\ a # 1
    OBVIOUS
  <1>2. r[a] # r[1]
    BY <1>1 DEF Permutes
  <1>3. r[a] \in 1 .. N /\ r[1] = 1
    BY <1>1 DEF Permutes
  <1> QED
    BY <1>2, <1>3

LEMMA OrderIsSeq ==
  ASSUME N \in Nat, NEW r \in [1 .. N -> 1 .. N]
  PROVE  Len(r) = N
  OBVIOUS

\* An exchange keeps the order before i and puts the lesser of the two at i.
LEMMA ExchangeKeeps ==
  ASSUME Tree(dents), NEW i \in 2 .. N, NEW j \in i + 1 .. N, NEW s,
         Permutes(s), Ordered(s, i),
         \A b \in i + 1 .. j - 1 : ~After(dents[s[i]], dents[s[b]])
  PROVE  LET t == Exchanged(s, i, j) IN
         /\ Permutes(t) /\ Ordered(t, i)
         /\ \A b \in i + 1 .. j : ~After(dents[t[i]], dents[t[b]])
  <1>1. N \in Nat /\ i \in 2 .. N /\ j \in 2 .. N /\ i # j /\ i \in 1 .. N /\ j \in 1 .. N
    BY EntryFacts
  <1>2. \A a \in 2 .. N : s[a] \in 2 .. N
    BY <1>1, RootStays
  <1>3. \A a \in 2 .. N : dents[s[a]].parent \in Nat /\ Last(dents[s[a]].path) \in Nat
    BY <1>2, EntryFacts
  <1>4. CASE ~After(dents[s[i]], dents[s[j]])
    <2>1. \A b \in i + 1 .. j : b = j \/ b \in i + 1 .. j - 1
      BY <1>1
    <2> QED
      BY <1>4, <2>1 DEF Exchanged
  <1>5. CASE After(dents[s[i]], dents[s[j]])
    <2> DEFINE t == Swap(s, i, j)
    <2>1. Exchanged(s, i, j) = t
      BY <1>5 DEF Exchanged
    <2>2. /\ t \in [1 .. N -> 1 .. N] /\ t[i] = s[j] /\ t[j] = s[i]
          /\ \A a \in 1 .. N : a # i /\ a # j => t[a] = s[a]
      BY <1>1 DEF Swap, Permutes
    <2> HIDE DEF t
    <2>3. Permutes(t)
      <3>1. \A a, b \in 1 .. N : t[a] = t[b] => a = b
        <4> DEFINE was(a) == IF a = i THEN j ELSE IF a = j THEN i ELSE a
        <4>1. \A a \in 1 .. N : t[a] = s[was(a)] /\ was(a) \in 1 .. N
          BY <1>1, <2>2
        <4>2. \A a, b \in 1 .. N : s[a] = s[b] => a = b
          BY DEF Permutes
        <4>3. \A a, b \in 1 .. N : t[a] = t[b] => was(a) = was(b)
          BY <4>1, <4>2
        <4> QED
          BY <4>3
      <3>2. ASSUME NEW e \in 1 .. N PROVE \E a \in 1 .. N : t[a] = e
        <4>1. PICK a \in 1 .. N : s[a] = e
          BY DEF Permutes
        <4>2. t[IF a = i THEN j ELSE IF a = j THEN i ELSE a] = e
          BY <1>1, <2>2, <4>1
        <4> QED
          BY <1>1, <4>2
      <3>3. t[1] = 1
        <4>1. 1 \in 1 .. N /\ 1 # i /\ 1 # j
          BY <1>1
        <4> QED
          BY <2>2, <4>1 DEF Permutes
      <3> QED
        BY <2>2, <3>1, <3>2, <3>3 DEF Permutes
    <2>4. Ordered(t, i)
      <3>1. ASSUME NEW a \in 2 .. i - 1, NEW b \in a + 1 .. N
            PROVE  ~After(dents[t[a]], dents[t[b]])
        <4>1. /\ t[a] = s[a] /\ i \in a + 1 .. N /\ j \in a + 1 .. N
              /\ t[b] = s[IF b = i THEN j ELSE IF b = j THEN i ELSE b]
          <5>1. a \in 1 .. N /\ b \in 1 .. N /\ a # i /\ a # j /\ i \in a + 1 .. N /\ j \in a + 1 .. N
            BY <1>1
          <5> QED
            BY <2>2, <5>1
        <4>2. (IF b = i THEN j ELSE IF b = j THEN i ELSE b) \in a + 1 .. N
          BY <4>1
        <4> QED
          BY <4>1, <4>2 DEF Ordered
      <3> QED
        BY <3>1 DEF Ordered
    <2>5. ASSUME NEW b \in i + 1 .. j PROVE ~After(dents[t[i]], dents[t[b]])
      <3>1. b = j \/ (b \in i + 1 .. j - 1 /\ b \in 2 .. N /\ b # i /\ b # j /\ b \in 1 .. N)
        BY <1>1
      <3>2. CASE b = j
        BY <1>1, <1>3, <1>5, <2>2, <3>2, AfterOrders
      <3>3. CASE b # j
        <4>1. t[b] = s[b] /\ ~After(dents[s[i]], dents[s[b]])
          BY <2>2, <3>1, <3>3
        <4> QED
          BY <1>1, <1>3, <1>5, <2>2, <3>1, <3>3, <4>1, AfterOrders
      <3> QED
        BY <3>2, <3>3
    <2> QED
      BY <2>1, <2>3, <2>4, <2>5
  <1> QED
    BY <1>4, <1>5

\* A round of the sort puts the least of the entries from i on at i.
LEMMA SinkOrders ==
  ASSUME Tree(dents), NEW i \in 2 .. N, NEW r, Permutes(r), Ordered(r, i)
  PROVE  Permutes(Sink(r, i)) /\ Ordered(Sink(r, i), i + 1)
  <1> DEFINE Inv(j, s) == /\ Permutes(s) /\ Ordered(s, i)
                          /\ \A b \in i + 1 .. j : ~After(dents[s[i]], dents[s[b]])
             D == [j \in i .. N |-> {s \in [1 .. N -> 1 .. N] : Inv(j, s)}]
             step == [y \in (i + 1 .. N) \X [1 .. N -> 1 .. N] |-> Exchanged(y[2], i, y[1])]
             IsSunk(f) == f = [j \in i .. N |-> IF j = i THEN r ELSE Exchanged(f[j - 1], i, j)]
             sunk == CHOOSE f : f = [j \in i .. Len(r) |-> IF j = i THEN r ELSE Exchanged(f[j - 1], i, j)]
  <1>1. N \in Nat /\ i \in Nat /\ i <= N /\ Len(r) = N
    BY EntryFacts, OrderIsSeq DEF Permutes
  <1>2. r \in D[i]
    <2>1. i \in i .. N /\ \A b : b \notin i + 1 .. i
      BY <1>1
    <2>2. r \in [1 .. N -> 1 .. N] /\ Inv(i, r)
      BY <2>1 DEF Permutes
    <2> QED
      BY <2>1, <2>2
  <1>3. ASSUME NEW j \in i + 1 .. N, NEW s \in D[j - 1]
        PROVE  /\ Exchanged(s, i, j) \in D[j] /\ s \in [1 .. N -> 1 .. N]
               /\ step[<<j, s>>] = Exchanged(s, i, j)
    <2>1. j - 1 \in i .. N /\ j \in i .. N
      BY <1>1
    <2>2. Inv(j - 1, s) /\ s \in [1 .. N -> 1 .. N]
      BY <2>1
    <2>3. Inv(j, Exchanged(s, i, j))
      BY <2>2, ExchangeKeeps
    <2>4. Exchanged(s, i, j) \in D[j]
      BY <2>1, <2>3 DEF Permutes
    <2>5. step[<<j, s>>] = Exchanged(s, i, j)
      BY <2>2
    <2> QED
      BY <2>2, <2>4, <2>5
  <1> HIDE DEF D, step
  <1>4. \E f : IsSunk(f)
    <2>1. PICK f : IsLoop(f, i, N, r, step) /\ \A j \in i .. N : f[j] \in D[j]
      <3>1. \A j \in i + 1 .. N : \A s \in D[j - 1] : step[<<j, s>>] \in D[j]
        BY <1>3
      <3> QED
        BY <1>1, <1>2, <3>1, LoopExists
    <2>2. \A j \in i .. N : j # i => j \in i + 1 .. N /\ j - 1 \in i .. N
      BY <1>1
    <2>3. \A j \in i .. N : j # i => step[<<j, f[j - 1]>>] = Exchanged(f[j - 1], i, j)
      BY <1>3, <2>1, <2>2
    <2> QED
      BY <2>1, <2>3 DEF IsLoop
  <1>5. IsSunk(sunk) /\ Sink(r, i) = sunk[N]
    BY <1>1, <1>4 DEF Sink
  <1> HIDE DEF sunk
  <1>6. sunk[N] \in D[N]
    <2> DEFINE S == {j \in i .. N : sunk[j] \in D[j]}
    <2>1. i \in S
      BY <1>1, <1>2, <1>5
    <2>2. ASSUME NEW j \in i + 1 .. N, j - 1 \in S PROVE j \in S
      <3>1. j \in i .. N /\ j # i
        BY <1>1
      <3>2. sunk[j] = Exchanged(sunk[j - 1], i, j) /\ sunk[j - 1] \in D[j - 1]
        BY <1>5, <2>2, <3>1
      <3> QED
        BY <1>3, <3>1, <3>2
    <2> HIDE DEF S
    <2>3. \A j \in i .. N : j \in S
      BY <1>1, <2>1, <2>2, Rounds
    <2> QED
      BY <1>1, <2>3 DEF S
  <1>7. Inv(N, sunk[N])
    <2>1. N \in i .. N
      BY <1>1
    <2>2. D[N] = {s \in [1 .. N -> 1 .. N] : Inv(N, s)}
      BY <2>1 DEF D
    <2> QED
      BY <1>6, <2>2
  <1>8. Ordered(sunk[N], i + 1)
    <2>1. \A a \in 2 .. i + 1 - 1 : a = i \/ a \in 2 .. i - 1
      BY <1>1
    <2> QED
      BY <1>7, <2>1 DEF Ordered
  <1> QED
    BY <1>5, <1>7, <1>8

\* Sorted by their parents, directories come before what they contain.
LEMMA ParentBefore ==
  ASSUME Tree(dents), Permutes(remap), Ordered(remap, N + 1), NEW a \in 2 .. N
  PROVE  \E b \in 1 .. a - 1 : remap[b] = dents[remap[a]].parent
  <1> DEFINE e == remap[a]
             p == dents[e].parent
  <1>1. N \in Nat /\ a \in 1 .. N /\ 1 \in 1 .. N
    BY EntryFacts
  <1>2. e \in 2 .. N
    BY <1>1, RootStays
  <1>3. p \in 1 .. e - 1 /\ p \in 1 .. N
    BY <1>1, <1>2 DEF Tree, N
  <1>4. PICK b \in 1 .. N : remap[b] = p
    BY <1>3 DEF Permutes
  <1>5. b < a
    <2>1. CASE p = 1
      BY <1>1, <1>4, <2>1 DEF Permutes
    <2>2. CASE p # 1
      <3>0. p \in 2 .. N
        BY <1>1, <1>2, <1>3, <2>2
      <3>1. dents[p].parent \in 1 .. p - 1 /\ dents[p].parent \in Nat /\ dents[e].parent \in Nat
        BY <1>2, <3>0, EntryFacts DEF Tree, N
      <3>2. After(dents[e], dents[p])
        BY <3>0, <3>1 DEF After
      <3>3. ~(b \in a + 1 .. N)
        BY <1>1, <1>4, <3>2 DEF Ordered
      <3>4. b # a
        BY <1>2, <1>3, <1>4
      <3> QED
        BY <1>1, <3>3, <3>4
    <2> QED
      BY <2>1, <2>2
  <1> QED
    BY <1>1, <1>4, <1>5
-----------------------------------------------------------------------------
(***************************************************************************)
(* The invariant.                                                          *)
(***************************************************************************)
Listing(n)   == manifest[n][1]
FirstLine(n) == \A m \in 1 .. n - 1 : Listing(m) # Listing(n)

\* The lines read are paths of one tree.
LinesInv ==
  /\ manifest \in Seq(Paths \X {"dat", "raw"})
  /\ \A n, m \in 1 .. Len(manifest) :
       Listing(n) = Listing(m) \/ ~IsPrefix(Listing(n), Listing(m))

\* The entries are the files listed and the directories on the way to them.
EntriesInv ==
  /\ Tree(dents) /\ DirSectors(dents)
  /\ \A i \in 1 .. N : ~IsDir(i) => \E n \in 1 .. Len(manifest) : Listing(n) = dents[i].path
  /\ \A i \in 1 .. N : IsDir(i) =>
       \E n \in 1 .. Len(manifest) : \E l \in 0 .. Len(Listing(n)) - 1 :
         dents[i].path = SubSeq(Listing(n), 1, l)
  /\ \A n \in 1 .. Len(manifest) : FirstLine(n) =>
       \E i \in 1 .. N : dents[i].path = Listing(n) /\ dents[i].mode = manifest[n][2]

Late == pc \in {"table", "place", "dirs", "done"}

PhaseInv ==
  /\ pc = "parse" \/ pc = "sort" \/ Late
  /\ pc # "parse" => dents # <<>>
  /\ pc = "sort" => k \in 2 .. N + 1
  /\ Late => k \in 1 .. N + 1
  /\ pc = "done" => k = N + 1

OrderInv ==
  /\ pc = "sort" => Permutes(remap) /\ Ordered(remap, k)
  /\ Late => Permutes(remap) /\ Ordered(remap, N + 1)

TableEntries == [path : Seq(Nat), sector : Nat, parent : Nat]

\* Every entry of a path table is that of a directory, and names its parent.
Sound(es) ==
  /\ es \in Seq(TableEntries)
  /\ \A n \in 1 .. Len(es) : \E i \in 1 .. N :
       /\ IsDir(i) /\ es[n].sector = dents[i].sector
       /\ es[n].parent \in 1 .. n
       /\ es[es[n].parent].sector = dents[dents[i].parent].sector

Complete(es) == Sound(es) /\ Len(es) = DirCount(dents)

\* The directories before position j have their numbers.
DirsBefore(j) == {a \in 1 .. j - 1 : IsDir(remap[a])}
Numbered(es, j) ==
  /\ Sound(es)
  /\ Len(es) = Cardinality(DirsBefore(j))
  /\ \A a \in DirsBefore(j) :
       /\ pathRemap[remap[a]] \in 1 .. Len(es)
       /\ es[pathRemap[remap[a]]].sector = dents[remap[a]].sector

TablesInv ==
  /\ pc \in {"parse", "sort"} => tables = << <<>>, <<>> >>
  /\ pc = "table" =>
       /\ pass \in {1, 2} /\ DOMAIN tables = {1, 2} /\ DOMAIN pathRemap = 1 .. N
       /\ pass = 1 => tables[2] = <<>>
       /\ Numbered(tables[pass], k)
  /\ Late => \A t \in {18, 19, 20, 21} \cap DOMAIN image : Complete(image[t].entries)

\* Which sectors have been written.
FirstFree == 22 + DirCount(dents)
FileArea  == FirstFree .. sectorCount - 1
DirArea(j) == {dents[i].sector : i \in {i \in 1 .. j - 1 : IsDir(i)}}

LayoutInv ==
  /\ pc \in {"parse", "sort"} => image = <<>>
  /\ Late => sectorCount \in Nat /\ sectorCount >= FirstFree
  /\ pc = "table" => /\ sectorCount = FirstFree
                     /\ DOMAIN image = 0 .. 15 \cup (IF pass = 1 THEN {} ELSE 18 .. 19)
  /\ pc = "place" => DOMAIN image = 0 .. 15 \cup 18 .. 21 \cup FileArea
  /\ pc = "dirs"  => DOMAIN image = 0 .. 15 \cup 18 .. 21 \cup DirArea(k) \cup FileArea
  /\ pc = "done"  => DOMAIN image = 0 .. sectorCount - 1

\* The files placed, and the directories written.
Placed(i) ==
  LET d == dents[i]  n == lengths[d.path] IN
  /\ d.path \in DOMAIN lengths /\ n \in Nat
  /\ d.length = RecordLength(d.mode, n)
  /\ \A j \in 1 .. FileSectors(d.mode, n) :
       /\ d.sector + j - 1 \in DOMAIN image
       /\ image[d.sector + j - 1] = [kind |-> "data", path |-> d.path, part |-> j]

ContentsInv ==
  /\ pc = "place" => \A i \in 1 .. k - 1 : ~IsDir(i) => Placed(i)
  /\ pc \in {"dirs", "done"} =>
       /\ \A i \in 1 .. N : ~IsDir(i) => Placed(i)
       /\ \A i \in 1 .. k - 1 : IsDir(i) => image[dents[i].sector] = DirSector(i)
  /\ pc = "done" => image[16].root = 22 /\ image[16].size = sectorCount

IInv == LinesInv /\ EntriesInv /\ PhaseInv /\ OrderInv /\ TablesInv /\ LayoutInv /\ ContentsInv

Kept == \A s \in DOMAIN image : s \in DOMAIN image' /\ image'[s] = image[s]

LEMMA PathFacts ==
  ASSUME LinesInv, NEW n \in 1 .. Len(manifest)
  PROVE  /\ Listing(n) \in Paths /\ Listing(n) \in Seq(Nat) /\ Listing(n) # <<>>
         /\ Len(Listing(n)) \in Nat \ {0} /\ manifest[n][2] \in {"dat", "raw"}
  <1>1. manifest[n] \in Paths \X {"dat", "raw"}
    BY DEF LinesInv
  <1>2. Listing(n) \in Paths /\ manifest[n][2] \in {"dat", "raw"}
    BY <1>1 DEF Listing
  <1>3. Listing(n) \in Seq(Nat) /\ Listing(n) # <<>>
    BY <1>2, PathsAssumption
  <1> QED
    BY <1>2, <1>3

LEMMA PrefixOf ==
  ASSUME NEW p \in Seq(Nat), NEW n \in 0 .. Len(p) - 1, NEW q \in Seq(Nat), q = SubSeq(p, 1, n)
  PROVE  q # p /\ IsPrefix(q, p)
  <1>1. Len(q) = n
    BY SubSeqProperties
  <1>2. SubSeq(q, 1, Len(q)) = q
    BY SubSeqFull
  <1> QED
    BY <1>1, <1>2 DEF IsPrefix

\* A line of the manifest.
LEMMA LineInv ==
  ASSUME IInv, NEW p \in Paths, NEW mode \in {"dat", "raw"}, Line(p, mode)
  PROVE  IInv'
  <1>1. /\ pc = "parse" /\ InOneTree(p)
        /\ manifest' = Append(manifest, <<p, mode>>)
        /\ dents' = AssignDent(dents, p, mode)
        /\ UNCHANGED <<pc, remap, k, pass, tables, pathRemap, lengths, sectorCount, image>>
    BY DEF Line
  <1>2. /\ p \in Seq(Nat) /\ p # <<>> /\ Len(p) \in Nat /\ mode \in Modes /\ mode # "dir"
        /\ LinesInv /\ EntriesInv
    BY PathsAssumption DEF Modes, IInv
  <1>3. PICK M \in Nat : M = Len(manifest) /\ manifest \in Seq(Paths \X {"dat", "raw"})
    BY <1>2 DEF LinesInv
  <1>4. /\ manifest' \in Seq(Paths \X {"dat", "raw"}) /\ Len(manifest') = M + 1
        /\ \A n \in 1 .. M : manifest'[n] = manifest[n] /\ Listing(n)' = Listing(n)
        /\ manifest'[M + 1] = <<p, mode>> /\ Listing(M + 1)' = p
        /\ \A n \in 1 .. M + 1 : n \in 1 .. M \/ n = M + 1
    <2>1. PICK x \in Paths \X {"dat", "raw"} : x = <<p, mode>>
      OBVIOUS
    <2>2. /\ Append(manifest, x) \in Seq(Paths \X {"dat", "raw"})
          /\ Len(Append(manifest, x)) = M + 1
          /\ \A n \in 1 .. M : Append(manifest, x)[n] = manifest[n]
          /\ Append(manifest, x)[M + 1] = x
      BY <1>3, AppendProperties
    <2>3. \A n \in 1 .. M + 1 : n \in 1 .. M \/ n = M + 1
      OBVIOUS
    <2>4. manifest' = Append(manifest, x)
      BY <1>1, <2>1
    <2> QED
      BY <2>1, <2>2, <2>3, <2>4 DEF Listing
  <1> DEFINE es == dents'
  <1>5. \A n \in 1 .. M : p = Listing(n) \/ ~(IsPrefix(p, Listing(n)) \/ IsPrefix(Listing(n), p))
    BY <1>1, <1>3 DEF InOneTree, Listing
  <1>6. LinesInv'
    <2>1. \A n, m \in 1 .. M + 1 : Listing(n)' = Listing(m)' \/ ~IsPrefix(Listing(n)', Listing(m)')
      <3>1. \A n, m \in 1 .. M : Listing(n) = Listing(m) \/ ~IsPrefix(Listing(n), Listing(m))
        BY <1>2, <1>3 DEF LinesInv
      <3>2. ASSUME NEW n \in 1 .. M + 1, NEW m \in 1 .. M + 1
            PROVE  Listing(n)' = Listing(m)' \/ ~IsPrefix(Listing(n)', Listing(m)')
        <4>1. CASE n \in 1 .. M /\ m \in 1 .. M
          BY <1>4, <3>1, <4>1
        <4>2. CASE n \in 1 .. M /\ m = M + 1
          BY <1>4, <1>5, <4>2
        <4>3. CASE n = M + 1 /\ m \in 1 .. M
          BY <1>4, <1>5, <4>3
        <4> QED
          BY <1>4, <4>1, <4>2, <4>3
      <3> QED
        BY <3>2
    <2> QED
      BY <1>4, <2>1 DEF LinesInv
  \* A file listed is never a directory on the way to another.
  <1>7. \A i \in 1 .. N : \A l \in 0 .. Len(p) - 1 : dents[i].path = SubSeq(p, 1, l) => IsDir(i)
    <2> SUFFICES ASSUME NEW i \in 1 .. N, NEW l \in 0 .. Len(p) - 1, dents[i].path = SubSeq(p, 1, l), ~IsDir(i)
                 PROVE  FALSE
      OBVIOUS
    <2>1. PICK n \in 1 .. M : Listing(n) = dents[i].path
      BY <1>2, <1>3 DEF EntriesInv
    <2>2. Listing(n) # p /\ IsPrefix(Listing(n), p)
      BY <1>2, <1>3, <2>1, PathFacts, PrefixOf
    <2> QED
      BY <1>5, <2>2
  <1>8. \A i \in 1 .. N : dents[i].path = p => ~IsDir(i)
    <2> SUFFICES ASSUME NEW i \in 1 .. N, dents[i].path = p, IsDir(i) PROVE FALSE
      OBVIOUS
    <2>1. PICK n \in 1 .. M : \E l \in 0 .. Len(Listing(n)) - 1 : p = SubSeq(Listing(n), 1, l)
      BY <1>2, <1>3 DEF EntriesInv
    <2>2. p # Listing(n) /\ IsPrefix(p, Listing(n))
      BY <1>2, <1>3, <2>1, PathFacts, PrefixOf
    <2> QED
      BY <1>5, <2>2
  <1>9. /\ Tree(es) /\ DirSectors(es) /\ es # <<>>
        /\ \E i \in 1 .. Len(es) : es[i].path = p
        /\ \E made :
             /\ Grown(dents, made, p) /\ Len(made) \in Nat
             /\ \/ es = made
                \/ /\ Len(es) = Len(made) + 1 /\ es[Len(es)].path = p /\ es[Len(es)].mode = mode
                   /\ \A i \in 1 .. Len(made) : es[i] = made[i]
                   /\ ~HasDent(made, p)
    <2>1. Way(dents, p)
      BY <1>7 DEF Way, N, IsDir
    <2>2. Tree(dents) /\ DirSectors(dents)
      BY <1>2 DEF EntriesInv
    <2>3. p \in Seq(Nat) /\ p # <<>> /\ mode \in Modes
      BY <1>2
    <2>4. Assigned(dents, p, mode, AssignDent(dents, p, mode))
      BY <2>1, <2>2, <2>3, AssignedEntries
    <2> QED
      BY <1>1, <2>4 DEF Assigned
  <1>10. PICK made :
           /\ Grown(dents, made, p) /\ Len(made) \in Nat
           /\ \/ es = made
              \/ /\ Len(es) = Len(made) + 1 /\ es[Len(es)].path = p /\ es[Len(es)].mode = mode
                 /\ \A i \in 1 .. Len(made) : es[i] = made[i]
                 /\ ~HasDent(made, p)
    BY <1>9
  <1>11. N \in Nat /\ N' = Len(es) /\ Len(es) \in Nat /\ Len(es) >= Len(made) /\ Len(made) >= N
         /\ \A i : IsDir(i)' <=> es[i].mode = "dir"
    BY <1>2, <1>9, <1>10, EntryFacts DEF EntriesInv, Grown, N, Tree, IsDir
  <1>12. \A i \in 1 .. N : i \in 1 .. Len(es) /\ es[i] = dents[i]
    BY <1>10, <1>11 DEF Grown, N
  <1>13. ASSUME NEW i \in 1 .. Len(es)
         PROVE  \/ i \in 1 .. N
                \/ es[i].mode = "dir" /\ \E l \in 0 .. Len(p) - 1 : es[i].path = SubSeq(p, 1, l)
                \/ es[i].path = p /\ es[i].mode = mode
    <2>1. i \in 1 .. N \/ (i \in N + 1 .. Len(made) /\ i \in 1 .. Len(made)) \/ (i = Len(es) /\ Len(es) = Len(made) + 1)
      BY <1>10, <1>11
    <2>2. ASSUME i \in N + 1 .. Len(made), i \in 1 .. Len(made)
          PROVE  es[i].mode = "dir" /\ \E l \in 0 .. Len(p) - 1 : es[i].path = SubSeq(p, 1, l)
      BY <1>10, <2>2 DEF Grown, N
    <2> QED
      BY <1>10, <2>1, <2>2
  <1>14. \A l \in 0 .. Len(p) - 1 : SubSeq(p, 1, l) # p
    BY <1>2, PrefixOf
  <1>15. EntriesInv'
    <2>1. ASSUME NEW i \in 1 .. N', ~IsDir(i)'
          PROVE  \E n \in 1 .. M + 1 : Listing(n)' = es[i].path
      <3>1. CASE i \in 1 .. N
        <4>1. ~IsDir(i) /\ es[i] = dents[i]
          BY <1>11, <1>12, <2>1, <3>1 DEF IsDir
        <4>2. PICK n \in 1 .. M : Listing(n) = dents[i].path
          BY <1>2, <1>3, <3>1, <4>1 DEF EntriesInv
        <4>3. n \in 1 .. M + 1 /\ Listing(n)' = Listing(n)
          BY <1>3, <1>4
        <4> QED
          BY <4>1, <4>2, <4>3
      <3>2. CASE i \notin 1 .. N
        <4>1. i \in 1 .. Len(es) /\ es[i].mode # "dir"
          BY <1>11, <2>1
        <4>2. es[i].path = p
          BY <1>13, <3>2, <4>1
        <4>3. M + 1 \in 1 .. M + 1
          BY <1>3
        <4> QED
          BY <1>4, <4>2, <4>3
      <3> QED
        BY <3>1, <3>2
    <2>2. ASSUME NEW i \in 1 .. N', IsDir(i)'
          PROVE  \E n \in 1 .. M + 1 : \E l \in 0 .. Len(Listing(n)') - 1 : es[i].path = SubSeq(Listing(n)', 1, l)
      <3>1. CASE i \in 1 .. N
        <4>1. IsDir(i) /\ es[i] = dents[i]
          BY <1>11, <1>12, <2>2, <3>1 DEF IsDir
        <4>2. PICK n \in 1 .. M : \E l \in 0 .. Len(Listing(n)) - 1 : dents[i].path = SubSeq(Listing(n), 1, l)
          BY <1>2, <1>3, <3>1, <4>1 DEF EntriesInv
        <4>3. n \in 1 .. M + 1 /\ Listing(n)' = Listing(n)
          BY <1>3, <1>4
        <4> QED
          BY <4>1, <4>2, <4>3
      <3>2. CASE i \notin 1 .. N
        <4>1. \E l \in 0 .. Len(p) - 1 : es[i].path = SubSeq(p, 1, l)
          <5>1. i \in 1 .. Len(es) /\ es[i].mode = "dir"
            BY <1>11, <2>2
          <5> QED
            BY <1>2, <1>13, <3>2, <5>1
        <4>2. M + 1 \in 1 .. M + 1
          BY <1>3
        <4> QED
          BY <1>4, <4>1, <4>2
      <3> QED
        BY <3>1, <3>2
    <2>3. ASSUME NEW n \in 1 .. M + 1, FirstLine(n)'
          PROVE  \E i \in 1 .. N' : es[i].path = Listing(n)' /\ es[i].mode = manifest'[n][2]
      <3>1. \A m \in 1 .. n - 1 : Listing(m)' # Listing(n)'
        BY <2>3 DEF FirstLine
      <3>2. CASE n \in 1 .. M
        <4>1. \A m \in 1 .. n - 1 : m \in 1 .. M
          BY <1>3, <3>2
        <4>2. FirstLine(n)
          BY <1>4, <3>1, <3>2, <4>1 DEF FirstLine
        <4>3. PICK i \in 1 .. N : dents[i].path = Listing(n) /\ dents[i].mode = manifest[n][2]
          BY <1>2, <1>3, <3>2, <4>2 DEF EntriesInv
        <4> QED
          BY <1>4, <1>11, <1>12, <3>2, <4>3
      <3>3. CASE n = M + 1
        <4>1. PICK i \in 1 .. Len(es) : es[i].path = p
          BY <1>9
        <4>2. i \notin 1 .. N
          <5> SUFFICES ASSUME i \in 1 .. N PROVE FALSE
            OBVIOUS
          <5>1. dents[i].path = p /\ ~IsDir(i)
            BY <1>8, <1>12, <4>1
          <5>2. PICK m \in 1 .. M : Listing(m) = p
            BY <1>2, <1>3, <5>1 DEF EntriesInv
          <5>3. m \in 1 .. n - 1
            BY <1>3, <3>3
          <5>4. Listing(m)' = p /\ Listing(n)' = p
            BY <1>4, <3>3, <5>2
          <5> QED
            BY <3>1, <5>3, <5>4
        <4>3. es[i].mode = mode
          BY <1>13, <1>14, <4>1, <4>2
        <4>4. Listing(n)' = p /\ manifest'[n][2] = mode /\ i \in 1 .. N'
          BY <1>4, <1>11, <3>3
        <4> QED
          BY <4>1, <4>3, <4>4
      <3> QED
        BY <1>4, <3>2, <3>3
    <2> QED
      BY <1>4, <1>9, <2>1, <2>2, <2>3 DEF EntriesInv
  <1>16. PhaseInv' /\ OrderInv' /\ TablesInv' /\ LayoutInv' /\ ContentsInv'
    BY <1>1 DEF IInv, PhaseInv, OrderInv, TablesInv, LayoutInv, ContentsInv, Late
  <1> QED
    BY <1>6, <1>15, <1>16 DEF IInv

\* Where the manifest and the entries stay as they are.
LEMMA SameEntries ==
  ASSUME LinesInv, EntriesInv, UNCHANGED <<manifest, dents>>
  PROVE  /\ LinesInv' /\ EntriesInv' /\ N' = N /\ FirstFree' = FirstFree
         /\ \A i : IsDir(i)' = IsDir(i)
         /\ \A es : (Sound(es) => Sound(es)') /\ (Complete(es) => Complete(es)')
  <1>1. N' = N /\ FirstFree' = FirstFree /\ \A i : IsDir(i)' = IsDir(i)
    BY DEF N, FirstFree, IsDir
  <1>2. LinesInv' /\ \A n : Listing(n)' = Listing(n) /\ FirstLine(n)' = FirstLine(n)
    BY DEF LinesInv, Listing, FirstLine
  <1>3. EntriesInv'
    BY <1>1, <1>2 DEF EntriesInv
  <1>4. \A es : (Sound(es) => Sound(es)') /\ (Complete(es) => Complete(es)')
    BY <1>1 DEF Sound, Complete
  <1> QED
    BY <1>1, <1>2, <1>3, <1>4

LEMMA EndManifestInv ==
  ASSUME IInv, EndManifest
  PROVE  IInv'
  <1>1. /\ pc = "parse" /\ manifest # <<>> /\ pc' = "sort" /\ k' = 2
        /\ remap' = [i \in 1 .. N |-> i]
        /\ UNCHANGED <<manifest, dents, pass, tables, pathRemap, lengths, sectorCount, image>>
    BY DEF EndManifest, N
  <1>2. /\ LinesInv' /\ EntriesInv' /\ N' = N /\ N \in Nat
        /\ manifest \in Seq(Paths \X {"dat", "raw"})
    BY <1>1, SameEntries, EntryFacts DEF IInv, EntriesInv, LinesInv
  <1>3. dents # <<>> /\ N >= 1
    <2>1. 1 \in 1 .. Len(manifest) /\ FirstLine(1)
      BY <1>1, <1>2 DEF FirstLine
    <2>2. \E i \in 1 .. N : TRUE
      BY <2>1 DEF IInv, EntriesInv
    <2> QED
      BY <1>2, <2>2 DEF N
  <1>4. Permutes(remap)' /\ Ordered(remap, k)'
    <2>1. N' \in Nat /\ 1 \in 1 .. N' /\ remap' = [i \in 1 .. N' |-> i] /\ \A a : a \notin 2 .. k' - 1
      BY <1>1, <1>2, <1>3
    <2>2. Permutes(remap)'
      BY <2>1 DEF Permutes
    <2> QED
      BY <2>1, <2>2 DEF Ordered
  <1>5. PhaseInv' /\ OrderInv' /\ TablesInv' /\ LayoutInv' /\ ContentsInv'
    BY <1>1, <1>2, <1>3, <1>4 DEF IInv, PhaseInv, OrderInv, TablesInv, LayoutInv, ContentsInv, Late
  <1> QED
    BY <1>2, <1>5 DEF IInv

LEMMA SortPassInv ==
  ASSUME IInv, SortPass
  PROVE  IInv'
  <1>1. /\ pc = "sort" /\ k <= N /\ remap' = Sink(remap, k) /\ k' = k + 1
        /\ UNCHANGED <<pc, manifest, dents, pass, tables, pathRemap, lengths, sectorCount, image>>
    BY DEF SortPass, N
  <1>2. LinesInv' /\ EntriesInv' /\ N' = N /\ N \in Nat
    BY <1>1, SameEntries, EntryFacts DEF IInv, EntriesInv
  <1>3. k \in 2 .. N /\ Permutes(remap) /\ Ordered(remap, k)
    BY <1>1, <1>2 DEF IInv, PhaseInv, OrderInv
  <1>4. Permutes(remap') /\ Ordered(remap', k + 1)
    BY <1>1, <1>3, SinkOrders DEF IInv, EntriesInv
  <1>5. Permutes(remap)' /\ Ordered(remap, k)'
    BY <1>1, <1>2, <1>4 DEF Permutes, Ordered
  <1>6. PhaseInv' /\ OrderInv' /\ TablesInv' /\ LayoutInv' /\ ContentsInv'
    BY <1>1, <1>2, <1>3, <1>5 DEF IInv, PhaseInv, OrderInv, TablesInv, LayoutInv, ContentsInv, Late
  <1> QED
    BY <1>2, <1>6 DEF IInv
-----------------------------------------------------------------------------
(***************************************************************************)
(* The sectors.                                                            *)
(***************************************************************************)
\* Sectors written where there were none.
LEMMA WrittenFresh ==
  ASSUME NEW s \in Nat, NEW len \in Nat, NEW c, Len(c) = len, NEW W, W = s .. s + len - 1,
         DOMAIN image \cap W = {}, image' = Written(s, c)
  PROVE  DOMAIN image' = DOMAIN image \cup W /\ Kept
  <1>1. image' = [t \in DOMAIN image \cup W |-> IF t \in W THEN c[t - s + 1] ELSE image[t]]
    BY DEF Written
  <1>3. DOMAIN image' = DOMAIN image \cup W
    BY <1>1
  <1>4. \A t \in DOMAIN image : t \notin W /\ image'[t] = image[t]
    BY <1>1
  <1> QED
    BY <1>3, <1>4 DEF Kept

LEMMA SameFacts ==
  ASSUME NEW x, NEW n \in Nat
  PROVE  Len(Same(x, n)) = n /\ \A i \in 1 .. n : Same(x, n)[i] = x
  BY DEF Same

LEMMA BeginImageInv ==
  ASSUME IInv, BeginImage
  PROVE  IInv' /\ Kept
  <1>1. /\ pc = "sort" /\ k > N /\ pc' = "table" /\ k' = 1 /\ pass' = 1
        /\ image' = Written(0, Same([kind |-> "licence"], 16))
        /\ sectorCount' = FirstFree
        /\ pathRemap' = [i \in 1 .. N |-> 0]
        /\ UNCHANGED <<manifest, dents, remap, tables, lengths>>
    BY DEF BeginImage, N, FirstFileSector, FirstFree
  <1>2. /\ LinesInv' /\ EntriesInv' /\ N' = N /\ N \in Nat /\ FirstFree' = FirstFree
        /\ FirstFree \in Nat
    <2>1. DirCount(dents) \in Nat
      BY DirCountIsNat, EntryFacts DEF IInv, EntriesInv, N
    <2>2. LinesInv /\ EntriesInv /\ Tree(dents) /\ N \in Nat /\ UNCHANGED <<manifest, dents>>
      BY <1>1, EntryFacts DEF IInv, EntriesInv
    <2>3. FirstFree \in Nat /\ FirstFree >= 22
      BY <2>1 DEF FirstFree
    <2> QED
      BY <2>2, <2>3, SameEntries
  <1>3. k = N + 1 /\ Permutes(remap) /\ Ordered(remap, N + 1) /\ image = <<>> /\ dents # <<>>
        /\ tables = << <<>>, <<>> >>
    BY <1>1, <1>2 DEF IInv, PhaseInv, OrderInv, LayoutInv, TablesInv
  <1>4. DOMAIN image' = 0 .. 15 /\ Kept
    <2>1. DOMAIN image = {}
      BY <1>3
    <2>2. PICK x : x = [kind |-> "licence"]
      OBVIOUS
    <2>3. PICK s \in Nat, len \in Nat : s = 0 /\ len = 16
      OBVIOUS
    <2>4. PICK c, W : c = Same(x, len) /\ W = s .. s + len - 1
      OBVIOUS
    <2>5. Len(c) = len /\ W = 0 .. 15 /\ DOMAIN image \cap W = {}
      <3>1. Len(c) = len
        BY <2>4, SameFacts
      <3>2. W = 0 .. 15
        BY <2>3, <2>4
      <3>3. DOMAIN image \cap W = {}
        BY <2>1
      <3> QED
        BY <3>1, <3>2, <3>3
    <2>6. image' = Written(s, c)
      BY <1>1, <2>2, <2>3, <2>4
    <2>7. DOMAIN image' = DOMAIN image \cup W /\ Kept
      BY <2>4, <2>5, <2>6, WrittenFresh
    <2> QED
      BY <2>1, <2>5, <2>7
  <1>5. Permutes(remap)' /\ Ordered(remap, N + 1)'
    BY <1>1, <1>2, <1>3 DEF Permutes, Ordered
  <1>6. Numbered(tables[pass], k)'
    <2>1. tables'[pass'] = <<>>
      BY <1>1, <1>3
    <2>2. DirsBefore(k)' = {}
      BY <1>1 DEF DirsBefore
    <2>3. Cardinality(DirsBefore(k)') = 0
      BY <2>2, FS_EmptySet
    <2>4. Sound(tables[pass])'
      BY <2>1 DEF Sound
    <2> QED
      BY <2>1, <2>2, <2>3, <2>4 DEF Numbered
  <1>7. TablesInv'
    <2>1. DOMAIN tables' = {1, 2} /\ tables'[2] = <<>> /\ DOMAIN pathRemap' = 1 .. N'
      BY <1>1, <1>2, <1>3
    <2>2. {18, 19, 20, 21} \cap DOMAIN image' = {}
      BY <1>4
    <2> QED
      BY <1>1, <1>6, <2>1, <2>2 DEF TablesInv
  <1>8. PhaseInv' /\ OrderInv' /\ LayoutInv' /\ ContentsInv'
    BY <1>1, <1>2, <1>3, <1>4, <1>5 DEF PhaseInv, OrderInv, LayoutInv, ContentsInv, Late
  <1> QED
    BY <1>2, <1>4, <1>7, <1>8 DEF IInv

\* An entry of a path table: its parent has a number by now.
LEMMA PathEntryInv ==
  ASSUME IInv, PathEntry
  PROVE  IInv' /\ Kept
  <1>1. /\ pc = "table" /\ k <= N /\ k' = k + 1
        /\ UNCHANGED <<manifest, dents, remap, pass, lengths, sectorCount, image>>
    BY DEF PathEntry, N
  <1>2. /\ LinesInv' /\ EntriesInv' /\ N' = N /\ N \in Nat /\ FirstFree' = FirstFree
        /\ Tree(dents) /\ \A i : IsDir(i)' = IsDir(i)
        /\ \A es : (Sound(es) => Sound(es)') /\ (Complete(es) => Complete(es)')
    BY <1>1, SameEntries, EntryFacts DEF IInv, EntriesInv
  <1>3. /\ k \in 1 .. N /\ Permutes(remap) /\ Ordered(remap, N + 1)
        /\ pass \in {1, 2} /\ DOMAIN tables = {1, 2} /\ DOMAIN pathRemap = 1 .. N
        /\ (pass = 1 => tables[2] = <<>>) /\ Numbered(tables[pass], k)
    BY <1>1, <1>2 DEF IInv, PhaseInv, OrderInv, TablesInv, Late
  <1>4. PICK me \in 1 .. N : me = remap[k]
    BY <1>3 DEF Permutes
  <1>5. PICK d : d = dents[me] /\ d \in Entries /\ d.parent \in Nat /\ d.sector \in Nat /\ d.path \in Seq(Nat)
    BY <1>2, EntryFacts
  <1>6. PICK es \in Seq(TableEntries), len \in Nat : es = tables[pass] /\ len = Len(es)
    BY <1>3 DEF Numbered, Sound
  <1>7. /\ Sound(es) /\ len = Cardinality(DirsBefore(k))
        /\ \A a \in DirsBefore(k) :
             /\ pathRemap[remap[a]] \in 1 .. len
             /\ es[pathRemap[remap[a]]].sector = dents[remap[a]].sector
    BY <1>3, <1>6 DEF Numbered
  <1>8. IsFiniteSet(DirsBefore(k)) /\ k \notin DirsBefore(k)
    <2>1. IsFiniteSet(1 .. k - 1)
      <3>1. PICK c \in Int : c = k - 1
        BY <1>3
      <3> QED
        BY <3>1, FS_Interval
    <2>2. DirsBefore(k) \in SUBSET (1 .. k - 1)
      BY DEF DirsBefore
    <2> QED
      BY <1>3, <2>1, <2>2, FS_Subset DEF DirsBefore
  <1>9. k = 1 => me = 1 /\ d.parent = 1 /\ len = 0
    <2> SUFFICES ASSUME k = 1 PROVE me = 1 /\ d.parent = 1 /\ len = 0
      OBVIOUS
    <2>1. me = 1
      BY <1>3, <1>4 DEF Permutes
    <2>2. dents # <<>>
      BY <1>3 DEF N
    <2>3. d.parent = 1
      BY <1>2, <1>5, <2>1, <2>2 DEF Tree
    <2>4. DirsBefore(k) = {}
      BY DEF DirsBefore
    <2> QED
      BY <1>7, <2>1, <2>3, <2>4, FS_EmptySet
  <1>10. k # 1 => /\ d.parent \in 1 .. N /\ d.parent # me /\ len # 0
                  /\ pathRemap[d.parent] \in 1 .. len
                  /\ es[pathRemap[d.parent]].sector = dents[d.parent].sector
    <2> SUFFICES ASSUME k # 1 
                 PROVE  /\ d.parent \in 1 .. N /\ d.parent # me /\ len # 0
                        /\ pathRemap[d.parent] \in 1 .. len
                        /\ es[pathRemap[d.parent]].sector = dents[d.parent].sector
      OBVIOUS
    <2>1. k \in 2 .. N
      BY <1>3
    <2>2. me \in 2 .. N
      BY <1>2, <1>3, <1>4, <2>1, RootStays
    <2>3. PICK b \in 1 .. k - 1 : remap[b] = d.parent
      BY <1>2, <1>3, <1>4, <1>5, <2>1, ParentBefore
    <2>4. d.parent \in 1 .. me - 1 /\ dents[d.parent].mode = "dir"
      BY <1>2, <1>5, <2>2 DEF Tree, N
    <2>5. b \in DirsBefore(k)
      BY <2>3, <2>4 DEF DirsBefore, IsDir
    <2>6. /\ pathRemap[d.parent] \in 1 .. len
          /\ es[pathRemap[d.parent]].sector = dents[d.parent].sector
      BY <1>7, <2>3, <2>5
    <2> QED
      BY <1>2, <2>2, <2>4, <2>6
  <1>11. /\ pc' = "table" /\ DOMAIN tables' = {1, 2} /\ DOMAIN pathRemap' = 1 .. N
         /\ (pass = 1 => tables'[2] = <<>>) /\ Numbered(tables[pass], k)'
    <2>1. CASE ~IsDir(me)
      <3>1. UNCHANGED <<pc, pathRemap, tables>>
        BY <1>4, <2>1 DEF PathEntry, IsDir
      <3>2. DirsBefore(k)' = DirsBefore(k)
        <4>1. \A a : a \in 1 .. k <=> a \in 1 .. k - 1 \/ a = k
          BY <1>3
        <4>2. DirsBefore(k)' = {a \in 1 .. k : IsDir(remap[a])}
          BY <1>1, <1>3 DEF DirsBefore, IsDir
        <4> QED
          BY <1>4, <2>1, <4>1, <4>2 DEF DirsBefore
      <3>3. Sound(tables[pass])'
        BY <1>1, <1>2, <1>6, <1>7, <3>1 DEF Sound, N, IsDir
      <3> QED
        BY <1>1, <1>3, <3>1, <3>2, <3>3 DEF Numbered
    <2>2. CASE IsDir(me)
      <3>1. len # 0 => pathRemap[d.parent] # 0
        BY <1>9, <1>10
      <3>2. PICK e : /\ e = [path |-> d.path, sector |-> d.sector, parent |-> pathRemap'[d.parent]]
                     /\ pathRemap' = [pathRemap EXCEPT ![me] = len + 1]
                     /\ tables' = [tables EXCEPT ![pass] = Append(es, e)]
                     /\ pc' = pc
        <4>1. d.mode = "dir" /\ dents[remap[k]] = d
          BY <1>4, <1>5, <2>2 DEF IsDir
        <4> QED
          BY <1>4, <1>6, <3>1, <4>1 DEF PathEntry, ParentNumber
      <3>3. /\ pathRemap'[me] = len + 1 /\ DOMAIN pathRemap' = 1 .. N
            /\ \A i \in 1 .. N : i # me => pathRemap'[i] = pathRemap[i]
        BY <1>3, <3>2
      <3>4. /\ e.parent \in 1 .. len + 1
            /\ \/ e.parent = len + 1 /\ me = 1 /\ d.parent = 1
               \/ e.parent \in 1 .. len /\ es[e.parent].sector = dents[d.parent].sector
        <4>1. CASE k = 1
          BY <1>9, <3>2, <3>3, <4>1
        <4>2. CASE k # 1
          BY <1>10, <3>2, <3>3, <4>2
        <4> QED
          BY <4>1, <4>2
      <3>5. e \in TableEntries
        <4>1. e.parent \in Nat
          BY <3>4
        <4>2. PICK x \in Seq(Nat), y \in Nat, z \in Nat : x = d.path /\ y = d.sector /\ z = e.parent
          BY <1>5, <4>1
        <4>3. e = [path |-> x, sector |-> y, parent |-> z]
          BY <3>2, <4>2
        <4> QED
          BY <4>3 DEF TableEntries
      <3>6. PICK fs \in Seq(TableEntries) :
              /\ fs = Append(es, e) /\ Len(fs) = len + 1
              /\ \A n \in 1 .. len : fs[n] = es[n]
              /\ fs[len + 1] = e
        <4>1. /\ Append(es, e) \in Seq(TableEntries) /\ Len(Append(es, e)) = Len(es) + 1
              /\ \A n \in 1 .. Len(es) : Append(es, e)[n] = es[n]
              /\ Append(es, e)[Len(es) + 1] = e
          BY <1>6, <3>5, AppendProperties
        <4> QED
          BY <1>6, <4>1
      <3>7. ASSUME NEW n \in 1 .. len + 1
            PROVE  \E i \in 1 .. N : /\ IsDir(i) /\ fs[n].sector = dents[i].sector
                                     /\ fs[n].parent \in 1 .. n
                                     /\ fs[fs[n].parent].sector = dents[dents[i].parent].sector
        <4>1. CASE n \in 1 .. len
          <5>1. PICK i \in 1 .. N : /\ IsDir(i) /\ es[n].sector = dents[i].sector
                                    /\ es[n].parent \in 1 .. n
                                    /\ es[es[n].parent].sector = dents[dents[i].parent].sector
            BY <1>6, <1>7, <4>1 DEF Sound
          <5>2. fs[n] = es[n] /\ es[n].parent \in 1 .. len
            BY <3>6, <4>1, <5>1
          <5>3. fs[es[n].parent] = es[es[n].parent]
            BY <3>6, <5>2
          <5> QED
            BY <5>1, <5>2, <5>3
        <4>2. CASE n = len + 1
          <5>1. fs[n] = e /\ e.sector = d.sector /\ e.parent \in 1 .. n
            BY <3>2, <3>4, <3>6, <4>2
          <5>2. fs[e.parent].sector = dents[d.parent].sector
            <6>1. CASE e.parent = len + 1 /\ me = 1 /\ d.parent = 1
              BY <1>5, <4>2, <5>1, <6>1
            <6>2. CASE e.parent \in 1 .. len /\ es[e.parent].sector = dents[d.parent].sector
              BY <3>6, <6>2
            <6> QED
              BY <3>4, <6>1, <6>2
          <5> QED
            BY <1>5, <2>2, <5>1, <5>2
        <4> QED
          BY <4>1, <4>2
      <3>8. Sound(fs)
        BY <3>6, <3>7 DEF Sound
      <3>9. Sound(fs)'
        BY <1>2, <3>8
      <3>10. tables'[pass'] = fs /\ DOMAIN tables' = {1, 2} /\ (pass = 1 => tables'[2] = <<>>)
        BY <1>1, <1>3, <3>2, <3>6
      <3>11. DirsBefore(k)' = DirsBefore(k) \cup {k}
        <4>1. \A a : a \in 1 .. k <=> a \in 1 .. k - 1 \/ a = k
          BY <1>3
        <4>2. DirsBefore(k)' = {a \in 1 .. k : IsDir(remap[a])}
          BY <1>1, <1>3 DEF DirsBefore, IsDir
        <4> QED
          BY <1>4, <2>2, <4>1, <4>2 DEF DirsBefore
      <3>12. Cardinality(DirsBefore(k)') = len + 1
        BY <1>7, <1>8, <3>11, FS_AddElement
      <3>13. ASSUME NEW a \in DirsBefore(k)'
             PROVE  /\ pathRemap'[remap[a]] \in 1 .. len + 1
                    /\ fs[pathRemap'[remap[a]]].sector = dents[remap[a]].sector
        <4>1. CASE a = k
          <5>1. pathRemap'[remap[a]] = len + 1 /\ fs[len + 1].sector = d.sector
            BY <1>4, <3>2, <3>3, <3>6, <4>1
          <5> QED
            BY <1>4, <1>5, <4>1, <5>1
        <4>2. CASE a \in DirsBefore(k)
          <5>1. a \in 1 .. N /\ a # k
            BY <1>2, <1>3, <4>2 DEF DirsBefore
          <5>2. remap[a] # me /\ remap[a] \in 1 .. N
            BY <1>3, <1>4, <5>1 DEF Permutes
          <5>3. pathRemap'[remap[a]] = pathRemap[remap[a]] /\ pathRemap[remap[a]] \in 1 .. len
            BY <1>7, <3>3, <4>2, <5>2
          <5>4. fs[pathRemap[remap[a]]] = es[pathRemap[remap[a]]]
            BY <3>6, <5>3
          <5> QED
            BY <1>7, <4>2, <5>3, <5>4
        <4> QED
          BY <3>11, <4>1, <4>2
      <3>14. Numbered(tables[pass], k)'
        BY <1>1, <3>6, <3>9, <3>10, <3>12, <3>13 DEF Numbered
      <3> QED
        BY <1>1, <3>2, <3>3, <3>10, <3>14
    <2> QED
      BY <2>1, <2>2
  <1>12. Permutes(remap)' /\ Ordered(remap, N + 1)'
    BY <1>1, <1>2, <1>3 DEF Permutes, Ordered
  <1>13. TablesInv'
    <2>1. \A t \in {18, 19, 20, 21} \cap DOMAIN image : Complete(image[t].entries)
      BY <1>1 DEF IInv, TablesInv, Late
    <2>2. \A t \in {18, 19, 20, 21} \cap DOMAIN image' : Complete(image[t].entries)'
      BY <1>1, <1>2, <2>1 DEF Complete, Sound, IsDir, N
    <2> QED
      BY <1>1, <1>2, <1>3, <1>11, <2>2 DEF TablesInv
  <1>14. PhaseInv' /\ OrderInv' /\ LayoutInv' /\ ContentsInv' /\ Kept
    BY <1>1, <1>2, <1>3, <1>11, <1>12 DEF IInv, PhaseInv, OrderInv, LayoutInv, ContentsInv, Late, Kept
  <1> QED
    BY <1>2, <1>13, <1>14 DEF IInv

\* All directories have numbers.
LEMMA AllNumbered ==
  ASSUME N \in Nat, Permutes(remap)
  PROVE  Cardinality(DirsBefore(N + 1)) = DirCount(dents)
  <1> DEFINE S == DirsBefore(N + 1)
             T == DirsOf(dents)
             f == [a \in S |-> remap[a]]
  <1>1. S = {a \in 1 .. N : IsDir(remap[a])} /\ T = {i \in 1 .. N : IsDir(i)}
    BY DEF DirsBefore, DirsOf, IsDir, N
  <1>2. IsFiniteSet(S)
    <2>1. IsFiniteSet(1 .. N) /\ S \in SUBSET (1 .. N)
      BY <1>1, FS_Interval
    <2> QED
      BY <2>1, FS_Subset
  <1>3. f \in [S -> T]
    BY <1>1 DEF Permutes
  <1>4. \A a, b \in S : f[a] = f[b] => a = b
    BY <1>1 DEF Permutes
  <1>5. \A i \in T : \E a \in S : f[a] = i
    BY <1>1 DEF Permutes
  <1> HIDE DEF S, T, f
  <1>6. f \in Bijection(S, T)
    BY <1>3, <1>4, <1>5 DEF Bijection, Injection, Surjection, IsInjective
  <1>7. Cardinality(T) = Cardinality(S)
    BY <1>2, <1>6, FS_Bijection DEF ExistsBijection
  <1> QED
    BY <1>7 DEF S, T, DirsOf, DirCount

LEMMA EndTableInv ==
  ASSUME IInv, EndTable
  PROVE  IInv' /\ Kept
  <1>1. /\ pc = "table" /\ k > N /\ k' = 1
        /\ image' = Written(16 + 2 * pass, Same([kind |-> "table", entries |-> tables[pass]], 2))
        /\ IF pass = 1 THEN pass' = 2 /\ UNCHANGED pc ELSE pc' = "place" /\ UNCHANGED pass
        /\ UNCHANGED <<manifest, dents, remap, tables, pathRemap, lengths, sectorCount>>
    BY DEF EndTable, N
  <1>2. /\ LinesInv' /\ EntriesInv' /\ N' = N /\ N \in Nat /\ FirstFree' = FirstFree
        /\ Tree(dents) /\ \A i : IsDir(i)' = IsDir(i)
        /\ \A es : (Sound(es) => Sound(es)') /\ (Complete(es) => Complete(es)')
        /\ FirstFree \in Nat /\ FirstFree >= 22
    <2>1. DirCount(dents) \in Nat
      BY DirCountIsNat, EntryFacts DEF IInv, EntriesInv, N
    <2>2. LinesInv /\ EntriesInv /\ Tree(dents) /\ N \in Nat /\ UNCHANGED <<manifest, dents>>
      BY <1>1, EntryFacts DEF IInv, EntriesInv
    <2>3. FirstFree \in Nat /\ FirstFree >= 22
      BY <2>1 DEF FirstFree
    <2> QED
      BY <2>2, <2>3, SameEntries
  <1>3. /\ k = N + 1 /\ Permutes(remap) /\ Ordered(remap, N + 1)
        /\ pass \in {1, 2} /\ DOMAIN tables = {1, 2} /\ DOMAIN pathRemap = 1 .. N
        /\ (pass = 1 => tables[2] = <<>>) /\ Numbered(tables[pass], k)
        /\ sectorCount = FirstFree
        /\ DOMAIN image = 0 .. 15 \cup (IF pass = 1 THEN {} ELSE 18 .. 19)
        /\ \A t \in {18, 19, 20, 21} \cap DOMAIN image : Complete(image[t].entries)
    BY <1>1, <1>2 DEF IInv, PhaseInv, OrderInv, TablesInv, LayoutInv, Late
  <1>4. PICK es : es = tables[pass]
    OBVIOUS
  <1>5. Complete(es)
    BY <1>2, <1>3, <1>4, AllNumbered DEF Numbered, Complete
  <1>6. PICK x : x = [kind |-> "table", entries |-> es]
    OBVIOUS
  <1>7. PICK s \in Nat, len \in Nat : s = 16 + 2 * pass /\ len = 2
    BY <1>3
  <1>8. PICK c, W : c = Same(x, len) /\ W = s .. s + len - 1
    OBVIOUS
  <1>9. /\ Len(c) = len /\ c[1] = x /\ c[2] = x
        /\ DOMAIN image \cap W = {} /\ W = {s, s + 1} /\ image' = Written(s, c)
    <2>1. Len(c) = len /\ \A n \in 1 .. len : c[n] = x
      BY <1>8, SameFacts
    <2>2. 1 \in 1 .. len /\ 2 \in 1 .. len
      BY <1>7
    <2>3. W = {s, s + 1}
      BY <1>7, <1>8
    <2>4. CASE pass = 1
      <3>1. s = 18
        BY <1>7, <2>4
      <3> QED
        BY <1>1, <1>3, <1>4, <1>6, <1>7, <1>8, <2>1, <2>2, <2>3, <2>4, <3>1
    <2>5. CASE pass = 2
      <3>1. s = 20
        BY <1>7, <2>5
      <3> QED
        BY <1>1, <1>3, <1>4, <1>6, <1>7, <1>8, <2>1, <2>2, <2>3, <2>5, <3>1
    <2> QED
      BY <1>3, <2>4, <2>5
  <1>10. /\ DOMAIN image' = DOMAIN image \cup W
         /\ \A t \in W : image'[t] = c[t - s + 1]
         /\ Kept
    <2>1. s \in Nat /\ len \in Nat /\ W = s .. s + len - 1
      BY <1>7, <1>8
    <2>2. Len(c) = len /\ DOMAIN image \cap W = {} /\ image' = Written(s, c)
      BY <1>9
    <2>3. DOMAIN image' = DOMAIN image \cup W /\ Kept
      BY <2>1, <2>2, WrittenFresh
    <2>4. \A t \in W : image'[t] = c[t - s + 1]
      BY <2>1, <2>2 DEF Written
    <2> QED
      BY <2>3, <2>4
  <1>11. image'[s] = x /\ image'[s + 1] = x
    <2>1. s - s + 1 = 1 /\ s + 1 - s + 1 = 2
      BY <1>7
    <2> QED
      BY <1>9, <1>10, <2>1
  <1>12. \A t \in {18, 19, 20, 21} \cap DOMAIN image' : Complete(image[t].entries)'
    <2> SUFFICES ASSUME NEW t \in {18, 19, 20, 21}, t \in DOMAIN image'
                 PROVE  Complete(image[t].entries)'
      OBVIOUS
    <2>1. CASE t \in DOMAIN image
      <3>1. PICK fs : fs = image[t].entries
        OBVIOUS
      <3>2. Complete(fs)'
        BY <1>2, <1>3, <2>1, <3>1
      <3>3. image'[t].entries = fs
        BY <1>10, <2>1, <3>1 DEF Kept
      <3> QED
        BY <3>2, <3>3 DEF Complete, Sound
    <2>2. CASE t \in W
      <3>1. Complete(es)'
        BY <1>2, <1>5
      <3>2. image'[t].entries = es
        BY <1>6, <1>9, <1>11, <2>2
      <3> QED
        BY <3>1, <3>2 DEF Complete, Sound
    <2> QED
      BY <1>10, <2>1, <2>2
  <1>13. Permutes(remap)' /\ Ordered(remap, N + 1)'
    BY <1>1, <1>2, <1>3 DEF Permutes, Ordered
  <1>14. CASE pass = 1
    <2>1. pass' = 2 /\ pc' = "table" /\ tables'[pass'] = <<>> /\ W = 18 .. 19
      BY <1>1, <1>3, <1>7, <1>9, <1>14
    <2>2. Numbered(tables[pass], k)'
      <3>1. DirsBefore(k)' = {}
        BY <1>1 DEF DirsBefore
      <3>2. Cardinality(DirsBefore(k)') = 0
        BY <3>1, FS_EmptySet
      <3>3. Sound(tables[pass])'
        BY <2>1 DEF Sound
      <3> QED
        BY <2>1, <3>1, <3>2, <3>3 DEF Numbered
    <2>3. TablesInv'
      BY <1>1, <1>2, <1>3, <1>12, <2>1, <2>2 DEF TablesInv
    <2>4. LayoutInv'
      BY <1>1, <1>2, <1>3, <1>10, <1>14, <2>1 DEF LayoutInv, Late
    <2>5. PhaseInv' /\ OrderInv' /\ ContentsInv'
      BY <1>1, <1>2, <1>3, <1>13, <2>1 DEF IInv, PhaseInv, OrderInv, ContentsInv, Late
    <2> QED
      BY <1>2, <1>10, <2>3, <2>4, <2>5 DEF IInv
  <1>15. CASE pass = 2
    <2>1. pc' = "place" /\ W = 20 .. 21
      BY <1>1, <1>7, <1>9, <1>15
    <2>2. DOMAIN image' = 0 .. 15 \cup 18 .. 21 \cup FileArea'
      <3>1. FileArea' = {}
        BY <1>1, <1>2, <1>3 DEF FileArea
      <3>2. DOMAIN image' = (0 .. 15 \cup 18 .. 19) \cup 20 .. 21
        BY <1>3, <1>10, <1>15, <2>1
      <3>3. 18 .. 21 = 18 .. 19 \cup 20 .. 21
        OBVIOUS
      <3> QED
        BY <3>1, <3>2, <3>3
    <2>3. TablesInv'
      BY <1>12, <2>1 DEF TablesInv
    <2>4. LayoutInv'
      BY <1>1, <1>2, <1>3, <2>1, <2>2 DEF LayoutInv, Late
    <2>5. PhaseInv' /\ OrderInv' /\ ContentsInv'
      BY <1>1, <1>2, <1>3, <1>13, <2>1 DEF IInv, PhaseInv, OrderInv, ContentsInv, Late
    <2> QED
      BY <1>2, <1>10, <2>3, <2>4, <2>5 DEF IInv
  <1> QED
    BY <1>3, <1>14, <1>15

\* Where the entries stay but for lengths and the sectors of files.
LEMMA TreeStays ==
  ASSUME Tree(dents), DirSectors(dents), Len(dents') = N, dents' \in Seq(Entries),
         \A i \in 1 .. N : /\ dents'[i].path = dents[i].path /\ dents'[i].mode = dents[i].mode
                           /\ dents'[i].parent = dents[i].parent
                           /\ IsDir(i) => dents'[i].sector = dents[i].sector
  PROVE  /\ Tree(dents') /\ DirSectors(dents') /\ N' = N /\ FirstFree' = FirstFree
         /\ DirCount(dents') = DirCount(dents)
         /\ \A i \in 1 .. N : IsDir(i)' = IsDir(i)
  <1>1. N \in Nat /\ N' = N /\ Len(dents) = N /\ \A i \in 1 .. N : IsDir(i)' = IsDir(i)
    BY EntryFacts DEF N, IsDir
  <1>2. Tree(dents')
    <2>1. dents' # <<>> => dents # <<>> /\ 1 \in 1 .. N
      BY <1>1 DEF N
    <2>2. \A i \in 2 .. N : i \in 1 .. N /\ dents[i].parent \in 1 .. N
      BY <1>1 DEF Tree
    <2>3. dents' # <<>> => dents'[1].path = <<>> /\ dents'[1].mode = "dir" /\ dents'[1].parent = 1
      BY <2>1 DEF Tree
    <2>4. ASSUME NEW i \in 2 .. N, NEW p, p = dents'[i].parent
          PROVE  /\ p \in 1 .. i - 1 /\ dents'[p].mode = "dir"
                 /\ dents'[i].path # <<>> /\ dents'[p].path = Front(dents'[i].path)
      <3>1. p = dents[i].parent /\ p \in 1 .. N /\ dents'[p].path = dents[p].path /\ dents'[p].mode = dents[p].mode
        BY <2>2, <2>4
      <3>2. dents'[i].path = dents[i].path
        BY <2>2
      <3> QED
        BY <1>1, <3>1, <3>2 DEF Tree
    <2>5. \A i, j \in 1 .. N : dents'[i].path = dents'[j].path => i = j
      BY <1>1 DEF Tree
    <2> QED
      BY <2>3, <2>4, <2>5 DEF Tree
  <1>3. DirsOf(dents') = DirsOf(dents) /\ \A i \in DirsOf(dents) : i \in 1 .. N /\ IsDir(i)
    BY <1>1 DEF DirsOf, IsDir
  <1>4. DirCount(dents') = DirCount(dents)
    BY <1>3 DEF DirCount, DirsOf
  <1>5. \A i \in DirsOf(dents) : dents'[i].sector = dents[i].sector
    BY <1>3
  <1>6. DirSectors(dents')
    <2>1. dents' # <<>> => dents'[1].sector = 22
      <3> SUFFICES ASSUME dents' # <<>> PROVE dents'[1].sector = 22
        OBVIOUS
      <3>1. dents # <<>> /\ 1 \in DirsOf(dents)
        BY <1>1 DEF N, Tree, DirsOf
      <3> QED
        BY <1>5, <3>1 DEF DirSectors
    <2> QED
      BY <1>3, <1>4, <1>5, <2>1 DEF DirSectors
  <1> QED
    BY <1>1, <1>2, <1>4, <1>6 DEF FirstFree

\* What the invariant says of them then stays too.
LEMMA EntriesStay ==
  ASSUME LinesInv, EntriesInv, UNCHANGED <<manifest, remap>>,
         Len(dents') = N, dents' \in Seq(Entries), Permutes(remap), Ordered(remap, N + 1),
         \A i \in 1 .. N : /\ dents'[i].path = dents[i].path /\ dents'[i].mode = dents[i].mode
                           /\ dents'[i].parent = dents[i].parent
                           /\ IsDir(i) => dents'[i].sector = dents[i].sector
  PROVE  /\ LinesInv' /\ EntriesInv' /\ N' = N /\ FirstFree' = FirstFree
         /\ \A i \in 1 .. N : IsDir(i)' = IsDir(i)
         /\ Permutes(remap)' /\ Ordered(remap, N + 1)'
         /\ \A es : Complete(es) => Complete(es)'
  <1>1. /\ Tree(dents)' /\ DirSectors(dents)' /\ N' = N /\ FirstFree' = FirstFree /\ N \in Nat
        /\ DirCount(dents') = DirCount(dents)
        /\ \A i \in 1 .. N : IsDir(i)' = IsDir(i)
    BY TreeStays, EntryFacts DEF EntriesInv, Tree, DirSectors, DirsOf, DirCount
  <1>2. LinesInv' /\ \A n : Listing(n)' = Listing(n) /\ FirstLine(n)' = FirstLine(n)
    BY DEF LinesInv, Listing, FirstLine
  <1>3. EntriesInv'
    <2>1. manifest' = manifest
      OBVIOUS
    <2>2. \A i \in 1 .. N' : ~IsDir(i)' => \E n \in 1 .. Len(manifest') : Listing(n)' = dents'[i].path
      <3> SUFFICES ASSUME NEW i \in 1 .. N, ~IsDir(i)
                   PROVE  \E n \in 1 .. Len(manifest) : Listing(n) = dents'[i].path
        BY <1>1, <1>2, <2>1
      <3>1. PICK n \in 1 .. Len(manifest) : Listing(n) = dents[i].path
        BY DEF EntriesInv
      <3>2. dents'[i].path = dents[i].path
        OBVIOUS
      <3> QED
        BY <3>1, <3>2
    <2>3. \A i \in 1 .. N' : IsDir(i)' =>
            \E n \in 1 .. Len(manifest') : \E l \in 0 .. Len(Listing(n)') - 1 :
              dents'[i].path = SubSeq(Listing(n)', 1, l)
      <3> SUFFICES ASSUME NEW i \in 1 .. N, IsDir(i)
                   PROVE  \E n \in 1 .. Len(manifest) : \E l \in 0 .. Len(Listing(n)) - 1 :
                            dents'[i].path = SubSeq(Listing(n), 1, l)
        BY <1>1, <1>2, <2>1
      <3>1. \E n \in 1 .. Len(manifest) : \E l \in 0 .. Len(Listing(n)) - 1 :
              dents[i].path = SubSeq(Listing(n), 1, l)
        BY DEF EntriesInv
      <3>2. dents'[i].path = dents[i].path
        OBVIOUS
      <3> QED
        BY <3>1, <3>2
    <2>4. \A n \in 1 .. Len(manifest') : FirstLine(n)' =>
            \E i \in 1 .. N' : dents'[i].path = Listing(n)' /\ dents'[i].mode = manifest'[n][2]
      <3> SUFFICES ASSUME NEW n \in 1 .. Len(manifest), FirstLine(n)
                   PROVE  \E i \in 1 .. N : dents'[i].path = Listing(n) /\ dents'[i].mode = manifest[n][2]
        BY <1>1, <1>2, <2>1
      <3>1. PICK i \in 1 .. N : dents[i].path = Listing(n) /\ dents[i].mode = manifest[n][2]
        BY DEF EntriesInv
      <3> QED
        BY <3>1
    <2>5. Tree(dents)' /\ DirSectors(dents)'
      BY <1>1
    <2> QED
      BY ONLY <2>2, <2>3, <2>4, <2>5 DEF EntriesInv
  <1>4. Permutes(remap)'
    <2>1. remap' = remap /\ N' = N
      BY <1>1
    <2> QED
      BY ONLY <2>1, Permutes(remap) DEF Permutes
  <1>5. Ordered(remap, N + 1)'
    <2>1. \A a \in 2 .. N : \A b \in a + 1 .. N : remap[a] \in 1 .. N /\ remap[b] \in 1 .. N
      <3>1. \A a \in 1 .. N : remap[a] \in 1 .. N
        BY DEF Permutes
      <3>2. \A a \in 2 .. N : \A b \in a + 1 .. N : a \in 1 .. N /\ b \in 1 .. N
        BY <1>1
      <3> QED
        BY <3>1, <3>2
    <2>2. \A i, j \in 1 .. N : After(dents'[i], dents'[j]) = After(dents[i], dents[j])
      BY DEF After
    <2> QED
      BY <1>1, <2>1, <2>2 DEF Ordered
  <1>6. \A es : Complete(es) => Complete(es)'
    <2> SUFFICES ASSUME NEW es, Complete(es) PROVE Complete(es)'
      OBVIOUS
    <2>1. ASSUME NEW i \in 1 .. N, IsDir(i)
          PROVE  /\ dents'[i].sector = dents[i].sector
                 /\ dents'[dents'[i].parent].sector = dents[dents[i].parent].sector
      <3>1. CASE i = 1
        <4>1. dents[i].parent = 1
          BY <2>1, <3>1 DEF EntriesInv, Tree, N
        <4> QED
          BY <2>1, <3>1, <4>1
      <3>2. CASE i # 1
        <4>1. i \in 2 .. N
          BY <3>2
        <4>2. dents[i].parent \in 1 .. N /\ IsDir(dents[i].parent)
          BY <1>1, <4>1 DEF EntriesInv, Tree, N, IsDir
        <4> QED
          BY <2>1, <4>2
      <3> QED
        BY <3>1, <3>2
    <2>2. Sound(es)'
      <3>1. es \in Seq(TableEntries)
        BY DEF Complete, Sound
      <3>2. ASSUME NEW n \in 1 .. Len(es)
            PROVE  \E i \in 1 .. N : /\ IsDir(i)' /\ es[n].sector = dents'[i].sector
                                     /\ es[n].parent \in 1 .. n
                                     /\ es[es[n].parent].sector = dents'[dents'[i].parent].sector
        <4>1. PICK i \in 1 .. N : /\ IsDir(i) /\ es[n].sector = dents[i].sector
                                  /\ es[n].parent \in 1 .. n
                                  /\ es[es[n].parent].sector = dents[dents[i].parent].sector
          BY DEF Complete, Sound
        <4> QED
          BY <1>1, <2>1, <4>1
      <3> QED
        BY <1>1, <3>1, <3>2 DEF Sound
    <2>3. Len(es) = DirCount(dents')
      BY <1>1 DEF Complete
    <2> QED
      BY <2>2, <2>3 DEF Complete
  <1> QED
    BY <1>1, <1>2, <1>3, <1>4, <1>5, <1>6

\* Path tables once written.
LEMMA TablesKept ==
  ASSUME Kept, \A es : Complete(es) => Complete(es)',
         \A t \in {18, 19, 20, 21} : t \in DOMAIN image /\ Complete(image[t].entries)
  PROVE  \A t \in {18, 19, 20, 21} \cap DOMAIN image' : Complete(image[t].entries)'
  <1> SUFFICES ASSUME NEW t \in {18, 19, 20, 21} PROVE Complete(image[t].entries)'
    OBVIOUS
  <1>1. PICK es : es = image[t].entries
    OBVIOUS
  <1>2. Complete(es)'
    BY <1>1
  <1>3. es = image'[t].entries
    BY <1>1 DEF Kept
  <1> QED
    BY <1>2, <1>3 DEF Complete, Sound

\* The sectors of a file.
LEMMA SectorsAreNat ==
  ASSUME NEW mode, NEW n \in Nat
  PROVE  FileSectors(mode, n) \in Nat /\ RecordLength(mode, n) \in Nat
  <1>1. PICK d \in Nat \ {0} : d = IF mode = "dat" THEN DataSize ELSE RawSize
    BY SizesAssumption
  <1>2. PICK m \in Nat : m = n + d - 1
    OBVIOUS
  <1>3. m \div d \in Nat
    BY <1>2
  <1>4. PICK q \in Nat : q = FileSectors(mode, n)
    BY <1>1, <1>2, <1>3 DEF FileSectors, CeilDiv
  <1>5. q * DataSize \in Nat
    BY SizesAssumption
  <1> QED
    BY <1>4, <1>5 DEF RecordLength

\* The parts a file is written in.
Parts(p, len) == [j \in 1 .. len |-> [kind |-> "data", path |-> p, part |-> j]]

\* The lengths once p has one.
Measured(p, n) == [q \in DOMAIN lengths \cup {p} |-> IF q = p THEN n ELSE lengths[q]]

\* An entry placed.
LEMMA PlaceInv ==
  ASSUME IInv, Place
  PROVE  IInv' /\ Kept
  <1>1. /\ pc = "place" /\ k <= N /\ k' = k + 1
        /\ UNCHANGED <<pc, manifest, remap, pass, tables, pathRemap>>
    BY DEF Place, N
  <1>2. /\ LinesInv /\ EntriesInv /\ N \in Nat /\ k \in 1 .. N /\ Tree(dents)
        /\ Permutes(remap) /\ Ordered(remap, N + 1)
        /\ sectorCount \in Nat /\ sectorCount >= FirstFree /\ FirstFree \in Nat /\ FirstFree >= 22
        /\ DOMAIN image = 0 .. 15 \cup 18 .. 21 \cup FileArea
        /\ \A t \in {18, 19, 20, 21} : t \in DOMAIN image /\ Complete(image[t].entries)
        /\ \A i \in 1 .. k - 1 : ~IsDir(i) => Placed(i)
    <2>1. DirCount(dents) \in Nat
      BY DirCountIsNat, EntryFacts DEF IInv, EntriesInv, N
    <2>2. LinesInv /\ EntriesInv /\ N \in Nat /\ Tree(dents) /\ FirstFree \in Nat /\ FirstFree >= 22
      BY <2>1, EntryFacts DEF IInv, EntriesInv, FirstFree
    <2>3. /\ sectorCount \in Nat /\ sectorCount >= FirstFree
          /\ DOMAIN image = 0 .. 15 \cup 18 .. 21 \cup FileArea
          /\ \A t \in {18, 19, 20, 21} : t \in DOMAIN image
      BY <1>1 DEF IInv, LayoutInv, Late
    <2>4. \A t \in {18, 19, 20, 21} : Complete(image[t].entries)
      BY <1>1, <2>3 DEF IInv, TablesInv, Late
    <2> QED
      BY <1>1, <2>2, <2>3, <2>4 DEF IInv, PhaseInv, OrderInv, ContentsInv, Late
  <1>3. PICK d \in Entries : d = dents[k] /\ dents \in Seq(Entries) /\ d.mode \in Modes
                             /\ d.path \in Seq(Nat) /\ d.sector \in Nat
    BY <1>2, EntryFacts DEF Tree, Entries
  <1>4. CASE IsDir(k)
    <2>1. dents' = [dents EXCEPT ![k].length = DataSize] /\ UNCHANGED <<lengths, sectorCount, image>>
      BY <1>4 DEF Place, IsDir
    <2>2. PICK e \in Entries : e = [d EXCEPT !.length = DataSize]
      BY <1>3, SizesAssumption DEF Entries
    <2>3. dents' = [dents EXCEPT ![k] = e]
      BY <1>3, <2>1, <2>2
    <2>4. Len(dents') = N /\ dents' \in Seq(Entries) /\ dents'[k] = e /\ \A i \in 1 .. N : i # k => dents'[i] = dents[i]
      BY <1>2, <1>3, <2>3 DEF N
    <2>5. e.path = d.path /\ e.mode = d.mode /\ e.parent = d.parent /\ e.sector = d.sector
      BY <1>3, <2>2 DEF Entries
    <2>6. \A i \in 1 .. N : /\ dents'[i].path = dents[i].path /\ dents'[i].mode = dents[i].mode
                            /\ dents'[i].parent = dents[i].parent
                            /\ IsDir(i) => dents'[i].sector = dents[i].sector
      BY <1>3, <2>4, <2>5
    <2>7. /\ LinesInv' /\ EntriesInv' /\ N' = N /\ FirstFree' = FirstFree
          /\ \A i \in 1 .. N : IsDir(i)' = IsDir(i)
          /\ Permutes(remap)' /\ Ordered(remap, N + 1)'
          /\ \A es : Complete(es) => Complete(es)'
      BY <1>1, <1>2, <2>4, <2>6, EntriesStay
    <2>8. \A t \in {18, 19, 20, 21} \cap DOMAIN image' : Complete(image[t].entries)'
      <3>1. Kept
        BY <2>1 DEF Kept
      <3> QED
        BY <1>2, <2>7, <3>1, TablesKept
    <2>9. \A i \in 1 .. k : ~IsDir(i)' => Placed(i)'
      <3> SUFFICES ASSUME NEW i \in 1 .. k, ~IsDir(i)' PROVE Placed(i)'
        OBVIOUS
      <3>1. i \in 1 .. N /\ i \in 1 .. k - 1 /\ ~IsDir(i)
        BY <1>2, <1>4, <2>7
      <3>2. Placed(i) /\ dents'[i] = dents[i]
        BY <1>2, <2>4, <3>1
      <3> QED
        BY <2>1, <3>2 DEF Placed
    <2>10. FileArea' = FileArea
      BY <2>1, <2>7 DEF FileArea
    <2>11. PhaseInv' /\ OrderInv' /\ TablesInv' /\ LayoutInv' /\ ContentsInv' /\ Kept
      BY <1>1, <1>2, <2>1, <2>7, <2>8, <2>9, <2>10
         DEF IInv, PhaseInv, OrderInv, TablesInv, LayoutInv, ContentsInv, Late, Kept
    <2> QED
      BY <2>7, <2>11 DEF IInv
  <1>5. CASE ~IsDir(k)
    <2>1. PICK n \in Lengths :
            /\ dents' = [dents EXCEPT ![k].sector = sectorCount, ![k].length = RecordLength(d.mode, n)]
            /\ lengths' = Measured(d.path, n)
            /\ sectorCount' = sectorCount + Len(Parts(d.path, FileSectors(d.mode, n)))
            /\ image' = Written(sectorCount, Parts(d.path, FileSectors(d.mode, n)))
      <3>1. \E n \in Lengths :
              /\ dents' = [dents EXCEPT ![k].sector = sectorCount,
                                       ![k].length = RecordLength(dents[k].mode, n)]
              /\ lengths' = Measured(dents[k].path, n)
              /\ sectorCount' = sectorCount + Len(Parts(dents[k].path, FileSectors(dents[k].mode, n)))
              /\ image' = Written(sectorCount, Parts(dents[k].path, FileSectors(dents[k].mode, n)))
        BY <1>5 DEF Place, IsDir, Parts, Measured
      <3> QED
        BY <1>3, <3>1
    <2>2. PICK len \in Nat, size \in Nat : len = FileSectors(d.mode, n) /\ size = RecordLength(d.mode, n) /\ n \in Nat
      BY SizesAssumption, SectorsAreNat
    <2>3. PICK c, W : c = Parts(d.path, len) /\ W = sectorCount .. sectorCount + len - 1
      OBVIOUS
    <2>4. Len(c) = len /\ image' = Written(sectorCount, c) /\ sectorCount' = sectorCount + len
      BY <2>1, <2>2, <2>3 DEF Parts
    <2>5. PICK e \in Entries : /\ e.path = d.path /\ e.mode = d.mode /\ e.parent = d.parent
                               /\ e.sector = sectorCount /\ e.length = size
                               /\ e = [[d EXCEPT !.sector = sectorCount] EXCEPT !.length = size]
      BY <1>2, <1>3 DEF Entries
    <2>6. dents' = [dents EXCEPT ![k] = e]
      <3>1. dents' = [dents EXCEPT ![k] = [[@ EXCEPT !.sector = sectorCount] EXCEPT !.length = size]]
        BY <1>2, <1>3, <2>1, <2>2
      <3> QED
        BY <1>3, <2>5, <3>1
    <2>7. Len(dents') = N /\ dents' \in Seq(Entries) /\ dents'[k] = e /\ \A i \in 1 .. N : i # k => dents'[i] = dents[i]
      BY <1>2, <1>3, <2>6 DEF N
    <2>8. \A i \in 1 .. N : /\ dents'[i].path = dents[i].path /\ dents'[i].mode = dents[i].mode
                            /\ dents'[i].parent = dents[i].parent
                            /\ IsDir(i) => dents'[i].sector = dents[i].sector
      BY <1>3, <1>5, <2>5, <2>7
    <2>9. /\ LinesInv' /\ EntriesInv' /\ N' = N /\ FirstFree' = FirstFree
          /\ \A i \in 1 .. N : IsDir(i)' = IsDir(i)
          /\ Permutes(remap)' /\ Ordered(remap, N + 1)'
          /\ \A es : Complete(es) => Complete(es)'
      <3>1. LinesInv /\ EntriesInv /\ Permutes(remap) /\ Ordered(remap, N + 1)
        BY <1>2
      <3>2. UNCHANGED <<manifest, remap>> /\ Len(dents') = N /\ dents' \in Seq(Entries)
        BY <1>1, <2>7
      <3> QED
        BY <2>8, <3>1, <3>2, EntriesStay
    <2>10. DOMAIN image \cap W = {}
      BY <1>2, <2>3 DEF FileArea
    <2>11. DOMAIN image' = DOMAIN image \cup W /\ Kept
      <3>1. PICK s \in Nat : s = sectorCount /\ W = s .. s + len - 1 /\ image' = Written(s, c)
        BY <1>2, <2>3, <2>4
      <3> QED
        BY <2>4, <2>10, <3>1, WrittenFresh
    <2>12. \A j \in 1 .. len : /\ sectorCount + j - 1 \in DOMAIN image'
                               /\ image'[sectorCount + j - 1] = [kind |-> "data", path |-> d.path, part |-> j]
      <3> SUFFICES ASSUME NEW j \in 1 .. len
                   PROVE  /\ sectorCount + j - 1 \in DOMAIN image'
                          /\ image'[sectorCount + j - 1] = [kind |-> "data", path |-> d.path, part |-> j]
        OBVIOUS
      <3>1. PICK t \in W : t = sectorCount + j - 1 /\ t - sectorCount + 1 = j
        BY <1>2, <2>3
      <3>2. image'[t] = c[j] /\ t \in DOMAIN image'
        BY <2>3, <2>4, <3>1 DEF Written
      <3> QED
        BY <2>3, <3>1, <3>2 DEF Parts
    <2>13. \A t \in {18, 19, 20, 21} \cap DOMAIN image' : Complete(image[t].entries)'
      BY <1>2, <2>9, <2>11, TablesKept
    <2>14. \A i \in 1 .. k : ~IsDir(i)' => Placed(i)'
      <3> SUFFICES ASSUME NEW i \in 1 .. k, ~IsDir(i)' PROVE Placed(i)'
        OBVIOUS
      <3>1. i \in 1 .. N /\ ~IsDir(i)
        BY <1>2, <2>9
      <3>2. CASE i = k
        <4>1. lengths'[d.path] = n /\ d.path \in DOMAIN lengths'
          BY <2>1 DEF Measured
        <4> QED
          <5>1. dents'[i] = e /\ e.path = d.path /\ e.mode = d.mode /\ e.sector = sectorCount
                /\ e.length = RecordLength(d.mode, n)
            BY <2>2, <2>5, <2>7, <3>2
          <5>2. \A j \in 1 .. FileSectors(d.mode, n) :
                  /\ sectorCount + j - 1 \in DOMAIN image'
                  /\ image'[sectorCount + j - 1] = [kind |-> "data", path |-> d.path, part |-> j]
            BY <2>2, <2>12
          <5> QED
            BY <2>2, <4>1, <5>1, <5>2 DEF Placed
      <3>3. CASE i # k
        <4>1. i \in 1 .. k - 1 /\ dents'[i] = dents[i] /\ Placed(i)
          BY <1>2, <2>7, <3>1, <3>3
        <4>2. dents[i].path # d.path
          BY <1>2, <1>3, <3>1, <3>3 DEF Tree, N
        <4>3. PICK x : x = dents[i]
          OBVIOUS
        <4>4. /\ x.path \in DOMAIN lengths' /\ lengths'[x.path] = lengths[x.path]
          BY <2>1, <4>1, <4>2, <4>3 DEF Placed, Measured
        <4>5. \A j \in 1 .. FileSectors(x.mode, lengths[x.path]) :
                /\ x.sector + j - 1 \in DOMAIN image'
                /\ image'[x.sector + j - 1] = [kind |-> "data", path |-> x.path, part |-> j]
          BY <2>11, <4>1, <4>3 DEF Placed, Kept
        <4> QED
          BY <4>1, <4>3, <4>4, <4>5 DEF Placed
      <3> QED
        BY <3>2, <3>3
    <2>15. DOMAIN image' = 0 .. 15 \cup 18 .. 21 \cup FileArea'
      <3>1. FileArea' = FileArea \cup W
        BY <1>2, <2>3, <2>4, <2>9 DEF FileArea
      <3> QED
        BY <1>2, <2>11, <3>1
    <2>16. PhaseInv' /\ OrderInv' /\ TablesInv' /\ LayoutInv' /\ ContentsInv'
      <3>1. sectorCount' \in Nat /\ sectorCount' >= FirstFree'
        BY <1>2, <2>4, <2>9
      <3>2. PhaseInv' /\ OrderInv'
        <4>1. dents' # <<>> /\ k' \in 1 .. N + 1
          BY <1>1, <1>2, <2>7
        <4> QED
          BY <1>1, <2>9, <4>1 DEF PhaseInv, OrderInv, Late
      <3>3. TablesInv'
        BY <1>1, <2>13 DEF TablesInv
      <3>4. LayoutInv'
        BY <1>1, <2>15, <3>1 DEF LayoutInv
      <3>5. ContentsInv'
        <4>1. \A i \in 1 .. k' - 1 : i \in 1 .. k
          BY <1>1, <1>2
        <4> QED
          BY <1>1, <2>14, <4>1 DEF ContentsInv
      <3> QED
        BY <3>2, <3>3, <3>4, <3>5
    <2> QED
      BY <2>9, <2>11, <2>16 DEF IInv
  <1> QED
    BY <1>4, <1>5

LEMMA EndPlaceInv ==
  ASSUME IInv, EndPlace
  PROVE  IInv' /\ Kept
  <1>1. /\ pc = "place" /\ k > N /\ pc' = "dirs" /\ k' = 1
        /\ UNCHANGED <<manifest, dents, remap, pass, tables, pathRemap, lengths, sectorCount, image>>
    BY DEF EndPlace, N
  <1>2. LinesInv' /\ EntriesInv' /\ N' = N /\ N \in Nat /\ FirstFree' = FirstFree /\ \A i : IsDir(i)' = IsDir(i)
        /\ \A es : Complete(es) => Complete(es)'
    BY <1>1, SameEntries, EntryFacts DEF IInv, EntriesInv
  <1>3. k = N + 1 /\ Permutes(remap)' /\ Ordered(remap, N + 1)'
    <2>1. k = N + 1 /\ Permutes(remap) /\ Ordered(remap, N + 1)
      BY <1>1, <1>2 DEF IInv, PhaseInv, OrderInv, Late
    <2>2. Permutes(remap)'
      BY <1>1, <1>2, <2>1 DEF Permutes
    <2>3. Ordered(remap, N + 1)'
      BY <1>1, <1>2, <2>1 DEF Ordered
    <2> QED
      BY <2>1, <2>2, <2>3
  <1>4. FileArea' = FileArea
    BY <1>1, <1>2 DEF FileArea
  <1>5. \A i \in 1 .. N : ~IsDir(i)' => Placed(i)'
    BY <1>1, <1>2, <1>3 DEF IInv, ContentsInv, Placed
  <1>6. TablesInv'
    <2>1. \A t \in {18, 19, 20, 21} : t \in DOMAIN image
      BY <1>1 DEF IInv, LayoutInv
    <2>2. Kept /\ \A t \in {18, 19, 20, 21} : t \in DOMAIN image /\ Complete(image[t].entries)
      BY <1>1, <2>1 DEF IInv, TablesInv, Late, Kept
    <2>3. \A t \in {18, 19, 20, 21} \cap DOMAIN image' : Complete(image[t].entries)'
      BY <1>2, <2>2, TablesKept
    <2> QED
      BY <1>1, <2>3 DEF TablesInv
  <1>7. LayoutInv'
    <2>1. DirArea(k)' = {}
      BY <1>1 DEF DirArea
    <2> QED
      BY <1>1, <1>2, <1>4, <2>1 DEF IInv, LayoutInv, Late
  <1>8. PhaseInv' /\ OrderInv' /\ ContentsInv' /\ Kept
    BY <1>1, <1>2, <1>3, <1>5 DEF IInv, PhaseInv, OrderInv, ContentsInv, Late, Kept
  <1> QED
    BY <1>2, <1>6, <1>7, <1>8 DEF IInv

LEMMA DirSectorStays ==
  ASSUME UNCHANGED <<dents, remap>>
  PROVE  \A i : DirSector(i)' = DirSector(i)
  <1>1. \A i : Listed(i)' = Listed(i)
    BY DEF Listed
  <1> QED
    BY <1>1 DEF DirSector, Record

\* A directory written.
LEMMA DirectoryInv ==
  ASSUME IInv, Directory
  PROVE  IInv' /\ Kept
  <1>1. /\ pc = "dirs" /\ k <= N /\ k' = k + 1
        /\ image' = IF ~IsDir(k) THEN image ELSE Written(dents[k].sector, <<DirSector(k)>>)
        /\ UNCHANGED <<pc, manifest, dents, remap, pass, tables, pathRemap, lengths, sectorCount>>
    BY DEF Directory, N, IsDir
  <1>2. /\ LinesInv' /\ EntriesInv' /\ N' = N /\ N \in Nat /\ FirstFree' = FirstFree
        /\ \A i : IsDir(i)' = IsDir(i)
        /\ \A es : Complete(es) => Complete(es)'
        /\ Tree(dents) /\ DirSectors(dents) /\ FirstFree \in Nat
    <2>1. DirCount(dents) \in Nat
      BY DirCountIsNat, EntryFacts DEF IInv, EntriesInv, N
    <2>2. LinesInv /\ EntriesInv /\ Tree(dents) /\ DirSectors(dents) /\ N \in Nat /\ FirstFree \in Nat
      BY <2>1, EntryFacts DEF IInv, EntriesInv, FirstFree
    <2> QED
      BY <1>1, <2>2, SameEntries
  <1>3. k \in 1 .. N /\ Permutes(remap)' /\ Ordered(remap, N + 1)'
    <2>1. k \in 1 .. N
      BY <1>1, <1>2 DEF IInv, PhaseInv, Late
    <2>2. Permutes(remap) /\ Ordered(remap, N + 1)
      BY <1>1 DEF IInv, OrderInv, Late
    <2> QED
      BY <1>1, <1>2, <2>1, <2>2 DEF Permutes, Ordered
  <1>4. /\ FileArea' = FileArea /\ sectorCount \in Nat /\ sectorCount >= FirstFree
        /\ DOMAIN image = 0 .. 15 \cup 18 .. 21 \cup DirArea(k) \cup FileArea
        /\ \A t \in {18, 19, 20, 21} : t \in DOMAIN image
    BY <1>1, <1>2 DEF IInv, LayoutInv, Late, FileArea
  <1>5. /\ \A t \in {18, 19, 20, 21} : t \in DOMAIN image /\ Complete(image[t].entries)
        /\ \A i \in 1 .. N : ~IsDir(i) => Placed(i)
        /\ \A i \in 1 .. k - 1 : IsDir(i) => image[dents[i].sector] = DirSector(i)
    BY <1>1, <1>4 DEF IInv, TablesInv, ContentsInv, Late
  <1>6. \A i : DirSector(i)' = DirSector(i)
    BY <1>1, DirSectorStays
  <1>7. \A i \in 1 .. k : i \in 1 .. k - 1 \/ i = k
    BY <1>3
  <1>8. \A i \in 1 .. k - 1 : IsDir(i) => dents[i].sector \in DOMAIN image
    BY <1>4 DEF DirArea
  <1>9. /\ DOMAIN image' = DOMAIN image \cup (IF IsDir(k) THEN {dents[k].sector} ELSE {})
        /\ Kept
        /\ IsDir(k) => image'[dents[k].sector] = DirSector(k)
    <2>1. CASE ~IsDir(k)
      BY <1>1, <2>1 DEF Kept
    <2>2. CASE IsDir(k)
      <3>1. PICK s \in Nat : s = dents[k].sector /\ s \in 22 .. FirstFree - 1
        <4>1. k \in DirsOf(dents) /\ DirCount(dents) \in Nat
          BY <1>2, <1>3, <2>2, DirCountIsNat DEF DirsOf, N, IsDir
        <4> QED
          BY <1>2, <4>1 DEF DirSectors, FirstFree
      <3>2. s \notin DirArea(k)
        <4> SUFFICES ASSUME NEW i \in 1 .. k - 1, IsDir(i), dents[i].sector = s PROVE FALSE
          BY DEF DirArea
        <4>1. i \in DirsOf(dents) /\ k \in DirsOf(dents) /\ i # k
          BY <1>2, <1>3, <2>2 DEF DirsOf, N, IsDir
        <4> QED
          BY <1>2, <3>1, <4>1 DEF DirSectors
      <3>3. s \notin DOMAIN image
        <4>1. s \notin FileArea
          BY <1>2, <1>4, <3>1 DEF FileArea
        <4>2. s \notin 0 .. 15 /\ s \notin 18 .. 21
          BY <1>2, <3>1
        <4> QED
          BY <1>4, <3>2, <4>1, <4>2
      <3>4. PICK c, W : c = <<DirSector(k)>> /\ W = {s}
        OBVIOUS
      <3>5. PICK len \in Nat : len = 1
        OBVIOUS
      <3>6. Len(c) = len /\ W = s .. s + len - 1 /\ c[1] = DirSector(k)
        BY <3>4, <3>5
      <3>7. image' = Written(s, c) /\ DOMAIN image \cap W = {}
        BY <1>1, <2>2, <3>1, <3>3, <3>4
      <3>8. DOMAIN image' = DOMAIN image \cup W /\ Kept
        BY <3>6, <3>7, WrittenFresh
      <3>9. image'[s] = DirSector(k)
        <4>1. s \in s .. s + Len(c) - 1 /\ s - s + 1 = 1
          BY <3>5, <3>6
        <4> QED
          BY <3>6, <3>7, <4>1 DEF Written
      <3> QED
        BY <2>2, <3>1, <3>4, <3>8, <3>9
    <2> QED
      BY <2>1, <2>2
  <1>10. TablesInv'
    <2>1. \A t \in {18, 19, 20, 21} \cap DOMAIN image' : Complete(image[t].entries)'
      BY <1>2, <1>5, <1>9, TablesKept
    <2> QED
      BY <1>1, <2>1 DEF TablesInv
  <1>11. DirArea(k)' = DirArea(k) \cup (IF IsDir(k) THEN {dents[k].sector} ELSE {})
    <2>1. k' - 1 = k
      BY <1>1, <1>3
    <2>2. \A s : s \in DirArea(k)' <=> \E i \in 1 .. k' - 1 : IsDir(i)' /\ s = dents'[i].sector
      BY DEF DirArea
    <2>3. \A s : s \in DirArea(k) <=> \E i \in 1 .. k - 1 : IsDir(i) /\ s = dents[i].sector
      BY DEF DirArea
    <2>4. \A s : s \in DirArea(k)' <=> s \in DirArea(k) \/ (IsDir(k) /\ s = dents[k].sector)
      <3> SUFFICES ASSUME NEW s
                   PROVE  (\E i \in 1 .. k : IsDir(i) /\ s = dents[i].sector)
                          <=> (\E i \in 1 .. k - 1 : IsDir(i) /\ s = dents[i].sector)
                              \/ (IsDir(k) /\ s = dents[k].sector)
        BY <1>1, <1>2, <2>1, <2>2, <2>3
      <3>1. \A i : i \in 1 .. k <=> i \in 1 .. k - 1 \/ i = k
        BY <1>3
      <3> QED
        BY <3>1
    <2> QED
      BY <2>4
  <1>12. LayoutInv'
    <2>1. DOMAIN image' = 0 .. 15 \cup 18 .. 21 \cup DirArea(k)' \cup FileArea'
      BY <1>4, <1>9, <1>11
    <2> QED
      BY <1>1, <1>2, <1>4, <2>1 DEF LayoutInv
  <1>13. \A i \in 1 .. N : ~IsDir(i)' => Placed(i)'
    <2> SUFFICES ASSUME NEW i \in 1 .. N, ~IsDir(i) PROVE Placed(i)'
      BY <1>2
    <2>1. Placed(i)
      BY <1>5
    <2> QED
      BY <1>1, <1>9, <2>1 DEF Placed, Kept
  <1>14. \A i \in 1 .. k : IsDir(i)' => image'[dents'[i].sector] = DirSector(i)'
    BY <1>1, <1>2, <1>5, <1>6, <1>7, <1>8, <1>9 DEF Kept
  <1>15. PhaseInv' /\ OrderInv' /\ ContentsInv'
    <2>1. k' \in 1 .. N + 1 /\ k' - 1 = k
      BY <1>1, <1>2, <1>3
    <2>2. ContentsInv'
      BY <1>1, <1>2, <1>13, <1>14, <2>1 DEF ContentsInv
    <2>3. PhaseInv' /\ OrderInv'
      BY <1>1, <1>2, <1>3, <2>1 DEF IInv, PhaseInv, OrderInv, Late
    <2> QED
      BY <2>2, <2>3
  <1> QED
    BY <1>2, <1>9, <1>10, <1>12, <1>15 DEF IInv

\* The descriptors written: the volume is full.
LEMMA FinishInv ==
  ASSUME IInv, Finish
  PROVE  IInv' /\ Kept
  <1>1. /\ pc = "dirs" /\ k > N /\ pc' = "done"
        /\ image' = Written(16, << [kind |-> "pvd", root |-> 22, size |-> sectorCount],
                                   [kind |-> "terminator"] >>)
        /\ UNCHANGED <<manifest, dents, remap, k, pass, tables, pathRemap, lengths, sectorCount>>
    BY DEF Finish, N
  <1>2. /\ LinesInv' /\ EntriesInv' /\ N' = N /\ N \in Nat /\ FirstFree' = FirstFree
        /\ \A i : IsDir(i)' = IsDir(i)
        /\ \A es : Complete(es) => Complete(es)'
        /\ Tree(dents) /\ DirSectors(dents) /\ FirstFree \in Nat /\ FirstFree >= 22
    <2>1. DirCount(dents) \in Nat
      BY DirCountIsNat, EntryFacts DEF IInv, EntriesInv, N
    <2>2. LinesInv /\ EntriesInv /\ Tree(dents) /\ DirSectors(dents) /\ N \in Nat
      BY EntryFacts DEF IInv, EntriesInv
    <2>3. FirstFree \in Nat /\ FirstFree >= 22
      BY <2>1 DEF FirstFree
    <2> QED
      BY <1>1, <2>2, <2>3, SameEntries
  <1>3. k = N + 1 /\ Permutes(remap)' /\ Ordered(remap, N + 1)'
    <2>1. k = N + 1
      BY <1>1, <1>2 DEF IInv, PhaseInv, Late
    <2>2. Permutes(remap) /\ Ordered(remap, N + 1)
      BY <1>1 DEF IInv, OrderInv, Late
    <2> QED
      BY <1>1, <1>2, <2>1, <2>2 DEF Permutes, Ordered
  <1>4. /\ sectorCount \in Nat /\ sectorCount >= FirstFree
        /\ DOMAIN image = 0 .. 15 \cup 18 .. 21 \cup DirArea(k) \cup FileArea
        /\ \A t \in {18, 19, 20, 21} : t \in DOMAIN image
    BY <1>1, <1>2 DEF IInv, LayoutInv, Late
  <1>5. /\ \A t \in {18, 19, 20, 21} : t \in DOMAIN image /\ Complete(image[t].entries)
        /\ \A i \in 1 .. N : ~IsDir(i) => Placed(i)
        /\ \A i \in 1 .. N : IsDir(i) => image[dents[i].sector] = DirSector(i)
    <2>1. k - 1 = N
      BY <1>2, <1>3
    <2> QED
      BY <1>1, <1>4, <2>1 DEF IInv, TablesInv, ContentsInv, Late
  <1>6. DirArea(k) = 22 .. FirstFree - 1
    <2>1. \A s : s \in DirArea(k) <=> \E i \in DirsOf(dents) : s = dents[i].sector
      <3>1. k - 1 = Len(dents)
        BY <1>2, <1>3 DEF N
      <3> QED
        BY <3>1 DEF DirArea, DirsOf, IsDir
    <2>2. FirstFree - 1 = 21 + DirCount(dents) /\ Len(dents) \in Nat
      BY <1>2, DirCountIsNat DEF FirstFree, N
    <2>3. \A s : s \in 22 .. FirstFree - 1 <=> \E i \in DirsOf(dents) : s = dents[i].sector
      BY <1>2, <2>2 DEF DirSectors
    <2> QED
      BY <2>1, <2>3
  <1>7. PICK x, y : x = [kind |-> "pvd", root |-> 22, size |-> sectorCount] /\ y = [kind |-> "terminator"]
    OBVIOUS
  <1>8. PICK s \in Nat, len \in Nat : s = 16 /\ len = 2
    OBVIOUS
  <1>9. PICK c, W : c = <<x, y>> /\ W = s .. s + len - 1
    OBVIOUS
  <1>10. Len(c) = len /\ image' = Written(s, c)
    BY <1>1, <1>7, <1>8, <1>9
  <1>11. DOMAIN image \cap W = {}
    <2>1. \A t \in W : t = 16 \/ t = 17
      BY <1>8, <1>9
    <2>2. FileArea \subseteq Nat /\ \A t \in FileArea : t >= 22
      BY <1>2, <1>4 DEF FileArea
    <2>3. \A t \in DirArea(k) : t \in Nat /\ t >= 22
      BY <1>2, <1>6
    <2>4. \A t \in DOMAIN image : t \in 0 .. 15 \/ t \in 18 .. 21 \/ t >= 22
      BY <1>4, <2>2, <2>3
    <2> QED
      BY <2>1, <2>4
  <1>12. DOMAIN image' = DOMAIN image \cup W /\ Kept
    <2>1. s \in Nat /\ len \in Nat /\ W = s .. s + len - 1
      BY <1>8, <1>9
    <2> QED
      BY <1>10, <1>11, <2>1, WrittenFresh
  <1>13. image'[16].root = 22 /\ image'[16].size = sectorCount
    <2>1. 16 \in s .. s + Len(c) - 1 /\ 16 - s + 1 = 1
      BY <1>8, <1>10
    <2>2. image'[16] = c[1]
      BY <1>10, <2>1 DEF Written
    <2> QED
      BY <1>7, <1>9, <2>2
  <1>14. DOMAIN image' = 0 .. sectorCount' - 1
    <2>1. W = 16 .. 17
      BY <1>8, <1>9
    <2>2. DOMAIN image' = 0 .. 15 \cup 18 .. 21 \cup 22 .. FirstFree - 1 \cup FirstFree .. sectorCount - 1 \cup 16 .. 17
      BY <1>4, <1>6, <1>12, <2>1 DEF FileArea
    <2>3. \A t : t \in 0 .. sectorCount - 1 <=>
            \/ t \in 0 .. 15 \/ t \in 16 .. 17 \/ t \in 18 .. 21
            \/ t \in 22 .. FirstFree - 1 \/ t \in FirstFree .. sectorCount - 1
      BY <1>2, <1>4
    <2> QED
      BY <1>1, <2>2, <2>3
  <1>15. TablesInv'
    <2>1. \A t \in {18, 19, 20, 21} \cap DOMAIN image' : Complete(image[t].entries)'
      BY <1>2, <1>5, <1>12, TablesKept
    <2> QED
      BY <1>1, <2>1 DEF TablesInv
  <1>16. ContentsInv'
    <2>1. \A i \in 1 .. N : ~IsDir(i)' => Placed(i)'
      <3> SUFFICES ASSUME NEW i \in 1 .. N, ~IsDir(i) PROVE Placed(i)'
        BY <1>2
      <3>1. Placed(i)
        BY <1>5
      <3> QED
        BY <1>1, <1>12, <3>1 DEF Placed, Kept
    <2>2. \A i \in 1 .. N : IsDir(i)' => image'[dents'[i].sector] = DirSector(i)'
      <3>1. \A i : DirSector(i)' = DirSector(i)
        BY <1>1, DirSectorStays
      <3> SUFFICES ASSUME NEW i \in 1 .. N, IsDir(i) PROVE image'[dents'[i].sector] = DirSector(i)'
        BY <1>2
      <3>2. dents[i].sector \in DOMAIN image
        <4>1. i \in 1 .. k - 1
          BY <1>2, <1>3
        <4> QED
          BY <1>4, <4>1 DEF DirArea
      <3> QED
        BY <1>1, <1>5, <1>12, <3>1, <3>2 DEF Kept
    <2>3. k' - 1 = N'
      BY <1>1, <1>2, <1>3
    <2> QED
      BY <1>1, <1>2, <1>13, <2>1, <2>2, <2>3 DEF ContentsInv
  <1>17. PhaseInv' /\ OrderInv' /\ LayoutInv'
    BY <1>1, <1>2, <1>3, <1>4, <1>14 DEF IInv, PhaseInv, OrderInv, LayoutInv, Late
  <1> QED
    BY <1>2, <1>12, <1>15, <1>16, <1>17 DEF IInv
-----------------------------------------------------------------------------
(***************************************************************************)
(* The invariant holds.                                                    *)
(***************************************************************************)
LEMMA InitInv ==
  ASSUME Init
  PROVE  IInv
  <1>1. /\ pc = "parse" /\ manifest = <<>> /\ dents = <<>> /\ image = <<>>
        /\ tables = << <<>>, <<>> >> /\ N = 0
    BY DEF Init, N
  <1>2. LinesInv /\ PhaseInv /\ OrderInv /\ TablesInv /\ LayoutInv /\ ContentsInv
    BY <1>1 DEF LinesInv, PhaseInv, OrderInv, TablesInv, LayoutInv, ContentsInv, Late
  <1>3. Tree(dents)
    BY <1>1 DEF Tree
  <1>4. DirsOf(dents) = {} /\ DirCount(dents) = 0
    <2>1. DirsOf(dents) = {}
      BY <1>1 DEF DirsOf
    <2> QED
      BY <2>1, FS_EmptySet DEF DirsOf, DirCount
  <1>5. DirSectors(dents)
    BY <1>1, <1>4 DEF DirSectors
  <1>6. EntriesInv
    BY <1>1, <1>3, <1>5 DEF EntriesInv
  <1> QED
    BY <1>2, <1>6 DEF IInv

LEMMA NextInv ==
  ASSUME IInv, [Next]_vars
  PROVE  IInv' /\ Kept
  <1>1. ASSUME UNCHANGED image PROVE Kept
    BY <1>1 DEF Kept
  <1>2. ASSUME NEW p \in Paths, NEW mode \in {"dat", "raw"}, Line(p, mode) PROVE IInv' /\ Kept
    BY <1>1, <1>2, LineInv DEF Line
  <1>3. CASE EndManifest
    BY <1>1, <1>3, EndManifestInv DEF EndManifest
  <1>4. CASE SortPass
    BY <1>1, <1>4, SortPassInv DEF SortPass
  <1>5. CASE UNCHANGED vars
    <2>1. UNCHANGED <<manifest, dents, remap>> /\ Kept
      BY <1>1, <1>5 DEF vars
    <2>2. /\ LinesInv' /\ EntriesInv' /\ N' = N /\ FirstFree' = FirstFree
          /\ \A i : IsDir(i)' = IsDir(i) /\ DirSector(i)' = DirSector(i)
          /\ \A es : (Sound(es) => Sound(es)') /\ (Complete(es) => Complete(es)')
      BY <2>1, SameEntries, DirSectorStays DEF IInv
    <2>3. PhaseInv' /\ OrderInv'
      BY <1>5, <2>2 DEF IInv, PhaseInv, OrderInv, Late, Permutes, Ordered, vars
    <2>4. LayoutInv'
      <3>1. FileArea' = FileArea /\ DirArea(k)' = DirArea(k)
        BY <1>5, <2>2 DEF FileArea, DirArea, vars
      <3> QED
        BY <1>5, <2>2, <3>1 DEF IInv, LayoutInv, Late, vars
    <2>5. TablesInv'
      BY <1>5 DEF IInv, TablesInv, Late, Numbered, Sound, Complete, DirsBefore, IsDir, N, vars
    <2>6. ContentsInv'
      <3>1. \A i : Placed(i)' = Placed(i)
        BY <1>5 DEF Placed, vars
      <3> QED
        BY <1>5, <2>2, <3>1 DEF IInv, ContentsInv, vars
    <2> QED
      BY <2>1, <2>2, <2>3, <2>4, <2>5, <2>6 DEF IInv
  <1> QED
    BY <1>2, <1>3, <1>4, <1>5, BeginImageInv, PathEntryInv, EndTableInv, PlaceInv, EndPlaceInv,
       DirectoryInv, FinishInv DEF Next

\* The invariant: the entries are a tree in creation order, the sort puts
\* parents first, and what is written lies where its phase says.
THEOREM Invariance == Spec => []IInv
  <1>1. IInv /\ [Next]_vars => IInv'
    BY NextInv
  <1> QED
    BY InitInv, <1>1, PTL DEF Spec

\* No sector is written over: licence, path tables, directories, files and
\* descriptors never overlap.
THEOREM WrittenOnceHolds == Spec => WrittenOnce
  <1>1. IInv /\ [Next]_vars => [Kept]_vars
    BY NextInv
  <1>2. [Kept]_vars => [\A s \in DOMAIN image : s \in DOMAIN image' /\ image'[s] = image[s]]_vars
    BY DEF Kept
  <1> QED
    BY Invariance, <1>1, <1>2, PTL DEF Spec, WrittenOnce

\* The volume has no hole and ends where its descriptor says.
THEOREM VolumeFullHolds == Spec => []VolumeFull
  <1>1. IInv => VolumeFull
    BY DEF IInv, LayoutInv, ContentsInv, VolumeFull
  <1> QED
    BY Invariance, <1>1, PTL

\* What a path table says of the directories when the image is done.
LEMMA TablesAreSound ==
  ASSUME IInv
  PROVE  PathTablesSound
  <1>1. pc # "abort"
    BY DEF IInv, PhaseInv, Late
  <1>2. ASSUME pc = "done", NEW t \in {18, 19, 20, 21}, NEW es, es = image[t].entries
        PROVE  /\ Len(es) = DirCount(dents)
               /\ \A n \in 1 .. Len(es) :
                    /\ image[es[n].sector].kind = "dir"
                    /\ es[n].parent \in 1 .. n
                    /\ es[es[n].parent].sector = image[es[n].sector].up
    <2>1. /\ N \in Nat /\ FirstFree \in Nat /\ FirstFree >= 22 /\ k - 1 = N
          /\ sectorCount \in Nat /\ sectorCount >= FirstFree /\ DOMAIN image = 0 .. sectorCount - 1
      <3>1. DirCount(dents) \in Nat /\ N \in Nat
        BY DirCountIsNat, EntryFacts DEF IInv, EntriesInv, N
      <3> QED
        BY <1>2, <3>1 DEF IInv, LayoutInv, PhaseInv, Late, FirstFree
    <2>2. Complete(es)
      BY <1>2, <2>1 DEF IInv, TablesInv, Late
    <2>3. \A i \in 1 .. N : IsDir(i) => image[dents[i].sector] = DirSector(i)
      BY <1>2, <2>1 DEF IInv, ContentsInv
    <2>4. ASSUME NEW n \in 1 .. Len(es)
          PROVE  /\ image[es[n].sector].kind = "dir"
                 /\ es[n].parent \in 1 .. n
                 /\ es[es[n].parent].sector = image[es[n].sector].up
      <3>1. PICK i \in 1 .. N : /\ IsDir(i) /\ es[n].sector = dents[i].sector
                                /\ es[n].parent \in 1 .. n
                                /\ es[es[n].parent].sector = dents[dents[i].parent].sector
        BY <2>2 DEF Complete, Sound
      <3>2. image[es[n].sector] = DirSector(i)
        BY <2>3, <3>1
      <3> QED
        BY <3>1, <3>2 DEF DirSector
    <2> QED
      BY <2>2, <2>4 DEF Complete
  <1>3. ASSUME pc = "done", NEW t \in {18, 19, 20, 21}
        PROVE  LET es == image[t].entries IN
               /\ Len(es) = DirCount(dents)
               /\ \A n \in 1 .. Len(es) :
                    /\ image[es[n].sector].kind = "dir"
                    /\ es[n].parent \in 1 .. n
                    /\ es[es[n].parent].sector = image[es[n].sector].up
    BY <1>2, <1>3
  <1> QED
    BY <1>1, <1>3 DEF PathTablesSound

\* A parent is numbered before its children, and each of the four tables gives
\* every directory's sector and its parent's place.
THEOREM PathTablesSoundHolds == Spec => []PathTablesSound
  BY Invariance, TablesAreSound, PTL
-----------------------------------------------------------------------------
(***************************************************************************)
(* What a directory lists.                                                 *)
(***************************************************************************)
\* `if(j == i)` leaves out no entry but the root: no position holds an entry
\* whose directory has the position's number, for the entries up to it have
\* lesser parents and are one too many for the positions before it.
LEMMA OnlyRootLeftOut ==
  ASSUME Tree(dents), Permutes(remap), Ordered(remap, N + 1), NEW a \in 2 .. N
  PROVE  dents[remap[a]].parent # a
  <1> SUFFICES ASSUME dents[remap[a]].parent = a PROVE FALSE
    OBVIOUS
  <1>1. N \in Nat /\ a \in 1 .. N /\ a \in Nat /\ 1 \in 1 .. N
    BY EntryFacts
  <1>2. \A x \in 2 .. a : \E b \in 2 .. a - 1 : remap[b] = x
    <2> SUFFICES ASSUME NEW x \in 2 .. a PROVE \E b \in 2 .. a - 1 : remap[b] = x
      OBVIOUS
    <2>1. x \in 2 .. N
      BY <1>1
    <2>2. dents[x].parent \in 1 .. x - 1
      BY <2>1 DEF Tree, N
    <2>3. PICK b \in 1 .. N : remap[b] = x
      BY <1>1, <2>1 DEF Permutes
    <2>4. b # 1 /\ b # a
      <3>1. remap[1] = 1 /\ x # 1
        BY <1>1 DEF Permutes
      <3>2. dents[x].parent # a
        BY <1>1, <2>2
      <3> QED
        BY <2>3, <3>1, <3>2
    <2>5. After(dents[remap[a]], dents[x])
      BY <1>1, <2>2 DEF After
    <2>6. ~(b \in a + 1 .. N)
      BY <1>1, <2>3, <2>5 DEF Ordered
    <2> QED
      BY <1>1, <2>3, <2>4, <2>6
  <1> DEFINE g == [x \in 2 .. a |-> CHOOSE b \in 2 .. a - 1 : remap[b] = x]
  <1>3. \A x \in 2 .. a : g[x] \in 2 .. a - 1 /\ remap[g[x]] = x
    BY <1>2
  <1>4. PICK S, T : S = 2 .. a /\ T = 2 .. a - 1
    OBVIOUS
  <1>5. g \in [S -> T]
    BY <1>3, <1>4
  <1> HIDE DEF g
  <1>6. \A x, y \in S : g[x] = g[y] => x = y
    BY <1>3, <1>4
  <1>7. g \in Injection(S, T)
    BY <1>5, <1>6 DEF Injection, IsInjective
  <1>8. IsFiniteSet(S) /\ IsFiniteSet(T) /\ Cardinality(S) = a - 1 /\ Cardinality(T) = a - 2
    <2>1. PICK c \in Int : c = a - 1 /\ 2 <= c + 1
      BY <1>1
    <2>2. IsFiniteSet(2 .. a) /\ Cardinality(2 .. a) = a - 2 + 1
      BY <1>1, FS_Interval
    <2>3. IsFiniteSet(2 .. c) /\ Cardinality(2 .. c) = IF 2 > c THEN 0 ELSE c - 2 + 1
      BY FS_Interval
    <2> QED
      BY <1>1, <1>4, <2>1, <2>2, <2>3
  <1>9. Cardinality(S) <= Cardinality(T)
    BY <1>7, <1>8, FS_Injection
  <1> QED
    BY <1>1, <1>8, <1>9

\* The loop of a directory's records lists its entries, in sorted order.
LEMMA ListedFacts ==
  ASSUME Tree(dents), Permutes(remap), Ordered(remap, N + 1), NEW i \in 1 .. N
  PROVE  /\ Listed(i) \in Seq(2 .. N) /\ Len(Listed(i)) \in Nat
         /\ \A n \in 1 .. Len(Listed(i)) : /\ Listed(i)[n] \in 2 .. N
                                           /\ remap[Listed(i)[n]] \in 2 .. N
                                           /\ dents[remap[Listed(i)[n]]].parent = i
         /\ \A m, n \in 1 .. Len(Listed(i)) : m < n => Listed(i)[m] < Listed(i)[n]
         /\ \A j \in 2 .. N : dents[j].parent = i => \E n \in 1 .. Len(Listed(i)) : remap[Listed(i)[n]] = j
  <1> DEFINE Child(j) == j # i /\ dents[remap[j]].parent = i
             Inv(j, s) == /\ \A n \in 1 .. Len(s) : s[n] \in 1 .. j /\ Child(s[n])
                          /\ \A m, n \in 1 .. Len(s) : m < n => s[m] < s[n]
                          /\ \A a \in 1 .. j : Child(a) => \E n \in 1 .. Len(s) : s[n] = a
             Grow(s, j) == IF Child(j) THEN Append(s, j) ELSE s
             D == [j \in 0 .. N |-> {s \in Seq(1 .. N) : Inv(j, s)}]
             step == [y \in (1 .. N) \X Seq(1 .. N) |-> Grow(y[2], y[1])]
             IsList(f) == f = [j \in 0 .. N |->
                                 IF j = 0 THEN <<>>
                                 ELSE IF j # i /\ dents[remap[j]].parent = i THEN Append(f[j - 1], j)
                                 ELSE f[j - 1]]
             list == CHOOSE f : f = [j \in 0 .. Len(dents) |->
                                 IF j = 0 THEN <<>>
                                 ELSE IF j # i /\ dents[remap[j]].parent = i THEN Append(f[j - 1], j)
                                 ELSE f[j - 1]]
  <1>1. N \in Nat /\ N = Len(dents) /\ 0 \in Nat /\ 0 \in 0 .. N
    BY EntryFacts DEF N
  <1>2. <<>> \in D[0]
    <2>1. Inv(0, <<>>)
      OBVIOUS
    <2> QED
      BY <1>1, <2>1
  <1>3. ASSUME NEW j \in 1 .. N, NEW s \in D[j - 1]
        PROVE  /\ Grow(s, j) \in D[j] /\ s \in Seq(1 .. N)
               /\ step[<<j, s>>] = Grow(s, j)
    <2>1. j - 1 \in 0 .. N /\ j \in 0 .. N
      BY <1>1
    <2>2. Inv(j - 1, s) /\ s \in Seq(1 .. N)
      BY <2>1
    <2>3. \A b : b \in 1 .. j <=> b \in 1 .. j - 1 \/ b = j
      BY <1>1
    <2> HIDE DEF Child
    <2>4. Inv(j, Grow(s, j)) /\ Grow(s, j) \in Seq(1 .. N)
      <3>1. CASE ~Child(j)
        BY <2>2, <2>3, <3>1
      <3>2. CASE Child(j)
        <4>0. PICK len \in Nat : len = Len(s)
          BY <2>2
        <4>1. PICK t \in Seq(1 .. N) :
                /\ t = Append(s, j) /\ len = Len(s) /\ Len(t) = len + 1
                /\ \A n \in 1 .. len : t[n] = s[n]
                /\ t[len + 1] = j
          <5>1. s \in Seq(1 .. N) /\ j \in 1 .. N
            BY <2>2
          <5> HIDE DEF Inv, Grow, D, step, IsList, list
          <5> QED
            BY <4>0, <5>1, AppendProperties
        <4>2. \A n \in 1 .. len + 1 : n \in 1 .. len \/ n = len + 1
          OBVIOUS
        <4>3. \A n \in 1 .. len : s[n] \in 1 .. j - 1 /\ s[n] < j
          BY <1>1, <2>2, <4>1
        <4>4. \A n \in 1 .. Len(t) : t[n] \in 1 .. j /\ Child(t[n])
          BY <2>2, <2>3, <3>2, <4>1, <4>2
        <4>5. \A m, n \in 1 .. Len(t) : m < n => t[m] < t[n]
          BY <2>2, <4>1, <4>2, <4>3
        <4>6. \A a \in 1 .. j : Child(a) => \E n \in 1 .. Len(t) : t[n] = a
          <5> SUFFICES ASSUME NEW a \in 1 .. j, Child(a) PROVE \E n \in 1 .. len + 1 : t[n] = a
            BY <4>1
          <5>1. CASE a = j
            <6>1. len + 1 \in 1 .. len + 1
              OBVIOUS
            <6> QED
              BY <4>1, <5>1, <6>1
          <5>2. CASE a # j
            <6>1. PICK n \in 1 .. len : s[n] = a
              BY <2>2, <2>3, <4>1, <5>2
            <6> QED
              BY <4>1, <6>1
          <5> QED
            BY <5>1, <5>2
        <4> QED
          BY <3>2, <4>1, <4>4, <4>5, <4>6
      <3> QED
        BY <3>1, <3>2
    <2>5. step[<<j, s>>] = Grow(s, j)
      BY <2>2
    <2> HIDE DEF Grow, Inv
    <2>6. Grow(s, j) \in D[j]
      BY <2>1, <2>4
    <2> QED
      BY <2>2, <2>5, <2>6
  <1> HIDE DEF D, step, Inv
  <1>4. \E f : IsList(f)
    <2>1. PICK f : IsLoop(f, 0, N, <<>>, step) /\ \A j \in 0 .. N : f[j] \in D[j]
      <3>1. \A j \in 0 + 1 .. N : \A s \in D[j - 1] : step[<<j, s>>] \in D[j]
        <4>1. 0 + 1 .. N = 1 .. N
          OBVIOUS
        <4>2. ASSUME NEW j \in 1 .. N, NEW s \in D[j - 1] PROVE step[<<j, s>>] \in D[j]
          BY <1>3
        <4> QED
          BY <4>1, <4>2
      <3> QED
        BY <1>1, <1>2, <3>1, LoopExists
    <2>2. \A j \in 0 .. N : j # 0 => j \in 1 .. N /\ j - 1 \in 0 .. N
      BY <1>1
    <2>3. \A j \in 0 .. N : j # 0 => step[<<j, f[j - 1]>>] = Grow(f[j - 1], j)
      BY <1>3, <2>1, <2>2
    <2>4. /\ f = [j \in 0 .. N |-> f[j]]
          /\ \A j \in 0 .. N : f[j] = IF j = 0 THEN <<>> ELSE Grow(f[j - 1], j)
      BY <2>1, <2>3 DEF IsLoop
    <2>5. f = [j \in 0 .. N |-> IF j = 0 THEN <<>> ELSE Grow(f[j - 1], j)]
      BY <2>4
    <2> QED
      BY <2>5
  <1>5. IsList(list) /\ Listed(i) = list[N]
    BY <1>1, <1>4 DEF Listed
  <1> HIDE DEF list
  <1>6. list[N] \in D[N]
    <2> DEFINE S == {j \in 0 .. N : list[j] \in D[j]}
    <2>1. 0 \in S
      BY <1>1, <1>2, <1>5
    <2>2. ASSUME NEW j \in 0 + 1 .. N, j - 1 \in S PROVE j \in S
      <3>1. j \in 0 .. N /\ j # 0 /\ j \in 1 .. N
        BY <1>1
      <3>2. list[j] = Grow(list[j - 1], j) /\ list[j - 1] \in D[j - 1]
        BY <1>5, <2>2, <3>1
      <3> QED
        BY <1>3, <3>1, <3>2
    <2> HIDE DEF S
    <2>3. \A j \in 0 .. N : j \in S
      BY <1>1, <2>1, <2>2, Rounds
    <2> QED
      BY <1>1, <2>3 DEF S
  <1>7. PICK L \in Seq(1 .. N) : L = Listed(i) /\ Inv(N, L)
    <2>1. N \in 0 .. N
      BY <1>1
    <2> QED
      BY <1>5, <1>6, <2>1 DEF D
  <1>8. \A a \in 1 .. N : Child(a) => a \in 2 .. N /\ remap[a] \in 2 .. N
    <2> SUFFICES ASSUME NEW a \in 1 .. N, Child(a) PROVE a \in 2 .. N
      BY <1>1, RootStays
    <2> SUFFICES ASSUME a = 1 PROVE FALSE
      BY <1>1
    <2>1. remap[a] = 1 /\ dents # <<>>
      BY <1>1 DEF Permutes
    <2>2. dents[1].parent = 1
      BY <2>1 DEF Tree
    <2> QED
      BY <2>1, <2>2
  <1>9. \A n \in 1 .. Len(L) : L[n] \in 2 .. N /\ remap[L[n]] \in 2 .. N /\ dents[remap[L[n]]].parent = i
    BY <1>7, <1>8 DEF Inv
  <1>10. \A j \in 2 .. N : dents[j].parent = i => \E n \in 1 .. Len(L) : remap[L[n]] = j
    <2> SUFFICES ASSUME NEW j \in 2 .. N, dents[j].parent = i PROVE \E n \in 1 .. Len(L) : remap[L[n]] = j
      OBVIOUS
    <2>1. PICK a \in 1 .. N : remap[a] = j
      BY <1>1 DEF Permutes
    <2>2. a # 1 /\ a \in 2 .. N
      <3>1. remap[1] = 1 /\ j # 1
        BY <1>1 DEF Permutes
      <3> QED
        BY <1>1, <2>1, <3>1
    <2>3. Child(a)
      BY <2>1, <2>2, OnlyRootLeftOut
    <2> QED
      BY <1>7, <2>1, <2>3 DEF Inv
  <1>11. L \in Seq(2 .. N) /\ Len(L) \in Nat
    <2>1. PICK len \in Nat : len = Len(L) /\ L = [n \in 1 .. len |-> L[n]]
      BY <1>7
    <2>2. L \in [1 .. len -> 2 .. N]
      BY <1>9, <2>1
    <2> QED
      BY <2>1, <2>2
  <1> QED
    BY <1>7, <1>9, <1>10, <1>11 DEF Inv

\* A path is its directory and its name.
LEMMA SamePath ==
  ASSUME NEW p \in Seq(Nat), p # <<>>, NEW q \in Seq(Nat), q # <<>>, Front(p) = Front(q), Last(p) = Last(q)
  PROVE  p = q
  <1>1. PICK m \in Nat, n \in Nat : m = Len(p) /\ n = Len(q) /\ m # 0 /\ n # 0
    OBVIOUS
  <1>2. /\ Len(Front(p)) = m - 1 /\ \A x \in 1 .. m - 1 : Front(p)[x] = p[x]
        /\ Len(Front(q)) = n - 1 /\ \A x \in 1 .. n - 1 : Front(q)[x] = q[x]
    BY <1>1 DEF Front
  <1>3. m = n /\ p[m] = q[m]
    BY <1>1, <1>2 DEF Last
  <1>4. \A x \in 1 .. m : p[x] = q[x]
    BY <1>1, <1>2, <1>3
  <1>5. p = [x \in 1 .. m |-> p[x]] /\ q = [x \in 1 .. n |-> q[x]]
    BY <1>1
  <1> QED
    BY <1>3, <1>4, <1>5

\* What the invariant says of a finished image.
LEMMA DoneFacts ==
  ASSUME IInv, pc = "done"
  PROVE  /\ LinesInv /\ EntriesInv /\ Tree(dents) /\ N \in Nat /\ 1 \in 1 .. N
         /\ Permutes(remap) /\ Ordered(remap, N + 1)
         /\ \A i \in 1 .. N : IsDir(i) => image[dents[i].sector] = DirSector(i)
         /\ \A i \in 1 .. N : ~IsDir(i) => Placed(i)
         /\ image[16].root = 22
         /\ dents[1].path = <<>> /\ dents[1].sector = 22 /\ dents[1].parent = 1 /\ IsDir(1)
  <1>1. /\ LinesInv /\ EntriesInv /\ Tree(dents) /\ DirSectors(dents) /\ N \in Nat /\ dents # <<>>
        /\ Permutes(remap) /\ Ordered(remap, N + 1)
    BY EntryFacts DEF IInv, EntriesInv, OrderInv, PhaseInv, Late
  <1>2. k - 1 = N
    BY <1>1 DEF IInv, PhaseInv
  <1>3. /\ \A i \in 1 .. N : IsDir(i) => image[dents[i].sector] = DirSector(i)
        /\ \A i \in 1 .. N : ~IsDir(i) => Placed(i)
        /\ image[16].root = 22
    BY <1>2 DEF IInv, ContentsInv
  <1>4. /\ dents[1].path = <<>> /\ dents[1].sector = 22 /\ dents[1].parent = 1 /\ IsDir(1)
        /\ 1 \in 1 .. N
    BY <1>1 DEF Tree, DirSectors, IsDir, N
  <1> QED
    BY <1>1, <1>3, <1>4

\* An entry is in the directory its path names.
LEMMA ChildFacts ==
  ASSUME Tree(dents), NEW i \in 1 .. N, NEW j \in 2 .. N
  PROVE  /\ j \in 1 .. N /\ dents[j].path \in Seq(Nat) /\ dents[j].path # <<>>
         /\ dents[j].parent \in 1 .. N /\ IsDir(dents[j].parent)
         /\ dents[dents[j].parent].path = Front(dents[j].path)
         /\ (dents[j].parent = i <=> Front(dents[j].path) = dents[i].path)
  <1>1. N \in Nat /\ j \in 1 .. N /\ dents[j].path \in Seq(Nat)
    BY EntryFacts
  <1>2. PICK p : p = dents[j].parent /\ p \in 1 .. j - 1
    BY DEF Tree, N
  <1>3. /\ p \in 1 .. N /\ IsDir(p) /\ dents[p].path = Front(dents[j].path)
        /\ dents[j].path # <<>>
    BY <1>1, <1>2 DEF Tree, N, IsDir
  <1>4. dents[i].path = dents[p].path => i = p
    BY <1>3 DEF Tree, N
  <1> QED
    BY <1>1, <1>2, <1>3, <1>4

LEMMA DirectoriesAreExact ==
  ASSUME IInv
  PROVE  DirectoriesExact
  <1> SUFFICES ASSUME pc = "done", NEW i \in 1 .. N, IsDir(i), NEW s, s = image[dents[i].sector],
                      NEW names, names = [n \in 1 .. Len(s.records) |-> s.records[n].name]
               PROVE  /\ s.self = dents[i].sector
                      /\ s.up = dents[IF i = 1 THEN 1 ELSE FindDent(dents, Front(dents[i].path))].sector
                      /\ {names[n] : n \in 1 .. Len(names)} =
                           {Last(dents[j].path) : j \in {j \in 2 .. N : Front(dents[j].path) = dents[i].path}}
                      /\ \A n \in 1 .. Len(names) - 1 : names[n] < names[n + 1]
    BY DEF DirectoriesExact, N, IsDir
  <1>1. /\ Tree(dents) /\ N \in Nat /\ Permutes(remap) /\ Ordered(remap, N + 1)
        /\ s = DirSector(i) /\ dents[1].parent = 1
    BY DoneFacts
  <1>0. PICK L : L = Listed(i)
    OBVIOUS
  <1>2. PICK len \in Nat :
          /\ L = Listed(i) /\ len = Len(L)
          /\ \A n \in 1 .. len : L[n] \in 2 .. N /\ remap[L[n]] \in 2 .. N /\ dents[remap[L[n]]].parent = i
          /\ \A m, n \in 1 .. len : m < n => L[m] < L[n]
          /\ \A j \in 2 .. N : dents[j].parent = i => \E n \in 1 .. len : remap[L[n]] = j
    <2>1. Len(Listed(i)) \in Nat
      BY <1>1, ListedFacts
    <2>2. \A n \in 1 .. Len(Listed(i)) : /\ Listed(i)[n] \in 2 .. N
                                          /\ remap[Listed(i)[n]] \in 2 .. N
                                          /\ dents[remap[Listed(i)[n]]].parent = i
      BY <1>1, ListedFacts
    <2>3. \A m, n \in 1 .. Len(Listed(i)) : m < n => Listed(i)[m] < Listed(i)[n]
      BY <1>1, ListedFacts
    <2>4. \A j \in 2 .. N : dents[j].parent = i => \E n \in 1 .. Len(Listed(i)) : remap[Listed(i)[n]] = j
      BY <1>1, ListedFacts
    <2> QED
      BY <1>0, <2>1, <2>2, <2>3, <2>4
  <1>3. /\ s.self = dents[i].sector /\ s.up = dents[dents[i].parent].sector
        /\ s.records = [n \in 1 .. len |-> Record(dents[remap[L[n]]])]
    BY <1>1, <1>2 DEF DirSector
  <1>4. s.up = dents[IF i = 1 THEN 1 ELSE FindDent(dents, Front(dents[i].path))].sector
    <2>1. CASE i = 1
      BY <1>1, <1>3, <2>1
    <2>2. CASE i # 1
      <3>1. i \in 2 .. N
        BY <1>1, <2>2
      <3>2. PICK p \in 1 .. N : p = dents[i].parent /\ dents[p].path = Front(dents[i].path)
        BY <1>1, <3>1, ChildFacts
      <3>3. \A x \in 1 .. N : dents[x].path = Front(dents[i].path) => x = p
        BY <1>1, <3>2 DEF Tree, N
      <3>4. FindDent(dents, Front(dents[i].path)) = p
        BY <3>2, <3>3 DEF FindDent, N
      <3> QED
        BY <1>3, <2>2, <3>2, <3>4
    <2> QED
      BY <2>1, <2>2
  <1>5. names = [n \in 1 .. len |-> Last(dents[remap[L[n]]].path)] /\ Len(names) = len
    <2>1. Len(s.records) = len /\ \A n \in 1 .. len : s.records[n] = Record(dents[remap[L[n]]])
      BY <1>3
    <2>2. ASSUME NEW n \in 1 .. len PROVE s.records[n].name = Last(dents[remap[L[n]]].path)
      <3>1. PICK d : d = dents[remap[L[n]]]
        OBVIOUS
      <3>2. Record(d).name = Last(d.path)
        BY DEF Record
      <3> QED
        BY <2>1, <3>1, <3>2
    <2> QED
      BY <2>1, <2>2
  <1>6. {names[n] : n \in 1 .. Len(names)} =
          {Last(dents[j].path) : j \in {j \in 2 .. N : Front(dents[j].path) = dents[i].path}}
    <2>1. ASSUME NEW n \in 1 .. len
          PROVE  \E j \in 2 .. N : Front(dents[j].path) = dents[i].path /\ names[n] = Last(dents[j].path)
      <3>1. PICK j \in 2 .. N : j = remap[L[n]] /\ dents[j].parent = i
        BY <1>2
      <3>2. Front(dents[j].path) = dents[i].path
        BY <1>1, <3>1, ChildFacts
      <3> QED
        BY <1>5, <3>1, <3>2
    <2>2. ASSUME NEW j \in 2 .. N, Front(dents[j].path) = dents[i].path
          PROVE  \E n \in 1 .. len : names[n] = Last(dents[j].path)
      <3>1. dents[j].parent = i
        BY <1>1, <2>2, ChildFacts
      <3>2. PICK n \in 1 .. len : remap[L[n]] = j
        BY <1>2, <3>1
      <3> QED
        BY <1>5, <3>2
    <2>3. PICK A, B : /\ A = {names[n] : n \in 1 .. len}
                     /\ B = {Last(dents[j].path) : j \in {j \in 2 .. N : Front(dents[j].path) = dents[i].path}}
      OBVIOUS
    <2>4. \A x : x \in A => x \in B
      BY <2>1, <2>3
    <2>5. \A x : x \in B => x \in A
      BY <2>2, <2>3
    <2>6. A = B
      BY <2>4, <2>5
    <2> QED
      BY <1>5, <2>3, <2>6
  <1>7. ASSUME NEW n \in 1 .. len - 1
        PROVE  names[n] < names[n + 1]
    <2>1. n \in 1 .. len /\ n + 1 \in 1 .. len /\ n < n + 1
      OBVIOUS
    <2>2. PICK a \in 2 .. N, b \in 2 .. N : a = L[n] /\ b = L[n + 1]
      BY <1>2, <2>1
    <2>3. b \in a + 1 .. N
      BY <1>1, <1>2, <2>1, <2>2
    <2>4. PICK x \in 2 .. N, y \in 2 .. N : x = remap[a] /\ y = remap[b]
      BY <1>2, <2>1, <2>2
    <2>5. /\ dents[x].parent = i /\ dents[y].parent = i
          /\ names[n] = Last(dents[x].path) /\ names[n + 1] = Last(dents[y].path)
      BY <1>2, <1>5, <2>1, <2>2, <2>4
    <2>6. Last(dents[x].path) \in Nat /\ Last(dents[y].path) \in Nat
      BY <1>1, EntryFacts
    <2>7. ~(Last(dents[x].path) > Last(dents[y].path))
      BY <1>1, <2>3, <2>4, <2>5 DEF Ordered, After
    <2>8. Last(dents[x].path) # Last(dents[y].path)
      <3> SUFFICES ASSUME Last(dents[x].path) = Last(dents[y].path) PROVE FALSE
        OBVIOUS
      <3>1. dents[x].path = dents[y].path
        BY <1>1, <2>5, ChildFacts, SamePath
      <3>2. x = y
        BY <1>1, <3>1 DEF Tree, N
      <3>3. a \in 1 .. N /\ b \in 1 .. N /\ a # b
        BY <1>1, <2>3
      <3> QED
        BY <1>1, <2>4, <3>2, <3>3 DEF Permutes
    <2>9. PICK u \in Nat, v \in Nat : u = names[n] /\ v = names[n + 1] /\ ~(u > v) /\ u # v
      BY <2>5, <2>6, <2>7, <2>8
    <2>10. u \in Nat /\ v \in Nat /\ ~(u > v) /\ u # v
      BY <2>9
    <2>11. u < v
      BY <2>10
    <2> QED
      BY <2>9, <2>11
  <1> QED
    BY <1>3, <1>4, <1>5, <1>6, <1>7

\* A directory lists each of its entries once, in the order of their names.
THEOREM DirectoriesExactHolds == Spec => []DirectoriesExact
  BY Invariance, DirectoriesAreExact, PTL
-----------------------------------------------------------------------------
(***************************************************************************)
(* How a reader finds a file.                                              *)
(***************************************************************************)
\* All directories on the way to an entry are there.
LEMMA WayTo ==
  ASSUME Tree(dents), dents[1].path = <<>>,
         NEW x \in 1 .. N, NEW p \in Seq(Nat), dents[x].path = p
  PROVE  \A l \in 0 .. Len(p) : \E i \in 1 .. N :
           dents[i].path = SubSeq(p, 1, l) /\ (l < Len(p) => IsDir(i))
  <1>1. PICK len \in Nat : len = Len(p)
    OBVIOUS
  <1> DEFINE Entry(l) == \E i \in 1 .. N : dents[i].path = SubSeq(p, 1, l) /\ (l < len => IsDir(i))
             S == {j \in 0 .. len : Entry(len - j)}
  <1>2. 0 \in S
    <2>1. SubSeq(p, 1, len) = p /\ len - 0 = len /\ 0 \in 0 .. len
      BY <1>1, SubSeqFull
    <2>2. Entry(len)
      BY <2>1
    <2> QED
      BY <2>1, <2>2
  <1>3. ASSUME NEW j \in 0 + 1 .. len, j - 1 \in S PROVE j \in S
    <2>1. PICK l \in 1 .. len : l = len - (j - 1) /\ l - 1 = len - j /\ j \in 0 .. len
      OBVIOUS
    <2>2. PICK i \in 1 .. N : dents[i].path = SubSeq(p, 1, l)
      BY <1>3, <2>1
    <2>3. SubSeq(p, 1, l) # <<>> /\ Front(SubSeq(p, 1, l)) = SubSeq(p, 1, l - 1)
      BY <1>1, FrontOfPrefix
    <2>4. i \in 2 .. N
      <3>1. i # 1 /\ N \in Nat
        BY <2>2, <2>3, EntryFacts
      <3> QED
        BY <3>1
    <2>5. dents[i].parent \in 1 .. N /\ IsDir(dents[i].parent) /\ dents[dents[i].parent].path = SubSeq(p, 1, l - 1)
      BY <2>2, <2>3, <2>4, ChildFacts
    <2>6. Entry(l - 1)
      BY <2>5
    <2> HIDE DEF Entry
    <2> QED
      BY <2>1, <2>6
  <1> HIDE DEF S, Entry
  <1>4. \A j \in 0 .. len : j \in S
    BY <1>2, <1>3, Rounds
  <1>5. ASSUME NEW l \in 0 .. len PROVE Entry(l)
    <2>1. PICK j \in 0 .. len : l = len - j
      <3>1. len - l \in 0 .. len /\ l = len - (len - l)
        OBVIOUS
      <3> QED
        BY <3>1
    <2> QED
      BY <1>4, <2>1 DEF S
  <1> QED
    BY <1>1, <1>5 DEF Entry

\* The records of the directory at sector s with a name.
Named(s, name) == {c \in Children(s) : c.name = name}

\* The directory of an entry has one record with its name, its own.
LEMMA NextName ==
  ASSUME IInv, pc = "done", NEW j \in 2 .. N, NEW i, i = dents[j].parent,
         NEW name, name = Last(dents[j].path)
  PROVE  Named(dents[i].sector, name) = {Record(dents[j])}
  <1>1. Tree(dents) /\ N \in Nat /\ Permutes(remap) /\ Ordered(remap, N + 1)
    BY DoneFacts
  <1>2. /\ i \in 1 .. N /\ IsDir(i) /\ dents[i].path = Front(dents[j].path)
        /\ dents[j].path \in Seq(Nat) /\ dents[j].path # <<>> /\ j \in 1 .. N
    BY <1>1, ChildFacts
  <1>3. image[dents[i].sector] = DirSector(i)
    BY <1>2, DoneFacts
  <1>5. PICK L : L = Listed(i)
    OBVIOUS
  <1>6. /\ Len(L) \in Nat
        /\ \A n \in 1 .. Len(L) : remap[L[n]] \in 2 .. N /\ dents[remap[L[n]]].parent = i
        /\ \A x \in 2 .. N : dents[x].parent = i => \E n \in 1 .. Len(L) : remap[L[n]] = x
    <2>1. /\ Len(Listed(i)) \in Nat
          /\ \A n \in 1 .. Len(Listed(i)) : remap[Listed(i)[n]] \in 2 .. N /\ dents[remap[Listed(i)[n]]].parent = i
      BY <1>1, <1>2, ListedFacts
    <2>2. \A x \in 2 .. N : dents[x].parent = i => \E n \in 1 .. Len(Listed(i)) : remap[Listed(i)[n]] = x
      BY <1>1, <1>2, ListedFacts
    <2> QED
      BY <1>5, <2>1, <2>2
  <1>7. \A c : c \in Children(dents[i].sector) <=> \E n \in 1 .. Len(L) : c = Record(dents[remap[L[n]]])
    <2>1. PICK rs : rs = [n \in 1 .. Len(L) |-> Record(dents[remap[L[n]]])] /\ rs = DirSector(i).records
      <3>1. DirSector(i).records = [n \in 1 .. Len(Listed(i)) |-> Record(dents[remap[Listed(i)[n]]])]
        BY DEF DirSector
      <3> QED
        BY <1>5, <3>1
    <2>2. image[dents[i].sector].records = rs /\ Len(rs) = Len(L)
      <3>1. image[dents[i].sector].records = rs
        BY <1>3, <2>1
      <3>2. PICK len \in Nat : len = Len(L)
        BY <1>6
      <3>3. Len(rs) = len
        BY <2>1, <3>2
      <3> QED
        BY <3>1, <3>2, <3>3
    <2>3. Children(dents[i].sector) = {rs[n] : n \in 1 .. Len(L)}
      BY <2>2 DEF Children
    <2> QED
      BY <2>1, <2>3
  <1>8. \A d : Record(d).name = Last(d.path)
    BY DEF Record
  <1>9. Record(dents[j]) \in Children(dents[i].sector) /\ Record(dents[j]).name = name
    BY <1>6, <1>7, <1>8
  <1>10. ASSUME NEW c \in Children(dents[i].sector), c.name = name
         PROVE  c = Record(dents[j])
    <2>1. PICK n \in 1 .. Len(L) : c = Record(dents[remap[L[n]]])
      BY <1>7
    <2>2. PICK x \in 2 .. N : x = remap[L[n]] /\ dents[x].parent = i
      BY <1>6
    <2>3. Last(dents[x].path) = name
      BY <1>8, <1>10, <2>1, <2>2
    <2>4. Front(dents[x].path) = dents[i].path /\ dents[x].path \in Seq(Nat) /\ dents[x].path # <<>> /\ x \in 1 .. N
      BY <1>1, <1>2, <2>2, ChildFacts
    <2>5. dents[x].path = dents[j].path
      BY <1>2, <2>3, <2>4, SamePath
    <2>6. x = j
      BY <1>1, <1>2, <2>4, <2>5 DEF Tree, N
    <2> QED
      BY <2>1, <2>2, <2>6
  <1> QED
    BY <1>9, <1>10 DEF Named

\* The names of a path lead to the record of its entry and to no other.
LEMMA ReachOne ==
  ASSUME IInv, pc = "done", NEW x \in 1 .. N, NEW p \in Seq(Nat), p # <<>>, dents[x].path = p
  PROVE  Reach(p) = {Record(dents[x])}
  <1>1. /\ Tree(dents) /\ N \in Nat /\ 1 \in 1 .. N /\ image[16].root = 22
        /\ dents[1].path = <<>> /\ dents[1].sector = 22 /\ IsDir(1)
    BY DoneFacts
  <1>2. PICK len \in Nat : len = Len(p) /\ len # 0
    OBVIOUS
  <1> DEFINE at(l) == CHOOSE i \in 1 .. N : dents[i].path = SubSeq(p, 1, l)
             At(l) == IF l = 0 THEN {[sector |-> image[16].root, dir |-> TRUE]} ELSE {Record(dents[at(l)])}
             Step(es, l) == UNION {{c \in Children(e.sector) : c.name = p[l]} : e \in {e \in es : e.dir}}
             IsReach(r) == r = [n \in 0 .. Len(p) |->
                                  IF n = 0 THEN {[sector |-> image[16].root, dir |-> TRUE]}
                                  ELSE UNION {{c \in Children(e.sector) : c.name = p[n]} :
                                                e \in {e \in r[n - 1] : e.dir}}]
             found == CHOOSE r : IsReach(r)
  <1>3. \A l \in 0 .. len : /\ at(l) \in 1 .. N /\ dents[at(l)].path = SubSeq(p, 1, l)
                            /\ l < len => IsDir(at(l))
    <2>1. \A l \in 0 .. len : \E i \in 1 .. N : dents[i].path = SubSeq(p, 1, l) /\ (l < len => IsDir(i))
      BY <1>1, <1>2, WayTo
    <2>2. \A i, y \in 1 .. N : dents[i].path = dents[y].path => i = y
      BY <1>1 DEF Tree, N
    <2> QED
      BY <2>1, <2>2
  <1> HIDE DEF at
  <1>4. at(0) = 1 /\ at(len) = x
    <2>1. SubSeq(p, 1, 0) = <<>> /\ SubSeq(p, 1, len) = p /\ 0 \in 0 .. len /\ len \in 0 .. len
      BY <1>2, SubSeqFull
    <2>2. \A i, y \in 1 .. N : dents[i].path = dents[y].path => i = y
      BY <1>1 DEF Tree, N
    <2>3. at(0) \in 1 .. N /\ dents[at(0)].path = dents[1].path
      BY <1>1, <1>3, <2>1
    <2>4. at(len) \in 1 .. N /\ dents[at(len)].path = dents[x].path
      BY <1>3, <2>1
    <2> QED
      BY <1>1, <2>2, <2>3, <2>4
  <1>5. ASSUME NEW l \in 1 .. len
        PROVE  Step(At(l - 1), l) = At(l)
    <2>1. PICK i \in 1 .. N, j \in 1 .. N : i = at(l - 1) /\ j = at(l)
      <3>1. l - 1 \in 0 .. len /\ l \in 0 .. len
        OBVIOUS
      <3> QED
        BY <1>3, <3>1
    <2>2. IsDir(i) /\ dents[i].path = SubSeq(p, 1, l - 1) /\ dents[j].path = SubSeq(p, 1, l)
      <3>1. l - 1 \in 0 .. len /\ l \in 0 .. len /\ l - 1 < len
        OBVIOUS
      <3> QED
        BY <1>3, <2>1, <3>1
    <2>3. Named(dents[i].sector, p[l]) = {Record(dents[j])}
      <3>1. /\ dents[j].path # <<>> /\ Front(dents[j].path) = dents[i].path
            /\ Last(dents[j].path) = p[l]
        BY <1>2, <2>2, FrontOfPrefix
      <3>2. j \in 2 .. N
        BY <1>1, <3>1
      <3>3. dents[j].parent = i
        BY <1>1, <3>1, <3>2, ChildFacts
      <3>4. PICK name : name = p[l] /\ name = Last(dents[j].path)
        BY <3>1
      <3>5. Named(dents[i].sector, name) = {Record(dents[j])}
        BY <3>2, <3>3, <3>4, NextName
      <3> QED
        BY <3>4, <3>5
    <2>4. PICK e : At(l - 1) = {e} /\ e.sector = dents[i].sector /\ e.dir = TRUE
      <3>1. CASE l = 1
        <4>1. PICK e : e = [sector |-> image[16].root, dir |-> TRUE]
          OBVIOUS
        <4>2. At(l - 1) = {e}
          BY <3>1, <4>1
        <4>3. e.sector = dents[i].sector /\ e.dir = TRUE
          <5>1. i = 1
            BY <1>4, <2>1, <3>1
          <5> QED
            BY <1>1, <4>1, <5>1
        <4> QED
          BY <4>2, <4>3
      <3>2. CASE l # 1
        <4>1. PICK e : e = Record(dents[i])
          OBVIOUS
        <4>2. At(l - 1) = {e}
          BY <2>1, <3>2, <4>1
        <4>3. e.sector = dents[i].sector /\ e.dir = TRUE
          BY <2>2, <4>1 DEF Record, IsDir
        <4> QED
          BY <4>2, <4>3
      <3> QED
        BY <3>1, <3>2
    <2>5. {y \in At(l - 1) : y.dir} = {e}
      BY <2>4
    <2>6. Step(At(l - 1), l) = Named(e.sector, p[l])
      <3> HIDE DEF At
      <3> QED
        BY <2>5 DEF Named
    <2>7. At(l) = {Record(dents[j])}
      BY <2>1
    <2> QED
      BY <2>3, <2>4, <2>6, <2>7
  <1> HIDE DEF At
  <1>6. At(0) = {[sector |-> image[16].root, dir |-> TRUE]} /\ At(len) = {Record(dents[x])}
    BY <1>2, <1>4 DEF At
  <1>7. \E r : IsReach(r)
    <2> DEFINE r == [l \in 0 .. len |-> At(l)]
    <2>1. \A l \in 0 .. len : l # 0 => l - 1 \in 0 .. len /\ l \in 1 .. len
      OBVIOUS
    <2>2. \A l \in 0 .. len : r[l] = IF l = 0 THEN {[sector |-> image[16].root, dir |-> TRUE]} ELSE Step(r[l - 1], l)
      BY <1>5, <1>6, <2>1
    <2>3. r = [l \in 0 .. len |-> r[l]]
      OBVIOUS
    <2> HIDE DEF r
    <2>4. IsReach(r)
      BY <1>2, <2>2, <2>3
    <2> QED
      BY <2>4
  <1>8. IsReach(found) /\ Reach(p) = found[len]
    BY <1>2, <1>7 DEF Reach
  <1> HIDE DEF found
  <1>9. found[len] = At(len)
    <2> DEFINE S == {l \in 0 .. len : found[l] = At(l)}
    <2>1. 0 \in S
      BY <1>2, <1>6, <1>8
    <2>2. ASSUME NEW l \in 0 + 1 .. len, l - 1 \in S PROVE l \in S
      <3>1. l \in 0 .. len /\ l # 0 /\ l \in 1 .. len
        OBVIOUS
      <3>2. found[l] = Step(found[l - 1], l)
        BY <1>2, <1>8, <3>1
      <3> QED
        BY <1>5, <2>2, <3>1, <3>2
    <2> HIDE DEF S
    <2>3. \A l \in 0 .. len : l \in S
      BY <2>1, <2>2, Rounds
    <2> QED
      BY <2>3 DEF S
  <1> QED
    BY <1>6, <1>8, <1>9

LEMMA FilesAreFound ==
  ASSUME IInv
  PROVE  EveryFileFound
  <1> SUFFICES ASSUME pc = "done", NEW n \in 1 .. Len(manifest)
               PROVE  LET p     == manifest[n][1]
                          first == CHOOSE m \in 1 .. n :
                                     manifest[m][1] = p /\ \A l \in 1 .. m - 1 : manifest[l][1] # p
                          raw   == manifest[first][2] = "raw"
                          parts == CeilDiv(lengths[p], IF raw THEN RawSize ELSE DataSize)
                      IN \E e \in Reach(p) :
                           /\ Reach(p) = {e}
                           /\ ~e.dir
                           /\ e.length = IF raw THEN parts * DataSize ELSE lengths[p]
                           /\ \A j \in 1 .. parts :
                                /\ e.sector + j - 1 \in DOMAIN image
                                /\ image[e.sector + j - 1] = [kind |-> "data", path |-> p, part |-> j]
    BY DEF EveryFileFound
  <1> DEFINE p       == manifest[n][1]
             IsFirst(m) == manifest[m][1] = p /\ \A l \in 1 .. m - 1 : manifest[l][1] # p
             first   == CHOOSE m \in 1 .. n : IsFirst(m)
             raw     == manifest[first][2] = "raw"
             parts   == CeilDiv(lengths[p], IF raw THEN RawSize ELSE DataSize)
  <1>1. LinesInv /\ EntriesInv /\ Tree(dents) /\ \A i \in 1 .. N : ~IsDir(i) => Placed(i)
    BY DoneFacts
  <1>2. p \in Seq(Nat) /\ p # <<>> /\ n \in Nat /\ Len(manifest) \in Nat
    BY <1>1, PathFacts DEF Listing, LinesInv
  <1>3. \E m \in 1 .. n : IsFirst(m)
    <2> DEFINE S == {m \in 1 .. n : manifest[m][1] = p}
    <2>1. S \in SUBSET Nat /\ n \in S
      BY <1>2
    <2>2. PICK m \in S : \A w \in S : m <= w
      BY <2>1, LeastExists
    <2>3. \A l \in 1 .. m - 1 : manifest[l][1] # p
      BY <1>2, <2>2
    <2> QED
      BY <2>2, <2>3
  <1>4. first \in 1 .. n /\ IsFirst(first)
    BY <1>3
  <1>5. first \in 1 .. Len(manifest) /\ Listing(first) = p /\ FirstLine(first)
        /\ manifest[first][2] \in {"dat", "raw"}
    <2>1. first \in 1 .. Len(manifest)
      BY <1>2, <1>4
    <2> QED
      BY <1>1, <1>4, <2>1, PathFacts DEF Listing, FirstLine
  <1>6. PICK x \in 1 .. N : dents[x].path = p /\ dents[x].mode = manifest[first][2]
    BY <1>1, <1>5 DEF EntriesInv
  <1>7. PICK d : d = dents[x] /\ d.mode \in {"dat", "raw"} /\ d.path = p /\ d.mode = manifest[first][2]
    BY <1>5, <1>6
  <1>8. ~IsDir(x) /\ Placed(x)
    BY <1>1, <1>7 DEF IsDir
  <1>9. PICK e : e = Record(d)
    OBVIOUS
  <1>10. Reach(p) = {e}
    BY <1>2, <1>6, <1>7, <1>9, ReachOne
  <1>11. e.dir = FALSE /\ e.length = d.length /\ e.sector = d.sector
    BY <1>7, <1>9 DEF Record
  <1>12. parts = FileSectors(d.mode, lengths[p])
    BY <1>7 DEF FileSectors
  <1>13. e.length = IF raw THEN parts * DataSize ELSE lengths[p]
    BY <1>7, <1>8, <1>11, <1>12 DEF Placed, RecordLength
  <1>14. \A j \in 1 .. parts :
           /\ e.sector + j - 1 \in DOMAIN image
           /\ image[e.sector + j - 1] = [kind |-> "data", path |-> p, part |-> j]
    BY <1>7, <1>8, <1>11, <1>12 DEF Placed
  <1> QED
    BY <1>10, <1>11, <1>13, <1>14

\* Every listed file is found under its path by exactly one record, which
\* gives its length and a run of sectors that hold its data in order.
THEOREM EveryFileFoundHolds == Spec => []EveryFileFound
  BY Invariance, FilesAreFound, PTL
=====
