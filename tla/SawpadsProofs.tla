----------------------------- MODULE SawpadsProofs -----------------------------
(***************************************************************************)
(* Theorems about the controller and memory card driver, for any sectors   *)
(* of any size, any data and any number of late interrupts.                *)
(***************************************************************************)
EXTENDS Sawpads, SequenceTheorems, FiniteSetTheorems, TLAPS

CardOps == {"ReadCard", "WriteCard"}
AllOps  == CardOps \cup {"ReadPad"}

\* What is sent in which place.
LEMMA ReadScript ==
  ASSUME NEW w
  PROVE  /\ Len(Script("ReadCard", w)) = SectorSize + 12
         /\ Script("ReadCard", w)[1] = "select"
         /\ Script("ReadCard", w)[2] = "cmd"
         /\ Script("ReadCard", w)[3] = "idhi"
         /\ Script("ReadCard", w)[4] = "idlo"
         /\ Script("ReadCard", w)[5] = "hi"
         /\ Script("ReadCard", w)[6] = "lo"
         /\ Script("ReadCard", w)[7] = "ack"
         /\ Script("ReadCard", w)[8] = "ack"
         /\ Script("ReadCard", w)[9] = "confhi"
         /\ Script("ReadCard", w)[10] = "conflo"
         /\ \A i \in 11 .. SectorSize + 10 : Script("ReadCard", w)[i] = "data"
         /\ Script("ReadCard", w)[SectorSize + 11] = "check"
         /\ Script("ReadCard", w)[SectorSize + 12] = "result"
<1> SectorSize \in Nat
  BY SizeAssumption
<1>1. Len(Script("ReadCard", w)) = SectorSize + 12
  BY DEF Script, Block
<1>2. /\ Script("ReadCard", w)[1] = "select"
      /\ Script("ReadCard", w)[2] = "cmd"
      /\ Script("ReadCard", w)[3] = "idhi"
      /\ Script("ReadCard", w)[4] = "idlo"
      /\ Script("ReadCard", w)[5] = "hi"
      /\ Script("ReadCard", w)[6] = "lo"
      /\ Script("ReadCard", w)[7] = "ack"
      /\ Script("ReadCard", w)[8] = "ack"
      /\ Script("ReadCard", w)[9] = "confhi"
      /\ Script("ReadCard", w)[10] = "conflo"
  BY DEF Script, Block
<1>3. ASSUME NEW i \in 11 .. SectorSize + 10
      PROVE  Script("ReadCard", w)[i] = "data"
  BY SMTT(30) DEF Script, Block
<1>4. Script("ReadCard", w)[SectorSize + 11] = "check"
  BY SMTT(30) DEF Script, Block
<1>5. Script("ReadCard", w)[SectorSize + 12] = "result"
  BY SMTT(30) DEF Script, Block
<1> QED
  BY <1>1, <1>2, <1>3, <1>4, <1>5

LEMMA WriteScript ==
  ASSUME NEW w
  PROVE  /\ Len(Script("WriteCard", w)) = SectorSize + 10
         /\ Script("WriteCard", w)[1] = "select"
         /\ Script("WriteCard", w)[2] = "cmd"
         /\ Script("WriteCard", w)[3] = "idhi"
         /\ Script("WriteCard", w)[4] = "idlo"
         /\ Script("WriteCard", w)[5] = "hi"
         /\ Script("WriteCard", w)[6] = "lo"
         /\ \A i \in 7 .. SectorSize + 6 : Script("WriteCard", w)[i] = "data"
         /\ Script("WriteCard", w)[SectorSize + 7] = "check"
         /\ Script("WriteCard", w)[SectorSize + 8] = "ack"
         /\ Script("WriteCard", w)[SectorSize + 9] = "ack"
         /\ Script("WriteCard", w)[SectorSize + 10] = "result"
<1> SectorSize \in Nat
  BY SizeAssumption
<1>1. Len(Script("WriteCard", w)) = SectorSize + 10
  BY DEF Script, Block
<1>2. /\ Script("WriteCard", w)[1] = "select"
      /\ Script("WriteCard", w)[2] = "cmd"
      /\ Script("WriteCard", w)[3] = "idhi"
      /\ Script("WriteCard", w)[4] = "idlo"
      /\ Script("WriteCard", w)[5] = "hi"
      /\ Script("WriteCard", w)[6] = "lo"
  BY DEF Script, Block
<1>3. ASSUME NEW i \in 7 .. SectorSize + 6
      PROVE  Script("WriteCard", w)[i] = "data"
  BY SMTT(30) DEF Script, Block
<1>4. /\ Script("WriteCard", w)[SectorSize + 7] = "check"
      /\ Script("WriteCard", w)[SectorSize + 8] = "ack"
  BY SMTT(30) DEF Script, Block
<1>5. /\ Script("WriteCard", w)[SectorSize + 9] = "ack"
      /\ Script("WriteCard", w)[SectorSize + 10] = "result"
  BY SMTT(30) DEF Script, Block
<1> QED
  BY <1>1, <1>2, <1>3, <1>4, <1>5

LEMMA PadScript ==
  ASSUME NEW w \in 1 .. MaxWords
  PROVE  /\ Len(Script("ReadPad", w)) = 2 * w + 3
         /\ Script("ReadPad", w)[1] = "select"
         /\ Script("ReadPad", w)[2] = "cmd"
         /\ Script("ReadPad", w)[3] = "hid"
         /\ \A i \in 4 .. 2 * w + 3 : Script("ReadPad", w)[i] = "data"
<1> w \in Nat
  BY SizeAssumption
<1> QED
  BY DEF Script, Block

\* What a device follows.
LEMMA ReadKinds ==
  ASSUME op = "ReadCard", pos \in 1 .. Len(Script(op, words))
  PROVE  /\ pos \in 1 .. SectorSize + 12
         /\ Last <=> pos = SectorSize + 12
         /\ Kind = "select" <=> pos = 1
         /\ Kind = "cmd" <=> pos = 2
         /\ Kind = "idhi" <=> pos = 3
         /\ Kind = "idlo" <=> pos = 4
         /\ Kind = "hi" <=> pos = 5
         /\ Kind = "lo" <=> pos = 6
         /\ Kind = "confhi" <=> pos = 9
         /\ Kind = "conflo" <=> pos = 10
         /\ Kind = "data" <=> pos \in 11 .. SectorSize + 10
         /\ Kind = "check" <=> pos = SectorSize + 11
         /\ Kind = "result" <=> pos = SectorSize + 12
         /\ Kind # "hid"
<1>1. SectorSize \in Nat \ {0} /\ pos \in 1 .. SectorSize + 12
  BY SizeAssumption, ReadScript
<1>2. \/ pos \in {1, 2, 3, 4, 5, 6, 7, 8, 9, 10} \/ pos \in 11 .. SectorSize + 10
      \/ pos \in {SectorSize + 11, SectorSize + 12}
  BY <1>1
<1>3. Last <=> pos = SectorSize + 12
  BY ReadScript DEF Last
<1>4. CASE pos \in {1, 2, 3, 4, 5, 6, 7, 8, 9, 10}
  <2> DEFINE s == Script(op, words)
  <2>1. /\ s[1] = "select" /\ s[2] = "cmd" /\ s[3] = "idhi" /\ s[4] = "idlo"
        /\ s[5] = "hi" /\ s[6] = "lo" /\ s[7] = "ack" /\ s[8] = "ack"
        /\ s[9] = "confhi" /\ s[10] = "conflo"
    BY ReadScript
  <2>2. Kind = s[pos]
    BY DEF Kind
  <2> HIDE DEF s
  <2>3. Kind \in {"select", "cmd", "idhi", "idlo", "hi", "lo", "ack", "confhi", "conflo"}
    BY <1>4, <2>1, <2>2
  <2>4. /\ Kind = "select" <=> pos = 1
        /\ Kind = "cmd" <=> pos = 2
        /\ Kind = "idhi" <=> pos = 3
        /\ Kind = "idlo" <=> pos = 4
        /\ Kind = "hi" <=> pos = 5
        /\ Kind = "lo" <=> pos = 6
        /\ Kind = "confhi" <=> pos = 9
        /\ Kind = "conflo" <=> pos = 10
    BY <1>4, <2>1, <2>2
  <2>5. Kind \notin {"data", "check", "result", "hid"}
    BY <2>3
  <2>6. /\ pos \notin 11 .. SectorSize + 10 /\ pos # SectorSize + 11
        /\ pos # SectorSize + 12
    BY <1>1, <1>4
  <2> QED
    BY <1>1, <1>3, <2>4, <2>5, <2>6
<1>5. CASE pos \in 11 .. SectorSize + 10
  <2>1. Kind = "data"
    BY <1>5, ReadScript DEF Kind
  <2> QED
    BY <1>1, <1>3, <1>5, <2>1
<1>6. CASE pos \in {SectorSize + 11, SectorSize + 12}
  BY <1>1, <1>3, <1>6, ReadScript DEF Kind
<1> QED
  BY <1>2, <1>4, <1>5, <1>6

LEMMA WriteKinds ==
  ASSUME op = "WriteCard", pos \in 1 .. Len(Script(op, words))
  PROVE  /\ pos \in 1 .. SectorSize + 10
         /\ Last <=> pos = SectorSize + 10
         /\ Kind = "select" <=> pos = 1
         /\ Kind = "cmd" <=> pos = 2
         /\ Kind = "idhi" <=> pos = 3
         /\ Kind = "idlo" <=> pos = 4
         /\ Kind = "hi" <=> pos = 5
         /\ Kind = "lo" <=> pos = 6
         /\ Kind = "data" <=> pos \in 7 .. SectorSize + 6
         /\ Kind = "check" <=> pos = SectorSize + 7
         /\ Kind = "result" <=> pos = SectorSize + 10
         /\ Kind \notin {"hid", "confhi", "conflo"}
<1>1. SectorSize \in Nat \ {0} /\ pos \in 1 .. SectorSize + 10
  BY SizeAssumption, WriteScript
<1>2. \/ pos \in {1, 2, 3, 4, 5, 6} \/ pos \in 7 .. SectorSize + 6
      \/ pos \in {SectorSize + 7, SectorSize + 8, SectorSize + 9, SectorSize + 10}
  BY <1>1
<1>3. Last <=> pos = SectorSize + 10
  BY WriteScript DEF Last
<1>4. CASE pos \in {1, 2, 3, 4, 5, 6}
  <2>1. Kind \in {"select", "cmd", "idhi", "idlo", "hi", "lo"}
    BY <1>4, WriteScript DEF Kind
  <2> QED
    BY <1>1, <1>3, <1>4, <2>1, WriteScript DEF Kind
<1>5. CASE pos \in 7 .. SectorSize + 6
  <2>1. Kind = "data"
    BY <1>5, WriteScript DEF Kind
  <2> QED
    BY <1>1, <1>3, <1>5, <2>1
<1>6. CASE pos \in {SectorSize + 7, SectorSize + 8, SectorSize + 9, SectorSize + 10}
  BY <1>1, <1>3, <1>6, WriteScript DEF Kind
<1> QED
  BY <1>2, <1>4, <1>5, <1>6

LEMMA PadKinds ==
  ASSUME op = "ReadPad", words \in 1 .. MaxWords, pos \in 1 .. Len(Script(op, words))
  PROVE  /\ pos \in 1 .. 2 * words + 3
         /\ Last <=> pos = 2 * words + 3
         /\ Kind = "select" <=> pos = 1
         /\ Kind = "cmd" <=> pos = 2
         /\ Kind = "hid" <=> pos = 3
         /\ Kind = "data" <=> pos > 3
         /\ Kind \in {"select", "cmd", "hid", "data"}
<1>1. pos \in 1 .. 2 * words + 3 /\ words \in Nat
  BY PadScript, SizeAssumption
<1>2. pos \in {1, 2, 3} \/ pos \in 4 .. 2 * words + 3
  BY <1>1
<1>3. CASE pos \in {1, 2, 3}
  BY <1>1, <1>3, PadScript DEF Kind, Last
<1>4. CASE pos \in 4 .. 2 * words + 3
  <2>1. Kind = "data"
    BY <1>4, PadScript DEF Kind
  <2>2. Last <=> pos = 2 * words + 3
    BY PadScript DEF Last
  <2> QED
    BY <1>1, <1>4, <2>1, <2>2
<1> QED
  BY <1>2, <1>3, <1>4
-----------------------------------------------------------------------------
(* The exclusive or. *)

\* Sequences that differ in one place have different checksums: the place adds
\* one to the number of bytes with a bit of one of them.
LEMMA OneMore ==
  ASSUME NEW n \in Nat, NEW s, NEW t, NEW i \in 1 .. n, NEW k \in 0 .. 7,
         DOMAIN s = 1 .. n, DOMAIN t = 1 .. n,
         k \in s[i], k \notin t[i], \A j \in 1 .. n : j # i => s[j] = t[j]
  PROVE  XorAll(s) # XorAll(t)
<1> DEFINE S == {j \in 1 .. n : k \in s[j]}
           T == {j \in 1 .. n : k \in t[j]}
<1>1. IsFiniteSet(T)
  <2>1. IsFiniteSet(1 .. n)
    BY FS_Interval
  <2> QED
    BY <2>1, FS_Subset
<1>2. S = T \cup {i} /\ i \notin T
  OBVIOUS
<1>3. Cardinality(S) = Cardinality(T) + 1 /\ Cardinality(T) \in Nat
  BY <1>1, <1>2, FS_AddElement, FS_CardinalityType
<1>4. /\ k \in XorAll(s) <=> Cardinality(S) % 2 = 1
      /\ k \in XorAll(t) <=> Cardinality(T) % 2 = 1
  BY DEF XorAll
<1> HIDE DEF S, T
<1>5. Cardinality(S) % 2 = 1 <=> Cardinality(T) % 2 # 1
  BY <1>3
<1> QED
  BY <1>4, <1>5

LEMMA CheckType ==
  ASSUME NEW a, NEW bs
  PROVE  Check(a, bs) \in Bytes
BY DEF Check, XorAll, Bytes

LEMMA OneWrongByte ==
  ASSUME NEW a \in Sectors, NEW n \in Nat, NEW s \in [1 .. n -> Bytes], NEW t \in [1 .. n -> Bytes],
         NEW i \in 1 .. n, s[i] # t[i], \A j \in 1 .. n : j # i => s[j] = t[j]
  PROVE  Check(a, s) # Check(a, t)
<1> DEFINE u == a \o s
           v == a \o t
<1>0. PICK x \in Bytes, y \in Bytes : a = <<x, y>>
  BY ByteAssumption
<1>1. /\ DOMAIN u = 1 .. n + 2 /\ DOMAIN v = 1 .. n + 2
      /\ u[i + 2] = s[i] /\ v[i + 2] = t[i]
      /\ \A j \in 1 .. n + 2 : j # i + 2 => u[j] = v[j]
  <2>1. /\ a \in Seq(Bytes) /\ Len(a) = 2
        /\ s \in Seq(Bytes) /\ Len(s) = n
        /\ t \in Seq(Bytes) /\ Len(t) = n
    <3>1. a \in Seq(Bytes) /\ Len(a) = 2
      BY <1>0
    <3>2. s \in Seq(Bytes) /\ Len(s) = n
      OBVIOUS
    <3>3. t \in Seq(Bytes) /\ Len(t) = n
      OBVIOUS
    <3> QED
      BY <3>1, <3>2, <3>3
  <2>2. /\ u \in Seq(Bytes) /\ Len(u) = Len(a) + Len(s)
        /\ \A j \in 1 .. Len(a) + Len(s) :
             u[j] = IF j <= Len(a) THEN a[j] ELSE s[j - Len(a)]
    BY <2>1, ConcatProperties, ZenonT(30)
  <2>3. /\ v \in Seq(Bytes) /\ Len(v) = Len(a) + Len(t)
        /\ \A j \in 1 .. Len(a) + Len(t) :
             v[j] = IF j <= Len(a) THEN a[j] ELSE t[j - Len(a)]
    BY <2>1, ConcatProperties, ZenonT(30)
  <2> HIDE DEF u, v
  <2>4. DOMAIN u = 1 .. n + 2 /\ DOMAIN v = 1 .. n + 2
    BY <2>1, <2>2, <2>3
  <2>5. u[i + 2] = s[i] /\ v[i + 2] = t[i]
    BY <2>1, <2>2, <2>3
  <2>6. ASSUME NEW j \in 1 .. n + 2, j # i + 2
        PROVE  u[j] = v[j]
    <3>1. CASE j <= 2
      BY <2>1, <2>2, <2>3, <2>6, <3>1
    <3>2. CASE j > 2
      <4>1. u[j] = s[j - 2] /\ v[j] = t[j - 2]
        BY <2>1, <2>2, <2>3, <2>6, <3>2
      <4>2. j - 2 \in 1 .. n /\ j - 2 # i
        BY <2>6, <3>2
      <4> QED
        BY <4>1, <4>2
    <3> QED
      BY <3>1, <3>2
  <2> QED
    BY <2>4, <2>5, <2>6
<1>2. PICK k \in 0 .. 7 : (k \in s[i] /\ k \notin t[i]) \/ (k \in t[i] /\ k \notin s[i])
  <2>1. s[i] \subseteq 0 .. 7 /\ t[i] \subseteq 0 .. 7
    BY DEF Bytes
  <2> QED
    BY <2>1
<1> HIDE DEF u, v
<1>3. i + 2 \in 1 .. n + 2 /\ n + 2 \in Nat
  OBVIOUS
<1>4. CASE k \in s[i] /\ k \notin t[i]
  <2>1. XorAll(u) # XorAll(v)
    BY <1>1, <1>3, <1>4, OneMore
  <2> QED
    BY <2>1 DEF Check, u, v
<1>5. CASE k \in t[i] /\ k \notin s[i]
  <2>1. XorAll(v) # XorAll(u)
    BY <1>1, <1>3, <1>5, OneMore
  <2> QED
    BY <2>1 DEF Check, u, v
<1> QED
  BY <1>2, <1>4, <1>5
-----------------------------------------------------------------------------
(* The invariant. *)

\* Where the driver is, and how much of the data it has.
HostInv ==
  /\ op \in AllOps \cup {Nothing}
  /\ buffer \in Seq(Bytes)
  /\ pc # "idle" =>
       /\ op \in AllOps
       /\ op \in CardOps => addr \in Sectors
       /\ op = "WriteCard" => buffer \in Blocks
       /\ op = "ReadCard" =>
            Len(buffer) = IF pos <= 11 THEN 0
                          ELSE IF pos <= SectorSize + 11 THEN pos - 11 ELSE SectorSize
       /\ op = "ReadPad" => Len(buffer) = IF pos <= 4 THEN 0 ELSE pos - 4
  /\ pc = "linger" => rx # Nothing /\ pos = Len(Script(op, words))

\* The byte sent in place p.
PlaceByte(p) ==
  CASE p = 1 -> Select(op)
    [] p = 2 -> Command(op)
    [] op \in CardOps /\ p = 5 -> addr[1]
    [] op \in CardOps /\ p = 6 -> addr[2]
    [] op = "WriteCard" /\ p \in 7 .. SectorSize + 6 -> buffer[p - 6]
    [] op = "WriteCard" /\ p = SectorSize + 7 -> Check(addr, buffer)
    [] op = "ReadPad" /\ p > 5 -> FF
    [] OTHER -> Zero

\* The bytes on their way are the last ones sent.  The device has taken no more
\* bytes than were exchanged, and not fewer if it took the last one in its turn.
WireInv ==
  /\ wire \in Seq(Bytes) /\ Len(wire) <= SentSoFar
  /\ \A j \in 1 .. Len(wire) : wire[j] = PlaceByte(Exchanged + j)
  /\ dpos \in Int /\ dpos >= -1 /\ dpos <= Exchanged
  /\ own /\ dpos > 0 => dpos = Exchanged

\* The device knows its command from the second byte on, and its sector and its
\* block once it has taken them.
DeviceInv ==
  /\ dcmd \in AllOps \cup {Nothing} /\ dgood \in BOOLEAN
  /\ daddr \in Seq(Bytes) /\ dbuf \in Seq(Bytes)
  /\ dpos >= 0 => (dcmd = Nothing <=> dpos < 2)
  /\ dcmd \in CardOps /\ dpos >= 6 => daddr \in Sectors
  /\ dcmd = "WriteCard" /\ dpos >= 0 =>
       Len(dbuf) = IF dpos <= 6 THEN 0 ELSE IF dpos <= SectorSize + 6 THEN dpos - 6 ELSE SectorSize
  /\ dpos \in {0, 1} => daddr = <<>> /\ dbuf = <<>> /\ ~dgood

\* A device that took every byte so far has the driver's command, its address
\* and its data, and says that the block is good only when it has written it.
InStep ==
  pc # "idle" /\ dpos = Exchanged =>
    /\ dpos >= 2 => dcmd = op
    /\ op \in CardOps =>
         /\ dpos <= 4 => daddr = <<>>
         /\ dpos = 5 => daddr = <<addr[1]>>
         /\ dpos >= 6 => daddr = addr
    /\ op = "WriteCard" =>
         /\ \A i \in 1 .. Len(dbuf) : dbuf[i] = buffer[i]
         /\ dgood => contents[addr] = buffer

\* The bytes that the driver went on without are counted, up to two: those on
\* their way, but the one it waits for, and the last one exchanged if nobody
\* took it in its turn.
CountInv ==
  /\ pc = "put" =>
       /\ wire # <<>> \/ ~own => missed >= 1
       /\ Len(wire) >= 2 \/ (wire # <<>> /\ ~own) => missed >= 2
  /\ pc \in {"await", "linger"} /\ wire # <<>> =>
       /\ Len(wire) >= 2 \/ ~own => missed >= 1
       /\ Len(wire) >= 3 \/ (Len(wire) >= 2 /\ ~own) => missed >= 2

\* What was received: the card's answer to the byte sent last, if it took it in
\* its turn; no byte of before if nothing was missed; and nothing if nobody took
\* the first one that goes amiss.
RxInv ==
  pc # "idle" =>
    /\ pc # "put" /\ wire = <<>> /\ own =>
         /\ op = "ReadCard" /\ pos \in 11 .. SectorSize + 10 => rx = contents[addr][pos - 10]
         /\ op = "ReadCard" /\ pos = SectorSize + 11 => rx = Check(addr, contents[addr])
         /\ op = "WriteCard" /\ pos = SectorSize + 10 /\ rx = Good => contents[addr] = buffer
    /\ missed = 0 /\ pos >= 2 /\ (pc = "put" \/ wire # <<>>) => rx = Nothing
    /\ missed = 0 /\ pc # "put" /\ wire = <<>> /\ ~own => rx = FF

\* The data read differ from the card's in no more places than bytes went
\* amiss, and not at all once their checksum has been compared.
Wrong == {i \in 1 .. Len(buffer) : buffer[i] # contents[addr][i]}
ReadInv ==
  pc # "idle" /\ op = "ReadCard" /\ Amiss <= 1 =>
    /\ missed = 0 => Wrong = {}
    /\ \E i \in Int : Wrong \subseteq {i}
    /\ pos = SectorSize + 12 => Wrong = {}

IdleInv == pc = "idle" => wire = <<>> /\ dpos = 0

CardInv ==
  /\ TypeOK /\ HostInv /\ WireInv /\ DeviceInv /\ InStep /\ CountInv /\ RxInv /\ ReadInv
  /\ IdleInv /\ SuccessIsTrue
-----------------------------------------------------------------------------
(* What follows a byte. *)

LEMMA ByteTypes ==
  /\ Zero \in Bytes /\ FF \in Bytes /\ Good \in Bytes /\ Bad \in Bytes
  /\ Id1 \in Bytes /\ CardId[2] \in Bytes /\ PadId \in Bytes /\ AckBytes \subseteq Bytes
  /\ Values \subseteq Bytes /\ Stale \subseteq Bytes
  /\ \A o : Select(o) \in Bytes /\ Command(o) \in Bytes
  /\ Nothing \notin Bytes
<1>1. /\ {} \in Bytes /\ (0 .. 7) \in Bytes /\ {0, 1, 2, 6} \in Bytes /\ {1, 2, 3, 6} \in Bytes
      /\ {1, 3, 4, 6} \in Bytes /\ {0, 2, 3, 4, 6} \in Bytes /\ {0, 6} \in Bytes
      /\ {2, 3, 4, 6} \in Bytes
  BY DEF Bytes
<1>2. /\ {0} \in Bytes /\ {0, 7} \in Bytes /\ {1, 4, 6} \in Bytes
      /\ {0, 1, 2, 4, 6} \in Bytes /\ {1, 6} \in Bytes
  BY DEF Bytes
<1> USE DEF Zero, FF, Good, Bad, Id1, CardId, PadId, AckBytes
<1>3. CardId[2] \in Bytes /\ AckBytes \subseteq Bytes
  BY <1>1
<1>4. \A o : Select(o) \in Bytes /\ Command(o) \in Bytes
  BY <1>2 DEF Select, Command
<1> QED
  BY <1>1, <1>3, <1>4, ByteAssumption, NothingAssumption

LEMMA BytesApart ==
  /\ FF # Good /\ Bad # Good
  /\ Command("ReadCard") # Command("WriteCard") /\ Command("ReadPad") # Command("WriteCard")
  /\ Command("ReadCard") # Command("ReadPad")
  /\ Select("ReadCard") \notin {Select("ReadPad"), Command("ReadPad"), Zero, FF}
<1>1. 3 \in FF /\ 3 \notin Good /\ 3 \in Bad
  BY DEF FF, Good, Bad
<1>2. /\ Command("ReadCard") = {1, 4, 6} /\ Command("WriteCard") = {0, 1, 2, 4, 6}
      /\ Command("ReadPad") = {1, 6}
  BY DEF Command
<1>3. /\ Select("ReadCard") = {0, 7} /\ Select("ReadPad") = {0}
      /\ 7 \in Select("ReadCard") /\ 7 \notin Select("ReadPad") /\ 7 \notin {1, 6}
  BY DEF Select
<1>4. 1 \in FF /\ 1 \notin Select("ReadCard")
  BY DEF Select, FF
<1> QED
  BY <1>1, <1>2, <1>3, <1>4 DEF Zero

LEMMA Verdicts ==
  ASSUME NEW b, NEW err \in BOOLEAN, TypeOK, HostInv, pc # "idle"
  PROVE  LET v == Verdict(b, err) IN
         /\ v \in {"next", "again", "good", "fail"}
         /\ v = "next" => /\ ~Last
                          /\ Kind = "check" /\ op = "ReadCard" => b = Check(addr, buffer)
                          /\ op = "ReadPad" /\ Kind = "hid" => b # FF
         /\ v = "again" => op \in CardOps /\ Kind # "data" /\ pos > 2
         /\ v = "good" => Last /\ (op \in CardOps => b = Good)
<1>0. op \in AllOps /\ pos \in 1 .. Len(Script(op, words)) /\ words \in 1 .. MaxWords
      /\ SectorSize \in Nat \ {0}
  BY SizeAssumption DEF HostInv, TypeOK
<1>1. CASE op = "ReadCard"
  <2>1. CASE Kind = "check" \/ Kind = "result"
    BY <1>0, <1>1, <2>1, ReadKinds DEF Verdict, Corrupt, Refused, CardOps
  <2>2. CASE Kind \notin {"check", "result"}
    <3>1. ~Corrupt(b) /\ ~Refused(b) /\ ~Last
      BY <1>0, <1>1, <2>2, ReadKinds DEF Corrupt, Refused
    <3> QED
      BY <1>0, <1>1, <2>2, <3>1, ReadKinds DEF Verdict, CardOps
  <2> QED
    BY <2>1, <2>2
<1>2. CASE op = "WriteCard"
  <2>1. CASE Kind = "result"
    BY <1>0, <1>2, <2>1, WriteKinds DEF Verdict, Corrupt, Refused, CardOps
  <2>2. CASE Kind # "result"
    <3>1. ~Corrupt(b) /\ ~Refused(b) /\ ~Last
      BY <1>0, <1>2, <2>2, WriteKinds DEF Corrupt, Refused
    <3> QED
      BY <1>0, <1>2, <2>2, <3>1, WriteKinds DEF Verdict, CardOps
  <2> QED
    BY <2>1, <2>2
<1>3. CASE op = "ReadPad"
  <2>1. ~Corrupt(b) /\ ~Refused(b)
    BY <1>0, <1>3, PadKinds DEF Corrupt, Refused
  <2> QED
    BY <1>0, <1>3, <2>1, PadKinds DEF Verdict, CardOps
<1> QED
  BY <1>0, <1>1, <1>2, <1>3 DEF AllOps, CardOps

\* The buffer and the words after a byte that ends no attempt in vain.
Stored(b) ==
  /\ buffer' = IF op # "WriteCard" /\ Kind = "data" THEN Append(buffer, b) ELSE buffer
  /\ words' = IF op = "ReadPad" /\ Kind = "cmd" THEN Words(b) ELSE words

GoesOn(b, err, acks) ==
  /\ Stored(b) /\ GoOn(err, acks)
  /\ ~Last
  /\ Kind = "check" /\ op = "ReadCard" => b = Check(addr, buffer)
  /\ op = "ReadPad" /\ Kind = "hid" => b # FF

Retries ==
  /\ Retry
  /\ op \in CardOps /\ attempts > 0
  /\ buffer' = IF op = "ReadCard" THEN <<>> ELSE buffer
  /\ words' = words

Returns(b, err, r) ==
  /\ Stored(b) /\ Return(r, err)
  /\ op \in CardOps /\ r = SectorSize => Last /\ b = Good
  /\ op = "ReadPad" /\ r # 0 => Last

\* A call goes on, tries once more or returns, and it reports success only
\* after a good result.
LEMMA Outcomes ==
  ASSUME NEW b \in Bytes, NEW err \in BOOLEAN, NEW acks,
         TypeOK, HostInv, pc \in {"await", "linger"}, Handle(b, err, acks)
  PROVE  /\ UNCHANGED <<op, addr, present>> /\ half' \in Bytes
         /\ GoesOn(b, err, acks) \/ Retries \/ \E r \in Nat : Returns(b, err, r)
<1>0. /\ op \in AllOps /\ pos \in 1 .. Len(Script(op, words)) /\ words \in 1 .. MaxWords
      /\ SectorSize \in Nat \ {0} /\ attempts \in 0 .. 2 /\ MaxWords \in Nat
  BY SizeAssumption DEF HostInv, TypeOK
<1> DEFINE v == Verdict(b, err)
           more == v = "again" /\ TriesLeft
<1>1. /\ UNCHANGED <<op, addr, present>>
      /\ half' = IF Kind \in {"idhi", "confhi"} THEN b ELSE Zero
      /\ buffer' = CASE op # "WriteCard" /\ Kind = "data" -> Append(buffer, b)
                     [] op = "ReadCard" /\ more -> <<>>
                     [] OTHER -> buffer
      /\ words' = IF op = "ReadPad" /\ Kind = "cmd" THEN Words(b) ELSE words
      /\ CASE v = "next" -> GoOn(err, acks)
           [] more -> Retry
           [] v = "good" -> Return(IF op = "ReadPad" THEN words ELSE SectorSize, err)
           [] OTHER -> Return(0, err)
  BY DEF Handle
<1>2. /\ v \in {"next", "again", "good", "fail"}
      /\ v = "next" => /\ ~Last
                       /\ Kind = "check" /\ op = "ReadCard" => b = Check(addr, buffer)
                       /\ op = "ReadPad" /\ Kind = "hid" => b # FF
      /\ v = "again" => op \in CardOps /\ Kind # "data" /\ pos > 2
      /\ v = "good" => Last /\ (op \in CardOps => b = Good)
  BY Verdicts
<1> HIDE DEF v
<1>3. half' \in Bytes
  BY <1>1, ByteTypes
<1>4. CASE v = "next"
  <2>1. GoOn(err, acks) /\ Stored(b)
    BY <1>1, <1>4 DEF Stored
  <2> QED
    BY <1>1, <1>2, <1>3, <1>4, <2>1 DEF GoesOn
<1>5. CASE more
  <2>1. Retry
    BY <1>1, <1>5
  <2>2. buffer' = IF op = "ReadCard" THEN <<>> ELSE buffer
    BY <1>1, <1>2, <1>5 DEF CardOps
  <2>3. words' = words
    BY <1>1, <1>2, <1>5 DEF CardOps
  <2> QED
    BY <1>1, <1>2, <1>3, <1>5, <2>1, <2>2, <2>3 DEF Retries, TriesLeft
<1>6. CASE v # "next" /\ ~more
  <2>1. Stored(b)
    BY <1>1, <1>6 DEF Stored
  <2> DEFINE r == IF v = "good" THEN IF op = "ReadPad" THEN words ELSE SectorSize ELSE 0
  <2>2. Return(r, err)
    BY <1>1, <1>6
  <2>3. r \in Nat
    BY <1>0
  <2>4. op \in CardOps /\ r = SectorSize => Last /\ b = Good
    BY <1>0, <1>2
  <2>5. op = "ReadPad" /\ r # 0 => Last
    BY <1>2
  <2> QED
    BY <1>1, <1>3, <2>1, <2>2, <2>3, <2>4, <2>5 DEF Returns
<1> QED
  BY <1>4, <1>5, <1>6
-----------------------------------------------------------------------------
(* The driver handles a byte. *)

LEMMA WordsType ==
  ASSUME NEW b
  PROVE  Words(b) \in 1 .. MaxWords
<1>1. MaxWords \in 1 .. MaxWords
  BY SizeAssumption
<1> QED
  BY <1>1 DEF Words

\* The buffer keeps its type, and grows by the bytes of a block only.
LEMMA StoredBuffer ==
  ASSUME TypeOK, HostInv, pc # "idle", NEW b \in Bytes, Stored(b)
  PROVE  /\ buffer' \in Seq(Bytes)
         /\ words' \in 1 .. MaxWords
         /\ op # "ReadPad" => words' = words
         /\ op = "WriteCard" => buffer' = buffer
         /\ op = "ReadCard" =>
              /\ pos \in 11 .. SectorSize + 10 => Len(buffer') = pos - 10 /\ buffer' = Append(buffer, b)
              /\ pos \notin 11 .. SectorSize + 10 => buffer' = buffer
         /\ op = "ReadPad" => Len(buffer') = IF pos <= 3 THEN 0 ELSE pos - 3
<1>0. /\ op \in AllOps /\ pos \in 1 .. Len(Script(op, words)) /\ words \in 1 .. MaxWords
      /\ SectorSize \in Nat \ {0} /\ buffer \in Seq(Bytes)
  BY SizeAssumption DEF HostInv, TypeOK
<1>1. /\ Append(buffer, b) \in Seq(Bytes)
      /\ Len(Append(buffer, b)) = Len(buffer) + 1
  BY <1>0
<1>2. buffer' \in Seq(Bytes) /\ words' \in 1 .. MaxWords
  BY <1>0, <1>1, WordsType DEF Stored
<1>3. CASE op = "ReadCard"
  BY <1>0, <1>1, <1>2, <1>3, ReadKinds DEF Stored, HostInv
<1>4. CASE op = "WriteCard"
  BY <1>0, <1>2, <1>4 DEF Stored
<1>5. CASE op = "ReadPad"
  BY <1>0, <1>1, <1>2, <1>5, PadKinds DEF Stored, HostInv
<1> QED
  BY <1>0, <1>3, <1>4, <1>5 DEF AllOps, CardOps

LEMMA CountedType ==
  ASSUME TypeOK, NEW err \in BOOLEAN
  PROVE  /\ Counted(err) \in 0 .. Several /\ InTurn(err) \in BOOLEAN
         /\ InTurn(err) => Counted(err) = missed
         /\ ~InTurn(err) => Counted(err) >= 1 /\ (missed < 2 => Counted(err) = missed + 1)
         /\ Counted(err) >= missed
  BY DEF Counted, InTurn, TypeOK, Several

LEMMA GoesOnHost ==
  ASSUME TypeOK, HostInv, pc # "idle", NEW b \in Bytes, NEW err \in BOOLEAN, NEW acks \in Nat,
         GoesOn(b, err, acks), UNCHANGED <<op, addr, present>>, half' \in Bytes,
         UNCHANGED <<late, plugged, contents>>, rx' \in {rx, Nothing}
  PROVE  TypeOK' /\ HostInv'
<1>0. /\ op \in AllOps /\ pos \in 1 .. Len(Script(op, words)) /\ words \in 1 .. MaxWords
      /\ SectorSize \in Nat \ {0} /\ MaxWords \in Nat
  BY SizeAssumption DEF HostInv, TypeOK
<1>1. /\ pc' = "put" /\ pos' = pos + 1 /\ hasAck' = acks /\ missed' = Counted(err)
      /\ UNCHANGED <<attempts, ret, buttons, own, wire, device>>
  BY DEF GoesOn, GoOn
<1>2. /\ buffer' \in Seq(Bytes) /\ words' \in 1 .. MaxWords
      /\ op # "ReadPad" => words' = words
      /\ op = "WriteCard" => buffer' = buffer
      /\ op = "ReadCard" => /\ pos \in 11 .. SectorSize + 10 => Len(buffer') = pos - 10
                            /\ pos \notin 11 .. SectorSize + 10 => buffer' = buffer
      /\ op = "ReadPad" => Len(buffer') = IF pos <= 3 THEN 0 ELSE pos - 3
  BY StoredBuffer DEF GoesOn
<1>3. pos' \in 1 .. Len(Script(op, words)')
  <2>1. CASE op = "ReadCard"
    BY <1>0, <1>1, <1>2, <2>1, ReadKinds, ReadScript DEF GoesOn
  <2>2. CASE op = "WriteCard"
    BY <1>0, <1>1, <1>2, <2>2, WriteKinds, WriteScript DEF GoesOn
  <2>3. CASE op = "ReadPad"
    <3>1. pos \in 1 .. 2 * words + 2 /\ (pos # 2 => words' = words)
      BY <1>0, <2>3, PadKinds DEF GoesOn, Stored
    <3>2. op' = op /\ Len(Script("ReadPad", words')) = 2 * words' + 3
      BY <1>2, PadScript
    <3> QED
      BY <1>0, <1>1, <1>2, <2>3, <3>1, <3>2
  <2> QED
    BY <1>0, <2>1, <2>2, <2>3 DEF AllOps, CardOps
<1>4. /\ op = "ReadCard" => /\ pos <= SectorSize + 11
                            /\ Len(buffer') = IF pos + 1 <= 11 THEN 0
                                             ELSE IF pos + 1 <= SectorSize + 11 THEN pos - 10
                                             ELSE SectorSize
      /\ op = "WriteCard" => buffer' \in Blocks /\ Len(buffer') = SectorSize
      /\ op = "ReadPad" => /\ Len(buffer') = (IF pos + 1 <= 4 THEN 0 ELSE pos - 3)
                           /\ Len(buffer') <= 2 * MaxWords
  <2>1. CASE op = "ReadCard"
    BY <1>0, <1>2, <2>1, ReadKinds DEF GoesOn, HostInv
  <2>2. CASE op = "WriteCard"
    BY <1>0, <1>1, <1>2, <2>2, ByteAssumption DEF HostInv
  <2>3. CASE op = "ReadPad"
    BY <1>0, <1>1, <1>2, <2>3, PadKinds DEF GoesOn
  <2> QED
    BY <1>0, <2>1, <2>2, <2>3 DEF AllOps, CardOps
<1>5. TypeOK'
  <2>1. missed' \in 0 .. Several
    BY <1>1, CountedType
  <2>2. rx' \in {Nothing} \cup Bytes /\ ret' = ret /\ ret = Nothing /\ pc' # "idle"
    BY <1>1 DEF TypeOK
  <2>3. Len(buffer') <= IF op' = "ReadPad" THEN 2 * MaxWords ELSE SectorSize
    BY <1>0, <1>2, <1>4 DEF AllOps, CardOps
  <2> QED
    BY <1>0, <1>1, <1>2, <1>3, <2>1, <2>2, <2>3 DEF TypeOK
<1>6. HostInv'
  BY <1>0, <1>1, <1>2, <1>4 DEF HostInv, AllOps, CardOps
<1> QED
  BY <1>5, <1>6

LEMMA RetriesHost ==
  ASSUME TypeOK, HostInv, pc # "idle", Retries, UNCHANGED <<op, addr, present>>, half' \in Bytes,
         UNCHANGED <<late, plugged, contents>>, rx' \in {rx, Nothing}
  PROVE  TypeOK' /\ HostInv'
<1>0. /\ op \in CardOps /\ words' = words /\ attempts > 0
      /\ SectorSize \in Nat \ {0}
      /\ pc' = "put" /\ pos' = 1 /\ attempts' = attempts - 1
      /\ UNCHANGED <<ret, buttons>> /\ hasAck' = 0 /\ missed' = 0 /\ own' = TRUE
      /\ buffer' = IF op = "ReadCard" THEN <<>> ELSE buffer
  BY SizeAssumption DEF Retries, Retry, StopRead
<1>1. 1 \in 1 .. Len(Script(op, words)')
  BY <1>0, ReadScript, WriteScript DEF CardOps
<1>2. /\ buffer' \in Seq(Bytes)
      /\ op = "ReadCard" => Len(buffer') = 0
      /\ op = "WriteCard" => buffer' \in Blocks /\ Len(buffer') = SectorSize
  BY <1>0, ByteAssumption DEF HostInv, CardOps
<1>3. TypeOK'
  BY <1>0, <1>1, <1>2 DEF TypeOK, CardOps, Several
<1>4. HostInv'
  BY <1>0, <1>2 DEF HostInv, AllOps, CardOps
<1> QED
  BY <1>3, <1>4

LEMMA ReturnsHost ==
  ASSUME TypeOK, HostInv, pc # "idle", NEW b \in Bytes, NEW err \in BOOLEAN, NEW r \in Nat,
         Returns(b, err, r), UNCHANGED <<op, addr, present>>, half' \in Bytes,
         UNCHANGED <<late, plugged, contents>>, rx' \in {rx, Nothing}
  PROVE  TypeOK' /\ HostInv'
<1>0. /\ op \in AllOps /\ pos \in 1 .. Len(Script(op, words)) /\ words \in 1 .. MaxWords
      /\ SectorSize \in Nat \ {0} /\ MaxWords \in Nat
      /\ pc' = "idle" /\ pos' = 0 /\ ret' = r /\ attempts' = attempts /\ hasAck' = 0
      /\ missed' = Counted(err) /\ own' = InTurn(err)
  BY SizeAssumption DEF HostInv, TypeOK, Returns, Return, StopRead
<1>1. /\ buffer' \in Seq(Bytes) /\ words' \in 1 .. MaxWords
      /\ op = "WriteCard" => buffer' = buffer
      /\ op = "ReadCard" => /\ pos \in 11 .. SectorSize + 10 => Len(buffer') = pos - 10
                            /\ pos \notin 11 .. SectorSize + 10 => buffer' = buffer
      /\ op = "ReadPad" => Len(buffer') = IF pos <= 3 THEN 0 ELSE pos - 3
  BY StoredBuffer DEF Returns
<1>2. Len(buffer') <= IF op = "ReadPad" THEN 2 * MaxWords ELSE SectorSize
  <2>1. CASE op = "ReadCard"
    BY <1>0, <1>1, <2>1 DEF TypeOK
  <2>2. CASE op = "WriteCard"
    BY <1>0, <1>1, <2>2 DEF TypeOK
  <2>3. CASE op = "ReadPad"
    BY <1>0, <1>1, <2>3, PadKinds
  <2> QED
    BY <1>0, <2>1, <2>2, <2>3 DEF AllOps, CardOps
<1>3. ret' # Nothing
  BY <1>0, NothingAssumption
<1>4. TypeOK'
  <2>1. missed' \in 0 .. Several /\ own' \in BOOLEAN
    BY <1>0, CountedType
  <2>2. rx' \in {Nothing} \cup Bytes
    BY DEF TypeOK
  <2> QED
    BY <1>0, <1>1, <1>2, <1>3, <2>1, <2>2 DEF TypeOK
<1>5. HostInv'
  BY <1>0, <1>1 DEF HostInv
<1> QED
  BY <1>4, <1>5

\* The places keep their bytes while the driver waits for its answers.
LEMMA PlacesKept ==
  ASSUME UNCHANGED <<op, addr>>, op = "WriteCard" => buffer' = buffer, NEW p
  PROVE  PlaceByte(p)' = PlaceByte(p)
<1>1. CASE op = "WriteCard"
  BY <1>1 DEF PlaceByte, Select, Command
<1>2. CASE op # "WriteCard"
  BY <1>2 DEF PlaceByte, Select, Command
<1> QED
  BY <1>1, <1>2

\* What may be known of a byte that is handled: the card's own are those of its
\* sector, and a good result in its turn, or the first to go amiss, is that of
\* this call's write.
Sound(b, err) ==
  /\ op = "ReadCard" /\ InTurn(err) =>
       /\ pos \in 11 .. SectorSize + 10 => b = contents[addr][pos - 10]
       /\ pos = SectorSize + 11 => b = Check(addr, contents[addr])
  /\ op = "WriteCard" /\ Last /\ b = Good /\ (InTurn(err) \/ missed = 0) =>
       contents[addr] = buffer

\* A buffer without a wrong byte is the sector.
LEMMA NoneWrong ==
  ASSUME TypeOK, HostInv, pc # "idle", op = "ReadCard",
         pos \in {SectorSize + 11, SectorSize + 12}
  PROVE  /\ buffer \in [1 .. SectorSize -> Bytes] /\ contents[addr] \in [1 .. SectorSize -> Bytes]
         /\ Len(buffer) = SectorSize
         /\ Wrong = {} => buffer = contents[addr]
<1>1. buffer \in Seq(Bytes) /\ Len(buffer) = SectorSize /\ addr \in Sectors
      /\ SectorSize \in Nat \ {0}
  BY SizeAssumption DEF HostInv, CardOps
<1>2. buffer \in [1 .. SectorSize -> Bytes]
  BY <1>1
<1>3. contents[addr] \in [1 .. SectorSize -> Bytes]
  BY <1>1 DEF TypeOK
<1>4. ASSUME Wrong = {} PROVE buffer = contents[addr]
  <2>1. \A i \in 1 .. SectorSize : buffer[i] = contents[addr][i]
    BY <1>1, <1>4 DEF Wrong
  <2>2. buffer = [i \in 1 .. SectorSize |-> buffer[i]]
    BY <1>2
  <2>3. contents[addr] = [i \in 1 .. SectorSize |-> contents[addr][i]]
    BY <1>3, ZenonT(20)
  <2> QED
    BY <2>1, <2>2, <2>3, ZenonT(20)
<1> QED
  BY <1>1, <1>2, <1>3, <1>4

LEMMA AmissCounted ==
  ASSUME TypeOK, NEW err \in BOOLEAN, Counted(err) <= 1
  PROVE  /\ Amiss <= 1
         /\ Counted(err) = 0 => missed = 0 /\ InTurn(err)
         /\ ~InTurn(err) => missed = 0
<1>1. missed \in 0 .. 2 /\ InTurn(err) \in BOOLEAN
  BY DEF TypeOK, InTurn, Several
<1>2. CASE InTurn(err)
  BY <1>1, <1>2 DEF Counted, InTurn, Amiss, Several
<1>3. CASE ~InTurn(err)
  BY <1>1, <1>3 DEF Counted, Amiss, Several
<1> QED
  BY <1>2, <1>3

LEMMA ReadGoesOn ==
  ASSUME TypeOK, HostInv, ReadInv, pc \in {"await", "linger"}, op = "ReadCard",
         NEW b \in Bytes, NEW err \in BOOLEAN, NEW acks \in Nat,
         GoesOn(b, err, acks), UNCHANGED <<op, addr, contents>>, Sound(b, err)
  PROVE  ReadInv'
<1>0. /\ pos \in 1 .. SectorSize + 11 /\ SectorSize \in Nat \ {0}
      /\ pc' = "put" /\ pos' = pos + 1 /\ missed' = Counted(err)
      /\ buffer \in Seq(Bytes)
      /\ Len(buffer) = IF pos <= 11 THEN 0 ELSE pos - 11
  <2>1. /\ pos \in 1 .. SectorSize + 12 /\ SectorSize \in Nat \ {0}
        /\ Last <=> pos = SectorSize + 12
    BY SizeAssumption, ReadKinds DEF TypeOK
  <2>2. /\ ~Last /\ pc' = "put" /\ pos' = pos + 1 /\ missed' = Counted(err)
    BY DEF GoesOn, GoOn
  <2>3. pos \in 1 .. SectorSize + 11
    BY <2>1, <2>2
  <2>4. /\ buffer \in Seq(Bytes)
        /\ Len(buffer) = IF pos <= 11 THEN 0
                         ELSE IF pos <= SectorSize + 11 THEN pos - 11 ELSE SectorSize
    BY DEF HostInv
  <2> QED
    BY <2>1, <2>2, <2>3, <2>4
<1> SUFFICES ASSUME Amiss' <= 1
             PROVE  /\ missed' = 0 => Wrong' = {}
                    /\ \E i \in Int : Wrong' \subseteq {i}
                    /\ pos' = SectorSize + 12 => Wrong' = {}
  BY DEF ReadInv
<1>1. /\ Counted(err) <= 1 /\ Amiss <= 1
      /\ Counted(err) = 0 => missed = 0 /\ InTurn(err)
      /\ ~InTurn(err) => missed = 0
  <2>1. Counted(err) \in 0 .. 2
    BY CountedType DEF Several
  <2>2. Amiss' = Counted(err)
    BY <1>0, <2>1 DEF Amiss
  <2> QED
    BY <2>2, AmissCounted
<1>2. /\ missed = 0 => Wrong = {}
      /\ \E i \in Int : Wrong \subseteq {i}
  BY <1>1 DEF ReadInv
<1>3. /\ pos \in 11 .. SectorSize + 10 => Len(buffer') = pos - 10 /\ buffer' = Append(buffer, b)
      /\ pos \notin 11 .. SectorSize + 10 => buffer' = buffer
  BY StoredBuffer DEF GoesOn
<1>4. CASE pos \in 11 .. SectorSize + 10
  <2>1. /\ Len(buffer') = pos - 10 /\ Len(buffer) = pos - 11
        /\ \A i \in 1 .. pos - 11 : buffer'[i] = buffer[i]
        /\ buffer'[pos - 10] = b
    BY <1>0, <1>3, <1>4
  <2>2. Wrong' = {i \in 1 .. pos - 10 : buffer'[i] # contents[addr][i]}
    BY <2>1 DEF Wrong
  <2>3. Wrong = {i \in 1 .. pos - 11 : buffer[i] # contents[addr][i]}
    BY <2>1 DEF Wrong
  <2>4. CASE InTurn(err)
    <3>1. b = contents[addr][pos - 10]
      BY <1>4, <2>4 DEF Sound
    <3>2. Wrong' = Wrong
      BY <1>0, <1>4, <2>1, <2>2, <2>3, <3>1
    <3> QED
      BY <1>0, <1>1, <1>2, <1>4, <3>2
  <2>5. CASE ~InTurn(err)
    <3>1. Wrong = {} /\ missed' # 0
      BY <1>0, <1>1, <1>2, <2>5
    <3>2. Wrong' \subseteq {pos - 10}
      BY <1>0, <1>4, <2>1, <2>2, <2>3, <3>1
    <3>3. pos - 10 \in Int /\ pos' # SectorSize + 12
      BY <1>0, <1>4
    <3> QED
      BY <3>1, <3>2, <3>3
  <2> QED
    BY <2>4, <2>5
<1>5. CASE pos \notin 11 .. SectorSize + 10
  <2>1. Wrong' = Wrong
    BY <1>3, <1>5 DEF Wrong
  <2>2. ASSUME pos = SectorSize + 11
        PROVE  Wrong = {}
    <3>1. Kind = "check"
      BY <2>2, ReadScript DEF Kind
    <3>2. b = Check(addr, buffer)
      BY <3>1 DEF GoesOn
    <3>3. CASE ~InTurn(err)
      BY <1>1, <1>2, <3>3
    <3>4. CASE InTurn(err)
      <4>1. Check(addr, buffer) = Check(addr, contents[addr])
        BY <2>2, <3>2, <3>4 DEF Sound
      <4> SUFFICES ASSUME NEW i \in Wrong PROVE FALSE
        OBVIOUS
      <4>2. /\ buffer \in [1 .. SectorSize -> Bytes] /\ contents[addr] \in [1 .. SectorSize -> Bytes]
            /\ Len(buffer) = SectorSize /\ addr \in Sectors
        BY <2>2, NoneWrong DEF HostInv, CardOps
      <4>3. i \in 1 .. SectorSize /\ buffer[i] # contents[addr][i]
        BY <4>2 DEF Wrong
      <4>4. \A j \in 1 .. SectorSize : j # i => buffer[j] = contents[addr][j]
        BY <1>2, <4>2 DEF Wrong
      <4> DEFINE c == contents[addr]
      <4>5. /\ c \in [1 .. SectorSize -> Bytes] /\ buffer[i] # c[i]
            /\ \A j \in 1 .. SectorSize : j # i => buffer[j] = c[j]
        BY <4>2, <4>3, <4>4
      <4>6. Check(addr, buffer) = Check(addr, c)
        BY <4>1
      <4>7. SectorSize \in Nat /\ addr \in Sectors /\ i \in 1 .. SectorSize
        BY <1>0, <4>2, <4>3
      <4> HIDE DEF c
      <4>8. Check(addr, buffer) # Check(addr, c)
        BY <4>2, <4>5, <4>7, OneWrongByte, ZenonT(30)
      <4> QED
        BY <4>6, <4>8
    <3> QED
      BY <3>3, <3>4
  <2>3. missed' = 0 => missed = 0
    BY <1>0, <1>1
  <2>4. pos' = SectorSize + 12 => pos = SectorSize + 11
    BY <1>0
  <2> QED
    BY <1>2, <2>1, <2>2, <2>3, <2>4
<1> QED
  BY <1>4, <1>5

LEMMA GoesOnKeeps ==
  ASSUME CardInv, pc \in {"await", "linger"},
         NEW b \in Bytes, NEW err \in BOOLEAN, NEW acks \in Nat,
         GoesOn(b, err, acks), UNCHANGED <<op, addr, present>>, half' \in Bytes,
         UNCHANGED <<late, plugged, contents>>, rx' \in {rx, Nothing},
         ~err => rx' = Nothing, Sound(b, err)
  PROVE  CardInv'
<1> USE DEF CardInv
<1>1. TypeOK' /\ HostInv'
  BY GoesOnHost
<1>2. /\ pc' = "put" /\ pos' = pos + 1 /\ missed' = Counted(err)
      /\ UNCHANGED <<ret, own, wire, dpos, dslow, dcmd, daddr, dbuf, dgood>>
      /\ op = "WriteCard" => buffer' = buffer
      /\ pos \in Int /\ Len(wire) \in Nat /\ op \in AllOps
  BY DEF GoesOn, GoOn, device, Stored, TypeOK, WireInv, HostInv
<1>3. Exchanged' = Exchanged /\ SentSoFar' = SentSoFar
  BY <1>2 DEF SentSoFar, Exchanged
<1>4. WireInv'
  BY <1>2, <1>3, PlacesKept DEF WireInv
<1>5. DeviceInv'
  BY <1>2 DEF DeviceInv
<1>6. InStep'
  BY <1>2, <1>3 DEF InStep
<1>7. CountInv'
  <2>1. /\ missed \in Nat /\ missed' \in Nat /\ missed' >= missed
        /\ ~InTurn(err) => missed' >= 1 /\ (missed < 2 => missed' = missed + 1)
        /\ InTurn(err) => wire = <<>> /\ own
    BY <1>2, CountedType DEF TypeOK, Several, InTurn
  <2>2. /\ wire # <<>> /\ (Len(wire) >= 2 \/ ~own) => missed >= 1
        /\ wire # <<>> <=> Len(wire) >= 1
    BY <1>2 DEF CountInv, WireInv
  <2> QED
    BY <1>2, <2>1, <2>2 DEF CountInv
<1>8. RxInv'
  <2>1. ASSUME missed' = 0 PROVE rx' = Nothing
    <3>1. ~InTurn(err) => missed' >= 1
      BY <1>2, CountedType
    <3>2. InTurn(err)
      BY <2>1, <3>1
    <3> QED
      BY <3>2 DEF InTurn
  <2> QED
    BY <1>2, <2>1 DEF RxInv
<1>9. ReadInv'
  <2>1. CASE op = "ReadCard"
    BY <2>1, ReadGoesOn
  <2> QED
    BY <2>1 DEF ReadInv
<1>10. IdleInv' /\ SuccessIsTrue'
  BY <1>2 DEF IdleInv, SuccessIsTrue, Succeeded
<1> QED
  BY <1>1, <1>4, <1>5, <1>6, <1>7, <1>8, <1>9, <1>10

\* A device that has been deselected, or plugged in, has taken nothing.
LEMMA Deselected ==
  ASSUME TypeOK', wire' = <<>>, dpos' = 0, dcmd' = Nothing, daddr' = <<>>,
         dbuf' = <<>>, dgood' \in BOOLEAN,
         ~dgood', Exchanged' = 0, SentSoFar' = 0
  PROVE  WireInv' /\ DeviceInv' /\ InStep' /\ IdleInv'
<1>2. WireInv'
  BY DEF WireInv
<1>3. DeviceInv'
  <2>1. /\ dcmd' \notin CardOps /\ dcmd' # "WriteCard"
        /\ dcmd' \in AllOps \cup {Nothing}
        /\ daddr' \in Seq(Bytes) /\ dbuf' \in Seq(Bytes)
    BY NothingAssumption DEF CardOps
  <2> QED
    BY <2>1 DEF DeviceInv
<1>4. InStep' /\ IdleInv'
  BY DEF InStep, IdleInv
<1> QED
  BY <1>2, <1>3, <1>4

LEMMA HandleKeeps ==
  ASSUME CardInv, pc \in {"await", "linger"},
         NEW b \in Bytes, NEW err \in BOOLEAN, NEW acks \in Nat, Handle(b, err, acks),
         UNCHANGED <<late, plugged, contents>>, rx' \in {rx, Nothing},
         ~err => rx' = Nothing, Sound(b, err)
  PROVE  CardInv'
<1> USE DEF CardInv
<1>0. UNCHANGED <<op, addr, present>> /\ half' \in Bytes /\ pc # "idle"
      /\ op \in AllOps /\ SectorSize \in Nat \ {0}
  BY Outcomes, SizeAssumption DEF HostInv
<1>1. CASE GoesOn(b, err, acks)
  BY <1>0, <1>1, GoesOnKeeps
<1>2. CASE Retries
  <2>1. TypeOK' /\ HostInv'
    BY <1>0, <1>2, RetriesHost
  <2>2. /\ pc' = "put" /\ pos' = 1 /\ wire' = <<>> /\ dpos' = 0 /\ missed' = 0 /\ own' = TRUE
        /\ dcmd' = Nothing /\ daddr' = <<>> /\ dbuf' = <<>> /\ dgood' \in BOOLEAN /\ ~dgood'
        /\ op = "ReadCard" => buffer' = <<>>
    BY <1>2 DEF Retries, Retry, StopRead
  <2>3. Exchanged' = 0 /\ SentSoFar' = 0
    BY <2>2 DEF Exchanged, SentSoFar
  <2>6. WireInv' /\ DeviceInv' /\ InStep' /\ IdleInv'
    BY <2>1, <2>2, <2>3, Deselected
  <2>4. CountInv' /\ RxInv'
    BY <2>2 DEF CountInv, RxInv
  <2>5. ReadInv' /\ SuccessIsTrue'
    <3>1. op = "ReadCard" => Wrong' = {}
      BY <1>0, <2>2 DEF Wrong
    <3> QED
      BY <1>0, <2>2, <3>1 DEF ReadInv, SuccessIsTrue, Succeeded
  <2> QED
    BY <2>1, <2>4, <2>5, <2>6
<1>3. ASSUME NEW r \in Nat, Returns(b, err, r)
      PROVE  CardInv'
  <2>1. TypeOK' /\ HostInv'
    BY <1>0, <1>3, ReturnsHost
  <2>2. /\ pc' = "idle" /\ pos' = 0 /\ wire' = <<>> /\ dpos' = 0 /\ ret' = r
        /\ dcmd' = Nothing /\ daddr' = <<>> /\ dbuf' = <<>> /\ dgood' \in BOOLEAN /\ ~dgood'
        /\ missed' = Counted(err) /\ own' = InTurn(err)
    BY <1>3 DEF Returns, Return, StopRead
  <2>6. Exchanged' = 0 /\ SentSoFar' = 0
    BY <2>2 DEF Exchanged, SentSoFar
  <2>3. WireInv' /\ DeviceInv' /\ InStep' /\ IdleInv'
    BY <2>1, <2>2, <2>6, Deselected
  <2>4. CountInv' /\ RxInv' /\ ReadInv'
    BY <2>2 DEF CountInv, RxInv, ReadInv
  <2>5. SuccessIsTrue'
    <3> SUFFICES ASSUME op \in CardOps, r = SectorSize,
                        Counted(err) <= 1 \/ (op = "WriteCard" /\ InTurn(err))
                 PROVE  contents[addr] = buffer'
      BY <1>0, <2>2 DEF SuccessIsTrue, Succeeded, CardOps
    <3>1. Last /\ b = Good /\ pos \in 1 .. Len(Script(op, words))
      BY <1>0, <1>3 DEF Returns, TypeOK
    <3>2. CASE op = "ReadCard"
      <4>1. pos = SectorSize + 12
        BY <3>1, <3>2, ReadKinds
      <4>2. buffer' = buffer
        BY <1>0, <1>3, <3>2, <4>1, StoredBuffer DEF Returns
      <4>3. Wrong = {}
        BY <1>0, <3>2, <4>1, AmissCounted DEF ReadInv
      <4> QED
        BY <1>0, <3>2, <4>1, <4>2, <4>3, NoneWrong
    <3>3. CASE op = "WriteCard"
      <4>1. buffer' = buffer
        BY <1>3, <3>3 DEF Returns, Stored
      <4>2. InTurn(err) \/ missed = 0
        BY AmissCounted
      <4> QED
        BY <3>1, <3>3, <4>1, <4>2 DEF Sound
    <3> QED
      BY <3>2, <3>3 DEF CardOps
  <2> QED
    BY <2>1, <2>3, <2>4, <2>5
<1> QED
  BY <1>1, <1>2, <1>3, Outcomes

LEMMA AckedKeeps ==
  ASSUME CardInv, Acked
  PROVE  CardInv'
<1> USE DEF CardInv
<1>1. PICK b \in Received : Handle(b, FALSE, hasAck - 1)
  BY DEF Acked
<1>2. /\ pc = "await" /\ ~Last /\ rx' = Nothing /\ UNCHANGED <<late, plugged, contents>>
      /\ hasAck - 1 \in Nat
  BY DEF Acked, TypeOK
<1>3. b \in Bytes
  BY <1>1, ByteTypes DEF Received, TypeOK
<1>4. Sound(b, FALSE)
  <2> SUFFICES ASSUME op = "ReadCard", InTurn(FALSE)
               PROVE  /\ pos \in 11 .. SectorSize + 10 => b = contents[addr][pos - 10]
                      /\ pos = SectorSize + 11 => b = Check(addr, contents[addr])
    BY <1>2 DEF Sound
  <2>1. addr \in Sectors /\ SectorSize \in Nat
    BY <1>2, SizeAssumption DEF HostInv, CardOps
  <2>2. /\ pos \in 11 .. SectorSize + 10 => rx = contents[addr][pos - 10]
        /\ pos = SectorSize + 11 => rx = Check(addr, contents[addr])
    BY <1>2 DEF RxInv, InTurn
  <2>3. CASE pos \in 11 .. SectorSize + 10
    <3>1. pos - 10 \in 1 .. SectorSize /\ contents[addr] \in [1 .. SectorSize -> Bytes]
      BY <2>1, <2>3 DEF TypeOK
    <3>2. rx \in Bytes
      BY <2>2, <2>3, <3>1
    <3> QED
      BY <1>1, <2>1, <2>2, <2>3, <3>2, ByteTypes DEF Received
  <2>4. CASE pos = SectorSize + 11
    BY <1>1, <2>1, <2>2, <2>4, CheckType, ByteTypes DEF Received
  <2> QED
    BY <2>3, <2>4
<1> QED
  BY <1>1, <1>2, <1>3, <1>4, HandleKeeps

LEMMA TimedOutKeeps ==
  ASSUME CardInv, TimedOut
  PROVE  CardInv'
<1>1. FF \in Bytes /\ hasAck \in Nat
  BY ByteTypes DEF CardInv, TypeOK
<1>2. Sound(FF, TRUE)
  BY BytesApart DEF Sound, InTurn
<1> QED
  BY <1>1, <1>2, HandleKeeps DEF TimedOut

LEMMA TakeLastKeeps ==
  ASSUME CardInv, TakeLast
  PROVE  CardInv'
<1>1. /\ rx \in Bytes /\ rx # Nothing /\ hasAck \in Nat /\ pc = "linger" /\ op \in AllOps
      /\ pos = Len(Script(op, words)) /\ SectorSize \in Nat \ {0}
  BY SizeAssumption DEF TakeLast, CardInv, HostInv, TypeOK
<1>2. Sound(rx, FALSE)
  <2>1. op = "ReadCard" => pos = SectorSize + 12
    BY <1>1, ReadScript
  <2>2. ASSUME op = "WriteCard", rx = Good, InTurn(FALSE) \/ missed = 0
        PROVE  contents[addr] = buffer
    <3>1. pos = SectorSize + 10
      BY <1>1, <2>2, WriteScript
    <3>2. InTurn(FALSE)
      BY <1>1, <2>2, <3>1, BytesApart DEF CardInv, RxInv, InTurn
    <3> QED
      BY <1>1, <2>2, <3>1, <3>2 DEF CardInv, RxInv, InTurn
  <2>3. pos \notin 11 .. SectorSize + 10 \/ op # "ReadCard"
    BY <1>1, <2>1
  <2>4. pos # SectorSize + 11 \/ op # "ReadCard"
    BY <1>1, <2>1
  <2> QED
    BY <2>2, <2>3, <2>4 DEF Sound
<1> QED
  BY <1>1, <1>2, HandleKeeps DEF TakeLast

LEMMA StartKeeps ==
  ASSUME CardInv, NEW o \in Operations, NEW a, NEW bs, Start(o, a, bs),
         o \in CardOps => a \in Sectors, o = "ReadPad" => a = Nothing,
         IF o = "WriteCard" THEN bs \in Blocks ELSE bs = <<>>
  PROVE  CardInv'
<1> USE DEF CardInv
<1>0. /\ pc = "idle" /\ op' = o /\ pc' = "put" /\ pos' = 1
      /\ attempts' = IF o = "ReadPad" THEN 0 ELSE 2
      /\ addr' = a /\ buffer' = bs /\ words' = 1 /\ ret' = Nothing
      /\ missed' = 0 /\ own' = TRUE
      /\ UNCHANGED <<half, buttons, hasAck, wire, rx, late, plugged, contents>>
      /\ UNCHANGED <<dpos, dcmd, daddr, dbuf, dgood>>
  BY DEF Start, device
<1>1. o \in AllOps /\ SectorSize \in Nat \ {0} /\ 1 \in 1 .. MaxWords
  BY PortAssumption, SizeAssumption DEF AllOps, CardOps
<1>2. /\ wire = <<>> /\ dpos = 0 /\ daddr = <<>> /\ dbuf = <<>> /\ dcmd = Nothing
      /\ dgood \in BOOLEAN /\ ~dgood
  BY <1>0 DEF IdleInv, DeviceInv
<1>3. /\ bs \in Seq(Bytes) /\ Len(bs) <= SectorSize
      /\ o # "WriteCard" => Len(bs) = 0
  <2>1. CASE o = "WriteCard"
    <3>1. bs \in [1 .. SectorSize -> Bytes]
      BY <2>1, ByteAssumption
    <3> QED
      BY <1>1, <2>1, <3>1
  <2>2. CASE bs = <<>>
    BY <1>1, <2>2
  <2> QED
    BY <2>1, <2>2
<1>4. 1 \in 1 .. Len(Script(o, 1))
  BY <1>1, ReadScript, WriteScript, PadScript DEF AllOps, CardOps
<1>5. TypeOK'
  <2>1. pos' \in 1 .. Len(Script(op, words)')
    BY <1>0, <1>4
  <2>2. addr' \in Sectors \cup {Nothing}
    BY <1>0, <1>1 DEF AllOps
  <2>3. Len(buffer') <= IF op' = "ReadPad" THEN 2 * MaxWords ELSE SectorSize
    BY <1>0, <1>1, <1>3, SizeAssumption DEF AllOps, CardOps
  <2>4. missed' \in 0 .. Several
    BY <1>0 DEF Several
  <2> QED
    BY <1>0, <1>1, <2>1, <2>2, <2>3, <2>4 DEF TypeOK
<1>6. HostInv'
  <2>1. op' \in AllOps /\ (op' \in CardOps => addr' \in Sectors)
    BY <1>0, <1>1
  <2>2. /\ op' = "WriteCard" => buffer' \in Blocks
        /\ op' \in {"ReadCard", "ReadPad"} => Len(buffer') = 0
        /\ buffer' \in Seq(Bytes)
    BY <1>0, <1>3
  <2> QED
    BY <1>0, <2>1, <2>2 DEF HostInv
<1>7. WireInv' /\ DeviceInv' /\ InStep' /\ IdleInv'
  <2>1. /\ wire' = <<>> /\ dpos' = 0 /\ dcmd' = Nothing /\ daddr' = <<>> /\ dbuf' = <<>>
        /\ dgood' \in BOOLEAN /\ ~dgood'
    BY <1>0, <1>2
  <2>2. Exchanged' = 0 /\ SentSoFar' = 0
    BY <1>0, <2>1 DEF Exchanged, SentSoFar
  <2> QED
    BY <1>5, <2>1, <2>2, Deselected
<1>8. CountInv' /\ RxInv'
  BY <1>0, <1>2 DEF CountInv, RxInv
<1>9. ReadInv' /\ SuccessIsTrue'
  <2>1. op' = "ReadCard" => Wrong' = {}
    BY <1>0, <1>3 DEF Wrong
  <2> QED
    BY <1>0, <1>1, <2>1 DEF ReadInv, SuccessIsTrue, Succeeded
<1> QED
  BY <1>5, <1>6, <1>7, <1>8, <1>9

LEMMA CallsKeep ==
  ASSUME CardInv, Calls
  PROVE  CardInv'
<1>1. ASSUME NEW a \in Sectors, ReadCard(a)
      PROVE  CardInv'
  BY <1>1, StartKeeps DEF ReadCard, Start
<1>2. ASSUME NEW a \in Sectors, NEW bs \in Blocks, WriteCard(a, bs)
      PROVE  CardInv'
  BY <1>2, StartKeeps DEF WriteCard, Start
<1>3. CASE ReadPad
  BY <1>3, StartKeeps DEF ReadPad, Start, CardOps
<1> QED
  BY <1>1, <1>2, <1>3 DEF Calls

\* The byte that is sent is that of its place.
LEMMA SendsPlace ==
  ASSUME TypeOK, HostInv, pc = "put"
  PROVE  Sends = PlaceByte(pos) /\ Sends \in Bytes
<1>0. /\ op \in AllOps /\ pos \in 1 .. Len(Script(op, words)) /\ words \in 1 .. MaxWords
      /\ SectorSize \in Nat \ {0}
      /\ op \in CardOps => addr \in Bytes \X Bytes
      /\ op = "WriteCard" => buffer \in [1 .. SectorSize -> Bytes]
  BY SizeAssumption, ByteAssumption DEF HostInv, TypeOK
<1>1. CASE op = "ReadCard"
  <2>1. Sends = PlaceByte(pos)
    BY <1>0, <1>1, ReadKinds DEF Sends, PlaceByte, CardOps
  <2> QED
    BY <1>0, <1>1, <2>1, ByteTypes DEF Sends, CardOps
<1>2. CASE op = "WriteCard"
  <2>1. Sends = PlaceByte(pos)
    BY <1>0, <1>2, WriteKinds DEF Sends, PlaceByte, CardOps
  <2>2. Kind = "data" => buffer[pos - 6] \in Bytes
    BY <1>0, <1>2, WriteKinds
  <2> QED
    BY <1>0, <1>2, <2>1, <2>2, ByteTypes, CheckType DEF Sends, CardOps
<1>3. CASE op = "ReadPad"
  <2>1. Sends = PlaceByte(pos)
    BY <1>0, <1>3, PadKinds DEF Sends, PlaceByte, CardOps
  <2> QED
    BY <1>0, <1>3, <2>1, PadKinds, ByteTypes DEF Sends
<1> QED
  BY <1>0, <1>1, <1>2, <1>3 DEF AllOps, CardOps

LEMMA PutKeeps ==
  ASSUME CardInv, Put
  PROVE  CardInv'
<1> USE DEF CardInv
<1>0. /\ pc = "put" /\ pc' = "await" /\ hasAck' = 0 /\ wire' = Append(wire, Sends)
      /\ UNCHANGED <<op, pos, attempts, half, addr, buffer, words, ret, buttons, present>>
      /\ UNCHANGED <<missed, own, rx, late, plugged, contents, dpos, dcmd, daddr, dbuf, dgood>>
  BY DEF Put, device
<1>1. TypeOK' /\ HostInv'
  BY <1>0 DEF TypeOK, HostInv
<1>2. /\ Sends \in Bytes /\ Sends = PlaceByte(pos)
      /\ wire \in Seq(Bytes) /\ Len(wire) \in Nat /\ pos \in Int
      /\ wire' \in Seq(Bytes) /\ Len(wire') = Len(wire) + 1
      /\ \A j \in 1 .. Len(wire) : wire'[j] = wire[j]
      /\ wire'[Len(wire) + 1] = Sends
      /\ wire' # <<>>
  <2>1. Sends \in Bytes /\ Sends = PlaceByte(pos) /\ wire \in Seq(Bytes) /\ pos \in Int
    BY <1>0, SendsPlace DEF WireInv, TypeOK
  <2>2. Len(wire') = Len(wire) + 1
    BY <1>0, <2>1
  <2>3. wire' # <<>>
    BY <2>1, <2>2
  <2> QED
    BY <1>0, <2>1, <2>2, <2>3
<1>3. /\ SentSoFar = pos - 1 /\ SentSoFar' = pos /\ Exchanged' = Exchanged
      /\ Exchanged = pos - 1 - Len(wire)
  BY <1>0, <1>2 DEF SentSoFar, Exchanged
<1>4. WireInv'
  <2>1. ASSUME NEW j \in 1 .. Len(wire')
        PROVE  wire'[j] = PlaceByte(Exchanged + j)'
    <3>1. PlaceByte(Exchanged + j)' = PlaceByte(Exchanged + j)
      BY <1>0, <1>3, PlacesKept
    <3>2. CASE j \in 1 .. Len(wire)
      BY <1>2, <3>1, <3>2 DEF WireInv
    <3>3. CASE j = Len(wire) + 1
      <4>1. Exchanged + j = pos
        BY <1>2, <1>3, <3>3
      <4> QED
        BY <1>2, <3>1, <3>3, <4>1
    <3> QED
      BY <1>2, <3>2, <3>3
  <2> QED
    BY <1>0, <1>2, <1>3, <2>1 DEF WireInv
<1>5. DeviceInv' /\ InStep'
  BY <1>0, <1>3 DEF DeviceInv, InStep
<1>6. CountInv' /\ RxInv'
  <2>1. wire # <<>> <=> Len(wire) >= 1
    BY <1>2
  <2> QED
    BY <1>0, <1>2, <2>1 DEF CountInv, RxInv
<1>7. ReadInv' /\ IdleInv' /\ SuccessIsTrue'
  <2>1. Amiss' = Amiss
    BY <1>0, <1>2 DEF Amiss
  <2> QED
    BY <1>0, <2>1 DEF ReadInv, Wrong, IdleInv, SuccessIsTrue, Succeeded
<1> QED
  BY <1>1, <1>4, <1>5, <1>6, <1>7

LEMMA LingerKeeps ==
  ASSUME CardInv, Linger
  PROVE  CardInv'
<1> USE DEF CardInv
<1>0. /\ pc = "await" /\ pc' = "linger" /\ rx # Nothing /\ Last
      /\ UNCHANGED <<op, pos, attempts, half, addr, buffer, words, ret, buttons, present>>
      /\ UNCHANGED <<missed, own, hasAck, wire, rx, late, plugged, contents>>
      /\ UNCHANGED <<dpos, dcmd, daddr, dbuf, dgood>>
  BY DEF Linger, device
<1>1. TypeOK' /\ HostInv'
  BY <1>0 DEF TypeOK, HostInv, Last
<1>2. SentSoFar' = SentSoFar /\ Exchanged' = Exchanged /\ Amiss' = Amiss
  BY <1>0 DEF SentSoFar, Exchanged, Amiss
<1>3. WireInv'
  BY <1>0, <1>2, PlacesKept DEF WireInv
<1>4. DeviceInv' /\ InStep'
  BY <1>0, <1>2 DEF DeviceInv, InStep
<1>5. CountInv' /\ RxInv'
  BY <1>0 DEF CountInv, RxInv
<1>6. ReadInv' /\ IdleInv' /\ SuccessIsTrue'
  BY <1>0, <1>2 DEF ReadInv, Wrong, IdleInv, SuccessIsTrue, Succeeded
<1> QED
  BY <1>1, <1>3, <1>4, <1>5, <1>6

LEMMA LateAckKeeps ==
  ASSUME CardInv, LateAck
  PROVE  CardInv'
<1> USE DEF CardInv
<1>0. /\ late > 0 /\ late' = late - 1 /\ hasAck' = hasAck + 1
      /\ UNCHANGED <<op, pc, pos, attempts, half, addr, buffer, words, ret, buttons, present>>
      /\ UNCHANGED <<missed, own, wire, rx, plugged, dpos, dcmd, daddr, dbuf, dgood, contents>>
  BY DEF LateAck, host
<1>1. TypeOK' /\ HostInv'
  BY <1>0, SizeAssumption DEF TypeOK, HostInv
<1>2. SentSoFar' = SentSoFar /\ Exchanged' = Exchanged /\ Amiss' = Amiss
  BY <1>0 DEF SentSoFar, Exchanged, Amiss
<1>3. WireInv'
  BY <1>0, <1>2, PlacesKept DEF WireInv
<1>4. DeviceInv' /\ InStep'
  BY <1>0, <1>2 DEF DeviceInv, InStep
<1>5. CountInv' /\ RxInv'
  BY <1>0 DEF CountInv, RxInv
<1>6. ReadInv' /\ IdleInv' /\ SuccessIsTrue'
  BY <1>0, <1>2 DEF ReadInv, Wrong, IdleInv, SuccessIsTrue, Succeeded
<1> QED
  BY <1>1, <1>3, <1>4, <1>5, <1>6

LEMMA ReplugKeeps ==
  ASSUME CardInv, NEW d \in Devices, Replug(d)
  PROVE  CardInv'
<1> USE DEF CardInv
<1>0. /\ plugged' = d /\ dpos' = 0 /\ dcmd' = Nothing /\ daddr' = <<>> /\ dbuf' = <<>>
      /\ dgood' \in BOOLEAN /\ ~dgood'
      /\ UNCHANGED <<op, pc, pos, attempts, half, addr, buffer, words, ret, buttons>>
      /\ UNCHANGED <<missed, own, hasAck, wire, rx, late, contents>>
  BY DEF Replug
<1>1. TypeOK' /\ HostInv'
  BY <1>0 DEF TypeOK, HostInv
<1>2. SentSoFar' = SentSoFar /\ Exchanged' = Exchanged /\ Amiss' = Amiss
  BY <1>0 DEF SentSoFar, Exchanged, Amiss
<1>3. Exchanged >= 0 /\ Exchanged \in Int
  BY DEF WireInv, Exchanged, SentSoFar, TypeOK
<1>4. WireInv'
  <2>1. ASSUME NEW j \in 1 .. Len(wire')
        PROVE  wire'[j] = PlaceByte(Exchanged + j)'
    <3>1. PlaceByte(Exchanged + j)' = PlaceByte(Exchanged + j)
      BY <1>0, <1>2, PlacesKept
    <3> QED
      BY <1>0, <3>1 DEF WireInv
  <2>2. wire' \in Seq(Bytes) /\ Len(wire') <= SentSoFar'
    BY <1>0, <1>2 DEF WireInv
  <2>3. dpos' \in Int /\ dpos' >= -1 /\ dpos' <= Exchanged' /\ ~(dpos' > 0)
    BY <1>0, <1>2, <1>3
  <2> QED
    BY <2>1, <2>2, <2>3 DEF WireInv
<1>5. DeviceInv'
  <2>1. /\ dcmd' \notin CardOps /\ dcmd' # "WriteCard" /\ dcmd' \in AllOps \cup {Nothing}
        /\ daddr' \in Seq(Bytes) /\ dbuf' \in Seq(Bytes)
    BY <1>0, NothingAssumption DEF CardOps
  <2> QED
    BY <1>0, <2>1 DEF DeviceInv
<1>6. InStep' /\ IdleInv'
  BY <1>0 DEF InStep, IdleInv
<1>7. CountInv' /\ RxInv'
  BY <1>0 DEF CountInv, RxInv
<1>8. ReadInv' /\ SuccessIsTrue'
  BY <1>0, <1>2 DEF ReadInv, Wrong, SuccessIsTrue, Succeeded
<1> QED
  BY <1>1, <1>4, <1>5, <1>6, <1>7, <1>8
-----------------------------------------------------------------------------
(* The devices. *)

\* Where the device is when it takes its next byte.
LEMMA CourseKinds ==
  ASSUME DeviceInv, WireInv, Listens
  PROVE  /\ dpos \in Nat
         /\ Takes = "select" <=> dpos = 0
         /\ Takes = "cmd" <=> dpos = 1
         /\ dpos >= 2 => dcmd \in AllOps
         /\ dcmd \in CardOps => (Takes = "hi" <=> dpos = 4) /\ (Takes = "lo" <=> dpos = 5)
         /\ dcmd = "ReadCard" =>
              /\ Takes = "confhi" <=> dpos = 8
              /\ Takes = "conflo" <=> dpos = 9
              /\ Takes = "data" <=> dpos \in 10 .. SectorSize + 9
              /\ Takes = "check" <=> dpos = SectorSize + 10
         /\ dcmd = "WriteCard" =>
              /\ Takes \notin {"confhi", "conflo"}
              /\ Takes = "data" <=> dpos \in 6 .. SectorSize + 5
              /\ Takes = "check" <=> dpos = SectorSize + 6
              /\ Takes = "result" <=> dpos = SectorSize + 9
         /\ dcmd \in {"ReadPad", Nothing} =>
              Takes \notin {"hi", "lo", "confhi", "conflo", "check", "result"}
         /\ dcmd = Nothing => Takes # "data"
<1>0. dpos \in Nat /\ dpos < Len(Course) /\ SectorSize \in Nat \ {0}
  BY SizeAssumption DEF Listens, WireInv
<1>1. dcmd \in AllOps \cup {Nothing} /\ (dcmd = Nothing <=> dpos < 2)
      /\ Nothing \notin AllOps
  BY <1>0, NothingAssumption DEF DeviceInv, AllOps, CardOps
<1>2. CASE dcmd = Nothing
  <2>1. Course = <<"select", "cmd">>
    BY <1>2 DEF Course
  <2>2. dpos \in {0, 1}
    BY <1>0, <2>1
  <2>3. Takes = IF dpos = 0 THEN "select" ELSE "cmd"
    BY <2>1, <2>2 DEF Takes
  <2> QED
    BY <1>0, <1>1, <1>2, <2>2, <2>3 DEF AllOps, CardOps
<1>3. CASE dcmd = "ReadCard"
  <2>0. dcmd # Nothing
    BY <1>3, NothingAssumption
  <2>1. Course = Script("ReadCard", 1) /\ Len(Course) = SectorSize + 12
    BY <1>3, <2>0, ReadScript DEF Course
  <2>2. dpos >= 2
    BY <1>0, <1>1, <2>0
  <2>3. \/ dpos + 1 \in {3, 4, 5, 6, 7, 8, 9, 10} \/ dpos + 1 \in 11 .. SectorSize + 10
        \/ dpos + 1 \in {SectorSize + 11, SectorSize + 12}
    BY <1>0, <2>1, <2>2
  <2>4. CASE dpos + 1 \in {3, 4, 5, 6, 7, 8, 9, 10}
    <3>0. Takes = Script("ReadCard", 1)[dpos + 1]
      BY <2>1 DEF Takes
    <3>1. \/ (dpos = 2 /\ Takes = "idhi") \/ (dpos = 3 /\ Takes = "idlo")
          \/ (dpos = 4 /\ Takes = "hi") \/ (dpos = 5 /\ Takes = "lo")
          \/ (dpos \in {6, 7} /\ Takes = "ack")
          \/ (dpos = 8 /\ Takes = "confhi") \/ (dpos = 9 /\ Takes = "conflo")
      BY <1>0, <2>4, <3>0, ReadScript
    <3> QED
      BY <1>0, <1>1, <1>3, <3>1
  <2>5. CASE dpos + 1 \in 11 .. SectorSize + 10
    <3>1. Takes = "data"
      BY <2>1, <2>5, ReadScript DEF Takes
    <3> QED
      BY <1>0, <1>1, <1>3, <2>5, <3>1
  <2>6. CASE dpos + 1 \in {SectorSize + 11, SectorSize + 12}
    <3>1. \/ dpos = SectorSize + 10 /\ Takes = "check"
          \/ dpos = SectorSize + 11 /\ Takes = "result"
      BY <1>0, <2>1, <2>6, ReadScript DEF Takes
    <3> QED
      BY <1>0, <1>1, <1>3, <3>1
  <2> QED
    BY <2>3, <2>4, <2>5, <2>6
<1>4. CASE dcmd = "WriteCard"
  <2>0. dcmd # Nothing
    BY <1>4, NothingAssumption
  <2>1. Course = Script("WriteCard", 1) /\ Len(Course) = SectorSize + 10
    BY <1>4, <2>0, WriteScript DEF Course
  <2>2. dpos >= 2
    BY <1>0, <1>1, <2>0
  <2>3. \/ dpos + 1 \in {3, 4, 5, 6} \/ dpos + 1 \in 7 .. SectorSize + 6
        \/ dpos + 1 \in {SectorSize + 7, SectorSize + 8, SectorSize + 9, SectorSize + 10}
    BY <1>0, <2>1, <2>2
  <2>4. CASE dpos + 1 \in {3, 4, 5, 6}
    <3>0. Takes = Script("WriteCard", 1)[dpos + 1]
      BY <2>1 DEF Takes
    <3>1. \/ (dpos = 2 /\ Takes = "idhi") \/ (dpos = 3 /\ Takes = "idlo")
          \/ (dpos = 4 /\ Takes = "hi") \/ (dpos = 5 /\ Takes = "lo")
      BY <1>0, <2>4, <3>0, WriteScript
    <3> QED
      BY <1>0, <1>1, <1>4, <3>1
  <2>5. CASE dpos + 1 \in 7 .. SectorSize + 6
    <3>1. Takes = "data"
      BY <2>1, <2>5, WriteScript DEF Takes
    <3> QED
      BY <1>0, <1>1, <1>4, <2>5, <3>1
  <2>6. CASE dpos + 1 \in {SectorSize + 7, SectorSize + 8, SectorSize + 9, SectorSize + 10}
    <3>1. \/ dpos = SectorSize + 6 /\ Takes = "check"
          \/ dpos = SectorSize + 7 /\ Takes = "ack"
          \/ dpos = SectorSize + 8 /\ Takes = "ack"
          \/ dpos = SectorSize + 9 /\ Takes = "result"
      BY <1>0, <2>1, <2>6, WriteScript DEF Takes
    <3> QED
      BY <1>0, <1>1, <1>4, <3>1
  <2> QED
    BY <2>3, <2>4, <2>5, <2>6
<1>5. CASE dcmd = "ReadPad"
  <2>0. dcmd # Nothing /\ 1 \in 1 .. MaxWords
    BY <1>5, NothingAssumption, SizeAssumption
  <2>4. Len(Script("ReadPad", 1)) = 2 * 1 + 3
    BY <2>0, PadScript
  <2>1. Course = Script("ReadPad", 1) /\ Len(Course) = 5
    BY <1>5, <2>0, <2>4 DEF Course
  <2>2. dpos >= 2
    BY <1>0, <1>1, <2>0
  <2>3. Takes \in {"hid", "data"}
    BY <1>0, <2>0, <2>1, <2>2, PadScript DEF Takes
  <2> QED
    BY <1>0, <1>1, <1>5, <2>2, <2>3 DEF CardOps
<1> QED
  BY <1>1, <1>2, <1>3, <1>4, <1>5 DEF AllOps, CardOps

\* A device answers a byte, and its select with 0xFF.
LEMMA AnswersType ==
  ASSUME TypeOK, DeviceInv, WireInv, Listens, NEW x \in Answers
  PROVE  x \in Bytes /\ (dpos = 0 => x = FF)
<1>0. /\ dpos \in Nat /\ (Takes = "select" <=> dpos = 0)
      /\ dcmd \in AllOps \cup {Nothing}
      /\ SectorSize \in Nat
  BY CourseKinds, SizeAssumption DEF DeviceInv
<1>1. CASE Takes \in {"select", "cmd", "idhi", "hid", "idlo", "ack"}
  BY <1>0, <1>1, ByteTypes DEF Answers
<1>2. CASE Takes \in {"confhi", "conflo"}
  <2>1. dcmd = "ReadCard" /\ dpos \in {8, 9}
    BY <1>0, <1>2, CourseKinds DEF AllOps, CardOps
  <2>2. daddr \in Bytes \X Bytes
    BY <2>1, ByteAssumption DEF DeviceInv, CardOps
  <2> QED
    BY <1>0, <1>2, <2>1, <2>2 DEF Answers
<1>3. CASE Takes = "data" /\ dcmd = "ReadCard"
  <2>1. dpos - 9 \in 1 .. SectorSize /\ daddr \in Sectors
    BY <1>0, <1>3, CourseKinds DEF DeviceInv, CardOps
  <2>2. contents[daddr][dpos - 9] \in Bytes
    BY <2>1 DEF TypeOK
  <2> QED
    BY <1>0, <1>3, <2>2 DEF Answers
<1>4. CASE Takes = "check" /\ dcmd = "ReadCard"
  BY <1>0, <1>4, CheckType DEF Answers
<1>5. CASE Takes = "result"
  BY <1>0, <1>5, ByteTypes DEF Answers
<1>6. CASE /\ Takes \notin {"select", "cmd", "idhi", "hid", "idlo", "ack", "confhi", "conflo", "result"}
           /\ ~(Takes \in {"data", "check"} /\ dcmd = "ReadCard")
  <2>1. x \in Values
    BY <1>6 DEF Answers
  <2> QED
    BY <1>0, <1>6, <2>1, ByteTypes
<1> QED
  BY <1>1, <1>2, <1>3, <1>4, <1>5, <1>6

\* The byte exchanged is the one of the next place, and the places of the bytes
\* that follow are those after it.
LEMMA NextPlace ==
  ASSUME CardInv, Exchange
  PROVE  /\ pc # "idle" /\ Len(wire) \in Nat \ {0}
         /\ Head(wire) \in Bytes /\ Head(wire) = PlaceByte(Exchanged + 1)
         /\ wire' \in Seq(Bytes) /\ Len(wire') = Len(wire) - 1
         /\ \A j \in 1 .. Len(wire') : wire'[j] = wire[j + 1]
         /\ wire' = <<>> <=> Len(wire) = 1
         /\ SentSoFar \in Int /\ SentSoFar' = SentSoFar
         /\ Exchanged \in Nat /\ Exchanged' = Exchanged + 1
         /\ own' <=> dpos' = Exchanged + 1
<1> USE DEF CardInv
<1>1. /\ wire # <<>> /\ wire' = Tail(wire) /\ wire \in Seq(Bytes)
      /\ UNCHANGED <<op, pc, pos, words>>
  BY DEF Exchange, host, WireInv
<1>2. /\ Len(wire) \in Nat \ {0} /\ Head(wire) = wire[1] /\ Head(wire) \in Bytes
      /\ wire' \in Seq(Bytes) /\ Len(wire') = Len(wire) - 1
      /\ \A j \in 1 .. Len(wire') : wire'[j] = wire[j + 1]
  BY <1>1
<1>3. wire' = <<>> <=> Len(wire) = 1
  BY <1>2
<1>4. pc # "idle"
  BY <1>1 DEF IdleInv
<1>5. SentSoFar \in Int /\ SentSoFar' = SentSoFar /\ Len(wire) <= SentSoFar
  BY <1>1, <1>4 DEF SentSoFar, TypeOK, WireInv
<1>6. Exchanged \in Nat /\ Exchanged' = Exchanged + 1
  BY <1>2, <1>5 DEF Exchanged
<1>7. Head(wire) = PlaceByte(Exchanged + 1)
  BY <1>2 DEF WireInv
<1>8. own' <=> dpos' = Exchanged + 1
  BY DEF Exchange
<1> QED
  BY <1>2, <1>3, <1>4, <1>5, <1>6, <1>7, <1>8

\* A byte taken leaves the device knowing its command, its address and its block.
LEMMA TakenDevice ==
  ASSUME TypeOK, DeviceInv, WireInv, Listens, NEW b \in Bytes, Understands(b), Taken(b)
  PROVE  /\ DeviceInv' /\ dpos' = dpos + 1 /\ rx' \in Bytes
         /\ contents' \in [Sectors -> [1 .. SectorSize -> Bytes]]
         /\ contents' = contents \/ (dcmd = "WriteCard" /\ dpos = SectorSize + 6 /\ dgood')
<1>0. /\ rx' \in Answers /\ dpos' = dpos + 1
      /\ dcmd' \in IF Takes = "cmd" THEN Executed(b) ELSE {dcmd}
      /\ daddr' = IF Takes \in {"hi", "lo"} THEN Append(daddr, b) ELSE daddr
      /\ dbuf' = IF Takes = "data" /\ dcmd = "WriteCard" THEN Append(dbuf, b) ELSE dbuf
      /\ IF Takes = "check" /\ dcmd = "WriteCard"
         THEN dgood' \in {FALSE, b = Check(daddr, dbuf)} ELSE dgood' = dgood
      /\ contents' = IF Takes = "check" /\ dcmd = "WriteCard" /\ dgood'
                     THEN [contents EXCEPT ![daddr] = dbuf] ELSE contents
  BY DEF Taken
<1>1. /\ dpos \in Nat /\ SectorSize \in Nat \ {0}
      /\ Takes = "select" <=> dpos = 0
      /\ Takes = "cmd" <=> dpos = 1
      /\ dcmd \in CardOps => (Takes = "hi" <=> dpos = 4) /\ (Takes = "lo" <=> dpos = 5)
      /\ dcmd = "WriteCard" => /\ Takes = "data" <=> dpos \in 6 .. SectorSize + 5
                               /\ Takes = "check" <=> dpos = SectorSize + 6
                               /\ dpos < SectorSize + 10
      /\ dcmd \in {"ReadPad", Nothing} => Takes \notin {"hi", "lo"}
  <2>1. dcmd = "WriteCard" => dpos < SectorSize + 10
    <3> SUFFICES ASSUME dcmd = "WriteCard" PROVE dpos < SectorSize + 10
      OBVIOUS
    <3>1. dcmd # Nothing
      BY NothingAssumption
    <3>2. Course = Script("WriteCard", 1)
      BY <3>1 DEF Course
    <3> QED
      BY <3>2, WriteScript DEF Listens
  <2> QED
    BY <2>1, CourseKinds, SizeAssumption
<1>2. /\ dcmd \in AllOps \cup {Nothing} /\ Nothing \notin AllOps
      /\ dcmd = Nothing <=> dpos < 2
      /\ daddr \in Seq(Bytes) /\ dbuf \in Seq(Bytes)
  BY <1>1, NothingAssumption DEF DeviceInv, AllOps, CardOps
<1>3. /\ daddr' \in Seq(Bytes) /\ dbuf' \in Seq(Bytes)
      /\ Append(dbuf, b) \in Seq(Bytes) /\ Len(Append(dbuf, b)) = Len(dbuf) + 1
  BY <1>0, <1>2
<1>4. dgood' \in BOOLEAN
  BY <1>0 DEF DeviceInv
<1>5. dcmd' \in AllOps \cup {Nothing} /\ (dcmd' = Nothing <=> dpos' < 2)
  <2>1. CASE dpos = 1
    <3>1. dcmd' \in AllOps
      BY <1>0, <1>1, <2>1 DEF Executed, AllOps, CardOps
    <3> QED
      BY <1>0, <1>2, <2>1, <3>1
  <2>2. CASE dpos # 1
    BY <1>0, <1>1, <1>2, <2>2
  <2> QED
    BY <2>1, <2>2
<1>6. dpos # 1 => dcmd' = dcmd
  BY <1>0, <1>1
<1>7. ASSUME dcmd' \in CardOps, dpos' >= 6
      PROVE  daddr' \in Sectors
  <2>1. dcmd' = dcmd /\ dpos >= 5
    BY <1>0, <1>1, <1>6, <1>7
  <2>2. CASE dpos = 5
    BY <1>0, <1>1, <1>7, <2>1, <2>2 DEF Understands
  <2>3. CASE dpos > 5
    BY <1>0, <1>1, <1>7, <2>1, <2>3 DEF DeviceInv
  <2> QED
    BY <1>1, <2>1, <2>2, <2>3
<1>8. ASSUME dcmd' = "WriteCard"
      PROVE  Len(dbuf') = IF dpos' <= 6 THEN 0
                          ELSE IF dpos' <= SectorSize + 6 THEN dpos' - 6 ELSE SectorSize
  <2>1. CASE dpos = 1
    <3>1. dbuf' = dbuf /\ dbuf = <<>>
      BY <1>0, <1>1, <2>1 DEF DeviceInv
    <3> QED
      BY <1>0, <2>1, <3>1
  <2>2. CASE dpos # 1
    <3>0. dcmd = "WriteCard"
      BY <1>6, <1>8, <2>2
    <3>5. dcmd # Nothing
      BY <3>0, NothingAssumption
    <3>1. dcmd = "WriteCard" /\ dpos >= 2 /\ dpos >= 0
      BY <1>1, <1>2, <3>0, <3>5
    <3>2. Len(dbuf) = IF dpos <= 6 THEN 0 ELSE IF dpos <= SectorSize + 6 THEN dpos - 6 ELSE SectorSize
      BY <3>1 DEF DeviceInv
    <3>3. CASE dpos \in 6 .. SectorSize + 5
      BY <1>0, <1>1, <1>3, <3>1, <3>2, <3>3
    <3>4. CASE dpos \notin 6 .. SectorSize + 5
      BY <1>0, <1>1, <3>1, <3>2, <3>4
    <3> QED
      BY <3>3, <3>4
  <2> QED
    BY <2>1, <2>2
<1>9. ASSUME dpos' \in {0, 1}
      PROVE  daddr' = <<>> /\ dbuf' = <<>> /\ ~dgood'
  <2>1. dpos = 0 /\ Takes = "select"
    BY <1>0, <1>1, <1>9
  <2> QED
    BY <1>0, <2>1 DEF DeviceInv
<1>10. DeviceInv'
  BY <1>3, <1>4, <1>5, <1>7, <1>8, <1>9 DEF DeviceInv
<1>11. /\ contents' \in [Sectors -> [1 .. SectorSize -> Bytes]]
       /\ contents' = contents \/ (dcmd = "WriteCard" /\ dpos = SectorSize + 6 /\ dgood')
  <2>1. CASE Takes = "check" /\ dcmd = "WriteCard" /\ dgood'
    <3>1. dpos = SectorSize + 6 /\ daddr \in Sectors /\ Len(dbuf) = SectorSize
      BY <1>1, <2>1 DEF DeviceInv, CardOps
    <3>2. dbuf \in [1 .. SectorSize -> Bytes]
      BY <1>1, <1>2, <3>1
    <3> QED
      BY <1>0, <2>1, <3>1, <3>2 DEF TypeOK
  <2>2. CASE ~(Takes = "check" /\ dcmd = "WriteCard" /\ dgood')
    BY <1>0, <2>2 DEF TypeOK
  <2> QED
    BY <2>1, <2>2
<1>12. rx' \in Bytes
  BY <1>0, AnswersType
<1> QED
  BY <1>0, <1>10, <1>11, <1>12

\* A device that takes a byte in its turn stays in step with the driver.
LEMMA TakenInStep ==
  ASSUME CardInv, Exchange, Listens, Understands(Head(wire)), Taken(Head(wire)),
         dpos = Exchanged
  PROVE  /\ InStep'
         /\ \/ contents' = contents
            \/ op = "WriteCard" /\ contents' = [contents EXCEPT ![addr] = buffer]
<1> USE DEF CardInv
<1> DEFINE b == Head(wire)
<1>0. /\ UNCHANGED <<op, pc, pos, addr, buffer, words>>
      /\ dpos' = dpos + 1
      /\ dcmd' \in IF Takes = "cmd" THEN Executed(b) ELSE {dcmd}
      /\ daddr' = IF Takes \in {"hi", "lo"} THEN Append(daddr, b) ELSE daddr
      /\ dbuf' = IF Takes = "data" /\ dcmd = "WriteCard" THEN Append(dbuf, b) ELSE dbuf
      /\ IF Takes = "check" /\ dcmd = "WriteCard"
         THEN dgood' \in {FALSE, b = Check(daddr, dbuf)} ELSE dgood' = dgood
      /\ contents' = IF Takes = "check" /\ dcmd = "WriteCard" /\ dgood'
                     THEN [contents EXCEPT ![daddr] = dbuf] ELSE contents
  BY DEF Taken, Exchange, host
<1>1. /\ pc # "idle" /\ b \in Bytes /\ b = PlaceByte(dpos + 1) /\ op \in AllOps
      /\ op \in CardOps => addr \in Sectors
      /\ op = "WriteCard" => buffer \in [1 .. SectorSize -> Bytes]
      /\ dpos \in Nat /\ SectorSize \in Nat \ {0}
      /\ Exchanged' = dpos'
  BY <1>0, NextPlace, SizeAssumption, ByteAssumption DEF HostInv
<1> HIDE DEF b
<1>2. /\ Takes = "select" <=> dpos = 0
      /\ Takes = "cmd" <=> dpos = 1
      /\ dcmd \in CardOps => (Takes = "hi" <=> dpos = 4) /\ (Takes = "lo" <=> dpos = 5)
      /\ dcmd = "WriteCard" => /\ Takes = "data" <=> dpos \in 6 .. SectorSize + 5
                               /\ Takes = "check" <=> dpos = SectorSize + 6
  BY CourseKinds
<1>3. /\ dpos >= 2 => dcmd = op
      /\ op \in CardOps =>
           /\ dpos <= 4 => daddr = <<>>
           /\ dpos = 5 => daddr = <<addr[1]>>
           /\ dpos >= 6 => daddr = addr
      /\ op = "WriteCard" =>
           /\ \A i \in 1 .. Len(dbuf) : dbuf[i] = buffer[i]
           /\ dgood => contents[addr] = buffer
  BY <1>1 DEF InStep
<1>4. dpos' >= 2 => dcmd' = op
  <2>1. CASE dpos = 1
    <3>1. b = Command(op) /\ dcmd' \in Executed(b)
      BY <1>0, <1>1, <1>2, <2>1 DEF PlaceByte
    <3>2. dcmd' \in AllOps /\ Command(dcmd') = Command(op)
      BY <3>1 DEF Executed, AllOps, CardOps
    <3> QED
      BY <1>1, <3>2, BytesApart DEF AllOps, CardOps
  <2>2. CASE dpos # 1
    BY <1>0, <1>1, <1>2, <1>3, <2>2
  <2> QED
    BY <2>1, <2>2
<1>5. ASSUME op \in CardOps
      PROVE  /\ dpos' <= 4 => daddr' = <<>>
             /\ dpos' = 5 => daddr' = <<addr[1]>>
             /\ dpos' >= 6 => daddr' = addr
  <2>1. CASE dpos <= 3
    <3>1. Takes \notin {"hi", "lo"}
      BY <1>1, <1>2, <1>3, <1>5, <2>1
    <3> QED
      BY <1>0, <1>1, <1>3, <1>5, <2>1, <3>1
  <2>2. CASE dpos = 4
    <3>1. b = addr[1] /\ daddr = <<>> /\ Takes = "hi"
      BY <1>1, <1>2, <1>3, <1>5, <2>2 DEF PlaceByte
    <3>2. daddr' = Append(<<>>, addr[1])
      BY <1>0, <3>1
    <3>3. daddr' = <<addr[1]>>
      BY <3>2
    <3>4. dpos' = 5
      BY <1>0, <2>2
    <3> QED
      BY <3>3, <3>4
  <2>3. CASE dpos = 5
    <3>5. b = addr[2]
      BY <1>1, <1>5, <2>3 DEF PlaceByte, CardOps
    <3>6. dcmd = op
      BY <1>3, <2>3
    <3>7. Takes = "lo"
      BY <1>2, <1>5, <2>3, <3>6
    <3>3. b = addr[2] /\ daddr = <<addr[1]>> /\ Takes = "lo"
      BY <1>3, <1>5, <2>3, <3>5, <3>7
    <3>1. daddr' = Append(<<addr[1]>>, addr[2])
      BY <1>0, <3>3
    <3>4. dpos' = 6
      BY <1>0, <2>3
    <3>2. addr = <<addr[1], addr[2]>>
      BY <1>1, <1>5, ByteAssumption
    <3> QED
      BY <3>1, <3>2, <3>4
  <2>4. CASE dpos >= 6
    BY <1>0, <1>1, <1>2, <1>3, <1>5, <2>4
  <2> QED
    BY <1>1, <2>1, <2>2, <2>3, <2>4
<1>6. ASSUME op = "WriteCard"
      PROVE  \A i \in 1 .. Len(dbuf') : dbuf'[i] = buffer[i]
  <2>1. CASE Takes = "data" /\ dcmd = "WriteCard"
    <3>1. dpos \in 6 .. SectorSize + 5 /\ Len(dbuf) = dpos - 6 /\ dbuf \in Seq(Bytes)
      BY <1>1, <1>2, <2>1 DEF DeviceInv
    <3>2. b = buffer[dpos - 5]
      BY <1>1, <1>6, <3>1 DEF PlaceByte
    <3>3. dbuf' = Append(dbuf, b)
      BY <1>0, <2>1
    <3> QED
      BY <1>1, <1>3, <1>6, <3>1, <3>2, <3>3
  <2>2. CASE ~(Takes = "data" /\ dcmd = "WriteCard")
    BY <1>0, <1>3, <1>6, <2>2
  <2> QED
    BY <2>1, <2>2
<1>7. CASE Takes = "check" /\ dcmd = "WriteCard" /\ dgood'
  <2>1. dpos = SectorSize + 6 /\ Len(dbuf) = SectorSize /\ dbuf \in Seq(Bytes)
    BY <1>1, <1>2, <1>7 DEF DeviceInv
  <2>2. op = "WriteCard" /\ daddr = addr /\ addr \in Sectors
    BY <1>1, <1>3, <1>7, <2>1 DEF CardOps
  <2>3. dbuf = buffer
    <3>1. dbuf \in [1 .. SectorSize -> Bytes] /\ buffer \in [1 .. SectorSize -> Bytes]
      BY <1>1, <2>1, <2>2
    <3>2. \A i \in 1 .. SectorSize : dbuf[i] = buffer[i]
      BY <1>3, <2>1, <2>2
    <3>3. dbuf = [i \in 1 .. SectorSize |-> dbuf[i]]
      BY <3>1
    <3>4. buffer = [i \in 1 .. SectorSize |-> buffer[i]]
      BY <3>1
    <3> QED
      BY <3>2, <3>3, <3>4, ZenonT(20)
  <2>4. contents' = [contents EXCEPT ![addr] = buffer]
    BY <1>0, <1>7, <2>2, <2>3
  <2>5. contents'[addr] = buffer
    BY <2>2, <2>4 DEF TypeOK
  <2>6. InStep'
    BY <1>0, <1>1, <1>4, <1>5, <1>6, <2>5 DEF InStep
  <2> QED
    BY <2>2, <2>4, <2>6
<1>8. CASE ~(Takes = "check" /\ dcmd = "WriteCard" /\ dgood')
  <2>1. contents' = contents /\ (dgood' => dgood)
    BY <1>0, <1>8
  <2>2. InStep'
    BY <1>0, <1>1, <1>3, <1>4, <1>5, <1>6, <2>1 DEF InStep
  <2> QED
    BY <2>1, <2>2
<1> QED
  BY <1>7, <1>8

\* A sector changes to the block being written, or more than one byte of the
\* attempt went amiss.
LEMMA CommitCounted ==
  ASSUME CardInv, Exchange
  PROVE  \/ contents' = contents
         \/ op = "WriteCard" /\ contents' = [contents EXCEPT ![addr] = buffer]
         \/ Amiss' > 1
<1> USE DEF CardInv
<1>1. CASE ~(Listens /\ Understands(Head(wire)))
  BY <1>1 DEF Exchange, Ignored
<1>2. CASE Listens /\ Understands(Head(wire)) /\ dpos = Exchanged
  BY <1>2, TakenInStep DEF Exchange
<1>3. CASE Listens /\ Understands(Head(wire)) /\ dpos # Exchanged
  <2>1. Taken(Head(wire)) /\ UNCHANGED <<pc, missed>> /\ wire # <<>>
    BY <1>3 DEF Exchange, host
  <2>2. /\ pc # "idle" /\ Head(wire) \in Bytes /\ Len(wire) \in Nat \ {0}
        /\ Len(wire') = Len(wire) - 1 /\ (wire' = <<>> <=> Len(wire) = 1)
        /\ Exchanged \in Nat /\ (own' <=> dpos' = Exchanged + 1)
    BY NextPlace
  <2>3. dpos' = dpos + 1 /\ (contents' = contents \/ dpos = SectorSize + 6)
    BY <1>3, <2>1, <2>2, TakenDevice
  <2> SUFFICES ASSUME dpos = SectorSize + 6 PROVE Amiss' > 1
    BY <2>3
  <2>4. dpos > 0 /\ ~own
    BY <1>3, SizeAssumption DEF WireInv
  <2>5. ~own'
    BY <1>3, <2>1, <2>2, <2>3, SizeAssumption
  <2>6. missed \in Nat /\ missed' = missed /\ pc \in {"put", "await", "linger"}
    BY <2>1, <2>2 DEF TypeOK, Several
  <2>7. CASE pc = "put"
    <3>1. missed >= 2
      BY <2>1, <2>4, <2>7 DEF CountInv
    <3> QED
      BY <2>1, <2>6, <2>7, <3>1 DEF Amiss
  <2>8. CASE pc \in {"await", "linger"}
    <3>1. missed >= 1 /\ (Len(wire) >= 2 => missed >= 2)
      BY <2>1, <2>4, <2>8 DEF CountInv
    <3> QED
      BY <2>1, <2>2, <2>5, <2>6, <2>8, <3>1 DEF Amiss
  <2> QED
    BY <2>6, <2>7, <2>8
<1> QED
  BY <1>1, <1>2, <1>3

\* What the device answers in its turn is its own, of this call.
LEMMA RxKeeps ==
  ASSUME CardInv, Exchange
  PROVE  RxInv'
<1> USE DEF CardInv
<1>0. /\ UNCHANGED <<op, pc, pos, addr, buffer, words, missed>> /\ wire # <<>>
      /\ IF Listens /\ Understands(Head(wire)) THEN Taken(Head(wire)) ELSE Ignored(Head(wire))
  BY DEF Exchange, host
<1>1. /\ pc # "idle" /\ Head(wire) \in Bytes /\ Len(wire) \in Nat \ {0}
      /\ Len(wire') = Len(wire) - 1 /\ (wire' = <<>> <=> Len(wire) = 1)
      /\ Exchanged \in Nat /\ dpos \in Int /\ dpos <= Exchanged
      /\ own' <=> dpos' = Exchanged + 1
      /\ op \in AllOps /\ missed \in Nat /\ SectorSize \in Nat \ {0}
      /\ op \in CardOps => addr \in Sectors
  BY NextPlace, SizeAssumption DEF WireInv, HostInv, TypeOK, Several
<1>2. CASE ~(Listens /\ Understands(Head(wire)))
  <2>1. rx' = FF /\ dpos' \in {-1, dpos}
    BY <1>0, <1>2 DEF Ignored
  <2>2. ~own'
    BY <1>0, <1>1, <2>1
  <2>3. missed = 0 /\ pc = "put" => FALSE
    BY <1>0 DEF CountInv
  <2>4. missed = 0 /\ wire' # <<>> => pc = "put"
    BY <1>0, <1>1 DEF CountInv, TypeOK
  <2> QED
    BY <1>0, <2>1, <2>2, <2>3, <2>4 DEF RxInv
<1>3. CASE Listens /\ Understands(Head(wire))
  <2>0. Taken(Head(wire)) /\ dpos' = dpos + 1 /\ rx' \in Answers
    BY <1>0, <1>3 DEF Taken
  <2>1. missed = 0 => pc # "put" /\ wire' = <<>> /\ own
    BY <1>0, <1>1 DEF CountInv, TypeOK
  <2>2. missed = 0 /\ ~own' => rx' = FF
    <3> SUFFICES ASSUME missed = 0, ~own' PROVE rx' = FF
      OBVIOUS
    <3>1. dpos # Exchanged
      BY <1>0, <1>1, <2>0
    <3>2. dpos = 0
      BY <1>1, <1>3, <2>1, <3>1 DEF WireInv, Listens
    <3> QED
      BY <1>3, <2>0, <3>2, AnswersType
  <2>3. ASSUME pc # "put", wire' = <<>>, own'
        PROVE  /\ op = "ReadCard" /\ pos \in 11 .. SectorSize + 10 => rx' = contents'[addr][pos - 10]
               /\ op = "ReadCard" /\ pos = SectorSize + 11 => rx' = Check(addr, contents'[addr])
               /\ op = "WriteCard" /\ pos = SectorSize + 10 /\ rx' = Good => contents'[addr] = buffer
    <3>1. dpos = Exchanged /\ Exchanged = pos - 1
      <4>1. dpos = Exchanged
        BY <1>0, <1>1, <2>0, <2>3
      <4>2. Len(wire) = 1 /\ pos \in Int
        BY <1>1, <2>3 DEF TypeOK
      <4>3. SentSoFar = pos
        BY <1>1, <2>3 DEF SentSoFar
      <4> QED
        BY <4>1, <4>2, <4>3 DEF Exchanged
    <3>2. contents' = contents \/ op = "WriteCard"
      BY <1>3, <2>0, <3>1, TakenInStep
    <3>3. /\ dpos >= 2 => dcmd = op
          /\ op \in CardOps /\ dpos >= 6 => daddr = addr
          /\ op = "WriteCard" /\ dgood => contents[addr] = buffer
      BY <1>1, <3>1 DEF InStep
    <3>4. /\ dcmd = "ReadCard" => /\ Takes = "data" <=> dpos \in 10 .. SectorSize + 9
                                  /\ Takes = "check" <=> dpos = SectorSize + 10
          /\ dcmd = "WriteCard" => /\ Takes = "check" <=> dpos = SectorSize + 6
                                   /\ Takes = "result" <=> dpos = SectorSize + 9
      BY <1>3, CourseKinds
    <3>5. ASSUME op = "ReadCard", pos \in 11 .. SectorSize + 10
          PROVE  rx' = contents'[addr][pos - 10]
      <4>1. dpos \in 10 .. SectorSize + 9 /\ dpos - 9 = pos - 10 /\ dpos >= 6 /\ dpos >= 2
        BY <1>1, <3>1, <3>5
      <4>2. dcmd = "ReadCard" /\ Takes = "data" /\ daddr = addr
        BY <3>3, <3>4, <3>5, <4>1 DEF CardOps
      <4>3. rx' = contents[addr][pos - 10]
        BY <2>0, <4>1, <4>2 DEF Answers
      <4> QED
        BY <3>2, <3>5, <4>3
    <3>6. ASSUME op = "ReadCard", pos = SectorSize + 11
          PROVE  rx' = Check(addr, contents'[addr])
      <4>1. dpos = SectorSize + 10 /\ dpos >= 6 /\ dpos >= 2
        BY <1>1, <3>1, <3>6
      <4>2. dcmd = "ReadCard" /\ Takes = "check" /\ daddr = addr
        BY <3>3, <3>4, <3>6, <4>1 DEF CardOps
      <4>3. rx' = Check(addr, contents[addr])
        BY <2>0, <4>2 DEF Answers
      <4> QED
        BY <3>2, <3>6, <4>3
    <3>7. ASSUME op = "WriteCard", pos = SectorSize + 10, rx' = Good
          PROVE  contents'[addr] = buffer
      <4>1. dpos = SectorSize + 9 /\ dpos >= 2 /\ dpos # SectorSize + 6
        BY <1>1, <3>1, <3>7
      <4>2. dcmd = "WriteCard" /\ Takes = "result"
        BY <3>3, <3>4, <3>7, <4>1
      <4>3. dgood
        BY <2>0, <3>7, <4>2, BytesApart DEF Answers
      <4>4. contents' = contents
        BY <2>0, <4>2 DEF Taken
      <4> QED
        BY <3>3, <3>7, <4>3, <4>4
    <3> QED
      BY <3>5, <3>6, <3>7
  <2> QED
    BY <1>0, <2>1, <2>2, <2>3 DEF RxInv
<1> QED
  BY <1>2, <1>3

LEMMA ExchangeKeeps ==
  ASSUME CardInv, Exchange
  PROVE  CardInv'
<1> USE DEF CardInv
<1>0. /\ wire # <<>> /\ own' \in BOOLEAN
      /\ UNCHANGED <<op, pc, pos, attempts, half, addr, buffer, words, ret, buttons, present>>
      /\ UNCHANGED <<missed, plugged>>
      /\ IF Listens /\ Understands(Head(wire)) THEN Taken(Head(wire)) ELSE Ignored(Head(wire))
  BY DEF Exchange, host
<1>1. /\ pc # "idle" /\ Head(wire) \in Bytes /\ Len(wire) \in Nat \ {0}
      /\ wire' \in Seq(Bytes) /\ Len(wire') = Len(wire) - 1
      /\ \A j \in 1 .. Len(wire') : wire'[j] = wire[j + 1]
      /\ (wire' = <<>> <=> Len(wire) = 1)
      /\ SentSoFar \in Int /\ SentSoFar' = SentSoFar
      /\ Exchanged \in Nat /\ Exchanged' = Exchanged + 1
      /\ dpos \in Int /\ dpos >= -1 /\ dpos <= Exchanged
      /\ own' <=> dpos' = Exchanged + 1
  BY NextPlace DEF WireInv
<1>2. /\ DeviceInv' /\ rx' \in Bytes /\ dpos' \in {-1, dpos, dpos + 1}
      /\ contents' \in [Sectors -> [1 .. SectorSize -> Bytes]]
      /\ hasAck' \in Nat /\ late' \in 0 .. MaxLate
  <2>1. CASE Listens /\ Understands(Head(wire))
    <3>1. hasAck' \in Nat /\ late' \in 0 .. MaxLate
      BY <1>0, <2>1, SizeAssumption DEF Taken, Acknowledge, TypeOK
    <3> QED
      BY <1>0, <1>1, <2>1, <3>1, TakenDevice
  <2>2. CASE ~(Listens /\ Understands(Head(wire)))
    <3>1. /\ rx' = FF /\ UNCHANGED <<hasAck, late, dcmd, daddr, dbuf, dgood, contents>>
          /\ dpos' = dpos \/ dpos' = -1
      BY <1>0, <2>2 DEF Ignored
    <3>2. DeviceInv'
      BY <1>1, <3>1 DEF DeviceInv
    <3> QED
      BY <3>1, <3>2, ByteTypes DEF TypeOK
  <2> QED
    BY <2>1, <2>2
<1>3. TypeOK' /\ HostInv'
  <2>1. rx' # Nothing
    BY <1>2, NothingAssumption
  <2>2. own' \in BOOLEAN
    BY <1>0
  <2> QED
    BY <1>0, <1>2, <2>1, <2>2 DEF TypeOK, HostInv
<1>4. own' <=> dpos' = Exchanged'
  BY <1>1
<1>5. WireInv'
  <2>1. ASSUME NEW j \in 1 .. Len(wire')
        PROVE  wire'[j] = PlaceByte(Exchanged + j)'
    <3>1. PlaceByte(Exchanged + j)' = PlaceByte(Exchanged' + j)
      BY <1>0, PlacesKept
    <3>2. wire'[j] = wire[j + 1] /\ j + 1 \in 1 .. Len(wire)
      BY <1>1
    <3>3. wire[j + 1] = PlaceByte(Exchanged + (j + 1))
      BY <3>2 DEF WireInv
    <3>4. Exchanged + (j + 1) = Exchanged' + j
      BY <1>1
    <3> QED
      BY <3>1, <3>2, <3>3, <3>4
  <2>2. Len(wire') <= SentSoFar'
    BY <1>1 DEF WireInv
  <2>3. dpos' \in Int /\ dpos' >= -1 /\ dpos' <= Exchanged'
    BY <1>1, <1>2
  <2> QED
    BY <1>1, <1>4, <2>1, <2>2, <2>3 DEF WireInv
<1>6. InStep'
  <2>1. CASE dpos' = Exchanged'
    <3>1. Listens /\ Understands(Head(wire))
      <4> SUFFICES ASSUME ~(Listens /\ Understands(Head(wire))) PROVE FALSE
        OBVIOUS
      <4>1. dpos' = dpos \/ dpos' = -1
        BY <1>0 DEF Ignored
      <4> QED
        BY <1>1, <2>1, <4>1
    <3>2. Taken(Head(wire))
      BY <1>0, <3>1
    <3>3. dpos' = dpos + 1
      BY <3>2 DEF Taken
    <3>4. dpos = Exchanged
      BY <1>1, <2>1, <3>3
    <3> QED
      BY <3>1, <3>2, <3>4, TakenInStep
  <2>2. CASE dpos' # Exchanged'
    BY <2>2 DEF InStep
  <2> QED
    BY <2>1, <2>2
<1>7. CountInv'
  BY <1>0, <1>1 DEF CountInv
<1>8. RxInv'
  BY RxKeeps
<1>9. ReadInv'
  <2> SUFFICES ASSUME op = "ReadCard", Amiss' <= 1
               PROVE  /\ missed' = 0 => Wrong' = {}
                      /\ \E i \in Int : Wrong' \subseteq {i}
                      /\ pos' = SectorSize + 12 => Wrong' = {}
    BY <1>0 DEF ReadInv
  <2>1. missed \in 0 .. 2
    BY DEF TypeOK, Several
  <2>2. Amiss' \in 0 .. 3
    BY <1>0, <2>1 DEF Amiss
  <2>3. contents' = contents
    BY <2>2, CommitCounted
  <2>4. Amiss <= 1
    BY <1>0, <2>1 DEF Amiss
  <2> QED
    BY <1>0, <1>1, <2>3, <2>4 DEF ReadInv, Wrong
<1>10. IdleInv' /\ SuccessIsTrue'
  BY <1>0, <1>1 DEF IdleInv, SuccessIsTrue, Succeeded
<1> QED
  BY <1>2, <1>3, <1>5, <1>6, <1>7, <1>8, <1>9, <1>10
-----------------------------------------------------------------------------
(* The theorems about cards. *)

LEMMA CardInvInit == Init => CardInv
<1> SUFFICES ASSUME Init PROVE CardInv
  OBVIOUS
<1>1. TypeOK
  <2>1. contents \in [Sectors -> [1 .. SectorSize -> Bytes]]
    BY ByteAssumption DEF Init
  <2>2. 1 \in 1 .. MaxWords /\ MaxLate \in Nat /\ SectorSize \in Nat
    BY SizeAssumption
  <2>3. Zero \in Bytes /\ ret # Nothing /\ op # "ReadPad" /\ own \in BOOLEAN
    BY ByteTypes, NothingAssumption DEF Init
  <2>4. /\ pc = "idle" /\ attempts = 0 /\ half = Zero /\ addr = Nothing /\ buffer = <<>>
        /\ words = 1 /\ missed = 0 /\ hasAck = 0 /\ rx = Nothing /\ late = 0
        /\ plugged \in Devices /\ op = Nothing
    BY DEF Init
  <2>5. Len(buffer) <= IF op = "ReadPad" THEN 2 * MaxWords ELSE SectorSize
    BY <2>2, <2>3, <2>4
  <2> QED
    BY <2>1, <2>2, <2>3, <2>4, <2>5 DEF TypeOK, Several
<1>2. /\ pc = "idle" /\ wire = <<>> /\ op = Nothing /\ dpos = 0 /\ dcmd = Nothing
      /\ daddr = <<>> /\ dbuf = <<>> /\ dgood \in BOOLEAN /\ ~dgood /\ buffer = <<>>
  BY DEF Init
<1>3. HostInv
  BY <1>2 DEF HostInv
<1>4. WireInv
  BY <1>2 DEF WireInv, Exchanged, SentSoFar
<1>5. DeviceInv
  <2>1. dcmd \notin CardOps /\ dcmd # "WriteCard" /\ daddr \in Seq(Bytes) /\ dbuf \in Seq(Bytes)
    BY <1>2, NothingAssumption DEF CardOps
  <2> QED
    BY <1>2, <2>1 DEF DeviceInv
<1>6. InStep /\ CountInv /\ RxInv /\ ReadInv /\ IdleInv
  BY <1>2 DEF InStep, CountInv, RxInv, ReadInv, IdleInv
<1>7. SuccessIsTrue
  BY <1>2, NothingAssumption DEF SuccessIsTrue, Succeeded
<1> QED
  BY <1>1, <1>3, <1>4, <1>5, <1>6, <1>7 DEF CardInv

LEMMA CardInvStutter ==
  ASSUME CardInv, UNCHANGED vars
  PROVE  CardInv'
<1> USE DEF CardInv
<1>0. /\ UNCHANGED <<op, pc, pos, attempts, half, addr, buffer, words, ret, buttons, present>>
      /\ UNCHANGED <<missed, own, hasAck, wire, rx, late, plugged, contents>>
      /\ UNCHANGED <<dpos, dcmd, daddr, dbuf, dgood>>
  BY DEF vars, host, device
<1>1. TypeOK' /\ HostInv'
  BY <1>0 DEF TypeOK, HostInv
<1>2. SentSoFar' = SentSoFar /\ Exchanged' = Exchanged /\ Amiss' = Amiss
  BY <1>0 DEF SentSoFar, Exchanged, Amiss
<1>3. WireInv'
  BY <1>0, <1>2, PlacesKept DEF WireInv
<1>4. DeviceInv' /\ InStep'
  BY <1>0, <1>2 DEF DeviceInv, InStep
<1>5. CountInv' /\ RxInv'
  BY <1>0 DEF CountInv, RxInv
<1>6. ReadInv' /\ IdleInv' /\ SuccessIsTrue'
  BY <1>0, <1>2 DEF ReadInv, Wrong, IdleInv, SuccessIsTrue, Succeeded
<1> QED
  BY <1>1, <1>3, <1>4, <1>5, <1>6

LEMMA CardInvStep == CardInv /\ [Next]_vars => CardInv'
  BY CallsKeep, PutKeeps, AckedKeeps, TimedOutKeeps, LingerKeeps, TakeLastKeeps,
     ExchangeKeeps, LateAckKeeps, ReplugKeeps, CardInvStutter DEF Next, Driver

LEMMA CardInvHolds == Spec => []CardInv
  BY CardInvInit, CardInvStep, PTL DEF Spec

\* The driver stays within its script and its three attempts, and a card's
\* sectors hold whole blocks, whatever is late, lost or pulled out.
THEOREM TypeCorrect == Spec => []TypeOK
<1>1. CardInv => TypeOK
  BY DEF CardInv
<1> QED
  BY <1>1, CardInvHolds, PTL

\* A card's call that reports success has moved the sector it was asked for, if
\* at most one byte of its last attempt was not answered in its turn, whichever
\* it was and for any number of late acknowledgements: one wrong byte changes
\* the exclusive or.  A write's success is true after any number of them if the
\* result is the card's own answer to the last byte: the card is in step then,
\* and says that it is good only after the sector has the buffer.
THEOREM SuccessIsTrueHolds == Spec => []SuccessIsTrue
<1>1. CardInv => SuccessIsTrue
  BY DEF CardInv
<1> QED
  BY <1>1, CardInvHolds, PTL
-----------------------------------------------------------------------------
(* The store of sectors. *)

LEMMA CardStart ==
  ASSUME CardInv, NEW o \in Operations, NEW a, NEW bs, Start(o, a, bs),
         o \in CardOps => a \in Sectors, o = "WriteCard" => bs \in Blocks
  PROVE  Card!CardNext
<1>1. /\ pc = "idle" /\ op' = o /\ pc' = "put" /\ addr' = a /\ buffer' = bs
      /\ contents' = contents
  BY DEF Start
<1>2. CardCall = <<>> /\ CardAnswer' = Nothing
  BY <1>1 DEF CardCall, CardAnswer
<1>3. CASE o = "ReadPad"
  <2>1. CardCall' = <<>>
    BY <1>1, <1>3 DEF CardCall
  <2> QED
    BY <1>1, <1>2, <2>1 DEF Card!CardNext, Card!Begin, Card!NoCall
<1>4. CASE o = "ReadCard"
  <2>1. CardCall' = <<"ReadCard", a>>
    BY <1>1, <1>4 DEF CardCall
  <2> QED
    BY <1>1, <1>2, <1>4, <2>1 DEF Card!CardNext, Card!Begin, Card!NoCall, CardOps
<1>5. CASE o = "WriteCard"
  <2>1. CardCall' = <<"WriteCard", a, bs>>
    BY <1>1, <1>5 DEF CardCall
  <2> QED
    BY <1>1, <1>2, <1>5, <2>1 DEF Card!CardNext, Card!Begin, Card!NoCall, CardOps
<1> QED
  BY <1>3, <1>4, <1>5, PortAssumption

\* A step that leaves the call, its answer and the card alone.
LEMMA CardUnmoved ==
  ASSUME UNCHANGED <<op, addr, contents, ret>>, pc # "idle", pc' # "idle", op \in AllOps,
         op = "WriteCard" => buffer' = buffer
  PROVE  UNCHANGED Card!cardVars
<1>1. CardCall' = CardCall
  BY DEF CardCall, AllOps, CardOps
<1>2. CardAnswer' = CardAnswer
  BY DEF CardAnswer
<1> QED
  BY <1>1, <1>2 DEF Card!cardVars

\* A call's last byte: it succeeds or fails, and the others leave it under way.
LEMMA CardHandle ==
  ASSUME CardInv, CardInv', pc \in {"await", "linger"},
         NEW b \in Bytes, NEW err \in BOOLEAN, NEW acks, Handle(b, err, acks), UNCHANGED contents
  PROVE  Card!CardNext \/ Amiss' > 1 \/ UNCHANGED Card!cardVars
<1> USE DEF CardInv
<1>0. UNCHANGED <<op, addr, contents>> /\ op \in AllOps /\ SectorSize \in Nat \ {0}
  BY Outcomes, SizeAssumption DEF HostInv
<1>1. CASE GoesOn(b, err, acks)
  <2>1. pc' = "put" /\ ret' = ret /\ (op = "WriteCard" => buffer' = buffer)
    BY <1>1 DEF GoesOn, GoOn, Stored
  <2> QED
    BY <1>0, <2>1, CardUnmoved
<1>2. CASE Retries
  <2>1. pc' = "put" /\ ret' = ret /\ (op = "WriteCard" => buffer' = buffer)
    BY <1>2 DEF Retries, Retry
  <2> QED
    BY <1>0, <2>1, CardUnmoved
<1>3. ASSUME NEW r \in Nat, Returns(b, err, r)
      PROVE  Card!CardNext \/ Amiss' > 1 \/ UNCHANGED Card!cardVars
  <2>1. /\ pc' = "idle" /\ ret' = r /\ CardCall' = <<>>
        /\ op = "WriteCard" => buffer' = buffer
    BY <1>3 DEF Returns, Return, Stored, CardCall
  <2>2. CASE op = "ReadPad"
    <3>1. CardCall = <<>> /\ CardAnswer = Nothing /\ CardAnswer' = Nothing
      BY <1>0, <2>2 DEF CardCall, CardAnswer
    <3> QED
      BY <1>0, <2>1, <3>1 DEF Card!cardVars
  <2>3. CASE op \in CardOps
    <3>1. /\ addr \in Sectors /\ op # Nothing /\ op # "ReadPad"
          /\ CardCall = IF op = "ReadCard" THEN <<"ReadCard", addr>> ELSE <<"WriteCard", addr, buffer>>
      BY <2>3, NothingAssumption DEF CardCall, CardOps, HostInv
    <3>2. CardCall # <<>>
      BY <3>1
    <3>3. CASE r = SectorSize /\ missed' <= 1
      <4>1. CardAnswer' = buffer'
        BY <1>0, <2>1, <3>1, <3>3 DEF CardAnswer
      <4>2. buffer' = contents[addr]
        BY <1>0, <2>1, <2>3, <3>3 DEF SuccessIsTrue, Succeeded, CardOps
      <4>3. Card!Succeed(addr)
        BY <1>0, <2>1, <2>3, <3>1, <4>1, <4>2 DEF Card!Succeed, Card!NoCall, CardOps
      <4> QED
        BY <3>1, <4>3 DEF Card!CardNext
    <3>4. CASE r = SectorSize /\ missed' > 1
      <4>1. missed' \in 0 .. 2
        BY DEF TypeOK, Several
      <4>2. PICK m \in Nat : m = missed'
        BY <4>1
      <4>3. m > 1
        BY <3>4, <4>2
      <4>4. Amiss' = m + 0
        BY <2>1, <4>2 DEF Amiss
      <4> QED
        BY <4>3, <4>4
    <3>5. CASE r # SectorSize
      <4>1. CardAnswer' = <<>>
        BY <1>0, <2>1, <3>1, <3>5 DEF CardAnswer
      <4> QED
        BY <1>0, <2>1, <3>2, <4>1 DEF Card!CardNext, Card!Fail, Card!Failed, Card!NoCall
    <3>6. missed' <= 1 \/ missed' > 1
      BY DEF TypeOK, Several
    <3> QED
      BY <3>3, <3>4, <3>5, <3>6
  <2> QED
    BY <1>0, <2>2, <2>3 DEF AllOps
<1> QED
  BY <1>1, <1>2, <1>3, Outcomes

LEMMA CardExchange ==
  ASSUME CardInv, Exchange
  PROVE  Card!CardNext \/ Amiss' > 1 \/ UNCHANGED Card!cardVars
<1> USE DEF CardInv
<1>1. UNCHANGED <<op, pc, addr, buffer, ret>> /\ wire # <<>>
  BY DEF Exchange, host
<1>2. CardCall' = CardCall /\ CardAnswer' = CardAnswer
  BY <1>1 DEF CardCall, CardAnswer
<1>3. pc # "idle"
  BY <1>1 DEF IdleInv
<1>4. CASE contents' = contents
  BY <1>2, <1>4 DEF Card!cardVars
<1>5. CASE op = "WriteCard" /\ contents' = [contents EXCEPT ![addr] = buffer]
  <2>1. CardCall = <<"WriteCard", addr, buffer>> /\ addr \in Sectors /\ buffer \in Blocks
    BY <1>3, <1>5 DEF CardCall, HostInv, CardOps
  <2>2. Card!Commit(addr, buffer)
    BY <1>2, <1>5, <2>1 DEF Card!Commit
  <2> QED
    BY <2>1, <2>2 DEF Card!CardNext
<1> QED
  BY <1>4, <1>5, CommitCounted

LEMMA CardStep ==
  CardInv /\ CardInv' /\ [Next]_vars => [Card!CardNext \/ Amiss' > 1]_(Card!cardVars)
<1> SUFFICES ASSUME CardInv, CardInv', [Next]_vars
             PROVE  Card!CardNext \/ Amiss' > 1 \/ UNCHANGED Card!cardVars
  OBVIOUS
<1>1. CASE Calls
  <2>1. ASSUME NEW a \in Sectors, ReadCard(a)
        PROVE  Card!CardNext
    BY <2>1, CardStart DEF ReadCard, Start
  <2>2. ASSUME NEW a \in Sectors, NEW bs \in Blocks, WriteCard(a, bs)
        PROVE  Card!CardNext
    BY <2>2, CardStart DEF WriteCard, Start
  <2>3. CASE ReadPad
    BY <2>3, CardStart DEF ReadPad, Start, CardOps
  <2> QED
    BY <1>1, <2>1, <2>2, <2>3 DEF Calls
<1>2. CASE Put
  <2>1. UNCHANGED <<op, addr, contents, ret, buffer>> /\ pc = "put" /\ pc' = "await"
    BY <1>2 DEF Put
  <2> QED
    BY <2>1, CardUnmoved DEF CardInv, HostInv
<1>3. CASE Linger
  <2>1. UNCHANGED <<op, addr, contents, ret, buffer>> /\ pc = "await" /\ pc' = "linger"
    BY <1>3 DEF Linger
  <2> QED
    BY <2>1, CardUnmoved DEF CardInv, HostInv
<1>4. CASE Acked
  <2>1. PICK b \in Received : Handle(b, FALSE, hasAck - 1)
    BY <1>4 DEF Acked
  <2>2. b \in Bytes /\ FALSE \in BOOLEAN
    BY <2>1, ByteTypes DEF Received, CardInv, TypeOK
  <2> QED
    BY <1>4, <2>1, <2>2, CardHandle DEF Acked
<1>5. CASE TimedOut
  BY <1>5, CardHandle, ByteTypes DEF TimedOut
<1>6. CASE TakeLast
  <2>1. rx \in Bytes
    BY <1>6 DEF TakeLast, CardInv, HostInv, TypeOK
  <2> QED
    BY <1>6, <2>1, CardHandle DEF TakeLast
<1>7. CASE Exchange
  BY <1>7, CardExchange
<1>8. CASE LateAck \/ (\E d \in Devices : Replug(d)) \/ UNCHANGED vars
  <2>1. UNCHANGED <<op, pc, addr, buffer, ret, contents>>
    BY <1>8 DEF LateAck, Replug, vars, host
  <2>2. CardCall' = CardCall /\ CardAnswer' = CardAnswer
    BY <2>1 DEF CardCall, CardAnswer
  <2> QED
    BY <2>1, <2>2 DEF Card!cardVars
<1> QED
  BY <1>1, <1>2, <1>3, <1>4, <1>5, <1>6, <1>7, <1>8 DEF Next, Driver

\* The driver and its card implement a store of sectors while at most one byte
\* of an attempt goes amiss: a sector changes only to the block of the write
\* under way, at one moment of its call, and a call that succeeds answers what
\* its sector holds.  A step that breaks the promise is one of an attempt with
\* more bytes amiss, and none after it does so on that account.
THEOREM CardSpecHolds == Spec => CardSpec
<1>1. Init => Card!CardInit
  <2>1. Init => contents \in [Sectors -> Blocks] /\ pc = "idle" /\ op = Nothing
    BY DEF Init
  <2> QED
    BY <2>1 DEF Card!CardInit, Card!NoCall, CardCall, CardAnswer
<1> QED
  BY <1>1, CardInvHolds, CardStep, PTL DEF Spec, CardSpec
-----------------------------------------------------------------------------
(* An absent pad. *)

\* The interrupts that may still be taken for the acknowledgement of the byte
\* under way or of a later one.
Pending == late + (IF pc = "await" THEN hasAck ELSE 0)

\* A call in which no pad was in the port: nothing is acknowledged anew, and
\* what is read is 0xFF, or nothing, while fewer and fewer interrupts are left.
PadInv ==
  pc # "idle" /\ op = "ReadPad" /\ ~present =>
    /\ plugged # "pad" /\ dcmd = Nothing /\ dpos \in {-1, 0}
    /\ Pending <= 3
    /\ pos >= 2 => rx \in {FF, Nothing} /\ Pending <= 2
    /\ pos = 2 /\ pc = "await" /\ wire = <<>> => rx = FF
    /\ pos = 3 => Pending <= 1 \/ rx = FF
    /\ pos >= 4 => Pending = 0 /\ \A i \in 1 .. Len(buffer) : buffer[i] = FF

AbsentInv == CardInv /\ PadInv /\ AbsentPadReleased

Quiet == pc # "idle" /\ op = "ReadPad" /\ ~present

LEMMA FirstTwo ==
  ASSUME NEW S, NEW s \in Seq(S), Len(s) >= 2
  PROVE  SubSeq(s, 1, 2) = <<s[1], s[2]>>
<1> DEFINE t == SubSeq(s, 1, 2)
<1>1. t \in Seq(S) /\ Len(t) = 2 /\ \A i \in 1 .. 2 : t[i] = s[i]
  BY SubSeqProperties
<1>2. <<s[1], s[2]>> \in Seq(S)
  OBVIOUS
<1> HIDE DEF t
<1>3. t = <<s[1], s[2]>>
  BY <1>1, <1>2, SeqEqual
<1> QED
  BY <1>3 DEF t

LEMMA QuietFacts ==
  ASSUME AbsentInv, Quiet
  PROVE  /\ words \in 1 .. MaxWords /\ words \in Nat \ {0} /\ pos \in 1 .. 2 * words + 3
         /\ Last <=> pos = 2 * words + 3
         /\ Kind = "hid" <=> pos = 3
         /\ hasAck \in Nat /\ late \in Nat
         /\ Len(buffer) = IF pos <= 4 THEN 0 ELSE pos - 4
         /\ buffer \in Seq(Bytes)
<1>1. words \in 1 .. MaxWords /\ pos \in 1 .. Len(Script(op, words)) /\ op = "ReadPad"
      /\ hasAck \in Nat /\ late \in Nat /\ MaxWords \in Nat
  BY SizeAssumption DEF AbsentInv, CardInv, TypeOK, Quiet
<1>2. words \in Nat \ {0}
  BY <1>1
<1> QED
  BY <1>1, <1>2, PadKinds DEF AbsentInv, CardInv, HostInv, Quiet

\* The byte handled is 0xFF, or one more interrupt has been used up.
LEMMA QuietHandle ==
  ASSUME AbsentInv, Quiet, pc \in {"await", "linger"},
         NEW b \in Bytes, NEW err \in BOOLEAN, NEW acks \in Nat, Handle(b, err, acks),
         late' = late, plugged' = plugged, rx' \in {rx, Nothing},
         pos = 1 => (Pending' <= 2 /\ rx' = Nothing) \/ pc' = "idle",
         pos = 2 => Pending' <= 1 \/ (Pending' <= 2 /\ rx' = FF),
         pos = 3 => b = FF \/ Pending' <= 0,
         pos >= 4 => b = FF
  PROVE  PadInv' /\ AbsentPadReleased'
<1>0. /\ words \in Nat \ {0} /\ pos \in 1 .. 2 * words + 3
      /\ Last <=> pos = 2 * words + 3
      /\ Kind = "hid" <=> pos = 3
      /\ hasAck \in Nat /\ late \in Nat
      /\ Len(buffer) = IF pos <= 4 THEN 0 ELSE pos - 4
      /\ buffer \in Seq(Bytes)
  BY QuietFacts
<1>1. /\ op = "ReadPad" /\ ~present /\ UNCHANGED <<op, addr, present>>
      /\ GoesOn(b, err, acks) \/ \E r \in Nat : Returns(b, err, r)
  BY Outcomes DEF AbsentInv, CardInv, Quiet, Retries, CardOps
<1>2. /\ plugged # "pad" /\ dcmd = Nothing /\ dpos \in {-1, 0}
      /\ pos >= 2 => rx \in {FF, Nothing}
      /\ pos >= 4 => Pending = 0 /\ \A i \in 1 .. Len(buffer) : buffer[i] = FF
  BY DEF AbsentInv, PadInv, Quiet
<1>3. /\ Stored(b) /\ Len(buffer') = IF pos <= 3 THEN 0 ELSE pos - 3
      /\ pos >= 4 => \A i \in 1 .. Len(buffer') : buffer'[i] = FF
  <2>1. Stored(b)
    BY <1>1 DEF GoesOn, Returns
  <2>2. Len(buffer') = IF pos <= 3 THEN 0 ELSE pos - 3
    BY <1>1, <2>1, StoredBuffer DEF AbsentInv, CardInv, Quiet
  <2>3. CASE pos >= 4
    <3>1. Kind = "data"
      BY <1>0, <1>1, <2>3, PadKinds DEF AbsentInv, CardInv, TypeOK, Quiet
    <3>2. buffer' = Append(buffer, b) /\ b = FF
      BY <1>1, <2>1, <2>3, <3>1 DEF Stored
    <3> QED
      BY <1>0, <1>2, <2>1, <2>2, <2>3, <3>2
  <2> QED
    BY <1>0, <2>1, <2>2, <2>3
<1>4. CASE GoesOn(b, err, acks)
  <2>1. /\ pc' = "put" /\ pos' = pos + 1 /\ UNCHANGED <<wire, dpos, dcmd>>
        /\ pos = 3 => b # FF
    BY <1>0, <1>1, <1>4 DEF GoesOn, GoOn, device
  <2>2. Pending' = late /\ late <= Pending
    BY <1>0, <2>1 DEF Pending
  <2>3. AbsentPadReleased'
    BY <2>1 DEF AbsentPadReleased
  <2> QED
    BY <1>0, <1>1, <1>2, <1>3, <2>1, <2>2, <2>3 DEF PadInv
<1>5. ASSUME NEW r \in Nat, Returns(b, err, r)
      PROVE  PadInv' /\ AbsentPadReleased'
  <2>1. /\ pc' = "idle" /\ buttons' = NewButtons(r) /\ (r # 0 => Last)
    BY <1>1, <1>5 DEF Returns, Return
  <2>2. NewButtons(r) = <<FF, FF>>
    <3>1. CASE r = 0
      BY <3>1 DEF NewButtons
    <3>2. CASE r # 0
      <4>1. pos = 2 * words + 3 /\ pos >= 5
        BY <1>0, <2>1, <3>2
      <4>2. buffer' \in Seq(Bytes) /\ Len(buffer') >= 2 /\ buffer'[1] = FF /\ buffer'[2] = FF
        BY <1>1, <1>3, <4>1, StoredBuffer DEF AbsentInv, CardInv, Quiet
      <4>3. SubSeq(buffer', 1, 2) = <<buffer'[1], buffer'[2]>>
        BY <4>2, FirstTwo
      <4> QED
        BY <3>2, <4>2, <4>3 DEF NewButtons
    <3> QED
      BY <3>1, <3>2
  <2> QED
    BY <2>1, <2>2 DEF PadInv, AbsentPadReleased
<1> QED
  BY <1>1, <1>4, <1>5

LEMMA QuietDriver ==
  ASSUME AbsentInv, Quiet, Acked \/ TimedOut \/ TakeLast
  PROVE  PadInv' /\ AbsentPadReleased'
<1>0. /\ words \in Nat \ {0} /\ words \in 1 .. MaxWords /\ pos \in 1 .. 2 * words + 3
      /\ Last <=> pos = 2 * words + 3
      /\ hasAck \in Nat /\ late \in Nat
  BY QuietFacts
<1>1. /\ Pending <= 3
      /\ pos >= 2 => rx \in {FF, Nothing} /\ Pending <= 2
      /\ pos = 2 /\ pc = "await" /\ wire = <<>> => rx = FF
      /\ pos = 3 => Pending <= 1 \/ rx = FF
      /\ pos >= 4 => Pending = 0
  BY DEF AbsentInv, PadInv, Quiet
<1>2. CASE Acked
  <2>1. PICK b \in Received : Handle(b, FALSE, hasAck - 1)
    BY <1>2 DEF Acked
  <2>2. /\ pc = "await" /\ hasAck > 0 /\ rx' = Nothing
        /\ UNCHANGED <<late, plugged, contents>>
    BY <1>2 DEF Acked
  <2>3. Pending = late + hasAck /\ late <= Pending - 1
    BY <1>0, <2>2 DEF Pending
  <2>5. b \in Bytes /\ hasAck - 1 \in Nat
    BY <1>0, <2>1, <2>2, ByteTypes DEF Received, AbsentInv, CardInv, TypeOK
  <2>4. pc' # "await" /\ Pending' = late
    <3>1. pc' \in {"put", "idle"}
      BY <2>1, <2>2, <2>5, Outcomes
         DEF AbsentInv, CardInv, GoesOn, GoOn, Retries, Retry, Returns, Return
    <3> QED
      BY <1>0, <2>2, <3>1 DEF Pending
  <2>6. pos < 4
    BY <1>0, <1>1, <2>2, <2>3
  <2>7. ASSUME pos = 3 PROVE b = FF \/ Pending' <= 0
    <3>1. CASE rx = FF
      <4>1. FF # Nothing
        BY ByteTypes
      <4> QED
        BY <2>1, <3>1, <4>1 DEF Received
    <3>2. CASE Pending <= 1
      BY <1>0, <2>3, <2>4, <3>2
    <3> QED
      BY <1>1, <2>7, <3>1, <3>2
  <2>8. (pos = 1 => (Pending' <= 2 /\ rx' = Nothing) \/ pc' = "idle")
    BY <1>0, <1>1, <2>2, <2>3, <2>4
  <2>9. (pos = 2 => Pending' <= 1 \/ (Pending' <= 2 /\ rx' = FF))
    BY <1>0, <1>1, <2>2, <2>3, <2>4
  <2>10. late' = late /\ plugged' = plugged /\ rx' \in {rx, Nothing} /\ pc \in {"await", "linger"}
    BY <2>2
  <2>11. PICK acks \in Nat : Handle(b, FALSE, acks)
    BY <2>1, <2>5
  <2>12. (pos = 3 => b = FF \/ Pending' <= 0) /\ (pos >= 4 => b = FF)
    BY <1>0, <2>6, <2>7
  <2>13. b \in Bytes /\ FALSE \in BOOLEAN
    BY <2>5
  <2> QED
    BY <2>8, <2>9, <2>10, <2>11, <2>12, <2>13, QuietHandle
<1>3. CASE TimedOut
  <2>1. /\ pc = "await" /\ wire = <<>> /\ Handle(FF, TRUE, hasAck)
        /\ UNCHANGED <<rx, late, plugged, contents>>
    BY <1>3 DEF TimedOut
  <2>2. FF \in Bytes
    BY ByteTypes
  <2>3. pc' \in {"put", "idle"}
    BY <2>1, <2>2, Outcomes
       DEF AbsentInv, CardInv, GoesOn, GoOn, Retries, Retry, Returns, Return
  <2>4. Pending' = late /\ late <= Pending
    BY <1>0, <2>1, <2>3 DEF Pending
  <2>5. pos = 1 => pc' = "idle"
    <3> SUFFICES ASSUME pos = 1 PROVE pc' = "idle"
      OBVIOUS
    <3>1. Kind = "select" /\ op = "ReadPad"
      BY PadKinds, <1>0 DEF Quiet, AbsentInv, CardInv, TypeOK
    <3>2. Verdict(FF, TRUE) = "fail"
      <4>1. ~Last /\ Kind # "hid" /\ Kind # "idlo" /\ Kind # "conflo"
            /\ ~Corrupt(FF) /\ ~Refused(FF)
        BY <1>0, <3>1 DEF Corrupt, Refused
      <4> QED
        BY <3>1, <4>1 DEF Verdict
    <3> QED
      BY <2>1, <3>2 DEF Handle, Return
  <2>6. (pos = 1 => (Pending' <= 2 /\ rx' = Nothing) \/ pc' = "idle")
    BY <2>5
  <2>7. (pos = 2 => Pending' <= 1 \/ (Pending' <= 2 /\ rx' = FF))
    BY <1>0, <1>1, <2>1, <2>4 DEF Pending
  <2>8. late' = late /\ plugged' = plugged /\ rx' \in {rx, Nothing} /\ pc \in {"await", "linger"}
    BY <2>1
  <2> QED
    BY <1>0, <2>1, <2>2, <2>6, <2>7, <2>8, QuietHandle
<1>4. CASE TakeLast
  <2>1. /\ pc = "linger" /\ rx' = Nothing /\ Handle(rx, FALSE, hasAck)
        /\ UNCHANGED <<late, plugged, contents>>
    BY <1>4 DEF TakeLast
  <2>2. rx # Nothing /\ pos = Len(Script(op, words)) /\ rx \in Bytes
    BY <2>1 DEF AbsentInv, CardInv, HostInv, TypeOK
  <2>3. pos >= 5 /\ rx = FF
    BY <1>0, <1>1, <2>2, PadScript DEF Quiet
  <2>4. ~(pos = 1) /\ ~(pos = 2) /\ ~(pos = 3)
    BY <1>0, <2>3
  <2>5. late' = late /\ plugged' = plugged /\ rx' \in {rx, Nothing} /\ pc \in {"await", "linger"}
    BY <2>1
  <2>6. PICK b \in Bytes : b = FF /\ Handle(b, FALSE, hasAck)
    BY <2>1, <2>2, <2>3
  <2>7. pos >= 4 => b = FF
    BY <2>6
  <2> QED
    BY <1>0, <2>4, <2>5, <2>6, <2>7, QuietHandle
<1> QED
  BY <1>2, <1>3, <1>4

\* No device answers a pad's select but a pad, and a card none of the bytes sent
\* to a pad.
LEMMA QuietExchange ==
  ASSUME AbsentInv, Quiet, Exchange
  PROVE  PadInv' /\ AbsentPadReleased'
<1>0. /\ wire # <<>> /\ UNCHANGED <<op, pc, pos, buffer, words, buttons, present, plugged>>
      /\ plugged # "pad" /\ dcmd = Nothing /\ dpos \in {-1, 0} /\ op = "ReadPad"
  BY DEF Exchange, host, AbsentInv, PadInv, Quiet
<1>1. ~(Listens /\ Understands(Head(wire)))
  <2> SUFFICES ASSUME Listens, Understands(Head(wire)) PROVE FALSE
    OBVIOUS
  <2>1. Takes = "select"
    BY <1>0 DEF Listens, Takes, Course
  <2>2. Head(wire) = Select("ReadCard")
    BY <1>0, <2>1 DEF Understands
  <2>3. wire \in Seq(Bytes) /\ Len(wire) \in Nat /\ Len(wire) >= 1
        /\ \A j \in 1 .. Len(wire) : wire[j] = PlaceByte(Exchanged + j)
    BY <1>0 DEF AbsentInv, CardInv, WireInv
  <2>4. Head(wire) = PlaceByte(Exchanged + 1)
    BY <2>3
  <2>5. PlaceByte(Exchanged + 1) \in {Select("ReadPad"), Command("ReadPad"), Zero, FF}
    <3>1. op \notin CardOps /\ op # "WriteCard"
      BY <1>0 DEF CardOps
    <3> QED
      BY <1>0, <3>1 DEF PlaceByte
  <2> QED
    BY <2>2, <2>4, <2>5, BytesApart
<1>2. /\ rx' = FF /\ dpos' \in {-1, 0}
      /\ UNCHANGED <<hasAck, late, dcmd>>
  BY <1>0, <1>1 DEF Exchange, Ignored
<1>3. Pending' = Pending
  BY <1>0, <1>2 DEF Pending
<1>4. PadInv'
  BY <1>0, <1>2, <1>3 DEF PadInv, AbsentInv, Quiet
<1> QED
  BY <1>0, <1>4 DEF AbsentPadReleased, Quiet

LEMMA AbsentOther ==
  ASSUME AbsentInv, MaxLate <= 3, Next, ~(Quiet /\ (Acked \/ TimedOut \/ TakeLast \/ Exchange))
  PROVE  PadInv' /\ AbsentPadReleased'
<1>0. hasAck \in Nat /\ late \in 0 .. MaxLate /\ MaxLate \in Nat
  BY SizeAssumption DEF AbsentInv, CardInv, TypeOK
<1>1. ASSUME NEW o \in Operations, NEW a, NEW bs, Start(o, a, bs)
      PROVE  PadInv' /\ AbsentPadReleased'
  <2>1. /\ pc = "idle" /\ pc' = "put" /\ pos' = 1 /\ present' = (plugged = "pad")
        /\ UNCHANGED <<late, plugged, dpos, dcmd>>
    BY <1>1 DEF Start, device
  <2>2. dcmd = Nothing /\ dpos \in {-1, 0}
    BY <2>1 DEF AbsentInv, CardInv, DeviceInv, IdleInv
  <2>3. Pending' <= 3
    BY <1>0, <2>1 DEF Pending
  <2>4. ~present' => plugged' # "pad"
    BY <2>1
  <2> QED
    BY <2>1, <2>2, <2>3, <2>4 DEF PadInv, AbsentPadReleased
<1>2. CASE Put
  <2>1. /\ pc = "put" /\ pc' = "await" /\ hasAck' = 0 /\ wire' # <<>>
        /\ UNCHANGED <<op, pos, buffer, present, rx, late, plugged, dpos, dcmd>>
    <3>1. wire' = Append(wire, Sends) /\ wire \in Seq(Bytes)
      BY <1>2 DEF Put, AbsentInv, CardInv, WireInv
    <3>2. Len(Append(wire, Sends)) = Len(wire) + 1 /\ Len(wire) \in Nat
      BY <3>1
    <3>3. wire' # <<>>
      BY <3>1, <3>2
    <3> QED
      BY <1>2, <3>3 DEF Put, device
  <2>2. Pending' = Pending
    BY <1>0, <2>1 DEF Pending
  <2> QED
    BY <2>1, <2>2 DEF AbsentInv, PadInv, AbsentPadReleased
<1>3. CASE Linger
  <2>1. /\ pc = "await" /\ pc' = "linger"
        /\ UNCHANGED <<op, pos, buffer, present, rx, late, hasAck, wire, plugged, dpos, dcmd>>
    BY <1>3 DEF Linger, device
  <2>2. Pending' <= Pending
    BY <1>0, <2>1 DEF Pending
  <2>3. Pending' \in Nat
    BY <1>0, <2>1 DEF Pending
  <2>4. Pending \in Nat
    BY <1>0 DEF Pending
  <2> QED
    BY <2>1, <2>2, <2>3, <2>4 DEF AbsentInv, PadInv, AbsentPadReleased
<1>4. CASE LateAck
  <2>1. /\ late' = late - 1 /\ hasAck' = hasAck + 1
        /\ UNCHANGED <<op, pc, pos, buffer, buttons, present, rx, wire, plugged, dpos, dcmd>>
    BY <1>4 DEF LateAck, host
  <2>2. Pending' <= Pending /\ Pending' \in Int /\ Pending \in Int
    BY <1>0, <2>1 DEF Pending
  <2>4. Pending' >= 0
    BY <1>0, <1>4, <2>1 DEF Pending, LateAck
  <2> QED
    BY <2>1, <2>2, <2>4 DEF AbsentInv, PadInv, AbsentPadReleased
<1>5. ASSUME NEW d \in Devices, Replug(d)
      PROVE  PadInv' /\ AbsentPadReleased'
  <2>1. /\ plugged' = d /\ present' = (present \/ d = "pad") /\ dpos' = 0 /\ dcmd' = Nothing
        /\ UNCHANGED <<op, pc, pos, buffer, buttons, hasAck, wire, rx, late>>
    BY <1>5 DEF Replug
  <2>2. Pending' = Pending
    BY <2>1 DEF Pending
  <2> QED
    BY <2>1, <2>2 DEF AbsentInv, PadInv, AbsentPadReleased
<1>6. ASSUME ~Quiet, Acked \/ TimedOut \/ TakeLast \/ Exchange
      PROVE  PadInv' /\ AbsentPadReleased'
  <2>1. UNCHANGED <<op, present>>
    <3>1. CASE Exchange
      BY <3>1 DEF Exchange, host
    <3>2. CASE Acked \/ TimedOut \/ TakeLast
      BY <3>2 DEF Acked, TimedOut, TakeLast, Handle
    <3> QED
      BY <1>6, <3>1, <3>2
  <2>2. pc # "idle"
    <3>1. CASE Exchange
      BY <3>1 DEF Exchange, AbsentInv, CardInv, IdleInv
    <3> QED
      BY <1>6, <3>1 DEF Acked, TimedOut, TakeLast
  <2> QED
    BY <1>6, <2>1, <2>2 DEF Quiet, PadInv, AbsentPadReleased
<1> QED
  BY <1>1, <1>2, <1>3, <1>4, <1>5, <1>6
     DEF Next, Calls, Driver, ReadCard, WriteCard, ReadPad, Start

LEMMA AbsentInvStep ==
  ASSUME MaxLate <= 3, AbsentInv, [Next]_vars
  PROVE  AbsentInv'
<1>1. CardInv'
  BY CardInvStep DEF AbsentInv
<1>2. CASE Next
  BY <1>1, <1>2, QuietDriver, QuietExchange, AbsentOther DEF AbsentInv
<1>3. CASE UNCHANGED vars
  <2>1. Pending' = Pending
    BY <1>3 DEF vars, host, Pending
  <2> QED
    BY <1>1, <1>3, <2>1 DEF AbsentInv, PadInv, AbsentPadReleased, vars, host, device
<1> QED
  BY <1>2, <1>3

\* With no pad in the port the buttons read as released, whatever is plugged
\* in and out, as long as no more than three interrupts are outstanding when
\* the call begins.  A fourth would be taken for the acknowledgement of a data
\* byte, and the byte for buttons.
THEOREM AbsentPadReleasedHolds ==
  ASSUME MaxLate <= 3
  PROVE  Spec => []AbsentPadReleased
<1>1. Init => AbsentInv
  BY CardInvInit, NothingAssumption DEF Init, AbsentInv, PadInv, AbsentPadReleased
<1>2. AbsentInv /\ [Next]_vars => AbsentInv'
  BY AbsentInvStep
<1>3. AbsentInv => AbsentPadReleased
  BY DEF AbsentInv
<1> QED
  BY <1>1, <1>2, <1>3, PTL DEF Spec
=============================================================================
