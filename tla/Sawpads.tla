-------------------------------- MODULE Sawpads --------------------------------
(***************************************************************************)
(* The controller and memory card driver (src/src/sawpads/sawpads.c).      *)
(*                                                                         *)
(* A transaction selects the device, exchanges bytes and deselects it.     *)
(* The device acknowledges every byte but the last by an interrupt, whose  *)
(* handler, sawpads_isr_joy, counts it in sawpads_has_ack;                 *)
(* sawpads_send clears the count, writes its byte and polls the count for  *)
(* a while.  Nothing says which byte an interrupt was for: one that comes  *)
(* late is taken for the acknowledgement of a later byte, and the driver   *)
(* and the device are then at different places of the transaction.         *)
(*                                                                         *)
(* A byte is the set of its bits, so that the checksum is the code's: the  *)
(* exclusive or of address and data.  It tells one wrong byte, not two     *)
(* that cancel, so the properties count the bytes of an attempt whose own  *)
(* answer the driver did not get (missed, own).  The devices and the port, *)
(* which holds the last byte received, are outside the repository.         *)
(***************************************************************************)
EXTENDS Integers, Sequences, FiniteSets

CONSTANTS
  SectorSize,    \* bytes of a card sector, 128 in the code
  Sectors,       \* addresses of the card's sectors, as <<high byte, low byte>>
  Blocks,        \* the blocks of data that sectors hold and callers write
  Values,        \* other bytes a device may answer
  Stale,         \* what JOY_DATA may read as when nothing was received
  MaxWords,      \* 16-bit words of the longest report of a pad, 16 in the code
  MaxLate,       \* interrupts that may be late at the same time
  Operations,    \* the calls made: ReadCard, WriteCard, ReadPad
  Devices,       \* what may be in the port: card, pad, none
  Nothing

ASSUME SizeAssumption ==
  SectorSize \in Nat \ {0} /\ MaxWords \in 1 .. 16 /\ MaxLate \in Nat
ASSUME PortAssumption ==
  /\ Operations \subseteq {"ReadCard", "WriteCard", "ReadPad"}
  /\ Devices \subseteq {"card", "pad", "none"}

VARIABLES
  op,        \* the call: ReadCard, WriteCard, ReadPad or Nothing
  pc,        \* idle, put, await or linger
  pos,       \* position in the transaction
  attempts,  \* attempts left after this one
  half,      \* the high byte of id or conf_addr between its two exchanges
  addr,      \* parameter: the sector
  buffer,    \* the caller's buffer: the bytes to write, or those read so far
  words,     \* sawpads_hwords
  ret,       \* the value the last call returned, Nothing during a call
  buttons,   \* c->buttons, as its two bytes
  present,   \* history: a pad was in the port at some time of the call
  missed,    \* history: bytes of this attempt not answered in their turn, or more
  own,       \* history: the device took the last byte exchanged in its turn
  hasAck,    \* sawpads_has_ack
  wire,      \* port: bytes written to JOY_DATA and not yet exchanged
  rx,        \* port: the last byte received and not read, or Nothing
  late,      \* interrupts that are still to come
  plugged,   \* what is in the port: card, pad or none
  dpos,      \* device: bytes taken since it was selected, -1 when it gave up
  dslow,     \* device: it has not acknowledged the last byte yet
  dcmd,      \* device: the command it executes
  daddr,     \* device: the address bytes received
  dbuf,      \* device: the data bytes received
  dgood,     \* device: the block received was right and is written
  contents   \* card: the data of every sector

host   == <<op, pc, pos, attempts, half, addr, buffer, words, ret, buttons, present, missed>>
device == <<dpos, dslow, dcmd, daddr, dbuf, dgood>>
vars   == <<host, own, hasAck, wire, rx, late, plugged, device, contents>>

-----------------------------------------------------------------------------
(* Bytes, as the sets of their bits. *)
Bytes      == SUBSET (0 .. 7)
Zero       == {}                   \* 0x00
FF         == 0 .. 7               \* 0xFF
Id1        == {1, 3, 4, 6}         \* 0x5A, the first byte of every id
CardId     == <<Id1, {0, 2, 3, 4, 6}>>   \* 0x5A5D
PadId      == {0, 6}               \* 0x41, a digital pad
Good       == {0, 1, 2, 6}         \* 0x47
Bad        == {1, 2, 3, 6}         \* 0x4E
AckBytes   == {{2, 3, 4, 6}, {0, 2, 3, 4, 6}}   \* 0x5C, 0x5D
Select(o)  == IF o = "ReadPad" THEN {0} ELSE {0, 7}   \* 0x01, 0x81
Command(o) == CASE o = "ReadCard"  -> {1, 4, 6}          \* 0x52
                [] o = "WriteCard" -> {0, 1, 2, 4, 6}    \* 0x57
                [] OTHER           -> {1, 6}             \* 0x42

\* The exclusive or of the bytes of a sequence has the bits that an odd number
\* of them have.
XorAll(bs) == {k \in 0 .. 7 : Cardinality({i \in DOMAIN bs : k \in bs[i]}) % 2 = 1}
Check(a, bs) == XorAll(a \o bs)

\* The low ten bits of a word of two bytes: & 0x3FF.
Low10(w) == <<w[1] \cap {0, 1}, w[2]>>

ASSUME ByteAssumption ==
  /\ Values \subseteq Bytes /\ Values # {} /\ Stale \subseteq Bytes /\ Stale # {}
  /\ Sectors \subseteq Bytes \X Bytes
  /\ Blocks \subseteq [1 .. SectorSize -> Bytes]
ASSUME NothingAssumption ==
  /\ Nothing \notin {"ReadCard", "WriteCard", "ReadPad"}
  /\ Nothing \notin Sectors /\ Nothing \notin Nat /\ \A b \in Bytes : b # Nothing

Block(n) == [i \in 1 .. n |-> "data"]

\* The exchanges of a transaction, w being the 16-bit words a pad announces.
Script(o, w) ==
  CASE o = "ReadCard"  -> <<"select", "cmd", "idhi", "idlo", "hi", "lo", "ack", "ack",
                            "confhi", "conflo">> \o Block(SectorSize) \o <<"check", "result">>
    [] o = "WriteCard" -> <<"select", "cmd", "idhi", "idlo", "hi", "lo">> \o Block(SectorSize)
                            \o <<"check", "ack", "ack", "result">>
    [] o = "ReadPad"   -> <<"select", "cmd", "hid">> \o Block(2 * w)

Kind == Script(op, words)[pos]
Last == pos = Len(Script(op, words))

\* The byte the driver sends; a pad gets its two rumble bytes, the motors being
\* off, and then 0xFF.
Sends ==
  CASE Kind = "select" -> Select(op)
    [] Kind = "cmd"    -> Command(op)
    [] Kind = "hi"     -> addr[1]
    [] Kind = "lo"     -> addr[2]
    [] Kind = "data"  /\ op = "WriteCard" -> buffer[pos - 6]
    [] Kind = "check" /\ op = "WriteCard" -> Check(addr, buffer)
    [] Kind = "data"  /\ op = "ReadPad" /\ pos > 5 -> FF
    [] OTHER -> Zero

\* ((id - 1) & 0x0F) + 1, an instance's longer reports cut short.
Bit(b, k) == IF k \in b THEN 1 ELSE 0
Nibble(b) == Bit(b, 0) + 2 * Bit(b, 1) + 4 * Bit(b, 2) + 8 * Bit(b, 3)
Words(b)  == IF Nibble(b) \in 1 .. MaxWords THEN Nibble(b) ELSE MaxWords

\* The sector read does not have the checksum sent with it (mutant: it is not
\* compared).
Uncompared(b) == FALSE
Corrupt(b) == Kind = "check" /\ op = "ReadCard" /\ b # Check(addr, buffer)

\* The card does not end the transaction well (mutant: only 0x4E counts).
RefusedByBad(b) == Kind = "result" /\ b = Bad
Refused(b) == Kind = "result" /\ b # Good

\* What the driver makes of the byte b: go on, give the transaction up and
\* try once more, or end the call, in failure or well.  Only the first byte's
\* timeout is ever looked at (sawpads_error), and not by a card read.
Verdict(b, err) ==
  CASE Kind = "select" /\ err /\ op # "ReadCard" -> "fail"
    [] Kind = "hid" /\ b = FF -> "fail"
    [] Kind = "idlo" /\ <<half, b>> # CardId -> IF op = "ReadCard" THEN "fail" ELSE "again"
    [] Kind = "conflo" /\ Low10(<<half, b>>) # Low10(addr) -> "again"
    [] Corrupt(b) \/ Refused(b) -> "again"
    [] Last /\ ~Refused(b) -> "good"
    [] OTHER -> "next"

(* History.  Bytes sent in this attempt, and those of them exchanged. *)
SentSoFar == CASE pc = "idle" -> 0 [] pc = "put" -> pos - 1 [] OTHER -> pos
Exchanged == SentSoFar - Len(wire)

\* The driver gets the device's answer to the byte it sent last, if it did not
\* give up waiting.
InTurn(err) == ~err /\ wire = <<>> /\ own

Several == 2   \* bound of the count: this many, or more
Counted(err) == IF InTurn(err) \/ missed = Several THEN missed ELSE missed + 1
-----------------------------------------------------------------------------
Init ==
  /\ op = Nothing /\ pc = "idle" /\ pos = 0 /\ attempts = 0 /\ half = Zero
  /\ addr = Nothing /\ buffer = <<>> /\ words = 1 /\ ret = 0
  /\ buttons = <<FF, FF>> /\ present = FALSE /\ missed = 0 /\ own = TRUE
  /\ hasAck = 0 /\ wire = <<>> /\ rx = Nothing /\ late = 0
  /\ plugged \in Devices
  /\ dpos = 0 /\ dslow = FALSE /\ dcmd = Nothing /\ daddr = <<>>
  /\ dbuf = <<>> /\ dgood = FALSE
  /\ contents \in [Sectors -> Blocks]

(* The driver. *)

Start(o, a, bs) ==
  /\ pc = "idle"
  /\ o \in Operations
  /\ op' = o /\ pc' = "put" /\ pos' = 1
  /\ attempts' = IF o = "ReadPad" THEN 0 ELSE 2
  /\ addr' = a /\ buffer' = bs /\ words' = 1 /\ ret' = Nothing
  /\ present' = (plugged = "pad")
  /\ missed' = 0 /\ own' = TRUE
  /\ UNCHANGED <<half, buttons, hasAck, wire, rx, late, plugged, device, contents>>

ReadCard(a)      == Start("ReadCard", a, <<>>)
WriteCard(a, bs) == Start("WriteCard", a, bs)
ReadPad          == Start("ReadPad", Nothing, <<>>)

\* sawpads_send clears the flags and writes the byte.
Put ==
  /\ pc = "put"
  /\ pc' = "await"
  /\ hasAck' = 0
  /\ wire' = Append(wire, Sends)
  /\ UNCHANGED <<op, pos, attempts, half, addr, buffer, words, ret, buttons, present>>
  /\ UNCHANGED <<missed, own, rx, late, plugged, device, contents>>

\* sawpads_stop_read: the device is deselected and the line settles.
StopRead ==
  /\ hasAck' = 0
  /\ wire' = <<>>
  /\ dpos' = 0 /\ dslow' = FALSE /\ dcmd' = Nothing /\ daddr' = <<>>
  /\ dbuf' = <<>> /\ dgood' = FALSE

GoOn(err, acks) ==
  /\ pc' = "put" /\ pos' = pos + 1
  /\ hasAck' = acks
  /\ missed' = Counted(err)
  /\ UNCHANGED <<attempts, ret, buttons, own, wire, device>>


Retry ==
  /\ StopRead
  /\ pc' = "put" /\ pos' = 1
  /\ attempts' = attempts - 1
  /\ missed' = 0 /\ own' = TRUE
  /\ UNCHANGED <<ret, buttons>>

\* do_read_controller makes the buttons of what read_words returned (mutant:
\* it leaves those of the last call when no pad answered).
ButtonsKept(r) == IF r = 0 THEN buttons ELSE SubSeq(buffer', 1, 2)
NewButtons(r)  == IF r = 0 THEN <<FF, FF>> ELSE SubSeq(buffer', 1, 2)

Return(r, err) ==
  /\ StopRead
  /\ pc' = "idle" /\ pos' = 0
  /\ ret' = r
  /\ missed' = Counted(err) /\ own' = InTurn(err)
  /\ buttons' = IF op = "ReadPad" THEN NewButtons(r) ELSE buttons
  /\ UNCHANGED attempts

\* while ((--attempts) >= 0); the mutant runs it once too often.
OnceTooOften == attempts >= 0
TriesLeft == attempts > 0

\* sawpads_send has returned b; acks is what is left of sawpads_has_ack.
Handle(b, err, acks) ==
  LET v == Verdict(b, err)
      more == v = "again" /\ TriesLeft
  IN /\ buffer' = CASE op # "WriteCard" /\ Kind = "data" -> Append(buffer, b)
                    [] op = "ReadCard" /\ more -> <<>>
                    [] OTHER -> buffer
     /\ words' = IF op = "ReadPad" /\ Kind = "cmd" THEN Words(b) ELSE words
     /\ half' = IF Kind \in {"idhi", "confhi"} THEN b ELSE Zero
     /\ CASE v = "next" -> GoOn(err, acks)
          [] more -> Retry
          [] v = "good" -> Return(IF op = "ReadPad" THEN words ELSE SectorSize, err)
          [] OTHER -> Return(0, err)
     /\ UNCHANGED <<op, addr, present>>

Received == IF rx = Nothing THEN Stale ELSE {rx}

\* The poll finds an interrupt counted, whichever byte it was for.
Acked ==
  /\ pc = "await" /\ ~Last
  /\ hasAck > 0
  /\ rx' = Nothing
  /\ \E b \in Received : Handle(b, FALSE, hasAck - 1)
  /\ UNCHANGED <<late, plugged, contents>>

\* The poll gives up; it lasts longer than an exchange.  What the exchange
\* brought is not read.
TimedOut ==
  /\ pc = "await"
  /\ wire = <<>>
  /\ IF Last THEN rx = Nothing ELSE hasAck = 0
  /\ Handle(FF, TRUE, hasAck)
  /\ UNCHANGED <<rx, late, plugged, contents>>

\* The last byte: the poll finds a byte received, waits some more, reads it.
Linger ==
  /\ pc = "await" /\ Last
  /\ rx # Nothing
  /\ pc' = "linger"
  /\ UNCHANGED <<op, pos, attempts, half, addr, buffer, words, ret, buttons, present>>
  /\ UNCHANGED <<missed, own, hasAck, wire, rx, late, plugged, device, contents>>

TakeLast ==
  /\ pc = "linger"
  /\ rx' = Nothing
  /\ Handle(rx, FALSE, hasAck)
  /\ UNCHANGED <<late, plugged, contents>>

(* The devices. *)

Course == IF dcmd = Nothing THEN <<"select", "cmd">> ELSE Script(dcmd, 1)
Takes  == Course[dpos + 1]

\* The command a byte gives to what is plugged in.
Executed(b) ==
  {o \in IF plugged = "pad" THEN {"ReadPad"} ELSE {"ReadCard", "WriteCard"} : b = Command(o)}

Understands(b) ==
  CASE Takes = "select" -> b = Select(IF plugged = "pad" THEN "ReadPad" ELSE "ReadCard")
    [] Takes = "cmd"    -> Executed(b) # {}
    [] Takes = "lo"     -> Append(daddr, b) \in Sectors
    [] OTHER            -> TRUE

\* What the device answers while it takes its next byte; anything in the
\* places of the bytes it is given.
Answers ==
  CASE Takes = "select" -> {FF}
    [] Takes = "cmd"    -> {IF plugged = "pad" THEN PadId ELSE Zero}
    [] Takes \in {"idhi", "hid"} -> {Id1}
    [] Takes = "idlo"   -> {CardId[2]}
    [] Takes = "ack"    -> AckBytes
    [] Takes = "confhi" -> {daddr[1]}
    [] Takes = "conflo" -> {daddr[2]}
    [] Takes = "data"  /\ dcmd = "ReadCard" -> {contents[daddr][dpos - 9]}
    [] Takes = "check" /\ dcmd = "ReadCard" -> {Check(daddr, contents[daddr])}
    [] Takes = "result" -> IF dcmd = "ReadCard" \/ dgood THEN {Good} ELSE {Bad, FF}
    [] OTHER -> Values

Listens == plugged # "none" /\ ~dslow /\ dpos >= 0 /\ dpos < Len(Course)

\* Nobody answers; a device that cannot make sense of a byte keeps silent
\* until it is selected anew.
Ignored(b) ==
  /\ rx' = FF
  /\ dpos' = IF Listens THEN -1 ELSE dpos
  /\ UNCHANGED <<hasAck, late, dslow, dcmd, daddr, dbuf, dgood, contents>>

\* The acknowledgement, at once or late: the device is slow, and deaf until
\* it has given it.
Acknowledge ==
  \/ /\ hasAck' = hasAck + 1
     /\ UNCHANGED <<late, dslow>>
  \/ /\ late < MaxLate
     /\ late' = late + 1 /\ dslow' = TRUE
     /\ UNCHANGED hasAck

\* A card may refuse a block although its checksum is right.
Taken(b) ==
  /\ rx' \in Answers
  /\ dpos' = dpos + 1
  /\ dcmd' \in IF Takes = "cmd" THEN Executed(b) ELSE {dcmd}
  /\ daddr' = IF Takes \in {"hi", "lo"} THEN Append(daddr, b) ELSE daddr
  /\ dbuf' = IF Takes = "data" /\ dcmd = "WriteCard" THEN Append(dbuf, b) ELSE dbuf
  /\ IF Takes = "check" /\ dcmd = "WriteCard"
     THEN dgood' \in {FALSE, b = Check(daddr, dbuf)}
     ELSE dgood' = dgood
  /\ contents' = IF Takes = "check" /\ dcmd = "WriteCard" /\ dgood'
                 THEN [contents EXCEPT ![daddr] = dbuf] ELSE contents
  /\ IF dcmd' # Nothing /\ dpos' = Len(Script(dcmd', 1))
     THEN UNCHANGED <<hasAck, late, dslow>>
     ELSE Acknowledge

\* A byte is exchanged.
Exchange ==
  /\ wire # <<>>
  /\ wire' = Tail(wire)
  /\ IF Listens /\ Understands(Head(wire)) THEN Taken(Head(wire)) ELSE Ignored(Head(wire))
  /\ UNCHANGED <<host, plugged>>
  /\ own' = (dpos' = Exchanged + 1)

\* sawpads_isr_joy runs for an interrupt that was late.
LateAck ==
  /\ late > 0
  /\ late' = late - 1
  /\ hasAck' = hasAck + 1
  /\ dslow' = FALSE
  /\ UNCHANGED <<host, own, wire, rx, plugged, dpos, dcmd, daddr, dbuf, dgood, contents>>

\* The user pulls the plug, or puts another one in.
Replug(d) ==
  /\ plugged # d
  /\ plugged' = d
  /\ present' = (present \/ d = "pad")
  /\ dpos' = 0 /\ dslow' = FALSE /\ dcmd' = Nothing /\ daddr' = <<>>
  /\ dbuf' = <<>> /\ dgood' = FALSE
  /\ UNCHANGED <<op, pc, pos, attempts, half, addr, buffer, words, ret, buttons>>
  /\ UNCHANGED <<missed, own, hasAck, wire, rx, late, contents>>
-----------------------------------------------------------------------------
Calls ==
  \/ \E a \in Sectors : ReadCard(a)
  \/ \E a \in Sectors, bs \in Blocks : WriteCard(a, bs)
  \/ ReadPad

Driver == Put \/ Acked \/ TimedOut \/ Linger \/ TakeLast

Next ==
  \/ Calls
  \/ Driver
  \/ Exchange
  \/ LateAck
  \/ \E d \in Devices : Replug(d)

\* The code runs on and the port shifts its bytes; nothing is asked of the
\* devices, which may be late or pulled out at any time.
Fairness == WF_vars(Driver) /\ WF_vars(Exchange)

Spec == Init /\ [][Next]_vars /\ Fairness
-----------------------------------------------------------------------------
(***************************************************************************)
(* Properties                                                              *)
(***************************************************************************)
\* The types of the variables: in particular the driver never leaves its
\* script, sends nothing after the last byte and gives up after 3 attempts.
TypeOK ==
  /\ op \in Operations \cup {Nothing}
  /\ pc \in {"idle", "put", "await", "linger"}
  /\ pc # "idle" => pos \in 1 .. Len(Script(op, words))
  /\ attempts \in 0 .. 2
  /\ half \in Bytes
  /\ addr \in Sectors \cup {Nothing}
  /\ Len(buffer) <= IF op = "ReadPad" THEN 2 * MaxWords ELSE SectorSize
  /\ words \in 1 .. MaxWords
  /\ (ret = Nothing) = (pc # "idle")
  /\ missed \in 0 .. Several /\ own \in BOOLEAN
  /\ rx \in {Nothing} \cup Bytes
  /\ hasAck \in Nat /\ late \in 0 .. MaxLate
  /\ plugged \in Devices
  /\ contents \in [Sectors -> [1 .. SectorSize -> Bytes]]

Succeeded == pc = "idle" /\ op \in {"ReadCard", "WriteCard"} /\ ret = SectorSize

\* A card's call that reports success leaves the sector's contents and the
\* caller's buffer equal: a read has put the one into the other, a write the
\* other into the one.  No single byte of the attempt, whichever it was, whose
\* answer timed out, was acknowledged in place of another, came from nobody or
\* never came makes a success false; and a write whose result is the card's
\* own has been written, whatever happened to the bytes before.
SuccessIsTrue ==
  Succeeded /\ (missed <= 1 \/ (op = "WriteCard" /\ own)) => contents[addr] = buffer

\* Bytes of this attempt not answered in their turn, the one under way
\* included.
Amiss ==
  missed + (IF pc \in {"await", "linger"} /\ wire = <<>> /\ ~own THEN 1 ELSE 0)

\* The driver implements a store of sectors, as long as no more than one byte
\* of an attempt goes amiss, and again in the next attempt or call when more
\* did: what the device makes of a byte that reaches it out of step, or of an
\* attempt that is given up and made again, never changes a sector but the one
\* being written, and that one only to the block being written.
CardCall ==
  IF pc = "idle" \/ op = "ReadPad" THEN <<>>
  ELSE IF op = "ReadCard" THEN <<op, addr>> ELSE <<op, addr, buffer>>
CardAnswer ==
  IF pc # "idle" \/ op \in {"ReadPad", Nothing} THEN Nothing
  ELSE IF ret = SectorSize THEN buffer ELSE <<>>
Card == INSTANCE MemoryCard WITH call <- CardCall, answer <- CardAnswer
CardSpec == Card!CardInit /\ [][Card!CardNext \/ Amiss' > 1]_(Card!cardVars)

\* With no pad in the port during the whole call the buttons are reported
\* released, even when a late interrupt acknowledged a byte nobody took.
AbsentPadReleased ==
  pc = "idle" /\ op = "ReadPad" /\ ~present => buttons = <<FF, FF>>

\* Every call returns, whatever the device does.
CallsReturn == (pc # "idle") ~> (pc = "idle")
=============================================================================
