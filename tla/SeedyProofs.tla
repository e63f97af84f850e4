------------------------------ MODULE SeedyProofs ------------------------------
(***************************************************************************)
(* Theorems about the CD-ROM driver, for any disc, buffer and sector size, *)
(* any calls in any order, and a program of any speed.                     *)
(***************************************************************************)
EXTENDS Seedy, TLAPS

\* Which call sends which command, and when.
LEMMA Scripts ==
  ASSUME NEW c \in AllCalls, NEW n \in 1 .. Len(Script(c))
  PROVE  /\ Script(c)[n] \in Commands
         /\ Len(Script(c)) \in Nat
         /\ c = "ReadData" => Len(Script(c)) = 5
         /\ c = "InitCdrom" => Len(Script(c)) = 4
         /\ c = "ReadXa" => Script(c)[n] # "Init"
         /\ Script(c)[n] = "ReadN" <=> c = "ReadData" /\ n = 4
         /\ Script(c)[n] = "ReadS" <=> c = "ReadXa" /\ n = 5
         /\ Script(c)[n] = "SetLoc" <=> (c = "ReadData" /\ n = 3) \/ (c = "ReadXa" /\ n = 4)
         /\ Script(c)[n] = "SetMode" <=> (c = "ReadData" /\ n = 1) \/ (c = "ReadXa" /\ n = 2)
         /\ Script(c)[n] = "Pause" <=> (c = "ReadData" /\ n = 5) \/ (c = "StopXa" /\ n = 1)
<1>1. CASE c = "InitCdrom"
  BY <1>1 DEF Script, Commands
<1>2. CASE c = "ReadData"
  BY <1>2 DEF Script, Commands
<1>3. CASE c = "ReadXa"
  BY <1>3 DEF Script, Commands
<1>4. CASE c \in {"StopXa", "DriveStart", "DriveStop"}
  BY <1>4 DEF Script, Commands
<1> QED
  BY <1>1, <1>2, <1>3, <1>4 DEF AllCalls

LEMMA ScriptsNonEmpty == \A c \in AllCalls : Len(Script(c)) \in Nat \ {0}
<1> QED
  BY DEF AllCalls, Script
-----------------------------------------------------------------------------
(* The buffer. *)

\* Where the driver can be.
Place ==
  /\ pc \in {"idle", "send", "clear", "wait", "ack", "copy"}
  /\ pc = "idle" => call = None
  /\ pc # "idle" => call \in AllCalls /\ at \in 1 .. Len(Script(call))
  /\ pc = "copy" => call = "ReadData" /\ at = 4

\* The sectors left to copy are those that the rest of the buffer needs.
Room ==
  /\ size \in Nat /\ bufpos \in Nat /\ bufpos <= size
  /\ pc # "idle" => reps = Reps(size - bufpos)
  /\ call = "ReadData" /\ at = 5 => bufpos = size

BufferInv == Place /\ Room

LEMMA Division ==
  ASSUME NEW n \in Nat, NEW d \in Nat \ {0}
  PROVE  /\ n \div d \in Nat /\ n % d \in 0 .. d - 1
         /\ n = d * (n \div d) + (n % d)
  OBVIOUS

\* One sector less is left when a sector, or what fits of it, is stored.
LEMMA RepsCount ==
  ASSUME NEW n \in Nat
  PROVE  /\ Reps(n) \in Nat
         /\ Reps(n) = 0 <=> n = 0
         /\ n >= SecSize => Reps(n - SecSize) = Reps(n) - 1
         /\ n > 0 /\ n < SecSize => Reps(n) = 1
<1> DEFINE m == n + SecSize - 1
<1>1. SecSize \in Nat \ {0} /\ m \in Nat
  BY SizesAssumption
<1>2. /\ m \div SecSize \in Nat /\ m % SecSize \in 0 .. SecSize - 1
      /\ m = SecSize * (m \div SecSize) + (m % SecSize)
  BY <1>1, Division
<1>3. Reps(n) = m \div SecSize
  BY DEF Reps
<1>4. Reps(n) = 0 <=> n = 0
  <2>1. CASE n = 0
    BY <1>1, <1>2, <1>3, <2>1
  <2>2. CASE n > 0
    BY <1>1, <1>2, <1>3, <2>2
  <2> QED
    BY <2>1, <2>2
<1>5. ASSUME n >= SecSize PROVE Reps(n - SecSize) = Reps(n) - 1
  <2>1. Reps(n - SecSize) = (m - SecSize) \div SecSize
    BY <1>1 DEF Reps
  <2>2. (m - SecSize) \div SecSize = m \div SecSize - 1
    BY <1>1, <1>5
  <2> QED
    BY <1>3, <2>1, <2>2
<1>6. ASSUME n > 0, n < SecSize PROVE Reps(n) = 1
  BY <1>1, <1>2, <1>3, <1>6
<1> QED
  BY <1>2, <1>3, <1>4, <1>5, <1>6

LEMMA BufferInit == Init => BufferInv
<1>1. Reps(0) = 0
  BY RepsCount
<1> QED
  BY <1>1, NoneAssumption DEF Init, BufferInv, Place, Room, AllCalls

LEMMA NextCommandKeepsBuffer ==
  ASSUME BufferInv, pc # "idle", NextCommand, at = 4 /\ call = "ReadData" => reps = 0
  PROVE  BufferInv'
<1>1. CASE at < Len(Script(call))
  <2>1. bufpos' = bufpos /\ size' = size /\ reps' = reps /\ call' = call
        /\ at' = at + 1 /\ pc' = "send"
    BY <1>1 DEF NextCommand
  <2>2. call \in AllCalls /\ at \in 1 .. Len(Script(call)) /\ Len(Script(call)) \in Nat
    BY ScriptsNonEmpty DEF BufferInv, Place
  <2>3. at = 4 /\ call = "ReadData" => bufpos = size
    <3>1. size - bufpos \in Nat
      BY DEF BufferInv, Room
    <3> QED
      BY <3>1, RepsCount DEF BufferInv, Room
  <2> QED
    BY <1>1, <2>1, <2>2, <2>3 DEF BufferInv, Place, Room
<1>2. CASE ~(at < Len(Script(call)))
  BY <1>2, NoneAssumption, RepsCount DEF NextCommand, Return, BufferInv, Place, Room, AllCalls
<1> QED
  BY <1>1, <1>2

LEMMA CopyKeepsBuffer ==
  ASSUME BufferInv, CopySector
  PROVE  BufferInv'
<1> DEFINE room == size - bufpos
<1>1. room \in Nat /\ reps = Reps(room) /\ reps > 0 /\ SecSize \in Nat \ {0}
  BY SizesAssumption DEF BufferInv, Room, CopySector
<1>2. room # 0
  BY <1>1, RepsCount
<1>3. Stored \in Nat /\ Stored <= room /\ Reps(room - Stored) = reps - 1
  <2>1. CASE room < SecSize
    <3>1. Stored = room
      BY <1>1, <1>2, <2>1 DEF Stored
    <3>2. Reps(0) = 0 /\ Reps(room) = 1
      BY <1>1, <1>2, <2>1, RepsCount
    <3> QED
      BY <1>1, <3>1, <3>2
  <2>2. CASE room >= SecSize
    <3>1. Stored = SecSize
      BY <1>1, <1>2, <2>2 DEF Stored
    <3> QED
      BY <1>1, <2>2, <3>1, RepsCount
  <2> QED
    BY <1>1, <2>1, <2>2
<1>4. size' - bufpos' = room - Stored
  BY <1>1, <1>3 DEF CopySector, BufferInv, Room
<1>5. Room'
  BY <1>1, <1>3, <1>4 DEF CopySector, BufferInv, Place, Room
<1>6. Place'
  BY DEF CopySector, BufferInv, Place
<1> QED
  BY <1>5, <1>6 DEF BufferInv

LEMMA BufferStep == BufferInv /\ [Next]_vars => BufferInv'
<1> SUFFICES ASSUME BufferInv, [Next]_vars PROVE BufferInv'
  OBVIOUS
<1>1. ASSUME NEW c \in Calls, Call(c) PROVE BufferInv'
  <2>1. c \in AllCalls /\ Len(Script(c)) \in Nat \ {0}
    BY CallsAssumption, ScriptsNonEmpty
  <2>2. size' \in Sizes \/ size' = 0
    BY <1>1 DEF Call
  <2>3. size' \in Nat
    <3>1. \A n \in Sizes : n \in Nat
      BY SizesAssumption
    <3> QED
      BY <2>2, <3>1
  <2> QED
    BY <1>1, <2>1, <2>3 DEF Call, BufferInv, Place, Room
<1>2. ASSUME Return PROVE BufferInv'
  BY <1>2, NoneAssumption, RepsCount DEF Return, BufferInv, Place, Room, AllCalls
<1>3. ASSUME call' = call, at' = at, size' = size, bufpos' = bufpos, reps' = reps,
             pc # "idle", pc' \in {"clear", "wait", "ack"}
      PROVE  BufferInv'
  BY <1>3 DEF BufferInv, Place, Room
<1>4. CASE Send \/ PollClear \/ PollTake
  BY <1>2, <1>3, <1>4 DEF Send, PollClear, PollTake
<1>5. CASE AckMain
  <2>1. CASE WaitsForMore /\ pc' = "clear" /\ UNCHANGED <<call, at, size, bufpos, reps>>
    BY <1>3, <1>5, <2>1 DEF AckMain
  <2>2. CASE Cmd = "ReadN" /\ pc' = "copy" /\ UNCHANGED <<call, at, size, bufpos, reps>>
    <3>1. call = "ReadData" /\ at = 4
      BY <1>5, <2>2, Scripts DEF AckMain, BufferInv, Place, Cmd
    <3> QED
      BY <1>5, <2>2, <3>1 DEF AckMain, BufferInv, Place, Room
  <2>3. CASE Cmd # "ReadN" /\ NextCommand
    <3>1. ~(call = "ReadData" /\ at = 4)
      BY <1>5, <2>3, Scripts DEF AckMain, BufferInv, Place, Cmd
    <3> QED
      BY <1>5, <2>3, <3>1, NextCommandKeepsBuffer DEF AckMain
  <2> QED
    BY <1>2, <1>5, <2>1, <2>2, <2>3 DEF AckMain
<1>6. CASE CopySector
  BY <1>6, CopyKeepsBuffer
<1>7. CASE CopyDone
  BY <1>7, NextCommandKeepsBuffer DEF CopyDone
<1>8. ASSUME UNCHANGED driver PROVE BufferInv'
  BY <1>8 DEF driver, BufferInv, Place, Room
<1>9. CASE Drive
  BY <1>8, <1>9 DEF Drive, Accept, Refuse, Complete, Sector, SectorLost, ReadError
<1>10. CASE UNCHANGED vars
  BY <1>8, <1>10 DEF vars
<1> QED
  BY <1>1, <1>4, <1>5, <1>6, <1>7, <1>9, <1>10 DEF Next, Driver

\* For every size of buffer and sector seedy_read_data_sync stores nothing past
\* the end of the buffer, and pauses when it is full.
THEOREM BufferExactHolds == Spec => []BufferExact
<1>1. BufferInv => BufferExact
  <2> SUFFICES ASSUME BufferInv, call = "ReadData", Cmd = "Pause" PROVE bufpos = size
    BY DEF BufferInv, Room, BufferExact
  <2>1. pc # "idle"
    BY NoneAssumption DEF BufferInv, Place, AllCalls
  <2>2. at = 5
    BY <2>1, Scripts DEF BufferInv, Place, Cmd
  <2> QED
    BY <2>2 DEF BufferInv, Room
<1> QED
  BY <1>1, BufferInit, BufferStep, PTL DEF Spec
-----------------------------------------------------------------------------
(***************************************************************************)
(* The answers.  In a call that began with no answer outstanding, all that *)
(* the drive still owes, has latched or has just given is the present      *)
(* command's, and once the code goes on nothing is left of it, but for the *)
(* sectors of a read that is about to be paused.                           *)
(***************************************************************************)
Outstanding ==
  /\ pc = "send" => first = None /\ later = {}
  /\ pc # "send" =>
       /\ first \in {None, Cmd}
       /\ first # None =>
            latched = None /\ later = {} /\ taken = 0 /\ pc \in {"clear", "wait"}
       /\ later \subseteq {Cmd} \cap TwoAnswers
       /\ latched # None =>
            /\ latched.cmd = Cmd
            /\ latched.int # 3 => later = {}
            /\ taken >= 1 /\ Cmd \in TwoAnswers => latched.int # 3
  /\ pc = "ack" =>
       /\ got.cmd = Cmd
       /\ got.int # 3 => later = {}
       /\ taken >= 2 /\ Cmd \in TwoAnswers => got.int # 3

\* When sectors come, and where they go.
Playing ==
  /\ reading => \/ Cmd = "ReadN" /\ pc # "send" /\ first = None
                \/ call = "ReadData" /\ at = 5 /\ (pc = "send" \/ first = "Pause")
                \/ Cmd = "ReadS"
  /\ call = "ReadXa" /\ (at > 2 \/ (at = 2 /\ pc # "send" /\ first = None)) => xa

Counted == taken \in Nat /\ (pc = "send" => taken = 0) /\ (pc \in {"ack", "copy"} => taken >= 1)

OwnInv == Place /\ Counted /\ (clean /\ pc # "idle" => Outstanding /\ Playing)

\* What the theorems below assume of the drive: it completes no sector while it
\* accepts a Pause, and refuses neither that, nor a mode, nor a location.
Obedient == PromptPause /\ Refusable \cap {"SetMode", "SetLoc", "Pause"} = {}

LEMMA CmdFacts ==
  ASSUME Place, pc # "idle"
  PROVE  /\ Cmd \in Commands /\ Cmd # None
         /\ call = "ReadXa" => Cmd # "Init"
         /\ Cmd = "ReadN" <=> call = "ReadData" /\ at = 4
         /\ Cmd = "ReadS" <=> call = "ReadXa" /\ at = 5
         /\ Cmd = "SetMode" => (call = "ReadData" /\ at = 1) \/ (call = "ReadXa" /\ at = 2)
         /\ call = "ReadXa" /\ at = 2 => Cmd = "SetMode"
         /\ call = "ReadData" /\ at = 5 => Cmd = "Pause"
         /\ Cmd = "Pause" => (call = "ReadData" /\ at = 5) \/ (call = "StopXa" /\ at = 1)
         /\ at \in Nat /\ at >= 1
<1>1. call \in AllCalls /\ at \in 1 .. Len(Script(call)) /\ Len(Script(call)) \in Nat
  BY ScriptsNonEmpty DEF Place
<1> QED
  BY <1>1, Scripts, NoneAssumption DEF Cmd

\* A step of the drive in such a call.  Place and Counted are the driver's.
LEMMA AcceptKeepsOwn ==
  ASSUME OwnInv, Obedient, clean, pc # "idle", Accept
  PROVE  Outstanding' /\ Playing'
<1>1. Outstanding /\ Playing /\ Place
  BY DEF OwnInv
<1>2. first = Cmd /\ latched = None /\ later = {} /\ taken = 0 /\ pc \in {"clear", "wait"}
  BY <1>1 DEF Accept, Outstanding
<1>3. /\ pc' = pc /\ call' = call /\ at' = at /\ taken' = taken /\ Cmd' = Cmd
      /\ first' = None /\ latched'.cmd = Cmd /\ latched'.int = 3
      /\ later' = {Cmd} \cap TwoAnswers
  BY <1>2 DEF Accept, driver, Cmd, Answer
<1>4. Outstanding'
  BY <1>2, <1>3 DEF Outstanding
<1>5. reading' => Cmd \in {"ReadN", "ReadS"}
  BY <1>1, <1>2, CmdFacts DEF Accept, Playing, TwoAnswers
<1>6. ASSUME call = "ReadXa", at >= 2 PROVE xa'
  <2>1. Cmd # "Init"
    BY <1>1, <1>2, <1>6, CmdFacts
  <2>2. CASE Cmd = "SetMode"
    BY <1>2, <1>6, <2>2 DEF Accept
  <2>3. CASE Cmd # "SetMode"
    <3>1. xa /\ xa' = xa
      BY <1>1, <1>2, <1>6, <2>1, <2>3, CmdFacts DEF Accept, Playing
    <3> QED
      BY <3>1
  <2> QED
    BY <2>2, <2>3
<1> QED
  BY <1>1, <1>2, <1>3, <1>4, <1>5, <1>6, CmdFacts DEF Playing

LEMMA RefuseKeepsOwn ==
  ASSUME OwnInv, Obedient, clean, pc # "idle", Refuse
  PROVE  Outstanding' /\ Playing'
<1>1. Outstanding /\ Playing /\ Place
  BY DEF OwnInv
<1>2. first = Cmd /\ latched = None /\ later = {} /\ taken = 0 /\ pc \in {"clear", "wait"}
  BY <1>1, CallsAssumption, NoneAssumption DEF Refuse, Outstanding
<1>3. /\ pc' = pc /\ call' = call /\ at' = at /\ taken' = taken /\ Cmd' = Cmd
      /\ first' = None /\ latched'.cmd = Cmd /\ latched'.int = 5
      /\ later' = {} /\ reading' = reading /\ xa' = xa
  BY <1>2 DEF Refuse, driver, Cmd, Answer
<1>4. Cmd \notin {"SetMode", "Pause"}
  BY <1>2 DEF Refuse, Obedient
<1>5. Outstanding'
  BY <1>2, <1>3 DEF Outstanding
<1> QED
  BY <1>1, <1>2, <1>3, <1>4, <1>5, CmdFacts DEF Playing

LEMMA CompleteKeepsOwn ==
  ASSUME OwnInv, clean, pc # "idle", NEW cmd \in TwoAnswers, Complete(cmd)
  PROVE  Outstanding' /\ Playing'
<1>1. Outstanding /\ Playing /\ Place
  BY DEF OwnInv
<1>2. pc # "send" /\ cmd = Cmd /\ later = {Cmd} /\ first = None
  BY <1>1 DEF Complete, Outstanding
<1>3. /\ UNCHANGED <<pc, call, at, taken, got, first, reading, xa>> /\ Cmd' = Cmd
      /\ latched'.cmd = Cmd /\ latched'.int = 2 /\ later' = {}
  BY <1>2 DEF Complete, driver, Cmd, Answer
<1> QED
  BY <1>1, <1>2, <1>3 DEF Outstanding, Playing

\* A sector, or a failing read, answers ReadN; none comes while a Pause is
\* being accepted.
LEMMA SectorKeepsOwn ==
  ASSUME OwnInv, Obedient, clean, pc # "idle", Sector \/ SectorLost \/ ReadError
  PROVE  Outstanding' /\ Playing'
<1>1. Outstanding /\ Playing /\ Place /\ Sectors
  BY DEF OwnInv, Sector, SectorLost, ReadError
<1>2. UNCHANGED <<pc, call, at, taken, got, first, later, xa>> /\ Cmd' = Cmd
  BY DEF Sector, SectorLost, ReadError, driver, Cmd
<1>3. reading' => reading
  BY DEF Sector, SectorLost, ReadError, Sectors
<1>4. Playing'
  BY <1>1, <1>2, <1>3 DEF Playing
<1>5. CASE pc = "send"
  BY <1>1, <1>2, <1>4, <1>5 DEF Outstanding
<1>6. CASE pc # "send"
  <2>1. Cmd = "ReadN" /\ first = None
    BY <1>1, <1>6, CmdFacts DEF Sectors, Playing, Obedient
  <2>2. Cmd \notin TwoAnswers
    BY <2>1 DEF TwoAnswers
  <2>3. latched' = latched \/ (latched'.cmd = Cmd)
    BY <2>1 DEF Sector, SectorLost, ReadError, Answer
  <2> QED
    BY <1>1, <1>2, <1>4, <1>6, <2>1, <2>2, <2>3 DEF Outstanding
<1> QED
  BY <1>5, <1>6

\* The steps of the driver.  Only the last one to take an answer goes on.
LEMMA NextCommandKeepsOwn ==
  ASSUME Place, pc # "idle", NextCommand, first' = None, later' = {}, reading' = reading,
         xa' = xa, reading => call = "ReadData" /\ at = 4,
         call = "ReadXa" /\ at >= 2 => xa
  PROVE  pc' # "idle" => Outstanding' /\ Playing'
<1> SUFFICES ASSUME pc' # "idle" PROVE Outstanding' /\ Playing'
  OBVIOUS
<1>1. pc' = "send" /\ call' = call /\ at' = at + 1
  BY DEF NextCommand, Return
<1> QED
  BY <1>1, CmdFacts DEF Outstanding, Playing

LEMMA DriverKeepsOwn ==
  ASSUME OwnInv, Obedient, clean, pc # "idle", Driver
  PROVE  pc' # "idle" => Outstanding' /\ Playing'
<1> SUFFICES ASSUME pc' # "idle" PROVE Outstanding' /\ Playing'
  OBVIOUS
<1>1. Outstanding /\ Playing /\ Place /\ Counted
  BY DEF OwnInv
<1>2. CASE Send
  <2>1. /\ first' = Cmd /\ latched' = None /\ pc' = "clear"
        /\ UNCHANGED <<call, at, taken, later, reading, xa>> /\ Cmd' = Cmd
    BY <1>2 DEF Send, Return, Cmd
  <2>2. taken = 0 /\ later = {} /\ first = None
    BY <1>1, <1>2 DEF Send, Outstanding, Counted
  <2>3. Outstanding'
    BY <2>1, <2>2 DEF Outstanding
  <2>4. Playing'
    BY <1>1, <1>2, <2>1, <2>2, CmdFacts DEF Send, Playing
  <2> QED
    BY <2>3, <2>4
<1>3. CASE PollClear
  <2>1. /\ latched' = None /\ pc' = "wait" /\ pc = "clear"
        /\ UNCHANGED <<call, at, taken, first, later, reading, xa>> /\ Cmd' = Cmd
    BY <1>3 DEF PollClear, Cmd
  <2> QED
    BY <1>1, <2>1 DEF Outstanding, Playing
<1>4. CASE PollTake
  <2>1. /\ latched # None /\ got' = latched /\ latched' = None /\ pc' = "ack" /\ pc = "wait"
        /\ taken' = taken + 1
        /\ UNCHANGED <<call, at, first, later, reading, xa>> /\ Cmd' = Cmd
    BY <1>4 DEF PollTake, Cmd
  <2>2. first = None /\ taken \in Nat
    BY <1>1, <2>1 DEF Outstanding, Counted
  <2>3. Outstanding'
    BY <1>1, <2>1, <2>2 DEF Outstanding
  <2>4. Playing'
    BY <1>1, <2>1 DEF Playing
  <2> QED
    BY <2>3, <2>4
<1>5. CASE AckMain
  <2>1. pc = "ack" /\ latched' = None /\ first = None /\ taken \in Nat /\ taken >= 1
        /\ UNCHANGED <<first, later, reading, xa>>
    BY <1>1, <1>5 DEF AckMain, Outstanding, Counted
  <2>2. CASE pc' \in {"clear", "copy"} /\ UNCHANGED <<call, at, taken>>
    <3>1. Cmd' = Cmd
      BY <2>2 DEF Cmd
    <3> QED
      BY <1>1, <2>1, <2>2, <3>1 DEF Outstanding, Playing
  <2>3. CASE ~WaitsForMore /\ Cmd # "ReadN" /\ NextCommand
    <3>1. pc' = "send" /\ at < Len(Script(call))
      BY <2>3 DEF NextCommand, Return
    <3>2. Cmd # "ReadS" /\ ~(call = "ReadData" /\ at = 5) /\ ~(call = "StopXa")
      BY <1>1, <2>1, <3>1, CmdFacts DEF Script
    <3>3. ~reading
      BY <1>1, <2>1, <2>3, <3>2 DEF Playing
    <3>4. later = {}
      <4>1. CASE Cmd \notin TwoAnswers
        BY <1>1, <2>1, <4>1 DEF Outstanding
      <4>2. CASE Cmd \in TwoAnswers /\ taken >= 2
        BY <1>1, <2>1, <4>2 DEF Outstanding
      <4>3. CASE Cmd \in TwoAnswers /\ taken = 1
        <5>1. CASE got.int = 5
          BY <1>1, <2>1, <5>1 DEF Outstanding
        <5>2. CASE got.int # 5
          BY <1>1, <2>1, <2>3, <3>1, <4>3, <5>2 DEF WaitsForMore, TwoAnswers, Cmd, Script, Place, AllCalls
        <5> QED
          BY <5>1, <5>2
      <4> QED
        BY <2>1, <4>1, <4>2, <4>3
    <3>5. call = "ReadXa" /\ at >= 2 => xa
      BY <1>1, <2>1, CmdFacts DEF Playing
    <3> QED
      BY <1>1, <2>1, <2>3, <3>3, <3>4, <3>5, NextCommandKeepsOwn
  <2> QED
    BY <1>5, <2>2, <2>3 DEF AckMain, Return
<1>6. CASE CopySector
  <2>1. pc = "copy" /\ pc' \in {"clear", "copy"}
        /\ UNCHANGED <<call, at, taken, latched, first, later, reading, xa>> /\ Cmd' = Cmd
    BY <1>6 DEF CopySector, Cmd
  <2> QED
    BY <1>1, <2>1 DEF Outstanding, Playing
<1>7. CASE CopyDone
  <2>1. pc = "copy" /\ call = "ReadData" /\ at = 4 /\ Cmd = "ReadN"
    BY <1>1, <1>7, CmdFacts DEF CopyDone, Place
  <2>2. first = None /\ later = {}
    BY <1>1, <2>1 DEF Outstanding, TwoAnswers
  <2> QED
    BY <1>1, <1>7, <2>1, <2>2, NextCommandKeepsOwn DEF CopyDone, drive
<1> QED
  BY <1>2, <1>3, <1>4, <1>5, <1>6, <1>7 DEF Driver

LEMMA CountedStep == Place /\ Counted /\ [Next]_vars => Counted'
<1> SUFFICES ASSUME Place, Counted, [Next]_vars PROVE Counted'
  OBVIOUS
<1>1. ASSUME Return PROVE Counted'
  BY <1>1 DEF Return, Counted
<1>2. ASSUME NextCommand PROVE Counted'
  BY <1>1, <1>2 DEF NextCommand, Counted
<1>3. CASE \E c \in Calls : Call(c)
  BY <1>3 DEF Call, Counted
<1>4. CASE Send \/ PollClear \/ PollTake \/ CopySector
  BY <1>1, <1>4 DEF Send, PollClear, PollTake, CopySector, Counted
<1>5. CASE AckMain
  BY <1>1, <1>2, <1>5 DEF AckMain, Counted
<1>6. CASE CopyDone
  BY <1>2, <1>6 DEF CopyDone
<1>7. ASSUME UNCHANGED driver PROVE Counted'
  BY <1>7 DEF driver, Counted
<1>8. CASE Drive \/ UNCHANGED vars
  BY <1>7, <1>8 DEF Drive, Accept, Refuse, Complete, Sector, SectorLost, ReadError, vars
<1> QED
  BY <1>3, <1>4, <1>5, <1>6, <1>8 DEF Next, Driver

LEMMA OwnInit == Init => OwnInv
<1> QED
  BY BufferInit DEF Init, OwnInv, Counted, BufferInv

LEMMA OwnStep ==
  ASSUME Obedient, OwnInv, Place', [Next]_vars
  PROVE  OwnInv'
<1> SUFFICES ASSUME clean', pc' # "idle" PROVE Outstanding' /\ Playing'
  BY CountedStep DEF OwnInv
<1>1. CASE \E c \in Calls : Call(c)
  <2>1. PICK c \in Calls : Call(c)
    BY <1>1
  <2>2. /\ call' = c /\ at' = 1 /\ pc' = "send" /\ first' = None /\ later' = {} /\ ~reading'
    BY <2>1 DEF Call
  <2> QED
    BY <2>2 DEF Outstanding, Playing
<1>2. CASE Driver
  <2>1. pc # "idle"
    BY <1>2 DEF Driver, Send, PollClear, PollTake, AckMain, CopySector, CopyDone
  <2>2. clean
    <3>1. clean' = clean \/ pc' = "idle"
      BY <1>2 DEF Driver, Send, PollClear, PollTake, AckMain, CopySector, CopyDone,
                  NextCommand, Return
    <3> QED
      BY <3>1
  <2> QED
    BY <1>2, <2>1, <2>2, DriverKeepsOwn
<1>3. ASSUME UNCHANGED driver PROVE clean /\ pc # "idle"
  BY <1>3 DEF driver
<1>4. CASE Accept
  BY <1>3, <1>4, AcceptKeepsOwn DEF Accept
<1>5. CASE Refuse
  BY <1>3, <1>5, RefuseKeepsOwn DEF Refuse
<1>6. CASE \E cmd \in TwoAnswers : Complete(cmd)
  BY <1>3, <1>6, CompleteKeepsOwn DEF Complete
<1>7. CASE Sector \/ SectorLost \/ ReadError
  BY <1>3, <1>7, SectorKeepsOwn DEF Sector, SectorLost, ReadError
<1>8. CASE UNCHANGED vars
  <2>1. clean /\ pc # "idle" /\ Outstanding /\ Playing
    BY <1>3, <1>8 DEF vars, OwnInv
  <2> QED
    BY <1>8, <2>1 DEF vars, driver, drive, Outstanding, Playing, Cmd
<1> QED
  BY <1>1, <1>2, <1>4, <1>5, <1>6, <1>7, <1>8 DEF Next, Drive

\* For all calls in any order, any disc and a program of any speed: a call that
\* begins with nothing outstanding takes no answer but its own commands'.
THEOREM OwnAnswersHolds == ASSUME Obedient PROVE Spec => []OwnAnswers
<1>1. OwnInv => OwnAnswers
  BY DEF OwnInv, Outstanding, OwnAnswers
<1>2. BufferInv /\ OwnInv /\ [Next]_vars => BufferInv' /\ OwnInv'
  BY BufferStep, OwnStep DEF BufferInv
<1> QED
  BY <1>1, <1>2, BufferInit, OwnInit, PTL DEF Spec
-----------------------------------------------------------------------------
(***************************************************************************)
(* A read by a program that keeps up with the drive.  What arrives arrives *)
(* in a wait, so no INT3 is missed and no sector overrun.                  *)
(***************************************************************************)
Fast == clean /\ speed = "fast" /\ call = "ReadData"

\* The answers to ReadN come in order: INT3 or INT5, then INT1 for each sector
\* until INT5 ends the read.
InOrder ==
  at = 4 /\ pc # "send" =>
    /\ first # None => latched = None /\ ~reading
    /\ pc = "clear" /\ taken = 0 => first # None
    /\ pc = "wait" /\ taken = 0 => first # None \/ latched # None
    /\ latched # None =>
         /\ latched.int \in (IF taken = 0 /\ pc # "ack" THEN {3, 5} ELSE {1, 5})
         /\ latched.int = 5 => ~reading
    /\ pc = "ack" =>
         /\ got.int \in (IF taken = 1 THEN {3, 5} ELSE {1, 5})
         /\ got.int = 5 => ~reading

\* The sectors come in order: the one in the FIFO is the next to be copied,
\* and the one under the head comes after it.
Following ==
  /\ at > 3 \/ (at = 3 /\ pc # "send" /\ first = None) => target = lba
  /\ at <= 3 \/ (at = 4 /\ pc = "send") => chunks = <<>>
  /\ at = 4 /\ pc # "send" =>
       /\ first # None => chunks = <<>> /\ fifo = None
       /\ fifo # None => fifo = (lba + Len(chunks)) % DiscSize
       /\ reading => head = (lba + Len(chunks) + (IF fifo = None THEN 0 ELSE 1)) % DiscSize
       /\ pc = "clear" => fifo = None
       /\ pc = "wait" /\ (latched = None \/ latched.int = 3) => fifo = None
       /\ pc = "ack" /\ got.int = 3 => fifo = None

Copied ==
  /\ chunks \in Seq(0 .. DiscSize - 1)
  /\ \A k \in 1 .. Len(chunks) : chunks[k] = (lba + k - 1) % DiscSize

Heads ==
  /\ head \in 0 .. DiscSize - 1 /\ target \in 0 .. DiscSize - 1 /\ lba \in 0 .. DiscSize - 1
  /\ fifo \in 0 .. DiscSize - 1 \cup {None}
  /\ first \in Commands \cup {None} /\ motor \in BOOLEAN
  /\ latched \in Answers \cup {None}

ReadInv == OwnInv /\ Heads /\ (Fast /\ pc # "idle" => InOrder /\ Following /\ Copied)

LEMMA Divide ==
  ASSUME NEW d \in Nat \ {0}, NEW q \in Nat, NEW r \in 0 .. d - 1, NEW n \in Nat, n = d * q + r
  PROVE  n % d = r
<1>1. PICK p \in Nat, t \in 0 .. d - 1 : t = n % d /\ n = d * p + t
  BY Division
<1>2. d * (q - p) = t - r
  <2>1. d * (q - p) = d * q - d * p /\ d * q \in Int /\ d * p \in Int
    OBVIOUS
  <2>2. d * q + r = d * p + t
    BY <1>1
  <2> QED
    BY <2>1, <2>2
<1>3. q - p \in Int /\ d * (q - p) < d /\ d * (q - p) > -d
  BY <1>2
<1>4. q - p = 0
  BY <1>3
<1>5. d * (q - p) = 0
  BY <1>4
<1> QED
  BY <1>1, <1>2, <1>5

\* The sector after the one at n.
LEMMA NextSector ==
  ASSUME NEW n \in Nat, NEW d \in Nat \ {0}
  PROVE  /\ n % d \in 0 .. d - 1
         /\ ((n % d) + 1) % d = (n + 1) % d
         /\ n < d => n % d = n
<1>1. PICK q \in Nat, r \in 0 .. d - 1 : r = n % d /\ n = d * q + r
  BY Division
<1>2. d * q \in Nat
  OBVIOUS
<1>6. PICK m \in Nat : m = n + 1
  OBVIOUS
<1>3. n < d => n % d = n
  <2> SUFFICES ASSUME n < d PROVE n % d = n
    OBVIOUS
  <2>1. n = d * 0 + n /\ n \in 0 .. d - 1
    OBVIOUS
  <2> QED
    BY <2>1, Divide
<1>4. CASE r + 1 < d
  <2>1. m = d * q + (r + 1) /\ r + 1 \in 0 .. d - 1
    BY <1>1, <1>2, <1>4, <1>6
  <2>2. m % d = r + 1
    BY <2>1, Divide
  <2>3. r + 1 = d * 0 + (r + 1)
    OBVIOUS
  <2>4. (r + 1) % d = r + 1
    BY <2>1, <2>3, Divide
  <2> QED
    BY <1>1, <1>3, <1>6, <2>2, <2>4
<1>5. CASE r + 1 = d
  <2>1. d * (q + 1) = d * q + d
    OBVIOUS
  <2>2. m = d * (q + 1) + 0 /\ 0 \in 0 .. d - 1 /\ q + 1 \in Nat
    BY <1>1, <1>2, <1>5, <1>6, <2>1
  <2>3. m % d = 0
    BY <2>2, Divide
  <2>4. d = d * 1 + 0
    OBVIOUS
  <2>5. d % d = 0
    BY <2>2, <2>4, Divide
  <2> QED
    BY <1>1, <1>3, <1>5, <1>6, <2>3, <2>5
<1> QED
  BY <1>1, <1>4, <1>5

LEMMA HeadsInit == Init => Heads
<1> QED
  BY DriveAssumption DEF Init, Heads

LEMMA HeadsStep == Place /\ Heads /\ [Next]_vars => Heads'
<1> SUFFICES ASSUME Place, Heads, [Next]_vars PROVE Heads'
  OBVIOUS
<1>1. DiscSize \in Nat \ {0} /\ 0 \in 0 .. DiscSize - 1
  BY DriveAssumption
<1>2. ASSUME Return PROVE lba' \in 0 .. DiscSize - 1
  BY <1>1, <1>2 DEF Return
<1>3. ASSUME NextCommand PROVE lba' \in 0 .. DiscSize - 1
  BY <1>2, <1>3 DEF NextCommand, Heads
<1>4. CASE \E c \in Calls : Call(c)
  <2>1. lba' \in Lbas \/ lba' = 0
    BY <1>4 DEF Call
  <2>2. lba' \in 0 .. DiscSize - 1
    BY <1>1, <2>1, DriveAssumption
  <2> QED
    BY <1>4, <2>2 DEF Call, Heads
<1>5. CASE Send
  <2>1. Cmd \in Commands
    BY <1>5, CmdFacts DEF Send
  <2>2. lba' \in 0 .. DiscSize - 1
    BY <1>2, <1>5 DEF Send, Heads
  <2> QED
    BY <1>5, <2>1, <2>2 DEF Send, Heads
<1>6. CASE PollClear \/ PollTake \/ CopySector
  BY <1>6 DEF PollClear, PollTake, CopySector, Heads
<1>7. CASE AckMain
  <2>1. lba' \in 0 .. DiscSize - 1
    BY <1>2, <1>3, <1>7 DEF AckMain, Heads
  <2> QED
    BY <1>7, <2>1 DEF AckMain, Heads
<1>8. CASE CopyDone
  BY <1>3, <1>8 DEF CopyDone, drive, Heads
<1>9. ASSUME NEW i \in 1 .. 5, NEW c \in Commands PROVE Answer(i, c) \in Answers
  BY DEF Heads, Answer, Answers
<1>10. CASE Accept
  <2>1. Answer(3, first) \in Answers
    BY <1>9, <1>10 DEF Accept, Heads
  <2> QED
    BY <1>10, <2>1 DEF Accept, driver, Heads
<1>11. CASE Refuse
  <2>1. Answer(5, first) \in Answers
    BY <1>9, <1>11, CallsAssumption DEF Refuse
  <2> QED
    BY <1>11, <2>1 DEF Refuse, driver, Heads
<1>12. ASSUME NEW cmd \in TwoAnswers, Complete(cmd) PROVE Heads'
  <2>1. Answer(2, cmd) \in Answers
    BY <1>9 DEF TwoAnswers, Commands
  <2> QED
    BY <1>12, <2>1 DEF Complete, driver, Heads
<1>13. CASE Sector \/ SectorLost \/ ReadError
  <2>1. (head + 1) % DiscSize \in 0 .. DiscSize - 1
    BY <1>1, NextSector DEF Heads
  <2>2. Answer(1, "ReadN") \in Answers /\ Answer(5, "ReadN") \in Answers
    BY <1>9 DEF Commands
  <2> QED
    BY <1>13, <2>1, <2>2 DEF Sector, SectorLost, ReadError, driver, Heads
<1>14. CASE UNCHANGED vars
  BY <1>14 DEF vars, driver, drive, Heads
<1> QED
  BY <1>4, <1>5, <1>6, <1>7, <1>8, <1>10, <1>11, <1>12, <1>13, <1>14 DEF Next, Driver, Drive

-----------------------------------------------------------------------------
(* A fast program's read, one step. *)

\* What a fast read is, at each step, with what was proved before.
Reading == ReadInv /\ Obedient /\ Fast /\ pc # "idle"

LEMMA ReadingFacts ==
  ASSUME Reading
  PROVE  /\ InOrder /\ Following /\ Copied /\ Heads
         /\ Place /\ Counted /\ Outstanding /\ Playing
         /\ clean /\ speed = "fast" /\ call = "ReadData" /\ pc # "idle"
         /\ at \in 1 .. 5 /\ DiscSize \in Nat \ {0}
<1> QED
  BY Scripts, DriveAssumption DEF Reading, ReadInv, Fast, OwnInv, Place

\* The drive's steps.
LEMMA AcceptKeepsRead ==
  ASSUME Reading, Accept
  PROVE  InOrder' /\ Following' /\ Copied'
<1>1. UNCHANGED <<pc, call, at, taken, got, chunks, lba, fifo>>
  BY DEF Accept, driver
<1>2. pc # "send" /\ first = Cmd /\ latched = None /\ taken = 0 /\ pc \in {"clear", "wait"}
  BY ReadingFacts DEF Accept, Outstanding
<1>3. pc = "wait"
  BY <1>2, ReadingFacts DEF Accept, Listening
<1>4. first' = None /\ latched'.int = 3 /\ latched' # None
  <2>1. latched' \in Answers
    BY ReadingFacts DEF Accept, Answer, Answers, Heads
  <2> QED
    BY <2>1, NoneAssumption DEF Accept, Answer
<1>5. InOrder'
  BY <1>1, <1>2, <1>3, <1>4 DEF InOrder
<1>6. (at = 3 <=> first = "SetLoc") /\ (at = 4 <=> first = "ReadN")
  BY <1>2, ReadingFacts, Scripts DEF Place, Cmd
<1>7. Following'
  <2>1. at >= 3 => target' = lba
    BY <1>2, <1>6, ReadingFacts DEF Accept, Following
  <2>2. at = 4 => head' = lba % DiscSize /\ chunks = <<>> /\ fifo = None
    <3>1. lba % DiscSize = lba
      <4>1. lba \in Nat /\ lba < DiscSize /\ DiscSize \in Nat \ {0}
        BY ReadingFacts DEF Heads
      <4> QED
        BY <4>1, NextSector
    <3> QED
      BY <1>2, <1>6, <3>1, ReadingFacts DEF Accept, Following
  <2>3. Len(<<>>) = 0 /\ lba + 0 + 0 = lba
    BY ReadingFacts DEF Heads
  <2> QED
    BY <1>1, <1>2, <1>3, <1>4, <2>1, <2>2, <2>3, ReadingFacts DEF Following
<1> QED
  BY <1>1, <1>5, <1>7, ReadingFacts DEF Copied

LEMMA RefuseKeepsRead ==
  ASSUME Reading, Refuse
  PROVE  InOrder' /\ Following' /\ Copied'
<1>1. UNCHANGED <<pc, call, at, taken, got, chunks, lba, fifo, target, head, reading>>
  BY DEF Refuse, driver
<1>2. first \in Commands /\ first # None
  BY CallsAssumption, NoneAssumption DEF Refuse
<1>3. pc # "send" /\ first = Cmd /\ latched = None /\ taken = 0 /\ pc = "wait"
  BY <1>2, ReadingFacts DEF Refuse, Outstanding, Listening
<1>4. first' = None /\ latched'.int = 5 /\ latched' # None
  <2>1. latched' \in Answers
    BY <1>2, ReadingFacts DEF Refuse, Answer, Answers, Heads
  <2> QED
    BY <2>1, NoneAssumption DEF Refuse, Answer
<1>5. at # 3
  BY <1>3, ReadingFacts, Scripts DEF Refuse, Obedient, Reading, Place, Cmd
<1>6. InOrder'
  BY <1>1, <1>2, <1>3, <1>4, ReadingFacts DEF InOrder
<1>7. Following'
  BY <1>1, <1>2, <1>3, <1>4, <1>5, ReadingFacts DEF Following
<1> QED
  BY <1>1, <1>6, <1>7, ReadingFacts DEF Copied

LEMMA CompleteKeepsRead ==
  ASSUME Reading, NEW cmd \in TwoAnswers, Complete(cmd)
  PROVE  InOrder' /\ Following' /\ Copied'
<1>1. UNCHANGED <<pc, call, at, taken, got, chunks, lba, fifo, target, head, reading, first>>
  BY DEF Complete, driver
<1>2. pc # "send" /\ cmd = Cmd
  BY ReadingFacts DEF Complete, Outstanding
<1>3. at # 4
  BY <1>2, ReadingFacts, CmdFacts DEF TwoAnswers
<1> QED
  BY <1>1, <1>3, ReadingFacts DEF InOrder, Following, Copied

LEMMA SectorKeepsRead ==
  ASSUME Reading, Sector \/ SectorLost \/ ReadError
  PROVE  InOrder' /\ Following' /\ Copied'
<1>1. UNCHANGED <<pc, call, at, taken, got, chunks, lba, target, first>>
  BY DEF Sector, SectorLost, ReadError, driver
<1>2. Sectors /\ latched = None /\ Listening /\ (Sector \/ ReadError)
  BY ReadingFacts DEF Sector, SectorLost, ReadError
<1>3. CASE at # 4 \/ pc = "send"
  <2>1. at = 5 \/ pc = "send"
    BY <1>2, <1>3, ReadingFacts, CmdFacts DEF Sectors, Playing
  <2>2. at # 4 \/ pc = "send"
    BY <1>3
  <2> QED
    BY <1>1, <2>1, <2>2, ReadingFacts DEF InOrder, Following, Copied
<1>4. CASE at = 4 /\ pc # "send"
  <2>1. first = None /\ pc \in {"wait", "copy"} /\ fifo = None /\ taken \in Nat /\ taken >= 1
    <3>1. first = None
      BY <1>2, <1>4, ReadingFacts DEF Sectors, InOrder
    <3>2. pc = "wait" \/ (pc = "copy" /\ fifo = None)
      BY <1>2, <1>4, <3>1, ReadingFacts DEF Listening
    <3>3. fifo = None
      BY <1>2, <1>4, <3>2, ReadingFacts DEF Following
    <3>4. taken # 0
      BY <1>2, <1>4, <3>1, <3>2, ReadingFacts DEF InOrder, Counted
    <3> QED
      BY <3>1, <3>2, <3>3, <3>4, ReadingFacts DEF Counted
  <2>2. Len(chunks) \in Nat /\ lba \in Nat
    BY ReadingFacts DEF Copied, Heads
  <2>3. head = (lba + Len(chunks)) % DiscSize
    <3>1. head = (lba + Len(chunks) + 0) % DiscSize
      BY <1>2, <1>4, <2>1, ReadingFacts DEF Following, Sectors
    <3> QED
      BY <2>2, <3>1
  <2>4. CASE Sector
    <3>1. latched'.int = 1 /\ fifo' = head /\ reading' = reading
      BY <2>4 DEF Sector, Answer
    <3>2. head' = (lba + Len(chunks) + 1) % DiscSize
      <4>1. PICK n \in Nat : n = lba + Len(chunks)
        BY <2>2
      <4>2. ((n % DiscSize) + 1) % DiscSize = (n + 1) % DiscSize
        BY ReadingFacts, NextSector
      <4> QED
        BY <2>3, <2>4, <4>1, <4>2 DEF Sector
    <3>3. fifo' # None /\ latched' # None
      <4>1. latched' \in Answers
        BY <2>4, ReadingFacts DEF Sector, Answer, Answers, Commands, Heads
      <4> QED
        BY <3>1, <4>1, ReadingFacts, NoneAssumption DEF Heads
    <3>4. InOrder'
      BY <1>1, <2>1, <3>1 DEF InOrder
    <3>5. Following'
      BY <1>1, <1>4, <2>1, <2>3, <3>1, <3>2, <3>3, ReadingFacts DEF Following
    <3> QED
      BY <1>1, <3>4, <3>5, ReadingFacts DEF Copied
  <2>5. CASE ReadError
    <3>1. latched'.int = 5 /\ fifo' = fifo /\ reading' = FALSE
      BY <2>5 DEF ReadError, Answer
    <3>2. InOrder'
      BY <1>1, <2>1, <3>1 DEF InOrder
    <3>3. Following'
      BY <1>1, <1>4, <2>1, <3>1, ReadingFacts DEF Following
    <3> QED
      BY <1>1, <3>2, <3>3, ReadingFacts DEF Copied
  <2> QED
    BY <1>2, <2>4, <2>5
<1> QED
  BY <1>3, <1>4

\* The driver's steps.
LEMMA NextCommandKeepsRead ==
  ASSUME Reading, NextCommand, pc' # "idle", pc # "send", first = None, first' = None, target' = target
  PROVE  InOrder' /\ Following' /\ Copied'
<1>1. pc' = "send" /\ at' = at + 1 /\ UNCHANGED <<call, lba, chunks>>
  BY DEF NextCommand, Return
<1> QED
  BY <1>1, ReadingFacts DEF InOrder, Following, Copied

LEMMA SendKeepsRead ==
  ASSUME Reading, Send
  PROVE  InOrder' /\ Following' /\ Copied'
<1>1. /\ pc = "send" /\ pc' = "clear" /\ first' = Cmd /\ latched' = None /\ fifo' = None
      /\ UNCHANGED <<call, at, taken, lba, chunks, reading, head, target>>
  <2>1. ~Uncollected
    BY ReadingFacts DEF Uncollected
  <2> QED
    BY <2>1 DEF Send
<1>2. Cmd # None /\ (at = 4 => ~reading /\ Cmd = "ReadN")
  BY <1>1, ReadingFacts, CmdFacts DEF Playing
<1> QED
  BY <1>1, <1>2, ReadingFacts DEF InOrder, Following, Copied

LEMMA PollKeepsRead ==
  ASSUME Reading, PollClear \/ PollTake
  PROVE  InOrder' /\ Following' /\ Copied'
<1>1. CASE PollClear
  <2>1. /\ pc = "clear" /\ pc' = "wait" /\ latched' = None
        /\ UNCHANGED <<call, at, taken, lba, chunks, reading, head, target, first, fifo>>
    BY <1>1 DEF PollClear
  <2> QED
    BY <2>1, ReadingFacts DEF InOrder, Following, Copied
<1>2. CASE PollTake
  <2>1. /\ pc = "wait" /\ pc' = "ack" /\ latched # None /\ got' = latched /\ latched' = None
        /\ taken' = taken + 1 /\ taken \in Nat
        /\ UNCHANGED <<call, at, lba, chunks, reading, head, target, first, fifo>>
    BY <1>2, ReadingFacts DEF PollTake, Counted
  <2>2. InOrder'
    BY <2>1, ReadingFacts DEF InOrder
  <2>3. Following'
    BY <2>1, ReadingFacts DEF Following
  <2> QED
    BY <2>1, <2>2, <2>3, ReadingFacts DEF Copied
<1> QED
  BY <1>1, <1>2

LEMMA AckKeepsRead ==
  ASSUME Reading, AckMain, pc' # "idle"
  PROVE  InOrder' /\ Following' /\ Copied'
<1>1. /\ pc = "ack" /\ latched' = None /\ taken \in Nat /\ taken >= 1 /\ first = None
      /\ UNCHANGED <<reading, head, target, first, fifo>>
  BY ReadingFacts DEF AckMain, Counted, Outstanding
<1>2. CASE WaitsForMore /\ pc' = "clear" /\ UNCHANGED <<call, at, taken, lba, chunks>>
  <2>1. at = 4 => got.int = 3
    BY <1>2, ReadingFacts, CmdFacts DEF WaitsForMore
  <2>2. taken = 1
    BY <1>2 DEF WaitsForMore
  <2> QED
    BY <1>1, <1>2, <2>1, <2>2, ReadingFacts DEF InOrder, Following, Copied
<1>3. CASE pc' = "copy" /\ UNCHANGED <<call, at, taken, lba, chunks>>
  BY <1>1, <1>3, ReadingFacts DEF InOrder, Following, Copied
<1>4. CASE NextCommand
  BY <1>1, <1>4, NextCommandKeepsRead
<1> QED
  BY <1>2, <1>3, <1>4 DEF AckMain, Return

LEMMA CopySectorKeepsRead ==
  ASSUME Reading, CopySector
  PROVE  InOrder' /\ Following' /\ Copied'
<1>1. /\ pc = "copy" /\ pc' \in {"clear", "copy"} /\ fifo # None /\ fifo' = None
      /\ chunks' = Append(chunks, fifo) /\ at = 4
      /\ UNCHANGED <<call, at, taken, got, lba, reading, head, target, first, latched>>
  BY ReadingFacts DEF CopySector, Place
<1>2. taken \in Nat /\ taken >= 1 /\ first = None
  BY <1>1, ReadingFacts DEF Counted, Outstanding
<1>3. chunks \in Seq(0 .. DiscSize - 1) /\ fifo \in 0 .. DiscSize - 1 /\ lba \in Nat
  BY <1>1, ReadingFacts DEF Copied, Heads
<1>4. fifo = (lba + Len(chunks)) % DiscSize
  BY <1>1, ReadingFacts DEF Following
<1>5. Len(chunks') = Len(chunks) + 1 /\ Len(chunks) \in Nat /\ chunks' \in Seq(0 .. DiscSize - 1)
  BY <1>1, <1>3
<1>6. InOrder'
  BY <1>1, <1>2, ReadingFacts DEF InOrder
<1>7. Following'
  <2>1. reading => head = (lba + Len(chunks) + 1) % DiscSize
    BY <1>1, ReadingFacts DEF Following
  <2>2. lba + Len(chunks') + 0 = lba + Len(chunks) + 1
    BY <1>3, <1>5
  <2> QED
    BY <1>1, <1>2, <2>1, <2>2, ReadingFacts DEF Following
<1>8. Copied'
  <2>1. ASSUME NEW k \in 1 .. Len(chunks') PROVE chunks'[k] = (lba + k - 1) % DiscSize
    <3>1. CASE k = Len(chunks) + 1
      <4>1. chunks'[k] = fifo
        BY <1>1, <1>3, <1>5, <3>1
      <4>2. lba + k - 1 = lba + Len(chunks)
        BY <1>3, <1>5, <3>1
      <4> QED
        BY <1>4, <4>1, <4>2
    <3>2. CASE k \in 1 .. Len(chunks)
      BY <1>1, <1>3, <1>5, <3>2, ReadingFacts DEF Copied
    <3> QED
      BY <1>5, <3>1, <3>2
  <2> QED
    BY <1>1, <1>5, <2>1 DEF Copied
<1> QED
  BY <1>6, <1>7, <1>8

LEMMA ReadStep ==
  ASSUME Obedient, ReadInv, Place', OwnInv', [Next]_vars
  PROVE  ReadInv'
<1> SUFFICES ASSUME Fast', pc' # "idle" PROVE InOrder' /\ Following' /\ Copied'
  BY HeadsStep DEF ReadInv, OwnInv
<1>1. CASE \E c \in Calls : Call(c)
  <2>1. at' = 1 /\ pc' = "send" /\ chunks' = <<>>
    BY <1>1 DEF Call
  <2> QED
    BY <2>1 DEF InOrder, Following, Copied
<1>2. ASSUME Driver PROVE Reading
  <2>1. pc # "idle"
    BY <1>2 DEF Driver, Send, PollClear, PollTake, AckMain, CopySector, CopyDone
  <2>2. Fast
    BY <1>2 DEF Fast, Driver, Send, PollClear, PollTake, AckMain, CopySector, CopyDone,
                NextCommand, Return
  <2> QED
    BY <2>1, <2>2 DEF Reading
<1>3. CASE Send \/ PollClear \/ PollTake \/ AckMain \/ CopySector
  BY <1>2, <1>3, SendKeepsRead, PollKeepsRead, AckKeepsRead, CopySectorKeepsRead DEF Driver
<1>4. CASE CopyDone
  <2>1. Reading
    BY <1>2, <1>4 DEF Driver
  <2>2. pc = "copy" /\ first = None
    BY <1>4, <2>1, ReadingFacts DEF CopyDone, Outstanding
  <2> QED
    BY <1>4, <2>1, <2>2, NextCommandKeepsRead DEF CopyDone, drive
<1>5. ASSUME UNCHANGED driver PROVE Reading
  BY <1>5 DEF driver, Reading, Fast
<1>6. CASE Drive
  <2>1. Reading
    BY <1>5, <1>6 DEF Drive, Accept, Refuse, Complete, Sector, SectorLost, ReadError
  <2> QED
    BY <1>6, <2>1, AcceptKeepsRead, RefuseKeepsRead, CompleteKeepsRead, SectorKeepsRead DEF Drive
<1>7. CASE UNCHANGED vars
  <2>1. Reading
    BY <1>5, <1>7 DEF vars
  <2> QED
    BY <1>7, <2>1, ReadingFacts DEF vars, driver, drive, InOrder, Following, Copied
<1> QED
  BY <1>1, <1>3, <1>4, <1>6, <1>7 DEF Next, Driver

AllInv == BufferInv /\ ReadInv

LEMMA AllInvInit == Init => AllInv
<1> QED
  BY BufferInit, OwnInit, HeadsInit DEF AllInv, ReadInv, Init

LEMMA AllInvStep == ASSUME Obedient PROVE AllInv /\ [Next]_vars => AllInv'
<1> SUFFICES ASSUME AllInv, [Next]_vars PROVE AllInv'
  OBVIOUS
<1>1. BufferInv'
  BY BufferStep DEF AllInv
<1>2. OwnInv'
  BY <1>1, OwnStep DEF AllInv, ReadInv, BufferInv
<1> QED
  BY <1>1, <1>2, ReadStep DEF AllInv, BufferInv

\* On any disc, for any size of buffer and sector: a read by a program that
\* keeps up with the drive stores consecutive sectors from the one asked for.
THEOREM ConsecutiveSectorsHolds == ASSUME Obedient PROVE Spec => []ConsecutiveSectors
<1>1. AllInv => ConsecutiveSectors
  BY NoneAssumption DEF AllInv, ReadInv, OwnInv, Place, AllCalls, Fast, Copied, ConsecutiveSectors
<1> QED
  BY <1>1, AllInvInit, AllInvStep, PTL DEF Spec

\* A call that returns does so when it has taken the last answer.
LEMMA ReturnsQuiet ==
  ASSUME Obedient, AllInv, [Next]_vars, clean, speed = "fast",
         call \in {"InitCdrom", "ReadData"}, call' = None
  PROVE  first' = None /\ later' = {} /\ ~reading'
<1>1. call # None /\ pc # "idle" /\ Place /\ Counted /\ Outstanding /\ Playing
  BY NoneAssumption DEF AllInv, BufferInv, ReadInv, OwnInv, Place, AllCalls
<1>2. AckMain
  <2>1. ~(\E c \in Calls : Call(c))
    BY <1>1 DEF Call
  <2>2. ~(PollClear \/ PollTake \/ CopySector \/ UNCHANGED driver)
    BY <1>1 DEF PollClear, PollTake, CopySector, driver
  <2>3. ~Send
    BY <1>1 DEF Send, Uncollected
  <2>4. ~CopyDone
    <3>1. ASSUME CopyDone PROVE call' = call
      <4>1. call = "ReadData" /\ at = 4 /\ Len(Script(call)) = 5
        BY <1>1, <3>1, Scripts DEF CopyDone, Place
      <4>2. PICK n \in Nat : n = Len(Script(call))
        BY <4>1
      <4>3. at < n
        BY <4>1, <4>2
      <4> QED
        BY <3>1, <4>2, <4>3 DEF CopyDone, NextCommand
    <3> QED
      BY <1>1, <3>1
  <2> QED
    BY <2>1, <2>2, <2>3, <2>4
       DEF Next, Driver, Drive, Accept, Refuse, Complete, Sector, SectorLost, ReadError, vars
<1>3. /\ pc = "ack" /\ first = None /\ taken \in Nat /\ taken >= 1
      /\ UNCHANGED <<first, later, reading>>
  BY <1>1, <1>2 DEF AckMain, Counted, Outstanding
<1>4. CASE call = "InitCdrom"
  <2>1. at = 4
    <3>1. at \in 1 .. Len(Script(call)) /\ Len(Script(call)) = 4
      BY <1>1, <1>4, Scripts DEF Place
    <3>2. Cmd # "ReadN"
      BY <1>1, <1>4, CmdFacts
    <3>3. ~WaitsForMore /\ NextCommand
      BY <1>1, <1>2, <1>4, <3>2 DEF AckMain
    <3>4. ~(at < Len(Script(call)))
      BY <1>1, <3>3 DEF NextCommand
    <3> QED
      BY <3>1, <3>4
  <2>2. Cmd = "Demute"
    BY <1>4, <2>1 DEF Cmd, Script
  <2> QED
    BY <1>1, <1>3, <1>4, <2>2 DEF Outstanding, Playing, TwoAnswers
<1>5. CASE call = "ReadData"
  <2>1. InOrder
    BY <1>1, <1>5 DEF AllInv, ReadInv, Fast
  <2>2. CASE Cmd = "ReadN"
    <3>1. at = 4
      BY <1>1, <2>2, CmdFacts
    <3>2. ~WaitsForMore /\ (taken = 1 \/ (taken = 2 /\ got.int # 1))
      BY <1>1, <1>2, <2>2 DEF AckMain
    <3>3. got.int = 5
      BY <1>3, <2>1, <2>2, <3>1, <3>2 DEF InOrder, WaitsForMore
    <3>4. ~reading
      BY <1>3, <2>1, <3>1, <3>3 DEF InOrder
    <3>5. later = {}
      BY <1>1, <1>3, <3>3 DEF Outstanding
    <3> QED
      BY <1>3, <3>4, <3>5
  <2>3. CASE Cmd # "ReadN"
    <3>1. ~WaitsForMore /\ NextCommand
      BY <1>1, <1>2, <1>5, <2>3 DEF AckMain
    <3>2. at \in 1 .. Len(Script(call)) /\ Len(Script(call)) = 5
      BY <1>1, <1>5, Scripts DEF Place
    <3>3. at = 5 /\ Cmd = "Pause"
      <4>1. ~(at < Len(Script(call)))
        BY <1>1, <3>1 DEF NextCommand
      <4>2. PICK n \in Nat : n = Len(Script(call)) /\ n = 5
        BY <3>2
      <4>3. at = 5
        BY <3>2, <4>1, <4>2
      <4> QED
        BY <1>1, <1>5, <4>3, CmdFacts
    <3>4. taken >= 2
      BY <1>3, <1>5, <3>1, <3>3 DEF WaitsForMore
    <3>5. later = {}
      BY <1>1, <1>3, <3>3, <3>4 DEF Outstanding, TwoAnswers
    <3>6. ~reading
      BY <1>1, <1>3, <1>5, <3>3, NoneAssumption DEF Playing, Commands
    <3> QED
      BY <1>3, <3>5, <3>6
  <2> QED
    BY <2>2, <2>3
<1> QED
  BY <1>4, <1>5

\* seedy_init_cdrom and seedy_read_data_sync, when the program keeps up with the
\* drive, return with nothing left to come, refused and failed reads included.
THEOREM LeavesDriveQuietHolds == ASSUME Obedient PROVE Spec => LeavesDriveQuiet
<1>1. ASSUME AllInv, [Next]_vars
      PROVE  [clean /\ speed = "fast" /\ call \in {"InitCdrom", "ReadData"} /\ call' = None
               => first' = None /\ later' = {} /\ (reading' => xa')]_vars
  BY <1>1, ReturnsQuiet
<1> QED
  BY <1>1, AllInvInit, AllInvStep, PTL DEF Spec, LeavesDriveQuiet
=============================================================================
