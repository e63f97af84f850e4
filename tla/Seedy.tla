-------------------------------- MODULE Seedy --------------------------------
(***************************************************************************)
(* The CD-ROM driver (src/src/seedy/seedy.c) against the drive's           *)
(* controller.  The driver has no interrupt handler (seedy_isr_cdrom is a  *)
(* stub): it sends a command, spins until the controller latches an        *)
(* interrupt, takes it and acknowledges it.  Nothing in an interrupt says  *)
(* which command it answers, so the driver relies on collecting exactly    *)
(* the answers of a command before it sends the next one, and not all of   *)
(* its calls do.                                                           *)
(*                                                                         *)
(* The controller is outside the repository and is modelled from how the   *)
(* driver uses it: every command gets a first answer (INT3, or INT5 when   *)
(* it is refused), some get a second one (INT2) any time later, and a      *)
(* drive that reads data posts INT1 for every sector.  An answer is        *)
(* latched only when the previous one has been acknowledged.               *)
(***************************************************************************)
EXTENDS Integers, Sequences

CONSTANTS
  Calls,        \* the public functions the application uses
  Lbas,         \* sectors the application starts to read or play at
  Sizes,        \* sizes in bytes the application asks seedy_read_data_sync for
  SecSize,      \* secsize: 0x800 or 0x924 in the code
  Refusable,    \* commands the controller may answer with INT5
  FailAt,       \* sectors of a read, from 0, at which it may fail with INT5
  HostSpeeds,   \* fast: nothing arrives in the few instructions between two
                \* waits of the driver, and a sector is copied before the next
  PromptPause,  \* TRUE: no sector is completed while a Pause is being accepted
  DiscSize,     \* sectors on the disc; the head starts again at 0
  None

AllCalls == {"InitCdrom", "ReadData", "ReadXa", "StopXa", "DriveStart", "DriveStop"}
Commands == {"GetStat", "Init", "Demute", "SetMode", "SetFilter", "SetSession",
             "SetLoc", "ReadN", "ReadS", "Pause", "Stop"}

ASSUME CallsAssumption == Calls \subseteq AllCalls /\ Refusable \subseteq Commands
ASSUME SizesAssumption == Sizes \subseteq Nat /\ SecSize \in Nat \ {0}
ASSUME DriveAssumption ==
  /\ Lbas \subseteq 0 .. DiscSize - 1
  /\ FailAt \subseteq Nat
  /\ HostSpeeds \subseteq {"fast", "slow"} /\ PromptPause \in BOOLEAN
  /\ DiscSize \in Nat \ {0}

\* An interrupt: its number, the command it answers and the motor bit of the
\* status byte that comes with it.
Answers == [int : 1 .. 5, cmd : Commands, motor : BOOLEAN]

ASSUME NoneAssumption ==
  None \notin AllCalls /\ None \notin Commands /\ None \notin Answers
    /\ None \notin 0 .. DiscSize - 1

VARIABLES
  pc,        \* where the driver is: idle, send, clear, wait, ack or copy
  call,      \* the call it executes
  at,        \* index into Script[call] of the command it is at
  taken,     \* interrupts taken for this command
  got,       \* the interrupt taken, until the code has decided on it
  lba,       \* the parameter of seedy_read_data_sync and seedy_read_xa
  size,      \* the parameter of seedy_read_data_sync
  reps,      \* sectors it still has to copy
  bufpos,    \* bytes it has stored in the buffer
  chunks,    \* history: the sectors it has copied, in order
  clean,     \* history: at the start of the call no answer was outstanding
  speed,     \* how fast the program is, compared with the drive
  latched,   \* drive: the interrupt flag and the command it belongs to
  first,     \* drive: the command it still has to accept (it is busy)
  later,     \* drive: accepted commands that still owe their second answer
  reading,   \* drive: it is reading
  xa,        \* drive: sectors go to the sound chip and raise no INT1
  head,      \* drive: the next sector under the head
  target,    \* drive: the sector set by SetLoc
  motor,     \* drive: it is spinning
  fifo       \* drive: the sector in the data FIFO

driver == <<pc, call, at, taken, got, lba, size, reps, bufpos, chunks, clean, speed>>
drive  == <<latched, first, later, reading, xa, head, target, motor, fifo>>
vars   == <<driver, drive>>

-----------------------------------------------------------------------------
\* Mutant of Script: seedy_read_data_sync does not set the location.
ScriptNoSetLoc(c) ==
  CASE c = "InitCdrom"  -> <<"GetStat", "GetStat", "Init", "Demute">>
    [] c = "ReadData"   -> <<"SetMode", "SetSession", "ReadN", "Pause">>
    [] c = "ReadXa"     -> <<"SetFilter", "SetMode", "SetSession", "SetLoc", "ReadS">>
    [] c = "StopXa"     -> <<"Pause">>
    [] c = "DriveStart" -> <<"GetStat", "Init">>
    [] c = "DriveStop"  -> <<"Stop">>

\* The commands each call sends, in order.
Script(c) ==
  CASE c = "InitCdrom"  -> <<"GetStat", "GetStat", "Init", "Demute">>
    [] c = "ReadData"   -> <<"SetMode", "SetSession", "SetLoc", "ReadN", "Pause">>
    [] c = "ReadXa"     -> <<"SetFilter", "SetMode", "SetSession", "SetLoc", "ReadS">>
    [] c = "StopXa"     -> <<"Pause">>
    [] c = "DriveStart" -> <<"GetStat", "Init">>
    [] c = "DriveStop"  -> <<"Stop">>

Cmd == Script(call)[at]

\* drive_start and drive_stop return as soon as Init and Stop are sent.
Uncollected == <<call, Cmd>> \in {<<"DriveStart", "Init">>, <<"DriveStop", "Stop">>}

\* Mutants of WaitsForMore: the second answer of SetSession, or of the Pause
\* that ends a read, is not collected; a refused SetSession is waited for too.
WaitsForMoreNotSession ==
  /\ taken = 1
  /\ \/ Cmd = "ReadN" /\ got.int = 3
     \/ <<call, Cmd>> \in {<<"InitCdrom", "Init">>, <<"ReadData", "Pause">>}

WaitsForMoreNotPause ==
  /\ taken = 1
  /\ \/ Cmd = "SetSession" /\ got.int # 5
     \/ Cmd = "ReadN" /\ got.int = 3
     \/ <<call, Cmd>> = <<"InitCdrom", "Init">>

WaitsForMoreRefused ==
  /\ taken = 1
  /\ \/ Cmd = "SetSession"
     \/ Cmd = "ReadN" /\ got.int = 3
     \/ <<call, Cmd>> \in {<<"InitCdrom", "Init">>, <<"ReadData", "Pause">>}

\* The interrupt just taken is not the last one the code waits for.
WaitsForMore ==
  /\ taken = 1
  /\ \/ Cmd = "SetSession" /\ got.int # 5
     \/ Cmd = "ReadN" /\ got.int = 3
     \/ <<call, Cmd>> \in {<<"InitCdrom", "Init">>, <<"ReadData", "Pause">>}

\* reps = (size + secsize - 1) / secsize (mutant: one sector too many when the
\* size is a multiple of it).
RepsOneMore(n) == n \div SecSize + 1
Reps(n) == (n + SecSize - 1) \div SecSize

\* The inner loop stores a byte before it compares bufpos with size.
Stored ==
  LET room == size - bufpos IN
  IF room < 1 THEN 1 ELSE IF room < SecSize THEN room ELSE SecSize

\* Commands with a second answer.
TwoAnswers == {"Init", "SetSession", "Pause", "Stop"}

Answer(int, cmd) == [int |-> int, cmd |-> cmd, motor |-> motor]
-----------------------------------------------------------------------------
Init ==
  /\ pc = "idle" /\ call = None /\ at = 0 /\ taken = 0 /\ got = None
  /\ lba = 0 /\ size = 0 /\ reps = 0 /\ bufpos = 0 /\ chunks = <<>> /\ clean = TRUE
  /\ speed \in HostSpeeds
  /\ latched = None /\ first = None /\ later = {}
  /\ reading = FALSE /\ xa = FALSE /\ head = 0 /\ target = 0
  /\ motor = TRUE /\ fifo = None

(* The driver. *)

\* A call begins.  seedy_init_cdrom first acknowledges what is latched and
\* drains both FIFOs.
Call(c) ==
  /\ pc = "idle"
  /\ call' = c /\ at' = 1 /\ pc' = "send"
  /\ IF c \in {"ReadData", "ReadXa"} THEN lba' \in Lbas ELSE lba' = 0
  /\ IF c = "ReadData" THEN size' \in Sizes ELSE size' = 0
  /\ bufpos' = 0 /\ chunks' = <<>> /\ reps' = Reps(size') /\ taken' = 0 /\ got' = None
  /\ clean' = (first = None /\ later = {} /\ ~reading)
  /\ UNCHANGED speed
  /\ IF c = "InitCdrom" THEN latched' = None /\ fifo' = None
                        ELSE UNCHANGED <<latched, fifo>>
  /\ UNCHANGED <<first, later, reading, xa, head, target, motor>>

Return ==
  /\ pc' = "idle" /\ call' = None /\ at' = 0 /\ taken' = 0 /\ got' = None
  /\ lba' = 0 /\ size' = 0 /\ reps' = 0 /\ bufpos' = 0 /\ chunks' = <<>> /\ clean' = TRUE
  /\ UNCHANGED speed

NextCommand ==
  IF at < Len(Script(call))
  THEN /\ at' = at + 1 /\ pc' = "send" /\ taken' = 0 /\ got' = None
       /\ UNCHANGED <<call, lba, size, reps, bufpos, chunks, clean, speed>>
  ELSE Return

\* seedy_start_command waits until the drive is not busy, drains both FIFOs
\* and acknowledges whatever is latched; then the command is written.
Send ==
  /\ pc = "send"
  /\ first = None
  /\ first' = Cmd
  /\ latched' = None
  /\ fifo' = None
  /\ IF Uncollected
     THEN Return
     ELSE pc' = "clear" /\ UNCHANGED <<call, at, taken, got, lba, size, reps, bufpos, chunks, clean, speed>>
  /\ UNCHANGED <<later, reading, xa, head, target, motor>>

\* seedy_poll_interrupt_blocking begins by acknowledging what is latched.
PollClear ==
  /\ pc = "clear"
  /\ pc' = "wait"
  /\ latched' = None
  /\ UNCHANGED <<call, at, taken, got, lba, size, reps, bufpos, chunks, clean, speed>>
  /\ UNCHANGED <<first, later, reading, xa, head, target, motor, fifo>>

\* It spins until something is latched, takes it and acknowledges it.
PollTake ==
  /\ pc = "wait"
  /\ latched # None
  /\ got' = latched
  /\ latched' = None
  /\ taken' = taken + 1
  /\ pc' = "ack"
  /\ UNCHANGED <<call, at, lba, size, reps, bufpos, chunks, clean, speed>>
  /\ UNCHANGED <<first, later, reading, xa, head, target, motor, fifo>>

\* seedy_ack_main_interrupt acknowledges once more, unseen; then the code
\* goes on as the interrupt tells it to.
AckMain ==
  /\ pc = "ack"
  /\ latched' = None
  /\ \/ /\ WaitsForMore
        /\ pc' = "clear" /\ got' = None
        /\ UNCHANGED <<call, at, taken, lba, size, reps, bufpos, chunks, clean, speed>>
     \/ /\ ~WaitsForMore /\ Cmd = "ReadN"
        /\ IF taken = 1 \/ (taken = 2 /\ got.int # 1)
           THEN Return
           ELSE /\ pc' = "copy" /\ got' = None
                /\ UNCHANGED <<call, at, taken, lba, size, reps, bufpos, chunks, clean, speed>>
     \/ /\ ~WaitsForMore /\ Cmd # "ReadN"
        /\ IF call = "DriveStart" /\ at = 1 /\ got.motor THEN Return ELSE NextCommand
  /\ UNCHANGED <<first, later, reading, xa, head, target, motor, fifo>>

\* The first wait for data, then one turn of the loop over the sectors: wait
\* for data, store a sector or what fits, drain both FIFOs.
CopySector ==
  /\ pc = "copy"
  /\ reps > 0
  /\ fifo # None
  /\ bufpos' = bufpos + Stored
  /\ chunks' = Append(chunks, fifo)
  /\ fifo' = None
  /\ reps' = reps - 1
  /\ pc' = IF reps > 1 THEN "clear" ELSE "copy"
  /\ UNCHANGED <<call, at, taken, got, lba, size, clean, speed>>
  /\ UNCHANGED <<latched, first, later, reading, xa, head, target, motor>>

\* The loop is over.  Even for size 0 the code has waited for data once.
CopyDone ==
  /\ pc = "copy"
  /\ reps = 0
  /\ chunks = <<>> => fifo # None
  /\ NextCommand
  /\ UNCHANGED drive

(* The drive. *)

\* Answers arrive while the driver spins or the application runs.
Listening ==
  \/ speed = "slow"
  \/ pc \in {"idle", "wait"}
  \/ pc = "send" /\ first # None
  \/ pc = "copy" /\ fifo = None

Accept ==
  /\ Listening
  /\ first # None /\ latched = None
  /\ first' = None
  /\ latched' = Answer(3, first)
  /\ \E kept \in SUBSET later :      \* a new command may cancel an older one
       later' = kept \cup ({first} \cap TwoAnswers)
  /\ reading' = CASE first \in {"ReadN", "ReadS"} -> TRUE
                  [] first \in TwoAnswers -> FALSE
                  [] OTHER -> reading
  /\ xa' = CASE first = "SetMode" -> call = "ReadXa"
             [] first = "Init" -> FALSE
             [] OTHER -> xa
  /\ head' = IF first \in {"ReadN", "ReadS"} THEN target ELSE head
  /\ motor' = CASE first = "Stop" -> FALSE
                [] first \in {"Init", "ReadN", "ReadS"} -> TRUE
                [] OTHER -> motor
  /\ target' = IF first = "SetLoc" THEN lba ELSE target
  /\ UNCHANGED <<driver, fifo>>

Refuse ==
  /\ Listening
  /\ first \in Refusable /\ latched = None
  /\ first' = None
  /\ latched' = Answer(5, first)
  /\ UNCHANGED <<driver, later, reading, xa, head, target, motor, fifo>>

Complete(cmd) ==
  /\ Listening
  /\ cmd \in later /\ latched = None
  /\ latched' = Answer(2, cmd)
  /\ later' = later \ {cmd}
  /\ UNCHANGED <<driver, first, reading, xa, head, target, motor, fifo>>

\* While a Pause waits to be accepted a sector may still be completed.
Sectors == reading /\ ~xa /\ ~(PromptPause /\ first = "Pause")

Sector ==
  /\ Listening
  /\ Sectors /\ latched = None
  /\ latched' = Answer(1, "ReadN")
  /\ fifo' = head
  /\ head' = (head + 1) % DiscSize
  /\ UNCHANGED <<driver, first, later, reading, xa, target, motor>>

\* A sector that is completed before the last INT1 is acknowledged is lost.
SectorLost ==
  /\ speed = "slow"
  /\ Sectors /\ latched # None
  /\ head' = (head + 1) % DiscSize
  /\ UNCHANGED <<driver, latched, first, later, reading, xa, target, motor, fifo>>

ReadError ==
  /\ Listening
  /\ Sectors /\ latched = None
  /\ head - target \in FailAt
  /\ latched' = Answer(5, "ReadN")
  /\ reading' = FALSE
  /\ UNCHANGED <<driver, first, later, xa, head, target, motor, fifo>>
-----------------------------------------------------------------------------
Driver == Send \/ PollClear \/ PollTake \/ AckMain \/ CopySector \/ CopyDone
Drive  == Accept \/ Refuse \/ (\E cmd \in TwoAnswers : Complete(cmd)) \/ Sector
            \/ SectorLost \/ ReadError

Next == (\E c \in Calls : Call(c)) \/ Driver \/ Drive

\* The code runs on, and the drive answers what it was asked and keeps reading.
Fairness ==
  /\ WF_vars(Driver)
  /\ WF_vars(Accept \/ Refuse)
  /\ \A cmd \in TwoAnswers : WF_vars(Complete(cmd))
  /\ WF_vars(Sector \/ ReadError)

Spec == Init /\ [][Next]_vars /\ Fairness
-----------------------------------------------------------------------------
(***************************************************************************)
(* Properties                                                              *)
(***************************************************************************)
\* A call that starts with no answer outstanding takes only answers of the
\* command it has just sent: what it collects after each command is all that
\* command gives, also when SetSession, SetLoc or ReadN are refused.
OwnAnswers == pc = "ack" /\ clean => got.cmd = Cmd

\* seedy_read_data_sync stores consecutive sectors from the one asked for,
\* each from an interrupt of its own, as long as the program keeps up with the
\* drive.
ConsecutiveSectors ==
  call = "ReadData" /\ clean /\ speed = "fast" =>
    \A k \in 1 .. Len(chunks) : chunks[k] = (lba + k - 1) % DiscSize

\* It never stores past the end of the buffer and pauses only when it is full:
\* the loop count, the per-sector count and the test in the loop agree.
BufferExact ==
  /\ bufpos <= size
  /\ call = "ReadData" /\ Cmd = "Pause" => bufpos = size

\* seedy_init_cdrom and seedy_read_data_sync leave the drive quiet: no answer
\* is outstanding and no sector is still to come, so the next call may start.
\* (A slow program may acknowledge an answer it has not seen.)
LeavesDriveQuiet ==
  [][clean /\ speed = "fast" /\ call \in {"InitCdrom", "ReadData"} /\ call' = None
       => first' = None /\ later' = {} /\ (reading' => xa')]_vars

\* A call that starts with no answer outstanding returns, if the program keeps
\* up with the drive: no wait in it is for something that never comes.
CallsReturn == (call # None /\ clean /\ speed = "fast") ~> (call = None)
=============================================================================
