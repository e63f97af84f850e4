------------------------------- MODULE Triangle -------------------------------
(***************************************************************************)
(* The double-buffered example (src/examples/chenboot_triangle/main.c) and *)
(* the interrupt dispatch of chenboot (src/src/chenboot/chenboot.S) below  *)
(* it.                                                                     *)
(*                                                                         *)
(* The main loop draws into the buffer that is not on the screen, moves    *)
(* the triangle once for every vertical blank counted, publishes the       *)
(* buffer in out_vidy and spins until the interrupt handler, which counts  *)
(* the blanks in vblank_counter, has put it on the screen.  Interrupts     *)
(* come between any two accesses to the shared variables.  The GPU and the *)
(* interrupt controller are outside the repository.                        *)
(***************************************************************************)
EXTENDS Integers

CONSTANTS
  CounterMod,   \* vblank_counter is a uint32_t: 2^32
  MaxBehind     \* bound: blanks that pass while a turn of the loop is drawn

ASSUME CounterAssumption ==
  MaxBehind \in Nat \ {0} /\ CounterMod \in Nat /\ MaxBehind + 1 < CounterMod

VARIABLES
  pc,          \* main's place
  vidy,        \* the buffer main draws into
  pose,        \* the triangle: x, y, vx, vy
  vblanks,     \* blanks counted in the last turn
  moves,       \* of these, those the triangle has not been moved for: vblanks - i
  expected,    \* expected_vblank_counter
  temp,        \* a caller-saved register: the shared variable main has just read
  counter,     \* vblank_counter
  out,         \* out_vidy
  realOut,     \* real_out_vidy
  isr,         \* the handler's place; none while main runs
  frame,       \* the exception frame: the registers saved
  enabled,     \* CPU: IEc and Im2; and the mask, which is set last
  pending,     \* I_STAT: a vertical blank
  display,     \* GPU: the start of the display area
  canvas,      \* GPU: what each buffer holds
  owed         \* history: blanks handled since the reset, less the moves made

main     == <<pc, vidy, pose, vblanks, moves, expected, temp>>
shared   == <<counter, out, realOut>>
dispatch == <<isr, frame, enabled, pending>>
gpu      == <<display, canvas>>
vars     == <<main, shared, dispatch, gpu, owed>>

Buffers == {0, 200}
Wrap(n) == n % CounterMod

Init ==
  /\ pc = "setup" /\ vidy = 0
  /\ pose = [x |-> 0, y |-> -45, vx |-> 4, vy |-> 0]
  /\ vblanks = 0 /\ moves = 0 /\ expected = 0 /\ temp = 0
  /\ counter = 0 /\ out = 0 /\ realOut = 0
  /\ isr = "none" /\ frame = 0 /\ enabled = FALSE /\ pending = FALSE
  /\ display = 0 /\ canvas = [b \in Buffers |-> "junk"]
  /\ owed = 0

-----------------------------------------------------------------------------
(* The main program; it stands still while the handler runs. *)

Main(from, to) == pc = from /\ isr = "none" /\ pc' = to

\* The handler is installed, interrupts are acknowledged and enabled.
Setup ==
  /\ Main("setup", "show")
  /\ pending' = FALSE /\ enabled' = TRUE
  /\ UNCHANGED <<vidy, pose, vblanks, moves, expected, temp, shared, isr, frame, gpu, owed>>

\* The GPU shows the first buffer, cleared.
ShowFirst ==
  /\ Main("show", "zero")
  /\ display' = vidy /\ canvas' = [canvas EXCEPT ![vidy] = "whole"]
  /\ UNCHANGED <<vidy, pose, vblanks, moves, expected, temp, shared, dispatch, owed>>

ZeroCounter ==
  /\ Main("zero", "swap")
  /\ counter' = 0 /\ expected' = 0 /\ vblanks' = 0 /\ owed' = 0
  /\ UNCHANGED <<vidy, pose, moves, temp, out, realOut, dispatch, gpu>>

\* The buffer to draw into (mutant: the one that was shown).
SameBuffer  == vidy
OtherBuffer == 200 - vidy

\* The other buffer is cleared, and a triangle is drawn there.
Clear ==
  /\ Main("swap", "draw")
  /\ vidy' = OtherBuffer
  /\ canvas' = [canvas EXCEPT ![vidy'] = "partial"]
  /\ UNCHANGED <<pose, vblanks, moves, expected, temp, shared, dispatch, display, owed>>

Draw ==
  /\ Main("draw", "move")
  /\ canvas' = [canvas EXCEPT ![vidy] = "whole"]
  /\ moves' = vblanks
  /\ UNCHANGED <<vidy, pose, vblanks, expected, temp, shared, dispatch, display, owed>>

\* A step of the physics (mutant: the bounce keeps the depth below the floor).
FallSunk(p) ==
  LET vy == p.vy + 1
      y == p.y + vy
  IN IF y >= 30 THEN [p EXCEPT !.y = y, !.vy = -vy] ELSE [p EXCEPT !.y = y, !.vy = vy]

Fall(p) ==
  LET vy == p.vy + 1
      y == p.y + vy
  IN IF y >= 30 THEN [p EXCEPT !.y = 60 - y, !.vy = -vy] ELSE [p EXCEPT !.y = y, !.vy = vy]

Drift(p) ==
  LET x == p.x + p.vx
  IN CASE x >= 100 /\ p.vx > 0  -> [p EXCEPT !.x = 200 - x, !.vx = -p.vx]
       [] x <= -100 /\ p.vx < 0 -> [p EXCEPT !.x = -200 - x, !.vx = -p.vx]
       [] OTHER -> [p EXCEPT !.x = x]

Move ==
  /\ Main("move", "move")
  /\ moves > 0
  /\ moves' = moves - 1
  /\ pose' = Drift(Fall(pose))
  /\ owed' = Wrap(owed - 1)
  /\ UNCHANGED <<vidy, vblanks, expected, temp, shared, dispatch, gpu>>

\* out_vidy = vidy
Publish ==
  /\ Main("move", "read")
  /\ moves = 0
  /\ out' = vidy
  /\ UNCHANGED <<vidy, pose, vblanks, moves, expected, temp, counter, realOut, dispatch, gpu, owed>>

\* while(out_vidy != real_out_vidy): one read after the other.
ReadOut ==
  /\ Main("read", "compare")
  /\ temp' = out
  /\ UNCHANGED <<vidy, pose, vblanks, moves, expected, shared, dispatch, gpu, owed>>

Compare ==
  /\ pc = "compare" /\ isr = "none"
  /\ pc' = IF temp = realOut THEN "count" ELSE "read"
  /\ UNCHANGED <<vidy, pose, vblanks, moves, expected, temp, shared, dispatch, gpu, owed>>

\* vblanks = vblank_counter - expected_vblank_counter, read and subtracted.
ReadCounter ==
  /\ Main("count", "expect")
  /\ temp' = counter
  /\ UNCHANGED <<vidy, pose, vblanks, moves, expected, shared, dispatch, gpu, owed>>

\* The counter up to which blanks have been counted (mutant: it is read again).
CountedByNow == counter
Counted      == Wrap(expected + vblanks')

Count ==
  /\ Main("expect", "swap")
  /\ vblanks' = Wrap(temp - expected)
  /\ expected' = Counted
  /\ UNCHANGED <<vidy, pose, moves, temp, shared, dispatch, gpu, owed>>

-----------------------------------------------------------------------------
(* The interrupt. *)

\* A vertical blank begins.  A program that keeps up is at most MaxBehind
\* blanks behind when it has nothing to wait for.
Vblank ==
  /\ ~pending
  /\ owed < MaxBehind \/ out # realOut
  /\ pending' = TRUE
  /\ UNCHANGED <<main, shared, isr, frame, enabled, gpu, owed>>

\* __chenboot_isr saves the registers and calls the hook, isr_main.
Dispatch ==
  /\ isr = "none" /\ enabled /\ pending
  /\ isr' = "handle" /\ frame' = temp
  /\ UNCHANGED <<main, shared, enabled, pending, gpu, owed>>

\* real_out_vidy (mutant: it is not assigned).
NotAssigned == realOut
Shown       == out

\* The handler counts the blank and shows the buffer published last.  It uses
\* main's caller-saved registers.
Handle ==
  /\ isr = "handle"
  /\ isr' = "leave"
  /\ counter' = Wrap(counter + 1)
  /\ display' = out /\ realOut' = Shown
  /\ temp' \in Buffers
  /\ owed' = Wrap(owed + 1)
  /\ UNCHANGED <<pc, vidy, pose, vblanks, moves, expected, out, frame, enabled, pending, canvas>>

\* The registers the epilogue loads (mutant: as the handler left them).
Unrestored == temp
Restored   == frame

\* It acknowledges the flags it has read, and the dispatcher restores.
Leave ==
  /\ isr = "leave"
  /\ isr' = "none" /\ pending' = FALSE /\ temp' = Restored
  /\ UNCHANGED <<pc, vidy, pose, vblanks, moves, expected, shared, frame, enabled, gpu, owed>>

-----------------------------------------------------------------------------
MainStep ==
  \/ Setup \/ ShowFirst \/ ZeroCounter
  \/ Clear \/ Draw \/ Move \/ Publish \/ ReadOut \/ Compare \/ ReadCounter \/ Count

Handler == Dispatch \/ Handle \/ Leave

Next == MainStep \/ Vblank \/ Handler

\* The processor runs on, and the screen is refreshed for ever.
Fairness == WF_vars(MainStep) /\ WF_vars(Handler) /\ WF_vars(Vblank)

Spec == Init /\ [][Next]_vars /\ Fairness
-----------------------------------------------------------------------------
(***************************************************************************)
(* Properties                                                              *)
(***************************************************************************)
Counters == 0 .. CounterMod - 1

\* The types of the variables.  In particular the triangle, which reaches 60
\* to the sides, 50 up and 70 down, never leaves the 320x200 picture: the
\* motion of integers neither gains nor loses height for ever.
TypeOK ==
  /\ pc \in {"setup", "show", "zero", "swap", "draw", "move", "read", "compare", "count", "expect"}
  /\ isr \in {"none", "handle", "leave"}
  /\ {vidy, out, realOut, display} \subseteq Buffers
  /\ {temp, frame} \subseteq Buffers \cup Counters
  /\ {vblanks, moves, expected, counter, owed} \subseteq Counters
  /\ pose.x \in -100 .. 100 /\ pose.y \in -50 .. 30
  /\ canvas \in [Buffers -> {"junk", "partial", "whole"}]

\* From the main loop on, what is on the screen is a whole picture: main never
\* draws where the screen looks, whenever the interrupt comes.
WholePictures ==
  pc \notin {"setup", "show"} => canvas[display] = "whole"

\* The blanks of the last turn for which the triangle has not been moved.
Unmoved == CASE pc \in {"swap", "draw"} -> vblanks [] pc = "move" -> moves [] OTHER -> 0

\* The triangle moves once for each vertical blank, no more and no less, and
\* not before it: the blanks not moved for yet are those of the last turn and
\* those that the next reading of the counter will find, also when it wraps.
TimeKept ==
  pc \notin {"setup", "show", "zero"} =>
    owed = Wrap(Unmoved + counter - expected) /\ Unmoved <= owed

\* Both buffers are shown again and again: main never waits for a blank that
\* has gone by.
KeepsShowing == []<>(display = 0) /\ []<>(display = 200)
=============================================================================
