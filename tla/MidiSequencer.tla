---------------------------- MODULE MidiSequencer ----------------------------
(***************************************************************************)
(* The timekeeping of the MIDI player (src/src/orelei/midi.c): how an      *)
(* update turns microseconds into ticks under a tempo that events change,  *)
(* and which events of which track it plays.  What a note event does to    *)
(* the voices is OreleiMidi's concern, and MidiPlayer composes the two.    *)
(*                                                                         *)
(* A track is a sequence of events, each after its delta in ticks.  After  *)
(* the last event the code reads one delta more, past the track's end.     *)
(***************************************************************************)
EXTENDS Integers, Sequences

CONSTANTS
  Files,       \* the files that may be loaded: [divisions, tracks]
  Times,       \* time_advanced_us of the updates
  AfterEnd,    \* the deltas that may be read past a track's end
  ByteBase,    \* 2^8
  InitTempo,   \* 500000 in the code
  MaxUpdates   \* bound on the updates of a behaviour

ASSUME TempoAssumption == InitTempo \in Nat \ {0} /\ ByteBase \in Nat \ {0, 1}
ASSUME InputAssumption ==
  Times \subseteq Nat /\ AfterEnd \subseteq Nat /\ MaxUpdates \in Nat

Byte   == 0 .. ByteBase - 1
Events == [delta : Nat, kind : {"on", "off"}, ch : Nat, note : Nat]
            \cup [delta : Nat, kind : {"tempo"}, bytes : [1 .. 3 -> Byte]]

ASSUME FilesAssumption ==
  \A f \in Files : f.divisions \in Nat /\ f.tracks \in Seq(Seq(Events) \ {<<>>})

VARIABLES
  pc,        \* idle, play, or trap: a division by zero
  file,      \* the file loaded: midi_divisions and the tracks
  waiting,   \* T->ticks_waiting of every track
  next,      \* T->mptr: the next event of every track
  tempo,     \* midi_tempo
  accum,     \* midi_tick_accum
  track,     \* the track the update is at
  updates,   \* updates so far, for the bound
  ticks,     \* history: ticks since the last reset
  elapsed,   \* history: the time advanced, each update times its divisions
  charged,   \* history: the ticks advanced, each update times its tempo
  written    \* history: the tempo the last tempo event says

vars == <<pc, file, waiting, next, tempo, accum, track, updates, ticks, elapsed, charged, written>>

-----------------------------------------------------------------------------
Tracks == 1 .. Len(file.tracks)

\* The delta read at event n of a track, or past its last one.
Deltas(t, n) == IF n <= Len(t) THEN {t[n].delta} ELSE AfterEnd

Nothing == [divisions |-> 0, tracks |-> <<>>]

Init ==
  /\ pc = "idle" /\ file = Nothing
  /\ waiting = <<>> /\ next = <<>>
  /\ tempo = InitTempo /\ accum = 0 /\ track = 0
  /\ updates = 0 /\ ticks = 0 /\ elapsed = 0 /\ charged = 0 /\ written = InitTempo

\* orelei_midi_reset rewinds the tracks of f and reads their first deltas;
\* tempo and accumulator stay.
Rewind(f) ==
  /\ file' = f
  /\ next' = [i \in 1 .. Len(f.tracks) |-> 1]
  /\ waiting' = [i \in 1 .. Len(f.tracks) |-> f.tracks[i][1].delta]
  /\ ticks' = 0
  /\ UNCHANGED <<pc, tempo, accum, track, updates, elapsed, charged, written>>

Load(f) == pc = "idle" /\ Rewind(f)
Reset   == pc = "idle" /\ Rewind(file)

\* The ticks of an update of us microseconds and what is left over (mutant:
\* the remainder of the update before is forgotten).
AdvanceForgetful(us) == [ticks |-> (file.divisions * us) \div tempo,
                         left  |-> (file.divisions * us) % tempo]
Advance(us) ==
  LET base == file.divisions * us
      sum  == accum + (base % tempo)
  IN [ticks |-> (base \div tempo) + (sum \div tempo), left |-> sum % tempo]

\* orelei_midi_update is entered: microseconds become ticks, and the loop over
\* the tracks begins.  A tempo of 0 traps.
Update(us) ==
  /\ pc = "idle"
  /\ updates < MaxUpdates
  /\ updates' = updates + 1
  /\ IF tempo = 0
     THEN /\ pc' = "trap"
          /\ UNCHANGED <<accum, waiting, ticks, elapsed, charged>>
     ELSE /\ pc' = "play"
          /\ accum' = Advance(us).left
          /\ ticks' = ticks + Advance(us).ticks
          /\ waiting' = [i \in Tracks |-> waiting[i] - Advance(us).ticks]
          /\ elapsed' = elapsed + file.divisions * us
          /\ charged' = charged + Advance(us).ticks * tempo
  /\ track' = 1
  /\ UNCHANGED <<file, next, tempo, written>>

\* The three bytes of a tempo event, and what the code makes of them: it reads
\* the first byte three times.
Value(b)     == (b[1] * ByteBase + b[2]) * ByteBase + b[3]
ReadTempo(b) == (b[1] * ByteBase + b[1]) * ByteBase + b[1]

\* A track's turn goes on as long as this holds (mutant: an event due exactly
\* now is left for the next update).
DueLate(i) == waiting[i] < 0
Due(i)     == waiting[i] <= 0

\* The wait for the event after a delta (mutant: counted from the update).
WaitFromNow(i, d)  == d
WaitFromLast(i, d) == waiting[i] + d

\* One event is played, and the next delta is read.
PlayEvent ==
  LET t == file.tracks[track]
      e == t[next[track]]
  IN
  /\ pc = "play"
  /\ track \in Tracks
  /\ Due(track) /\ next[track] <= Len(t)
  /\ IF e.kind = "tempo"
     THEN tempo' = ReadTempo(e.bytes) /\ written' = Value(e.bytes)
     ELSE UNCHANGED <<tempo, written>>
  /\ next' = [next EXCEPT ![track] = @ + 1]
  /\ \E d \in Deltas(t, next[track] + 1) :
       waiting' = [waiting EXCEPT ![track] = WaitFromLast(track, d)]
  /\ UNCHANGED <<pc, file, accum, track, updates, ticks, elapsed, charged>>

\* The track waits or has ended.
NextTrack ==
  /\ pc = "play"
  /\ track \in Tracks
  /\ ~(Due(track) /\ next[track] <= Len(file.tracks[track]))
  /\ track' = track + 1
  /\ UNCHANGED <<pc, file, waiting, next, tempo, accum, updates, ticks, elapsed, charged, written>>

EndUpdate ==
  /\ pc = "play"
  /\ track \notin Tracks
  /\ pc' = "idle" /\ track' = 0
  /\ UNCHANGED <<file, waiting, next, tempo, accum, updates, ticks, elapsed, charged, written>>
-----------------------------------------------------------------------------
Next ==
  \/ \E f \in Files : Load(f)
  \/ Reset
  \/ \E us \in Times : Update(us)
  \/ PlayEvent
  \/ NextTrack
  \/ EndUpdate

Spec == Init /\ [][Next]_vars
-----------------------------------------------------------------------------
(***************************************************************************)
(* Properties                                                              *)
(***************************************************************************)
\* No time is lost or gained: the ticks, each at the tempo it was counted
\* under, and the remainder account for every microsecond, over any sequence
\* of updates, tempo changes, resets and loads.
TimeConserved == elapsed = charged + accum

\* The tick at which event n of track i is due, from the start of the file.
DueAt(i, n) ==
  LET sum[m \in 0 .. n] == IF m = 0 THEN 0 ELSE sum[m - 1] + file.tracks[i][m].delta
  IN sum[n]

\* Between updates exactly the events due by now have been played, in every
\* track: lateness of one event never delays the next.
PlayedOnTime ==
  pc = "idle" /\ ticks > 0 =>
    \A i \in Tracks : \A n \in 1 .. Len(file.tracks[i]) :
      n < next[i] <=> DueAt(i, n) <= ticks

\* The tempo is the three-byte value of the last tempo event.
TempoAsWritten == tempo = written
=============================================================================
