-------------------------- MODULE MCMidiSequencer --------------------------
(***************************************************************************)
(* MidiSequencer for TLC: small files.  Bytes have base 4, so that tempos  *)
(* are small; a quarter note has 3 ticks.                                  *)
(***************************************************************************)
EXTENDS MidiSequencer

Note(d)     == [delta |-> d, kind |-> "on", ch |-> 0, note |-> 0]
Tempo(d, b) == [delta |-> d, kind |-> "tempo", bytes |-> b]

Tune(ts) == [divisions |-> 3, tracks |-> ts]

\* A tempo track beside a note track, as format 1 has them, a single track
\* that changes its own tempo, two note tracks, and a tempo with a first byte
\* of 0.
MCFiles ==
  { Tune(<< <<Tempo(d, <<1, 0, 2>>), Tempo(2, <<2, 2, 2>>)>>, <<Note(0), Note(e), Note(1)>> >>) :
      d \in {0, 2}, e \in {0, 3} }
  \cup { Tune(<< <<Note(1), Tempo(0, <<1, 1, 1>>), Note(2), Tempo(1, <<3, 0, 0>>), Note(4)>> >>),
         Tune(<< <<Note(2), Note(2)>>, <<Note(3)>> >>),
         Tune(<< <<Tempo(1, <<0, 3, 0>>), Note(3)>> >>) }
=============================================================================
