----------------------------- MODULE MCMidiPlayer -----------------------------
(***************************************************************************)
(* MidiPlayer for TLC: small files for two voices.  Bytes have base 4, so  *)
(* that tempos are small; a quarter note has 3 ticks.                      *)
(***************************************************************************)
EXTENDS MidiPlayer

On(d, n)    == [delta |-> d, kind |-> "on", ch |-> 0, note |-> n]
Off(d, n)   == [delta |-> d, kind |-> "off", ch |-> 0, note |-> n]
Tempo(d, b) == [delta |-> d, kind |-> "tempo", bytes |-> b]

Tune(ts) == [divisions |-> 3, tracks |-> ts]

\* A tempo track beside a note track, as format 1 has them, whose note is
\* struck again while it sounds; a single track that changes its own tempo;
\* two note tracks; a tempo with a first byte of 0; a note that two tracks
\* play; and more notes than voices.
MCFiles ==
  { Tune(<< <<Tempo(d, <<1, 0, 2>>), Tempo(2, <<2, 2, 2>>)>>,
            <<On(0, 0), On(e, 0), Off(1, 0)>> >>) : d \in {0, 2}, e \in {0, 3} }
  \cup { Tune(<< <<On(1, 0), Tempo(0, <<1, 1, 1>>), Off(2, 0), Tempo(1, <<3, 0, 0>>), On(4, 1)>> >>),
         Tune(<< <<On(2, 0), Off(2, 0), On(2, 0)>>, <<On(3, 1), On(2, 1), Off(1, 1)>> >>),
         Tune(<< <<Tempo(1, <<0, 3, 0>>), On(3, 0)>> >>),
         Tune(<< <<On(1, 0), Off(2, 0)>>, <<Off(1, 0), On(3, 0)>> >>),
         Tune(<< <<On(0, 0), On(1, 1), On(2, 2), Off(1, 0), Off(1, 2)>> >>) }
=============================================================================
