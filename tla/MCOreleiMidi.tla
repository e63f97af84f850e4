---------------------------- MODULE MCOreleiMidi ----------------------------
(***************************************************************************)
(* OreleiMidi for TLC, and the note pool it implements.                    *)
(***************************************************************************)
EXTENDS OreleiMidi, FiniteSets

\* The notes held, and which of them was struck earlier.  Before the first
\* load the zeroed table stands for no note at all.
HeldVoices == {v \in Voices : loaded /\ Held(v)}
KeyOf(v)   == <<slave[v].ch, slave[v].note>>
HeldKeys   == {KeyOf(v) : v \in HeldVoices}
OlderKeys  ==
  {<<KeyOf(p[1]), KeyOf(p[2])>> :
     p \in {q \in HeldVoices \X HeldVoices :
              slave[q[1]].last_touched < slave[q[2]].last_touched}}

Pool == INSTANCE NotePool WITH
          Key <- Channels \X Notes, Polyphony <- NumVoices,
          held <- HeldKeys, older <- OlderKeys

\* The allocator implements the pool while its stamps do not wrap: reuse of a
\* voice, the choice of a free one and the eviction of the longest-untouched
\* one (midi_note_on) lose no note but the oldest, and only from a full pool.
PoolSpec == Pool!PoolSpec
=============================================================================
