------------------------------- MODULE NotePool -------------------------------
(***************************************************************************)
(* What the MIDI voice allocator promises its listener: a pool of at most  *)
(* Polyphony sounding notes.  A struck note joins the pool as its newest;  *)
(* when the pool is full, and only then, the note struck longest ago makes *)
(* room.  A released note leaves the pool.                                 *)
(***************************************************************************)
EXTENDS Naturals, FiniteSets

CONSTANTS Key,           \* the notes that can be struck
          Polyphony      \* how many can sound at once

VARIABLES held,          \* the notes that sound
          older          \* <<j, k>>: j was struck before k

Sounding == <<held, older>>

Among(ks) == {p \in older : p[1] \in ks /\ p[2] \in ks}

PoolInit == held = {} /\ older = {}

\* The notes of the pool that stay when k is struck.
Survivors(k) ==
  IF k \in held THEN held \ {k}
  ELSE IF Cardinality(held) < Polyphony THEN held
  ELSE {j \in held : \E i \in held : <<i, j>> \in older}

Strike(k) ==
  /\ held' = Survivors(k) \cup {k}
  /\ older' = Among(Survivors(k)) \cup (Survivors(k) \X {k})

Release(k) ==
  /\ k \in held
  /\ held' = held \ {k}
  /\ older' = Among(held \ {k})

\* The player is reset: everything stops at once.
Silence ==
  /\ held' = {}
  /\ older' = {}

\* What is struck sounds afterwards.
PoolNext ==
  \/ Silence
  \/ \E k \in held : Release(k)
  \/ \E k \in Key \cap held' : Strike(k)

PoolSpec == PoolInit /\ [][PoolNext]_Sounding
=============================================================================
