--------------------------- MODULE OreleiMidiProofs ---------------------------
(***************************************************************************)
(* Theorems about the MIDI voice allocator, for any number of voices,      *)
(* channels, notes and bends and any width of the touch counter.           *)
(***************************************************************************)
EXTENDS MCOreleiMidi, WellFoundedInduction, FunctionTheorems, FiniteSetTheorems, TLAPS

\* A non-empty set of naturals has a least element.
LEMMA MinExists ==
  ASSUME NEW S \in SUBSET Nat, S # {}
  PROVE  \E m \in S : \A w \in S : m <= w
<1>1. PICK x \in S : \A y \in S : ~(<<y, x>> \in OpToRel(<, Nat))
  BY NatLessThanWellFounded, WFMin
<1>2. \A y \in S : ~(y < x)
  BY <1>1 DEF OpToRel
<1> QED
  BY <1>2

\* First finds the least voice of a non-empty set.
LEMMA FirstIsMember ==
  ASSUME NEW S \in SUBSET Voices, S # {}
  PROVE  First(S) \in S
<1>1. \E m \in S : \A w \in S : m <= w
  BY MinExists, SizesAssumption DEF Voices
<1> QED
  BY <1>1 DEF First

\* Some voice of a non-empty set carries the smallest stamp.
LEMMA StalestNonEmpty ==
  ASSUME TypeOK, NEW S \in SUBSET Voices, S # {}
  PROVE  Stalest(S) # {} /\ Stalest(S) \subseteq S
<1> DEFINE stamps == {slave[v].last_touched : v \in S}
<1>1. stamps \in SUBSET Nat /\ stamps # {}
  BY TouchAssumption DEF TypeOK, Slaves
<1>2. PICK t \in stamps : \A u \in stamps : t <= u
  BY <1>1, MinExists
<1>3. PICK v \in S : slave[v].last_touched = t
  BY <1>2
<1>4. v \in Stalest(S)
  BY <1>2, <1>3 DEF Stalest
<1> QED
  BY <1>4 DEF Stalest

\* midi_note_on always finds a voice (its ASSERT): the note's own if it has
\* one, else a free one if there is one, else one with the smallest stamp.
LEMMA PickVoiceCorrect ==
  ASSUME TypeOK, NEW c \in Channels, NEW n \in Notes
  PROVE  /\ PickVoice(c, n) \in Voices
         /\ Owners(c, n) # {} => PickVoice(c, n) \in Owners(c, n)
         /\ Owners(c, n) = {} /\ FreeVoices # {} => PickVoice(c, n) \in FreeVoices
         /\ Owners(c, n) = {} /\ FreeVoices = {} => PickVoice(c, n) \in Stalest(Voices)
<1>1. Owners(c, n) \in SUBSET Voices /\ FreeVoices \in SUBSET Voices
  BY DEF Owners, FreeVoices
<1>2. Voices # {} /\ Voices \in SUBSET Voices
  BY SizesAssumption DEF Voices
<1>3. CASE Owners(c, n) # {}
  BY <1>1, <1>3, FirstIsMember DEF PickVoice
<1>4. CASE Owners(c, n) = {} /\ FreeVoices # {}
  <2>1. Stalest(FreeVoices) # {} /\ Stalest(FreeVoices) \subseteq FreeVoices
    BY <1>1, <1>4, StalestNonEmpty
  <2>2. Stalest(FreeVoices) \in SUBSET Voices
    BY <1>1, <2>1
  <2>3. First(Stalest(FreeVoices)) \in Stalest(FreeVoices)
    BY <2>1, <2>2, FirstIsMember
  <2> QED
    BY <1>1, <1>4, <2>1, <2>3 DEF PickVoice, LongestUntouched
<1>5. CASE Owners(c, n) = {} /\ FreeVoices = {}
  <2>1. Stalest(Voices) # {} /\ Stalest(Voices) \subseteq Voices
    BY <1>2, StalestNonEmpty
  <2>2. First(Stalest(Voices)) \in Stalest(Voices)
    BY <2>1, FirstIsMember
  <2> QED
    BY <1>5, <2>1, <2>2 DEF PickVoice, LongestUntouched
<1> QED
  BY <1>3, <1>4, <1>5
-----------------------------------------------------------------------------
LEMMA TypeInit == Init => TypeOK
<1>1. 0 \in Channels /\ 0 \in Notes /\ 0 \in 0 .. TouchMod - 1
  BY SizesAssumption, TouchAssumption DEF Channels, Notes
<1> SUFFICES ASSUME Init PROVE TypeOK
  OBVIOUS
<1>2. slave \in [Voices -> Slaves]
  BY <1>1 DEF Init, Slaves
<1>3. master \in [Channels -> Masters]
  BY <1>1 DEF Init, Masters
<1>4. regs \in [Voices -> Tones]
  BY <1>1 DEF Init, Tones, Tone
<1> QED
  BY <1>1, <1>2, <1>3, <1>4 DEF Init, TypeOK

LEMMA TypeStep == TypeOK /\ [Next]_vars => TypeOK'
<1> SUFFICES ASSUME TypeOK, [Next]_vars PROVE TypeOK'
  OBVIOUS
<1>1. ASSUME MidiReset PROVE /\ slave' \in [Voices -> Slaves]
                             /\ master' \in [Channels -> Masters]
                             /\ touch' \in 0 .. TouchMod - 1
                             /\ newOff' \subseteq Voices
  BY <1>1, SizesAssumption, TouchAssumption
     DEF MidiReset, TypeOK, Slaves, Masters, FreeSlave, DefaultMaster, Notes
<1>2. CASE Reset
  BY <1>1, <1>2 DEF Reset, TypeOK
<1>3. CASE Load
  BY <1>1, <1>3 DEF Load, TypeOK
<1>4. CASE BeginUpdate
  BY <1>4 DEF BeginUpdate, TypeOK
<1>5. CASE EndUpdate
  BY <1>5 DEF EndUpdate, TypeOK, WriteKeys
<1>6. ASSUME NEW c \in Channels, NEW n \in Notes, NoteOn(c, n) PROVE TypeOK'
  <2>1. PickVoice(c, n) \in Voices
    BY PickVoiceCorrect
  <2>2. touch' \in 0 .. TouchMod - 1
    BY <1>6, TouchAssumption DEF NoteOn, TypeOK
  <2>3. slave' \in [Voices -> Slaves]
    BY <1>6, <2>1, <2>2 DEF NoteOn, TypeOK, Slaves
  <2>4. regs' \in [Voices -> Tones]
    BY <1>6, <2>1 DEF NoteOn, TypeOK, Tones, Tone, Masters
  <2> QED
    BY <1>6, <2>1, <2>2, <2>3, <2>4 DEF NoteOn, TypeOK
<1>7. ASSUME NEW c \in Channels, NEW n \in Notes, NoteOff(c, n) PROVE TypeOK'
  <2>1. First(Owners(c, n)) \in Voices
    BY <1>7, FirstIsMember DEF NoteOff, Owners
  <2> QED
    BY <1>7, <2>1 DEF NoteOff, TypeOK, Slaves
<1>8. ASSUME NEW c \in Channels, NEW b \in DataBytes,
             SelectRpnLo(c, b) \/ SelectRpnHi(c, b) \/ DataEntry(c, b)
      PROVE  TypeOK'
  <2>1. b \in 0 .. 127
    BY DataAssumption
  <2>2. b * 128 \in Nat
    BY <2>1
  <2>3. master' \in [Channels -> Masters]
    BY <1>8, <2>1, <2>2 DEF SelectRpnLo, SelectRpnHi, DataEntry, TypeOK, Masters
  <2> QED
    BY <1>8, <2>3 DEF SelectRpnLo, SelectRpnHi, DataEntry, TypeOK
<1>9. ASSUME NEW c \in Channels, NEW raw \in RawBends, PitchBend(c, raw)
      PROVE  TypeOK'
  <2> DEFINE w == Wheel(raw, master[c].wheel_depth)
  <2>1. raw \in -8192 .. 8191
    BY DataAssumption
  <2>2. master[c].wheel_depth \in Int
    BY DEF TypeOK, Masters
  <2>3. w \in Int
    BY <2>1, <2>2 DEF Wheel
  <2> HIDE DEF w
  <2>4. master' \in [Channels -> Masters]
    BY <1>9, <2>3 DEF PitchBend, TypeOK, Masters, w
  <2>5. regs' \in [Voices -> Tones]
    BY <1>9, <2>3 DEF PitchBend, TypeOK, Tones, w
  <2> QED
    BY <1>9, <2>4, <2>5 DEF PitchBend, TypeOK
<1>10. CASE UNCHANGED vars
  BY <1>10 DEF vars, TypeOK
<1> QED
  BY <1>2, <1>3, <1>4, <1>5, <1>6, <1>7, <1>8, <1>9, <1>10
     DEF Next, ChannelEvent

\* Type correctness of the allocator and the key queue.
THEOREM TypeCorrect == Spec => []TypeOK
<1> QED
  BY TypeInit, TypeStep, PTL DEF Spec
-----------------------------------------------------------------------------
(***************************************************************************)
(* The invariant behind the two properties of held voices.  OneVoicePerNote*)
(* is inductive with the types.  HeldVoicesSound is not: in the middle of  *)
(* an update a held voice may still be silent, but then its key on is      *)
(* queued, and a queued key on wins over a queued key off.                 *)
(***************************************************************************)
KeysAgree ==
  loaded => \A v \in Voices : Held(v) =>
    /\ v \in newOn \/ (v \in keyed /\ v \notin newOff)
    /\ regs[v] = Tone(slave[v].ch, slave[v].note, master[slave[v].ch].wheel)

QueueDrained == ~updating => newOn = {}

VoiceInv == TypeOK /\ OneVoicePerNote /\ KeysAgree /\ QueueDrained

LEMMA VoiceInvInit == Init => VoiceInv
<1> QED
  BY TypeInit DEF Init, VoiceInv, OneVoicePerNote, KeysAgree, QueueDrained

\* midi_note_on keeps the invariant: the only voice of the note is reused,
\* and whichever voice is taken gets its key on queued.
LEMMA NoteOnKeepsVoiceInv ==
  ASSUME VoiceInv, NEW c \in Channels, NEW n \in Notes, NoteOn(c, n)
  PROVE  (OneVoicePerNote /\ KeysAgree /\ QueueDrained)'
<1> DEFINE p == PickVoice(c, n)
<1>1. TypeOK /\ loaded /\ updating
  BY DEF VoiceInv, NoteOn, InEvent
<1>2. p \in Voices /\ (Owners(c, n) # {} => p \in Owners(c, n))
  BY <1>1, PickVoiceCorrect
<1> HIDE DEF p
<1>3. /\ slave'[p].ch = c /\ slave'[p].note = n
      /\ \A v \in Voices \ {p} : slave'[v] = slave[v] /\ regs'[v] = regs[v]
      /\ regs'[p] = Tone(c, n, master[c].wheel)
  BY <1>1, <1>2 DEF NoteOn, TypeOK, p
<1>4. OneVoicePerNote'
  <2>1. ASSUME NEW v \in Voices \ {p}, slave[v].ch = c, slave[v].note = n
        PROVE  FALSE
    <3>1. v \in Owners(c, n) /\ Held(v)
      BY <2>1, SizesAssumption DEF Owners, Held, Free, Channels
    <3>2. p \in Owners(c, n)
      BY <1>2, <3>1
    <3> QED
      BY <1>1, <2>1, <3>1, <3>2 DEF VoiceInv, OneVoicePerNote, Owners
  <2> QED
    BY <1>1, <1>2, <1>3, <2>1 DEF VoiceInv, OneVoicePerNote, Held
<1>5. KeysAgree'
  <2>1. p \in newOn' /\ newOn \subseteq newOn' /\ keyed' = keyed /\ master' = master
    BY DEF NoteOn, p
  <2>2. \A v \in Voices \ {p} : v \in newOff' => v \in newOff
    BY DEF NoteOn, p
  <2> QED
    BY <1>1, <1>3, <2>1, <2>2 DEF VoiceInv, KeysAgree, Held, Tone
<1>6. QueueDrained'
  BY <1>1 DEF NoteOn, QueueDrained
<1> QED
  BY <1>4, <1>5, <1>6

\* midi_note_off keeps the invariant: it frees the one voice it keys off.
LEMMA NoteOffKeepsVoiceInv ==
  ASSUME VoiceInv, NEW c \in Channels, NEW n \in Notes, NoteOff(c, n)
  PROVE  (OneVoicePerNote /\ KeysAgree /\ QueueDrained)'
<1> DEFINE p == First(Owners(c, n))
<1>1. TypeOK /\ loaded /\ updating
  BY DEF VoiceInv, NoteOff, InEvent
<1>2. p \in Voices
  BY FirstIsMember DEF NoteOff, Owners
<1> HIDE DEF p
<1>3. /\ slave'[p].ch = Free
      /\ \A v \in Voices \ {p} : slave'[v] = slave[v]
  BY <1>1, <1>2 DEF NoteOff, TypeOK, p
<1>4. newOff' = newOff \cup {p}
  BY DEF NoteOff, p
<1>5. OneVoicePerNote'
  BY <1>1, <1>2, <1>3 DEF NoteOff, VoiceInv, OneVoicePerNote, Held
<1>6. KeysAgree'
  BY <1>1, <1>2, <1>3, <1>4 DEF NoteOff, VoiceInv, KeysAgree, Held
<1>7. QueueDrained'
  BY <1>1 DEF NoteOff, QueueDrained
<1> QED
  BY <1>5, <1>6, <1>7

\* A pitch bend reaches every voice held for its channel.
LEMMA PitchBendKeepsVoiceInv ==
  ASSUME VoiceInv, NEW c \in Channels, NEW raw \in RawBends, PitchBend(c, raw)
  PROVE  (OneVoicePerNote /\ KeysAgree /\ QueueDrained)'
<1> DEFINE w == Wheel(raw, master[c].wheel_depth)
<1>1. TypeOK /\ loaded /\ updating /\ slave' = slave /\ newOn' = newOn
      /\ newOff' = newOff /\ keyed' = keyed /\ loaded' = loaded /\ updating' = updating
  BY DEF VoiceInv, PitchBend, InEvent
<1>2. OneVoicePerNote' /\ QueueDrained'
  BY <1>1 DEF VoiceInv, OneVoicePerNote, QueueDrained, Held
<1>3. KeysAgree'
  <2> SUFFICES ASSUME NEW v \in Voices, Held(v)
               PROVE  /\ v \in newOn \/ (v \in keyed /\ v \notin newOff)
                      /\ regs'[v] = Tone(slave[v].ch, slave[v].note,
                                         master'[slave[v].ch].wheel)
    BY <1>1 DEF KeysAgree, Held
  <2>1. /\ v \in newOn \/ (v \in keyed /\ v \notin newOff)
        /\ regs[v] = Tone(slave[v].ch, slave[v].note, master[slave[v].ch].wheel)
    BY <1>1 DEF VoiceInv, KeysAgree
  <2>2. slave[v].ch \in Channels
    BY <1>1 DEF TypeOK, Slaves, Held
  <2> HIDE DEF w
  <2>3. CASE slave[v].ch = c
    <3>1. regs'[v] = [regs[v] EXCEPT !.wheel = w]
      BY <2>3 DEF PitchBend, w
    <3>2. master'[c].wheel = w
      BY <1>1 DEF PitchBend, TypeOK, Masters, w
    <3> QED
      BY <2>1, <2>3, <3>1, <3>2 DEF Tone
  <2>4. CASE slave[v].ch # c
    <3>1. regs'[v] = regs[v]
      BY <2>4 DEF PitchBend
    <3>2. master'[slave[v].ch] = master[slave[v].ch]
      BY <1>1, <2>2, <2>4 DEF PitchBend, TypeOK
    <3> QED
      BY <2>1, <3>1, <3>2
  <2> QED
    BY <2>3, <2>4
<1> QED
  BY <1>2, <1>3

LEMMA VoiceInvStep == VoiceInv /\ [Next]_vars => VoiceInv'
<1> SUFFICES ASSUME VoiceInv, [Next]_vars
             PROVE  (OneVoicePerNote /\ KeysAgree /\ QueueDrained)'
  BY TypeStep DEF VoiceInv
<1>1. TypeOK /\ TypeOK'
  BY TypeStep DEF VoiceInv
<1>2. ASSUME MidiReset, newOn' = newOn, updating' = updating
      PROVE  (OneVoicePerNote /\ KeysAgree /\ QueueDrained)'
  BY <1>2 DEF MidiReset, FreeSlave, VoiceInv, OneVoicePerNote, KeysAgree,
              QueueDrained, Held
<1>3. CASE Reset \/ Load
  BY <1>2, <1>3 DEF Reset, Load
<1>4. CASE BeginUpdate
  BY <1>4 DEF BeginUpdate, VoiceInv, OneVoicePerNote, KeysAgree, QueueDrained, Held
<1>5. CASE EndUpdate
  BY <1>5 DEF EndUpdate, WriteKeys, VoiceInv, OneVoicePerNote, KeysAgree,
              QueueDrained, Held
<1>6. ASSUME NEW c \in Channels, NEW b \in DataBytes,
             SelectRpnLo(c, b) \/ SelectRpnHi(c, b) \/ DataEntry(c, b)
      PROVE  (OneVoicePerNote /\ KeysAgree /\ QueueDrained)'
  <2>1. /\ slave' = slave /\ newOn' = newOn /\ newOff' = newOff /\ keyed' = keyed
        /\ loaded' = loaded /\ updating' = updating /\ regs' = regs
    BY <1>6 DEF SelectRpnLo, SelectRpnHi, DataEntry
  <2>2. \A d \in Channels : master'[d].wheel = master[d].wheel
    BY <1>1, <1>6 DEF SelectRpnLo, SelectRpnHi, DataEntry, TypeOK, Masters
  <2>3. \A v \in Voices : Held(v) => slave[v].ch \in Channels
    BY <1>1 DEF TypeOK, Slaves, Held
  <2> QED
    BY <2>1, <2>2, <2>3 DEF VoiceInv, OneVoicePerNote, KeysAgree, QueueDrained, Held
<1>7. CASE UNCHANGED vars
  BY <1>7 DEF vars, VoiceInv, OneVoicePerNote, KeysAgree, QueueDrained, Held
<1> QED
  BY <1>3, <1>4, <1>5, <1>6, <1>7, NoteOnKeepsVoiceInv, NoteOffKeepsVoiceInv,
     PitchBendKeepsVoiceInv DEF Next, ChannelEvent

\* No two voices are ever held for the same note: the search of midi_note_on
\* and midi_note_off may stop at its first match.
THEOREM OneVoicePerNoteHolds == Spec => []OneVoicePerNote
<1>1. VoiceInv => OneVoicePerNote
  BY DEF VoiceInv
<1> QED
  BY <1>1, VoiceInvInit, VoiceInvStep, PTL DEF Spec

\* After every update each held voice is keyed on, set up for its note and
\* bent by its channel's wheel.
THEOREM HeldVoicesSoundHolds == Spec => []HeldVoicesSound
<1>1. VoiceInv => HeldVoicesSound
  BY DEF VoiceInv, HeldVoicesSound, KeysAgree, QueueDrained
<1> QED
  BY <1>1, VoiceInvInit, VoiceInvStep, PTL DEF Spec
-----------------------------------------------------------------------------
\* A voice held for no note has no key on queued, and is off or about to be.
QuietInv ==
  \A v \in Voices : ~Held(v) => v \notin newOn /\ (v \notin keyed \/ v \in newOff)

\* FreeVoicesQuiet needs files whose notes outlast an update: a note released
\* in the update that struck it leaves both key bits queued, and the key on is
\* written last.
LEMMA QuietStep ==
  TypeOK /\ QueueDrained /\ QuietInv /\ [NextSpaced]_vars => QueueDrained' /\ QuietInv'
<1> SUFFICES ASSUME TypeOK, QueueDrained, QuietInv, [NextSpaced]_vars
             PROVE  QueueDrained' /\ QuietInv'
  OBVIOUS
<1>1. CASE Reset \/ Load
  BY <1>1 DEF Reset, Load, MidiReset, QueueDrained, QuietInv
<1>2. CASE BeginUpdate
  BY <1>2 DEF BeginUpdate, QueueDrained, QuietInv, Held
<1>3. CASE EndUpdate
  BY <1>3 DEF EndUpdate, WriteKeys, QueueDrained, QuietInv, Held
<1>4. ASSUME NEW c \in Channels, NEW n \in Notes, NoteOn(c, n)
      PROVE  QueueDrained' /\ QuietInv'
  <2>1. PickVoice(c, n) \in Voices
    BY PickVoiceCorrect
  <2>2. \A v \in Voices \ {PickVoice(c, n)} : slave'[v] = slave[v]
    BY <1>4, <2>1 DEF NoteOn, TypeOK
  <2>3. slave'[PickVoice(c, n)].ch # Free
    BY <1>4, <2>1, SizesAssumption DEF NoteOn, TypeOK, Channels, Free
  <2> QED
    BY <1>4, <2>1, <2>2, <2>3 DEF NoteOn, InEvent, QueueDrained, QuietInv, Held
<1>5. ASSUME NEW c \in Channels, NEW n \in Notes, NoteOff(c, n), ~Blip(c)
      PROVE  QueueDrained' /\ QuietInv'
  <2> DEFINE p == First(Owners(c, n))
  <2>1. p \in Owners(c, n) /\ p \in Voices
    BY <1>5, FirstIsMember DEF NoteOff, Owners
  <2>2. p \notin newOn
    BY <1>5, <2>1 DEF Blip
  <2> HIDE DEF p
  <2>3. newOff' = newOff \cup {p} /\ newOn' = newOn /\ keyed' = keyed /\ updating' = updating
    BY <1>5 DEF NoteOff, p
  <2>4. \A v \in Voices \ {p} : slave'[v] = slave[v]
    BY <1>5, <2>1 DEF NoteOff, TypeOK, p
  <2> QED
    BY <2>2, <2>3, <2>4 DEF QueueDrained, QuietInv, Held
<1>6. ASSUME NEW c \in Channels, NEW b \in DataBytes,
             SelectRpnLo(c, b) \/ SelectRpnHi(c, b) \/ DataEntry(c, b)
      PROVE  QueueDrained' /\ QuietInv'
  BY <1>6 DEF SelectRpnLo, SelectRpnHi, DataEntry, QueueDrained, QuietInv, Held
<1>7. ASSUME NEW c \in Channels, NEW raw \in RawBends, PitchBend(c, raw)
      PROVE  QueueDrained' /\ QuietInv'
  BY <1>7 DEF PitchBend, QueueDrained, QuietInv, Held
<1>8. CASE UNCHANGED vars
  BY <1>8 DEF vars, QueueDrained, QuietInv, Held
<1> QED
  BY <1>1, <1>2, <1>3, <1>4, <1>5, <1>6, <1>7, <1>8 DEF NextSpaced, Next, ChannelEvent

\* On such files no voice outlives its note: between updates a voice held for
\* no note is off, or is keyed off by the next commit.
THEOREM FreeVoicesQuietHolds == SpecSpaced => []FreeVoicesQuiet
<1>1. Init => TypeOK /\ QueueDrained /\ QuietInv
  BY TypeInit DEF Init, QueueDrained, QuietInv, Held, Free
<1>2. TypeOK /\ [NextSpaced]_vars => TypeOK'
  BY TypeStep DEF NextSpaced
<1>3. QuietInv => FreeVoicesQuiet
  BY DEF QuietInv, FreeVoicesQuiet
<1> QED
  BY <1>1, <1>2, <1>3, QuietStep, PTL DEF SpecSpaced
-----------------------------------------------------------------------------
(***************************************************************************)
(* The allocator implements the note pool: a table of stamped voices, of   *)
(* which one is reused, taken or stolen, keeps exactly the notes that a    *)
(* pool which evicts its oldest keeps.  The stamps must not wrap.          *)
(***************************************************************************)
\* The stamps of the held voices order them: no two are the same, and none is
\* later than the counter.
StampsOrder ==
  loaded => \A v \in Voices : Held(v) =>
    /\ slave[v].last_touched <= touch
    /\ \A w \in Voices : Held(w) /\ slave[v].last_touched = slave[w].last_touched => v = w

PoolInv == VoiceInv /\ StampsOrder

\* A struck note's stamp is later than all others, as the counter does not
\* wrap.
LEMMA TouchAdvances ==
  ASSUME TypeOK, touch' = (touch + 1) % TouchMod, touch' >= touch
  PROVE  touch' > touch
<1>1. touch \in Nat /\ touch < TouchMod /\ TouchMod \in Nat /\ TouchMod > 1
  BY TouchAssumption DEF TypeOK
<1>2. CASE touch + 1 < TouchMod
  <2>1. (touch + 1) % TouchMod = touch + 1
    BY <1>1, <1>2
  <2> QED
    BY <1>1, <2>1
<1>3. CASE touch + 1 = TouchMod
  <2>1. (touch + 1) % TouchMod = 0
    BY <1>1, <1>3
  <2> QED
    BY <1>1, <1>3, <2>1
<1> QED
  BY <1>1, <1>2, <1>3
-----------------------------------------------------------------------------
(* Voices and notes. *)

\* The voices that are held have as many notes: none has two voices.
LEMMA KeysCounted ==
  ASSUME VoiceInv
  PROVE  /\ \A v, w \in HeldVoices : KeyOf(v) = KeyOf(w) => v = w
         /\ Cardinality(HeldKeys) < NumVoices <=> HeldVoices # Voices
<1> DEFINE f == [v \in HeldVoices |-> KeyOf(v)]
<1>1. \A v, w \in HeldVoices : KeyOf(v) = KeyOf(w) => v = w
  BY DEF VoiceInv, OneVoicePerNote, HeldVoices, KeyOf
<1>2. f \in Surjection(HeldVoices, HeldKeys)
  BY DEF Surjection, HeldKeys
<1>3. f \in Injection(HeldVoices, HeldKeys)
  BY <1>1, <1>2 DEF Injection, IsInjective, Surjection
<1>4. IsFiniteSet(Voices) /\ Cardinality(Voices) = NumVoices
  BY FS_Interval, SizesAssumption DEF Voices
<1>5. HeldVoices \in SUBSET Voices
  BY DEF HeldVoices
<1>6. /\ IsFiniteSet(HeldVoices)
      /\ Cardinality(HeldVoices) <= NumVoices
      /\ Cardinality(HeldVoices) = NumVoices => HeldVoices = Voices
  BY <1>4, <1>5, FS_Subset
<1> HIDE DEF f
<1>7. Cardinality(HeldKeys) = Cardinality(HeldVoices)
  BY <1>2, <1>3, <1>6, FS_Surjection
<1>8. Cardinality(HeldVoices) \in Nat
  BY <1>6, FS_CardinalityType
<1> QED
  BY <1>1, <1>4, <1>6, <1>7, <1>8, SizesAssumption

\* A note has a voice exactly if it is in the pool, and there is a free voice
\* exactly if not all are held.
LEMMA HeldAndOwned ==
  ASSUME VoiceInv, loaded, NEW c \in Channels, NEW n \in Notes
  PROVE  /\ Owners(c, n) = {v \in HeldVoices : KeyOf(v) = <<c, n>>}
         /\ <<c, n>> \in HeldKeys <=> Owners(c, n) # {}
         /\ FreeVoices = Voices \ HeldVoices
<1>1. c # Free
  BY SizesAssumption DEF Channels, Free
<1>2. Owners(c, n) = {v \in HeldVoices : KeyOf(v) = <<c, n>>}
  BY <1>1 DEF Owners, HeldVoices, KeyOf, Held
<1>3. FreeVoices = Voices \ HeldVoices
  BY DEF FreeVoices, HeldVoices
<1> QED
  BY <1>2, <1>3 DEF HeldKeys

\* Of two held voices the one with the earlier stamp has the older note.
LEMMA OlderStamps ==
  ASSUME VoiceInv, NEW v \in HeldVoices, NEW w \in HeldVoices
  PROVE  <<KeyOf(v), KeyOf(w)>> \in OlderKeys
           <=> slave[v].last_touched < slave[w].last_touched
<1>1. ASSUME <<KeyOf(v), KeyOf(w)>> \in OlderKeys
      PROVE  slave[v].last_touched < slave[w].last_touched
  <2>1. PICK a \in HeldVoices, b \in HeldVoices :
          /\ slave[a].last_touched < slave[b].last_touched
          /\ <<KeyOf(v), KeyOf(w)>> = <<KeyOf(a), KeyOf(b)>>
    BY <1>1 DEF OlderKeys
  <2>2. a = v /\ b = w
    BY <2>1, KeysCounted
  <2> QED
    BY <2>1, <2>2
<1>2. ASSUME slave[v].last_touched < slave[w].last_touched
      PROVE  <<KeyOf(v), KeyOf(w)>> \in OlderKeys
  <2>1. <<v, w>> \in {q \in HeldVoices \X HeldVoices :
                        slave[q[1]].last_touched < slave[q[2]].last_touched}
    BY <1>2
  <2> QED
    BY <2>1 DEF OlderKeys
<1> QED
  BY <1>1, <1>2
-----------------------------------------------------------------------------
(* The stamps. *)

LEMMA PoolInvInit == Init => PoolInv
<1> QED
  BY VoiceInvInit DEF Init, PoolInv, StampsOrder

LEMMA NoteOnKeepsStamps ==
  ASSUME PoolInv, NEW c \in Channels, NEW n \in Notes, NoteOn(c, n), touch' >= touch
  PROVE  StampsOrder'
<1> DEFINE p == PickVoice(c, n)
<1>1. TypeOK /\ loaded
  BY DEF PoolInv, VoiceInv, NoteOn, InEvent
<1>2. p \in Voices
  BY <1>1, PickVoiceCorrect
<1>3. touch' > touch
  BY <1>1, TouchAdvances DEF NoteOn
<1> HIDE DEF p
<1>4. /\ slave'[p].last_touched = touch'
      /\ \A v \in Voices \ {p} : slave'[v] = slave[v]
  BY <1>1, <1>2 DEF NoteOn, TypeOK, p
<1>5. \A v \in Voices : slave[v].last_touched \in Int
  BY <1>1, TouchAssumption DEF TypeOK, Slaves
<1>6. touch \in Int /\ touch' \in Int
  BY <1>1, TouchAssumption DEF TypeOK, NoteOn
<1>7. \A v \in Voices \ {p} : Held(v)' => slave'[v].last_touched < touch'
  BY <1>1, <1>3, <1>4, <1>5, <1>6 DEF PoolInv, StampsOrder, Held
<1> QED
  BY <1>1, <1>4, <1>5, <1>6, <1>7 DEF PoolInv, StampsOrder, Held

LEMMA PoolInvStep == PoolInv /\ [NextBeforeWrap]_vars => PoolInv'
<1> SUFFICES ASSUME PoolInv, [NextBeforeWrap]_vars PROVE PoolInv'
  OBVIOUS
<1>1. VoiceInv'
  BY VoiceInvStep DEF PoolInv, NextBeforeWrap, Next
<1>2. ASSUME Reset \/ Load PROVE StampsOrder'
  <2>1. \A v \in Voices : ~Held(v)'
    BY <1>2 DEF Reset, Load, MidiReset, FreeSlave, Held
  <2> QED
    BY <2>1 DEF StampsOrder
<1>3. ASSUME NEW c \in Channels, NEW n \in Notes, NoteOff(c, n)
      PROVE  StampsOrder'
  <2>1. loaded /\ loaded' /\ touch' = touch /\ slave \in [Voices -> Slaves]
    BY <1>3 DEF NoteOff, InEvent, PoolInv, VoiceInv, TypeOK
  <2>2. \A v \in Voices : Held(v)' => slave'[v] = slave[v]
    BY <1>3, <2>1 DEF NoteOff, Held, Free, Slaves
  <2> QED
    BY <2>1, <2>2 DEF PoolInv, StampsOrder, Held
<1>4. ASSUME slave' = slave, touch' = touch, loaded' = loaded
      PROVE  StampsOrder'
  BY <1>4 DEF PoolInv, StampsOrder, Held
<1>5. ASSUME NEW c \in Channels, ChannelEvent(c), touch' >= touch
      PROVE  StampsOrder'
  BY <1>3, <1>4, <1>5, NoteOnKeepsStamps
     DEF ChannelEvent, SelectRpnLo, SelectRpnHi, DataEntry, PitchBend
<1>6. ASSUME BeginUpdate \/ EndUpdate \/ UNCHANGED vars PROVE StampsOrder'
  BY <1>4, <1>6 DEF BeginUpdate, EndUpdate, vars
<1> QED
  BY <1>1, <1>2, <1>5, <1>6 DEF PoolInv, NextBeforeWrap
-----------------------------------------------------------------------------
(* The steps of the pool. *)

KeysOf(vs) == {KeyOf(v) : v \in vs}
OrderOf(vs) ==
  {<<KeyOf(q[1]), KeyOf(q[2])>> :
     q \in {r \in vs \X vs : slave[r[1]].last_touched < slave[r[2]].last_touched}}

\* The order among the notes of some held voices is that of their stamps.
LEMMA OrderKept ==
  ASSUME VoiceInv, NEW S \in SUBSET HeldVoices
  PROVE  Pool!Among(KeysOf(S)) = OrderOf(S)
<1>1. ASSUME NEW q \in Pool!Among(KeysOf(S)) PROVE q \in OrderOf(S)
  <2>1. q \in OlderKeys /\ q[1] \in KeysOf(S) /\ q[2] \in KeysOf(S)
    BY DEF Pool!Among
  <2>2. PICK a \in HeldVoices, b \in HeldVoices :
          /\ slave[a].last_touched < slave[b].last_touched
          /\ q = <<KeyOf(a), KeyOf(b)>>
    BY <2>1 DEF OlderKeys
  <2>3. a \in S /\ b \in S
    BY <2>1, <2>2, KeysCounted DEF KeysOf
  <2>4. <<a, b>> \in {r \in S \X S : slave[r[1]].last_touched < slave[r[2]].last_touched}
    BY <2>2, <2>3
  <2> QED
    BY <2>2, <2>4 DEF OrderOf
<1>2. ASSUME NEW q \in OrderOf(S) PROVE q \in Pool!Among(KeysOf(S))
  <2>1. PICK a \in S, b \in S :
          /\ slave[a].last_touched < slave[b].last_touched
          /\ q = <<KeyOf(a), KeyOf(b)>>
    BY DEF OrderOf
  <2>2. q \in OlderKeys
    BY <2>1, OlderStamps
  <2> QED
    BY <2>1, <2>2 DEF Pool!Among, KeysOf
<1> QED
  BY <1>1, <1>2

\* A voice is taken from its note.
LEMMA NoteOffReleases ==
  ASSUME VoiceInv, NEW c \in Channels, NEW n \in Notes, NoteOff(c, n)
  PROVE  Pool!PoolNext
<1> DEFINE p == First(Owners(c, n))
           S == HeldVoices \ {p}
           k == <<c, n>>
<1>1. loaded /\ loaded' /\ slave \in [Voices -> Slaves]
  BY DEF NoteOff, InEvent, VoiceInv, TypeOK
<1>2. p \in Owners(c, n)
  BY FirstIsMember DEF NoteOff, Owners
<1> HIDE DEF p
<1>3. p \in HeldVoices /\ KeyOf(p) = k /\ k \in HeldKeys
  BY <1>1, <1>2, HeldAndOwned
<1>4. slave'[p].ch = Free /\ \A v \in Voices \ {p} : slave'[v] = slave[v]
  BY <1>1, <1>3 DEF NoteOff, HeldVoices, p
<1>5. HeldVoices' = S
  BY <1>1, <1>3, <1>4 DEF HeldVoices, Held
<1>6. \A v \in S : slave'[v] = slave[v] /\ KeyOf(v)' = KeyOf(v)
  BY <1>4 DEF KeyOf, HeldVoices
<1>7. KeysOf(S) = HeldKeys \ {k}
  BY <1>3, KeysCounted DEF KeysOf, HeldKeys
<1>8. HeldKeys' = HeldKeys \ {k}
  BY <1>5, <1>6, <1>7 DEF HeldKeys, KeysOf
<1>9. OlderKeys' = OrderOf(S)
  BY <1>5, <1>6 DEF OlderKeys, OrderOf
<1>10. OlderKeys' = Pool!Among(HeldKeys \ {k})
  BY <1>7, <1>9, OrderKept
<1> QED
  BY <1>3, <1>8, <1>10 DEF Pool!PoolNext, Pool!Release

\* The pool's instance counts as this module does.
LEMMA SameCount == ASSUME NEW S PROVE Pool!Cardinality(S) = Cardinality(S)
<1> QED
  BY DEF Cardinality, Pool!Cardinality, IsFiniteSet, Pool!IsFiniteSet

\* The voice that is picked costs the pool only the note the pool itself
\* would drop: the struck note itself, none, or the oldest.
LEMMA PickedVoiceCosts ==
  ASSUME PoolInv, loaded, NEW c \in Channels, NEW n \in Notes
  PROVE  KeysOf(HeldVoices \ {PickVoice(c, n)}) = Pool!Survivors(<<c, n>>)
<1> PICK p : p = PickVoice(c, n)
  OBVIOUS
<1> DEFINE S == HeldVoices \ {p}
           k == <<c, n>>
<1>1. VoiceInv /\ TypeOK
  BY DEF PoolInv, VoiceInv
<1>2. /\ p \in Voices
      /\ Owners(c, n) # {} => p \in Owners(c, n)
      /\ Owners(c, n) = {} /\ FreeVoices # {} => p \in FreeVoices
      /\ Owners(c, n) = {} /\ FreeVoices = {} => p \in Stalest(Voices)
  BY <1>1, PickVoiceCorrect
<1>3. ASSUME Owners(c, n) # {}
      PROVE  KeysOf(S) = Pool!Survivors(k)
  <2>1. p \in HeldVoices /\ KeyOf(p) = k /\ k \in HeldKeys
    BY <1>1, <1>2, <1>3, HeldAndOwned
  <2>2. KeysOf(S) = HeldKeys \ {k}
    BY <1>1, <2>1, KeysCounted DEF KeysOf, HeldKeys
  <2> QED
    BY <2>1, <2>2 DEF Pool!Survivors
<1>4. ASSUME Owners(c, n) = {} /\ FreeVoices # {}
      PROVE  KeysOf(S) = Pool!Survivors(k)
  <2>1. k \notin HeldKeys /\ p \notin HeldVoices /\ HeldVoices # Voices
    BY <1>1, <1>2, <1>4, HeldAndOwned
  <2>2. Cardinality(HeldKeys) < NumVoices
    BY <1>1, <2>1, KeysCounted
  <2>3. KeysOf(S) = HeldKeys
    BY <2>1 DEF KeysOf, HeldKeys
  <2> QED
    BY <2>1, <2>2, <2>3, SameCount DEF Pool!Survivors
<1>5. ASSUME Owners(c, n) = {} /\ FreeVoices = {}
      PROVE  KeysOf(S) = Pool!Survivors(k)
  <2>1. k \notin HeldKeys /\ HeldVoices = Voices
    BY <1>1, <1>5, HeldAndOwned DEF HeldVoices
  <2>2. ~(Cardinality(HeldKeys) < NumVoices)
    BY <1>1, <2>1, KeysCounted
  <2>3. \A v \in Voices : slave[v].last_touched \in Int
    BY <1>1, TouchAssumption DEF TypeOK, Slaves
  <2>4. \A w \in HeldVoices :
          w \in S <=> \E v \in HeldVoices : slave[v].last_touched < slave[w].last_touched
    BY <1>2, <1>5, <2>1, <2>3 DEF Stalest, PoolInv, StampsOrder, HeldVoices
  <2>5. \A w \in HeldVoices :
          w \in S <=> \E v \in HeldVoices : <<KeyOf(v), KeyOf(w)>> \in OlderKeys
    BY <1>1, <2>4, OlderStamps
  <2>6. \A w \in HeldVoices :
          w \in S <=> \E i \in HeldKeys : <<i, KeyOf(w)>> \in OlderKeys
    BY <2>5 DEF HeldKeys
  <2>7. KeysOf(S) = {j \in HeldKeys : \E i \in HeldKeys : <<i, j>> \in OlderKeys}
    BY <2>6 DEF KeysOf, HeldKeys
  <2> QED
    BY <2>1, <2>2, <2>7, SameCount DEF Pool!Survivors
<1>6. KeysOf(S) = Pool!Survivors(k)
  BY <1>3, <1>4, <1>5
<1> QED
  BY <1>6

\* A voice is given to a note.
LEMMA NoteOnStrikes ==
  ASSUME PoolInv, NEW c \in Channels, NEW n \in Notes, NoteOn(c, n), touch' >= touch
  PROVE  Pool!PoolNext
<1> PICK p : p = PickVoice(c, n)
  OBVIOUS
<1> DEFINE S == HeldVoices \ {p}
           k == <<c, n>>
<1>1. VoiceInv /\ TypeOK /\ loaded /\ loaded'
  BY DEF PoolInv, VoiceInv, NoteOn, InEvent
<1>2. p \in Voices
  BY <1>1, PickVoiceCorrect
<1>3. touch' > touch
  BY <1>1, TouchAdvances DEF NoteOn
<1>4. KeysOf(S) = Pool!Survivors(k)
  BY <1>1, PickedVoiceCosts
<1>5. /\ slave'[p] = [ch |-> c, note |-> n, last_touched |-> touch']
      /\ \A v \in Voices \ {p} : slave'[v] = slave[v]
  BY <1>1, <1>2 DEF NoteOn, TypeOK
<1>6. c # Free
  BY SizesAssumption DEF Channels, Free
<1>7. HeldVoices' = S \cup {p} /\ p \notin S
  BY <1>1, <1>2, <1>5, <1>6 DEF HeldVoices, Held
<1>8. /\ \A v \in S : slave'[v] = slave[v] /\ KeyOf(v)' = KeyOf(v)
      /\ KeyOf(p)' = k
  BY <1>5 DEF KeyOf, HeldVoices
<1>9. HeldKeys' = KeysOf(S) \cup {k}
  BY <1>7, <1>8 DEF HeldKeys, KeysOf
<1>10. touch \in Int /\ touch' \in Int /\ \A v \in Voices : slave[v].last_touched \in Int
  BY <1>1, TouchAssumption DEF TypeOK, Slaves, NoteOn
<1>11. \A v \in S : slave'[v].last_touched < slave'[p].last_touched
                    /\ ~(slave'[p].last_touched < slave'[v].last_touched)
  BY <1>1, <1>3, <1>5, <1>10 DEF PoolInv, StampsOrder, HeldVoices
<1>12. OlderKeys' = OrderOf(S) \cup (KeysOf(S) \X {k})
  <2>1. ASSUME NEW q \in OlderKeys' PROVE q \in OrderOf(S) \cup (KeysOf(S) \X {k})
    <3>1. PICK a \in HeldVoices', b \in HeldVoices' :
            /\ slave'[a].last_touched < slave'[b].last_touched
            /\ q = <<KeyOf(a)', KeyOf(b)'>>
      BY <2>1 DEF OlderKeys, KeyOf
    <3>2. a \in S
      BY <1>5, <1>7, <1>10, <1>11, <3>1
    <3>3. CASE b = p
      <4>1. KeyOf(a)' \in KeysOf(S) /\ KeyOf(b)' = k
        BY <1>8, <3>2, <3>3 DEF KeysOf
      <4> QED
        BY <3>1, <4>1
    <3>4. CASE b \in S
      <4>1. <<a, b>> \in {r \in S \X S : slave[r[1]].last_touched < slave[r[2]].last_touched}
        BY <1>8, <3>1, <3>2, <3>4
      <4> QED
        BY <1>8, <3>1, <3>2, <3>4, <4>1 DEF OrderOf
    <3> QED
      BY <1>7, <3>1, <3>3, <3>4
  <2>2. ASSUME NEW a \in HeldVoices', NEW b \in HeldVoices',
               slave'[a].last_touched < slave'[b].last_touched
        PROVE  <<KeyOf(a)', KeyOf(b)'>> \in OlderKeys'
    <3>1. <<a, b>> \in {r \in HeldVoices' \X HeldVoices' :
                          slave'[r[1]].last_touched < slave'[r[2]].last_touched}
      BY <2>2
    <3> QED
      BY <3>1 DEF OlderKeys, KeyOf
  <2>3. ASSUME NEW q \in OrderOf(S) PROVE q \in OlderKeys'
    <3>1. PICK a \in S, b \in S :
            /\ slave[a].last_touched < slave[b].last_touched
            /\ q = <<KeyOf(a), KeyOf(b)>>
      BY DEF OrderOf
    <3> QED
      BY <1>7, <1>8, <2>2, <3>1
  <2>4. ASSUME NEW q \in KeysOf(S) \X {k} PROVE q \in OlderKeys'
    <3>1. PICK a \in S : q = <<KeyOf(a), k>>
      BY DEF KeysOf
    <3> QED
      BY <1>7, <1>8, <1>11, <2>2, <3>1
  <2> QED
    BY <2>1, <2>3, <2>4
<1>13. S \in SUBSET HeldVoices
  OBVIOUS
<1>14. OlderKeys' = Pool!Among(Pool!Survivors(k)) \cup (Pool!Survivors(k) \X {k})
  BY <1>1, <1>4, <1>12, <1>13, OrderKept
<1>15. Pool!Strike(k)
  BY <1>4, <1>9, <1>14 DEF Pool!Strike
<1>16. k \in (Channels \X Notes) \cap HeldKeys'
  BY <1>9
<1> QED
  BY <1>15, <1>16 DEF Pool!PoolNext

\* The allocator implements the pool for every number of voices, channels and
\* notes: as long as the stamps do not wrap, a note is lost only when the pool
\* is full, and it is always the one struck longest ago (midi_note_on).
THEOREM PoolImplemented == SpecBeforeWrap => PoolSpec
<1>1. Init => Pool!PoolInit
  BY DEF Init, Pool!PoolInit, HeldKeys, OlderKeys, HeldVoices
<1>2. PoolInv /\ [NextBeforeWrap]_vars => [Pool!PoolNext]_Pool!Sounding
  <2> SUFFICES ASSUME PoolInv, [NextBeforeWrap]_vars
               PROVE  Pool!PoolNext \/ UNCHANGED <<HeldKeys, OlderKeys>>
    BY DEF Pool!Sounding
  <2>1. CASE Reset \/ Load
    <3>1. HeldVoices' = {}
      BY <2>1 DEF Reset, Load, MidiReset, FreeSlave, HeldVoices, Held
    <3>2. HeldKeys' = {} /\ OlderKeys' = {}
      BY <3>1 DEF HeldKeys, OlderKeys
    <3> QED
      BY <3>2 DEF Pool!PoolNext, Pool!Silence
  <2>2. ASSUME slave' = slave, loaded' = loaded
        PROVE  UNCHANGED <<HeldKeys, OlderKeys>>
    BY <2>2 DEF HeldKeys, OlderKeys, HeldVoices, Held, KeyOf
  <2>3. ASSUME NEW c \in Channels, ChannelEvent(c), touch' >= touch
        PROVE  Pool!PoolNext \/ UNCHANGED <<HeldKeys, OlderKeys>>
    BY <2>2, <2>3, NoteOnStrikes, NoteOffReleases
       DEF PoolInv, ChannelEvent, SelectRpnLo, SelectRpnHi, DataEntry, PitchBend
  <2>4. CASE BeginUpdate \/ EndUpdate \/ UNCHANGED vars
    BY <2>2, <2>4 DEF BeginUpdate, EndUpdate, vars
  <2> QED
    BY <2>1, <2>3, <2>4 DEF NextBeforeWrap
<1> QED
  BY <1>1, <1>2, PoolInvInit, PoolInvStep, PTL DEF SpecBeforeWrap, PoolSpec, Pool!PoolSpec
=============================================================================
