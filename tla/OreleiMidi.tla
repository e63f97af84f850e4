------------------------------ MODULE OreleiMidi ------------------------------
(***************************************************************************)
(* The voice allocator of the MIDI player (src/src/orelei/midi.c) and the  *)
(* key on / key off queue of the SPU driver it plays through               *)
(* (src/src/orelei/orelei.c).                                              *)
(*                                                                         *)
(* A MIDI event strikes or releases a note, a pair of a MIDI channel and a *)
(* note number.  The allocator keeps one `struct midi_slave` for each SPU  *)
(* voice, which says which note the voice is held for.  Keying a voice is  *)
(* deferred: the handlers only set bits in spu_new_key_on and              *)
(* spu_new_key_off, and orelei_commit_key_changes, called at the end of    *)
(* every update, writes both masks to the SPU.                             *)
(*                                                                         *)
(* The events come from the tracks (MidiSequencer's concern); here any     *)
(* sequence of events may occur in an update.                              *)
(***************************************************************************)
EXTENDS Integers

CONSTANTS NumVoices,      \* SPU_CHANNEL_COUNT, 24 in the code
          NumChannels,    \* ORELEI_MIDI_MASTER_COUNT, 16 in the code
          NumNotes,       \* note numbers are 0 .. NumNotes-1, 128 in MIDI
          RawBends,       \* real_wheel - 0x2000 of the pitch-bend events
          DataBytes,      \* data bytes of the controller events
          TouchMod        \* midi_touch_counter is a uint32_t: 2^32

Voices   == 0 .. NumVoices - 1
Channels == 0 .. NumChannels - 1
Notes    == 0 .. NumNotes - 1
Free     == 255                       \* S->ch of a voice held for no note

ASSUME SizesAssumption ==
  /\ NumVoices \in Nat \ {0}
  /\ NumChannels \in 1 .. 16
  /\ NumNotes \in Nat \ {0}
ASSUME DataAssumption ==
  /\ RawBends \subseteq -8192 .. 8191
  /\ DataBytes \subseteq 0 .. 127
ASSUME TouchAssumption == TouchMod \in Nat \ {0, 1}

VARIABLES
  slave,      \* midi_slaves: voice -> [ch, note, last_touched]
  master,     \* midi_masters: channel -> [rpn_lo, rpn_hi, wheel_depth, wheel]
  touch,      \* midi_touch_counter
  newOff,     \* spu_new_key_off, as a set of voices
  newOn,      \* spu_new_key_on
  loaded,     \* a file has been loaded: midi_track_count > 0
  updating,   \* control is inside orelei_midi_update
  regs,       \* SPU: what the voice's registers were last set up to play
  keyed       \* SPU: the voices that are keyed on

vars == <<slave, master, touch, newOff, newOn, loaded, updating, regs, keyed>>

-----------------------------------------------------------------------------
Held(v) == slave[v].ch # Free
Owners(c, n) == {v \in Voices : slave[v].ch = c /\ slave[v].note = n}
FreeVoices == {v \in Voices : ~Held(v)}

\* The loops run upwards and compare with a strict "<": of several voices
\* with the same stamp the lowest index wins.
First(vs) == CHOOSE v \in vs : \A w \in vs : v <= w
Stalest(vs) ==
  {v \in vs : \A w \in vs : slave[v].last_touched <= slave[w].last_touched}

\* Mutant: of several candidates the lowest voice is taken, however young.
LowestIndex(vs) == First(vs)
LongestUntouched(vs) == First(Stalest(vs))

\* Mutants of PickVoice: the voice the note already has is not looked for; no
\* voice is stolen, and the search returns its initial -1.
PickVoiceAnew(c, n) ==
  IF FreeVoices # {} THEN LongestUntouched(FreeVoices) ELSE LongestUntouched(Voices)

PickVoiceNoStealing(c, n) ==
  IF Owners(c, n) # {} THEN First(Owners(c, n))
  ELSE IF FreeVoices # {} THEN LongestUntouched(FreeVoices)
  ELSE -1

\* The voice a struck note gets: the one it already has, else the
\* longest-untouched free one, else the longest-untouched of all.
PickVoice(c, n) ==
  IF Owners(c, n) # {} THEN First(Owners(c, n))
  ELSE IF FreeVoices # {} THEN LongestUntouched(FreeVoices)
  ELSE LongestUntouched(Voices)

\* ((real_wheel - 0x2000) * wheel_depth + (1<<12)) >> 13
Wheel(raw, depth) == (raw * depth + 4096) \div 8192

\* What a voice set up for note n of channel c sounds like.
Tone(c, n, w) == [ch |-> c, note |-> n, wheel |-> w]

FreeSlave     == [ch |-> Free, note |-> 0, last_touched |-> 0]
DefaultMaster == [rpn_lo |-> 127, rpn_hi |-> 127, wheel_depth |-> 512, wheel |-> 0]
-----------------------------------------------------------------------------
\* The C statics start as zeros, so until a reset every voice claims to be
\* held for note 0 of channel 0.  orelei_init_spu has keyed every voice off.
Init ==
  /\ slave = [v \in Voices |-> [ch |-> 0, note |-> 0, last_touched |-> 0]]
  /\ master = [c \in Channels |->
                 [rpn_lo |-> 0, rpn_hi |-> 0, wheel_depth |-> 0, wheel |-> 0]]
  /\ touch = 0
  /\ newOff = {}
  /\ newOn = {}
  /\ loaded = FALSE
  /\ updating = FALSE
  /\ regs = [v \in Voices |-> Tone(0, 0, 0)]
  /\ keyed = {}

\* Mutant: the reset frees the voices without stopping them.
MidiResetSounding ==
  /\ touch' = 0
  /\ slave' = [v \in Voices |-> FreeSlave]
  /\ newOff' = newOff
  /\ master' = [c \in Channels |-> DefaultMaster]

MidiReset ==
  /\ touch' = 0
  /\ slave' = [v \in Voices |-> FreeSlave]
  /\ newOff' = newOff \cup Voices
  /\ master' = [c \in Channels |-> DefaultMaster]

\* orelei_midi_reset, called by the application between two updates.
Reset ==
  /\ ~updating
  /\ MidiReset
  /\ UNCHANGED <<newOn, loaded, updating, regs, keyed>>

\* orelei_midi_load_from_data ends with a reset.
Load ==
  /\ ~updating
  /\ loaded' = TRUE
  /\ MidiReset
  /\ UNCHANGED <<newOn, updating, regs, keyed>>

\* orelei_midi_update is entered.  Without tracks it runs no event.
BeginUpdate ==
  /\ ~updating
  /\ updating' = TRUE
  /\ UNCHANGED <<slave, master, touch, newOff, newOn, loaded, regs, keyed>>

InEvent == updating /\ loaded

\* midi_note_on, with the f_play_note callback calling orelei_play_note for
\* the voice it is given.
NoteOn(c, n) ==
  LET v == PickVoice(c, n) IN
  /\ InEvent
  /\ touch' = (touch + 1) % TouchMod
  /\ slave' = [slave EXCEPT ![v] = [ch |-> c, note |-> n, last_touched |-> touch']]
  /\ newOff' = IF Owners(c, n) # {} THEN newOff \cup {v} ELSE newOff
  /\ newOn' = newOn \cup {v}
  /\ regs' = [regs EXCEPT ![v] = Tone(c, n, master[c].wheel)]
  /\ UNCHANGED <<master, loaded, updating, keyed>>

\* midi_note_off; a note-on event of velocity 0 comes here too.
NoteOff(c, n) ==
  /\ InEvent
  /\ Owners(c, n) # {}
  /\ LET v == First(Owners(c, n)) IN
       /\ slave' = [slave EXCEPT ![v].ch = Free]
       /\ newOff' = newOff \cup {v}
  /\ UNCHANGED <<master, touch, newOn, loaded, updating, regs, keyed>>

\* Controllers 0x64 and 0x65 select a parameter, 0x06 enters its value: the
\* wheel's depth when parameter 0 is selected, else nothing.
SelectRpnLo(c, b) ==
  /\ InEvent
  /\ master' = [master EXCEPT ![c].rpn_lo = b]
  /\ UNCHANGED <<slave, touch, newOff, newOn, loaded, updating, regs, keyed>>

SelectRpnHi(c, b) ==
  /\ InEvent
  /\ master' = [master EXCEPT ![c].rpn_hi = b]
  /\ UNCHANGED <<slave, touch, newOff, newOn, loaded, updating, regs, keyed>>

DataEntry(c, b) ==
  /\ InEvent
  /\ master[c].rpn_lo = 0 /\ master[c].rpn_hi = 0
  /\ master' = [master EXCEPT ![c].wheel_depth = b * 128]
  /\ UNCHANGED <<slave, touch, newOff, newOn, loaded, updating, regs, keyed>>

\* A pitch bend re-plays every voice of the channel with ch = -1, which
\* stands for "new pitch only": the voice is not keyed again.
PitchBend(c, raw) ==
  LET w == Wheel(raw, master[c].wheel_depth) IN
  /\ InEvent
  /\ master' = [master EXCEPT ![c].wheel = w]
  /\ regs' = [v \in Voices |->
                IF slave[v].ch = c THEN [regs[v] EXCEPT !.wheel = w] ELSE regs[v]]
  /\ UNCHANGED <<slave, touch, newOff, newOn, loaded, updating, keyed>>

\* The SPU's key registers: KOFF is written before KON (mutant: after it).
WriteKeysOnFirst(on, off) == (keyed \cup on) \ off
WriteKeys(on, off) == (keyed \ off) \cup on

\* The update ends with orelei_commit_key_changes.
EndUpdate ==
  /\ updating
  /\ updating' = FALSE
  /\ keyed' = WriteKeys(newOn, newOff)
  /\ newOff' = {}
  /\ newOn' = {}
  /\ UNCHANGED <<slave, master, touch, loaded, regs>>

ChannelEvent(c) ==
  \/ \E n \in Notes : NoteOn(c, n)
  \/ \E n \in Notes : NoteOff(c, n)
  \/ \E b \in DataBytes : SelectRpnLo(c, b)
  \/ \E b \in DataBytes : SelectRpnHi(c, b)
  \/ \E b \in DataBytes : DataEntry(c, b)
  \/ \E raw \in RawBends : PitchBend(c, raw)

Next ==
  \/ Reset
  \/ Load
  \/ BeginUpdate
  \/ EndUpdate
  \/ \E c \in Channels : ChannelEvent(c)

Spec == Init /\ [][Next]_vars

\* The player as long as the uint32_t counter does not wrap between two
\* resets, which takes 2^32 struck notes.
NextBeforeWrap ==
  \/ Reset
  \/ Load
  \/ BeginUpdate
  \/ EndUpdate
  \/ \E c \in Channels : ChannelEvent(c) /\ touch' >= touch

SpecBeforeWrap == Init /\ [][NextBeforeWrap]_vars

\* The player on files in which no note is released within the update that
\* struck it: every note lasts longer than the time between two updates.
Blip(c) == \E n \in Notes : Owners(c, n) \cap newOn # {} /\ NoteOff(c, n)

NextSpaced == Next /\ ~\E c \in Channels : Blip(c)

SpecSpaced == Init /\ [][NextSpaced]_vars

\* Both at once: such files, played for less than 2^32 struck notes.
NextPlain == NextBeforeWrap /\ ~\E c \in Channels : Blip(c)

SpecPlain == Init /\ [][NextPlain]_vars
-----------------------------------------------------------------------------
(***************************************************************************)
(* Properties                                                              *)
(***************************************************************************)
Slaves  == [ch : Channels \cup {Free}, note : Notes, last_touched : 0 .. TouchMod - 1]
Masters == [rpn_lo : 0 .. 127, rpn_hi : 0 .. 127, wheel_depth : Nat, wheel : Int]
Tones   == [ch : Channels, note : Notes, wheel : Int]

\* The variables keep their types: in particular a voice index never leaves
\* the table and a stamp never leaves its uint32_t.
TypeOK ==
  /\ slave \in [Voices -> Slaves]
  /\ master \in [Channels -> Masters]
  /\ touch \in 0 .. TouchMod - 1
  /\ newOff \subseteq Voices
  /\ newOn \subseteq Voices
  /\ loaded \in BOOLEAN
  /\ updating \in BOOLEAN
  /\ regs \in [Voices -> Tones]
  /\ keyed \subseteq Voices

\* Once a file is loaded no two voices are held for the same note, so that
\* the first match midi_note_off stops at is the only one.
OneVoicePerNote ==
  loaded => \A v, w \in Voices :
              /\ Held(v)
              /\ slave[v].ch = slave[w].ch
              /\ slave[v].note = slave[w].note
              => v = w

\* Between updates every voice held for a note is keyed on and set up for
\* exactly that note, bent by the present wheel of its channel.  The deferred
\* key masks, voice reuse and stealing, and the bends all have to agree.
HeldVoicesSound ==
  loaded /\ ~updating =>
    \A v \in Voices : Held(v) =>
      /\ v \in keyed
      /\ regs[v] = Tone(slave[v].ch, slave[v].note, master[slave[v].ch].wheel)

\* Between updates a voice held for no note is off, or about to be.
FreeVoicesQuiet ==
  loaded /\ ~updating => \A v \in Voices : Held(v) \/ v \notin keyed \/ v \in newOff
=============================================================================
