------------------------------ MODULE MidiPlayer ------------------------------
(***************************************************************************)
(* The MIDI player (src/src/orelei/midi.c) as a whole: the sequencer, which *)
(* decides when events are played, on the voice allocator, which decides   *)
(* what sounds.  An update of orelei_midi_update plays the due events of    *)
(* one track after the other and then commits the keys.                    *)
(***************************************************************************)
EXTENDS MidiSequencer, FiniteSets

CONSTANTS NumVoices, NumChannels, NumNotes, RawBends, DataBytes, TouchMod

VARIABLES
  slave, master, touch, newOff, newOn, loaded, updating, regs, keyed,
  blips     \* history: the notes released in the update that struck them

Voice == INSTANCE OreleiMidi

ASSUME VoiceAssumption ==
  /\ NumVoices \in Nat \ {0} /\ NumChannels \in 1 .. 16 /\ NumNotes \in Nat \ {0}
  /\ TouchMod \in Nat \ {0, 1}
\* An event's status byte has four bits of channel, its data bytes have seven.
ASSUME NotesAssumption ==
  \A f \in Files : \A i \in DOMAIN f.tracks : \A n \in DOMAIN f.tracks[i] :
    LET e == f.tracks[i][n] IN
    e.kind # "tempo" => e.ch \in Voice!Channels /\ e.note \in Voice!Notes

voiceVars  == <<slave, master, touch, newOff, newOn, loaded, updating, regs, keyed>>
playerVars == <<vars, voiceVars, blips>>

PlayerInit == Init /\ Voice!Init /\ blips = {}

PlayerLoad(f) == Load(f) /\ Voice!Load /\ blips' = {}
PlayerReset   == Reset /\ Voice!Reset /\ blips' = {}

PlayerUpdate(us) == Update(us) /\ Voice!BeginUpdate /\ UNCHANGED blips

Event == file.tracks[track][next[track]]

\* The notes on of velocity 0, which release, are of kind "off".
PlayOn ==
  /\ PlayEvent
  /\ Event.kind = "on"
  /\ Voice!NoteOn(Event.ch, Event.note)
  /\ UNCHANGED blips

PlayOff ==
  /\ PlayEvent
  /\ Event.kind = "off"
  /\ Voice!NoteOff(Event.ch, Event.note)
  /\ blips' = IF Voice!Owners(Event.ch, Event.note) \cap newOn = {} THEN blips
              ELSE blips \cup {<<Event.ch, Event.note>>}

\* Nothing is heard of a tempo, nor of the release of a note no voice has.
PlaySilent ==
  /\ PlayEvent
  /\ \/ Event.kind = "tempo"
     \/ Event.kind = "off" /\ Voice!Owners(Event.ch, Event.note) = {}
  /\ UNCHANGED <<voiceVars, blips>>

PlayerNextTrack == NextTrack /\ UNCHANGED <<voiceVars, blips>>

PlayerEnd == EndUpdate /\ Voice!EndUpdate /\ UNCHANGED blips
-----------------------------------------------------------------------------
PlayerNext ==
  \/ \E f \in Files : PlayerLoad(f)
  \/ PlayerReset
  \/ \E us \in Times : PlayerUpdate(us)
  \/ PlayOn \/ PlayOff \/ PlaySilent
  \/ PlayerNextTrack
  \/ PlayerEnd

PlayerSpec == PlayerInit /\ [][PlayerNext]_playerVars
-----------------------------------------------------------------------------
(***************************************************************************)
(* Properties                                                              *)
(***************************************************************************)
IsNote(i, n) == file.tracks[i][n].kind # "tempo"
KeyAt(i, n)  == <<file.tracks[i][n].ch, file.tracks[i][n].note>>

\* The notes of a track, and those that are on at the present tick: the last
\* event due of the note strikes it.
NotesOf(i) == {KeyAt(i, n) : n \in {m \in DOMAIN file.tracks[i] : IsNote(i, m)}}

DueNow(i, n) == IsNote(i, n) /\ DueAt(i, n) <= ticks
NotesOn ==
  {k \in UNION {NotesOf(i) : i \in Tracks} :
     \E i \in Tracks : \E n \in DOMAIN file.tracks[i] :
       /\ DueNow(i, n) /\ KeyAt(i, n) = k /\ file.tracks[i][n].kind = "on"
       /\ \A m \in n + 1 .. Len(file.tracks[i]) : DueNow(i, m) => KeyAt(i, m) # k}

\* Each note is played by one track, and there are voices for all of them.
Playable ==
  /\ \A i, j \in Tracks : i # j => NotesOf(i) \cap NotesOf(j) = {}
  /\ Cardinality(UNION {NotesOf(i) : i \in Tracks}) <= NumVoices

SoundingVoices == keyed \ newOff
Sounding == {<<regs[v].ch, regs[v].note>> : v \in SoundingVoices}

\* Between updates the notes heard are those the file says at this tick, and
\* besides them only notes that were released in the update that struck them.
NotesHeard ==
  pc = "idle" /\ ticks > 0 /\ Playable =>
    NotesOn \subseteq Sounding /\ Sounding \subseteq NotesOn \cup blips
=============================================================================
