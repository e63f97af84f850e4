# Verification of candyk-psx

candyk-psx is a small toolkit for PlayStation programs: libraries that run on
the console (boot code, sound, MIDI, CD-ROM, pads and memory cards) and tools
that run on the developer's machine (an executable converter, an audio/video
encoder, an XA interleaver, a CD image builder). This directory holds TLA+
models of the parts of it whose correctness depends on order, on timing or on
two pieces of state agreeing; the TLC configurations that check them on small
instances; and theorems, checked by TLAPS, that hold for all instances.

Paths below are relative to the repository's root, as `src/...` in
PROJECT.json; `orelei/midi.c` stands for `src/src/orelei/midi.c` and so on.

## 1. The system

| Component | Source | State | Operations | Model |
|---|---|---|---|---|
| MIDI voice allocator | `orelei/midi.c` | `midi_slaves` (which note each of 24 voices is held for, when it was last struck), `midi_masters` (controllers of 16 channels), `midi_touch_counter` | note on, note off, controllers, pitch bend, reset, load | `OreleiMidi`, `NotePool` |
| MIDI sequencer | `orelei/midi.c` | `midi_tempo`, `midi_tick_accum`, per track the next event and the ticks until it | load, reset, update | `MidiSequencer`; on the allocator in `MidiPlayer` |
| SPU driver | `orelei/orelei.c` | `spu_new_key_on`, `spu_new_key_off`; the chip's registers and memory | play a note, commit key changes; set up, transfer samples | key queue in `OreleiMidi` |
| CD-ROM driver | `seedy/seedy.c` | none of its own: where it is in a call; the controller's queue of answers | init, read data, play and stop XA, start and stop the drive | `Seedy` |
| Pads and memory cards | `sawpads/sawpads.c` | `sawpads_has_ack`, `sawpads_hwords`, `sawpads_buffer`, `sawpads_controller` | read and write a card sector, read a pad, unlock a DualShock; the acknowledge interrupt | `Sawpads`, `MemoryCard` |
| CD image builder | `toolsrc/pscd-new` | `dent_list`, `dent_remap`, `dent_path_remap`, `sector_count`, the image | one pass: manifest, sort, path tables, files, directories, descriptors | `Pscd` |
| Boot code | `chenboot/chenboot.S` | the interrupt hook, the saved frame; `_start`'s pointer | start a program, install a hook, enable, disable, dispatch | dispatch in `Triangle`, `_start` in `Elf2psx` |
| Double-buffered example | `examples/chenboot_triangle` | `out_vidy`, `real_out_vidy`, `vblank_counter` | vertical blank, a turn of the main loop | `Triangle` |
| XA interleaver | `toolsrc/xainterleave` | the manifest's entries, their files, the place in the chunk | parse the manifest, write chunk after chunk | `XaStreams`, `XaSector` |
| Executable converter | `toolsrc/elf2psx` | segment table, file header | one pass with error exits | `Elf2psx` |
| Audio and CD library | `toolsrc/libpsxav` | encoder state, a sector | encode a block, make and finalize a sector | sector fields in `XaSector` |
| Audio/video encoder | `toolsrc/psxavenc` | bit buffer, frame output, muxer position | encode | `StrMux` the multiplexer, `MdecTables` and `MdecFrame` a frame, `StrFilm` both with a player; sectors of its files in `XaStreams` |

How they interact. An application calls the libraries from one thread.
`orelei_midi_update` calls the application's `f_play_note`, which calls
`orelei_play_note`; at its end it calls `orelei_commit_key_changes`, which
writes the SPU's key registers. The sawpads driver shares `sawpads_has_ack`
with the interrupt handler the application calls `sawpads_isr_joy` from, below
chenboot's dispatcher. The seedy driver takes no interrupts: it polls the
controller's flags, which the drive sets at any time. The tools hand files to
each other: xainterleave and psxavenc write sectors that pscd-new, reading its
manifest, puts into an image and completes with checksums. elf2psx writes the image that the
console's loader copies into memory before chenboot's `_start` runs.

What is hard. On the console: answers and acknowledgements that do not say
what they belong to (`seedy`, `sawpads`), so the two sides can be at different
places of a protocol; key changes that are collected as sets and lose their
order (`orelei`); a table of voices rewritten by reuse, theft and reset while
bends are applied to whoever holds a voice now; tick arithmetic with a carried
remainder under a changing tempo. In the tools: several orders of the same
entries (creation, sorted, directories only) that must agree, and sector
arithmetic at the boundaries of a sector; frames that take a broken number of
sectors and have to stay in step with their sound; a sector that three programs change one
after the other, each of them after its checksum was made; a struct that is
never initialised; addresses that wrap at 2^32; codes of up to 22 bits packed into
words of 16. In the example: an interrupt between any two accesses to three shared
variables. PROJECT.json lists these hazards with
the line each bites at and the property that covers it, or why none does.

What makes each part correct:

* allocator: a note owns one voice; a held voice is keyed on and set up for its
  note and its channel's bend; no note is lost but the oldest, from a full set
  of voices; what nobody holds is silent;
* sequencer: no time is lost or gained; each event is played in the update in
  which it falls due, however uneven the updates; after each update what sounds is
  what the file has on at that tick;
* CD-ROM: a call collects the answers of its own commands and no others,
  returns, leaves nothing behind, and a read fills its buffer exactly with
  consecutive sectors;
* pads and cards: as long as no more than one byte of an attempt goes amiss, which is
  what one exclusive-or byte can tell, a card is a store of sectors, in which a write
  changes its own sector only and a transfer that reports success has happened; an
  absent pad reads as released; calls return;
* image: every listed file is found under its path with its data; directories
  and path tables are sound; no sector is written twice, and none is left out;
* streams: every stream of a manifest is whole on the disc, in order, at its rate
  and under its numbers, whatever the lengths of the others; subheaders agree
  and checksums are those of what is stored;
* films: frames follow one another, whole and when they are due; no sample is
  lost or played twice; what a player decodes from a frame's sectors is the picture,
  reduced by no more than it has to be;
* executables: an image reported as converted has every byte of every segment in
  its place; when main is called, memory is what the linker was told;
* example: only whole pictures are shown, and the triangle moves once for each
  vertical blank.

## 2. The modules

### OreleiMidi: voices and key changes

`slave`, `master`, `touch`, `newOff`, `newOn` are the statics of the same
names (`midi_slaves`, `midi_masters`, `midi_touch_counter`, `spu_new_key_off`,
`spu_new_key_on`); `regs` and `keyed` stand for the chip: what each voice was
last set up to play, and which voices are on. `updating` says that control is
inside `orelei_midi_update`.

| Action | Code |
|---|---|
| `Reset`, `Load` | `orelei_midi_reset`, `orelei_midi_load_from_data` |
| `BeginUpdate`, `EndUpdate` | entry of `orelei_midi_update`; its end, with `orelei_commit_key_changes` |
| `NoteOn`, `NoteOff` | `midi_note_on` with the callback into `orelei_play_note`; `midi_note_off` |
| `SelectRpnLo`, `SelectRpnHi`, `DataEntry` | controllers 0x64, 0x65, 0x06 |
| `PitchBend` | event 0xE, which re-plays the channel's voices with `ch = -1` |

Left out because no property tells them apart: programs, velocity, volumes and
the remaining controllers. Any sequence of events may happen in an update; which
one does is the sequencer's concern. `TouchMod` is the modulus of the stamps,
2^32 in the code and 4, 5 or 16 in the runs; in `midi_blip` it wraps.

`NotePool` is what a listener is promised: a pool of at most `Polyphony` notes,
from which only the oldest is evicted, and only when it is full. `MCOreleiMidi`
maps the table of voices to it (`held` is the set of notes that own a voice,
`older` the order of their stamps) and states the refinement as `PoolSpec`,
for steps in which no stamp wraps (`SpecBeforeWrap`): once it does, the youngest
note looks oldest, and the promise does not hold.

### MidiSequencer: time

`tempo`, `accum`, `waiting`, `next` are `midi_tempo`, `midi_tick_accum`,
`ticks_waiting` and `mptr`. `Update` is the entry of `orelei_midi_update` with
its division, `PlayEvent` one event of the track whose turn it is, `NextTrack`
the end of the turn. After the last event the code reads one more delta past
the track's end; `AfterEnd` are the values it may find. Events are read whole:
the byte stream, running status and variable-length numbers are not modelled.
`Update` with tempo 0 leads to `trap`: the MIPS divide leaves undefined numbers
there, and nothing is said about what follows. `ticks`, `elapsed`, `charged` and
`written` are history variables.

### MidiPlayer: the sequencer on the allocator

`MidiPlayer` extends the sequencer and instantiates the allocator: an event of a
track is the handler it leads to, in the update in which it is due. `PlayOn` and
`PlayOff` are cases 0x9 and 0x8 (a note on of velocity 0 is of kind "off"),
`PlaySilent` a meta event, or the release of a note that no voice has; controllers
and bends are in `OreleiMidi`. `NotesHeard` is what a player owes to a file: between
updates the notes heard, the voices keyed on and not about to be keyed off, are
those whose last event due at this tick strikes them. It is claimed for files in
which no note is played by two tracks and there are voices for all notes
(`Playable`): tracks are played one after the other within an update, so two events
of one note on different tracks may come in the wrong order. Notes released in the
update that struck them (`blips`) are excepted: finding 1.

### Seedy: the CD-ROM driver and the drive

`pc`, `call`, `at`, `taken`, `got` say where the driver is: in which call, at
which command of its script, how many interrupts it has collected for that
command and which was the last. `Send` is `seedy_start_command` with the write of
the command; `PollClear` and `PollTake` are the two halves of
`seedy_poll_interrupt_blocking`, `AckMain` the `seedy_ack_main_interrupt` and
the decision that follows; `CopySector` and `CopyDone` the loop of
`seedy_read_data_sync`. The three are separate steps because each acknowledges
blindly, and an answer that arrives between two of them is lost.

The drive (external) accepts or refuses a command, owes a second answer to Init,
SetSession, Pause and Stop, and delivers sectors while it reads; an answer is
latched only when the one before has been acknowledged. A newer command may
cancel an answer still owed (`\E kept \in SUBSET later`).

`speed` says which of the two is the faster and never changes; `HostSpeeds` are
the possibilities. With "fast", nothing arrives in the few instructions between
two waits of the driver, and a sector is copied before the next one is complete;
with "slow", the drive may do anything at any time, sectors are overrun and
answers acknowledged unseen. `OwnAnswers` and `BufferExact` hold at either speed;
`ConsecutiveSectors`, `LeavesDriveQuiet` and `CallsReturn` are claims about a
fast program, and say so.

Further assumptions, each a named constant: `PromptPause` (no sector is completed
while a Pause is being accepted), `Refusable` (which commands may be refused:
GetStat, SetSession, ReadN, ReadS) and `FailAt` (a read may fail before its first
sector).

What lies outside the assumptions, and is therefore not promised: a refused
SetLoc is ignored and the old location read; a refused Pause or Init is
waited on for ever; a read error after the first sector leaves the driver
waiting for data. `seedy_stop_xa` and `seedy_drive_stop`/`_start` return with
an answer outstanding, so a call that follows at once may take the other
answer for its own; the history variable `clean` says that a call began with
nothing outstanding, and the properties are about those calls. All the calls
are in the model, clean or not. `seedy_is_xa_playing` changes no state; it reads
the register the index left by the last call selects, and is not modelled.

### Sawpads: pads and memory cards

The driver is at position `pos` of the transaction `Script(op, words)`. `Put` is
the first half of `sawpads_send` (clear the count, write the byte); `Acked`,
`TimedOut`, `Linger` and `TakeLast` are the ways its wait ends; `Handle` is
what the caller does with the byte: go on, retry, or return. `Exchange` is
the port and the device, `LateAck` is `sawpads_isr_joy` for an acknowledgement
that comes late, `Replug` a plug pulled out or put in at any time, between any
two bytes.

The device follows the transaction with a position of its own, `dpos`; since an
acknowledgement does not say which byte it is for, a late one moves the driver
ahead of the device. Checksum, address echo and result byte are then all that
protects the data.

A byte is the set of its bits, so that the checksum can be the code's (lines 175 and
232): `XorAll` is the exclusive or of the bytes of a sequence, `Check` that of address
and data. Every exchange of the code is one of the model, the two bytes of an id, an
address or an echo included.

That checksum tells one wrong byte and not two that cancel, and the rest of the protocol
is not stronger. So two history variables count what went amiss: `missed` the bytes of
the attempt that the driver did not get the device's own answer to (it timed out, took an
interrupt meant for another byte, or got what nobody sent), up to `Several`; `own` says
that the device took the last byte exchanged in its turn. `SuccessIsTrue` is about calls
whose last attempt has at most one such byte, and about every write whose result is
the card's own. What the code does with more, and the model with it:

* two equal data bytes of a read that both time out count as 0xFF each (line 92) and
  cancel: 128 is returned with a wrong buffer;
* a card that acknowledges one byte late is a byte behind from then on; a read shifted in
  this way passes if the card's checksum is 0xFF;
* a card deaf to one data byte 0x00 of a write takes the checksum for the last data byte
  and the 0x00 of line 241 for the checksum, which it is: a shifted block is committed;
* deaf to a high address byte 0x00, it takes the low byte for the high one and a
  data byte for the low one, and may commit to another sector;
* deaf to the first bytes, it may take an address or a data byte for a command.

The code cannot tell any of these from a good transfer while it goes on; no text of the
repository says that it can.

`MemoryCard` is the abstract card: a store of sectors. A write
takes effect at one moment of its call, or not at all, and may do so in a call that
fails (`Commit` before `Fail`); nothing else changes a sector; a call that succeeds
answers what its sector holds at that moment. `CardSpec` in `Sawpads` maps driver,
wire and card to it: the call is what a caller waits for (`CardCall`), its answer the
buffer or a failure (`CardAnswer`), and every exchange on the wire is a step of it or a
stutter, or a step with more than one byte of its attempt amiss (`Amiss`): the abstract
card knows no bytes, retries or late acknowledgements. The exception is one of steps and
not of behaviours: an attempt or a call made after a bad one is a step of the
abstract card again, over whatever the sectors hold then.
`SuccessIsTrue` says as an invariant what it means between two calls: the sector of a
successful one holds what was answered until the next call begins.

Abstractions: the port keeps the last byte received, and reads as one of `Stale` when
there is none. Analog axes, `unlock_dualshock` and the second port are not
modelled. A pad's id announces 1 to 16 words; reports of more than `MaxWords` are cut to
that, which is 16 in the code.

### Pscd: the image builder

`dents`, `remap`, `pathRemap`, `sectorCount` are `dent_list`, `dent_remap`,
`dent_path_remap`, `sector_count`; `image` maps a sector to what was written
there. `Line` is a manifest line with `assign_dent`'s recursion over the
directories; `SortPass` one round of the exchange sort; `PathEntry` and
`EndTable` the two path tables; `Place` a file; `Directory` a directory;
`Finish` the descriptors. Indices count from 1; names are numbers in
`strcmp`'s order of their upper-case forms, distinct; a manifest lists paths of
one file tree, each beginning with `./`. The contents of EDC/ECC fields, the cue
file and the size of a directory's records (at most one sector) are left out.

### XaSector and XaStreams: from the encoder to the disc

`XaSector` has the operators on a sector: what `psx_audio_xa_encode` and
`init_sector_buffer_video` make, what `psx_audio_xa_encode_finalize` and the
interleaver's patch change, and what `encode_sector` of the image builder makes of
it. A sector is its mode byte, the subheader and its copy, a payload and the
checksum, which is taken for what it is computed from: a stale one differs
from a fresh one. `XaStreams` is the pipeline. `Init` has the files psxavenc may
have written and a manifest; `ParseLine` is a round of `parse`, `EndManifest` its
end; `BeginChunk` asks every file for its end, `WriteSector` is the body of the two
loops of `main`, and `Build` the image builder's `DENT_RAW` case.

`parse` keeps one struct for all lines. `Stale` is what it holds of the line
before, or of the stack: a null entry therefore has the file of the line before, and
a first line that is null has a wild pointer, which leads to `trap`. A line without
its two numbers takes the next line's count for one, and ends the manifest;
`StreamsWhole` is stated for manifests where only the last line does so.

Assumed: a manifest has no more lines than `entries[]` has places (`EntryMax`, 64), which
`parse` does not check, so a longer one is written behind the array; the run has three
lines, the theorems any number up to 64. Counts are positive, files exist, consist of
whole sectors and are of the type their line says. A line of unknown type, a sector of mode 1, the time and
ECC fields and the coding byte are left out. A raw sector of form 1, as all video
is, loses file number, channel and submode in the image builder, which writes
zeros there: `StreamsWhole` claims numbers of xa lines only. The file number in the
directory record, which the image builder always sets to 0, is not in the model.
The end-of-file mark
of `finalize` does not reach the disc: it is set in the first subheader and in the
payload, and the image builder copies the second subheader over the first.

### StrMux: frames and sound of a film

`samples` and `frames` are what psxavenc has decoded and not yet retired, as
numbers in their order; `frameIndex`, `blockIndex`, `blockCount`, `overflow`
are the `frame_*` fields of `state_vid`, and `unmuxed` is the frame encoded in the
buffer of that name. `ensure_av_data` polls until there is `Enough`:
`PollAudio`, `PollVideo` are a packet of either kind, in any order, and
`EndOfFile` the end, after which what is still held is not written ("TODO:
the final buffer"). `BeginGroup` encodes the audio sector; `VideoSector` and
`NextFrame` are the loop of `encode_block_str` with `encode_frame_str`, which
encodes the first frame held and retires it; `WriteGroup` is the rest of
`encode_file_str`'s loop.

`Retired` has `retire_av_data`'s peculiarity that it removes nothing when it
should remove all: the lookahead of two is what keeps a frame from being shown
twice, and `FramesInOrder` depends on it. A failed assertion leads to `trap`.
`RateAssumption` holds for 15 frames a second, the only rate psxavenc sets. A sample
stands for a pair of samples in stereo. Frames that the decoder drops
and packets of other streams change nothing and are left out; so are the time codes
and the checksums of the sectors. What a frame is encoded to is left to `MdecFrame`.

### MdecTables, MdecFrame, StrFilm: pictures

`MdecFrame` is `encode_frame_str` behind its transform: a picture is the sequence
of its blocks, each with its DC value and the AC coefficients that are not 0.
`Reduce` is a round of the loop that sheds coefficients below a rising limit,
`EncodeBlock` quantises a block and lists the calls of `encode_bits` that follow,
`EncodeBits` is such a call, `EndMark` and `EndFrame` the rest. `packer` is
`bits_value`, `bits_left` and the words of `unmuxed` behind its header; `Flush`, `Fill`
and `Put` are `flush_bits` and `encode_bits` with its split of codes longer than 16
bits. The split is needed because the loop does not count `bits_left` down before it
flushes: a word filled from empty in one go still has 16 bits left, counts as
empty in `flush_bits` and is lost. This explains the "FIXME: for some reason the main logic breaks when bits >
16" (`psxavenc/mdec.c:229`); leaving the split out is the mutant of `FramesPlay`.
The loop of `encode_bits` is written out (`Trunc` a round, `Plop` what is left): as no
code has more than 22 bits it is run at most twice. `FrameTypeOK` has the
assertions of `encode_bits`: a code has no more bits than it is said to have, and the bits
it is put on are free. `MdecTables` has the source's tables; that their codes are as long as
they say (`TableAssumption`) is a closed formula, which TLC evaluates.

`StrFilm` composes both: `StartFrame` is the call of `encode_frame_str` from the
multiplexer's loop, `FrameReady` its return, `WriteSector` a video sector with its
2016 bytes of the frame. The player (external) gathers the sectors of a frame and
decodes them after the same table; `FramesPlay` compares what it finds with the
picture, quantised. `WordsDealt` is the part of it that does not decode: the sectors
have the frame's words, all of them, in order, and zeros behind them. `ShedLeast` says
that as many codes are left as the threshold allows, and that nothing shed is larger, in steps of 8, than what is kept.

The threshold counts codes and not bits ("TODO: Base this on actual bit count").
The assertion in `flush_bits` that a frame fits its sectors is in the model
(`Fits`); in the code a frame of eight sectors always meets it, while one of nine,
were each of its 5625 AC codes an escape of 22 bits, would miss it by 34 bytes (145362
bits, of which nine sectors hold 145088). The reduction
could not end if two codes for each block were more than the threshold; with the one
size psxavenc has they are 3600 of at least 8200 (`FilmAssumption`).

### Elf2psx: from the linker to main

A byte of the executable is the offset at which it lies in the file; addresses and
sizes are `uint32_t` (`Plus`, `Minus`). `Scan` and `CheckRange` find and check the
range of the program, `Fill` writes header and blank pages, `Copy` copies a segment
and `IoError` is a failing call of the C library at any step. Then the console:
`Load` is its loader (external), and `ClearBlock` a round of the loop with which
`_start` clears from `_edata` on, 16 bytes at a time, bound included; the branch's
delay slot advances the pointer. `ImageExact` is about the image alone, for any
executable; `MainFindsProgram` about memory when main is called, for executables as
a linker makes them (`Linked`). Clearing goes up to two blocks beyond `_end`, which
is memory nobody has been given yet. The entry point, the region marker, the
stack's address and memory that segments ask for beyond their bytes are not
modelled.

### Triangle: the interrupt and the example

`main` and the handler share `counter`, `out` and `realOut` (`vblank_counter`,
`out_vidy`, `real_out_vidy`). Every access of main to one of them is a step of its
own (`ReadOut` and `Compare`, `ReadCounter` and `Count`), with `temp` for the register
between them; the interrupt comes between any two. `Dispatch` and `Leave` are
`__chenboot_isr` with the frame it saves and restores (`frame` stands for the
caller-saved registers), `Handle` and `Leave` the two halves of `isr_main`. `canvas`
is what each buffer holds, `display` which one is on the screen. `owed` is a history
variable: blanks handled for which the triangle has not been moved.

The GPU is external. It is assumed to have drawn what it was given before the
buffer is published: main waits for room in the GPU's queue, not for the end of its
drawing. Exceptions other than interrupts, which end in a loop, do not occur. HI and
LO are not saved by the dispatcher; this handler does not use them.

## 3. What is checked

| Run | Instance | Shows |
|---|---|---|
| `midi_voices` | 2 voices, 2 channels, 2 notes, 4 strikes between resets, no note ends in the update it began in | `PoolSpec`, the refinement of the note pool; `OneVoicePerNote`, `HeldVoicesSound`, `FreeVoicesQuiet`: deferred key masks, reuse, theft and bends agree |
| `midi_blip` | 2 voices, 2 channels, stamps that wrap, notes of any length | violated: see finding 1 |
| `midi_player` | 9 files, updates of 0, 5, 16, 40 units, 5 updates; 2 voices, 3 notes | `TimeConserved`, `PlayedOnTime`, `NotesHeard` |
| `midi_tempo` | the sequencer alone, its files and updates | violated: see finding 2 |
| `seedy_calls` | all six calls in any order; sizes 0, exactly one sector, over two; a program faster and one slower than the drive | `OwnAnswers`, `ConsecutiveSectors`, `BufferExact`, `LeavesDriveQuiet`, `CallsReturn` |
| `sawpads_card` | 2 sectors of 2 bytes, blocks and stray answers of 0x00 and 0x47, one late acknowledgement at a time | `TypeOK`; `SuccessIsTrue`; `CardSpec`, the refinement of the store of sectors |
| `sawpads_port` | a sector of 1 byte, reports of up to 2 words, cards and pads exchanged at any byte | `AbsentPadReleased`, `CallsReturn` |
| `pscd_image` | 3 lines over all paths of depth 3 over 2 names; files of 0 and 5 bytes, sectors of 2 and 3 | `EveryFileFound`, `DirectoriesExact`, `PathTablesSound`, `VolumeFull`, `WrittenOnce` |
| `xa_disc` | 3 lines over an xa, an xacd and a str file, empty or of several sectors; counts 1 and 2; numbers given, negative or left out | `StreamsWhole`, `SectorsValid`, `Ends` |
| `str_film` | the code's rate: groups of 7 sectors, 8.75 to a frame; 9 frames of 6 blocks, 24 samples in packets of 1 and 3, 2 samples to a sector; 8 films | `FilmTypeOK`, `FramesInOrder`, `InStep`, `AudioWhole`, `FramesPlay`, `ShedLeast`, `ReductionEnds` |
| `elf_convert` | 3 pages of 4 bytes in an address space of 32; up to 2 segments anywhere, also across its end, files too short, blocks of 2 bytes to clear | `ImageExact`, `MainFindsProgram` |
| `triangle_loop` | up to 2 blanks behind, a counter modulo 5 | `WholePictures`, `TimeKept`, `KeepsShowing` |

Every property has a mutant in PROJECT.json: a plausible slip in one mapped
definition that makes the run fail.

Why the bounds are enough. Voices: theft, reuse and free voices all occur with
two, and four strikes fill, rob and refill the table; a second channel separates notes
of one number; one bend beside the centre is enough to tell a followed wheel from one
that was missed. What the instance leaves out, wrapping stamps, more voices, a choice
among several, is covered by the theorems, which hold for all constants. The
sequencer's updates are shorter than a tick, about one and several, and the files
combine two tracks, a track's own tempo changes and simultaneous events; two voices
and three notes play them with and without theft. The drive's
scripts are exercised from every state another call leaves; a read of three
sectors, the last in part, has a first, a middle and a last; one location is
enough, since whatever sector the disc turns to first is another. A card sector of two bytes
distinguishes a byte lost from one shifted, and two wrong bytes can cancel in it; its
data are 0x00, which is also what the driver sends to be answered, and 0x47, which is also
the good result. False successes and shifted blocks occur in the run when the conditions of
the properties are taken away. Three attempts are the code's own bound; `MaxLate`, the
acknowledgements late at a time, `MaxWords` and `Several`, at which `missed` stops counting,
are bounds. Three manifest
lines give nested, sibling and repeated directories; 5 bytes are two and a part
of both sector sizes, and 0 none. In a manifest of streams three lines give a
null entry before, between and after others, one file opened twice, and streams
that end in the middle of a chunk, at its end and in different chunks. Remainders of
a film repeat after four frames, or five groups; nine groups are run, and as many
frames as they need and one more. The eight films use all 111 codes of the table with
both signs, escapes, blocks without coefficients and pictures with too many; a sector
of 4 words and a threshold of 3 codes to a sector are `SectorWords` and
`CodesPerSector`, small so that pictures go over both. An address space of 32 bytes
lets a segment lie before, in, across and behind the memory, and wrap. The example's
counter is modulo 5, and `MaxBehind` bounds the blanks it may be behind by 2, so the counter
wraps many times; the theorems need neither.

### Fairness

Safety properties need none. `Seedy`: the driver runs on (nothing preempts a
single-threaded program), the drive answers a command it was given, completes
what it owes and goes on reading: the hardware's contract, without which
no call of a driver without timeouts returns. The application need not call, and
refusals and errors need not happen (each shares its fairness with the success
it replaces). `Sawpads`: only the driver and the port's shift register are
fair; nothing is assumed of the devices, since every wait of the code counts
down. `XaStreams` is a sequential program that runs on. `StrFilm`: the loop that
reduces a picture runs on (`WF_frameVars(Reduce)`); nothing else is asked of the encoder.
`Triangle`: the processor runs on and the screen is refreshed, so vertical blanks go on
coming; that main is not starved by them is `MaxBehind`. Deadlock is not checked where the system really stops: an image that is
done, a bounded number of updates, a film that is over, a drive two of whose calls were mixed up.

## 4. What is proved

For every value of the constants that meets the named assumptions:

* `OreleiMidiProofs`: `TypeCorrect`, `OneVoicePerNoteHolds`,
  `HeldVoicesSoundHolds`, and, for files whose notes outlast an update,
  `FreeVoicesQuietHolds`. None but the first is inductive: a held voice is keyed on
  only after the update's end, so the invariant behind `HeldVoicesSound` says that
  during an update too it is `newOn`, or keyed and not `newOff`, and that its
  registers follow the bend; the one behind `FreeVoicesQuiet` that a voice
  nobody holds is off, or is going off and not on. Before the first
  load the zeroed table gives every voice to note 0 of channel 0, which is why
  the invariants start with `loaded`.
  `PoolImplemented` is the refinement of `NotePool` by `SpecBeforeWrap`.
  `StampsOrder` adds to the allocator's invariant that no two held
  voices have one stamp and none is later than the counter; then the order of the
  stamps is the order of the strikes (`OlderStamps`), there is a free voice exactly if
  the pool is not full (`KeysCounted`), and the voice that `midi_note_on` picks costs the
  pool the one note the pool would drop (`PickedVoiceCosts`). Silence, release and
  strike are then one action each; every other step stutters.
* `MidiPlayerProofs`: `TimeConservedHolds`, `PlayedOnTimeHolds` and `NotesHeardHolds`,
  for any files, update times and numbers of voices. `Account` adds the
  types the division depends on; the step of an update rests on `AdvanceExact`:
  quotient of the update, quotient of the carried sum and the new remainder
  make up what was divided. `Waits` says that a track waits for the difference between
  when its next event is due and now, and `TurnInv` that the tracks before the one whose
  turn it is are through. For the notes, `PlayerInv` follows the allocator with the
  sequencer: `KeysKept` that a held voice is the only one of its note and is keyed on
  for it, at the latest at the end of the update, and `Struck = Played` that the notes with
  a voice are those the events played so far have on. That no voice is ever stolen in a `Playable` file is a
  matter of counting (`VoiceToSpare`): if all voices were held, each would be held for a
  note of the file that is not the one being struck.
* `SeedyProofs`: `BufferExactHolds` without further assumptions: the sectors left to
  copy are those the rest of the buffer needs (`Room`), whatever the sizes.
  `OwnAnswersHolds`, `ConsecutiveSectorsHolds` and `LeavesDriveQuietHolds` assume
  `Obedient`: the drive completes no sector while it accepts a Pause, and refuses
  neither a Pause nor a mode nor a location. `Outstanding` says where the answers to a
  command may be: not yet given, one owed, one latched, one taken, and that with the
  last one taken none is left; `Playing` which commands a sector may come in on. For a
  fast program `InOrder` adds that no INT3 is missed and `Following` where the FIFO and
  the head are, counted in sectors copied.
* `SawpadsProofs`: `TypeCorrect`, `SuccessIsTrueHolds` and
  `CardSpecHolds`, for sectors of any size, any data and any number of late
  acknowledgements, under the conditions their properties state. Driver and device may be
  at different places of the transaction, so the invariant does not relate the two
  positions but says what follows when they agree. `WireInv`: the bytes on the wire are the
  last ones sent, and the device has taken no more than were exchanged. `InStep`: a device
  that took all of them has the driver's command, address and data, and calls the block
  good only after the sector has it. `CountInv` and `RxInv`: with nothing missed the byte
  received is the device's answer to the one sent; bytes the driver went on without are
  counted. `ReadInv`: the buffer differs from the card's sector in no more places than
  bytes were missed, so in one at most, and in none once the checksum was compared:
  `OneWrongByte` says that two sequences which differ in one place have different
  exclusive ors. `CardSpecHolds` is the refinement of `MemoryCard`, from the same
  invariant: what the device commits with at most one byte amiss is the block of the
  call under way (`CommitCounted`, the abstract `Commit`); the driver's return is `Succeed`
  or `Fail`; the end of an attempt that is made again, and every byte, stutters.
  `AbsentPadReleasedHolds` assumes that at most three
  acknowledgements are outstanding: each takes the driver one byte further with a pad that
  is not there (`PadInv` counts those left), and a fourth would be taken for that of a
  data byte, and the byte for buttons. With `MaxLate` at 4 TLC finds the property false;
  in the runs it is 1.
* `PscdProofs`: `WrittenOnceHolds`, `VolumeFullHolds`, `PathTablesSoundHolds`,
  `DirectoriesExactHolds` and `EveryFileFoundHolds`, for every manifest over one file
  tree, any lengths and sizes of sectors. The invariant `IInv` has a part for each thing
  the tool's phases hand on. `EntriesInv`: the entries are a `Tree`, in which a
  directory comes before what is in it, and the directories have the sectors from 22 on,
  one each (`DirSectors`). `OrderInv`: `remap` permutes the entries, and as far as the
  sort has come they are in order of parent and name (`SinkOrders`, for a round of the
  outer loop). From these two a parent lies before its children in the sorted
  order too (`ParentBefore`), so the assertion when path tables are written
  does not fail and a table's numbers point backwards (`TablesInv`). `LayoutInv` says
  phase by phase which sectors are written; `WrittenOnce` and `VolumeFull` follow.
  `if(j == i)` compares a place in the sorted order with an index of the entries; by
  `OnlyRootLeftOut` it never hides a child, since entries 2 to i have
  parents below i and therefore come before any child of i: were one of these at place i,
  they would have to share the i - 2 places between the root and it. `EveryFileFound` walks down
  a path, name by name: the records reached are the entry of the path's prefix and
  no other (`ReachOne`).
* `XaStreamsProofs`: `TypeCorrect`, `SectorsValidHolds` and `StreamsWholeHolds`.
  `SectorsValid` speaks of the finished image; the invariant, `IInv`, says that every
  sector in a file or in the output was `Made`: it has typed subheaders and, if its mode
  is 2, a checksum, right or wrong, but not none. That the checksum is there is what
  the image builder's renewal depends on (`EncodedValid`): it renews one and never
  adds one. The encoder, `Finalize` and `Patch` each keep `Made`. Behind `StreamsWhole`,
  `Woven` says what the output is made of: whole chunks and a part of the next, in which
  each line has its own slots and fills them from its file, in order, up to its end and with
  empty sectors after it. `NumbersFit`, that file numbers are below 256 and channels
  below 32, is assumed: the patch keeps 8 and 5 bits.
* `StrFilmProofs`, of `StrMux`: `TypeCorrect` (no assertion fails, a frame fits its
  buffer), `FramesInOrderHolds`, `InStepHolds` and `AudioWholeHolds`, for any rate of
  between `Run` and `MaxUnmuxed` sectors to a frame, any packets and a lookahead of two
  frames or more. The invariant ties the sectors written to the frames begun: they are what
  those were due, but for the rest of the last frame, and the remainder carried is `overflow`.
  Then of `StrFilm`, for any pictures: every step of a film is one of the multiplexer or
  leaves it alone (`FilmIsMux`), so all this holds of films (`FilmInOrder`).
  `ShedLeastHolds` is about the loop that sheds coefficients. `Reducing` says of a picture
  under way that nothing it keeps is below the limits of the rounds so far (`Kept`), that
  nothing shed is above them (`Gone`), and that what is left to be shed is exactly the
  excess, so that no round takes one coefficient too many; the last round makes it
  `Cut`. What a round takes is counted off in the order in which
  `reduce_dct_block` comes to them: the first few of a finite ordered set are as
  many as are asked for, or all (`Numbered`, `FirstFew`).
  `FilmTypeCorrect`: the word being filled is a number in its first bits and 0
  in the rest (`Packed`), so a code falls on free bits (`FreeBits`), in all three places
  where `encode_bits` may put it; and every code of a block has the bits it is said to have,
  since runs are at most 62 long, levels are clamped to ten bits and the table keeps
  `TableAssumption` (`BlockCodesSound`). `WordsDealtHolds`: what the player has gathered is
  what of the frame's words belongs to the sectors so far (`DealtInv`), and with a sector
  it becomes that of one more (`SectorDealt`); that all words are dealt then follows from
  `Fits`, which `flush_bits` asserts.
* `ProgramProofs`, of `Elf2psx` and `Triangle`: `ImageExactHolds` and
  `MainFindsProgramHolds`, for any word,
  page and block size. The invariant follows the program's places: up to segment `i` the
  range covers what was seen, then each was checked, then the image holds what the last
  of the segments copied so far put there. Where the sums wrap, the check of the range
  has excluded the segment. `WholePicturesHolds`, `TimeKeptHolds` and `TypeCorrect`, for
  any width of the counter. The invariant says for each place of main what the interrupt
  may have changed since it was read, and that the register loaded before an interrupt
  survives it in the frame. That the triangle stays on the picture is no
  inductive bound on its place: height and speed lie on one of two parabolas
  (`PoseInv`, `Parabola`), and a bounce leads from one to the other.

Sums, loops and walks are recursive functions, and the prover's library has no induction
it can use on them. Where a proof needs the value of one it takes the least number at which
the claim would fail (`LeastExists`), which gives it the round before; `Rounds` and
`LoopExists` in `PscdProofs` say so once for all loops.

Only model-checked: `FramesPlay`, as far as it goes beyond `WordsDealt`: that the decoder finds
the picture again is a statement about two recursions over a list of any length, the coder's
and the player's, and an induction over data, which the provers cannot make; that the stage is
never `trap` there depends on the instance's sizes (see `Fits`). And all liveness,
`CallsReturn` of both drivers, `Ends`, `KeepsShowing` and `ReductionEnds`, which is out of
the prover's reach. `OneVoicePerNote`, `PoolSpec` and
the other theorems about voices hold in `MidiPlayer` as far as its allocator's steps are
those of `OreleiMidi`; the theorems about `MidiPlayer` do not use them.

## 5. Findings

1. A note struck and released within one update sounds for ever
   (`midi_blip`): KOFF is written before KON, `midi_note_off` leaves the
   voice in `spu_new_key_on`, and the voice is then nobody's.
2. A tempo event sets another tempo than it carries (`midi_tempo`): the first
   of its three bytes is read three times. A first byte of 0 makes the next
   update divide by 0.

A run that shows one of them checks only the statement that fails, quoted in
PROJECT.json from the source.

## 6. Plan

Done: the allocator, its abstract pool and the refinement's proof; the sequencer, both
composed, and the proofs of its time and notes; the two device drivers and the proofs of
what a call returns; the image builder, proved throughout; the streams from the encoder to the
disc, proved; the abstract card, and the proof that the driver implements it; the
multiplexer of films and the coder of their pictures, with their proofs, and a
player; the executable converter up to the call of main and the interrupt of the example,
with their proofs.

Next, modules: the SPU driver's transfers and its set-up; the remaining
single-command senders of seedy; the analog pads and `unlock_dualshock` of sawpads.

Next, theorems: with a prover that can do induction over data, that a player decodes what
the coder encodes (`FramesPlay`): one code at a time, from `Packed` and from the table's
codes being no beginnings of one another.

Not planned: DCT, rate control and ADPCM search (numerical quality, nothing a
model checker can judge), decoding (FFmpeg), register headers (declarations).
