-------------------------------- MODULE StrMux --------------------------------
(***************************************************************************)
(* The multiplexer of the audio/video encoder (src/toolsrc/psxavenc): how  *)
(* encode_file_str pulls decoded samples and frames in whatever order the  *)
(* file has them, and deals them out to groups of video sectors and one    *)
(* sector of audio.  A frame takes a number of video sectors that need not *)
(* be whole: the remainder is carried from frame to frame.                 *)
(*                                                                         *)
(* Samples and frames are numbers in the order in which they were decoded; *)
(* transform, quantisation and Huffman coding of a frame are left out.     *)
(***************************************************************************)
EXTENDS Integers, Sequences

CONSTANTS
  Run,            \* video sectors of a group, 7 in the code
  BaseOverflow,   \* 150*7*fps_den
  OverflowDen,    \* 8*fps_num: BaseOverflow/OverflowDen sectors for a frame
  SectorSamples,  \* samples in a sector of audio
  Lookahead,      \* frames_needed, 2 in the code
  PacketSizes,    \* samples in a packet of audio
  MaxUnmuxed,     \* MAX_UNMUXED_BLOCKS: sectors a frame has room for
  MaxFrames, MaxSamples   \* bounds: what is decoded

ASSUME MuxAssumption ==
  /\ Run \in Nat \ {0} /\ BaseOverflow \in Nat \ {0} /\ OverflowDen \in Nat \ {0}
  /\ SectorSamples \in Nat \ {0} /\ Lookahead \in Nat \ {0, 1}
  /\ PacketSizes \subseteq Nat /\ MaxUnmuxed \in Nat
  /\ MaxFrames \in Nat /\ MaxSamples \in Nat

\* At 15 frames a second, which is all there is, a frame is longer than a
\* group's video, and fits its buffer.
ASSUME RateAssumption ==
  /\ Run * OverflowDen <= BaseOverflow
  /\ BaseOverflow <= MaxUnmuxed * OverflowDen

VARIABLES
  pc,            \* ensure, video, done or trap: an assertion has failed
  samples,       \* settings->audio_samples
  frames,        \* settings->video_frames
  decoded,       \* samples and frames decoded so far
  frameIndex,    \* frame_index
  blockIndex,    \* frame_block_index
  blockCount,    \* frame_block_count
  overflow,      \* frame_block_overflow_num
  unmuxed,       \* state->unmuxed: the frame encoded there
  audio,         \* the group's audio sector
  group,         \* the group's video sectors so far
  output         \* the groups written

held  == <<samples, frames>>
frame == <<frameIndex, blockIndex, blockCount, overflow, unmuxed>>
vars  == <<pc, held, decoded, frame, audio, group, output>>

Nothing == 0    \* a buffer that has not been encoded into

Init ==
  /\ pc = "ensure"
  /\ samples = <<>> /\ frames = <<>>
  /\ decoded = [samples |-> 0, frames |-> 0]
  /\ frameIndex = 0 /\ blockIndex = 0 /\ blockCount = 0 /\ overflow = 0
  /\ unmuxed = Nothing
  /\ audio = <<>> /\ group = <<>> /\ output = <<>>

-----------------------------------------------------------------------------
(* The decoder. *)

\* ensure_av_data (mutant: one frame is enough for a group).
EnoughForOne == Len(samples) >= Lookahead * SectorSamples /\ Len(frames) >= 1
Enough       == Len(samples) >= Lookahead * SectorSamples /\ Len(frames) >= Lookahead

PollAudio(n) ==
  /\ pc = "ensure" /\ ~Enough
  /\ decoded.samples + n <= MaxSamples
  /\ samples' = samples \o [i \in 1 .. n |-> decoded.samples + i]
  /\ decoded' = [decoded EXCEPT !.samples = @ + n]
  /\ UNCHANGED <<pc, frames, frame, audio, group, output>>

PollVideo ==
  /\ pc = "ensure" /\ ~Enough
  /\ decoded.frames < MaxFrames
  /\ frames' = Append(frames, decoded.frames + 1)
  /\ decoded' = [decoded EXCEPT !.frames = @ + 1]
  /\ UNCHANGED <<pc, samples, frame, audio, group, output>>

\* The file ends, and with it the encoding: what is held is not written.
EndOfFile ==
  /\ pc = "ensure" /\ ~Enough
  /\ pc' = "done"
  /\ UNCHANGED <<held, decoded, frame, audio, group, output>>

\* retire_av_data removes the first n, unless they are all there is.
Retired(q, n) == IF Len(q) > n THEN SubSeq(q, n + 1, Len(q)) ELSE q

-----------------------------------------------------------------------------
(* A group. *)

BeginGroup ==
  /\ pc = "ensure" /\ Enough
  /\ pc' = "video"
  /\ audio' = SubSeq(samples, 1, SectorSamples)
  /\ UNCHANGED <<held, decoded, frame, group, output>>

\* The sectors of the next frame (mutants: no remainder is carried; the count
\* is rounded up).
BlocksUp   == (overflow + BaseOverflow + OverflowDen - 1) \div OverflowDen
Blocks     == (overflow + BaseOverflow) \div OverflowDen
NotCarried == 0
Carried    == (overflow + BaseOverflow) % OverflowDen

\* The next frame is encoded, with encode_frame_str, and retired.
NextFrame ==
  /\ pc = "video" /\ Len(group) < Run
  /\ blockIndex >= blockCount
  /\ frameIndex' = frameIndex + 1
  /\ blockCount' = Blocks
  /\ overflow' = Carried
  /\ blockIndex' = 0
  /\ IF frames = <<>>
     THEN pc' = "trap" /\ UNCHANGED <<unmuxed, frames>>
     ELSE /\ unmuxed' = Head(frames)
          /\ frames' = Retired(frames, 1)
          /\ UNCHANGED pc
  /\ UNCHANGED <<samples, decoded, audio, group, output>>

\* A sector of the frame, under its header.
VideoSector ==
  /\ pc = "video" /\ Len(group) < Run
  /\ blockIndex < blockCount
  /\ group' = Append(group, [frame |-> frameIndex, chunk |-> blockIndex, count |-> blockCount,
                             picture |-> unmuxed])
  /\ blockIndex' = blockIndex + 1
  /\ UNCHANGED <<pc, held, decoded, frameIndex, blockCount, overflow, unmuxed, audio, output>>

\* Samples retired after a group (mutant: those of the whole lookahead).
RetiredAll == Lookahead * SectorSamples
RetiredNow == SectorSamples

WriteGroup ==
  /\ pc = "video" /\ Len(group) = Run
  /\ pc' = "ensure"
  /\ samples' = Retired(samples, RetiredNow)
  /\ output' = Append(output, [video |-> group, audio |-> audio])
  /\ group' = <<>>
  /\ UNCHANGED <<frames, decoded, frame, audio>>

-----------------------------------------------------------------------------
Next ==
  \/ \E n \in PacketSizes : PollAudio(n)
  \/ PollVideo
  \/ EndOfFile
  \/ BeginGroup \/ NextFrame \/ VideoSector \/ WriteGroup

Spec == Init /\ [][Next]_vars
-----------------------------------------------------------------------------
(***************************************************************************)
(* Properties                                                              *)
(***************************************************************************)
Numbers(q, n) == q \in Seq(1 .. n)

\* The types of the variables: in particular no assertion fails, a frame fits
\* its buffer, and the loop is never further than a frame's end.
TypeOK ==
  /\ pc \in {"ensure", "video", "done"}
  /\ Numbers(samples, decoded.samples) /\ Numbers(frames, decoded.frames)
  /\ blockCount \in 0 .. MaxUnmuxed /\ blockIndex \in 0 .. blockCount
  /\ overflow \in 0 .. OverflowDen - 1
  /\ Len(group) <= Run

\* The n-th video sector of the file, n from 0.
Sector(n) == output[n \div Run + 1].video[(n % Run) + 1]
Sectors   == 0 .. Len(output) * Run - 1

First(s)       == s.frame = 1 /\ s.chunk = 0
Follows(s, t)  ==   \* a sector of the same frame, or the next one's first
  \/ s.chunk + 1 < s.count /\ t = [s EXCEPT !.chunk = @ + 1]
  \/ s.chunk + 1 = s.count /\ t.frame = s.frame + 1 /\ t.chunk = 0

\* A decoder finds the frames one after the other, each whole, and with one
\* picture: no frame is shown twice, skipped, or torn between two pictures,
\* however audio and video arrive, though retire_av_data keeps a frame that is
\* the only one.
FramesInOrder ==
  \A n \in Sectors :
    /\ Sector(n).picture = Sector(n).frame
    /\ IF n = 0 THEN First(Sector(0)) ELSE Follows(Sector(n - 1), Sector(n))

\* Picture and sound stay in step: a frame begins in the sector in which it is
\* due, as the remainders of the frames before it never add up to a sector.
InStep ==
  \A n \in Sectors :
    Sector(n).chunk = 0 => n = ((Sector(n).frame - 1) * BaseOverflow) \div OverflowDen

\* The audio sectors have all samples from the first one on, each once.
AudioWhole ==
  \A g \in 1 .. Len(output) :
    output[g].audio = [i \in 1 .. SectorSamples |-> (g - 1) * SectorSamples + i]
=============================================================================
