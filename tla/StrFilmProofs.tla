----------------------------- MODULE StrFilmProofs ----------------------------
(***************************************************************************)
(* Theorems about films, for every rate, group, packet and sector size and *)
(* all pictures.  The multiplexer deals out every sample and every frame,  *)
(* in order and in time.  The coder sheds no more of a picture than it     *)
(* must, sets no bit twice, and its words are dealt out to the last one.   *)
(***************************************************************************)
EXTENDS StrFilm, FiniteSetTheorems, SequenceTheorems, TLAPS

LEMMA Params ==
  /\ Run \in Nat /\ Run > 0 /\ BaseOverflow \in Nat /\ BaseOverflow > 0
  /\ OverflowDen \in Nat /\ OverflowDen > 0 /\ SectorSamples \in Nat /\ SectorSamples > 0
  /\ Lookahead \in Nat /\ Lookahead >= 2 /\ PacketSizes \subseteq Nat /\ MaxUnmuxed \in Nat
  /\ Run * OverflowDen <= BaseOverflow /\ BaseOverflow <= MaxUnmuxed * OverflowDen
  BY MuxAssumption, RateAssumption

-----------------------------------------------------------------------------
(* Queues of consecutive numbers. *)

Contig(q, b) == q \in Seq(Nat) /\ \A n \in 1 .. Len(q) : q[n] = b + n

LEMMA ContigEmpty == \A b : Contig(<<>>, b)
  BY DEF Contig

LEMMA Consecutive ==
  ASSUME NEW b \in Nat, NEW k \in Nat
  PROVE  /\ Contig([i \in 1 .. k |-> b + i], b)
         /\ Len([i \in 1 .. k |-> b + i]) = k
<1>1. [i \in 1 .. k |-> b + i] \in [1 .. k -> Nat]
  OBVIOUS
<1>2. [i \in 1 .. k |-> b + i] \in Seq(Nat) /\ Len([i \in 1 .. k |-> b + i]) = k
  BY <1>1
<1> QED
  BY <1>2 DEF Contig

LEMMA ContigConcat ==
  ASSUME NEW b \in Nat, NEW q, Contig(q, b), NEW k \in Nat
  PROVE  /\ Contig(q \o [i \in 1 .. k |-> b + Len(q) + i], b)
         /\ Len(q \o [i \in 1 .. k |-> b + Len(q) + i]) = Len(q) + k
<1> DEFINE r == [i \in 1 .. k |-> b + Len(q) + i]
<1>1. q \in Seq(Nat) /\ Len(q) \in Nat /\ b + Len(q) \in Nat
  BY DEF Contig
<1>2. Contig(r, b + Len(q)) /\ Len(r) = k
  BY <1>1, Consecutive
<1> HIDE DEF r
<1>3. r \in Seq(Nat) /\ \A n \in 1 .. k : r[n] = b + Len(q) + n
  BY <1>2 DEF Contig
<1>4. /\ q \o r \in Seq(Nat) /\ Len(q \o r) = Len(q) + k
      /\ \A i \in 1 .. Len(q) + k : (q \o r)[i] = IF i <= Len(q) THEN q[i] ELSE r[i - Len(q)]
  BY <1>1, <1>2, <1>3, ConcatProperties
<1>5. ASSUME NEW i \in 1 .. Len(q) + k PROVE (q \o r)[i] = b + i
  <2>1. CASE i <= Len(q)
    BY <1>1, <1>4, <2>1 DEF Contig
  <2>2. CASE ~(i <= Len(q))
    <3>1. i - Len(q) \in 1 .. k
      BY <1>1, <2>2
    <3>2. r[i - Len(q)] = b + Len(q) + (i - Len(q))
      BY <1>3, <3>1
    <3> QED
      BY <1>1, <1>4, <2>2, <3>2
  <2> QED
    BY <2>1, <2>2
<1>6. Contig(q \o r, b) /\ Len(q \o r) = Len(q) + k
  BY <1>4, <1>5 DEF Contig
<1> QED
  BY <1>6 DEF r

LEMMA ContigAppend ==
  ASSUME NEW b \in Nat, NEW q, Contig(q, b)
  PROVE  /\ Contig(Append(q, b + Len(q) + 1), b)
         /\ Len(Append(q, b + Len(q) + 1)) = Len(q) + 1
<1> DEFINE e == b + Len(q) + 1
<1>1. q \in Seq(Nat) /\ Len(q) \in Nat /\ e \in Nat
  BY DEF Contig
<1>2. /\ Append(q, e) \in Seq(Nat) /\ Len(Append(q, e)) = Len(q) + 1
      /\ \A i \in 1 .. Len(q) : Append(q, e)[i] = q[i]
      /\ Append(q, e)[Len(q) + 1] = e
  BY <1>1, AppendProperties
<1>3. \A i \in 1 .. Len(q) + 1 : Append(q, e)[i] = b + i
  BY <1>1, <1>2 DEF Contig
<1> QED
  BY <1>2, <1>3 DEF Contig

LEMMA ContigRetired ==
  ASSUME NEW b \in Nat, NEW q, Contig(q, b), NEW k \in Nat, k < Len(q)
  PROVE  Contig(Retired(q, k), b + k) /\ Len(Retired(q, k)) = Len(q) - k
<1> DEFINE r == SubSeq(q, k + 1, Len(q))
<1>1. q \in Seq(Nat) /\ Len(q) \in Nat /\ \A i \in k + 1 .. Len(q) : q[i] \in Nat
  BY DEF Contig
<1>2. /\ r \in Seq(Nat) /\ Len(r) = Len(q) - k
      /\ \A i \in 1 .. Len(q) - k : r[i] = q[k + i]
  <2>1. k + 1 \in Int /\ Len(q) \in Int /\ Len(q) - (k + 1) + 1 = Len(q) - k /\ k + 1 <= Len(q)
    BY <1>1
  <2>2. /\ r \in Seq(Nat)
        /\ Len(r) = IF k + 1 <= Len(q) THEN Len(q) - (k + 1) + 1 ELSE 0
        /\ \A i \in 1 .. Len(q) - (k + 1) + 1 : r[i] = q[k + 1 + i - 1]
    BY <1>1, <2>1, SubSeqProperties
  <2>3. \A i \in 1 .. Len(q) - k : k + 1 + i - 1 = k + i
    BY <1>1
  <2> QED
    BY <2>1, <2>2, <2>3
<1>3. \A i \in 1 .. Len(q) - k : q[k + i] = b + (k + i)
  BY <1>1 DEF Contig
<1>4. \A i \in 1 .. Len(q) - k : r[i] = b + k + i
  BY <1>1, <1>2, <1>3
<1>5. Retired(q, k) = r
  BY <1>1 DEF Retired
<1> QED
  BY <1>2, <1>4, <1>5 DEF Contig

LEMMA ContigPrefix ==
  ASSUME NEW b \in Nat, NEW q, Contig(q, b), NEW k \in Nat, k <= Len(q)
  PROVE  SubSeq(q, 1, k) = [i \in 1 .. k |-> b + i]
<1> DEFINE r == SubSeq(q, 1, k)
<1>1. q \in Seq(Nat) /\ Len(q) \in Nat /\ \A i \in 1 .. k : q[i] \in Nat
  BY DEF Contig
<1>2. /\ r \in Seq(Nat) /\ Len(r) = IF 1 <= k THEN k - 1 + 1 ELSE 0
      /\ \A i \in 1 .. k - 1 + 1 : r[i] = q[1 + i - 1]
  BY <1>1, SubSeqProperties
<1>3. Len(r) = k /\ \A i \in 1 .. k : r[i] = b + i
  BY <1>1, <1>2 DEF Contig
<1>4. r = [i \in 1 .. k |-> r[i]]
  BY <1>2, <1>3, LenProperties
<1> QED
  BY <1>3, <1>4

-----------------------------------------------------------------------------
(* Division. *)

LEMMA Euclid ==
  ASSUME NEW n \in Nat, NEW m \in Nat \ {0}
  PROVE  /\ n \div m \in Nat /\ n % m \in 0 .. m - 1
         /\ n = m * (n \div m) + (n % m)
  OBVIOUS

LEMMA Divide ==
  ASSUME NEW m \in Nat \ {0}, NEW q \in Nat, NEW r \in 0 .. m - 1, NEW n \in Nat, n = m * q + r
  PROVE  n \div m = q /\ n % m = r
<1>1. PICK p \in Nat, t \in 0 .. m - 1 : p = n \div m /\ t = n % m /\ n = m * p + t
  BY Euclid
<1>2. m * (q - p) = t - r
  <2>1. m * (q - p) = m * q - m * p /\ m * q \in Int /\ m * p \in Int
    OBVIOUS
  <2>2. m * q + r = m * p + t
    BY <1>1
  <2> QED
    BY <2>1, <2>2
<1>3. q - p \in Int /\ m * (q - p) < m /\ m * (q - p) > -m
  BY <1>2
<1>4. q - p = 0
  BY <1>3
<1>5. m * (q - p) = 0
  BY <1>4
<1>6. t - r = 0
  BY <1>2, <1>5
<1>7. t = r /\ p = q
  BY <1>4, <1>6
<1> QED
  BY <1>1, <1>7, Zenon

-----------------------------------------------------------------------------
(* The sectors written and those of the present group, as one film. *)

Records == [frame : Nat, chunk : Nat, count : Nat, picture : Nat]
Groups  == [video : Seq(Records), audio : Seq(Nat)]

Written == Len(output) * Run
Pos    == Written + Len(group)

Emitted(n) == IF n < Written THEN Sector(n) ELSE group[n - Written + 1]

Types ==
  /\ pc \in {"ensure", "video", "done"}
  /\ output \in Seq(Groups) /\ group \in Seq(Records) /\ Len(group) <= Run
  /\ pc # "video" => group = <<>>
  /\ frameIndex \in Nat /\ blockCount \in 0 .. MaxUnmuxed /\ blockIndex \in 0 .. blockCount
  /\ overflow \in 0 .. OverflowDen - 1
  /\ decoded \in [samples : Nat, frames : Nat]

\* What is held follows on what has been written or encoded.  A group never
\* runs out: it begins with two frames, and needs one.
Queues ==
  /\ Contig(samples, Len(output) * SectorSamples)
  /\ Len(output) * SectorSamples + Len(samples) = decoded.samples
  /\ Contig(frames, frameIndex) /\ frameIndex + Len(frames) = decoded.frames
  /\ pc = "video" =>
       /\ audio = [i \in 1 .. SectorSamples |-> Len(output) * SectorSamples + i]
       /\ Len(samples) > SectorSamples
       /\ \/ Len(frames) >= 2
          \/ Len(frames) = 1 /\ blockCount - blockIndex >= Run - Len(group)

\* Where the present frame began and where it ends.
Rate ==
  /\ OverflowDen * (Pos - blockIndex + blockCount) + overflow = frameIndex * BaseOverflow
  /\ blockIndex <= Pos
  /\ frameIndex = 0 => blockCount = 0 /\ Pos = 0
  /\ frameIndex > 0 =>
       /\ blockCount >= Run /\ unmuxed = frameIndex
       /\ \E o \in 0 .. OverflowDen - 1 :
            OverflowDen * (Pos - blockIndex) + o = (frameIndex - 1) * BaseOverflow
  /\ Pos = 0 => frameIndex <= 1

Good(n) ==
  /\ Emitted(n) \in Records /\ Emitted(n).picture = Emitted(n).frame
  /\ IF n = 0 THEN First(Emitted(n)) ELSE Follows(Emitted(n - 1), Emitted(n))
  /\ Emitted(n).chunk = 0 => n = ((Emitted(n).frame - 1) * BaseOverflow) \div OverflowDen

Sound == \A n \in 0 .. Pos - 1 : Good(n)

\* The last sector of the film and the place the multiplexer is at.
Tip ==
  Pos > 0 =>
    IF blockIndex > 0
    THEN Emitted(Pos - 1) = [frame |-> frameIndex, chunk |-> blockIndex - 1,
                             count |-> blockCount, picture |-> frameIndex]
    ELSE Emitted(Pos - 1).chunk + 1 = Emitted(Pos - 1).count
           /\ Emitted(Pos - 1).frame + 1 = frameIndex

MuxInv == Types /\ Queues /\ Rate /\ Sound /\ Tip /\ AudioWhole

LEMMA MuxInit == Init => MuxInv
<1> SUFFICES ASSUME Init PROVE MuxInv
  OBVIOUS
<1>1. Len(output) = 0 /\ Written = 0 /\ Pos = 0
  BY Params DEF Init, Written, Pos
<1>2. Types
  BY Params DEF Init, Types
<1>3. Queues
  BY <1>1, Params, ContigEmpty DEF Init, Queues
<1>4. Rate
  BY <1>1, Params DEF Init, Rate
<1>5. Sound /\ Tip /\ AudioWhole
  BY <1>1 DEF Sound, Tip, AudioWhole, Init
<1> QED
  BY <1>2, <1>3, <1>4, <1>5 DEF MuxInv

LEMMA PosTypes ==
  ASSUME Types
  PROVE  Len(output) \in Nat /\ Len(group) \in Nat /\ Written \in Nat /\ Pos \in Nat
  BY Params DEF Types, Written, Pos

\* Steps that write no sector keep the film.
LEMMA FilmKept ==
  ASSUME Sound, output' = output, group' = group
  PROVE  Sound' /\ Written' = Written /\ Pos' = Pos /\ (\A n : Emitted(n)' = Emitted(n)) /\ (AudioWhole => AudioWhole')
  BY DEF Sound, Written, Pos, Emitted, Sector, Good, AudioWhole
-----------------------------------------------------------------------------
(* The decoder's steps. *)

\* What a step of the decoder leaves alone.
LEMMA DecoderKeeps ==
  ASSUME MuxInv, UNCHANGED <<frame, audio, group, output>>
  PROVE  Rate' /\ Sound' /\ Tip' /\ AudioWhole'
<1>1. Sound' /\ Written' = Written /\ Pos' = Pos /\ (\A n : Emitted(n)' = Emitted(n)) /\ AudioWhole'
  BY FilmKept DEF MuxInv
<1>2. Emitted(Pos - 1)' = Emitted(Pos - 1)
  BY <1>1 DEF Emitted
<1> QED
  BY <1>1, <1>2 DEF MuxInv, Rate, Tip, frame

LEMMA PollAudioKeeps ==
  ASSUME MuxInv, NEW k \in PacketSizes, PollAudio(k)
  PROVE  MuxInv'
<1> DEFINE b == Len(output) * SectorSamples
<1>1. k \in Nat /\ b \in Nat /\ decoded \in [samples : Nat, frames : Nat]
  BY Params, PosTypes DEF MuxInv, Types
<1>2. Contig(samples, b) /\ b + Len(samples) = decoded.samples /\ Len(samples) \in Nat
  BY DEF MuxInv, Queues, Contig
<1>3. /\ samples' = samples \o [i \in 1 .. k |-> b + Len(samples) + i]
      /\ pc = "ensure" /\ pc' = pc /\ frames' = frames
      /\ UNCHANGED <<frame, audio, group, output>>
      /\ decoded' = [decoded EXCEPT !.samples = decoded.samples + k]
  BY <1>2 DEF PollAudio
<1>4. /\ decoded' \in [samples : Nat, frames : Nat]
      /\ decoded'.samples = decoded.samples + k /\ decoded'.frames = decoded.frames
  BY <1>1, <1>3
<1>5. Contig(samples', b) /\ Len(samples') = Len(samples) + k
  BY <1>1, <1>2, <1>3, ContigConcat
<1>6. Types'
  BY <1>3, <1>4 DEF MuxInv, Types, frame
<1>7. Queues'
  BY <1>1, <1>2, <1>3, <1>4, <1>5 DEF MuxInv, Queues, frame
<1> QED
  BY <1>3, <1>6, <1>7, DecoderKeeps DEF MuxInv

LEMMA PollVideoKeeps ==
  ASSUME MuxInv, PollVideo
  PROVE  MuxInv'
<1>1. frameIndex \in Nat /\ decoded \in [samples : Nat, frames : Nat]
  BY DEF MuxInv, Types
<1>2. Contig(frames, frameIndex) /\ frameIndex + Len(frames) = decoded.frames /\ Len(frames) \in Nat
  BY DEF MuxInv, Queues, Contig
<1>3. /\ frames' = Append(frames, frameIndex + Len(frames) + 1)
      /\ pc = "ensure" /\ pc' = pc /\ samples' = samples
      /\ UNCHANGED <<frame, audio, group, output>>
      /\ decoded' = [decoded EXCEPT !.frames = decoded.frames + 1]
  BY <1>2 DEF PollVideo
<1>4. /\ decoded' \in [samples : Nat, frames : Nat]
      /\ decoded'.frames = decoded.frames + 1 /\ decoded'.samples = decoded.samples
  BY <1>1, <1>3
<1>5. Contig(frames', frameIndex) /\ Len(frames') = Len(frames) + 1
  BY <1>1, <1>2, <1>3, ContigAppend
<1>6. Types'
  BY <1>3, <1>4 DEF MuxInv, Types, frame
<1>7. Queues'
  BY <1>1, <1>2, <1>3, <1>4, <1>5 DEF MuxInv, Queues, frame
<1> QED
  BY <1>3, <1>6, <1>7, DecoderKeeps DEF MuxInv

LEMMA EndOfFileKeeps ==
  ASSUME MuxInv, EndOfFile \/ UNCHANGED vars
  PROVE  MuxInv'
<1>1. /\ UNCHANGED <<held, decoded, frame, audio, group, output>>
      /\ pc' = pc \/ (pc' = "done" /\ pc = "ensure")
  BY DEF EndOfFile, vars
<1>2. Types'
  BY <1>1 DEF MuxInv, Types, frame
<1>3. Queues'
  BY <1>1 DEF MuxInv, Queues, held, frame
<1> QED
  BY <1>1, <1>2, <1>3, DecoderKeeps DEF MuxInv

-----------------------------------------------------------------------------
(* The steps of a group. *)

LEMMA BeginGroupKeeps ==
  ASSUME MuxInv, BeginGroup
  PROVE  MuxInv'
<1> DEFINE b == Len(output) * SectorSamples
<1>1. b \in Nat /\ Len(output) \in Nat
  BY Params, PosTypes DEF MuxInv, Types
<1>2. Contig(samples, b) /\ Len(samples) \in Nat
  BY DEF MuxInv, Queues, Contig
<1>3. Len(samples) > SectorSamples /\ Len(frames) >= 2
  <2>1. Lookahead * SectorSamples >= 2 * SectorSamples
    BY Params
  <2>2. Len(samples) >= Lookahead * SectorSamples /\ Len(frames) >= Lookahead
    BY DEF BeginGroup, Enough
  <2>3. Lookahead * SectorSamples \in Nat
    BY Params
  <2>4. Len(frames) \in Nat
    BY DEF MuxInv, Queues, Contig
  <2> QED
    BY <1>2, <2>1, <2>2, <2>3, <2>4, Params
<1>4. /\ audio' = SubSeq(samples, 1, SectorSamples) /\ pc = "ensure" /\ pc' = "video"
      /\ UNCHANGED <<held, decoded, frame, group, output>>
  BY DEF BeginGroup
<1>5. audio' = [i \in 1 .. SectorSamples |-> b + i]
  BY <1>1, <1>2, <1>3, <1>4, Params, ContigPrefix
<1>6. Types'
  BY <1>4 DEF MuxInv, Types, frame
<1>7. Queues'
  BY <1>3, <1>4, <1>5 DEF MuxInv, Queues, held, frame
<1>8. Sound' /\ Written' = Written /\ Pos' = Pos /\ (\A n : Emitted(n)' = Emitted(n)) /\ AudioWhole'
  BY <1>4, FilmKept DEF MuxInv
<1>9. Emitted(Pos - 1)' = Emitted(Pos - 1)
  BY <1>4, <1>8 DEF Emitted
<1> QED
  BY <1>4, <1>6, <1>7, <1>8, <1>9 DEF MuxInv, Rate, Tip, frame

\* A frame's blocks: their size, and the remainder.
LEMMA BlocksExact ==
  ASSUME Types
  PROVE  /\ Blocks \in Nat /\ Carried \in 0 .. OverflowDen - 1
         /\ overflow + BaseOverflow = OverflowDen * Blocks + Carried
         /\ Run <= Blocks /\ Blocks <= MaxUnmuxed
<1>1. overflow \in Nat /\ overflow < OverflowDen
  BY Params DEF Types
<1>2. /\ Blocks \in Nat /\ Carried \in 0 .. OverflowDen - 1
      /\ overflow + BaseOverflow = OverflowDen * Blocks + Carried
  BY <1>1, Params, Euclid DEF Blocks, Carried
<1>3. Run <= Blocks
  <2>1. SUFFICES ASSUME Blocks + 1 <= Run PROVE FALSE
    BY <1>2, Params
  <2>2. OverflowDen * (Blocks + 1) <= Run * OverflowDen
    BY <1>2, <2>1, Params
  <2>3. OverflowDen * (Blocks + 1) = OverflowDen * Blocks + OverflowDen /\ OverflowDen * Blocks \in Nat
    BY <1>2, Params
  <2> QED
    BY <1>1, <1>2, <2>2, <2>3, Params
<1>4. Blocks <= MaxUnmuxed
  <2>1. SUFFICES ASSUME MaxUnmuxed + 1 <= Blocks PROVE FALSE
    BY <1>2, Params
  <2>2. OverflowDen * (MaxUnmuxed + 1) <= OverflowDen * Blocks
    BY <1>2, <2>1, Params
  <2>3. /\ OverflowDen * (MaxUnmuxed + 1) = MaxUnmuxed * OverflowDen + OverflowDen
        /\ OverflowDen * Blocks \in Nat /\ MaxUnmuxed * OverflowDen \in Nat
    BY <1>2, Params
  <2> QED
    BY <1>1, <1>2, <2>2, <2>3, Params
<1> QED
  BY <1>2, <1>3, <1>4
LEMMA NextFrameKeeps ==
  ASSUME MuxInv, NextFrame
  PROVE  MuxInv'
<1>0. Types /\ Queues /\ Rate /\ Sound /\ Tip /\ AudioWhole
  BY DEF MuxInv
<1>1. /\ pc = "video" /\ Len(group) < Run /\ blockIndex >= blockCount
      /\ frameIndex' = frameIndex + 1 /\ blockCount' = Blocks /\ overflow' = Carried
      /\ blockIndex' = 0 /\ UNCHANGED <<samples, decoded, audio, group, output>>
  BY DEF NextFrame
<1>2. /\ frameIndex \in Nat /\ blockCount \in Nat /\ blockIndex = blockCount
      /\ overflow \in Nat /\ overflow < OverflowDen /\ Len(group) \in Nat /\ Pos \in Nat
      /\ Len(output) \in Nat /\ Written \in Nat
  BY <1>0, <1>1, Params, PosTypes DEF Types
<1>3. Contig(frames, frameIndex) /\ Len(frames) \in Nat
  BY <1>0 DEF Queues, Contig
<1>4. Len(frames) >= 2
  BY <1>0, <1>1, <1>2, <1>3, Params DEF Queues
<1>5. /\ Contig(Retired(frames, 1), frameIndex + 1)
      /\ Len(Retired(frames, 1)) = Len(frames) - 1
  BY <1>2, <1>3, <1>4, ContigRetired
<1>6. unmuxed' = frameIndex + 1 /\ frames' = Retired(frames, 1) /\ pc' = "video"
  <2>1. frames # <<>> /\ Head(frames) = frames[1] /\ frames[1] = frameIndex + 1
    BY <1>3, <1>4 DEF Contig
  <2> QED
    BY <1>1, <2>1 DEF NextFrame
<1>7. /\ Blocks \in Nat /\ Carried \in 0 .. OverflowDen - 1
      /\ overflow + BaseOverflow = OverflowDen * Blocks + Carried
      /\ Run <= Blocks /\ Blocks <= MaxUnmuxed
  BY <1>0, BlocksExact
<1>8. Types'
  BY <1>0, <1>1, <1>2, <1>6, <1>7, Params DEF Types
<1>9. Queues'
  <2>1. /\ Contig(samples, Len(output) * SectorSamples)'
        /\ (Len(output) * SectorSamples + Len(samples) = decoded.samples)'
        /\ (audio = [i \in 1 .. SectorSamples |-> Len(output) * SectorSamples + i])'
        /\ (Len(samples) > SectorSamples)'
    BY <1>0, <1>1 DEF Queues
  <2>2. Contig(frames, frameIndex)' /\ (frameIndex + Len(frames) = decoded.frames)'
    BY <1>0, <1>1, <1>2, <1>3, <1>5, <1>6 DEF Queues
  <2>3. (Len(frames) >= 2 \/ (Len(frames) = 1 /\ blockCount - blockIndex >= Run - Len(group)))'
    <3>1. Len(frames') = Len(frames) - 1
      BY <1>5, <1>6
    <3>2. Len(frames') >= 2 \/ Len(frames') = 1
      BY <1>3, <1>4, <3>1
    <3>3. Blocks - 0 >= Run - Len(group)
      BY <1>2, <1>7, Params
    <3>4. blockCount' - blockIndex' >= Run - Len(group')
      BY <1>1, <3>3
    <3> QED
      BY <3>2, <3>4
  <2> QED
    BY <2>1, <2>2, <2>3 DEF Queues
<1>10. Sound' /\ Written' = Written /\ Pos' = Pos /\ (\A n : Emitted(n)' = Emitted(n)) /\ AudioWhole'
  BY <1>0, <1>1, FilmKept
<1>11. OverflowDen * Pos + overflow = frameIndex * BaseOverflow
  BY <1>0, <1>2 DEF Rate
<1>12. /\ OverflowDen * (Pos + Blocks) + Carried = (frameIndex + 1) * BaseOverflow
       /\ Pos - 0 = Pos /\ Pos - 0 + Blocks = Pos + Blocks
  <2>1. /\ OverflowDen * (Pos + Blocks) = OverflowDen * Pos + OverflowDen * Blocks
        /\ (frameIndex + 1) * BaseOverflow = frameIndex * BaseOverflow + BaseOverflow
        /\ OverflowDen * Pos \in Nat /\ OverflowDen * Blocks \in Nat
        /\ frameIndex * BaseOverflow \in Nat
    BY <1>2, <1>7, Params
  <2> QED
    BY <1>2, <1>7, <1>11, <2>1, Params
<1>13. Pos = 0 => frameIndex = 0
  BY <1>0, <1>2, Params DEF Rate
<1>14. Rate'
  <2>1. (OverflowDen * (Pos - blockIndex + blockCount) + overflow = frameIndex * BaseOverflow)'
    BY <1>1, <1>10, <1>12
  <2>2. \E o \in 0 .. OverflowDen - 1 : OverflowDen * (Pos - 0) + o = (frameIndex + 1 - 1) * BaseOverflow
    <3>1. overflow \in 0 .. OverflowDen - 1 /\ frameIndex + 1 - 1 = frameIndex
      BY <1>2, Params
    <3> QED
      BY <1>11, <1>12, <3>1
  <2> QED
    BY <1>1, <1>2, <1>6, <1>7, <1>10, <1>13, <2>1, <2>2 DEF Rate
<1>15. Tip'
  <2>1. SUFFICES ASSUME Pos > 0
                 PROVE  /\ Emitted(Pos - 1).chunk + 1 = Emitted(Pos - 1).count
                        /\ Emitted(Pos - 1).frame + 1 = frameIndex + 1
    <3>1. Emitted(Pos - 1)' = Emitted(Pos - 1)
      BY <1>1, <1>10 DEF Emitted
    <3> QED
      BY <1>1, <1>10, <3>1 DEF Tip
  <2>2. frameIndex > 0 /\ blockIndex > 0
    BY <1>0, <1>2, <2>1, Params DEF Rate
  <2>3. Emitted(Pos - 1) = [frame |-> frameIndex, chunk |-> blockIndex - 1,
                            count |-> blockCount, picture |-> frameIndex]
    BY <1>0, <2>1, <2>2 DEF Tip
  <2> QED
    BY <1>2, <2>3
<1> QED
  BY <1>8, <1>9, <1>10, <1>14, <1>15 DEF MuxInv

LEMMA VideoSectorKeeps ==
  ASSUME MuxInv, VideoSector
  PROVE  MuxInv'
<1> DEFINE s == [frame |-> frameIndex, chunk |-> blockIndex, count |-> blockCount, picture |-> unmuxed]
<1>0. Types /\ Queues /\ Rate /\ Sound /\ Tip /\ AudioWhole
  BY DEF MuxInv
<1>1. /\ pc = "video" /\ Len(group) < Run /\ blockIndex < blockCount
      /\ group' = Append(group, s) /\ blockIndex' = blockIndex + 1
      /\ UNCHANGED <<pc, held, decoded, frameIndex, blockCount, overflow, unmuxed, audio, output>>
  BY DEF VideoSector
<1>2. /\ frameIndex \in Nat /\ blockCount \in Nat /\ blockIndex \in Nat
      /\ Len(group) \in Nat /\ Pos \in Nat /\ Len(output) \in Nat /\ Written \in Nat
      /\ group \in Seq(Records)
  BY <1>0, Params, PosTypes DEF Types
<1>3. frameIndex > 0 /\ unmuxed = frameIndex
  BY <1>0, <1>1, <1>2 DEF Rate
<1>4. s \in Records
  BY <1>2, <1>3 DEF Records
<1> HIDE DEF s
<1>5. /\ group' \in Seq(Records) /\ Len(group') = Len(group) + 1
      /\ \A i \in 1 .. Len(group) : group'[i] = group[i]
      /\ group'[Len(group) + 1] = s
  BY <1>1, <1>2, <1>4, AppendProperties
<1>6. Written' = Written /\ Pos' = Pos + 1
  BY <1>1, <1>2, <1>5 DEF Written, Pos
<1>7. \A n \in 0 .. Pos - 1 : Emitted(n)' = Emitted(n)
  <2> SUFFICES ASSUME NEW n \in 0 .. Pos - 1 PROVE Emitted(n)' = Emitted(n)
    OBVIOUS
  <2>1. CASE n < Written
    BY <1>1, <1>6, <2>1 DEF Emitted, Sector
  <2>2. CASE ~(n < Written)
    <3>1. n - Written + 1 \in 1 .. Len(group)
      BY <1>2, <2>2 DEF Pos
    <3> QED
      BY <1>5, <1>6, <2>2, <3>1 DEF Emitted
  <2> QED
    BY <2>1, <2>2
<1>8. \A n : n = Pos => Emitted(n)' = s
  <2>1. ~(Pos < Written) /\ Pos - Written + 1 = Len(group) + 1
    BY <1>2 DEF Pos
  <2> QED
    BY <1>5, <1>6, <2>1 DEF Emitted
<1>9. Types'
  BY <1>0, <1>1, <1>2, <1>5, Params DEF Types
<1>10. Queues'
  BY <1>0, <1>1, <1>2, <1>5, Params DEF Queues, held
<1>11. Rate'
  <2>1. Pos' - blockIndex' = Pos - blockIndex
    BY <1>1, <1>2, <1>6
  <2> QED
    BY <1>0, <1>1, <1>2, <1>3, <1>6, <2>1 DEF Rate
<1>12. ASSUME NEW n \in 0 .. Pos - 1 PROVE Good(n)'
  <2>1. Good(n) /\ Emitted(n)' = Emitted(n)
    BY <1>0, <1>7 DEF Sound
  <2>2. n # 0 => Emitted(n - 1)' = Emitted(n - 1)
    BY <1>2, <1>7
  <2> QED
    BY <2>1, <2>2 DEF Good
<1>13. s.frame = frameIndex /\ s.chunk = blockIndex /\ s.count = blockCount /\ s.picture = frameIndex
  BY <1>3 DEF s
<1>14. ASSUME NEW n, n = Pos PROVE Good(n)'
  <2>1. Emitted(n)' = s
    BY <1>8, <1>14
  <2>2. Pos = 0 => First(s)
    BY <1>0, <1>2, <1>3, <1>13 DEF First, Rate
  <2>3. ASSUME Pos > 0 PROVE Follows(Emitted(Pos - 1), s)
    <3>1. CASE blockIndex > 0
      <4>1. Emitted(Pos - 1) = [frame |-> frameIndex, chunk |-> blockIndex - 1,
                                count |-> blockCount, picture |-> frameIndex]
        BY <1>0, <2>3, <3>1 DEF Tip
      <4>2. blockIndex - 1 + 1 = blockIndex
        BY <1>2
      <4>3. s = [Emitted(Pos - 1) EXCEPT !.chunk = Emitted(Pos - 1).chunk + 1]
        BY <1>3, <4>1, <4>2 DEF s
      <4> QED
        BY <1>1, <1>2, <4>1, <4>2, <4>3 DEF Follows
    <3>2. CASE blockIndex = 0
      BY <1>0, <1>2, <1>13, <2>3, <3>2 DEF Tip, Follows
    <3> QED
      BY <1>2, <3>1, <3>2
  <2>4. n # 0 => Follows(Emitted(n - 1)', s)
    <3>1. n # 0 => n - 1 \in 0 .. Pos - 1 /\ Pos > 0
      BY <1>2, <1>14
    <3> QED
      BY <1>7, <1>14, <2>3, <3>1
  <2>5. blockIndex = 0 => Pos = ((frameIndex - 1) * BaseOverflow) \div OverflowDen
    <3> SUFFICES ASSUME blockIndex = 0 PROVE Pos = ((frameIndex - 1) * BaseOverflow) \div OverflowDen
      OBVIOUS
    <3>1. PICK o \in 0 .. OverflowDen - 1 :
            OverflowDen * (Pos - blockIndex) + o = (frameIndex - 1) * BaseOverflow
      BY <1>0, <1>3 DEF Rate
    <3>2. Pos - blockIndex = Pos /\ (frameIndex - 1) * BaseOverflow \in Nat
      BY <1>2, <1>3, Params
    <3> QED
      BY <1>2, <3>1, <3>2, Params, Divide
  <2> QED
    BY <1>4, <1>13, <1>14, <2>1, <2>2, <2>4, <2>5 DEF Good
<1>15. Sound'
  BY <1>2, <1>6, <1>12, <1>14 DEF Sound
<1>16. Tip'
  <2>1. \A n : n = Pos' - 1 => n = Pos
    BY <1>2, <1>6
  <2>2. Emitted(Pos - 1)' = s
    BY <1>8, <2>1 DEF Emitted
  <2>3. blockIndex' > 0 /\ blockIndex' - 1 = blockIndex
    BY <1>1, <1>2
  <2>4. s = [frame |-> frameIndex', chunk |-> blockIndex' - 1,
             count |-> blockCount', picture |-> frameIndex']
    BY <1>1, <1>3, <2>3 DEF s
  <2> QED
    BY <2>2, <2>3, <2>4 DEF Tip
<1>17. AudioWhole'
  BY <1>0, <1>1 DEF AudioWhole
<1> QED
  BY <1>9, <1>10, <1>11, <1>15, <1>16, <1>17 DEF MuxInv
\* Where the n-th sector lies in the groups.
LEMMA Place ==
  ASSUME NEW n \in Nat, NEW g \in Nat
  PROVE  /\ n < g * Run => n \div Run \in 0 .. g - 1
         /\ g * Run <= n /\ n < g * Run + Run => n \div Run = g /\ n % Run = n - g * Run
         /\ n % Run \in 0 .. Run - 1
<1>1. /\ n \div Run \in Nat /\ n % Run \in 0 .. Run - 1 /\ n = Run * (n \div Run) + (n % Run)
  BY Params, Euclid
<1>2. ASSUME n < g * Run PROVE n \div Run \in 0 .. g - 1
  <2>1. PICK q \in Nat, r \in 0 .. Run - 1 : q = n \div Run /\ n = Run * q + r
    BY <1>1
  <2>2. SUFFICES ASSUME g <= q PROVE FALSE
    BY <2>1
  <2>3. g * Run <= Run * q /\ g * Run \in Nat /\ Run * q \in Nat
    BY <2>1, <2>2, Params
  <2> QED
    BY <1>2, <2>1, <2>3
<1>3. ASSUME g * Run <= n, n < g * Run + Run
      PROVE  n \div Run = g /\ n % Run = n - g * Run
  <2>1. g * Run \in Nat /\ g * Run = Run * g
    BY Params
  <2>2. n - g * Run \in 0 .. Run - 1 /\ n = Run * g + (n - g * Run)
    BY <1>3, <2>1, Params
  <2>3. PICK r \in 0 .. Run - 1 : r = n - g * Run /\ n = Run * g + r
    BY <2>2
  <2>4. Run \in Nat \ {0}
    BY Params
  <2>5. n \div Run = g /\ n % Run = r
    <3>1. \A m \in Nat \ {0} : \A t \in 0 .. m - 1 : n = m * g + t => n \div m = g /\ n % m = t
      BY Divide
    <3> QED
      BY <2>3, <2>4, <3>1
  <2> QED
    BY <2>3, <2>5
<1> QED
  BY <1>1, <1>2, <1>3

LEMMA WriteGroupKeeps ==
  ASSUME MuxInv, WriteGroup
  PROVE  MuxInv'
<1> DEFINE w == [video |-> group, audio |-> audio]
           b == Len(output) * SectorSamples
<1>0. Types /\ Queues /\ Rate /\ Sound /\ Tip /\ AudioWhole
  BY DEF MuxInv
<1>1. /\ pc = "video" /\ Len(group) = Run /\ pc' = "ensure"
      /\ samples' = Retired(samples, SectorSamples)
      /\ output' = Append(output, w) /\ group' = <<>>
      /\ UNCHANGED <<frames, decoded, frame, audio>>
  BY DEF WriteGroup, RetiredNow
<1>2. /\ Pos \in Nat /\ Len(output) \in Nat /\ Written \in Nat /\ b \in Nat
      /\ group \in Seq(Records) /\ output \in Seq(Groups)
      /\ frameIndex \in Nat /\ blockCount \in Nat /\ blockIndex \in Nat
  BY <1>0, Params, PosTypes DEF Types
<1>3. audio = [i \in 1 .. SectorSamples |-> b + i]
  BY <1>0, <1>1 DEF Queues
<1>4. w \in Groups
  <2>1. Contig(audio, b)
    BY <1>2, <1>3, Consecutive, Params
  <2> QED
    BY <1>2, <2>1 DEF Groups, Contig
<1> HIDE DEF w
<1>5. /\ output' \in Seq(Groups) /\ Len(output') = Len(output) + 1
      /\ \A i \in 1 .. Len(output) : output'[i] = output[i]
      /\ output'[Len(output) + 1] = w
  BY <1>1, <1>2, <1>4, AppendProperties
<1>6. Len(group') = 0 /\ Written' = Written + Run /\ Pos' = Pos
  <2>1. (Len(output) + 1) * Run = Len(output) * Run + Run
    BY <1>2, Params
  <2> QED
    BY <1>1, <1>2, <1>5, <2>1, Params DEF Written, Pos
<1>7. \A n \in 0 .. Pos - 1 : Emitted(n)' = Emitted(n)
  <2> SUFFICES ASSUME NEW n \in 0 .. Pos - 1 PROVE Emitted(n)' = Emitted(n)
    OBVIOUS
  <2>1. n \in Nat /\ n < Written + Run
    BY <1>1, <1>2, Params DEF Pos
  <2>2. Emitted(n)' = output'[n \div Run + 1].video[(n % Run) + 1]
    BY <1>2, <1>6, <2>1, Params DEF Emitted, Sector
  <2>3. CASE n < Written
    <3>1. n \div Run + 1 \in 1 .. Len(output)
      <4>1. n < Len(output) * Run
        BY <2>3 DEF Written
      <4>2. n \div Run \in 0 .. Len(output) - 1
        BY <1>2, <2>1, <4>1, Place
      <4> QED
        BY <1>2, <4>2
    <3> QED
      BY <1>5, <2>2, <2>3, <3>1 DEF Emitted, Sector
  <2>4. CASE ~(n < Written)
    <3>1. n \div Run = Len(output) /\ n % Run = n - Written
      <4>1. Len(output) * Run <= n /\ n < Len(output) * Run + Run
        BY <1>2, <2>1, <2>4 DEF Written
      <4> QED
        BY <1>2, <2>1, <4>1, Place DEF Written
    <3>2. w.video = group
      BY DEF w
    <3> QED
      BY <1>5, <2>2, <2>4, <3>1, <3>2 DEF Emitted
  <2> QED
    BY <2>3, <2>4
<1>8. Types'
  BY <1>0, <1>1, <1>5, <1>6, Params DEF Types, frame
<1>9. Queues'
  <2>1. Contig(samples, b) /\ Len(samples) \in Nat /\ Len(samples) > SectorSamples
    BY <1>0, <1>1 DEF Queues, Contig
  <2>2. Contig(samples', b + SectorSamples) /\ Len(samples') = Len(samples) - SectorSamples
    BY <1>1, <1>2, <2>1, Params, ContigRetired
  <2>3. Len(output') * SectorSamples = b + SectorSamples
    BY <1>2, <1>5, Params
  <2>4. b + Len(samples) = decoded.samples
    BY <1>0 DEF Queues
  <2>5. (Len(output) * SectorSamples + Len(samples) = decoded.samples)'
    BY <1>1, <1>2, <2>1, <2>2, <2>3, <2>4, Params
  <2>6. Contig(samples', Len(output') * SectorSamples)
    BY <2>2, <2>3
  <2> QED
    BY <1>0, <1>1, <2>5, <2>6 DEF Queues, frame
<1>10. Rate'
  BY <1>0, <1>1, <1>6 DEF Rate, frame
<1>11. Sound'
  <2> SUFFICES ASSUME NEW n \in 0 .. Pos - 1 PROVE Good(n)'
    BY <1>6 DEF Sound
  <2>1. Good(n) /\ Emitted(n)' = Emitted(n)
    BY <1>0, <1>7 DEF Sound
  <2>2. n # 0 => Emitted(n - 1)' = Emitted(n - 1)
    BY <1>2, <1>7
  <2> QED
    BY <2>1, <2>2 DEF Good
<1>12. Tip'
  <2>1. Pos > 0 => Emitted(Pos - 1)' = Emitted(Pos - 1)
    BY <1>2, <1>6, <1>7 DEF Emitted
  <2> QED
    BY <1>0, <1>1, <1>6, <2>1 DEF Tip, frame
<1>13. AudioWhole'
  <2> SUFFICES ASSUME NEW g \in 1 .. Len(output) + 1
               PROVE  output'[g].audio = [i \in 1 .. SectorSamples |-> (g - 1) * SectorSamples + i]
    BY <1>5 DEF AudioWhole
  <2>1. CASE g \in 1 .. Len(output)
    BY <1>0, <1>5, <2>1 DEF AudioWhole
  <2>2. CASE g = Len(output) + 1
    <3>1. w.audio = audio /\ g - 1 = Len(output)
      BY <1>2, <2>2 DEF w
    <3> QED
      BY <1>3, <1>5, <2>2, <3>1
  <2> QED
    BY <1>2, <2>1, <2>2
<1> QED
  BY <1>8, <1>9, <1>10, <1>11, <1>12, <1>13 DEF MuxInv

LEMMA MuxStep == MuxInv /\ [Next]_vars => MuxInv'
  BY PollAudioKeeps, PollVideoKeeps, EndOfFileKeeps, BeginGroupKeeps, NextFrameKeeps,
     VideoSectorKeeps, WriteGroupKeeps
  DEF Next

LEMMA MuxHolds == Spec => []MuxInv
  BY MuxInit, MuxStep, PTL DEF Spec

\* No assertion fails and no frame outgrows its buffer (mdec.c:398-587).
THEOREM TypeCorrect == Spec => []TypeOK
<1>1. MuxInv => TypeOK
  <2> SUFFICES ASSUME MuxInv PROVE TypeOK
    OBVIOUS
  <2>1. Types /\ Queues
    BY DEF MuxInv
  <2>2. ASSUME NEW q, NEW b \in Nat, NEW n, Contig(q, b), b + Len(q) = n
        PROVE  Numbers(q, n)
    <3>1. q \in Seq(Nat) /\ Len(q) \in Nat /\ \A i \in 1 .. Len(q) : q[i] \in 1 .. n
      BY <2>2 DEF Contig
    <3>2. q \in [1 .. Len(q) -> 1 .. n]
      BY <3>1, LenProperties
    <3> DEFINE S == 1 .. n
    <3>3. q \in [1 .. Len(q) -> S]
      BY <3>2
    <3> HIDE DEF S
    <3>4. q \in Seq(S)
      BY <3>1, <3>3
    <3> QED
      BY <3>4 DEF Numbers, S
  <2>3. Numbers(samples, decoded.samples)
    <3>1. Len(output) * SectorSamples \in Nat
      BY <2>1, Params, PosTypes
    <3> QED
      BY <2>1, <2>2, <3>1 DEF Queues
  <2>4. Numbers(frames, decoded.frames)
    BY <2>1, <2>2 DEF Queues, Types
  <2> QED
    BY <2>1, <2>3, <2>4 DEF Types, TypeOK
<1> QED
  BY <1>1, MuxHolds, PTL

\* Every frame is whole, in order and of one picture (mdec.c:575-644).
THEOREM FramesInOrderHolds == Spec => []FramesInOrder
<1>1. MuxInv => FramesInOrder
  <2> SUFFICES ASSUME MuxInv, NEW n \in Sectors
               PROVE  /\ Sector(n).picture = Sector(n).frame
                      /\ IF n = 0 THEN First(Sector(0)) ELSE Follows(Sector(n - 1), Sector(n))
    BY DEF FramesInOrder
  <2>1. Written \in Nat /\ Pos \in Nat /\ Written <= Pos /\ n \in 0 .. Written - 1
    BY PosTypes DEF MuxInv, Sectors, Written, Pos
  <2>2. Good(n)
    BY <2>1 DEF MuxInv, Sound
  <2>3. Emitted(n) = Sector(n) /\ (n # 0 => Emitted(n - 1) = Sector(n - 1))
    BY <2>1 DEF Emitted
  <2> QED
    BY <2>2, <2>3 DEF Good
<1> QED
  BY <1>1, MuxHolds, PTL

\* A frame begins in the sector in which it is due (mdec.c:585-587), for every
\* rate: no remainder is lost.
THEOREM InStepHolds == Spec => []InStep
<1>1. MuxInv => InStep
  <2> SUFFICES ASSUME MuxInv, NEW n \in Sectors, Sector(n).chunk = 0
               PROVE  n = ((Sector(n).frame - 1) * BaseOverflow) \div OverflowDen
    BY DEF InStep
  <2>1. Written \in Nat /\ Pos \in Nat /\ Written <= Pos /\ n \in 0 .. Written - 1
    BY PosTypes DEF MuxInv, Sectors, Written, Pos
  <2>2. Good(n) /\ Emitted(n) = Sector(n)
    BY <2>1 DEF MuxInv, Sound, Emitted
  <2> QED
    BY <2>2 DEF Good
<1> QED
  BY <1>1, MuxHolds, PTL

\* Every sample is in an audio sector, once (filefmt.c:113-133).
THEOREM AudioWholeHolds == Spec => []AudioWhole
  BY MuxHolds, PTL DEF MuxInv
-----------------------------------------------------------------------------
(***************************************************************************)
(* The reduction.  The coefficients of a picture are finitely many and in  *)
(* one order; a round sheds the first few of those below its limit.        *)
(***************************************************************************)
Places == (Nat \ {0}) \X (Nat \ {0})

LEMMA FrameParams ==
  /\ MacroBlock \in Nat \ {0} /\ CodesPerSector \in Nat \ {0} /\ SectorWords \in Nat \ {0}
  /\ Step \in Nat \ {0}
  BY FrameAssumption

\* reduce_dct_block comes to the coefficients in a strict total order.
LEMMA OrderOfPlaces ==
  ASSUME NEW c \in Places, NEW d \in Places, NEW e \in Places
  PROVE  /\ ~Before(c, c)
         /\ Before(c, d) /\ Before(d, e) => Before(c, e)
         /\ c # d => Before(c, d) \/ Before(d, c)
<1>1. ASSUME NEW x \in Places PROVE Macro(x) \in Nat /\ x[1] \in Nat /\ x[2] \in Nat
  <2>1. x[1] \in Nat \ {0} /\ x[2] \in Nat
    BY DEF Places
  <2>2. x[1] - 1 \in Nat /\ MacroBlock \in Nat \ {0}
    BY <2>1, FrameParams
  <2>3. (x[1] - 1) \div MacroBlock \in Nat
    BY <2>2, Euclid
  <2> QED
    BY <2>1, <2>3 DEF Macro
<1>2. ASSUME NEW x \in Places, NEW y \in Places, x[1] = y[1] PROVE Macro(x) = Macro(y)
  BY <1>2 DEF Macro
<1>3. c # d => c[1] # d[1] \/ c[2] # d[2]
  BY DEF Places
<1>4. ~Before(c, c)
  BY <1>1 DEF Before
<1>5. Before(c, d) /\ Before(d, e) => Before(c, e)
  <2>1. /\ Macro(c) \in Nat /\ c[1] \in Nat /\ c[2] \in Nat
        /\ Macro(d) \in Nat /\ d[1] \in Nat /\ d[2] \in Nat
        /\ Macro(e) \in Nat /\ e[1] \in Nat /\ e[2] \in Nat
    BY <1>1
  <2>2. (c[1] = d[1] => Macro(c) = Macro(d)) /\ (d[1] = e[1] => Macro(d) = Macro(e))
    BY <1>2
  <2> QED
    BY <2>1, <2>2 DEF Before
<1>6. c # d => Before(c, d) \/ Before(d, c)
  <2>1. /\ Macro(c) \in Nat /\ c[1] \in Nat /\ c[2] \in Nat
        /\ Macro(d) \in Nat /\ d[1] \in Nat /\ d[2] \in Nat
    BY <1>1
  <2> QED
    BY <1>3, <2>1 DEF Before
<1> QED
  BY <1>4, <1>5, <1>6

\* Those of S that come before c.
Preceding(S, c) == {d \in S : Before(d, c)}

\* Those of S that R puts before c.
Lower(S, R, c) == {d \in S : <<d, c>> \in R}

\* Counted off in a strict total order, the elements of a finite set have the
\* numbers from 0 on, each once.
LEMMA Numbered ==
  ASSUME NEW S, IsFiniteSet(S), NEW R,
         \A c, d, e \in S :
           /\ <<c, c>> \notin R
           /\ <<c, d>> \in R /\ <<d, e>> \in R => <<c, e>> \in R
           /\ c # d => <<c, d>> \in R \/ <<d, c>> \in R
  PROVE  [c \in S |-> Cardinality(Lower(S, R, c))] \in Bijection(S, 0 .. Cardinality(S) - 1)
<1> DEFINE r == [c \in S |-> Cardinality(Lower(S, R, c))]
           n == Cardinality(S)
<1>1. n \in Nat
  BY FS_CardinalityType
<1>2. ASSUME NEW c \in S
      PROVE  IsFiniteSet(Lower(S, R, c)) /\ Cardinality(Lower(S, R, c)) \in 0 .. n - 1
  <2>1. c \notin Lower(S, R, c) /\ Lower(S, R, c) \in SUBSET (S \ {c})
    BY DEF Lower
  <2>2. IsFiniteSet(S \ {c}) /\ Cardinality(S \ {c}) = n - 1
    BY FS_RemoveElement
  <2>3. IsFiniteSet(Lower(S, R, c)) /\ Cardinality(Lower(S, R, c)) <= n - 1
    BY <2>1, <2>2, FS_Subset
  <2>4. Cardinality(Lower(S, R, c)) \in Nat
    BY <2>3, FS_CardinalityType
  <2> QED
    BY <1>1, <2>3, <2>4
<1>3. ASSUME NEW c \in S, NEW d \in S, <<c, d>> \in R
      PROVE  Cardinality(Lower(S, R, c)) < Cardinality(Lower(S, R, d))
  <2>1. c \notin Lower(S, R, c) /\ Lower(S, R, c) \cup {c} \in SUBSET Lower(S, R, d)
    BY <1>3 DEF Lower
  <2>2. Cardinality(Lower(S, R, c) \cup {c}) = Cardinality(Lower(S, R, c)) + 1
    BY <1>2, <2>1, FS_AddElement
  <2>3. Cardinality(Lower(S, R, c) \cup {c}) <= Cardinality(Lower(S, R, d))
    BY <1>2, <2>1, FS_Subset
  <2> QED
    BY <1>1, <1>2, <2>2, <2>3
<1>4. r \in [S -> 0 .. n - 1]
  BY <1>2
<1>5. ASSUME NEW c \in S, NEW d \in S, c # d PROVE r[c] # r[d]
  <2>1. r[c] = Cardinality(Lower(S, R, c)) /\ r[d] = Cardinality(Lower(S, R, d))
    OBVIOUS
  <2>2. <<c, d>> \in R \/ <<d, c>> \in R
    BY <1>5
  <2>3. Cardinality(Lower(S, R, c)) \in Nat /\ Cardinality(Lower(S, R, d)) \in Nat
    BY <1>2
  <2>4. \/ Cardinality(Lower(S, R, c)) < Cardinality(Lower(S, R, d))
        \/ Cardinality(Lower(S, R, d)) < Cardinality(Lower(S, R, c))
    BY <1>3, <2>2, Zenon
  <2>5. \A x, y \in Nat : x < y \/ y < x => x # y
    OBVIOUS
  <2> HIDE DEF r
  <2> QED
    BY <2>1, <2>3, <2>4, <2>5, Zenon
<1> HIDE DEF r
<1>6. r \in Injection(S, 0 .. n - 1)
  BY <1>4, <1>5 DEF Injection, IsInjective
<1>7. IsFiniteSet(0 .. n - 1) /\ Cardinality(0 .. n - 1) = n
  <2>1. IsFiniteSet(0 .. n - 1) /\ Cardinality(0 .. n - 1) = IF 0 > n - 1 THEN 0 ELSE n - 1 - 0 + 1
    <3>1. 0 \in Int /\ n - 1 \in Int
      BY <1>1
    <3> QED
      BY <3>1, FS_Interval, Zenon
  <2> QED
    BY <1>1, <2>1
<1>8. r \in Surjection(S, 0 .. n - 1)
  BY <1>6, <1>7, FS_Injection
<1> QED
  BY <1>6, <1>8 DEF Bijection, r

LEMMA CountedOff ==
  ASSUME NEW S \in SUBSET Places, IsFiniteSet(S)
  PROVE  [c \in S |-> Cardinality(Preceding(S, c))] \in Bijection(S, 0 .. Cardinality(S) - 1)
<1>1. PICK R : R = {p \in S \X S : Before(p[1], p[2])}
  OBVIOUS
<1>2. \A c, d \in S : <<c, d>> \in R <=> Before(c, d)
  BY <1>1
<1>3. \A c, d, e \in S :
        /\ <<c, c>> \notin R
        /\ <<c, d>> \in R /\ <<d, e>> \in R => <<c, e>> \in R
        /\ c # d => <<c, d>> \in R \/ <<d, c>> \in R
  BY <1>2, OrderOfPlaces
<1>4. [c \in S |-> Cardinality(Lower(S, R, c))] \in Bijection(S, 0 .. Cardinality(S) - 1)
  BY <1>3, Numbered
<1>5. \A c \in S : Lower(S, R, c) = Preceding(S, c)
  BY <1>2 DEF Lower, Preceding
<1>6. [c \in S |-> Cardinality(Lower(S, R, c))] = [c \in S |-> Cardinality(Preceding(S, c))]
  BY <1>5
<1> QED
  BY <1>4, <1>6

\* The first t of a finite set of places, or all of them.
LEMMA FirstFew ==
  ASSUME NEW S \in SUBSET Places, IsFiniteSet(S), NEW t \in Nat
  PROVE  Cardinality({c \in S : Cardinality(Preceding(S, c)) < t})
           = IF t < Cardinality(S) THEN t ELSE Cardinality(S)
<1> DEFINE F == {c \in S : Cardinality(Preceding(S, c)) < t}
           n == Cardinality(S)
           m == IF t < n THEN t ELSE n
           r == [c \in S |-> Cardinality(Preceding(S, c))]
           q == [c \in F |-> Cardinality(Preceding(S, c))]
<1>1. n \in Nat /\ m \in Nat
  BY FS_CardinalityType
<1>2. r \in Bijection(S, 0 .. n - 1)
  BY CountedOff
<1>3. /\ \A c \in S : r[c] \in 0 .. n - 1 /\ r[c] = Cardinality(Preceding(S, c))
      /\ \A c, d \in S : r[c] = r[d] => c = d
      /\ \A i \in 0 .. n - 1 : \E c \in S : r[c] = i
  BY <1>2 DEF Bijection, Injection, IsInjective, Surjection
<1>4. \A c \in F : c \in S /\ q[c] = r[c] /\ q[c] < t
  OBVIOUS
<1>5. \A c \in S : r[c] < t => c \in F
  OBVIOUS
<1>6. DOMAIN q = F /\ q = [c \in F |-> q[c]]
  OBVIOUS
<1>7. F \in SUBSET S
  OBVIOUS
<1> HIDE DEF r, q, F
<1>8. \A c \in F : q[c] \in 0 .. m - 1
  BY <1>1, <1>3, <1>4
<1>9. q \in [F -> 0 .. m - 1]
  BY <1>6, <1>8
<1>10. \A c, d \in F : q[c] = q[d] => c = d
  BY <1>3, <1>4
<1>11. \A i \in 0 .. m - 1 : \E c \in F : q[c] = i
  BY <1>1, <1>3, <1>4, <1>5
<1>12. q \in Bijection(F, 0 .. m - 1)
  BY <1>9, <1>10, <1>11 DEF Bijection, Injection, IsInjective, Surjection
<1>13. IsFiniteSet(F)
  BY <1>7, FS_Subset
<1>14. Cardinality(0 .. m - 1) = Cardinality(F)
  BY <1>12, <1>13, FS_Bijection DEF ExistsBijection
<1>15. Cardinality(0 .. m - 1) = m
  <2> HIDE DEF m
  <2>1. 0 \in Int /\ m - 1 \in Int
    BY <1>1
  <2>2. Cardinality(0 .. m - 1) = IF 0 > m - 1 THEN 0 ELSE m - 1 - 0 + 1
    BY <2>1, FS_Interval
  <2> QED
    BY <1>1, <2>2
<1> QED
  BY <1>14, <1>15 DEF F

-----------------------------------------------------------------------------
(* Pictures. *)

LEMMA PicturesOfFilms ==
  ASSUME NEW f \in Films, NEW n \in 1 .. MaxFrames
  PROVE  IsPicture(f[n])
  BY FilmAssumption

LEMMA PresentAt ==
  ASSUME NEW bs, NEW n, NEW k
  PROVE  <<n, k>> \in Present(bs) <=> n \in DOMAIN bs /\ k \in DOMAIN bs[n].ac
  BY DEF Present

LEMMA PresentPair ==
  ASSUME NEW bs, NEW c \in Present(bs)
  PROVE  c = <<c[1], c[2]>> /\ c[1] \in DOMAIN bs /\ c[2] \in DOMAIN bs[c[1]].ac
  BY DEF Present

LEMMA PresentFinite ==
  ASSUME NEW bs, IsPicture(bs)
  PROVE  Present(bs) \in SUBSET Places /\ IsFiniteSet(Present(bs))
<1>1. Len(bs) \in Nat /\ DOMAIN bs = 1 .. Len(bs)
  BY DEF IsPicture
<1>2. ASSUME NEW n \in DOMAIN bs PROVE DOMAIN bs[n].ac \subseteq 1 .. 63
  <2>1. DOMAIN bs[n].ac \subseteq 1 .. Size - 1
    BY DEF IsPicture
  <2>2. Size - 1 = 63
    BY DEF Size
  <2> QED
    BY <2>1, <2>2
<1>3. Present(bs) \subseteq (1 .. Len(bs)) \X (1 .. 63)
  <2> SUFFICES ASSUME NEW c \in Present(bs) PROVE c \in (1 .. Len(bs)) \X (1 .. 63)
    OBVIOUS
  <2>1. c = <<c[1], c[2]>> /\ c[1] \in 1 .. Len(bs) /\ c[2] \in 1 .. 63
    BY <1>1, <1>2, PresentPair
  <2> QED
    BY <2>1
<1>4. IsFiniteSet((1 .. Len(bs)) \X (1 .. 63))
  <2>1. IsFiniteSet(1 .. Len(bs)) /\ IsFiniteSet(1 .. 63)
    <3>1. 1 \in Int /\ 63 \in Int /\ Len(bs) \in Int
      BY <1>1
    <3> QED
      BY <3>1, FS_Interval
  <2> QED
    BY <2>1, FS_Product
<1>5. Present(bs) \in SUBSET Places
  <2> SUFFICES ASSUME NEW c \in Present(bs) PROVE c \in Places
    OBVIOUS
  <2>1. c = <<c[1], c[2]>> /\ c[1] \in 1 .. Len(bs) /\ c[2] \in 1 .. 63
    BY <1>1, <1>2, PresentPair
  <2>2. 1 .. Len(bs) \subseteq Nat \ {0} /\ 1 .. 63 \subseteq Nat \ {0}
    BY <1>1
  <2>3. c[1] \in Nat \ {0} /\ c[2] \in Nat \ {0}
    BY <2>1, <2>2, Zenon
  <2> QED
    BY <2>1, <2>3 DEF Places
<1>6. IsFiniteSet(Present(bs))
  <2> DEFINE U == (1 .. Len(bs)) \X (1 .. 63)
  <2>1. IsFiniteSet(U) /\ Present(bs) \in SUBSET U
    BY <1>3, <1>4
  <2> HIDE DEF U
  <2> QED
    BY <2>1, FS_Subset
<1> QED
  BY <1>5, <1>6

\* What is left of a picture.
LEMMA WithoutIsPicture ==
  ASSUME NEW bs, IsPicture(bs), NEW cs
  PROVE  /\ IsPicture(Without(bs, cs)) /\ Len(Without(bs, cs)) = Len(bs)
         /\ DOMAIN Without(bs, cs) = DOMAIN bs
         /\ Present(Without(bs, cs)) = Present(bs) \ cs
         /\ \A n \in DOMAIN bs : Without(bs, cs)[n].dc = bs[n].dc
         /\ \A c \in Present(bs) \ cs : Without(bs, cs)[c[1]].ac[c[2]] = bs[c[1]].ac[c[2]]
<1> DEFINE w == Without(bs, cs)
           B(n) == [dc |-> bs[n].dc,
                    ac |-> [k \in {m \in DOMAIN bs[n].ac : <<n, m>> \notin cs} |-> bs[n].ac[k]]]
<1>1. Len(bs) \in Nat /\ DOMAIN bs = 1 .. Len(bs)
  BY DEF IsPicture
<1>2. w = [n \in 1 .. Len(bs) |-> B(n)]
  BY <1>1 DEF Without
<1>3. \A n : /\ B(n).dc = bs[n].dc
             /\ B(n).ac = [k \in {m \in DOMAIN bs[n].ac : <<n, m>> \notin cs} |-> bs[n].ac[k]]
  OBVIOUS
<1>4. Len(w) = Len(bs) /\ DOMAIN w = 1 .. Len(bs) /\ \A n \in 1 .. Len(bs) : w[n] = B(n)
  <2> HIDE DEF B
  <2> DEFINE S == {B(n) : n \in 1 .. Len(bs)}
  <2>1. w \in [1 .. Len(bs) -> S]
    BY <1>2
  <2> HIDE DEF S
  <2>2. w \in Seq(S) /\ Len(w) = Len(bs)
    BY <1>1, <2>1
  <2> QED
    BY <1>2, <2>2
<1> HIDE DEF w, B
<1>5. ASSUME NEW n \in 1 .. Len(bs)
      PROVE  /\ w[n].dc = bs[n].dc
             /\ DOMAIN w[n].ac = {m \in DOMAIN bs[n].ac : <<n, m>> \notin cs}
             /\ \A k \in DOMAIN w[n].ac : w[n].ac[k] = bs[n].ac[k]
  <2>1. /\ w[n].dc = bs[n].dc
        /\ w[n].ac = [k \in {m \in DOMAIN bs[n].ac : <<n, m>> \notin cs} |-> bs[n].ac[k]]
    BY <1>3, <1>4, Zenon
  <2> QED
    BY <2>1
<1>6. ASSUME NEW n, NEW k
      PROVE  <<n, k>> \in Present(w) <=> <<n, k>> \in Present(bs) /\ <<n, k>> \notin cs
  <2>1. n \in 1 .. Len(bs) => (k \in DOMAIN w[n].ac <=> k \in DOMAIN bs[n].ac /\ <<n, k>> \notin cs)
    BY <1>5
  <2>2. /\ <<n, k>> \in Present(w) <=> n \in 1 .. Len(bs) /\ k \in DOMAIN w[n].ac
        /\ <<n, k>> \in Present(bs) <=> n \in 1 .. Len(bs) /\ k \in DOMAIN bs[n].ac
    BY <1>1, <1>4, PresentAt, Zenon
  <2> QED
    BY <2>1, <2>2
<1>7. Present(w) = Present(bs) \ cs
  <2>1. \A c \in Present(w) : c \in Present(bs) \ cs
    BY <1>6, PresentPair
  <2>2. \A c \in Present(bs) \ cs : c \in Present(w)
    BY <1>6, PresentPair
  <2> QED
    BY <2>1, <2>2
<1>8. \A c \in Present(w) : w[c[1]].ac[c[2]] = bs[c[1]].ac[c[2]]
  BY <1>4, <1>5, PresentPair
<1>9. IsPicture(w)
  <2>1. ASSUME NEW n \in 1 .. Len(bs)
        PROVE  /\ w[n].dc \in Int /\ DOMAIN w[n].ac \subseteq 1 .. Size - 1
               /\ \A k \in DOMAIN w[n].ac : w[n].ac[k] \in Int \ {0}
    <3>1. /\ bs[n].dc \in Int /\ DOMAIN bs[n].ac \subseteq 1 .. Size - 1
          /\ \A k \in DOMAIN bs[n].ac : bs[n].ac[k] \in Int \ {0}
      BY <1>1 DEF IsPicture
    <3> QED
      BY <1>5, <3>1
  <2> QED
    BY <1>1, <1>4, <2>1 DEF IsPicture
<1>10. \A n \in DOMAIN bs : w[n].dc = bs[n].dc
  BY <1>1, <1>5
<1> QED
  BY <1>1, <1>4, <1>7, <1>8, <1>9, <1>10 DEF w

\* The codes of what is left.
LEMMA CodesLeft ==
  ASSUME NEW bs, IsPicture(bs), NEW cs \in SUBSET Present(bs)
  PROVE  /\ Codes(bs) \in Nat /\ Cardinality(cs) \in Nat /\ Cardinality(cs) <= Cardinality(Present(bs))
         /\ Codes(Without(bs, cs)) = Codes(bs) - Cardinality(cs)
<1>1. IsFiniteSet(Present(bs)) /\ Len(bs) \in Nat
  BY PresentFinite DEF IsPicture
<1>2. Present(Without(bs, cs)) = Present(bs) \ cs /\ Len(Without(bs, cs)) = Len(bs)
  BY WithoutIsPicture
<1>3. IsFiniteSet(cs) /\ Cardinality(cs) <= Cardinality(Present(bs))
  BY <1>1, FS_Subset
<1>4. Cardinality(cs) \in Nat /\ Cardinality(Present(bs)) \in Nat
  BY <1>1, <1>3, FS_CardinalityType
<1>5. Cardinality(Present(bs) \ cs) = Cardinality(Present(bs)) - Cardinality(cs)
  <2>1. Cardinality(Present(bs) \ cs) = Cardinality(Present(bs)) - Cardinality(Present(bs) \cap cs)
    BY <1>1, FS_Difference
  <2>2. Present(bs) \cap cs = cs
    OBVIOUS
  <2> QED
    BY <2>1, <2>2
<1> QED
  BY <1>1, <1>2, <1>3, <1>4, <1>5 DEF Codes

\* A coefficient is below a limit if its rank is not above it.
LEMMA RankOfSmall ==
  ASSUME NEW x \in Int, NEW m \in Nat
  PROVE  /\ Rank(x) \in Nat
         /\ x # 0 => Rank(x) >= 1
         /\ Magnitude(x) < m * Step + 1 <=> Rank(x) <= m
<1>1. Magnitude(x) \in Nat /\ (x # 0 => Magnitude(x) >= 1)
  BY DEF Magnitude
<1>2. Step \in Nat /\ Step >= 1
  BY FrameParams
<1>3. PICK v \in Nat : v = Magnitude(x)
  BY <1>1
<1>4. PICK q \in Nat, r \in 0 .. Step - 1 : q = (v + Step - 1) \div Step /\ v + Step - 1 = Step * q + r
  <2>1. v + Step - 1 \in Nat /\ Step \in Nat \ {0}
    BY <1>2
  <2> QED
    BY <2>1, Euclid
<1>5. Rank(x) = q
  BY <1>3, <1>4 DEF Rank
<1>6. v >= 1 => q >= 1
  <2>1. q = 0 => Step * q = 0
    BY <1>2
  <2> QED
    BY <1>2, <1>4, <2>1
<1>7. ASSUME q <= m PROVE v <= m * Step
  <2>1. Step * q <= m * Step
    BY <1>2, <1>7
  <2>2. Step * q \in Nat /\ m * Step \in Nat
    BY <1>2
  <2> QED
    BY <1>2, <1>4, <2>1, <2>2
<1>8. ASSUME q >= m + 1 PROVE v > m * Step
  <2>1. Step * q >= Step * (m + 1)
    BY <1>2, <1>8
  <2>2. Step * (m + 1) = m * Step + Step /\ Step * q \in Nat /\ m * Step \in Nat
    BY <1>2
  <2> QED
    BY <1>2, <1>4, <2>1, <2>2
<1>9. v < m * Step + 1 <=> q <= m
  <2>1. m * Step \in Nat
    BY <1>2
  <2> QED
    BY <1>7, <1>8, <2>1
<1> QED
  BY <1>1, <1>3, <1>5, <1>6, <1>9

-----------------------------------------------------------------------------
(* A round of the reduction. *)

\* The ranks of what is kept and shed of a picture.
Kept(bs, p, m) == \A c \in Present(bs) : Rank(p[c[1]].ac[c[2]]) >= m
Gone(bs, p, m) == \A c \in Present(p) \ Present(bs) : Rank(p[c[1]].ac[c[2]]) <= m

\* A picture that is being reduced: all that is left is of the limit's rank or
\* above, nothing above it is gone, and there are too many codes by toShed.
Reducing(bs, p, limit, m, t) ==
  /\ IsPicture(bs) /\ PartOf(bs, p) /\ m \in Nat /\ t \in Nat
  /\ m = 0 => t = 0 /\ Present(bs) = Present(p)
  /\ m > 0 => t > 0 /\ Codes(bs) = limit + t /\ Kept(bs, p, m) /\ Gone(bs, p, m - 1)

\* A picture that has been reduced.
Cut(bs, p, limit) ==
  /\ IsPicture(bs) /\ PartOf(bs, p)
  /\ Codes(bs) = IF Codes(p) < limit THEN Codes(p) ELSE limit
  /\ \E m \in Nat : Kept(bs, p, m) /\ Gone(bs, p, m)

LEMMA LengthOfPicture ==
  ASSUME NEW bs, IsPicture(bs)
  PROVE  Len(bs) \in Nat /\ DOMAIN bs = 1 .. Len(bs)
  BY DEF IsPicture

LEMMA SameLength ==
  ASSUME NEW bs, NEW p, IsPicture(bs), IsPicture(p), PartOf(bs, p)
  PROVE  Len(bs) = Len(p)
<1>1. PICK a \in Nat : a = Len(bs) /\ DOMAIN bs = 1 .. a
  BY LengthOfPicture
<1>2. PICK b \in Nat : b = Len(p) /\ DOMAIN p = 1 .. b
  BY LengthOfPicture
<1>3. 1 .. a = 1 .. b
  BY <1>1, <1>2, Zenon DEF PartOf
<1>4. (a > 0 => a \in 1 .. b) /\ (b > 0 => b \in 1 .. a)
  BY <1>3
<1>5. a = b
  BY <1>4
<1> QED
  BY <1>1, <1>2, <1>5

\* The blocks without some of their coefficients are still of the picture.
LEMMA PartShed ==
  ASSUME NEW bs, NEW p, IsPicture(bs), PartOf(bs, p), NEW cs
  PROVE  PartOf(Without(bs, cs), p)
<1>1. /\ DOMAIN Without(bs, cs) = DOMAIN bs
      /\ Present(Without(bs, cs)) = Present(bs) \ cs
      /\ \A n \in DOMAIN bs : Without(bs, cs)[n].dc = bs[n].dc
      /\ \A c \in Present(bs) \ cs : Without(bs, cs)[c[1]].ac[c[2]] = bs[c[1]].ac[c[2]]
  BY WithoutIsPicture
<1>2. /\ DOMAIN bs = DOMAIN p /\ \A n \in DOMAIN bs : bs[n].dc = p[n].dc
      /\ Present(bs) \subseteq Present(p)
      /\ \A c \in Present(bs) : bs[c[1]].ac[c[2]] = p[c[1]].ac[c[2]]
  BY DEF PartOf
<1>3. ASSUME NEW c \in Present(Without(bs, cs))
      PROVE  Without(bs, cs)[c[1]].ac[c[2]] = p[c[1]].ac[c[2]]
  <2>1. c \in Present(bs) \ cs
    BY <1>1
  <2>2. Without(bs, cs)[c[1]].ac[c[2]] = bs[c[1]].ac[c[2]]
    BY <1>1, <2>1, Zenon
  <2>3. bs[c[1]].ac[c[2]] = p[c[1]].ac[c[2]]
    BY <1>2, <2>1, Zenon
  <2> QED
    BY <2>2, <2>3, Zenon
<1>4. \A n \in DOMAIN bs : Without(bs, cs)[n].dc = p[n].dc
  BY <1>1, <1>2, Zenon
<1> QED
  BY <1>1, <1>2, <1>3, <1>4 DEF PartOf

\* What a round finds below its limit, and what it sheds of that.
SmallAt(bs, m)   == {c \in Present(bs) : Magnitude(bs[c[1]].ac[c[2]]) < m * Step + 1}
ShedAt(bs, m, t) == {c \in SmallAt(bs, m) : Cardinality(Preceding(SmallAt(bs, m), c)) < t}

LEMMA ShedIs == Shed = ShedAt(blocks, minVal, toShed)
  BY DEF Shed, Small, ShedAt, SmallAt, Preceding

\* The values of what is left are numbers.
LEMMA Values ==
  ASSUME NEW bs, IsPicture(bs), NEW c \in Present(bs)
  PROVE  bs[c[1]].ac[c[2]] \in Int /\ bs[c[1]].ac[c[2]] # 0
<1>1. c[1] \in DOMAIN bs /\ c[2] \in DOMAIN bs[c[1]].ac
  BY PresentPair
<1> QED
  BY <1>1 DEF IsPicture

LEMMA SmallAreRanked ==
  ASSUME NEW bs, NEW p, IsPicture(bs), PartOf(bs, p), NEW m \in Nat, NEW c \in Present(bs)
  PROVE  /\ Rank(p[c[1]].ac[c[2]]) \in Nat /\ Rank(p[c[1]].ac[c[2]]) >= 1
         /\ c \in SmallAt(bs, m) <=> Rank(p[c[1]].ac[c[2]]) <= m
<1>1. PICK x \in Int : x = bs[c[1]].ac[c[2]] /\ x # 0
  BY Values
<1>2. p[c[1]].ac[c[2]] = x
  BY <1>1 DEF PartOf
<1>3. Rank(x) \in Nat /\ Rank(x) >= 1 /\ (Magnitude(x) < m * Step + 1 <=> Rank(x) <= m)
  BY <1>1, RankOfSmall
<1>4. c \in SmallAt(bs, m) <=> Magnitude(x) < m * Step + 1
  BY <1>1 DEF SmallAt
<1> QED
  BY <1>2, <1>3, <1>4

\* How many a round sheds: as many as it is to, if there are.
LEMMA ShedCount ==
  ASSUME NEW bs, IsPicture(bs), NEW m \in Nat, NEW t \in Nat
  PROVE  /\ ShedAt(bs, m, t) \in SUBSET SmallAt(bs, m) /\ SmallAt(bs, m) \in SUBSET Present(bs)
         /\ IsFiniteSet(SmallAt(bs, m)) /\ Cardinality(SmallAt(bs, m)) \in Nat
         /\ Cardinality(ShedAt(bs, m, t))
              = IF t < Cardinality(SmallAt(bs, m)) THEN t ELSE Cardinality(SmallAt(bs, m))
<1>1. SmallAt(bs, m) \in SUBSET Present(bs) /\ ShedAt(bs, m, t) \in SUBSET SmallAt(bs, m)
  BY DEF SmallAt, ShedAt
<1>2. Present(bs) \in SUBSET Places /\ IsFiniteSet(Present(bs))
  BY PresentFinite
<1>3. IsFiniteSet(SmallAt(bs, m)) /\ SmallAt(bs, m) \in SUBSET Places
  BY <1>1, <1>2, FS_Subset
<1>4. Cardinality({c \in SmallAt(bs, m) : Cardinality(Preceding(SmallAt(bs, m), c)) < t})
        = IF t < Cardinality(SmallAt(bs, m)) THEN t ELSE Cardinality(SmallAt(bs, m))
  BY <1>3, FirstFew
<1>5. Cardinality(SmallAt(bs, m)) \in Nat
  BY <1>3, FS_CardinalityType
<1> QED
  BY <1>1, <1>3, <1>4, <1>5 DEF ShedAt

\* A round with nothing to shed leaves the picture as it is.
LEMMA NothingShed ==
  ASSUME NEW bs, IsPicture(bs), NEW m \in Nat
  PROVE  ShedAt(bs, m, 0) = {}
<1>1. /\ IsFiniteSet(SmallAt(bs, m)) /\ Cardinality(SmallAt(bs, m)) \in Nat
      /\ ShedAt(bs, m, 0) \in SUBSET SmallAt(bs, m)
      /\ Cardinality(ShedAt(bs, m, 0))
           = IF 0 < Cardinality(SmallAt(bs, m)) THEN 0 ELSE Cardinality(SmallAt(bs, m))
  BY ShedCount
<1>2. Cardinality(ShedAt(bs, m, 0)) = 0 /\ IsFiniteSet(ShedAt(bs, m, 0))
  BY <1>1, FS_Subset
<1> QED
  BY <1>2, FS_EmptySet

\* The first round sheds nothing, as there is nothing to be shed yet.
LEMMA FirstRound ==
  ASSUME NEW bs, NEW p, IsPicture(p), NEW limit \in Nat, Reducing(bs, p, limit, 0, 0)
  PROVE  LET w == Without(bs, ShedAt(bs, 0, 0)) IN
         /\ Codes(w) \in Int
         /\ Codes(w) - limit <= 0 => Cut(w, p, limit)
         /\ Codes(w) - limit > 0 => Reducing(w, p, limit, 1, Codes(w) - limit)
<1> DEFINE w == Without(bs, ShedAt(bs, 0, 0))
<1>1. IsPicture(bs) /\ PartOf(bs, p) /\ Present(bs) = Present(p)
  BY DEF Reducing
<1>2. ShedAt(bs, 0, 0) = {}
  BY <1>1, NothingShed
<1>3. IsPicture(w) /\ Present(w) = Present(bs) \ {} /\ Len(w) = Len(bs) /\ PartOf(w, p)
  BY <1>1, <1>2, WithoutIsPicture, PartShed
<1>4. Len(bs) = Len(p)
  BY <1>1, SameLength
<1>5. Present(w) = Present(p) /\ Codes(w) = Codes(p)
  BY <1>1, <1>3, <1>4 DEF Codes
<1>6. Codes(w) \in Nat
  <2>1. IsFiniteSet(Present(w)) /\ Len(w) \in Nat
    BY <1>3, PresentFinite DEF IsPicture
  <2> QED
    BY <2>1, FS_CardinalityType DEF Codes
<1>7. ASSUME NEW m \in Nat PROVE Gone(w, p, m)
  BY <1>5 DEF Gone
<1>8. Kept(w, p, 1)
  <2> SUFFICES ASSUME NEW c \in Present(w) PROVE Rank(p[c[1]].ac[c[2]]) >= 1
    BY DEF Kept
  <2> QED
    BY <1>1, <1>5, SmallAreRanked
<1> HIDE DEF w
<1>9. ASSUME Codes(w) - limit <= 0 PROVE Cut(w, p, limit)
  <2>1. Codes(w) = IF Codes(p) < limit THEN Codes(p) ELSE limit
    BY <1>5, <1>6, <1>9
  <2>2. 1 \in Nat
    OBVIOUS
  <2> QED
    BY <1>3, <1>7, <1>8, <2>1, <2>2 DEF Cut
<1>10. ASSUME Codes(w) - limit > 0 PROVE Reducing(w, p, limit, 1, Codes(w) - limit)
  <2>1. PICK t \in Nat : t = Codes(w) - limit /\ t > 0 /\ Codes(w) = limit + t
    BY <1>6, <1>10
  <2>2. 1 \in Nat /\ 1 > 0 /\ 1 # 0 /\ 1 - 1 = 0 /\ 0 \in Nat
    OBVIOUS
  <2>3. Reducing(w, p, limit, 1, t)
    BY <1>3, <1>7, <1>8, <2>1, <2>2 DEF Reducing
  <2> QED
    BY <2>1, <2>3
<1> QED
  BY <1>6, <1>9, <1>10 DEF w

\* A later round sheds of the smallest that are left, until enough are gone.
LEMMA LaterRound ==
  ASSUME NEW bs, NEW p, IsPicture(p), NEW limit \in Nat, NEW m \in Nat \ {0}, NEW t \in Nat,
         Reducing(bs, p, limit, m, t)
  PROVE  LET w == Without(bs, ShedAt(bs, m, t)) IN
         /\ Codes(w) \in Int
         /\ Codes(w) - limit <= 0 => Cut(w, p, limit)
         /\ Codes(w) - limit > 0 => Reducing(w, p, limit, m + 1, Codes(w) - limit)
<1> DEFINE cs == ShedAt(bs, m, t)
           w  == Without(bs, cs)
           s  == Cardinality(SmallAt(bs, m))
<1>1. /\ IsPicture(bs) /\ PartOf(bs, p) /\ t > 0 /\ Codes(bs) = limit + t
      /\ Kept(bs, p, m) /\ Gone(bs, p, m - 1)
  BY DEF Reducing
<1>2. /\ cs \in SUBSET SmallAt(bs, m) /\ SmallAt(bs, m) \in SUBSET Present(bs)
      /\ IsFiniteSet(SmallAt(bs, m)) /\ s \in Nat
      /\ Cardinality(cs) = IF t < s THEN t ELSE s
  BY <1>1, ShedCount
<1> HIDE DEF cs
<1>3. IsPicture(w) /\ Present(w) = Present(bs) \ cs /\ PartOf(w, p)
  BY <1>1, WithoutIsPicture, PartShed
<1>4. Codes(w) = limit + t - Cardinality(cs)
  <2>1. cs \in SUBSET Present(bs)
    BY <1>2
  <2> QED
    BY <1>1, <2>1, CodesLeft
<1>5. \A c \in Present(bs) : /\ Rank(p[c[1]].ac[c[2]]) \in Nat
                             /\ c \in SmallAt(bs, m) <=> Rank(p[c[1]].ac[c[2]]) <= m
  BY <1>1, SmallAreRanked
<1>6. Gone(w, p, m)
  <2> SUFFICES ASSUME NEW c \in Present(p) \ Present(w) PROVE Rank(p[c[1]].ac[c[2]]) <= m
    BY DEF Gone
  <2>1. CASE c \in Present(bs)
    BY <1>2, <1>3, <1>5, <2>1
  <2>2. CASE c \notin Present(bs)
    <3>1. IsPicture(p) /\ PartOf(p, p)
      BY DEF PartOf
    <3>2. Rank(p[c[1]].ac[c[2]]) \in Nat
      BY <3>1, SmallAreRanked
    <3>3. Rank(p[c[1]].ac[c[2]]) <= m - 1
      BY <1>1, <2>2 DEF Gone
    <3> QED
      BY <3>2, <3>3
  <2> QED
    BY <2>1, <2>2
<1>7. Kept(w, p, m)
  BY <1>1, <1>3 DEF Kept
<1>8. Codes(p) >= limit
  <2>1. PICK k \in Nat : k = Cardinality(Present(p)) /\ Cardinality(Present(bs)) \in Nat
                         /\ Cardinality(Present(bs)) <= k
    <3>1. IsPicture(p) /\ PartOf(bs, p)
      BY <1>1
    <3>2. IsFiniteSet(Present(p))
      BY <3>1, PresentFinite
    <3>3. Present(bs) \in SUBSET Present(p)
      BY <3>1 DEF PartOf
    <3> QED
      BY <3>2, <3>3, FS_Subset, FS_CardinalityType
  <2>2. Len(bs) = Len(p) /\ Len(p) \in Nat
    <3>1. IsPicture(p) /\ IsPicture(bs) /\ PartOf(bs, p)
      BY <1>1
    <3> QED
      BY <3>1, SameLength, LengthOfPicture, Zenon
  <2>3. Codes(p) = k + 2 * Len(p) /\ limit + t = Cardinality(Present(bs)) + 2 * Len(p)
    BY <1>1, <2>1, <2>2 DEF Codes
  <2>4. PICK c \in Nat, l \in Nat : c = Cardinality(Present(bs)) /\ l = 2 * Len(p)
    BY <2>1, <2>2
  <2>5. Codes(p) = k + l /\ limit + t = c + l /\ c <= k /\ t \in Nat /\ limit \in Nat
    BY <1>1, <2>1, <2>3, <2>4
  <2> QED
    BY ONLY <2>4, <2>5
<1> HIDE DEF w, s
<1>9. ASSUME Codes(w) - limit <= 0 PROVE Cut(w, p, limit)
  <2>1. Codes(w) = limit
    BY <1>1, <1>2, <1>4, <1>9
  <2>2. Codes(p) \in Nat
    BY CodesLeft
  <2>3. Codes(w) = IF Codes(p) < limit THEN Codes(p) ELSE limit
    BY <1>8, <2>1, <2>2
  <2> QED
    BY <1>3, <1>6, <1>7, <2>3 DEF Cut
<1>10. ASSUME Codes(w) - limit > 0 PROVE Reducing(w, p, limit, m + 1, Codes(w) - limit)
  <2>1. PICK u \in Nat : u = Codes(w) - limit /\ u > 0 /\ Codes(w) = limit + u
    BY <1>2, <1>4, <1>10
  <2>2. Cardinality(cs) = s
    BY <1>1, <1>2, <1>4, <1>10
  <2>3. cs = SmallAt(bs, m)
    BY <1>2, <2>2, FS_Subset DEF s
  <2>4. Kept(w, p, m + 1)
    <3> SUFFICES ASSUME NEW c \in Present(w) PROVE Rank(p[c[1]].ac[c[2]]) >= m + 1
      BY DEF Kept
    <3>1. c \in Present(bs) /\ c \notin SmallAt(bs, m)
      BY <1>3, <2>3
    <3> QED
      BY <1>5, <3>1
  <2>5. PICK o \in Nat : o = m + 1 /\ o > 0 /\ o - 1 = m
    OBVIOUS
  <2>6. Reducing(w, p, limit, o, u)
    BY <1>3, <1>6, <2>1, <2>4, <2>5 DEF Reducing
  <2> QED
    BY <2>1, <2>5, <2>6
<1>11. Codes(w) \in Int
  BY <1>2, <1>4
<1> QED
  BY <1>9, <1>10, <1>11 DEF w, cs

-----------------------------------------------------------------------------
(***************************************************************************)
(* The film: the multiplexer with its frames.                              *)
(***************************************************************************)
Limit(sectors) == CodesPerSector * sectors

\* A frame is encoded when, and only when, the multiplexer waits for it: its
\* picture is being reduced, or has been; so has that of the frame that is
\* being dealt out.
Waiting == pc = "video" /\ Len(group) < Run /\ blockIndex >= blockCount /\ room = Blocks
Encoding ==
  /\ stage \in {"none", "reduce", "encode", "end", "done", "trap"}
  /\ stage # "none" => Waiting
  /\ stage = "reduce" => Reducing(blocks, film[frameIndex + 1], Limit(room), minVal, toShed)
  /\ stage \in {"encode", "end", "done", "trap"} => Cut(blocks, film[frameIndex + 1], Limit(room))
  /\ stage = "none" /\ frameIndex > 0 => Cut(blocks, film[frameIndex], Limit(blockCount))

FilmInv == MuxInv /\ film \in Films /\ decoded.frames <= MaxFrames /\ Encoding

LEMMA FilmStarts == FilmInit => FilmInv
<1> SUFFICES ASSUME FilmInit PROVE FilmInv
  OBVIOUS
<1>1. Init /\ film \in Films /\ stage = "none"
  BY DEF FilmInit, FrameInit
<1>2. frameIndex = 0 /\ decoded.frames = 0 /\ MaxFrames \in Nat
  BY <1>1, MuxAssumption DEF Init
<1>3. Encoding
  BY <1>1, <1>2 DEF Encoding
<1> QED
  BY <1>1, <1>2, <1>3, MuxInit DEF FilmInv

\* Every step of a film is one of the multiplexer, or leaves it alone.
LEMMA FilmStepsMux == [FilmNext]_filmVars => [Next]_vars
<1>1. Multiplex => Next
  BY DEF Multiplex, Next
<1>2. StartFrame => UNCHANGED vars
  BY DEF StartFrame
<1>3. EncodeStep => UNCHANGED vars
  BY DEF EncodeStep
<1>4. FrameReady => Next
  BY DEF FrameReady, Next
<1>5. WriteSector => Next
  BY DEF WriteSector, Next
<1>6. UNCHANGED filmVars => UNCHANGED vars
  BY DEF filmVars
<1> QED
  BY <1>1, <1>2, <1>3, <1>4, <1>5, <1>6 DEF FilmNext

\* The next frame is one of the film.
LEMMA NextPicture ==
  ASSUME FilmInv, pc = "video", Len(group) < Run, blockIndex >= blockCount
  PROVE  /\ frames # <<>> /\ Head(frames) = frameIndex + 1
         /\ frameIndex \in Nat /\ IsPicture(film[frameIndex + 1])
<1>1. Types /\ Queues
  BY DEF FilmInv, MuxInv
<1>2. /\ frameIndex \in Nat /\ blockIndex \in Nat /\ blockCount \in Nat /\ Len(group) \in Nat
      /\ blockIndex <= blockCount
  BY <1>1, PosTypes, MuxAssumption DEF Types
<1>3. Contig(frames, frameIndex) /\ frameIndex + Len(frames) = decoded.frames
  BY <1>1 DEF Queues
<1>4. Len(frames) \in Nat /\ Len(frames) >= 1
  <2>1. Len(frames) \in Nat
    BY <1>3 DEF Contig
  <2>2. Len(frames) >= 2 \/ Len(frames) = 1
    BY <1>1 DEF Queues
  <2> QED
    BY <2>1, <2>2
<1>5. frames # <<>> /\ Head(frames) = frameIndex + 1
  <2>1. frames[1] = frameIndex + 1
    BY <1>3, <1>4 DEF Contig
  <2>2. frames \in Seq(Nat) /\ frames # <<>>
    BY <1>3, <1>4 DEF Contig
  <2> QED
    BY <2>1, <2>2
<1>6. frameIndex + 1 \in 1 .. MaxFrames
  BY <1>2, <1>3, <1>4, MuxAssumption DEF FilmInv
<1>7. IsPicture(film[frameIndex + 1])
  BY <1>6, PicturesOfFilms DEF FilmInv
<1> QED
  BY <1>2, <1>5, <1>7

\* The multiplexer's other steps are taken only when no frame is encoded.
LEMMA MultiplexKeeps ==
  ASSUME FilmInv, Multiplex \/ WriteSector
  PROVE  Encoding' /\ film' = film /\ decoded'.frames <= MaxFrames
<1>1. Types /\ Encoding /\ decoded.frames <= MaxFrames
  BY DEF FilmInv, MuxInv
<1>2. /\ Len(group) \in Nat /\ Run \in Nat /\ blockIndex \in Nat /\ blockCount \in Nat
      /\ decoded \in [samples : Nat, frames : Nat] /\ MaxFrames \in Nat
  BY <1>1, PosTypes, MuxAssumption DEF Types
<1>3. UNCHANGED <<frameVars, film>> /\ UNCHANGED <<frameIndex, blockCount>>
  BY DEF Multiplex, WriteSector, VideoSector, PollAudio, PollVideo, EndOfFile, BeginGroup, WriteGroup, frame
<1>4. pc = "ensure" \/ Len(group) = Run \/ blockIndex < blockCount
  BY DEF Multiplex, WriteSector, VideoSector, PollAudio, PollVideo, EndOfFile, BeginGroup, WriteGroup
<1>5. stage = "none"
  BY <1>1, <1>2, <1>4 DEF Encoding, Waiting
<1>6. Encoding'
  BY <1>1, <1>3, <1>5 DEF Encoding, frameVars
<1>7. decoded' = decoded \/ PollVideo \/ (\E n \in PacketSizes : PollAudio(n))
  BY DEF Multiplex, WriteSector, VideoSector, EndOfFile, BeginGroup, WriteGroup
<1>8. decoded'.frames <= MaxFrames
  BY <1>1, <1>2, <1>7 DEF PollVideo, PollAudio
<1> QED
  BY <1>3, <1>6, <1>8

LEMMA StartFrameKeeps ==
  ASSUME FilmInv, StartFrame
  PROVE  Encoding'
<1>1. /\ pc = "video" /\ Len(group) < Run /\ blockIndex >= blockCount
      /\ BeginFrame(film[Head(frames)], Blocks) /\ UNCHANGED <<vars, film, gathered>>
  BY DEF StartFrame
<1>2. Head(frames) = frameIndex + 1 /\ IsPicture(film[frameIndex + 1])
  BY <1>1, NextPicture
<1>3. /\ stage' = "reduce" /\ blocks' = film[frameIndex + 1] /\ room' = Blocks
      /\ minVal' = 0 /\ toShed' = 0
  BY <1>1, <1>2 DEF BeginFrame
<1>4. UNCHANGED <<pc, group, blockIndex, blockCount, overflow, frameIndex, film>>
  BY <1>1 DEF vars, frame
<1>5. Waiting'
  BY <1>1, <1>3, <1>4 DEF Waiting, Blocks
<1>6. \A p, limit : IsPicture(p) => Reducing(p, p, limit, 0, 0)
  BY DEF Reducing, PartOf
<1>7. Reducing(blocks, film[frameIndex + 1], Limit(room), minVal, toShed)'
  BY <1>2, <1>3, <1>4, <1>6
<1> QED
  BY <1>3, <1>5, <1>7 DEF Encoding

LEMMA ReduceKeeps ==
  ASSUME FilmInv, Reduce, UNCHANGED <<vars, film, gathered>>
  PROVE  Encoding'
<1> DEFINE p == film[frameIndex + 1]
           w == Without(blocks, ShedAt(blocks, minVal, toShed))
           l == Limit(room)
<1>1. Encoding /\ Types
  BY DEF FilmInv, MuxInv
<1>2. /\ stage = "reduce" /\ blocks' = w /\ room' = room
      /\ IF Codes(w) - l <= 0
         THEN stage' = "encode" /\ UNCHANGED <<minVal, toShed>>
         ELSE minVal' = minVal + 1 /\ toShed' = Codes(w) - l /\ UNCHANGED stage
  BY ShedIs DEF Reduce, NextLimit, Limit
<1>3. Waiting /\ Reducing(blocks, p, l, minVal, toShed)
  BY <1>1, <1>2 DEF Encoding
<1>4. UNCHANGED <<pc, group, blockIndex, blockCount, overflow, frameIndex, film>>
  BY DEF vars, frame
<1>5. Waiting'
  BY <1>2, <1>3, <1>4 DEF Waiting, Blocks
<1>6. IsPicture(p)
  BY <1>3, NextPicture DEF Waiting
<1>7. l \in Nat
  <2>1. room \in Nat
    BY <1>1, <1>3, BlocksExact DEF Waiting
  <2> QED
    BY <2>1, FrameParams DEF Limit
<1>8. minVal \in Nat /\ toShed \in Nat /\ (minVal = 0 => toShed = 0)
  BY <1>3 DEF Reducing
<1>9. /\ Codes(w) \in Int
      /\ Codes(w) - l <= 0 => Cut(w, p, l)
      /\ Codes(w) - l > 0 => Reducing(w, p, l, minVal + 1, Codes(w) - l)
  <2>1. CASE minVal = 0
    <3>1. toShed = 0 /\ 0 + 1 = 1
      BY <1>8, <2>1
    <3> QED
      BY <1>3, <1>6, <1>7, <2>1, <3>1, FirstRound
  <2>2. CASE minVal # 0
    <3>1. minVal \in Nat \ {0}
      BY <1>8, <2>2
    <3> QED
      BY <1>3, <1>6, <1>7, <1>8, <3>1, LaterRound
  <2> QED
    BY <2>1, <2>2
<1>10. p' = p /\ l' = l
  BY <1>2, <1>4 DEF Limit
<1> HIDE DEF p, w, l
<1>11. CASE Codes(w) - l <= 0
  <2>1. stage' = "encode" /\ Cut(w, p, l)
    BY <1>2, <1>9, <1>11
  <2>2. Cut(blocks, film[frameIndex + 1], Limit(room))'
    BY <1>2, <1>10, <2>1 DEF p, l
  <2> QED
    BY <1>5, <2>1, <2>2 DEF Encoding
<1>12. CASE Codes(w) - l > 0
  <2>1. /\ stage' = "reduce" /\ minVal' = minVal + 1 /\ toShed' = Codes(w) - l
        /\ Reducing(w, p, l, minVal + 1, Codes(w) - l)
    BY <1>2, <1>7, <1>9, <1>12
  <2>2. Reducing(blocks, film[frameIndex + 1], Limit(room), minVal, toShed)'
    BY <1>2, <1>10, <2>1 DEF p, l
  <2> QED
    BY <1>5, <2>1, <2>2 DEF Encoding
<1> QED
  BY <1>7, <1>9, <1>11, <1>12

\* Coding the blocks leaves them as they are.
LEMMA CodingKeeps ==
  ASSUME FilmInv, EncodeBlock \/ EncodeBits \/ EndMark \/ EndFrame, UNCHANGED <<vars, film, gathered>>
  PROVE  Encoding'
<1>1. Encoding
  BY DEF FilmInv
<1>2. /\ stage \in {"encode", "end"} /\ stage' \in {"encode", "end", "done", "trap"}
      /\ blocks' = blocks /\ room' = room
  BY DEF EncodeBlock, EncodeBits, EndMark, EndFrame
<1>3. UNCHANGED <<pc, group, blockIndex, blockCount, overflow, frameIndex, film>>
  BY DEF vars, frame
<1>4. Waiting /\ Cut(blocks, film[frameIndex + 1], Limit(room))
  BY <1>1, <1>2 DEF Encoding
<1>5. Waiting'
  BY <1>2, <1>3, <1>4 DEF Waiting, Blocks
<1>6. Cut(blocks, film[frameIndex + 1], Limit(room))'
  BY <1>2, <1>3, <1>4 DEF Limit
<1> QED
  BY <1>2, <1>5, <1>6 DEF Encoding

\* The frame that has been encoded becomes the one that is dealt out.
LEMMA FrameReadyKeeps ==
  ASSUME FilmInv, FrameReady
  PROVE  Encoding' /\ film' = film /\ decoded' = decoded
<1>1. Encoding
  BY DEF FilmInv
<1>2. /\ pc = "video" /\ Len(group) < Run /\ blockIndex >= blockCount
      /\ frameIndex' = frameIndex + 1 /\ blockCount' = Blocks /\ film' = film /\ decoded' = decoded
  BY DEF FrameReady, NextFrame
<1>3. frames # <<>> /\ frameIndex \in Nat
  BY <1>2, NextPicture
<1>4. stage = "done" /\ stage' = "none" /\ blocks' = blocks
  BY <1>3 DEF FrameReady, TakeFrame
<1>5. Cut(blocks, film[frameIndex + 1], Limit(Blocks))
  BY <1>1, <1>4 DEF Encoding, Waiting
<1>6. Cut(blocks, film[frameIndex], Limit(blockCount))'
  BY <1>2, <1>4, <1>5 DEF Limit
<1> QED
  BY <1>2, <1>4, <1>6 DEF Encoding

LEMMA FilmSteps == FilmInv /\ [FilmNext]_filmVars => FilmInv'
<1> SUFFICES ASSUME FilmInv, [FilmNext]_filmVars PROVE FilmInv'
  OBVIOUS
<1>1. MuxInv'
  BY FilmStepsMux, MuxStep DEF FilmInv
<1>2. film \in Films /\ decoded.frames <= MaxFrames /\ Encoding
  BY DEF FilmInv
<1>3. CASE Multiplex \/ WriteSector
  BY <1>1, <1>2, <1>3, MultiplexKeeps DEF FilmInv
<1>4. CASE StartFrame
  <2>1. film' = film /\ decoded' = decoded
    BY <1>4 DEF StartFrame, vars
  <2> QED
    BY <1>1, <1>2, <1>4, <2>1, StartFrameKeeps DEF FilmInv
<1>5. CASE EncodeStep
  <2>1. FrameStep /\ UNCHANGED <<vars, film, gathered>>
    BY <1>5 DEF EncodeStep
  <2>2. Encoding'
    BY <2>1, ReduceKeeps, CodingKeeps DEF FrameStep
  <2>3. film' = film /\ decoded' = decoded
    BY <2>1 DEF vars
  <2> QED
    BY <1>1, <1>2, <2>2, <2>3 DEF FilmInv
<1>6. CASE FrameReady
  BY <1>1, <1>2, <1>6, FrameReadyKeeps DEF FilmInv
<1>7. CASE UNCHANGED filmVars
  <2>1. film' = film /\ decoded' = decoded /\ UNCHANGED <<stage, blocks, room, minVal, toShed>>
    BY <1>7 DEF filmVars, vars, frameVars
  <2>2. UNCHANGED <<pc, group, blockIndex, blockCount, overflow, frameIndex>>
    BY <1>7 DEF filmVars, vars, frame
  <2>3. Encoding'
    BY <1>2, <2>1, <2>2 DEF Encoding, Waiting, Blocks, Limit
  <2> QED
    BY <1>1, <1>2, <2>1, <2>3 DEF FilmInv
<1> QED
  BY <1>3, <1>4, <1>5, <1>6, <1>7 DEF FilmNext

LEMMA FilmHolds == FilmSpec => []FilmInv
  BY FilmStarts, FilmSteps, PTL DEF FilmSpec

\* A film is a run of the multiplexer: encode_frame_str takes its time between
\* two sectors, and whatever it does there (mdec.c:398-573) leaves the
\* multiplexer alone.
THEOREM FilmIsMux == FilmSpec => Spec
<1>1. FilmInit => Init
  BY DEF FilmInit
<1> QED
  BY <1>1, FilmStepsMux, PTL DEF FilmSpec, Spec

\* So the multiplexer's properties are a film's, with its frames encoded
\* (filefmt.c:112-136).
THEOREM FilmInOrder == FilmSpec => [](TypeOK /\ FramesInOrder /\ InStep /\ AudioWhole)
  BY FilmIsMux, TypeCorrect, FramesInOrderHolds, InStepHolds, AudioWholeHolds, PTL

\* encode_frame_str sheds no more than it must, and the smallest coefficients
\* first (mdec.c:496-529), for all pictures, sizes and steps.
THEOREM ShedLeastHolds == FilmSpec => []ShedLeast
<1>1. FilmInv => ShedLeast
  <2> SUFFICES ASSUME FilmInv, Full
               PROVE  /\ PartOf(blocks, Picture)
                      /\ Codes(blocks) = IF Codes(Picture) < CodesPerSector * blockCount
                                         THEN Codes(Picture) ELSE CodesPerSector * blockCount
                      /\ \A c \in Present(blocks), d \in Present(Picture) \ Present(blocks) :
                           Rank(Picture[d[1]].ac[d[2]]) <= Rank(Picture[c[1]].ac[c[2]])
    BY DEF ShedLeast
  <2>1. Types /\ Queues /\ Rate /\ Encoding
    BY DEF FilmInv, MuxInv
  <2>2. frameIndex \in 1 .. MaxFrames
    <3>1. frameIndex \in Nat /\ frameIndex # 0
      BY <2>1 DEF Types, Rate, Full
    <3>2. Len(frames) \in Nat /\ frameIndex + Len(frames) = decoded.frames
      BY <2>1 DEF Queues, Contig
    <3> QED
      BY <3>1, <3>2, MuxAssumption DEF FilmInv
  <2>3. Cut(blocks, Picture, CodesPerSector * blockCount)
    BY <2>1, <2>2 DEF Encoding, Full, Picture, Limit
  <2>4. PICK m \in Nat : Kept(blocks, Picture, m) /\ Gone(blocks, Picture, m)
    BY <2>3 DEF Cut
  <2>5. IsPicture(Picture) /\ PartOf(Picture, Picture) /\ PartOf(blocks, Picture)
    BY <2>2, <2>3, PicturesOfFilms DEF Picture, FilmInv, PartOf, Cut
  <2>6. ASSUME NEW c \in Present(blocks), NEW d \in Present(Picture) \ Present(blocks)
        PROVE  Rank(Picture[d[1]].ac[d[2]]) <= Rank(Picture[c[1]].ac[c[2]])
    <3>1. c \in Present(Picture)
      BY <2>5 DEF PartOf
    <3>2. Rank(Picture[d[1]].ac[d[2]]) \in Nat /\ Rank(Picture[c[1]].ac[c[2]]) \in Nat
      BY <2>5, <3>1, SmallAreRanked
    <3>3. Rank(Picture[d[1]].ac[d[2]]) <= m /\ Rank(Picture[c[1]].ac[c[2]]) >= m
      BY <2>4 DEF Kept, Gone
    <3> QED
      BY <3>2, <3>3
  <2> QED
    BY <2>3, <2>5, <2>6 DEF Cut
<1> QED
  BY <1>1, FilmHolds, PTL
-----------------------------------------------------------------------------
(***************************************************************************)
(* Bits.  A word under construction is the number in its first bits, moved *)
(* up to its top: the bits that are still free are 0.                      *)
(***************************************************************************)
\* By its name the power is a number like any other to the provers.
Pow(x) == 2^x

LEMMA PowerTable ==
  \A x :
    /\ x = 0 => Pow(x) = 1
    /\ x = 1 => Pow(x) = 2
    /\ x = 2 => Pow(x) = 4
    /\ x = 3 => Pow(x) = 8
    /\ x = 4 => Pow(x) = 16
    /\ x = 5 => Pow(x) = 32
    /\ x = 6 => Pow(x) = 64
    /\ x = 7 => Pow(x) = 128
    /\ x = 8 => Pow(x) = 256
    /\ x = 9 => Pow(x) = 512
    /\ x = 10 => Pow(x) = 1024
    /\ x = 11 => Pow(x) = 2048
    /\ x = 12 => Pow(x) = 4096
    /\ x = 13 => Pow(x) = 8192
    /\ x = 14 => Pow(x) = 16384
    /\ x = 15 => Pow(x) = 32768
    /\ x = 16 => Pow(x) = 65536
    /\ x = 17 => Pow(x) = 131072
    /\ x = 18 => Pow(x) = 262144
    /\ x = 19 => Pow(x) = 524288
    /\ x = 20 => Pow(x) = 1048576
    /\ x = 21 => Pow(x) = 2097152
    /\ x = 22 => Pow(x) = 4194304
<1>0. \A x : x = 0 => Pow(x) = 1
  BY DEF Pow
<1>1. \A x : x = 1 => Pow(x) = 2
  BY DEF Pow
<1>2. \A x : x = 2 => Pow(x) = 4
  BY DEF Pow
<1>3. \A x : x = 3 => Pow(x) = 8
  BY DEF Pow
<1>4. \A x : x = 4 => Pow(x) = 16
  BY DEF Pow
<1>5. \A x : x = 5 => Pow(x) = 32
  BY DEF Pow
<1>6. \A x : x = 6 => Pow(x) = 64
  BY DEF Pow
<1>7. \A x : x = 7 => Pow(x) = 128
  BY DEF Pow
<1>8. \A x : x = 8 => Pow(x) = 256
  BY DEF Pow
<1>9. \A x : x = 9 => Pow(x) = 512
  BY DEF Pow
<1>10. \A x : x = 10 => Pow(x) = 1024
  BY DEF Pow
<1>11. \A x : x = 11 => Pow(x) = 2048
  BY DEF Pow
<1>12. \A x : x = 12 => Pow(x) = 4096
  BY DEF Pow
<1>13. \A x : x = 13 => Pow(x) = 8192
  BY DEF Pow
<1>14. \A x : x = 14 => Pow(x) = 16384
  BY DEF Pow
<1>15. \A x : x = 15 => Pow(x) = 32768
  BY DEF Pow
<1>16. \A x : x = 16 => Pow(x) = 65536
  BY DEF Pow
<1>17. \A x : x = 17 => Pow(x) = 131072
  BY DEF Pow
<1>18. \A x : x = 18 => Pow(x) = 262144
  BY DEF Pow
<1>19. \A x : x = 19 => Pow(x) = 524288
  BY DEF Pow
<1>20. \A x : x = 20 => Pow(x) = 1048576
  BY DEF Pow
<1>21. \A x : x = 21 => Pow(x) = 2097152
  BY DEF Pow
<1>22. \A x : x = 22 => Pow(x) = 4194304
  BY DEF Pow
<1> QED
  BY <1>0, <1>1, <1>2, <1>3, <1>4, <1>5, <1>6, <1>7, <1>8, <1>9, <1>10, <1>11, <1>12,
     <1>13, <1>14, <1>15, <1>16, <1>17, <1>18, <1>19, <1>20, <1>21, <1>22

Exponent(x) ==
  \/ x = 0 \/ x = 1 \/ x = 2 \/ x = 3 \/ x = 4 \/ x = 5 \/ x = 6 \/ x = 7 \/ x = 8 \/ x = 9
  \/ x = 10 \/ x = 11 \/ x = 12 \/ x = 13 \/ x = 14 \/ x = 15 \/ x = 16 \/ x = 17 \/ x = 18
  \/ x = 19 \/ x = 20 \/ x = 21 \/ x = 22

LEMMA Power ==
  ASSUME NEW n \in 0 .. 22
  PROVE  Pow(n) \in Nat \ {0}
<1>1. Exponent(n)
  BY DEF Exponent
<1> QED
  BY <1>1, PowerTable DEF Exponent

LEMMA PowerSum ==
  ASSUME NEW a \in 0 .. 22, NEW b \in 0 .. 22, a + b <= 22
  PROVE  Pow(a + b) = Pow(a) * Pow(b)
<1>1. Exponent(a) /\ Exponent(b)
  BY DEF Exponent
<1> QED
  BY <1>1, PowerTable DEF Exponent

\* What numbers below a product, in steps of a factor, amount to.
LEMMA BelowProduct ==
  ASSUME NEW K \in Nat \ {0}, NEW L \in Nat \ {0}, NEW v \in 0 .. K * L - 1
  PROVE  /\ v \div K \in 0 .. L - 1 /\ v % K \in 0 .. K - 1
         /\ v = K * (v \div K) + (v % K)
<1>1. K * L \in Nat /\ v \in Nat /\ v < K * L
  OBVIOUS
<1>2. v \div K \in Nat /\ v % K \in 0 .. K - 1 /\ v = K * (v \div K) + (v % K)
  BY <1>1, Euclid
<1>3. PICK q \in Nat, r \in 0 .. K - 1 : q = v \div K /\ r = v % K /\ v = K * q + r
  BY <1>2
<1>4. q < L
  <2>1. SUFFICES ASSUME L <= q PROVE FALSE
    BY <1>3
  <2>2. K * L <= K * q /\ K * q \in Nat
    BY <1>3, <2>1
  <2> QED
    BY <1>1, <1>3, <2>2
<1> QED
  BY <1>2, <1>3, <1>4

LEMMA ProductBelow ==
  ASSUME NEW M \in Nat \ {0}, NEW N \in Nat \ {0}, NEW h \in 0 .. M - 1, NEW v \in 0 .. N - 1
  PROVE  h * N + v \in 0 .. M * N - 1
<1>1. h * N <= (M - 1) * N /\ (M - 1) * N = M * N - N /\ h * N \in Nat /\ M * N \in Nat
  OBVIOUS
<1>2. PICK x \in Nat, y \in Nat : x = h * N /\ y = M * N /\ x <= y - N
  BY <1>1
<1>3. x + v \in 0 .. y - 1
  BY <1>2
<1> QED
  BY <1>2, <1>3

LEMMA MultipleBelow ==
  ASSUME NEW L \in Nat \ {0}, NEW M \in Nat \ {0}, NEW W \in Nat, L * M = W, NEW h \in 0 .. M - 1
  PROVE  L * h \in 0 .. W - 1
<1>1. 0 \in 0 .. L - 1 /\ h \in Nat
  OBVIOUS
<1>2. h * L + 0 \in 0 .. M * L - 1
  BY <1>1, ProductBelow
<1>3. h * L + 0 = L * h /\ M * L = L * M
  BY <1>1
<1> QED
  BY <1>2, <1>3

LEMMA Regrouped ==
  ASSUME NEW R \in Nat, NEW N \in Nat, NEW h \in Nat, NEW v \in Nat
  PROVE  (R * N) * h + v * R = R * (h * N + v)
<1>1. (R * N) * h = R * (h * N) /\ v * R = R * v /\ h * N \in Nat
  OBVIOUS
<1>2. \A a \in Nat : R * (a + v) = R * a + R * v
  OBVIOUS
<1> QED
  BY <1>1, <1>2

\* n bits of which the last k, and those before them, are numbers of their own.
LEMMA SplitBits ==
  ASSUME NEW n \in 0 .. 22, NEW k \in 0 .. n, NEW v \in 0 .. Pow(n) - 1
  PROVE  /\ v \div Pow(k) \in 0 .. Pow(n - k) - 1 /\ v % Pow(k) \in 0 .. Pow(k) - 1
         /\ v = Pow(k) * (v \div Pow(k)) + (v % Pow(k))
<1>1. k \in 0 .. 22 /\ n - k \in 0 .. 22 /\ k + (n - k) = n /\ k + (n - k) <= 22
  OBVIOUS
<1>2. Pow(k) \in Nat \ {0} /\ Pow(n - k) \in Nat \ {0}
  BY <1>1, Power
<1>3. Pow(n) = Pow(k) * Pow(n - k)
  BY <1>1, PowerSum
<1>4. v \in 0 .. Pow(k) * Pow(n - k) - 1
  BY <1>3
<1> QED
  BY <1>2, <1>4, BelowProduct

-----------------------------------------------------------------------------
(* The packer. *)

\* The first m bits of a word are the number h.
Filled(v, m, h) == h \in 0 .. Pow(m) - 1 /\ v = Pow(16 - m) * h

Packers == [words : Seq(Words), value : Words, left : 0 .. 16]
Packed(s) == s \in Packers /\ \E h \in Nat : Filled(s.value, 16 - s.left, h)

LEMMA WordSet == Words = 0 .. Pow(16) - 1
  BY DEF Words, Pow

\* A word that is filled in part is a word.
LEMMA PartFilled ==
  ASSUME NEW m \in 0 .. 16, NEW h, NEW w, Filled(w, m, h)
  PROVE  w \in Words
<1>1. PICK e \in 0 .. 22 : e = 16 - m /\ e + m = 16 /\ m \in 0 .. 22 /\ e + m <= 22
  OBVIOUS
<1>2. PICK L \in Nat \ {0} : L = Pow(e)
  BY Power
<1>3. PICK M \in Nat \ {0} : M = Pow(m)
  BY <1>1, Power
<1>4. L * M = Pow(16)
  BY <1>1, <1>2, <1>3, PowerSum
<1>5. h \in 0 .. M - 1 /\ w = L * h
  BY <1>1, <1>2, <1>3 DEF Filled
<1>6. Pow(16) \in Nat
  BY Power
<1>7. w \in 0 .. Pow(16) - 1
  BY <1>4, <1>5, <1>6, MultipleBelow
<1> QED
  BY <1>7, WordSet, Zenon

\* n more bits at the end of the first m.
LEMMA MoreFilled ==
  ASSUME NEW m \in 0 .. 16, NEW h, NEW w, Filled(w, m, h),
         NEW n \in 0 .. 16 - m, NEW v \in 0 .. Pow(n) - 1
  PROVE  Filled(w + v * Pow(16 - m - n), m + n, h * Pow(n) + v)
<1>1. PICK r \in 0 .. 16 : /\ r = 16 - m - n /\ r + n = 16 - m /\ r = 16 - (m + n) /\ m + n <= 22
                           /\ r + n <= 22 /\ m \in 0 .. 22 /\ n \in 0 .. 22 /\ r \in 0 .. 22
  OBVIOUS
<1>2. PICK M \in Nat \ {0} : M = Pow(m)
  BY <1>1, Power
<1>3. PICK N \in Nat \ {0} : N = Pow(n)
  BY <1>1, Power
<1>4. PICK R \in Nat \ {0} : R = Pow(r)
  BY <1>1, Power
<1>5. Pow(m + n) = M * N
  BY <1>1, <1>2, <1>3, PowerSum
<1>6. Pow(16 - m) = R * N
  BY <1>1, <1>3, <1>4, PowerSum
<1>7. h \in 0 .. M - 1 /\ w = (R * N) * h /\ v \in 0 .. N - 1
  BY <1>2, <1>3, <1>6 DEF Filled
<1>8. h * N + v \in 0 .. M * N - 1
  BY <1>7, ProductBelow
<1>9. (R * N) * h + v * R = R * (h * N + v)
  BY <1>7, Regrouped
<1>10. Filled(w + v * R, m + n, h * N + v)
  BY <1>1, <1>4, <1>5, <1>7, <1>8, <1>9 DEF Filled
<1> QED
  BY <1>1, <1>3, <1>4, <1>10

\* A word that has been written leaves an empty one.
LEMMA FlushPacked ==
  ASSUME NEW s \in Packers
  PROVE  Packed(Flush(s)) /\ Flush(s).left = 16
<1>1. s.words \in Seq(Words) /\ s.value \in Words
  BY DEF Packers
<1>2. Append(s.words, s.value) \in Seq(Words)
  BY <1>1, AppendProperties
<1>3. 0 \in Words
  <2>1. Pow(16) \in Nat \ {0}
    BY Power
  <2>2. 0 \in 0 .. Pow(16) - 1
    BY <2>1
  <2> QED
    BY <2>2, WordSet, Zenon
<1>4. Flush(s) \in Packers /\ Flush(s).left = 16 /\ Flush(s).value = 0
  BY <1>1, <1>2, <1>3 DEF Flush, Packers
<1>5. Filled(0, 0, 0)
  <2>1. Pow(0) = 1 /\ Pow(16) \in Nat
    BY PowerTable, Power
  <2> QED
    BY <2>1 DEF Filled
<1> QED
  BY <1>4, <1>5 DEF Packed

\* The state of the packer with more bits in its word.
LEMMA WithBits ==
  ASSUME NEW s, Packed(s), NEW n \in 0 .. s.left, NEW v \in 0 .. Pow(n) - 1
  PROVE  Packed([words |-> s.words, value |-> s.value + v * Pow(s.left - n), left |-> s.left - n])
<1>1. PICK l \in 0 .. 16 : l = s.left
  BY DEF Packed, Packers
<1>2. PICK h \in Nat : Filled(s.value, 16 - l, h)
  BY <1>1 DEF Packed
<1>3. PICK m \in 0 .. 16 : m = 16 - l /\ n \in 0 .. 16 - m /\ 16 - m - n = l - n /\ m + n = 16 - (l - n)
                           /\ m + n \in 0 .. 16 /\ l - n \in 0 .. 16
  BY <1>1
<1>4. PICK w : w = s.value + v * Pow(l - n)
  OBVIOUS
<1>5. PICK g : g = h * Pow(n) + v
  OBVIOUS
<1>6. Filled(s.value + v * Pow(16 - m - n), m + n, h * Pow(n) + v)
  BY <1>2, <1>3, MoreFilled
<1>7. Filled(w, 16 - (l - n), g)
  BY <1>3, <1>4, <1>5, <1>6, Zenon
<1>8. w \in Words
  BY <1>3, <1>7, PartFilled
<1>9. g \in Nat
  <2>1. Pow(n) \in Nat
    BY <1>1, Power
  <2> QED
    BY <1>5, <2>1
<1>10. PICK t : t = [words |-> s.words, value |-> w, left |-> l - n]
  OBVIOUS
<1>11. t \in Packers /\ t.value = w /\ t.left = l - n
  BY <1>3, <1>8, <1>10 DEF Packed, Packers
<1>12. Packed(t)
  BY <1>7, <1>9, <1>11 DEF Packed
<1>13. t = [words |-> s.words, value |-> s.value + v * Pow(s.left - n), left |-> s.left - n]
  BY <1>1, <1>4, <1>10, Zenon
<1> QED
  BY <1>12, <1>13, Zenon

LEMMA PlopPacked ==
  ASSUME NEW s, Packed(s), NEW n \in 0 .. s.left, NEW v \in 0 .. Pow(n) - 1
  PROVE  Packed(Plop(s, n, v))
BY WithBits DEF Plop, Pow

LEMMA TruncPacked ==
  ASSUME NEW s, Packed(s), NEW n \in s.left .. 22, NEW v \in 0 .. Pow(n) - 1
  PROVE  /\ Packed(Trunc(s, n, v)) /\ Trunc(s, n, v).left = 16
         /\ v % Pow(n - s.left) \in 0 .. Pow(n - s.left) - 1
<1>1. PICK l \in 0 .. 16 : l = s.left
  BY DEF Packed, Packers
<1>2. n \in 0 .. 22 /\ n - l \in 0 .. n /\ n - (n - l) = l
  BY <1>1
<1>3. v \div Pow(n - l) \in 0 .. Pow(l) - 1 /\ v % Pow(n - l) \in 0 .. Pow(n - l) - 1
  <2>1. /\ v \div Pow(n - l) \in 0 .. Pow(n - (n - l)) - 1
        /\ v % Pow(n - l) \in 0 .. Pow(n - l) - 1
    BY <1>2, SplitBits
  <2> QED
    BY <1>2, <2>1
<1>4. PICK q \in 0 .. Pow(l) - 1 : q = v \div Pow(n - l)
  BY <1>3
<1>5. Packed([words |-> s.words, value |-> s.value + q * Pow(s.left - l), left |-> s.left - l])
  <2>1. l \in 0 .. s.left
    BY <1>1
  <2> QED
    BY <2>1, WithBits
<1>6. s.value + q * Pow(l - l) = s.value + q
  <2>1. l - l = 0 /\ Pow(0) = 1 /\ Pow(l) \in Nat
    BY PowerTable, Power
  <2> QED
    BY <2>1
<1>7. s.value + q \in Words
  <2> DEFINE t == [words |-> s.words, value |-> s.value + q * Pow(s.left - l), left |-> s.left - l]
  <2>1. t.value = s.value + q
    BY <1>1, <1>6 DEF Packed, Packers
  <2>2. t.value \in Words
    BY <1>5 DEF Packed, Packers
  <2> QED
    BY <2>1, <2>2
<1> DEFINE u == [s EXCEPT !.value = @ + q]
<1>8. u \in Packers
  BY <1>7 DEF Packed, Packers
<1>9. Trunc(s, n, v) = Flush(u)
  BY <1>1, <1>4 DEF Trunc, Pow
<1> HIDE DEF u
<1>10. Packed(Flush(u)) /\ Flush(u).left = 16
  BY <1>8, FlushPacked
<1> QED
  BY <1>1, <1>3, <1>9, <1>10

\* A code of no more than 16 bits.
LEMMA PutWholePacked ==
  ASSUME NEW s, Packed(s), NEW n \in 0 .. 16, NEW v \in 0 .. Pow(n) - 1
  PROVE  Packed(PutWhole(s, n, v))
<1>1. PICK t : t = IF s.left = 0 THEN Flush(s) ELSE s
  OBVIOUS
<1>2. Packed(t) /\ t.left \in 1 .. 16
  <2>1. s \in Packers /\ s.left \in 0 .. 16
    BY DEF Packed, Packers
  <2>2. Packed(Flush(s)) /\ Flush(s).left = 16
    BY <2>1, FlushPacked
  <2> QED
    BY <1>1, <2>1, <2>2
<1>3. CASE n <= t.left
  <2>1. Packed(Plop(t, n, v))
    BY <1>2, <1>3, PlopPacked
  <2> QED
    BY <1>1, <1>3, <2>1 DEF PutWhole, Fill
<1>4. CASE n > t.left
  <2>1. PICK r \in 1 .. 15 : r = n - t.left
    BY <1>2, <1>4
  <2>2. Packed(Trunc(t, n, v)) /\ Trunc(t, n, v).left = 16 /\ v % Pow(r) \in 0 .. Pow(r) - 1
    <3>1. n \in t.left .. 22
      BY <1>2, <1>4
    <3> QED
      BY <1>2, <2>1, <3>1, TruncPacked
  <2>3. Packed(Plop(Trunc(t, n, v), r, v % Pow(r)))
    <3>1. r \in 0 .. Trunc(t, n, v).left
      BY <2>2
    <3> QED
      BY <2>2, <3>1, PlopPacked
  <2>4. PutWhole(s, n, v) = Plop(Trunc(t, n, v), r, v % Pow(r))
    <3>1. ~(n <= t.left) /\ r <= 16
      BY <1>2, <1>4, <2>1
    <3>2. Fill(t, n, v) = Plop(Trunc(t, n, v), r, v % Pow(r))
      BY <2>1, <3>1 DEF Fill, Pow
    <3> QED
      BY <1>1, <3>2 DEF PutWhole
  <2> QED
    BY <2>3, <2>4
<1> QED
  BY <1>2, <1>3, <1>4

LEMMA PutPacked ==
  ASSUME NEW s, Packed(s), NEW n \in 1 .. 22, NEW v \in 0 .. Pow(n) - 1
  PROVE  Packed(Put(s, n, v))
<1>1. CASE n > 16
  <2>1. n \in 0 .. 22 /\ 16 \in 0 .. n /\ n - 16 \in 0 .. 16 /\ 16 \in 0 .. 16
    BY <1>1
  <2>2. v \div Pow(16) \in 0 .. Pow(n - 16) - 1 /\ v % Pow(16) \in 0 .. Pow(16) - 1
    BY <2>1, SplitBits
  <2>3. Packed(PutWhole(s, n - 16, v \div Pow(16)))
    BY <2>1, <2>2, PutWholePacked
  <2>4. Packed(PutWhole(PutWhole(s, n - 16, v \div Pow(16)), 16, v % Pow(16)))
    BY <2>1, <2>2, <2>3, PutWholePacked
  <2>5. Put(s, n, v) = PutWhole(PutWhole(s, n - 16, v \div Pow(16)), 16, v % Pow(16))
    BY <1>1, Zenon DEF Put, Pow
  <2> QED
    BY <2>4, <2>5
<1>2. CASE ~(n > 16)
  <2>1. n \in 0 .. 16
    BY <1>2
  <2> QED
    BY <1>2, <2>1, PutWholePacked DEF Put
<1> QED
  BY <1>1, <1>2

-----------------------------------------------------------------------------
(* The codes of a block. *)

CodeWords == {c \in (1 .. 22) \X Nat : c[2] \in 0 .. Pow(c[1]) - 1}

LEMMA Tables ==
  /\ \A k \in DOMAIN HuffmanMap :
       HuffmanMap[k][1] \in 1 .. 21 /\ HuffmanMap[k][2] \in 0 .. Pow(HuffmanMap[k][1]) - 1
  /\ \A n \in 1 .. 64 : QuantDec[n] \in Nat \ {0}
  BY ONLY TableAssumption DEF Pow

Levels == -512 .. 511
Zeroes == 0 .. 62

\* A level is a number of 10 bits.
LEMMA LevelRange ==
  ASSUME NEW b, NEW k \in 0 .. 63, IF k = 0 THEN b.dc \in Int ELSE b.ac[k] \in Int
  PROVE  Level(b, k) \in Levels
<1>1. PICK x \in Int : x = IF k = 0 THEN b.dc ELSE b.ac[k]
  OBVIOUS
<1>2. PICK q \in Nat \ {0} : q = QuantDec[k + 1]
  <2>1. k + 1 \in 1 .. 64
    OBVIOUS
  <2> QED
    BY <2>1, Tables
<1>3. Quotient(x, q) \in Int
  <2>1. CASE x < 0
    <3>1. -x \in Nat
      BY <2>1
    <3>2. (-x) \div q \in Nat
      BY <1>2, <3>1, Euclid
    <3> QED
      BY <2>1, <3>2 DEF Quotient
  <2>2. CASE ~(x < 0)
    <3>1. x \in Nat
      BY <2>2
    <3>2. x \div q \in Nat
      BY <1>2, <3>1, Euclid
    <3> QED
      BY <2>2, <3>2 DEF Quotient
  <2> QED
    BY <2>1, <2>2
<1>4. \A y \in Int : Clamped(y) \in Levels
  BY DEF Clamped, Levels
<1>5. Level(b, k) = Clamped(Quotient(x, q))
  BY <1>1, <1>2 DEF Level
<1> QED
  BY <1>3, <1>4, <1>5

\* The places at which a block has levels, in their order.
Ranked(S, n) == CHOOSE i \in S : Cardinality({j \in S : j < i}) = n - 1

LEMMA RankedIn ==
  ASSUME NEW S \in SUBSET (1 .. 63)
  PROVE  /\ Cardinality(S) \in Nat
         /\ \A n \in 1 .. Cardinality(S) : Ranked(S, n) \in S
         /\ \A n \in 2 .. Cardinality(S) : Ranked(S, n - 1) < Ranked(S, n)
<1>1. IsFiniteSet(S)
  <2>1. IsFiniteSet(1 .. 63)
    <3>1. 1 \in Int /\ 63 \in Int
      OBVIOUS
    <3> QED
      BY <3>1, FS_Interval
  <2> QED
    BY <2>1, FS_Subset
<1>2. Cardinality(S) \in Nat
  BY <1>1, FS_CardinalityType
<1>3. PICK R : R = {p \in S \X S : p[1] < p[2]}
  OBVIOUS
<1>4. \A i, j \in S : <<i, j>> \in R <=> i < j
  BY <1>3
<1>5. \A i, j, k \in S :
        /\ <<i, i>> \notin R
        /\ <<i, j>> \in R /\ <<j, k>> \in R => <<i, k>> \in R
        /\ i # j => <<i, j>> \in R \/ <<j, i>> \in R
  <2> SUFFICES ASSUME NEW i \in S, NEW j \in S, NEW k \in S
               PROVE  /\ <<i, i>> \notin R
                      /\ <<i, j>> \in R /\ <<j, k>> \in R => <<i, k>> \in R
                      /\ i # j => <<i, j>> \in R \/ <<j, i>> \in R
    OBVIOUS
  <2>1. i \in Int /\ j \in Int /\ k \in Int
    OBVIOUS
  <2>2. /\ <<i, i>> \in R <=> i < i
        /\ <<i, j>> \in R <=> i < j
        /\ <<j, k>> \in R <=> j < k
        /\ <<i, k>> \in R <=> i < k
        /\ <<j, i>> \in R <=> j < i
    BY <1>4
  <2>3. ~(i < i) /\ (i < j /\ j < k => i < k) /\ (i # j => i < j \/ j < i)
    BY <2>1
  <2> QED
    BY <2>2, <2>3
<1>6. [i \in S |-> Cardinality(Lower(S, R, i))] \in Bijection(S, 0 .. Cardinality(S) - 1)
  BY <1>1, <1>5, Numbered
<1>7. \A i \in S : Lower(S, R, i) = {j \in S : j < i}
  BY <1>4 DEF Lower
<1>8. \A m \in 0 .. Cardinality(S) - 1 : \E i \in S : Cardinality(Lower(S, R, i)) = m
  BY <1>6 DEF Bijection, Surjection
<1>9. ASSUME NEW n \in 1 .. Cardinality(S)
      PROVE  Ranked(S, n) \in S /\ Cardinality({j \in S : j < Ranked(S, n)}) = n - 1
  <2>1. n - 1 \in 0 .. Cardinality(S) - 1
    BY <1>2
  <2>2. \E i \in S : Cardinality({j \in S : j < i}) = n - 1
    BY <1>7, <1>8, <2>1
  <2> QED
    BY <2>2 DEF Ranked
<1>10. ASSUME NEW n \in 2 .. Cardinality(S)
       PROVE  Ranked(S, n - 1) < Ranked(S, n)
  <2>1. n \in 1 .. Cardinality(S) /\ n - 1 \in 1 .. Cardinality(S) /\ n - 1 - 1 < n - 1
    BY <1>2
  <2>2. PICK i \in S : i = Ranked(S, n) /\ Cardinality({j \in S : j < i}) = n - 1
    BY <1>9, <2>1
  <2>3. PICK h \in S : h = Ranked(S, n - 1) /\ Cardinality({j \in S : j < h}) = n - 1 - 1
    BY <1>9, <2>1
  <2>4. SUFFICES ASSUME i <= h PROVE FALSE
    BY <2>2, <2>3
  <2>5. {j \in S : j < i} \in SUBSET {j \in S : j < h} /\ {j \in S : j < h} \in SUBSET S
    <3>1. i \in Int /\ h \in Int /\ \A j \in S : j \in Int
      OBVIOUS
    <3>2. \A j \in S : j < i => j < h
      BY <2>4, <3>1
    <3> QED
      BY <3>2
  <2>6. IsFiniteSet({j \in S : j < h})
    BY <1>1, <2>5, FS_Subset
  <2>7. Cardinality({j \in S : j < i}) <= Cardinality({j \in S : j < h})
    BY <2>5, <2>6, FS_Subset
  <2> QED
    BY <2>1, <2>2, <2>3, <2>7
<1> QED
  BY <1>2, <1>9, <1>10

LEMMA LengthOf ==
  ASSUME NEW K \in Nat, NEW X, NEW s \in [1 .. K -> X]
  PROVE  s \in Seq(X) /\ Len(s) = K
OBVIOUS

IsBlock(b) ==
  /\ b.dc \in Int /\ DOMAIN b.ac \subseteq 1 .. 63
  /\ \A k \in DOMAIN b.ac : b.ac[k] \in Int

\* Before a level come at most 62 zeros.
LEMMA RunsSound ==
  ASSUME NEW b, IsBlock(b)
  PROVE  /\ Len(Runs(b)) \in Nat /\ DOMAIN Runs(b) = 1 .. Len(Runs(b))
         /\ \A n \in DOMAIN Runs(b) : Runs(b)[n].zeroes \in Zeroes /\ Runs(b)[n].level \in Levels
<1>1. PICK S \in SUBSET (1 .. 63) :
        S = Coded(b) /\ \A i \in S : ZagzigTable[i] \in DOMAIN b.ac
  <2>1. Size - 1 = 63
    BY DEF Size
  <2>2. \A i \in Coded(b) : i \in 1 .. 63 /\ ZagzigTable[i] \in DOMAIN b.ac
    BY <2>1 DEF Coded
  <2>3. Coded(b) \in SUBSET (1 .. 63)
    BY <2>2
  <2> QED
    BY <2>2, <2>3, Zenon
<1>2. PICK K \in Nat : K = Cardinality(S)
  BY RankedIn
<1>3. PICK p : p = [n \in 1 .. K |-> Ranked(S, n)]
  OBVIOUS
<1>4. Runs(b) = [n \in DOMAIN p |-> [zeroes |-> p[n] - (IF n = 1 THEN 0 ELSE p[n - 1]) - 1,
                                    level  |-> Level(b, ZagzigTable[p[n]])]]
  BY <1>1, <1>2, <1>3 DEF Runs, Ranked
<1>5. DOMAIN p = 1 .. K
  BY <1>3
<1>6. DOMAIN Runs(b) = 1 .. K
  BY <1>4, <1>5
<1>7. Len(Runs(b)) = K
  <2>1. PICK F : F = [n \in 1 .. K |-> [zeroes |-> p[n] - (IF n = 1 THEN 0 ELSE p[n - 1]) - 1,
                                      level  |-> Level(b, ZagzigTable[p[n]])]]
    OBVIOUS
  <2>2. PICK X : X = {F[n] : n \in 1 .. K}
    OBVIOUS
  <2>3. F \in [1 .. K -> X]
    BY <2>1, <2>2, Zenon
  <2>4. Runs(b) = F
    BY <1>4, <1>5, <2>1, Zenon
  <2> QED
    BY <2>3, <2>4, LengthOf
<1>8. ASSUME NEW n \in 1 .. K
      PROVE  Runs(b)[n].zeroes \in Zeroes /\ Runs(b)[n].level \in Levels
  <2>1. p[n] = Ranked(S, n) /\ p[n] \in S /\ p[n] \in 1 .. 63
    BY <1>2, <1>3, RankedIn
  <2>2. /\ Runs(b)[n].zeroes = p[n] - (IF n = 1 THEN 0 ELSE p[n - 1]) - 1
        /\ Runs(b)[n].level = Level(b, ZagzigTable[p[n]])
    BY <1>4, <1>5
  <2>3. Runs(b)[n].zeroes \in Zeroes
    <3>1. CASE n = 1
      BY <2>1, <2>2, <3>1 DEF Zeroes
    <3>2. CASE n # 1
      <4>1. n - 1 \in 1 .. K /\ n \in 2 .. K
        BY <1>2, <3>2
      <4>2. p[n - 1] = Ranked(S, n - 1) /\ Ranked(S, n - 1) \in S /\ Ranked(S, n - 1) < Ranked(S, n)
        BY <1>2, <1>3, <4>1, RankedIn
      <4>3. p[n - 1] \in 1 .. 63 /\ p[n - 1] < p[n]
        BY <2>1, <4>2
      <4> QED
        BY <2>1, <2>2, <3>2, <4>3 DEF Zeroes
    <3> QED
      BY <3>1, <3>2
  <2>4. Runs(b)[n].level \in Levels
    <3>1. PICK k : k = ZagzigTable[p[n]] /\ k \in DOMAIN b.ac
      BY <1>1, <2>1, Zenon
    <3>2. k \in 0 .. 63 /\ k # 0 /\ b.ac[k] \in Int
      BY <3>1 DEF IsBlock
    <3>3. Level(b, k) \in Levels
      <4>1. IF k = 0 THEN b.dc \in Int ELSE b.ac[k] \in Int
        BY <3>2, Zenon
      <4> QED
        BY <3>2, <4>1, LevelRange
    <3> QED
      BY <2>2, <3>1, <3>3
  <2> QED
    BY <2>3, <2>4
<1>9. Len(Runs(b)) \in Nat
  BY <1>7, Zenon
<1>10. DOMAIN Runs(b) = 1 .. Len(Runs(b))
  BY <1>6, <1>7, Zenon
<1> QED
  BY <1>6, <1>8, <1>9, <1>10, Zenon
LEMMA CodeWord ==
  ASSUME NEW n \in 1 .. 22, NEW v \in 0 .. Pow(n) - 1
  PROVE  <<n, v>> \in CodeWords
<1>1. Pow(n) \in Nat
  <2>1. n \in 0 .. 22
    OBVIOUS
  <2> QED
    BY <2>1, Power
<1>2. v \in Nat
  BY <1>1
<1> QED
  BY <1>2 DEF CodeWords

\* An escape: 6 bits, of which the last is set, 6 of a run and 10 of a level.
LEMMA EscapeBelow ==
  ASSUME NEW z \in 0 .. 62, NEW l \in 0 .. Pow(10) - 1
  PROVE  Pow(16) + Pow(10) * z + l \in 0 .. Pow(22) - 1
<1>1. 10 \in 0 .. 22 /\ 6 \in 0 .. 22 /\ 16 \in 0 .. 22 /\ 6 + 10 = 16 /\ 16 + 6 = 22
  OBVIOUS
<1>2. PICK N \in Nat \ {0} : N = Pow(10)
  BY <1>1, Power
<1>3. Pow(6) = 64
  BY PowerTable
<1>4. PICK L \in Nat \ {0} : L = Pow(16)
  BY <1>1, Power
<1>5. L = 64 * N
  BY <1>1, <1>2, <1>3, <1>4, PowerSum
<1>6. Pow(22) = L * 64
  BY <1>1, <1>3, <1>4, PowerSum
<1>7. z * N + l \in 0 .. 64 * N - 1
  <2>1. 64 \in Nat \ {0} /\ z \in 0 .. 64 - 1 /\ l \in 0 .. N - 1
    BY <1>2
  <2> QED
    BY <2>1, ProductBelow
<1>8. N * z = z * N
  OBVIOUS
<1>9. PICK x \in 0 .. L - 1 : x = N * z + l
  BY <1>5, <1>7, <1>8
<1>10. L + x \in 0 .. L * 64 - 1
  OBVIOUS
<1>11. L + N * z + l = L + x
  <2>1. PICK y \in Int : y = N * z
    OBVIOUS
  <2>2. l \in Int
    BY <1>2
  <2> QED
    BY <1>9, <2>1, <2>2
<1> QED
  BY <1>2, <1>4, <1>6, <1>10, <1>11, Zenon

LEMMA TenBits ==
  ASSUME NEW x \in Levels
  PROVE  x % Pow(10) \in 0 .. Pow(10) - 1
<1>1. x \in Int
  BY DEF Levels
<1>2. Pow(10) = 1024
  BY PowerTable
<1>3. x % 1024 \in 0 .. 1024 - 1
  BY <1>1
<1> QED
  BY <1>2, <1>3

\* A code of the table has a sign behind it, an escape three parts.
LEMMA RunCodeSound ==
  ASSUME NEW r, r.zeroes \in Zeroes, r.level \in Levels
  PROVE  RunCode(r) \in CodeWords
<1> DEFINE k == <<r.zeroes, Magnitude(r.level)>>
<1>1. CASE k \in DOMAIN HuffmanMap
  <2>1. PICK n \in 1 .. 21 : n = HuffmanMap[k][1] /\ HuffmanMap[k][2] \in 0 .. Pow(n) - 1
    BY <1>1, Tables, Zenon
  <2>2. PICK v \in 0 .. Pow(n) - 1 : v = HuffmanMap[k][2]
    BY <2>1
  <2>3. PICK s \in {0, 1} : s = IF r.level < 0 THEN 1 ELSE 0
    OBVIOUS
  <2>4. RunCode(r) = <<n + 1, 2 * v + s>>
    BY <1>1, <2>1, <2>2, <2>3, Zenon DEF RunCode
  <2>5. Pow(n + 1) = Pow(n) * 2 /\ Pow(n) \in Nat
    <3>1. n \in 0 .. 22 /\ 1 \in 0 .. 22 /\ n + 1 <= 22 /\ Pow(1) = 2
      BY PowerTable
    <3> QED
      BY <3>1, Power, PowerSum
  <2>6. n + 1 \in 1 .. 22 /\ 2 * v + s \in 0 .. Pow(n + 1) - 1
    BY <2>5
  <2> QED
    BY <2>4, <2>6, CodeWord
<1>2. CASE k \notin DOMAIN HuffmanMap
  <2>1. PICK l \in 0 .. Pow(10) - 1 : l = r.level % Pow(10)
    <3>1. r.level % Pow(10) \in 0 .. Pow(10) - 1
      BY TenBits
    <3> QED
      BY <3>1, Zenon
  <2>2. PICK z \in 0 .. 62 : z = r.zeroes
    BY DEF Zeroes
  <2>3. PICK v : v = Pow(16) + Pow(10) * z + l
    OBVIOUS
  <2>4. RunCode(r) = <<6 + 16, v>>
    BY <1>2, <2>1, <2>2, <2>3, Zenon DEF RunCode, Pow
  <2>5. v \in 0 .. Pow(22) - 1
    BY <2>3, EscapeBelow, Zenon
  <2>6. 6 + 16 = 22 /\ 22 \in 1 .. 22
    OBVIOUS
  <2> QED
    BY <2>4, <2>5, <2>6, CodeWord
<1> QED
  BY <1>1, <1>2

LEMMA BlockCodesSound ==
  ASSUME NEW b, IsBlock(b)
  PROVE  BlockCodes(b) \in Seq(CodeWords)
<1>1. PICK K \in Nat : K = Len(Runs(b)) /\ DOMAIN Runs(b) = 1 .. K
  BY RunsSound
<1>2. PICK R : R = [n \in 1 .. K |-> RunCode(Runs(b)[n])]
  OBVIOUS
<1>3. R \in Seq(CodeWords)
  <2>1. \A n \in 1 .. K : RunCode(Runs(b)[n]) \in CodeWords
    BY <1>1, RunsSound, RunCodeSound, Zenon
  <2>2. R \in [1 .. K -> CodeWords]
    BY <1>2, <2>1, Zenon
  <2> QED
    BY <2>2, LengthOf
<1>4. PICK D : D = <<10, Level(b, 0) % Pow(10)>> /\ D \in CodeWords
  <2>1. Level(b, 0) \in Levels
    <3>1. 0 \in 0 .. 63 /\ (IF 0 = 0 THEN b.dc \in Int ELSE b.ac[0] \in Int)
      BY DEF IsBlock
    <3> QED
      BY <3>1, LevelRange
  <2>3. Level(b, 0) % Pow(10) \in 0 .. Pow(10) - 1
    BY <2>1, TenBits
  <2>4. 10 \in 1 .. 22
    OBVIOUS
  <2> QED
    BY <2>3, <2>4, CodeWord
<1>5. PICK E : E = <<2, 2>> /\ E \in CodeWords
  <2>1. Pow(2) = 4
    BY PowerTable
  <2>2. 2 \in 1 .. 22 /\ 2 \in 0 .. Pow(2) - 1
    BY <2>1
  <2> QED
    BY <2>2, CodeWord
<1>6. <<D>> \o R \o <<E>> \in Seq(CodeWords)
  BY <1>3, <1>4, <1>5
<1>7. BlockCodes(b) = <<D>> \o R \o <<E>>
  BY <1>1, <1>2, <1>4, <1>5, Zenon DEF BlockCodes, Pow
<1> QED
  BY <1>6, <1>7

\* The mark of the end of a frame.
LEMMA EndCodesSound == << <<10, 511>>, <<2, 2>> >> \in Seq(CodeWords)
<1>1. Pow(10) = 1024 /\ Pow(2) = 4
  BY PowerTable
<1>2. 10 \in 1 .. 22 /\ 511 \in 0 .. Pow(10) - 1 /\ 2 \in 1 .. 22 /\ 2 \in 0 .. Pow(2) - 1
  BY <1>1
<1>3. PICK D : D = <<10, 511>> /\ D \in CodeWords
  <2>1. PICK n \in 1 .. 22, v \in Nat : n = 10 /\ v = 511 /\ v \in 0 .. Pow(n) - 1
    BY <1>2
  <2>2. <<n, v>> \in CodeWords
    BY <2>1, CodeWord
  <2> QED
    BY <2>1, <2>2
<1>4. PICK E : E = <<2, 2>> /\ E \in CodeWords
  BY <1>2, CodeWord
<1>5. <<D, E>> \in Seq(CodeWords)
  BY <1>3, <1>4
<1> QED
  BY <1>3, <1>4, <1>5
-----------------------------------------------------------------------------
(* The coder keeps its types. *)

CoderInv ==
  /\ IsPicture(blocks) /\ at \in 1 .. Len(blocks) + 1
  /\ hwords \in Nat /\ hwords % 16 = 0
  /\ codes \in Seq(CodeWords)
  /\ Packed(packer)

LEMMA BlocksOfPicture ==
  ASSUME NEW bs, IsPicture(bs), NEW n \in DOMAIN bs
  PROVE  IsBlock(bs[n])
<1>1. Size - 1 = 63
  BY DEF Size
<1>2. bs[n].dc \in Int /\ DOMAIN bs[n].ac \subseteq 1 .. 63
  <2>1. bs[n].dc \in Int /\ DOMAIN bs[n].ac \subseteq 1 .. Size - 1
    BY DEF IsPicture
  <2> QED
    BY <1>1, <2>1
<1>3. \A k \in DOMAIN bs[n].ac : bs[n].ac[k] \in Int
  BY DEF IsPicture
<1> QED
  BY <1>2, <1>3, Zenon DEF IsBlock

LEMMA Even ==
  ASSUME NEW n \in Nat
  PROVE  Padded(n) \in Nat /\ Padded(n) % 16 = 0
  BY DEF Padded

LEMMA NoPicture == IsPicture(<<>>) /\ Len(<<>>) = 0
<1>1. Len(<<>>) = 0 /\ DOMAIN <<>> = 1 .. 0 /\ 1 .. 0 = {}
  OBVIOUS
<1> QED
  BY <1>1, Zenon DEF IsPicture

LEMMA NoPacker == Packed(Empty)
<1>1. 0 \in Words
  <2>1. Pow(16) \in Nat \ {0}
    BY Power
  <2>2. 0 \in 0 .. Pow(16) - 1
    BY <2>1
  <2> QED
    BY <2>2, WordSet, Zenon
<1>2. Empty \in Packers /\ Empty.left = 16 /\ Empty.value = 0
  BY <1>1 DEF Empty, Packers
<1>3. Filled(0, 0, 0)
  <2>1. Pow(0) = 1 /\ Pow(16) \in Nat
    BY PowerTable, Power
  <2> QED
    BY <2>1 DEF Filled
<1> QED
  BY <1>2, <1>3 DEF Packed

\* The words of a frame are taken away, the bits that wait for the next stay.
LEMMA NoWords ==
  ASSUME NEW s, Packed(s)
  PROVE  Packed([s EXCEPT !.words = <<>>])
<1>1. PICK e \in Seq(Words) : e = <<>>
  <2>1. <<>> \in Seq(Words)
    OBVIOUS
  <2> QED
    BY <2>1, Zenon
<1> DEFINE t == [s EXCEPT !.words = e]
<1>2. t \in Packers /\ t.left = s.left /\ t.value = s.value
  BY DEF Packed, Packers
<1> HIDE DEF t
<1>3. Packed(t)
  BY <1>2 DEF Packed
<1> QED
  BY <1>1, <1>3, Zenon DEF t

LEMMA CoderStarts == FilmInit => CoderInv
<1> SUFFICES ASSUME FilmInit PROVE CoderInv
  OBVIOUS
<1>1. blocks = <<>> /\ at = 1 /\ codes = <<>> /\ packer = Empty /\ hwords = 0
  BY DEF FilmInit, FrameInit
<1>2. at \in 1 .. Len(blocks) + 1
  BY <1>1, NoPicture
<1>3. hwords \in Nat /\ hwords % 16 = 0 /\ codes \in Seq(CodeWords)
  BY <1>1
<1> QED
  BY <1>1, <1>2, <1>3, NoPicture, NoPacker, Zenon DEF CoderInv

LEMMA BeginFrameKeeps ==
  ASSUME CoderInv, NEW p, IsPicture(p), NEW n, BeginFrame(p, n)
  PROVE  CoderInv'
<1>1. /\ blocks' = p /\ at' = 1 /\ codes' = <<>> /\ hwords' = 0
      /\ packer' = [packer EXCEPT !.words = <<>>]
  BY DEF BeginFrame
<1>2. Len(p) \in Nat
  BY DEF IsPicture
<1>3. at' \in 1 .. Len(blocks') + 1
  BY <1>1, <1>2
<1>4. hwords' \in Nat /\ hwords' % 16 = 0 /\ codes' \in Seq(CodeWords)
  BY <1>1
<1>5. Packed(packer)'
  BY <1>1, NoWords DEF CoderInv
<1>6. IsPicture(blocks)'
  BY <1>1
<1> QED
  BY <1>3, <1>4, <1>5, <1>6 DEF CoderInv

LEMMA FrameStepKeeps ==
  ASSUME CoderInv, FrameStep
  PROVE  CoderInv'
<1>1. /\ IsPicture(blocks) /\ at \in 1 .. Len(blocks) + 1 /\ Len(blocks) \in Nat
      /\ hwords \in Nat /\ hwords % 16 = 0 /\ codes \in Seq(CodeWords) /\ Packed(packer)
  BY DEF CoderInv, IsPicture
<1>2. CASE Reduce
  <2>1. blocks' = Without(blocks, Shed) /\ UNCHANGED <<at, codes, packer, hwords>>
    BY <1>2 DEF Reduce
  <2>2. IsPicture(blocks)' /\ Len(blocks') = Len(blocks)
    BY <1>1, <2>1, WithoutIsPicture
  <2> QED
    BY <1>1, <2>1, <2>2 DEF CoderInv
<1>3. CASE EncodeBlock
  <2>1. /\ at <= Len(blocks) /\ codes' = BlockCodes(blocks[at]) /\ at' = at + 1
        /\ hwords' = Padded(hwords + Len(Runs(blocks[at])) + 2)
        /\ UNCHANGED <<blocks, packer>>
    BY <1>3 DEF EncodeBlock
  <2>2. at \in DOMAIN blocks /\ at' \in 1 .. Len(blocks) + 1
    <3>1. at \in 1 .. Len(blocks) /\ at + 1 \in 1 .. Len(blocks) + 1
      BY <1>1, <2>1
    <3> QED
      BY <2>1, <3>1, <1>1 DEF IsPicture
  <2>3. IsBlock(blocks[at])
    BY <1>1, <2>2, BlocksOfPicture
  <2>4. codes' \in Seq(CodeWords)
    BY <2>1, <2>3, BlockCodesSound
  <2>5. hwords' \in Nat /\ hwords' % 16 = 0
    <3>1. PICK n \in Nat : n = Len(Runs(blocks[at]))
      BY <2>3, RunsSound
    <3>2. hwords + n + 2 \in Nat
      BY <1>1
    <3> QED
      BY <2>1, <3>1, <3>2, Even
  <2> QED
    BY <1>1, <2>1, <2>2, <2>4, <2>5 DEF CoderInv
<1>4. CASE EncodeBits
  <2>1. /\ codes # <<>> /\ codes' = Tail(codes)
        /\ packer' = Put(packer, Head(codes)[1], Head(codes)[2])
        /\ UNCHANGED <<blocks, at, hwords>>
    BY <1>4 DEF EncodeBits
  <2>2. Head(codes) \in CodeWords /\ codes' \in Seq(CodeWords)
    BY <1>1, <2>1
  <2>3. PICK n \in 1 .. 22 : n = Head(codes)[1] /\ Head(codes)[2] \in 0 .. Pow(n) - 1
    BY <2>2 DEF CodeWords
  <2>4. Packed(Put(packer, n, Head(codes)[2]))
    BY <1>1, <2>3, PutPacked
  <2>5. Packed(packer)'
    BY <2>1, <2>3, <2>4
  <2> QED
    BY <1>1, <2>1, <2>2, <2>5 DEF CoderInv
<1>5. CASE EndMark
  <2>1. /\ codes' = << <<10, 511>>, <<2, 2>> >> /\ hwords' = Padded(hwords + 2)
        /\ UNCHANGED <<blocks, at, packer>>
    BY <1>5 DEF EndMark
  <2>2. codes' \in Seq(CodeWords)
    BY <2>1, EndCodesSound, Zenon
  <2>3. hwords' \in Nat /\ hwords' % 16 = 0
    <3>1. hwords + 2 \in Nat
      BY <1>1
    <3> QED
      BY <2>1, <3>1, Even
  <2> QED
    BY <1>1, <2>1, <2>2, <2>3 DEF CoderInv
<1>6. CASE EndFrame
  <2>1. packer' = Flush(packer) /\ UNCHANGED <<blocks, at, codes, hwords>>
    BY <1>6 DEF EndFrame
  <2>2. Packed(Flush(packer))
    <3>1. packer \in Packers
      BY <1>1 DEF Packed
    <3> QED
      BY <3>1, FlushPacked
  <2> QED
    BY <1>1, <2>1, <2>2 DEF CoderInv
<1> QED
  BY <1>2, <1>3, <1>4, <1>5, <1>6 DEF FrameStep

LEMMA CoderSteps == FilmInv /\ CoderInv /\ [FilmNext]_filmVars => CoderInv'
<1> SUFFICES ASSUME FilmInv, CoderInv, [FilmNext]_filmVars PROVE CoderInv'
  OBVIOUS
<1>1. CASE UNCHANGED <<blocks, at, codes, packer, hwords>>
  BY <1>1 DEF CoderInv
<1>2. CASE Multiplex \/ WriteSector
  <2>1. UNCHANGED <<blocks, at, codes, packer, hwords>>
    BY <1>2 DEF Multiplex, WriteSector, frameVars
  <2> QED
    BY <1>1, <2>1
<1>3. CASE StartFrame
  <2>1. /\ pc = "video" /\ Len(group) < Run /\ blockIndex >= blockCount
        /\ BeginFrame(film[Head(frames)], Blocks)
    BY <1>3 DEF StartFrame
  <2>2. Head(frames) = frameIndex + 1 /\ IsPicture(film[frameIndex + 1])
    BY <2>1, NextPicture
  <2> QED
    BY <2>1, <2>2, BeginFrameKeeps
<1>4. CASE EncodeStep
  BY <1>4, FrameStepKeeps DEF EncodeStep
<1>5. CASE FrameReady
  <2>1. UNCHANGED <<blocks, at, codes, packer, hwords>>
    <3>1. frames # <<>>
      BY <1>5, NextPicture DEF FrameReady, NextFrame
    <3> QED
      BY <1>5, <3>1 DEF FrameReady, TakeFrame
  <2> QED
    BY <1>1, <2>1
<1>6. CASE UNCHANGED filmVars
  <2>1. UNCHANGED <<blocks, at, codes, packer, hwords>>
    BY <1>6 DEF filmVars, frameVars
  <2> QED
    BY <1>1, <2>1
<1> QED
  BY <1>2, <1>3, <1>4, <1>5, <1>6 DEF FilmNext

\* What is free of a word has no bits.
LEMMA FreeBits ==
  ASSUME NEW s, Packed(s)
  PROVE  s.value % Pow(s.left) = 0
<1>1. PICK l \in 0 .. 16 : l = s.left
  BY DEF Packed, Packers
<1>2. PICK h \in Nat : Filled(s.value, 16 - l, h)
  BY <1>1 DEF Packed
<1>3. 16 - (16 - l) = l /\ l \in 0 .. 22
  OBVIOUS
<1>4. PICK L \in Nat \ {0} : L = Pow(l)
  BY <1>3, Power
<1>5. s.value = L * h
  BY <1>2, <1>3, <1>4 DEF Filled
<1>6. (L * h) % L = 0
  OBVIOUS
<1> QED
  BY <1>1, <1>4, <1>5, <1>6

\* The types of the film: no code has more bits than it is said to have, and
\* every bit that encode_bits sets was free (mdec.c:226-276).
THEOREM FilmTypeCorrect == FilmSpec => []FilmTypeOK
<1>1. FilmInv /\ CoderInv => FrameTypeOK
  <2> SUFFICES ASSUME FilmInv, CoderInv PROVE FrameTypeOK
    OBVIOUS
  <2>1. stage \in {"none", "reduce", "encode", "end", "done", "trap"}
    BY DEF FilmInv, Encoding
  <2>2. /\ at \in 1 .. Len(blocks) + 1 /\ hwords \in Nat /\ hwords % 16 = 0
        /\ codes \in Seq(CodeWords) /\ Packed(packer)
    BY DEF CoderInv
  <2>3. ASSUME NEW i \in 1 .. Len(codes)
        PROVE  codes[i][1] \in 1 .. 22 /\ codes[i][2] \in 0 .. Pow(codes[i][1]) - 1
    <3>1. codes[i] \in CodeWords
      BY <2>2
    <3> QED
      BY <3>1 DEF CodeWords
  <2>4. packer \in Packers /\ packer.value % Pow(packer.left) = 0
    BY <2>2, FreeBits DEF Packed
  <2> QED
    BY ONLY <2>1, <2>2, <2>3, <2>4, Zenon DEF FrameTypeOK, Packers, Pow
<1>2. FilmSpec => []CoderInv
  BY CoderStarts, CoderSteps, FilmHolds, PTL DEF FilmSpec
<1>3. FilmSpec => []TypeOK
  BY FilmInOrder, PTL
<1>4. FilmSpec => []FrameTypeOK
  BY <1>1, <1>2, FilmHolds, PTL
<1> QED
  BY <1>3, <1>4, PTL DEF FilmTypeOK
-----------------------------------------------------------------------------
(* The words of a frame. *)

\* The first n words, filled up with zeros, and those of some sectors.
FilledUp(n) == [i \in 1 .. n |-> Word(unmuxedWords, i)]
Dealt == IF blockIndex = 0 THEN <<>> ELSE gathered

\* Until the next frame's words are there, the sectors have this one's; all of
\* them will have room.
DealtInv ==
  /\ stage \notin {"done", "trap"} /\ blockIndex > 0 => gathered = FilledUp(SectorWords * blockIndex)
  /\ stage = "done" => Len(unmuxedWords) <= SectorWords * room
  /\ stage = "none" /\ blockCount > 0 => Len(unmuxedWords) <= SectorWords * blockCount

LEMMA Joined ==
  ASSUME NEW m \in Nat, NEW n \in Nat, NEW X, NEW f \in [1 .. m + n -> X]
  PROVE  [i \in 1 .. m |-> f[i]] \o [i \in 1 .. n |-> f[m + i]] = f
<1>0. PICK s, t : s = [i \in 1 .. m |-> f[i]] /\ t = [i \in 1 .. n |-> f[m + i]]
  OBVIOUS
<1>1. \A i \in 1 .. m : i \in 1 .. m + n
  OBVIOUS
<1>2. \A i \in 1 .. n : m + i \in 1 .. m + n
  OBVIOUS
<1>3. s \in [1 .. m -> X] /\ t \in [1 .. n -> X]
  BY <1>0, <1>1, <1>2
<1>4. s \in Seq(X) /\ Len(s) = m /\ t \in Seq(X) /\ Len(t) = n
  BY <1>3, LengthOf
<1>5. f \in Seq(X) /\ Len(f) = m + n
  BY LengthOf
<1>6. /\ s \o t \in Seq(X) /\ Len(s \o t) = m + n
      /\ \A i \in 1 .. m + n : (s \o t)[i] = IF i <= m THEN s[i] ELSE t[i - m]
  BY <1>4, ConcatProperties
<1>7. ASSUME NEW i \in 1 .. m + n PROVE (s \o t)[i] = f[i]
  <2>1. CASE i <= m
    <3>1. i \in 1 .. m
      BY <2>1
    <3> QED
      BY <1>0, <1>6, <2>1, <3>1
  <2>2. CASE ~(i <= m)
    <3>1. i - m \in 1 .. n /\ m + (i - m) = i
      BY <2>2
    <3>2. t[i - m] = f[i]
      BY <1>0, <3>1
    <3> QED
      BY <1>6, <2>2, <3>2
  <2> QED
    BY <2>1, <2>2
<1>8. s \o t = [i \in 1 .. m + n |-> (s \o t)[i]]
  <2>1. PICK q : q = s \o t
    OBVIOUS
  <2>2. q \in Seq(X) /\ Len(q) = m + n
    BY <1>6, <2>1, Zenon
  <2>3. q = [i \in 1 .. m + n |-> q[i]]
    BY <2>2
  <2> QED
    BY <2>1, <2>3, Zenon
<1>9. f = [i \in 1 .. m + n |-> f[i]]
  OBVIOUS
<1>10. s \o t = f
  BY <1>7, <1>8, <1>9
<1> QED
  BY <1>0, <1>10, Zenon

\* A sector more.
LEMMA SectorDealt ==
  ASSUME NEW k \in Nat, NEW g, g = FilledUp(SectorWords * k), k = blockIndex
  PROVE  g \o Payload = FilledUp(SectorWords * (k + 1))
<1>1. PICK n \in Nat : n = SectorWords
  BY FrameParams
<1>2. PICK m \in Nat : m = n * k /\ k * n = m /\ n * (k + 1) = m + n
  <2>1. n * k \in Nat /\ k * n = n * k /\ n * (k + 1) = n * k + n
    OBVIOUS
  <2> QED
    BY <2>1
<1>3. PICK f : f = FilledUp(m + n)
  OBVIOUS
<1>4. PICK X : X = {f[i] : i \in 1 .. m + n}
  OBVIOUS
<1>5. DOMAIN f = 1 .. m + n /\ \A i \in 1 .. m + n : f[i] = Word(unmuxedWords, i)
  BY <1>3 DEF FilledUp
<1>6. f \in [1 .. m + n -> X]
  <2>1. f = [i \in 1 .. m + n |-> f[i]]
    BY <1>3, <1>5 DEF FilledUp
  <2> QED
    BY <1>4, <2>1
<1>7. g = [i \in 1 .. m |-> f[i]]
  <2>1. g = [i \in 1 .. m |-> Word(unmuxedWords, i)]
    BY <1>1, <1>2 DEF FilledUp
  <2>2. \A i \in 1 .. m : f[i] = Word(unmuxedWords, i)
    BY <1>5
  <2> QED
    BY <2>1, <2>2
<1>8. Payload = [i \in 1 .. n |-> f[m + i]]
  <2>1. Payload = [i \in 1 .. n |-> Word(unmuxedWords, k * n + i)]
    BY <1>1 DEF Payload, Word
  <2>2. \A i \in 1 .. n : f[m + i] = Word(unmuxedWords, k * n + i)
    <3>1. \A i \in 1 .. n : m + i \in 1 .. m + n
      OBVIOUS
    <3> QED
      BY <1>2, <1>5, <3>1
  <2> QED
    BY <2>1, <2>2
<1>9. g \o Payload = f
  <2>1. PICK p : p = Payload
    OBVIOUS
  <2>2. p = [i \in 1 .. n |-> f[m + i]]
    BY <1>8, <2>1, Zenon
  <2>3. [i \in 1 .. m |-> f[i]] \o [i \in 1 .. n |-> f[m + i]] = f
    BY <1>6, Joined
  <2>4. g \o p = f
    BY <1>7, <2>2, <2>3, Zenon
  <2> QED
    BY <2>1, <2>4, Zenon
<1> QED
  BY <1>1, <1>2, <1>3, <1>9

\* The words with the header before them.
LEMMA HeaderAndWords ==
  ASSUME NEW s, Packed(s), NEW h \in Int
  PROVE  Len(<<h, 14336, 1, 2>> \o s.words) = 4 + Len(s.words)
<1>1. s.words \in Seq(Words)
  BY DEF Packed, Packers
<1>2. PICK c : c = 14336
  OBVIOUS
<1>3. PICK hd : hd = <<h, c, 1, 2>>
  OBVIOUS
<1>4. hd \in Seq({h, c, 1, 2}) /\ Len(hd) = 4
  BY <1>3
<1>5. Len(hd \o s.words) = 4 + Len(s.words)
  <2>1. PICK ws \in Seq(Words) : ws = s.words
    BY <1>1
  <2>2. PICK Y : Y = {h, c, 1, 2} \cup Words
    OBVIOUS
  <2>3. hd \in Seq(Y) /\ ws \in Seq(Y)
    BY <1>4, <2>2
  <2>4. Len(hd \o ws) = Len(hd) + Len(ws)
    BY <2>3, ConcatProperties
  <2> QED
    BY <1>4, <2>1, <2>4
<1> QED
  BY <1>2, <1>3, <1>5

LEMMA DealtStarts == FilmInit => DealtInv
<1> SUFFICES ASSUME FilmInit PROVE DealtInv
  OBVIOUS
<1>1. stage = "none" /\ blockIndex = 0 /\ blockCount = 0
  BY DEF FilmInit, FrameInit, Init
<1> QED
  BY <1>1 DEF DealtInv

LEMMA WriteSectorDeals ==
  ASSUME FilmInv, DealtInv, WriteSector
  PROVE  DealtInv'
<1>1. /\ pc = "video" /\ Len(group) < Run /\ blockIndex < blockCount
      /\ blockIndex' = blockIndex + 1 /\ blockCount' = blockCount
      /\ gathered' = (IF blockIndex = 0 THEN <<>> ELSE gathered) \o Payload
      /\ UNCHANGED <<stage, room, packer, unmuxedWords>>
  BY DEF WriteSector, VideoSector, frameVars
<1>2. blockIndex \in Nat /\ blockCount \in Nat
  <2>1. Types
    BY DEF FilmInv, MuxInv
  <2> QED
    BY <2>1, MuxAssumption DEF Types
<1>3. stage = "none"
  BY <1>1, <1>2 DEF FilmInv, Encoding, Waiting
<1>4. PICK g : g = IF blockIndex = 0 THEN <<>> ELSE gathered
  OBVIOUS
<1>5. g = FilledUp(SectorWords * blockIndex)
  <2>1. CASE blockIndex = 0
    <3>1. SectorWords * blockIndex = 0 /\ 1 .. 0 = {}
      BY <2>1, FrameParams
    <3>2. FilledUp(0) = <<>>
      BY <3>1 DEF FilledUp
    <3> QED
      BY <1>4, <2>1, <3>1, <3>2
  <2>2. CASE blockIndex # 0
    <3>1. blockIndex > 0
      BY <1>2, <2>2
    <3> QED
      BY <1>3, <1>4, <2>2, <3>1 DEF DealtInv
  <2> QED
    BY <2>1, <2>2
<1>6. gathered' = FilledUp(SectorWords * (blockIndex + 1))
  <2>1. g \o Payload = FilledUp(SectorWords * (blockIndex + 1))
    BY <1>2, <1>5, SectorDealt
  <2> QED
    BY <1>1, <1>4, <2>1, Zenon
<1>7. gathered' = FilledUp(SectorWords * blockIndex)'
  BY <1>1, <1>6 DEF FilledUp
<1>8. (stage = "none" /\ blockCount > 0 => Len(unmuxedWords) <= SectorWords * blockCount)'
  BY <1>1 DEF DealtInv
<1>9. (stage # "done")'
  BY <1>1, <1>3
<1> QED
  BY <1>7, <1>8, <1>9 DEF DealtInv

LEMMA EndFrameDeals ==
  ASSUME CoderInv, EndFrame
  PROVE  DealtInv'
<1>1. /\ packer' = Flush(packer) /\ room' = room
      /\ stage' = IF Fits(packer') THEN "done" ELSE "trap"
      /\ unmuxedWords' = <<hwords \div 16, 14336, 1, 2>> \o packer'.words
  BY DEF EndFrame
<1>2. Packed(packer')
  <2>1. packer \in Packers
    BY DEF CoderInv, Packed
  <2> QED
    BY <1>1, <2>1, FlushPacked
<1>3. Len(unmuxedWords') = 4 + Len(packer'.words)
  <2>1. hwords \div 16 \in Int
    BY Euclid DEF CoderInv
  <2>2. PICK p : p = packer' /\ Packed(p)
    BY <1>2
  <2>3. Len(<<hwords \div 16, 14336, 1, 2>> \o p.words) = 4 + Len(p.words)
    BY <2>1, <2>2, HeaderAndWords
  <2> QED
    BY <1>1, <2>2, <2>3
<1>4. stage' = "done" => Len(unmuxedWords') <= SectorWords * room'
  BY <1>1, <1>3 DEF Fits
<1>5. stage' \in {"done", "trap"}
  BY <1>1
<1> QED
  BY <1>4, <1>5 DEF DealtInv

\* What comes before the end of a frame leaves the last one's words alone.
LEMMA CodingDeals ==
  ASSUME DealtInv, UNCHANGED <<gathered, unmuxedWords, blockIndex, blockCount>>,
         stage \notin {"done", "trap"}, stage' \notin {"none", "done"}
  PROVE  DealtInv'
<1>1. (stage \notin {"done", "trap"} /\ blockIndex > 0 => gathered = FilledUp(SectorWords * blockIndex))'
  BY DEF DealtInv, FilledUp
<1> QED
  BY <1>1 DEF DealtInv

LEMMA DealtSteps == FilmInv /\ CoderInv /\ DealtInv /\ [FilmNext]_filmVars => DealtInv'
<1> SUFFICES ASSUME FilmInv, CoderInv, DealtInv, [FilmNext]_filmVars PROVE DealtInv'
  OBVIOUS
<1>1. CASE Multiplex \/ UNCHANGED filmVars
  <2>1. UNCHANGED <<stage, gathered, unmuxedWords, room, blockIndex, blockCount>>
    BY <1>1 DEF Multiplex, PollAudio, PollVideo, EndOfFile, BeginGroup, WriteGroup,
                filmVars, vars, frame, frameVars
  <2> QED
    BY <2>1 DEF DealtInv, FilledUp
<1>2. CASE WriteSector
  BY <1>2, WriteSectorDeals
<1>3. CASE StartFrame
  <2>1. /\ stage = "none" /\ stage' = "reduce"
        /\ UNCHANGED <<gathered, unmuxedWords, blockIndex, blockCount>>
    BY <1>3 DEF StartFrame, BeginFrame, vars, frame
  <2> QED
    BY <2>1, CodingDeals
<1>4. CASE EncodeStep
  <2>1. UNCHANGED <<gathered, blockIndex, blockCount>>
    BY <1>4 DEF EncodeStep, vars, frame
  <2>2. CASE EndFrame
    BY <2>2, EndFrameDeals
  <2>3. CASE Reduce \/ EncodeBlock \/ EncodeBits \/ EndMark
    <3>1. /\ stage \in {"reduce", "encode", "end"} /\ stage' \in {"reduce", "encode", "end", "trap"}
          /\ UNCHANGED unmuxedWords
      BY <2>3 DEF Reduce, EncodeBlock, EncodeBits, EndMark
    <3> QED
      BY <2>1, <3>1, CodingDeals
  <2> QED
    BY <1>4, <2>2, <2>3 DEF EncodeStep, FrameStep
<1>5. CASE FrameReady
  <2>1. /\ pc = "video" /\ Len(group) < Run /\ blockIndex >= blockCount
        /\ blockCount' = Blocks /\ blockIndex' = 0
    BY <1>5 DEF FrameReady, NextFrame
  <2>2. stage = "done" /\ stage' = "none" /\ UNCHANGED unmuxedWords
    <3>1. frames # <<>>
      BY <2>1, NextPicture
    <3> QED
      BY <1>5, <3>1 DEF FrameReady, TakeFrame
  <2>3. room = Blocks
    BY <2>2 DEF FilmInv, Encoding, Waiting
  <2>4. Len(unmuxedWords') <= SectorWords * blockCount'
    BY <2>1, <2>2, <2>3 DEF DealtInv
  <2>5. ~(blockIndex' > 0) /\ stage' # "done"
    BY <2>1, <2>2
  <2> QED
    BY <2>4, <2>5 DEF DealtInv
<1> QED
  BY <1>1, <1>2, <1>3, <1>4, <1>5 DEF FilmNext

\* encode_block_str copies a frame's words into its sectors in order, all of
\* them, each once, and nothing else (mdec.c:575-644).
THEOREM WordsDealtHolds == FilmSpec => []WordsDealt
<1>1. FilmInv /\ DealtInv => WordsDealt
  <2> SUFFICES ASSUME FilmInv, DealtInv, Full
               PROVE  /\ Len(unmuxedWords) <= SectorWords * blockCount
                      /\ gathered = [i \in 1 .. SectorWords * blockCount |-> Word(unmuxedWords, i)]
    BY DEF WordsDealt
  <2>1. stage = "none" /\ blockIndex > 0 /\ blockIndex = blockCount
    BY DEF Full
  <2> QED
    BY <2>1 DEF DealtInv, FilledUp
<1>2. FilmSpec => []DealtInv
  <2>1. FilmSpec => []CoderInv
    BY CoderStarts, CoderSteps, FilmHolds, PTL DEF FilmSpec
  <2> QED
    BY <2>1, DealtStarts, DealtSteps, FilmHolds, PTL DEF FilmSpec
<1> QED
  BY <1>1, <1>2, FilmHolds, PTL
=============================================================================
