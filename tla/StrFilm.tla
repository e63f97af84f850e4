-------------------------------- MODULE StrFilm --------------------------------
(***************************************************************************)
(* A film from the decoder to the console: the multiplexer, StrMux, with   *)
(* the frames it has encoded, MdecFrame, and a player that gathers the     *)
(* sectors of a frame and decodes them, as the console does.               *)
(***************************************************************************)
EXTENDS StrMux, MdecFrame

CONSTANT Films   \* the pictures of a film, in their order

ASSUME FilmAssumption ==
  /\ SectorWords * MaxUnmuxed > 4
  /\ \A f \in Films : \A n \in 1 .. MaxFrames :
       /\ IsPicture(f[n])
       /\ 2 * Len(f[n]) <= CodesPerSector * (BaseOverflow \div OverflowDen)

VARIABLES
  film,     \* the pictures
  gathered  \* player: the words of the frame's sectors so far

filmVars == <<vars, frameVars, film, gathered>>

FilmInit == Init /\ FrameInit /\ film \in Films /\ gathered = <<>>

\* encode_block_str needs the next frame, and has it encoded.
StartFrame ==
  /\ pc = "video" /\ Len(group) < Run /\ blockIndex >= blockCount
  /\ frames # <<>>
  /\ BeginFrame(film[Head(frames)], Blocks)
  /\ UNCHANGED <<vars, film, gathered>>

EncodeStep == FrameStep /\ UNCHANGED <<vars, film, gathered>>

FrameReady == (frames = <<>> \/ TakeFrame) /\ NextFrame /\ UNCHANGED <<film, gathered>>

\* The words of a sector; the last one of a frame is filled up with zeros.
Payload ==
  [i \in 1 .. SectorWords |->
     LET n == blockIndex * SectorWords + i IN
     IF n <= Len(unmuxedWords) THEN unmuxedWords[n] ELSE 0]

WriteSector ==
  /\ VideoSector
  /\ gathered' = (IF blockIndex = 0 THEN <<>> ELSE gathered) \o Payload
  /\ UNCHANGED <<frameVars, film>>

Multiplex ==
  /\ \/ \E n \in PacketSizes : PollAudio(n)
     \/ PollVideo
     \/ EndOfFile
     \/ BeginGroup \/ WriteGroup
  /\ UNCHANGED <<frameVars, film, gathered>>

FilmNext == Multiplex \/ StartFrame \/ EncodeStep \/ FrameReady \/ WriteSector

\* The reduction runs on: it is a loop that waits for nothing.
FilmSpec == FilmInit /\ [][FilmNext]_filmVars /\ WF_frameVars(Reduce)
-----------------------------------------------------------------------------
(***************************************************************************)
(* The player: a decoder of the words, after the code table.               *)
(***************************************************************************)
\* The number in the n bits, at most 16, from bit i on: in one word, or at the
\* end of one and the beginning of the next.
Word(ws, j) == IF j <= Len(ws) THEN ws[j] ELSE 0
Number(ws, i, n) ==
  LET j    == (i - 1) \div 16 + 1
      left == 16 - ((i - 1) % 16)
  IN IF n <= left
     THEN (Word(ws, j) \div 2^(left - n)) % 2^n
     ELSE (Word(ws, j) % 2^left) * 2^(n - left) + Word(ws, j + 1) \div 2^(16 + left - n)

Signed(n) == IF n < 512 THEN n ELSE n - 1024

\* The table, as a player has it: its codes and their runs.
CodeTable ==
  UNION {{[length |-> g[1], code |-> g[2] + n - 1, zeroes |-> g[3][n][1], level |-> g[3][n][2]] :
            n \in DOMAIN g[3]} : g \in Range(HuffmanLookup)}

\* The run the bits from i on stand for: an escape, or the run of the table
\* whose code they begin with, if there is one, with a sign.
RunsAt(ws, i) ==
  IF Number(ws, i, 6) = 1
  THEN {[zeroes |-> Number(ws, i + 6, 6), level |-> Signed(Number(ws, i + 12, 10)), length |-> 22]}
  ELSE {[zeroes |-> c.zeroes, length |-> c.length + 1,
         level  |-> IF Number(ws, i + c.length, 1) = 1 THEN -c.level ELSE c.level] :
           c \in {d \in CodeTable : Number(ws, i, d.length) = d.code}}

\* The AC coefficients from bit i on, after the scan's place p: the block ends
\* in the mark of its end, or in what no code explains.
AcAt(ws, start) ==
  LET Ac[i \in Nat, p \in 0 .. Size - 1] ==
        LET rest == {[Ac[i + r.length, p + r.zeroes + 1] EXCEPT
                        !.ac = (ZagzigTable[p + r.zeroes + 1] :> r.level) @@ @] :
                      r \in {x \in RunsAt(ws, i) : p + x.zeroes + 1 < Size}}
        IN IF Number(ws, i, 2) = 2 THEN [ac |-> <<>>, next |-> i + 2]
           ELSE IF Cardinality(rest) = 1 THEN CHOOSE d \in rest : TRUE
           ELSE [ac |-> <<>>, next |-> i]
  IN Ac[start, 0]

\* The n blocks from bit i on, and the place behind them.
BlocksAt(ws, i, n) ==
  LET Decoded[m \in 0 .. n] ==
        IF m = 0 THEN [blocks |-> <<>>, next |-> i]
        ELSE LET d == Decoded[m - 1]
                 b == AcAt(ws, d.next + 10)
             IN [blocks |-> Append(d.blocks, [dc |-> Signed(Number(ws, d.next, 10)), ac |-> b.ac]),
                 next   |-> b.next]
  IN Decoded[n]

Quantised(b) == [dc |-> Level(b, 0), ac |-> [k \in DOMAIN b.ac |-> Level(b, k)]]

\* The hwords the chip is fed: each block is filled up to a multiple of 16.
Fed(bs) == FoldLeft(LAMBDA n, b : Padded(n + Cardinality(DOMAIN b.ac) + 2), 0, bs)
-----------------------------------------------------------------------------
(***************************************************************************)
(* Properties                                                              *)
(***************************************************************************)
\* The types of the multiplexer and of the coder.
FilmTypeOK == TypeOK /\ FrameTypeOK

Picture == film[frameIndex]
Full    == pc = "video" /\ stage = "none" /\ blockIndex > 0 /\ blockIndex = blockCount

\* The sectors of a frame have its words, all of them and nothing of another
\* frame, and zeros behind them.
WordsDealt ==
  Full =>
    /\ Len(unmuxedWords) <= SectorWords * blockCount
    /\ gathered = [i \in 1 .. SectorWords * blockCount |-> Word(unmuxedWords, i)]

\* What the player decodes from a frame's sectors, under the headers that name
\* its chunks, is the picture that was encoded, quantised, with no bit lost in
\* packing or dealing: the blocks, the mark of their end, and the length the
\* console has to make room for.  No assertion of flush_bits fails, as a
\* frame's sectors have room here for its codes, were all of them escapes: a
\* matter of the sizes, not of the code.
FramesPlay ==
  /\ stage # "trap" /\ WordsDealt
  /\ Full =>
       LET d == BlocksAt(gathered, 65, Len(blocks)) IN
       /\ d.blocks = [n \in DOMAIN blocks |-> Quantised(blocks[n])]
       /\ Number(gathered, d.next, 12) = 4 * 511 + 2
       /\ 16 * gathered[1] = Padded(Fed(blocks) + 2)

\* The blocks are the picture's, but for coefficients that have been shed.
PartOf(bs, picture) ==
  /\ DOMAIN bs = DOMAIN picture
  /\ \A n \in DOMAIN bs : bs[n].dc = picture[n].dc
  /\ Present(bs) \subseteq Present(picture)
  /\ \A c \in Present(bs) : bs[c[1]].ac[c[2]] = picture[c[1]].ac[c[2]]

\* A frame fits its sectors, and is reduced by no more than it must: as many
\* codes are left as are allowed, none of the picture's is shed in vain, and
\* what is shed is smaller, in steps of 8, than what is kept.
Rank(x) == (Magnitude(x) + Step - 1) \div Step
ShedLeast ==
  Full =>
    LET kept  == Present(blocks)
        shed  == Present(Picture) \ kept
        limit == CodesPerSector * blockCount
    IN /\ PartOf(blocks, Picture)
       /\ Codes(blocks) = IF Codes(Picture) < limit THEN Codes(Picture) ELSE limit
       /\ \A c \in kept, d \in shed :
            Rank(Picture[d[1]].ac[d[2]]) <= Rank(Picture[c[1]].ac[c[2]])

\* The reduction ends: the limit rises until enough coefficients are below it.
ReductionEnds == (stage = "reduce") ~> (stage = "encode")
=============================================================================
