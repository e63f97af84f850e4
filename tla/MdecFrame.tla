------------------------------- MODULE MdecFrame -------------------------------
(***************************************************************************)
(* How psxavenc encodes a picture (encode_frame_str in                     *)
(* src/toolsrc/psxavenc/mdec.c): coefficients are shed until few enough    *)
(* are left, the rest is quantised, coded as runs of zeros with a Huffman  *)
(* table, and packed into words of 16 bits.                                *)
(*                                                                         *)
(* A picture is what the transform makes of it: the sequence of its        *)
(* blocks, each with its DC value and the function of its AC coefficients  *)
(* that are not 0.  Colour conversion and transform are left out.          *)
(***************************************************************************)
EXTENDS MdecTables

CONSTANTS
  MacroBlock,      \* blocks of a macroblock, 6
  CodesPerSector,  \* 1025
  SectorWords,     \* 1008: words of a frame that go into a sector
  Step             \* 8: luma_reduce_mul, chroma_reduce_mul

ASSUME FrameAssumption == {MacroBlock, CodesPerSector, SectorWords, Step} \subseteq Nat \ {0}

VARIABLES
  stage,    \* none, reduce, encode, done or trap: an assertion has failed
  blocks,   \* dct_block_lists
  room,     \* frame_block_count: the frame's sectors
  minVal,   \* min_val
  toShed,   \* values_to_shed
  at,       \* the block to be encoded
  codes,    \* the calls of encode_bits that are to follow for it
  packer,   \* bits_value, bits_left and the words behind unmuxed's header
  hwords,   \* uncomp_hwords_used
  unmuxedWords   \* unmuxed, finished

frameVars == <<stage, blocks, room, minVal, toShed, at, codes, packer, hwords, unmuxedWords>>

Size == 64   \* coefficients of a block

IsPicture(bs) ==
  /\ Len(bs) \in Nat /\ DOMAIN bs = 1 .. Len(bs)
  /\ \A n \in DOMAIN bs :
       /\ bs[n].dc \in Int
       /\ DOMAIN bs[n].ac \subseteq 1 .. Size - 1
       /\ \A k \in DOMAIN bs[n].ac : bs[n].ac[k] \in Int \ {0}

Empty == [words |-> <<>>, value |-> 0, left |-> 16]

FrameInit ==
  /\ stage = "none" /\ blocks = <<>> /\ room = 0
  /\ minVal = 0 /\ toShed = 0 /\ at = 1 /\ codes = <<>>
  /\ packer = Empty /\ hwords = 0 /\ unmuxedWords = <<>>

-----------------------------------------------------------------------------
(* Bits. *)

\* flush_bits: a word is written if it has any bits.
Flush(s) ==
  [words |-> IF s.left < 16 THEN Append(s.words, s.value) ELSE s.words, value |-> 0, left |-> 16]

\* The end of encode_bits: the bits that are left go where there is room.
Plop(s, n, v) ==
  [words |-> s.words, value |-> s.value + v * 2^(s.left - n), left |-> s.left - n]

\* The loop of encode_bits: as many bits as there is room for fill the word,
\* which is written.  As no code has more than 22 bits it is run at most twice,
\* and once for one of 16.
Trunc(s, n, v) == Flush([s EXCEPT !.value = @ + v \div 2^(n - s.left)])
Fill(s, n, v) ==
  LET rest == n - s.left
      t    == Trunc(s, n, v)
      left == v % 2^rest
  IN IF n <= s.left THEN Plop(s, n, v)
     ELSE IF rest <= 16 THEN Plop(t, rest, left)
     ELSE Plop(Trunc(t, rest, left), rest - 16, left % 2^(rest - 16))

\* encode_bits: a full word is written first.  One that the loop has filled from
\* the start counts as an empty one in Flush, which is why codes of more than 16
\* bits are split (mutant: they are not).
PutWhole(s, n, v) == Fill(IF s.left = 0 THEN Flush(s) ELSE s, n, v)
Put(s, n, v) ==
  IF n > 16 THEN PutWhole(PutWhole(s, n - 16, v \div 2^16), 16, v % 2^16) ELSE PutWhole(s, n, v)

-----------------------------------------------------------------------------
(* Coefficients. *)

Magnitude(x) == IF x < 0 THEN -x ELSE x

\* Division rounds towards 0, and the quotient is clamped.
Quotient(x, q) == IF x < 0 THEN -(-x \div q) ELSE x \div q
Clamped(x) == IF x < -512 THEN -512 ELSE IF x > 511 THEN 511 ELSE x
Level(b, k) == Clamped(Quotient(IF k = 0 THEN b.dc ELSE b.ac[k], QuantDec[k + 1]))

\* zero_rle_data: each level, and the zeros before it.
Coded(b) == {i \in 1 .. Size - 1 : ZagzigTable[i] \in DOMAIN b.ac /\ Level(b, ZagzigTable[i]) # 0}
Runs(b) ==
  LET coded == Coded(b)
      p == [n \in 1 .. Cardinality(coded) |->
              CHOOSE i \in coded : Cardinality({j \in coded : j < i}) = n - 1]
  IN [n \in DOMAIN p |-> [zeroes |-> p[n] - (IF n = 1 THEN 0 ELSE p[n - 1]) - 1,
                          level  |-> Level(b, ZagzigTable[p[n]])]]

\* encode_ac_value: the code of the table and a sign, or an escape; as the
\* arguments of encode_bits.
RunCode(r) ==
  LET k == <<r.zeroes, Magnitude(r.level)>> IN
  IF k \in DOMAIN HuffmanMap
  THEN <<HuffmanMap[k][1] + 1, 2 * HuffmanMap[k][2] + (IF r.level < 0 THEN 1 ELSE 0)>>
  ELSE <<6 + 16, 2^16 + 2^10 * r.zeroes + (r.level % 2^10)>>

\* encode_dct_block: DC value, runs, end of block.
BlockCodes(b) ==
  LET runs == Runs(b) IN
  << <<10, Level(b, 0) % 2^10>> >> \o [n \in DOMAIN runs |-> RunCode(runs[n])] \o << <<2, 2>> >>

Padded(n) == ((n + 15) \div 16) * 16

\* What flush_bits asserts: the header and the words are in the frame's room.
Fits(s) == 4 + Len(s.words) <= SectorWords * room

-----------------------------------------------------------------------------
(* A frame. *)

BeginFrame(picture, sectors) ==
  /\ stage = "none"
  /\ stage' = "reduce"
  /\ blocks' = picture /\ room' = sectors
  /\ minVal' = 0 /\ toShed' = 0 /\ at' = 1 /\ codes' = <<>>
  /\ packer' = [packer EXCEPT !.words = <<>>] /\ hwords' = 0
  /\ UNCHANGED unmuxedWords

\* The coefficients in the order in which reduce_dct_block comes to them:
\* macroblocks forward, their blocks backward.
Present(bs) == UNION {{<<n, k>> : k \in DOMAIN bs[n].ac} : n \in DOMAIN bs}
Macro(c) == (c[1] - 1) \div MacroBlock
Before(c, d) ==
  \/ Macro(c) < Macro(d)
  \/ Macro(c) = Macro(d) /\ c[1] > d[1]
  \/ c[1] = d[1] /\ c[2] < d[2]

Small(bs) == {c \in Present(bs) : Magnitude(bs[c[1]].ac[c[2]]) < minVal * Step + 1}

\* Those that are shed: the first ones that are small (mutant: all of them).
ShedAll == Small(blocks)
Shed    == LET small == Small(blocks) IN
           {c \in small : Cardinality({d \in small : Before(d, c)}) < toShed}

Without(bs, cs) ==
  [n \in DOMAIN bs |->
     [dc |-> bs[n].dc,
      ac |-> [k \in {m \in DOMAIN bs[n].ac : <<n, m>> \notin cs} |-> bs[n].ac[k]]]]

\* accum: the codes of the picture, DC and end of block included.
Codes(bs) == Cardinality(Present(bs)) + 2 * Len(bs)

\* The next limit (mutant: it stays).
SameLimit == minVal
NextLimit == minVal + 1

\* A round of the reduction over all blocks.
Reduce ==
  LET excess == Codes(blocks') - CodesPerSector * room IN
  /\ stage = "reduce"
  /\ blocks' = Without(blocks, Shed)
  /\ IF excess <= 0
     THEN stage' = "encode" /\ UNCHANGED <<minVal, toShed>>
     ELSE minVal' = NextLimit /\ toShed' = excess /\ UNCHANGED stage
  /\ UNCHANGED <<room, at, codes, packer, hwords, unmuxedWords>>

\* encode_bits, called for the next code.
EncodeBits ==
  /\ stage \in {"encode", "end"} /\ codes # <<>>
  /\ packer' = Put(packer, Head(codes)[1], Head(codes)[2])
  /\ codes' = Tail(codes)
  /\ stage' = IF Fits(packer') THEN stage ELSE "trap"
  /\ UNCHANGED <<blocks, room, minVal, toShed, at, hwords, unmuxedWords>>

EncodeBlock ==
  /\ stage = "encode" /\ codes = <<>> /\ at <= Len(blocks)
  /\ codes' = BlockCodes(blocks[at])
  /\ hwords' = Padded(hwords + Len(Runs(blocks[at])) + 2)
  /\ at' = at + 1
  /\ UNCHANGED <<stage, blocks, room, minVal, toShed, packer, unmuxedWords>>

\* The mark of the end.
EndMark ==
  /\ stage = "encode" /\ codes = <<>> /\ at > Len(blocks)
  /\ stage' = "end"
  /\ codes' = << <<10, 511>>, <<2, 2>> >>
  /\ hwords' = Padded(hwords + 2)
  /\ UNCHANGED <<blocks, room, minVal, toShed, at, packer, unmuxedWords>>

\* The last word is flushed, and the header put before the words.
EndFrame ==
  /\ stage = "end" /\ codes = <<>>
  /\ packer' = Flush(packer)
  /\ stage' = IF Fits(packer') THEN "done" ELSE "trap"
  /\ unmuxedWords' = <<hwords \div 16, 14336, 1, 2>> \o packer'.words
  /\ UNCHANGED <<blocks, room, minVal, toShed, at, codes, hwords>>

FrameStep == Reduce \/ EncodeBlock \/ EncodeBits \/ EndMark \/ EndFrame

TakeFrame ==
  /\ stage = "done"
  /\ stage' = "none"
  /\ UNCHANGED <<blocks, room, minVal, toShed, at, codes, packer, hwords, unmuxedWords>>

-----------------------------------------------------------------------------
Words == 0 .. 2^16 - 1

\* The types of the coder: in particular no assertion of encode_bits fails, as
\* a code has no more bits than it is said to have and falls on free ones, and
\* a header's length is whole.
FrameTypeOK ==
  /\ stage \in {"none", "reduce", "encode", "end", "done", "trap"}
  /\ at \in 1 .. Len(blocks) + 1
  /\ hwords \in Nat /\ hwords % 16 = 0
  /\ \A i \in 1 .. Len(codes) : codes[i][1] \in 1 .. 22 /\ codes[i][2] \in 0 .. 2^codes[i][1] - 1
  /\ packer \in [words : Seq(Words), value : Words, left : 0 .. 16]
  /\ packer.value % 2^packer.left = 0
=============================================================================
