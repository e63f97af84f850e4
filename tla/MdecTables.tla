------------------------------ MODULE MdecTables ------------------------------
(***************************************************************************)
(* The tables of src/toolsrc/psxavenc/mdec.c.                              *)
(***************************************************************************)
EXTENDS Integers, Sequences, SequencesExt

\* huffman_lookup, whose codes of one length have consecutive values: the
\* length, the first value, and the runs of zeros and levels.
HuffmanLookup == <<
  <<2, 3,
    <<<<0, 1>>>> >>,
  <<3, 3,
    <<<<1, 1>>>> >>,
  <<4, 4,
    <<<<0, 2>>, <<2, 1>>>> >>,
  <<5, 5,
    <<<<0, 3>>, <<4, 1>>, <<3, 1>>>> >>,
  <<6, 4,
    <<<<7, 1>>, <<6, 1>>, <<1, 2>>, <<5, 1>>>> >>,
  <<7, 4,
    <<<<2, 2>>, <<9, 1>>, <<0, 4>>, <<8, 1>>>> >>,
  <<8, 32,
    <<<<13, 1>>, <<0, 6>>, <<12, 1>>, <<11, 1>>, <<3, 2>>, <<1, 3>>, <<0, 5>>, <<10, 1>>>> >>,
  <<10, 8,
    <<<<16, 1>>, <<5, 2>>, <<0, 7>>, <<2, 3>>, <<1, 4>>, <<15, 1>>, <<14, 1>>, <<4, 2>>>> >>,
  <<12, 16,
    <<<<0, 11>>, <<8, 2>>, <<4, 3>>, <<0, 10>>, <<2, 4>>, <<7, 2>>, <<21, 1>>, <<20, 1>>,
      <<0, 9>>, <<19, 1>>, <<18, 1>>, <<1, 5>>, <<3, 3>>, <<0, 8>>, <<6, 2>>, <<17, 1>>>> >>,
  <<13, 16,
    <<<<10, 2>>, <<9, 2>>, <<5, 3>>, <<3, 4>>, <<2, 5>>, <<1, 7>>, <<1, 6>>, <<0, 15>>,
      <<0, 14>>, <<0, 13>>, <<0, 12>>, <<26, 1>>, <<25, 1>>, <<24, 1>>, <<23, 1>>, <<22, 1>>>> >>,
  <<14, 16,
    <<<<0, 31>>, <<0, 30>>, <<0, 29>>, <<0, 28>>, <<0, 27>>, <<0, 26>>, <<0, 25>>, <<0, 24>>,
      <<0, 23>>, <<0, 22>>, <<0, 21>>, <<0, 20>>, <<0, 19>>, <<0, 18>>, <<0, 17>>, <<0, 16>>>> >>,
  <<15, 16,
    <<<<0, 40>>, <<0, 39>>, <<0, 38>>, <<0, 37>>, <<0, 36>>, <<0, 35>>, <<0, 34>>, <<0, 33>>,
      <<0, 32>>, <<1, 14>>, <<1, 13>>, <<1, 12>>, <<1, 11>>, <<1, 10>>, <<1, 9>>, <<1, 8>>>> >>,
  <<16, 16,
    <<<<1, 18>>, <<1, 17>>, <<1, 16>>, <<1, 15>>, <<6, 3>>, <<16, 2>>, <<15, 2>>, <<14, 2>>,
      <<13, 2>>, <<12, 2>>, <<11, 2>>, <<31, 1>>, <<30, 1>>, <<29, 1>>, <<28, 1>>, <<27, 1>>>> >>
>>

\* init_dct_data: the code of a run and a level.
CodesOf(g) == FoldLeft(LAMBDA f, n : f @@ (g[3][n] :> <<g[1], g[2] + n - 1>>), <<>>, [n \in 1 .. Len(g[3]) |-> n])
HuffmanMap == FoldLeft(LAMBDA f, g : f @@ CodesOf(g), <<>>, HuffmanLookup)

ZagzigTable ==
  <<1, 8, 16, 9, 2, 3, 10, 17, 24, 32, 25, 18, 11, 4, 5, 12,
     19, 26, 33, 40, 48, 41, 34, 27, 20, 13, 6, 7, 14, 21, 28, 35,
     42, 49, 56, 57, 50, 43, 36, 29, 22, 15, 23, 30, 37, 44, 51, 58,
     59, 52, 45, 38, 31, 39, 46, 53, 60, 61, 54, 47, 55, 62, 63>>

QuantDec ==
  <<2, 16, 19, 22, 26, 27, 29, 34, 16, 16, 22, 24, 27, 29, 34, 37,
     19, 22, 26, 27, 29, 34, 34, 38, 22, 22, 26, 27, 29, 34, 37, 40,
     22, 26, 27, 29, 32, 35, 40, 48, 26, 27, 29, 32, 35, 40, 48, 58,
     26, 27, 29, 34, 38, 46, 56, 69, 27, 29, 35, 38, 46, 56, 69, 83>>

\* What is said of the tables' entries elsewhere: codes of up to 22 bits with
\* their sign, and divisors.
ASSUME TableAssumption ==
  /\ \A k \in DOMAIN HuffmanMap :
       HuffmanMap[k][1] \in 1 .. 21 /\ HuffmanMap[k][2] \in 0 .. 2^HuffmanMap[k][1] - 1
  /\ \A n \in 1 .. 64 : QuantDec[n] \in Nat \ {0}
=============================================================================
