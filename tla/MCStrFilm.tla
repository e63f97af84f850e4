------------------------------- MODULE MCStrFilm -------------------------------
(***************************************************************************)
(* StrFilm for TLC: the code's tables, a macroblock to a picture, sectors  *)
(* of 4 words.                                                             *)
(***************************************************************************)
EXTENDS StrFilm

\* The runs of the table, with either sign.
Tabled == FlattenSeq([g \in 1 .. Len(HuffmanLookup) |-> HuffmanLookup[g][3]])

\* Runs without a code: too long, too high, the highest levels, and beyond.
Escapes ==
  << <<0, 41>>, <<0, -41>>, <<0, 511>>, <<0, -512>>, <<0, 600>>, <<0, -600>>, <<1, 19>>, <<31, -2>>,
     <<32, 1>>, <<32, -1>>, <<62, 1>>, <<62, -512>>, <<16, 3>>, <<7, 3>>, <<2, -6>>, <<27, 256>> >>

Wanted == Tabled \o [n \in 1 .. Len(Tabled) |-> <<Tabled[n][1], -Tabled[n][2]>>] \o Escapes

\* A block of levels: the n-th run there is, a shorter one behind it, and a
\* DC value, also one that is clamped.  Coefficients need not be multiples.
Raw(l, k) == l * QuantDec[k + 1] + (IF l < 0 THEN -1 ELSE 1) * (QuantDec[k + 1] \div 3)
MCBlock(n) ==
  LET r == Wanted[(n % Len(Wanted)) + 1]
      t == Wanted[((7 * n) % Len(Wanted)) + 1]
      p == r[1] + 1
      q == p + (t[1] % 5) + 1
  IN [dc |-> 2 * (((37 * n) % 1100) - 550),
      ac |-> ZagzigTable[p] :> Raw(r[2], ZagzigTable[p]) @@ IF q < 64 THEN ZagzigTable[q] :> Raw(t[2], ZagzigTable[q]) ELSE <<>>]

Film(j) == [n \in 1 .. MaxFrames |-> [b \in 1 .. 6 |-> MCBlock(6 * (MaxFrames * j + n) + b)]]

\* Pictures with too many coefficients, several of a kind among them, beside
\* pictures with none.
Crowded(n, b) ==
  [dc |-> 10 * b,
   ac |-> [k \in 1 .. 1 + ((n + b) % 6) |->
             (IF (k + b) % 2 = 0 THEN 1 ELSE -1) * (QuantDec[k + 1] + ((n * k * b) % 5) * 6)]]
Crowd(j) ==
  [n \in 1 .. MaxFrames |->
     [b \in 1 .. 6 |-> IF (n + j) % 4 = 0 THEN [dc |-> 1, ac |-> <<>>] ELSE Crowded(n + j, b)]]

MCFilms == {Film(j) : j \in 0 .. 4} \cup {Crowd(j) : j \in 0 .. 2}
=============================================================================
