---------------------------- MODULE MidiPlayerProofs ----------------------------
(***************************************************************************)
(* The player plays what the file says: the tick arithmetic of             *)
(* orelei_midi_update loses no time, every event is played when it is due, *)
(* and between updates the notes heard are those of the file, for every    *)
(* file and every sequence of updates, tempo changes, resets and loads.    *)
(***************************************************************************)
EXTENDS MidiPlayer, WellFoundedInduction, FiniteSetTheorems, FunctionTheorems, TLAPS

\* The type of everything the arithmetic depends on, and the account.
Account ==
  /\ pc \in {"idle", "play", "trap"}
  /\ file \in Files \cup {Nothing}
  /\ next \in [Tracks -> Nat \ {0}]
  /\ tempo \in Nat /\ accum \in Nat
  /\ elapsed \in Nat /\ charged \in Nat
  /\ elapsed = charged + accum

\* Division with remainder.
LEMMA DivMod ==
  ASSUME NEW a \in Nat, NEW b \in Nat \ {0}
  PROVE  /\ a \div b \in Nat /\ a % b \in Nat
         /\ a = b * (a \div b) + (a % b)
  OBVIOUS

\* Two quotients by t and the last remainder make up what was divided.
LEMMA Recombine ==
  ASSUME NEW t \in Nat, NEW a \in Nat, NEW b \in Nat, NEW q \in Nat, NEW r \in Nat,
         NEW x \in Nat, NEW y \in Nat,
         b = t * q + x, a + x = t * r + y
  PROVE  (q + r) * t + y = b + a
  <1>1. (q + r) * t = t * q + t * r
    OBVIOUS
  <1>2. t * q \in Nat /\ t * r \in Nat
    OBVIOUS
  <1> QED
    BY <1>1, <1>2

\* The ticks of an update at the present tempo and what is left over are worth
\* the time that has passed and what was left over before.
LEMMA AdvanceExact ==
  ASSUME NEW us \in Nat, file.divisions \in Nat, accum \in Nat,
         tempo \in Nat, tempo # 0
  PROVE  /\ Advance(us).ticks \in Nat /\ Advance(us).left \in Nat
         /\ Advance(us).ticks * tempo + Advance(us).left
              = file.divisions * us + accum
  <1>1. PICK base \in Nat : base = file.divisions * us
    OBVIOUS
  <1>2. PICK q \in Nat, x \in Nat :
          q = base \div tempo /\ x = base % tempo /\ base = tempo * q + x
    BY DivMod
  <1>3. PICK r \in Nat, y \in Nat :
          r = (accum + x) \div tempo /\ y = (accum + x) % tempo
            /\ accum + x = tempo * r + y
    <2>1. accum + x \in Nat
      BY <1>2
    <2> QED
      BY <2>1, DivMod
  <1>4. Advance(us) = [ticks |-> q + r, left |-> y]
    BY <1>1, <1>2, <1>3 DEF Advance
  <1>5. (q + r) * tempo + y = base + accum
    BY <1>2, <1>3, Recombine
  <1> QED
    BY <1>1, <1>4, <1>5

LEMMA AccountInit == Init => Account
  <1> SUFFICES ASSUME Init PROVE Account
    OBVIOUS
  <1>1. Tracks = 1 .. 0
    BY DEF Init, Nothing, Tracks
  <1> QED
    BY <1>1, TempoAssumption DEF Init, Account, Nothing

\* A reset rewinds the tracks and touches nothing the account depends on.
LEMMA RewindKeepsAccount ==
  ASSUME Account, NEW f \in Files \cup {Nothing}, Rewind(f)
  PROVE  Account'
  <1>1. next' \in [Tracks' -> Nat \ {0}]
    BY DEF Rewind, Tracks
  <1> QED
    BY <1>1 DEF Account, Rewind

\* An update books the time it is given, tick by tick, or traps.
LEMMA UpdateKeepsAccount ==
  ASSUME Account, NEW us \in Times, Update(us)
  PROVE  Account'
  <1>1. file' = file /\ next' = next /\ tempo' = tempo
    BY DEF Update
  <1>2. Tracks' = Tracks
    BY <1>1 DEF Tracks
  <1>3. CASE tempo = 0
    BY <1>1, <1>2, <1>3 DEF Account, Update
  <1>4. CASE tempo # 0
    <2>1. us \in Nat /\ file.divisions \in Nat
      BY InputAssumption, FilesAssumption DEF Account, Nothing
    <2>2. PICK n \in Nat, l \in Nat :
            /\ n = Advance(us).ticks /\ l = Advance(us).left
            /\ n * tempo + l = file.divisions * us + accum
      BY <1>4, <2>1, AdvanceExact DEF Account
    <2>3. /\ accum' = l
          /\ elapsed' = elapsed + file.divisions * us
          /\ charged' = charged + n * tempo
          /\ pc' = "play"
      BY <1>4, <2>2 DEF Update
    <2>4. PICK worth \in Nat, base \in Nat :
            worth = n * tempo /\ base = file.divisions * us
      BY <2>1, <2>2 DEF Account
    <2>5. elapsed' \in Nat /\ charged' \in Nat /\ elapsed' = charged' + accum'
      <3>1. elapsed' = elapsed + base /\ charged' = charged + worth /\ accum' = l
        BY <2>3, <2>4
      <3>2. worth + l = base + accum
        BY <2>2, <2>4
      <3>3. /\ elapsed \in Nat /\ charged \in Nat /\ accum \in Nat
            /\ elapsed = charged + accum
        BY DEF Account
      <3> QED
        BY <2>2, <3>1, <3>2, <3>3
    <2> QED
      BY <1>1, <1>2, <2>2, <2>3, <2>5 DEF Account
  <1> QED
    BY <1>3, <1>4

\* A tempo event may set any natural; what is left over is kept as it is.
LEMMA PlayEventKeepsAccount ==
  ASSUME Account, PlayEvent
  PROVE  Account'
  <1>1. /\ file' = file /\ pc' = pc /\ accum' = accum
        /\ elapsed' = elapsed /\ charged' = charged
    BY DEF PlayEvent
  <1>2. Tracks' = Tracks
    BY <1>1 DEF Tracks
  <1>3. track \in Tracks /\ next[track] \in Nat \ {0}
    BY DEF PlayEvent, Account
  <1>4. next' \in [Tracks' -> Nat \ {0}]
    BY <1>2, <1>3 DEF PlayEvent, Account
  <1>5. tempo' \in Nat
    <2> DEFINE t == file.tracks[track]
               e == t[next[track]]
    <2>1. file # Nothing
      BY <1>3 DEF Tracks, Nothing
    <2>2. file.tracks \in Seq(Seq(Events) \ {<<>>})
      BY <2>1, FilesAssumption DEF Account
    <2>3. t \in Seq(Events)
      BY <2>2, <1>3 DEF Tracks
    <2>4. next[track] <= Len(t)
      BY DEF PlayEvent
    <2>5. e \in Events
      BY <2>3, <2>4, <1>3
    <2>6. CASE e.kind = "tempo"
      <3>1. e.bytes \in [1 .. 3 -> Byte]
        BY <2>5, <2>6 DEF Events
      <3>2. PICK b \in Nat : b = e.bytes[1]
        BY <3>1, TempoAssumption DEF Byte
      <3>3. tempo' = (b * ByteBase + b) * ByteBase + b
        BY <2>6, <3>2 DEF PlayEvent, ReadTempo
      <3> QED
        BY <3>3, TempoAssumption
    <2>7. CASE e.kind # "tempo"
      BY <2>7 DEF PlayEvent, Account
    <2> QED
      BY <2>6, <2>7
  <1> QED
    BY <1>1, <1>2, <1>4, <1>5 DEF Account

LEMMA AccountStep == Account /\ [Next]_vars => Account'
  <1> SUFFICES ASSUME Account, [Next]_vars PROVE Account'
    OBVIOUS
  <1>1. ASSUME NEW f \in Files, Load(f) PROVE Account'
    BY <1>1, RewindKeepsAccount DEF Load
  <1>2. CASE Reset
    <2>1. file \in Files \cup {Nothing}
      BY DEF Account
    <2> QED
      BY <1>2, <2>1, RewindKeepsAccount DEF Reset
  <1>3. ASSUME NEW us \in Times, Update(us) PROVE Account'
    BY <1>3, UpdateKeepsAccount
  <1>4. CASE PlayEvent
    BY <1>4, PlayEventKeepsAccount
  <1>5. CASE NextTrack
    BY <1>5 DEF Account, NextTrack, Tracks
  <1>6. CASE EndUpdate
    BY <1>6 DEF Account, EndUpdate, Tracks
  <1>7. CASE UNCHANGED vars
    BY <1>7 DEF Account, vars, Tracks
  <1> QED
    BY <1>1, <1>2, <1>3, <1>4, <1>5, <1>6, <1>7 DEF Next

\* Over any history the ticks counted, each at its tempo, and the remainder
\* add up to the time the updates were given (orelei_midi_update), for every
\* set of files, of update times and of deltas read past a track's end.
THEOREM TimeConservedHolds == Spec => []TimeConserved
  <1>1. Account => TimeConserved
    BY DEF Account, TimeConserved
  <1> QED
    BY <1>1, AccountInit, AccountStep, PTL DEF Spec
-----------------------------------------------------------------------------
(***************************************************************************)
(* DueAt: the sum of a track's deltas, by the least counterexample.        *)
(***************************************************************************)
LEMMA MinExists ==
  ASSUME NEW S \in SUBSET Nat, S # {}
  PROVE  \E m \in S : \A w \in S : m <= w
  <1>1. PICK x \in S : \A y \in S : ~(<<y, x>> \in OpToRel(<, Nat))
    BY NatLessThanWellFounded, WFMin
  <1>2. \A y \in S : ~(y < x)
    BY <1>1 DEF OpToRel
  <1> QED
    BY <1>2

\* f holds the sums of the first n deltas of d.
IsSum(f, d, n) ==
  f = [m \in 0 .. n |-> IF m = 0 THEN 0 ELSE f[m - 1] + d[m].delta]

LEMMA SumExists ==
  ASSUME NEW d, NEW n \in Nat
  PROVE  \E f : IsSum(f, d, n)
  <1> DEFINE Missing == {k \in Nat : ~\E f : IsSum(f, d, k)}
  <1>1. SUFFICES ASSUME Missing # {} PROVE FALSE
    OBVIOUS
  <1>2. PICK k \in Missing : \A w \in Missing : k <= w
    BY <1>1, MinExists
  <1>3. CASE k = 0
    <2> DEFINE f == [m \in 0 .. 0 |-> 0]
    <2>1. f = [m \in 0 .. 0 |-> IF m = 0 THEN 0 ELSE f[m - 1] + d[m].delta]
      OBVIOUS
    <2> QED
      BY <1>2, <1>3, <2>1 DEF IsSum
  <1>4. CASE k # 0
    <2>1. k - 1 \in Nat /\ k - 1 \notin Missing
      BY <1>2, <1>4
    <2>2. PICK f : IsSum(f, d, k - 1)
      BY <2>1
    <2> DEFINE g == [m \in 0 .. k |-> IF m = k THEN f[k - 1] + d[k].delta ELSE f[m]]
    <2>3. \A m \in 0 .. k - 1 : g[m] = f[m]
      BY <2>1
    <2>4. \A m \in 0 .. k : g[m] = IF m = 0 THEN 0 ELSE g[m - 1] + d[m].delta
      <3>1. \A m \in 0 .. k - 1 : f[m] = IF m = 0 THEN 0 ELSE f[m - 1] + d[m].delta
        BY <2>2 DEF IsSum
      <3>2. TAKE m \in 0 .. k
      <3>3. CASE m = k
        BY <1>4, <2>1, <2>3, <3>3
      <3>4. CASE m # k
        BY <2>1, <2>3, <3>1, <3>4
      <3> QED
        BY <3>3, <3>4
    <2>5. IsSum(g, d, k)
      BY <2>4 DEF IsSum
    <2> QED
      BY <1>2, <2>5
  <1> QED
    BY <1>3, <1>4

\* Two such functions agree where both are defined.
LEMMA SumUnique ==
  ASSUME NEW d, NEW n \in Nat, NEW k \in 0 .. n, NEW f, NEW g,
         IsSum(f, d, k), IsSum(g, d, n)
  PROVE  f[k] = g[k]
  <1> DEFINE Differ == {m \in Nat : m <= k /\ f[m] # g[m]}
  <1>1. SUFFICES ASSUME Differ # {} PROVE FALSE
    OBVIOUS
  <1>2. PICK m \in Differ : \A w \in Differ : m <= w
    BY <1>1, MinExists
  <1>3. /\ f[m] = IF m = 0 THEN 0 ELSE f[m - 1] + d[m].delta
        /\ g[m] = IF m = 0 THEN 0 ELSE g[m - 1] + d[m].delta
    BY <1>2 DEF IsSum
  <1>4. m # 0 /\ m - 1 \in Nat /\ m - 1 \notin Differ
    BY <1>2, <1>3
  <1> QED
    BY <1>2, <1>3, <1>4

\* The sums are naturals, since the deltas are.
LEMMA SumNatural ==
  ASSUME NEW d, NEW n \in Nat, \A m \in 1 .. n : d[m].delta \in Nat, NEW f, IsSum(f, d, n)
  PROVE  f[n] \in Nat
  <1> DEFINE Odd == {m \in Nat : m <= n /\ f[m] \notin Nat}
  <1>1. SUFFICES ASSUME Odd # {} PROVE FALSE
    OBVIOUS
  <1>2. PICK m \in Odd : \A w \in Odd : m <= w
    BY <1>1, MinExists
  <1>3. f[m] = IF m = 0 THEN 0 ELSE f[m - 1] + d[m].delta
    BY <1>2 DEF IsSum
  <1>4. m # 0 /\ m - 1 \in Nat /\ m - 1 \notin Odd
    BY <1>2, <1>3
  <1> QED
    BY <1>2, <1>3, <1>4

\* DueAt, for any track.
SumOf(d, n) ==
  LET sum[m \in 0 .. n] == IF m = 0 THEN 0 ELSE sum[m - 1] + d[m].delta
  IN sum[n]

LEMMA DueAtIsSum == \A i, n : DueAt(i, n) = SumOf(file.tracks[i], n)
  BY DEF DueAt, SumOf

LEMMA SumOfSum ==
  ASSUME NEW d, NEW n \in Nat
  PROVE  \E f : IsSum(f, d, n) /\ f[n] = SumOf(d, n)
  <1> DEFINE s == CHOOSE f : f = [m \in 0 .. n |-> IF m = 0 THEN 0 ELSE f[m - 1] + d[m].delta]
  <1>1. \E f : f = [m \in 0 .. n |-> IF m = 0 THEN 0 ELSE f[m - 1] + d[m].delta]
    BY SumExists DEF IsSum
  <1>2. s = [m \in 0 .. n |-> IF m = 0 THEN 0 ELSE s[m - 1] + d[m].delta]
    BY <1>1
  <1>3. SumOf(d, n) = s[n]
    BY DEF SumOf
  <1> HIDE DEF s
  <1> QED
    BY <1>2, <1>3 DEF IsSum

\* Event n is due its delta after the event before it.
LEMMA SumNext ==
  ASSUME NEW d, NEW n \in Nat
  PROVE  /\ SumOf(d, 0) = 0
         /\ SumOf(d, n + 1) = SumOf(d, n) + d[n + 1].delta
         /\ (\A m \in 1 .. n : d[m].delta \in Nat) => SumOf(d, n) \in Nat
  <1>1. PICK z : IsSum(z, d, 0) /\ z[0] = SumOf(d, 0)
    BY SumOfSum
  <1>2. PICK f : IsSum(f, d, n) /\ f[n] = SumOf(d, n)
    BY SumOfSum
  <1>3. PICK g : IsSum(g, d, n + 1) /\ g[n + 1] = SumOf(d, n + 1)
    BY SumOfSum, n + 1 \in Nat
  <1>4. z[0] = 0
    BY <1>1 DEF IsSum
  <1>5. f[n] = g[n]
    BY <1>2, <1>3, SumUnique, n + 1 \in Nat, n \in 0 .. n + 1
  <1>6. g[n + 1] = g[n] + d[n + 1].delta
    BY <1>3 DEF IsSum
  <1>7. (\A m \in 1 .. n : d[m].delta \in Nat) => f[n] \in Nat
    BY <1>2, SumNatural
  <1> QED
    BY <1>1, <1>2, <1>3, <1>4, <1>5, <1>6, <1>7

\* An event is due no earlier than one before it.
LEMMA SumGrows ==
  ASSUME NEW d, NEW n \in Nat, NEW l \in Nat, NEW k \in n .. l,
         \A m \in 1 .. l : d[m].delta \in Nat
  PROVE  SumOf(d, n) <= SumOf(d, k)
  <1> DEFINE Sooner == {m \in Nat : n <= m /\ m <= l /\ ~(SumOf(d, n) <= SumOf(d, m))}
  <1>1. SUFFICES ASSUME Sooner # {} PROVE FALSE
    OBVIOUS
  <1>2. PICK m \in Sooner : \A w \in Sooner : m <= w
    BY <1>1, MinExists
  <1>3. SumOf(d, n) \in Int
    BY SumNext
  <1>4. n <= m - 1 /\ m - 1 \in Nat /\ m - 1 \notin Sooner
    BY <1>2, <1>3
  <1>5. SumOf(d, n) <= SumOf(d, m - 1)
    BY <1>2, <1>4
  <1>6. SumOf(d, m) = SumOf(d, m - 1) + d[m].delta
    BY <1>4, SumNext, m - 1 + 1 = m
  <1>7. SumOf(d, m - 1) \in Int /\ d[m].delta \in Nat
    BY <1>2, <1>4, SumNext
  <1> QED
    BY <1>2, <1>3, <1>5, <1>6, <1>7
-----------------------------------------------------------------------------
(***************************************************************************)
(* The events are played when they are due.                                *)
(***************************************************************************)
\* Every track's wait is the time to its next event, and what it has played
\* is due; the tracks an update is through with, and between updates all of
\* them, have nothing more to play now.
Size(i) == Len(file.tracks[i])

Waits ==
  /\ waiting \in [Tracks -> Int]
  /\ \A i \in Tracks : next[i] <= Size(i) + 1
  /\ \A i \in Tracks : next[i] <= Size(i) => waiting[i] = DueAt(i, next[i]) - ticks
  /\ \A i \in Tracks : \A n \in 1 .. next[i] - 1 : DueAt(i, n) <= ticks

Through(i) == next[i] <= Size(i) => waiting[i] > 0

TurnInv ==
  /\ ticks \in Nat
  /\ pc = "play" => track \in Nat \ {0} /\ \A i \in Tracks : i < track => Through(i)
  /\ pc = "idle" /\ ticks > 0 => \A i \in Tracks : Through(i)

TimeInv == Account /\ Waits /\ TurnInv

LEMMA TrackFacts ==
  ASSUME Account, NEW i \in Tracks
  PROVE  /\ file \in Files
         /\ file.tracks[i] \in Seq(Events) /\ Size(i) \in Nat \ {0}
         /\ \A n \in 1 .. Size(i) : file.tracks[i][n].delta \in Nat
         /\ next[i] \in Nat \ {0}
         /\ Tracks \subseteq Nat
  <1>1. file # Nothing
    BY DEF Tracks, Nothing
  <1>2. file.tracks \in Seq(Seq(Events) \ {<<>>})
    BY <1>1, FilesAssumption DEF Account
  <1>3. file.tracks[i] \in Seq(Events) \ {<<>>}
    BY <1>2 DEF Tracks
  <1>4. \A e \in Events : e.delta \in Nat
    BY DEF Events
  <1> QED
    BY <1>1, <1>2, <1>3, <1>4 DEF Account, Tracks, Size

LEMMA RewindOnTime ==
  ASSUME Account, Account', NEW f \in Files \cup {Nothing}, Rewind(f), pc = "idle"
  PROVE  Waits' /\ TurnInv'
  <1>1. /\ file' = f /\ next' = [i \in Tracks' |-> 1] /\ ticks' = 0 /\ pc' = "idle"
        /\ waiting' = [i \in Tracks' |-> f.tracks[i][1].delta]
    BY DEF Rewind, Tracks
  <1>2. ASSUME NEW i \in Tracks'
        PROVE  /\ waiting'[i] = DueAt(i, 1)' /\ waiting'[i] \in Int
               /\ next'[i] = 1 /\ Size(i)' \in Nat
    <2>1. f # Nothing /\ f \in Files
      BY <1>1, <1>2 DEF Tracks, Nothing
    <2>2. f.tracks[i] \in Seq(Events) \ {<<>>}
      BY <1>1, <1>2, <2>1, FilesAssumption DEF Tracks
    <2>3. f.tracks[i][1].delta \in Nat
      BY <2>2 DEF Events
    <2>4. SumOf(f.tracks[i], 0 + 1) = f.tracks[i][1].delta
      BY <2>3, SumNext
    <2>5. DueAt(i, 1)' = SumOf(f.tracks[i], 1)
      BY <1>1 DEF DueAt, SumOf
    <2> QED
      BY <1>1, <1>2, <2>2, <2>3, <2>4, <2>5 DEF Size
  <1> QED
    BY <1>1, <1>2 DEF Waits, TurnInv

\* What the waits depend on is the same.
LEMMA SameWaits ==
  ASSUME Waits, UNCHANGED <<file, waiting, next, ticks>>
  PROVE  Waits'
  <1>1. \A i, k : DueAt(i, k)' = DueAt(i, k)
    BY DEF DueAt
  <1>2. Tracks' = Tracks /\ \A i : Size(i)' = Size(i)
    BY DEF Tracks, Size
  <1> QED
    BY <1>1, <1>2 DEF Waits

LEMMA UpdateOnTime ==
  ASSUME Account, Waits, TurnInv, NEW us \in Times, Update(us)
  PROVE  Waits' /\ TurnInv'
  <1>1. /\ pc = "idle" /\ track' = 1
        /\ UNCHANGED <<file, next>>
    BY DEF Update
  <1>2. CASE tempo = 0
    <2>1. UNCHANGED <<waiting, ticks>> /\ pc' = "trap"
      BY <1>2 DEF Update
    <2> QED
      BY <1>1, <2>1, SameWaits DEF TurnInv
  <1>3. CASE tempo # 0
    <2>1. us \in Nat /\ file.divisions \in Nat
      BY InputAssumption, FilesAssumption DEF Account, Nothing
    <2>2. PICK n \in Nat : n = Advance(us).ticks
      BY <1>3, <2>1, AdvanceExact DEF Account
    <2>3. /\ ticks' = ticks + n /\ pc' = "play"
          /\ waiting' = [i \in Tracks |-> waiting[i] - n]
      BY <1>3, <2>2 DEF Update
    <2>4. ASSUME NEW i \in Tracks, NEW k \in 1 .. next[i], k <= Size(i)
          PROVE  DueAt(i, k)' = DueAt(i, k) /\ DueAt(i, k) \in Nat
      <3>1. DueAt(i, k)' = DueAt(i, k)
        BY <1>1 DEF DueAt
      <3>2. k \in Nat /\ \A m \in 1 .. k : file.tracks[i][m].delta \in Nat
        BY <2>4, TrackFacts
      <3> QED
        BY <3>1, <3>2, SumNext, DueAtIsSum
    <2>5. Tracks' = Tracks /\ \A i \in Tracks : Size(i)' = Size(i) /\ Size(i) \in Nat /\ next[i] \in Nat \ {0}
      BY <1>1, TrackFacts DEF Tracks, Size
    <2>6. ASSUME NEW i \in Tracks, next[i] <= Size(i)
          PROVE  waiting'[i] = DueAt(i, next[i]) - ticks'
      <3>1. next[i] \in 1 .. next[i]
        BY <2>5
      <3>2. DueAt(i, next[i]) \in Nat
        BY <2>4, <2>6, <3>1
      <3>3. waiting[i] = DueAt(i, next[i]) - ticks /\ ticks \in Nat
        BY <2>6 DEF Waits, TurnInv
      <3> QED
        BY <2>2, <2>3, <3>2, <3>3
    <2>7. ASSUME NEW i \in Tracks, NEW k \in 1 .. next[i] - 1
          PROVE  DueAt(i, k)' <= ticks'
      <3>1. k \in 1 .. next[i] /\ k <= Size(i)
        BY <2>5 DEF Waits
      <3>2. DueAt(i, k) <= ticks
        BY DEF Waits
      <3> QED
        BY <2>3, <2>4, <3>1, <3>2 DEF TurnInv
    <2>8. Waits'
      <3>1. \A i, k : DueAt(i, k)' = DueAt(i, k)
        BY <1>1 DEF DueAt
      <3> QED
        BY <1>1, <2>2, <2>3, <2>5, <2>6, <2>7, <3>1 DEF Waits
    <2>9. TurnInv'
      BY <1>1, <2>2, <2>3, <2>5, TrackFacts DEF TurnInv, Tracks
    <2> QED
      BY <2>8, <2>9
  <1> QED
    BY <1>2, <1>3

LEMMA PlayEventOnTime ==
  ASSUME Account, Waits, TurnInv, PlayEvent
  PROVE  Waits' /\ TurnInv'
  <1> DEFINE n == next[track]
  <1>1. /\ pc = "play" /\ track \in Tracks /\ waiting[track] <= 0 /\ n <= Size(track)
        /\ next' = [next EXCEPT ![track] = n + 1]
        /\ UNCHANGED <<file, pc, track, ticks>>
    BY DEF PlayEvent, Due, Size
  <1>2. PICK delta \in Deltas(file.tracks[track], n + 1) :
          waiting' = [waiting EXCEPT ![track] = waiting[track] + delta]
    BY DEF PlayEvent, WaitFromLast
  <1>3. /\ file.tracks[track] \in Seq(Events) /\ Size(track) \in Nat
        /\ \A m \in 1 .. Size(track) : file.tracks[track][m].delta \in Nat
        /\ n \in Nat \ {0} /\ Tracks \subseteq Nat
    BY <1>1, TrackFacts
  <1>4. delta \in Nat /\ (n + 1 <= Size(track) => delta = file.tracks[track][n + 1].delta)
    <2>1. CASE n + 1 <= Len(file.tracks[track])
      BY <1>2, <1>3, <2>1 DEF Deltas, Size
    <2>2. CASE ~(n + 1 <= Len(file.tracks[track]))
      BY <1>2, <1>3, <2>2, InputAssumption DEF Deltas, Size
    <2> QED
      BY <2>1, <2>2
  <1>5. \A i, k : DueAt(i, k)' = DueAt(i, k)
    BY <1>1 DEF DueAt
  <1>6. DueAt(track, n) \in Nat /\ DueAt(track, n + 1) = DueAt(track, n) + file.tracks[track][n + 1].delta
    <2>1. \A m \in 1 .. n : file.tracks[track][m].delta \in Nat
      BY <1>1, <1>3
    <2>2. /\ SumOf(file.tracks[track], n) \in Nat
          /\ SumOf(file.tracks[track], n + 1)
               = SumOf(file.tracks[track], n) + file.tracks[track][n + 1].delta
      BY <1>3, <2>1, SumNext
    <2> QED
      BY <2>2, DueAtIsSum
  <1>7. waiting[track] = DueAt(track, n) - ticks /\ waiting[track] \in Int
    BY <1>1 DEF Waits
  <1>8. DueAt(track, n) <= ticks
    BY <1>1, <1>6, <1>7 DEF TurnInv
  <1>9. Tracks' = Tracks /\ \A i \in Tracks : Size(i)' = Size(i) /\ next[i] \in Nat \ {0}
    BY <1>1, TrackFacts DEF Tracks, Size
  <1>10. \A i \in Tracks : i # track => next'[i] = next[i] /\ waiting'[i] = waiting[i]
    BY <1>1, <1>2, <1>9 DEF Account, Waits
  <1>11. next'[track] = n + 1 /\ waiting'[track] = waiting[track] + delta
    BY <1>1, <1>2 DEF Account, Waits
  <1>12. waiting' \in [Tracks -> Int]
    BY <1>1, <1>2, <1>4, <1>7 DEF Waits
  <1>13. ASSUME NEW i \in Tracks
         PROVE  /\ next'[i] <= Size(i) + 1
                /\ next'[i] <= Size(i) => waiting'[i] = DueAt(i, next'[i]) - ticks
                /\ \A k \in 1 .. next'[i] - 1 : DueAt(i, k) <= ticks
    <2>1. CASE i = track
      <3>1. n + 1 <= Size(i) + 1
        BY <1>1, <1>3, <2>1
      <3>2. n + 1 <= Size(i) => waiting[track] + delta = DueAt(i, n + 1) - ticks
        BY <1>4, <1>6, <1>7, <2>1 DEF TurnInv
      <3>3. \A k \in 1 .. n : DueAt(i, k) <= ticks
        BY <1>3, <1>8, <2>1 DEF Waits
      <3> QED
        BY <1>3, <1>11, <2>1, <3>1, <3>2, <3>3
    <2>2. CASE i # track
      BY <1>10, <2>2 DEF Waits
    <2> QED
      BY <2>1, <2>2
  <1>14. Waits'
    BY <1>1, <1>5, <1>9, <1>12, <1>13 DEF Waits
  <1>15. TurnInv'
    BY <1>1, <1>3, <1>9, <1>10 DEF TurnInv, Through
  <1> QED
    BY <1>14, <1>15

LEMMA OnTimeInit == Init => TimeInv
  <1> SUFFICES ASSUME Init PROVE TimeInv
    OBVIOUS
  <1>1. Tracks = {}
    BY DEF Init, Nothing, Tracks
  <1> QED
    BY <1>1, AccountInit DEF Init, TimeInv, Waits, TurnInv

LEMMA OnTimeStep == TimeInv /\ [Next]_vars => TimeInv'
  <1> SUFFICES ASSUME TimeInv, [Next]_vars PROVE Waits' /\ TurnInv'
    BY AccountStep DEF TimeInv
  <1>0. Account /\ Waits /\ TurnInv /\ Account'
    BY AccountStep DEF TimeInv
  <1>1. ASSUME NEW f \in Files, Load(f) PROVE Waits' /\ TurnInv'
    BY <1>0, <1>1, RewindOnTime DEF Load
  <1>2. CASE Reset
    <2>1. file \in Files \cup {Nothing}
      BY <1>0 DEF Account
    <2> QED
      BY <1>0, <1>2, <2>1, RewindOnTime DEF Reset
  <1>3. ASSUME NEW us \in Times, Update(us) PROVE Waits' /\ TurnInv'
    BY <1>0, <1>3, UpdateOnTime
  <1>4. CASE PlayEvent
    BY <1>0, <1>4, PlayEventOnTime
  <1>5. CASE NextTrack
    <2>1. /\ pc = "play" /\ track \in Tracks /\ track' = track + 1
          /\ ~(Due(track) /\ next[track] <= Len(file.tracks[track]))
          /\ UNCHANGED <<pc, file, waiting, next, ticks>>
      BY <1>5 DEF NextTrack
    <2>2. Tracks' = Tracks /\ \A i \in Tracks : Size(i)' = Size(i) /\ Through(i)' = Through(i)
      BY <2>1 DEF Tracks, Size, Through
    <2>3. Waits'
      BY <1>0, <2>1, <2>2, SameWaits
    <2>4. Through(track)
      BY <1>0, <2>1 DEF Through, Due, Size, Waits
    <2>5. track \in Nat \ {0} /\ \A i \in Tracks : i < track' => i < track \/ i = track
      BY <1>0, <2>1, TrackFacts DEF TurnInv
    <2>6. TurnInv'
      <3>1. \A i \in Tracks : i < track' => Through(i)'
        BY <1>0, <2>1, <2>2, <2>4, <2>5 DEF TurnInv
      <3>2. track' \in Nat \ {0} /\ ticks' \in Nat /\ pc' = "play"
        BY <1>0, <2>1, <2>5 DEF TurnInv
      <3> QED
        BY <2>2, <3>1, <3>2 DEF TurnInv
    <2> QED
      BY <2>3, <2>6
  <1>6. CASE EndUpdate
    <2>1. /\ pc = "play" /\ track \notin Tracks /\ pc' = "idle"
          /\ UNCHANGED <<file, waiting, next, ticks>>
      BY <1>6 DEF EndUpdate
    <2>2. Tracks' = Tracks /\ \A i \in Tracks : Size(i)' = Size(i) /\ Through(i)' = Through(i)
      BY <2>1 DEF Tracks, Size, Through
    <2>3. Waits'
      BY <1>0, <2>1, <2>2, SameWaits
    <2>4. \A i \in Tracks : i < track
      <3>1. Len(file.tracks) \in Nat \/ file.tracks = <<>>
        BY <1>0, FilesAssumption DEF Account, Nothing
      <3> QED
        BY <1>0, <2>1, <3>1 DEF Tracks, TurnInv
    <2>5. TurnInv'
      BY <1>0, <2>1, <2>2, <2>4 DEF TurnInv
    <2> QED
      BY <2>3, <2>5
  <1>7. CASE UNCHANGED vars
    BY <1>0, <1>7, SameWaits DEF TurnInv, vars, Tracks, Size, Through
  <1> QED
    BY <1>0, <1>1, <1>2, <1>3, <1>4, <1>5, <1>6, <1>7 DEF Next

\* Between updates the tracks wait for events that are not due yet.
LEMMA InTime == TimeInv => PlayedOnTime
  <1> SUFFICES ASSUME TimeInv, pc = "idle", ticks > 0,
                      NEW i \in Tracks, NEW n \in 1 .. Size(i)
               PROVE  n < next[i] <=> DueAt(i, n) <= ticks
    BY DEF PlayedOnTime, Size
  <1>1. /\ Size(i) \in Nat /\ next[i] \in Nat \ {0}
        /\ \A m \in 1 .. Size(i) : file.tracks[i][m].delta \in Nat
    BY TrackFacts DEF TimeInv
  <1>2. CASE n < next[i]
    BY <1>1, <1>2 DEF TimeInv, Waits
  <1>3. CASE ~(n < next[i])
    <2>1. next[i] <= n /\ next[i] <= Size(i)
      BY <1>1, <1>3
    <2>2. waiting[i] = DueAt(i, next[i]) - ticks /\ waiting[i] > 0 /\ ticks \in Nat
      BY <2>1 DEF TimeInv, Waits, TurnInv, Through
    <2>3. SumOf(file.tracks[i], next[i]) <= SumOf(file.tracks[i], n)
      BY <1>1, <2>1, SumGrows
    <2>4. DueAt(i, next[i]) <= DueAt(i, n)
      BY <2>3, DueAtIsSum
    <2>5. DueAt(i, n) \in Nat /\ DueAt(i, next[i]) \in Nat
      BY <1>1, <2>1, SumNext, DueAtIsSum
    <2> QED
      BY <1>3, <2>2, <2>4, <2>5
  <1> QED
    BY <1>2, <1>3

\* Between updates exactly the events due by now have been played, for every
\* file, whatever the deltas and however late an update comes (midi.c's loop
\* over the tracks).
THEOREM PlayedOnTimeHolds == Spec => []PlayedOnTime
  BY InTime, OnTimeInit, OnTimeStep, PTL DEF Spec
-----------------------------------------------------------------------------
(***************************************************************************)
(* The voices.                                                             *)
(***************************************************************************)
Voices     == Voice!Voices
Key(v)     == <<slave[v].ch, slave[v].note>>
Tuned(v)   == <<regs[v].ch, regs[v].note>>
HeldVoices == {v \in Voices : Voice!Held(v)}
Struck     == {Key(v) : v \in HeldVoices}

VoiceTypes ==
  /\ slave \in [Voices -> [ch : Voice!Channels \cup {Voice!Free}, note : Voice!Notes,
                           last_touched : Nat]]
  /\ regs = [v \in Voices |-> regs[v]]
  /\ touch \in Nat
  /\ newOff \subseteq Voices /\ newOn \subseteq Voices /\ keyed \subseteq Voices
  /\ loaded \in BOOLEAN

\* A held voice has a note of its own and is keyed on for it, at the latest at
\* the end of the update; of the others only those sound whose note was
\* released in the update that struck it.
KeysKept ==
  /\ \A v, w \in HeldVoices : Key(v) = Key(w) => v = w
  /\ \A v \in HeldVoices : /\ Tuned(v) = Key(v)
                           /\ v \in newOn \/ (v \in keyed /\ v \notin newOff)
  /\ \A v \in Voices \ HeldVoices :
       Tuned(v) \in blips \/ (v \notin newOn /\ (v \notin keyed \/ v \in newOff))

LEMMA FirstOf ==
  ASSUME NEW S \in SUBSET Voices, S # {}
  PROVE  Voice!First(S) \in S
  <1>1. \E m \in S : \A w \in S : m <= w
    BY MinExists, VoiceAssumption DEF Voices, Voice!Voices
  <1> QED
    BY <1>1 DEF Voice!First

LEMMA StalestOf ==
  ASSUME VoiceTypes, NEW S \in SUBSET Voices, S # {}
  PROVE  Voice!Stalest(S) # {} /\ Voice!Stalest(S) \in SUBSET S
  <1> DEFINE stamps == {slave[v].last_touched : v \in S}
  <1>1. stamps \in SUBSET Nat /\ stamps # {}
    BY DEF VoiceTypes
  <1>2. PICK t \in stamps : \A u \in stamps : t <= u
    BY <1>1, MinExists
  <1>3. PICK v \in S : slave[v].last_touched = t
    BY <1>2
  <1>4. v \in Voice!Stalest(S)
    BY <1>2, <1>3 DEF Voice!Stalest
  <1> QED
    BY <1>4 DEF Voice!Stalest

LEMMA PickedVoice ==
  ASSUME VoiceTypes, NEW c, NEW n
  PROVE  LET p == Voice!PickVoice(c, n) IN
         /\ p \in Voices
         /\ Voice!Owners(c, n) # {} => p \in Voice!Owners(c, n)
         /\ Voice!Owners(c, n) = {} /\ Voice!FreeVoices # {} => p \in Voice!FreeVoices
  <1>1. /\ Voice!Owners(c, n) \in SUBSET Voices
        /\ Voice!FreeVoices \in SUBSET Voices /\ Voices \in SUBSET Voices /\ Voices # {}
    BY VoiceAssumption DEF Voice!Owners, Voice!FreeVoices, Voices, Voice!Voices
  <1>2. ASSUME NEW S \in SUBSET Voices, S # {}
        PROVE  Voice!LongestUntouched(S) \in S
    <2>1. Voice!Stalest(S) \in SUBSET Voices /\ Voice!Stalest(S) \in SUBSET S /\ Voice!Stalest(S) # {}
      BY <1>2, StalestOf
    <2> QED
      BY <2>1, FirstOf DEF Voice!LongestUntouched
  <1>3. CASE Voice!Owners(c, n) # {}
    BY <1>1, <1>3, FirstOf DEF Voice!PickVoice
  <1>4. CASE Voice!Owners(c, n) = {} /\ Voice!FreeVoices # {}
    BY <1>1, <1>2, <1>4 DEF Voice!PickVoice
  <1>5. CASE Voice!Owners(c, n) = {} /\ Voice!FreeVoices = {}
    <2>1. Voice!PickVoice(c, n) = Voice!LongestUntouched(Voices)
      BY <1>5 DEF Voice!PickVoice, Voices
    <2> QED
      BY <1>1, <1>2, <1>5, <2>1
  <1> QED
    BY <1>3, <1>4, <1>5

\* The voices of a note.
LEMMA OwnersOf ==
  ASSUME NEW c \in Voice!Channels, NEW n
  PROVE  /\ c # Voice!Free
         /\ Voice!Owners(c, n) = {v \in HeldVoices : Key(v) = <<c, n>>}
         /\ <<c, n>> \in Struck <=> Voice!Owners(c, n) # {}
         /\ Voice!FreeVoices = Voices \ HeldVoices
  <1>1. c # Voice!Free
    BY VoiceAssumption DEF Voice!Channels, Voice!Free
  <1>2. Voice!Owners(c, n) = {v \in HeldVoices : Key(v) = <<c, n>>}
    BY <1>1 DEF Voice!Owners, HeldVoices, Key, Voice!Held, Voices
  <1> QED
    BY <1>1, <1>2 DEF Struck, Voice!FreeVoices, HeldVoices, Voices

\* midi_note_on: the note gets a voice, and if it or the pool has one to spare,
\* no other note loses its own.
LEMMA StrikeKeeps ==
  ASSUME VoiceTypes, KeysKept, NEW c \in Voice!Channels, NEW n \in Voice!Notes,
         Voice!NoteOn(c, n), blips' = blips
  PROVE  /\ VoiceTypes' /\ KeysKept' /\ loaded' /\ updating'
         /\ <<c, n>> \in Struck \/ Voice!FreeVoices # {} => Struck' = Struck \cup {<<c, n>>}
  <1>1. PICK p : p = Voice!PickVoice(c, n)
    OBVIOUS
  <1>2. /\ p \in Voices
        /\ Voice!Owners(c, n) # {} => p \in Voice!Owners(c, n)
        /\ Voice!Owners(c, n) = {} /\ Voice!FreeVoices # {} => p \in Voice!FreeVoices
    BY <1>1, PickedVoice
  <1>3. /\ slave' = [slave EXCEPT ![p] = [ch |-> c, note |-> n, last_touched |-> touch']]
        /\ newOff' = IF Voice!Owners(c, n) # {} THEN newOff \cup {p} ELSE newOff
        /\ newOn' = newOn \cup {p}
        /\ regs' = [regs EXCEPT ![p] = Voice!Tone(c, n, master[c].wheel)]
        /\ touch' = (touch + 1) % TouchMod
        /\ loaded /\ updating /\ UNCHANGED <<loaded, updating, keyed>>
    BY <1>1 DEF Voice!NoteOn, Voice!InEvent
  <1>4. touch' \in Nat
    BY <1>3, VoiceAssumption DEF VoiceTypes
  <1>5. VoiceTypes'
    BY <1>2, <1>3, <1>4 DEF VoiceTypes, Voices
  <1>6. /\ slave'[p] = [ch |-> c, note |-> n, last_touched |-> touch']
        /\ regs'[p] = Voice!Tone(c, n, master[c].wheel)
        /\ \A v \in Voices \ {p} : slave'[v] = slave[v] /\ regs'[v] = regs[v]
    BY <1>2, <1>3 DEF VoiceTypes
  <1>7. /\ Key(p)' = <<c, n>> /\ Tuned(p)' = <<c, n>>
        /\ \A v \in Voices \ {p} : Key(v)' = Key(v) /\ Tuned(v)' = Tuned(v)
    BY <1>6 DEF Key, Tuned, Voice!Tone
  <1>8. Voices' = Voices /\ HeldVoices' = HeldVoices \cup {p}
    <2>1. c # Voice!Free
      BY OwnersOf
    <2>2. Voices' = Voices /\ Voice!Free' = Voice!Free
      BY DEF Voices, Voice!Voices, Voice!Free
    <2>3. slave'[p].ch = c
      BY <1>6
    <2>4. \A v \in Voices : slave'[v].ch # Voice!Free <=> v = p \/ slave[v].ch # Voice!Free
      BY <1>6, <2>1, <2>3
    <2> QED
      BY <1>2, <2>2, <2>4 DEF HeldVoices, Voice!Held
  <1>9. \A v \in HeldVoices : Key(v) = <<c, n>> => v = p
    <2>1. ASSUME NEW v \in HeldVoices, Key(v) = <<c, n>> PROVE v = p
      <3>1. v \in Voice!Owners(c, n)
        BY <2>1, OwnersOf
      <3>2. p \in HeldVoices /\ Key(p) = <<c, n>>
        BY <1>2, <3>1, OwnersOf
      <3> QED
        BY <2>1, <3>2 DEF KeysKept
    <2> QED
      BY <2>1
  <1>10. KeysKept'
    <2>1. \A v, w \in HeldVoices' : Key(v)' = Key(w)' => v = w
      BY <1>2, <1>7, <1>8, <1>9 DEF KeysKept, HeldVoices
    <2>2. \A v \in HeldVoices' : /\ Tuned(v)' = Key(v)'
                                 /\ v \in newOn' \/ (v \in keyed' /\ v \notin newOff')
      BY <1>3, <1>7, <1>8 DEF KeysKept, HeldVoices
    <2>3. \A v \in Voices' \ HeldVoices' :
            Tuned(v)' \in blips' \/ (v \notin newOn' /\ (v \notin keyed' \/ v \in newOff'))
      BY <1>3, <1>7, <1>8 DEF KeysKept
    <2> QED
      BY <2>1, <2>2, <2>3 DEF KeysKept
  <1>11. ASSUME <<c, n>> \in Struck \/ Voice!FreeVoices # {}
         PROVE  Struck' = Struck \cup {<<c, n>>}
    <2>1. p \in HeldVoices => Key(p) = <<c, n>>
      BY <1>2, <1>11, OwnersOf
    <2>2. Struck' = {Key(v)' : v \in HeldVoices'}
      BY DEF Struck
    <2>3. \A v \in HeldVoices : Key(v)' = Key(v)
      BY <1>7, <2>1 DEF HeldVoices
    <2> QED
      BY <1>7, <1>8, <2>2, <2>3 DEF Struck
  <1> QED
    BY <1>3, <1>5, <1>10, <1>11

\* midi_note_off: the note's voice is keyed off, but for a note struck in the
\* same update.
LEMMA ReleaseKeeps ==
  ASSUME VoiceTypes, KeysKept, NEW c \in Voice!Channels, NEW n \in Voice!Notes,
         Voice!NoteOff(c, n),
         blips' = IF Voice!Owners(c, n) \cap newOn = {} THEN blips
                  ELSE blips \cup {<<c, n>>}
  PROVE  /\ VoiceTypes' /\ KeysKept' /\ loaded' /\ updating'
         /\ Struck' = Struck \ {<<c, n>>}
  <1>1. PICK p : p = Voice!First(Voice!Owners(c, n))
    OBVIOUS
  <1>2. p \in Voice!Owners(c, n)
    BY <1>1, FirstOf DEF Voice!NoteOff, Voice!Owners, Voices
  <1>3. p \in HeldVoices /\ p \in Voices /\ Key(p) = <<c, n>>
    BY <1>2, OwnersOf DEF HeldVoices
  <1>4. /\ slave' = [slave EXCEPT ![p].ch = Voice!Free] /\ newOff' = newOff \cup {p}
        /\ loaded /\ updating /\ UNCHANGED <<touch, newOn, loaded, updating, regs, keyed>>
    BY <1>1 DEF Voice!NoteOff, Voice!InEvent
  <1>5. VoiceTypes'
    BY <1>3, <1>4 DEF VoiceTypes, Voices
  <1>6. /\ slave'[p].ch = Voice!Free
        /\ \A v \in Voices \ {p} : slave'[v] = slave[v]
    BY <1>3, <1>4 DEF VoiceTypes
  <1>7. HeldVoices' = HeldVoices \ {p} /\ Voices' = Voices
    BY <1>3, <1>6 DEF HeldVoices, Voice!Held, Voices, Voice!Voices, Voice!Free
  <1>8. /\ \A v : Tuned(v)' = Tuned(v)
        /\ \A v \in Voices \ {p} : Key(v)' = Key(v)
    BY <1>4, <1>6 DEF Tuned, Key
  <1>9. p \in newOn => Tuned(p) \in blips'
    <2>1. Tuned(p) = <<c, n>>
      BY <1>3 DEF KeysKept
    <2> QED
      BY <1>2, <2>1
  <1>10. blips \subseteq blips'
    OBVIOUS
  <1>11. KeysKept'
    <2>1. \A v, w \in HeldVoices' : Key(v)' = Key(w)' => v = w
      BY <1>7, <1>8 DEF KeysKept, HeldVoices
    <2>2. \A v \in HeldVoices' : /\ Tuned(v)' = Key(v)'
                                 /\ v \in newOn' \/ (v \in keyed' /\ v \notin newOff')
      BY <1>4, <1>7, <1>8 DEF KeysKept, HeldVoices
    <2>3. \A v \in Voices' \ HeldVoices' :
            Tuned(v)' \in blips' \/ (v \notin newOn' /\ (v \notin keyed' \/ v \in newOff'))
      BY <1>4, <1>7, <1>8, <1>9, <1>10 DEF KeysKept
    <2> QED
      BY <2>1, <2>2, <2>3 DEF KeysKept
  <1>12. Struck' = Struck \ {<<c, n>>}
    <2>1. \A v \in HeldVoices \ {p} : Key(v)' = Key(v) /\ Key(v) # <<c, n>>
      BY <1>3, <1>8 DEF KeysKept, HeldVoices
    <2>2. Struck' = {Key(v)' : v \in HeldVoices'}
      BY DEF Struck
    <2> QED
      BY <1>3, <1>7, <2>1, <2>2 DEF Struck
  <1> QED
    BY <1>4, <1>5, <1>11, <1>12
-----------------------------------------------------------------------------
(***************************************************************************)
(* The notes.                                                              *)
(***************************************************************************)
AllNotes == UNION {NotesOf(i) : i \in Tracks}

\* The notes the events played have on.
Played ==
  {k \in AllNotes :
     \E i \in Tracks : \E n \in 1 .. next[i] - 1 :
       /\ IsNote(i, n) /\ KeyAt(i, n) = k /\ file.tracks[i][n].kind = "on"
       /\ \A m \in n + 1 .. next[i] - 1 : IsNote(i, m) => KeyAt(i, m) # k}

PlayerInv ==
  /\ VoiceTypes
  /\ pc = "idle" => ~updating
  /\ ~updating => newOn = {}
  /\ IF loaded THEN KeysKept /\ (Playable => Struck = Played)
               ELSE file = Nothing /\ keyed = {} /\ newOn = {}

LEMMA KeysOfFile ==
  ASSUME Account, NEW i \in Tracks, NEW n \in 1 .. Size(i), IsNote(i, n)
  PROVE  /\ KeyAt(i, n) \in Voice!Channels \X Voice!Notes
         /\ KeyAt(i, n) \in NotesOf(i) /\ KeyAt(i, n) \in AllNotes
  <1>1. file \in Files /\ i \in DOMAIN file.tracks /\ n \in DOMAIN file.tracks[i]
    <2>1. file \in Files /\ file.tracks[i] \in Seq(Events)
      BY TrackFacts
    <2>2. file.tracks \in Seq(Seq(Events) \ {<<>>})
      BY <2>1, FilesAssumption
    <2> QED
      BY <2>1, <2>2 DEF Tracks, Size
  <1>2. KeyAt(i, n) \in Voice!Channels \X Voice!Notes
    BY <1>1, NotesAssumption DEF IsNote, KeyAt
  <1>3. KeyAt(i, n) \in NotesOf(i)
    BY <1>1 DEF NotesOf
  <1> QED
    BY <1>2, <1>3 DEF AllNotes

\* What the event is that is played.
LEMMA EventFacts ==
  ASSUME Account, PlayEvent
  PROVE  /\ track \in Tracks /\ next[track] \in 1 .. Size(track)
         /\ next' = [next EXCEPT ![track] = next[track] + 1]
         /\ file' = file /\ pc' = pc /\ pc = "play"
         /\ Event.kind # "tempo" =>
              /\ IsNote(track, next[track])
              /\ <<Event.ch, Event.note>> = KeyAt(track, next[track])
              /\ Event.ch \in Voice!Channels /\ Event.note \in Voice!Notes
  <1>1. /\ track \in Tracks /\ next[track] <= Len(file.tracks[track])
        /\ next' = [next EXCEPT ![track] = next[track] + 1]
        /\ file' = file /\ pc' = pc /\ pc = "play"
    BY DEF PlayEvent
  <1>2. next[track] \in 1 .. Size(track)
    BY <1>1, TrackFacts DEF Size
  <1>3. ASSUME Event.kind # "tempo"
        PROVE  /\ IsNote(track, next[track])
               /\ <<Event.ch, Event.note>> = KeyAt(track, next[track])
    BY <1>3 DEF Event, IsNote, KeyAt
  <1>4. ASSUME Event.kind # "tempo"
        PROVE  Event.ch \in Voice!Channels /\ Event.note \in Voice!Notes
    BY <1>1, <1>2, <1>3, <1>4, KeysOfFile
  <1> QED
    BY <1>1, <1>2, <1>3, <1>4

\* There is a voice for a note that has none.
LEMMA VoiceToSpare ==
  ASSUME VoiceTypes, KeysKept, Account, Playable, Struck = Played,
         NEW k \in AllNotes, k \notin Struck
  PROVE  Voice!FreeVoices # {}
  <1> SUFFICES ASSUME HeldVoices = Voices PROVE FALSE
    <2>1. Voice!FreeVoices = Voices \ HeldVoices /\ HeldVoices \subseteq Voices
      BY DEF Voice!FreeVoices, HeldVoices, Voices
    <2> QED
      BY <2>1
  <1>1. IsFiniteSet(Voices) /\ Cardinality(Voices) = NumVoices
    BY FS_Interval, VoiceAssumption DEF Voices, Voice!Voices
  <1>2. PICK f : f = [v \in Voices |-> Key(v)]
    OBVIOUS
  <1>3. f \in Surjection(Voices, Struck)
    BY <1>2 DEF Surjection, Struck
  <1>4. f \in Injection(Voices, Struck)
    BY <1>2, <1>3 DEF Injection, IsInjective, Surjection, KeysKept
  <1>5. Cardinality(Struck) = NumVoices
    BY <1>1, <1>3, <1>4, FS_Surjection
  <1>6. IsFiniteSet(AllNotes)
    <2>1. IsFiniteSet(Voice!Channels) /\ IsFiniteSet(Voice!Notes)
      BY FS_Interval, VoiceAssumption DEF Voice!Channels, Voice!Notes
    <2>2. IsFiniteSet(Voice!Channels \X Voice!Notes)
      BY <2>1, FS_Product
    <2>3. AllNotes \in SUBSET (Voice!Channels \X Voice!Notes)
      <3>1. ASSUME NEW x \in AllNotes PROVE x \in Voice!Channels \X Voice!Notes
        <4>1. PICK i \in Tracks : x \in NotesOf(i)
          BY DEF AllNotes
        <4>2. PICK n \in DOMAIN file.tracks[i] : IsNote(i, n) /\ x = KeyAt(i, n)
          BY <4>1 DEF NotesOf
        <4>3. n \in 1 .. Size(i)
          BY TrackFacts DEF Size
        <4> QED
          BY <4>2, <4>3, KeysOfFile
      <3> QED
        BY <3>1
    <2> QED
      BY <2>2, <2>3, FS_Subset
  <1>7. Struck \in SUBSET AllNotes
    BY DEF Played
  <1>8. Cardinality(Struck) < Cardinality(AllNotes)
    <2>1. /\ IsFiniteSet(Struck) /\ Cardinality(Struck) <= Cardinality(AllNotes)
          /\ Cardinality(Struck) = Cardinality(AllNotes) => Struck = AllNotes
      BY <1>6, <1>7, FS_Subset
    <2>2. Cardinality(Struck) \in Nat /\ Cardinality(AllNotes) \in Nat
      BY <1>6, <2>1, FS_CardinalityType
    <2> QED
      BY <2>1, <2>2
  <1>9. Cardinality(AllNotes) <= NumVoices
    BY DEF Playable, AllNotes
  <1>10. Cardinality(AllNotes) \in Nat
    BY <1>6, FS_CardinalityType
  <1> QED
    BY <1>5, <1>8, <1>9, <1>10, VoiceAssumption

\* What an event does to the notes that are on.
LEMMA NotesAfter ==
  ASSUME Account, Waits, PlayEvent
  PROVE  /\ Event.kind = "tempo" => Played' = Played
         /\ Event.kind = "on" => Played' = Played \cup {<<Event.ch, Event.note>>}
         /\ Event.kind = "off" /\ Playable => Played' = Played \ {<<Event.ch, Event.note>>}
         /\ AllNotes' = AllNotes /\ Playable' = Playable
         /\ Event.kind # "tempo" => <<Event.ch, Event.note>> \in AllNotes
  <1> DEFINE t == track
             p == next[track]
             k == <<Event.ch, Event.note>>
             Last(i, n, l, x) ==
               /\ IsNote(i, n) /\ KeyAt(i, n) = x /\ file.tracks[i][n].kind = "on"
               /\ \A m \in n + 1 .. l - 1 : IsNote(i, m) => KeyAt(i, m) # x
  <1>1. /\ t \in Tracks /\ p \in 1 .. Size(t)
        /\ next' = [next EXCEPT ![t] = p + 1] /\ file' = file
        /\ Event.kind # "tempo" => IsNote(t, p) /\ k = KeyAt(t, p)
        /\ Event.kind = "tempo" => ~IsNote(t, p)
    BY EventFacts DEF IsNote, Event
  <1>2. Event.kind = file.tracks[t][p].kind
    BY DEF Event
  <1>3. p \in Nat /\ next'[t] = p + 1 /\ \A i \in Tracks \ {t} : next'[i] = next[i]
    BY <1>1 DEF Account
  <1>4. AllNotes' = AllNotes /\ Tracks' = Tracks /\ Playable' = Playable
        /\ \A i, n : IsNote(i, n)' = IsNote(i, n) /\ KeyAt(i, n)' = KeyAt(i, n)
    BY <1>1 DEF AllNotes, Tracks, Playable, NotesOf, IsNote, KeyAt
  <1>5. Event.kind # "tempo" => k \in AllNotes
    BY <1>1, KeysOfFile
  <1> HIDE DEF k, p, t
  <1>6. \A x : x \in Played <=> x \in AllNotes /\ \E i \in Tracks : \E n \in 1 .. next[i] - 1 : Last(i, n, next[i], x)
    BY DEF Played
  <1>7. \A x : x \in Played' <=> x \in AllNotes /\ \E i \in Tracks : \E n \in 1 .. next'[i] - 1 : Last(i, n, next'[i], x)
    BY <1>1, <1>4 DEF Played
  <1>8. \A n, x : n \in 1 .. p - 1 => (Last(t, n, p + 1, x) <=> Last(t, n, p, x) /\ (IsNote(t, p) => KeyAt(t, p) # x))
    BY <1>3
  <1>9. \A x : Last(t, p, p + 1, x) <=> IsNote(t, p) /\ KeyAt(t, p) = x /\ Event.kind = "on"
    BY <1>2, <1>3
  <1> HIDE DEF Last
  <1>10. ASSUME NEW x
         PROVE  (\E n \in 1 .. next'[t] - 1 : Last(t, n, next'[t], x)) <=>
                  \/ IsNote(t, p) /\ KeyAt(t, p) = x /\ Event.kind = "on"
                  \/ (IsNote(t, p) => KeyAt(t, p) # x) /\ \E n \in 1 .. p - 1 : Last(t, n, p, x)
    <2>1. \A n : n \in 1 .. next'[t] - 1 <=> n = p \/ n \in 1 .. p - 1
      BY <1>1, <1>3
    <2> QED
      BY <1>3, <1>8, <1>9, <2>1
  <1>11. next[t] = p
    BY DEF t, p
  <1>12. ASSUME NEW x, Event.kind = "tempo" \/ x # k
         PROVE  x \in Played' <=> x \in Played
    <2>1. ~(IsNote(t, p) /\ KeyAt(t, p) = x)
      BY <1>1, <1>12
    <2>2. (\E n \in 1 .. next'[t] - 1 : Last(t, n, next'[t], x))
            <=> (\E n \in 1 .. next[t] - 1 : Last(t, n, next[t], x))
      BY <1>10, <1>11, <2>1
    <2>3. \A i \in Tracks : (\E n \in 1 .. next'[i] - 1 : Last(i, n, next'[i], x))
                              <=> (\E n \in 1 .. next[i] - 1 : Last(i, n, next[i], x))
      BY <1>3, <2>2
    <2> QED
      BY <1>6, <1>7, <2>3
  <1>13. Event.kind = "on" => k \in Played'
    <2>1. Event.kind = "on" => \E n \in 1 .. next'[t] - 1 : Last(t, n, next'[t], k)
      BY <1>1, <1>10
    <2> QED
      BY <1>1, <1>5, <1>7, <2>1
  <1>14. Event.kind = "off" /\ Playable => k \notin Played'
    <2> SUFFICES ASSUME Event.kind = "off", Playable, k \in Played' PROVE FALSE
      OBVIOUS
    <2>0. PICK i \in Tracks : \E n \in 1 .. next'[i] - 1 : Last(i, n, next'[i], k)
      BY <1>7
    <2>1. PICK n \in 1 .. next'[i] - 1 : Last(i, n, next'[i], k)
      BY <2>0
    <2>2. i # t
      BY <1>1, <1>10, <2>1
    <2>3. k \in NotesOf(t)
      BY <1>1, KeysOfFile
    <2>4. IsNote(i, n) /\ KeyAt(i, n) = k
      BY <2>1 DEF Last
    <2>5. k \in NotesOf(i)
      <3>1. n \in DOMAIN file.tracks[i]
        BY <1>3, <2>1, <2>2, TrackFacts DEF Waits, Size
      <3> QED
        BY <2>4, <3>1 DEF NotesOf
    <2> QED
      BY <1>1, <2>2, <2>3, <2>5 DEF Playable
  <1>15. /\ Event.kind = "tempo" => Played' = Played
         /\ Event.kind = "on" => Played' = Played \cup {k}
         /\ Event.kind = "off" /\ Playable => Played' = Played \ {k}
    BY <1>12, <1>13, <1>14
  <1> QED
    BY <1>4, <1>5, <1>15 DEF k

-----------------------------------------------------------------------------
(***************************************************************************)
(* The steps.                                                              *)
(***************************************************************************)
\* A reset stops every voice and rewinds every track.
LEMMA ResetQuiet ==
  ASSUME PlayerInv, ~updating, NEW f, Rewind(f), Voice!MidiReset,
         loaded' \in BOOLEAN, UNCHANGED <<newOn, regs, keyed>>
  PROVE  VoiceTypes' /\ KeysKept' /\ Struck' = Played'
  <1>1. /\ slave' = [v \in Voices |-> Voice!FreeSlave]
        /\ newOff' = newOff \cup Voices /\ touch' = 0
    BY DEF Voice!MidiReset, Voices
  <1>2. VoiceTypes /\ newOn = {} /\ Voices' = Voices
    BY DEF PlayerInv, Voices, Voice!Voices
  <1>3. Voice!FreeSlave \in [ch : Voice!Channels \cup {Voice!Free}, note : Voice!Notes,
                             last_touched : Nat]
    BY VoiceAssumption DEF Voice!FreeSlave, Voice!Notes
  <1>4. VoiceTypes'
    <2>1. slave' \in [Voices -> [ch : Voice!Channels \cup {Voice!Free}, note : Voice!Notes,
                                 last_touched : Nat]]
      BY <1>1, <1>3
    <2> QED
      BY <1>1, <1>2, <2>1 DEF VoiceTypes, Voice!Channels, Voice!Free, Voice!Notes
  <1>5. HeldVoices' = {}
    BY <1>1, <1>2 DEF HeldVoices, Voice!Held, Voice!FreeSlave, Voice!Free
  <1>6. KeysKept'
    BY <1>1, <1>2, <1>5 DEF KeysKept
  <1>7. Struck' = {}
    BY <1>5 DEF Struck
  <1>8. \A i \in Tracks' : next'[i] = 1
    BY DEF Rewind, Tracks
  <1>9. Played' = {}
    <2>1. \A i \in Tracks' : \A n : ~(n \in 1 .. next'[i] - 1)
      BY <1>8
    <2> QED
      BY <2>1 DEF Played
  <1> QED
    BY <1>4, <1>6, <1>7, <1>9

\* Nothing happens to the voices.
LEMMA SameVoices ==
  ASSUME VoiceTypes, UNCHANGED <<slave, touch, newOff, newOn, loaded, regs, keyed, blips>>
  PROVE  /\ VoiceTypes' /\ Struck' = Struck
         /\ KeysKept => KeysKept'
  <1>1. Voices' = Voices /\ HeldVoices' = HeldVoices
    BY DEF Voices, Voice!Voices, HeldVoices, Voice!Held, Voice!Free
  <1>2. \A v : Key(v)' = Key(v) /\ Tuned(v)' = Tuned(v)
    BY DEF Key, Tuned
  <1>3. VoiceTypes'
    BY <1>1 DEF VoiceTypes, Voice!Channels, Voice!Free, Voice!Notes
  <1>4. Struck' = Struck
    BY <1>1, <1>2 DEF Struck
  <1>5. KeysKept => KeysKept'
    BY <1>1, <1>2 DEF KeysKept
  <1> QED
    BY <1>3, <1>4, <1>5

\* The file and the places in it stay as they are.
LEMMA SameNotes ==
  ASSUME UNCHANGED <<file, next>>
  PROVE  Played' = Played /\ Playable' = Playable
  BY DEF Played, Playable, AllNotes, Tracks, NotesOf, IsNote, KeyAt

\* The keys are written at the end of the update.
LEMMA CommitKeeps ==
  ASSUME VoiceTypes, KeysKept, Voice!EndUpdate, UNCHANGED blips
  PROVE  VoiceTypes' /\ KeysKept' /\ Struck' = Struck
  <1>1. /\ keyed' = (keyed \ newOff) \cup newOn /\ newOff' = {} /\ newOn' = {}
        /\ UNCHANGED <<slave, touch, loaded, regs>>
    BY DEF Voice!EndUpdate, Voice!WriteKeys
  <1>2. Voices' = Voices /\ HeldVoices' = HeldVoices
    BY <1>1 DEF Voices, Voice!Voices, HeldVoices, Voice!Held, Voice!Free
  <1>3. \A v : Key(v)' = Key(v) /\ Tuned(v)' = Tuned(v)
    BY <1>1 DEF Key, Tuned
  <1>4. VoiceTypes'
    BY <1>1, <1>2 DEF VoiceTypes, Voice!Channels, Voice!Free, Voice!Notes
  <1>5. Struck' = Struck
    BY <1>2, <1>3 DEF Struck
  <1>6. KeysKept'
    BY <1>1, <1>2, <1>3 DEF KeysKept
  <1> QED
    BY <1>4, <1>5, <1>6

LEMMA PlayOnKeeps ==
  ASSUME TimeInv, PlayerInv, PlayOn
  PROVE  PlayerInv'
  <1> DEFINE c == Event.ch
             n == Event.note
  <1>1. PlayEvent /\ Event.kind = "on" /\ Voice!NoteOn(c, n) /\ blips' = blips
    BY DEF PlayOn
  <1>2. c \in Voice!Channels /\ n \in Voice!Notes /\ pc' = "play"
    BY <1>1, EventFacts DEF TimeInv
  <1>3. loaded /\ VoiceTypes /\ KeysKept /\ (Playable => Struck = Played)
    BY <1>1 DEF Voice!NoteOn, Voice!InEvent, PlayerInv
  <1>4. /\ VoiceTypes' /\ KeysKept' /\ loaded' /\ updating'
        /\ <<c, n>> \in Struck \/ Voice!FreeVoices # {} => Struck' = Struck \cup {<<c, n>>}
    BY <1>1, <1>2, <1>3, StrikeKeeps
  <1>5. /\ Played' = Played \cup {<<c, n>>} /\ Playable' = Playable
        /\ <<c, n>> \in AllNotes
    BY <1>1, NotesAfter DEF TimeInv
  <1>6. Playable => Struck' = Played'
    BY <1>3, <1>4, <1>5, VoiceToSpare DEF TimeInv
  <1> QED
    BY <1>2, <1>4, <1>5, <1>6 DEF PlayerInv

LEMMA PlayOffKeeps ==
  ASSUME TimeInv, PlayerInv, PlayOff
  PROVE  PlayerInv'
  <1> DEFINE c == Event.ch
             n == Event.note
  <1>1. /\ PlayEvent /\ Event.kind = "off" /\ Voice!NoteOff(c, n)
        /\ blips' = IF Voice!Owners(c, n) \cap newOn = {} THEN blips
                    ELSE blips \cup {<<c, n>>}
    BY DEF PlayOff
  <1>2. c \in Voice!Channels /\ n \in Voice!Notes /\ pc' = "play"
    BY <1>1, EventFacts DEF TimeInv
  <1>3. loaded /\ VoiceTypes /\ KeysKept /\ (Playable => Struck = Played)
    BY <1>1 DEF Voice!NoteOff, Voice!InEvent, PlayerInv
  <1>4. VoiceTypes' /\ KeysKept' /\ loaded' /\ updating' /\ Struck' = Struck \ {<<c, n>>}
    BY <1>1, <1>2, <1>3, ReleaseKeeps
  <1>5. Playable' = Playable /\ (Playable => Played' = Played \ {<<c, n>>})
    BY <1>1, NotesAfter DEF TimeInv
  <1> QED
    BY <1>2, <1>3, <1>4, <1>5 DEF PlayerInv

LEMMA PlaySilentKeeps ==
  ASSUME TimeInv, PlayerInv, PlaySilent
  PROVE  PlayerInv'
  <1> DEFINE c == Event.ch
             n == Event.note
  <1>1. PlayEvent /\ UNCHANGED <<voiceVars, blips>>
    BY DEF PlaySilent
  <1>2. Event.kind = "tempo" \/ (Event.kind = "off" /\ Voice!Owners(c, n) = {})
    BY DEF PlaySilent
  <1>3. pc' = "play" /\ track \in Tracks
    BY <1>1, EventFacts DEF TimeInv
  <1>4. loaded /\ VoiceTypes /\ KeysKept /\ (Playable => Struck = Played)
    BY <1>3 DEF PlayerInv, Tracks, Nothing
  <1>5. /\ UNCHANGED <<slave, touch, newOff, newOn, loaded, updating, regs, keyed, blips>>
    BY <1>1 DEF voiceVars
  <1>6. VoiceTypes' /\ KeysKept' /\ Struck' = Struck
    BY <1>4, <1>5, SameVoices
  <1>7. /\ Event.kind = "tempo" => Played' = Played
        /\ Event.kind = "off" /\ Playable => Played' = Played \ {<<c, n>>}
        /\ Playable' = Playable
    BY <1>1, NotesAfter DEF TimeInv
  <1>8. Event.kind = "off" => <<c, n>> \notin Struck
    <2>1. Event.kind # "tempo" => c \in Voice!Channels
      BY <1>1, EventFacts DEF TimeInv
    <2> QED
      BY <1>2, <2>1, OwnersOf
  <1>9. Playable => Struck' = Played'
    BY <1>2, <1>4, <1>6, <1>7, <1>8
  <1>10. ~updating => newOn' = {}
    BY <1>5 DEF PlayerInv
  <1> QED
    BY <1>3, <1>4, <1>5, <1>6, <1>7, <1>9, <1>10 DEF PlayerInv

LEMMA PlayerInitInv == PlayerInit => TimeInv /\ PlayerInv
  <1> SUFFICES ASSUME PlayerInit PROVE PlayerInv
    BY OnTimeInit DEF PlayerInit
  <1>1. /\ pc = "idle" /\ file = Nothing
        /\ slave = [v \in Voices |-> [ch |-> 0, note |-> 0, last_touched |-> 0]]
        /\ touch = 0 /\ newOff = {} /\ newOn = {} /\ keyed = {}
        /\ loaded = FALSE /\ updating = FALSE
        /\ regs = [v \in Voices |-> Voice!Tone(0, 0, 0)]
    BY DEF PlayerInit, Init, Voice!Init, Voices
  <1>2. 0 \in Voice!Channels /\ 0 \in Voice!Notes
    BY VoiceAssumption DEF Voice!Channels, Voice!Notes
  <1>3. VoiceTypes
    BY <1>1, <1>2 DEF VoiceTypes
  <1> QED
    BY <1>1, <1>3 DEF PlayerInv

LEMMA PlayerStepInv == TimeInv /\ PlayerInv /\ [PlayerNext]_playerVars => TimeInv' /\ PlayerInv'
  <1> SUFFICES ASSUME TimeInv, PlayerInv, [PlayerNext]_playerVars
               PROVE  TimeInv' /\ PlayerInv'
    OBVIOUS
  <1>1. TimeInv'
    <2>1. [Next]_vars
      BY DEF PlayerNext, PlayerLoad, PlayerReset, PlayerUpdate, PlayOn, PlayOff, PlaySilent,
             PlayerNextTrack, PlayerEnd, Next, playerVars
    <2> QED
      BY <2>1, OnTimeStep
  <1> SUFFICES PlayerInv'
    BY <1>1
  <1>2. ASSUME NEW f \in Files, PlayerLoad(f) PROVE PlayerInv'
    <2>1. /\ pc = "idle" /\ pc' = pc /\ Rewind(f) /\ Voice!MidiReset /\ loaded' = TRUE
          /\ UNCHANGED <<newOn, updating, regs, keyed>>
      BY <1>2 DEF PlayerLoad, Load, Rewind, Voice!Load
    <2>2. ~updating /\ newOn = {}
      BY <2>1 DEF PlayerInv
    <2>3. VoiceTypes' /\ KeysKept' /\ Struck' = Played'
      BY <2>1, <2>2, ResetQuiet
    <2> QED
      BY <2>1, <2>2, <2>3 DEF PlayerInv
  <1>3. CASE PlayerReset
    <2>1. /\ pc = "idle" /\ pc' = pc /\ Rewind(file) /\ file' = file /\ Voice!MidiReset
          /\ UNCHANGED <<newOn, loaded, updating, regs, keyed>>
      BY <1>3 DEF PlayerReset, Reset, Rewind, Voice!Reset
    <2>2. ~updating /\ newOn = {} /\ loaded \in BOOLEAN
      BY <2>1 DEF PlayerInv, VoiceTypes
    <2>3. VoiceTypes' /\ KeysKept' /\ Struck' = Played'
      BY <2>1, <2>2, ResetQuiet
    <2> QED
      BY <2>1, <2>2, <2>3 DEF PlayerInv, Nothing
  <1>4. ASSUME NEW us \in Times, PlayerUpdate(us) PROVE PlayerInv'
    <2>1. /\ pc' # "idle" /\ updating'
          /\ UNCHANGED <<file, next>>
          /\ UNCHANGED <<slave, touch, newOff, newOn, loaded, regs, keyed, blips>>
      BY <1>4 DEF PlayerUpdate, Update, Voice!BeginUpdate
    <2>2. VoiceTypes' /\ Struck' = Struck /\ (KeysKept => KeysKept')
      BY <2>1, SameVoices DEF PlayerInv
    <2>3. Played' = Played /\ Playable' = Playable
      BY <2>1, SameNotes
    <2> QED
      BY <2>1, <2>2, <2>3 DEF PlayerInv, Nothing
  <1>5. CASE PlayOn
    BY <1>5, PlayOnKeeps
  <1>6. CASE PlayOff
    BY <1>6, PlayOffKeeps
  <1>7. CASE PlaySilent
    BY <1>7, PlaySilentKeeps
  <1>8. CASE PlayerNextTrack \/ UNCHANGED playerVars
    <2>1. /\ pc' = pc /\ UNCHANGED <<file, next>>
          /\ UNCHANGED <<slave, touch, newOff, newOn, loaded, updating, regs, keyed, blips>>
      BY <1>8 DEF PlayerNextTrack, NextTrack, playerVars, vars, voiceVars
    <2>2. VoiceTypes' /\ Struck' = Struck /\ (KeysKept => KeysKept')
      BY <2>1, SameVoices DEF PlayerInv
    <2>3. Played' = Played /\ Playable' = Playable
      BY <2>1, SameNotes
    <2> QED
      BY <2>1, <2>2, <2>3 DEF PlayerInv, Nothing
  <1>9. CASE PlayerEnd
    <2>1. /\ pc = "play" /\ track \notin Tracks /\ UNCHANGED <<file, next, blips>>
          /\ Voice!EndUpdate
      BY <1>9 DEF PlayerEnd, EndUpdate
    <2>2. Played' = Played /\ Playable' = Playable
      BY <2>1, SameNotes
    <2>3. /\ ~updating' /\ newOn' = {} /\ newOff' = {} /\ loaded' = loaded
          /\ keyed' = (keyed \ newOff) \cup newOn
          /\ UNCHANGED <<slave, touch, regs>>
      BY <2>1 DEF Voice!EndUpdate, Voice!WriteKeys
    <2>4. CASE loaded
      <3>1. VoiceTypes' /\ KeysKept' /\ Struck' = Struck
        BY <2>1, <2>4, CommitKeeps DEF PlayerInv
      <3> QED
        BY <2>2, <2>3, <2>4, <3>1 DEF PlayerInv
    <2>5. CASE ~loaded
      <3>1. file' = Nothing /\ keyed' = {} /\ VoiceTypes
        BY <2>1, <2>3, <2>5 DEF PlayerInv, Nothing
      <3>2. VoiceTypes'
        BY <2>3, <3>1 DEF VoiceTypes, Voices, Voice!Voices, Voice!Channels, Voice!Free, Voice!Notes
      <3> QED
        BY <2>3, <2>5, <3>1, <3>2 DEF PlayerInv, Nothing
    <2> QED
      BY <2>4, <2>5
  <1> QED
    BY <1>2, <1>3, <1>4, <1>5, <1>6, <1>7, <1>8, <1>9 DEF PlayerNext

\* Between updates the events played are those due by now.
LEMMA PlayedAreOn ==
  ASSUME TimeInv, pc = "idle", ticks > 0
  PROVE  NotesOn = Played
  <1>1. ASSUME NEW i \in Tracks
        PROVE  /\ DOMAIN file.tracks[i] = 1 .. Size(i) /\ Len(file.tracks[i]) = Size(i)
               /\ Size(i) \in Nat /\ next[i] \in Nat /\ next[i] <= Size(i) + 1
               /\ \A n \in 1 .. Size(i) : n < next[i] <=> DueAt(i, n) <= ticks
    BY InTime, TrackFacts DEF TimeInv, Waits, PlayedOnTime, Size
  <1>2. ASSUME NEW i \in Tracks, NEW n
        PROVE  n \in DOMAIN file.tracks[i] /\ DueAt(i, n) <= ticks <=> n \in 1 .. next[i] - 1
    BY <1>1
  <1>3. ASSUME NEW i \in Tracks, NEW n \in 1 .. next[i] - 1, NEW k
        PROVE  (\A m \in n + 1 .. Len(file.tracks[i]) : DueNow(i, m) => KeyAt(i, m) # k)
                 <=> (\A m \in n + 1 .. next[i] - 1 : IsNote(i, m) => KeyAt(i, m) # k)
    <2>1. \A m : m \in n + 1 .. Len(file.tracks[i]) /\ DueAt(i, m) <= ticks
                   <=> m \in n + 1 .. next[i] - 1
      BY <1>1
    <2> QED
      BY <2>1 DEF DueNow
  <1>4. ASSUME NEW i \in Tracks, NEW k
        PROVE  (\E n \in DOMAIN file.tracks[i] :
                  /\ DueNow(i, n) /\ KeyAt(i, n) = k /\ file.tracks[i][n].kind = "on"
                  /\ \A m \in n + 1 .. Len(file.tracks[i]) : DueNow(i, m) => KeyAt(i, m) # k)
               <=>
               (\E n \in 1 .. next[i] - 1 :
                  /\ IsNote(i, n) /\ KeyAt(i, n) = k /\ file.tracks[i][n].kind = "on"
                  /\ \A m \in n + 1 .. next[i] - 1 : IsNote(i, m) => KeyAt(i, m) # k)
    BY <1>2, <1>3 DEF DueNow
  <1> QED
    BY <1>4 DEF NotesOn, Played, AllNotes

\* Between updates the notes heard are those the file says are on, and besides
\* them only notes that were released in the update that struck them: for every
\* file with a voice for each of its notes, over any updates, resets and loads
\* (the sequencer, the allocator and the key masks of midi.c and orelei.c).
THEOREM NotesHeardHolds == PlayerSpec => []NotesHeard
  <1>1. TimeInv /\ PlayerInv => NotesHeard
    <2> SUFFICES ASSUME TimeInv, PlayerInv, pc = "idle", ticks > 0, Playable
                 PROVE  NotesOn \subseteq Sounding /\ Sounding \subseteq NotesOn \cup blips
      BY DEF NotesHeard
    <2>1. NotesOn = Played
      BY PlayedAreOn
    <2>2. CASE loaded
      <3>1. KeysKept /\ Struck = NotesOn /\ newOn = {} /\ keyed \subseteq Voices
        BY <2>1, <2>2 DEF PlayerInv, VoiceTypes
      <3>2. \A v \in HeldVoices : v \in SoundingVoices /\ Tuned(v) = Key(v)
        BY <3>1 DEF KeysKept, SoundingVoices
      <3>3. Sounding = {Tuned(v) : v \in SoundingVoices}
        BY DEF Sounding, Tuned
      <3>4. NotesOn \subseteq Sounding
        BY <3>1, <3>2, <3>3 DEF Struck
      <3>5. ASSUME NEW v \in SoundingVoices PROVE Tuned(v) \in NotesOn \cup blips
        BY <3>1, <3>2 DEF Struck, KeysKept, SoundingVoices
      <3> QED
        BY <3>3, <3>4, <3>5
    <2>3. CASE ~loaded
      <3>1. file = Nothing /\ keyed = {}
        BY <2>3 DEF PlayerInv
      <3>2. Tracks = {}
        BY <3>1 DEF Tracks, Nothing
      <3> QED
        BY <3>1, <3>2 DEF NotesOn, Sounding, SoundingVoices
    <2> QED
      BY <2>2, <2>3
  <1> QED
    BY <1>1, PlayerInitInv, PlayerStepInv, PTL DEF PlayerSpec
=============================================================================
