---------------------------- MODULE ProgramProofs ----------------------------
(***************************************************************************)
(* A program from its executable to its interrupts: what elf2psx reports   *)
(* as converted is exact and what _start hands to main is what was linked, *)
(* for every memory map, page and executable; and what the double-buffered *)
(* example shows is whole, moves once for each vertical blank and stays on *)
(* the picture, for every width of its counter.                            *)
(***************************************************************************)
EXTENDS Elf2psx, Triangle, TLAPS

\* The remainder of a division is the only one.
LEMMA Remainder ==
  ASSUME NEW m \in Nat \ {0}, NEW n \in Int, NEW q \in Int, NEW r \in 0 .. m - 1, n = m * q + r
  PROVE  n % m = r
<1>1. PICK p \in Int, s \in 0 .. m - 1 : n = m * p + s /\ s = n % m
  <2>1. n \div m \in Int /\ n % m \in 0 .. m - 1 /\ n = m * (n \div m) + (n % m)
    OBVIOUS
  <2> QED
    BY <2>1
<1>2. m * (q - p) = s - r
  BY <1>1
<1>3. q - p \in Int /\ m * (q - p) < m /\ m * (q - p) > -m
  BY <1>1, <1>2
<1>4. q - p = 0
  BY <1>3
<1>5. m * (q - p) = 0
  BY <1>4
<1>6. s - r = 0
  BY <1>2, <1>5
<1>7. s = r
  BY <1>6
<1> QED
  BY <1>1, <1>7, Zenon

LEMMA Multiple ==
  ASSUME NEW m \in Nat \ {0}, NEW q \in Int
  PROVE  (m * q) % m = 0
<1>1. PICK n \in Int : n = m * q
  OBVIOUS
<1>2. n = m * q + 0 /\ 0 \in 0 .. m - 1
  BY <1>1
<1>3. n % m = 0
  BY <1>2, Remainder
<1> QED
  BY <1>1, <1>3, Zenon

-----------------------------------------------------------------------------
(***************************************************************************)
(* The executable and _start.                                              *)
(***************************************************************************)
LEMMA Sizes ==
  /\ Modulus \in Nat /\ Page \in Nat /\ Page > 0 /\ Low \in Nat /\ High \in Nat
  /\ Low < High /\ High + Page < Modulus /\ Low % Page = 0 /\ High % Page = 0
  BY MemoryAssumption

LEMMA ElfTypes ==
  ASSUME NEW e \in Elfs
  PROVE  /\ e.length \in 0 .. Modulus - (High - Low)
         /\ e.segments \in Seq(Segments)
         /\ e.edata \in Word /\ e.end \in Word /\ e.edata <= e.end
  BY ElfAssumption

LEMMA SegmentTypes ==
  ASSUME NEW e \in Elfs, NEW n \in 1 .. Len(e.segments)
  PROVE  /\ e.segments[n] \in Segments
         /\ e.segments[n].load \in BOOLEAN
         /\ e.segments[n].offset \in Word \ {0}
         /\ e.segments[n].vaddr \in Word /\ e.segments[n].filesz \in Word
<1>1. e.segments \in Seq(Segments)
  BY ElfTypes
<1>2. e.segments[n] \in Segments
  BY <1>1
<1> QED
  BY <1>2 DEF Segments

-----------------------------------------------------------------------------
(* Rounding to pages. *)

LEMMA Quotient ==
  ASSUME NEW n \in Nat, NEW p \in Nat \ {0}
  PROVE  /\ n \div p \in Nat /\ n % p \in 0 .. p - 1
         /\ n = p * (n \div p) + (n % p)
  OBVIOUS

\* A multiple of the page is not exceeded by rounding up below it, and the
\* difference of two multiples is one.
LEMMA AlignUpExact ==
  ASSUME NEW n \in Nat, NEW b \in Nat, NEW l \in Nat,
         b % Page = 0, n <= b, l % Page = 0, l <= n
  PROVE  /\ AlignUp(n) \in Nat /\ n <= AlignUp(n) /\ AlignUp(n) <= b
         /\ (AlignUp(n) - l) % Page = 0
<1>1. PICK k \in Nat, r \in 0 .. Page - 1 :
        k = (n + Page - 1) \div Page /\ n + Page - 1 = Page * k + r
  <2>1. n + Page - 1 \in Nat
    BY Sizes
  <2> QED
    BY <2>1, Sizes, Quotient
<1>2. PICK h \in Nat : b = Page * h
  <2>1. b \div Page \in Nat /\ b = Page * (b \div Page) + (b % Page)
    BY Sizes, Quotient
  <2>2. Page * (b \div Page) \in Int
    BY <2>1, Sizes
  <2>3. b = Page * (b \div Page)
    BY <2>1, <2>2
  <2> QED
    BY <2>1, <2>3, Zenon
<1>3. PICK j \in Nat : l = Page * j
  <2>1. l \div Page \in Nat /\ l = Page * (l \div Page) + (l % Page)
    BY Sizes, Quotient
  <2> QED
    BY <2>1, Sizes
<1>4. AlignUp(n) = k * Page /\ k * Page = Page * k
  BY <1>1, Sizes DEF AlignUp
<1>5. n <= Page * k
  BY <1>1, Sizes
<1>6. k <= h
  <2>1. SUFFICES ASSUME k >= h + 1 PROVE FALSE
    OBVIOUS
  <2>2. Page * k >= Page * (h + 1)
    BY <2>1, Sizes
  <2>3. Page * (h + 1) = Page * h + Page
    BY Sizes
  <2> QED
    BY <1>1, <1>2, <2>2, <2>3, Sizes
<1>7. Page * k <= Page * h
  BY <1>6, Sizes
<1>8. AlignUp(n) - l = Page * (k - j)
  BY <1>3, <1>4, Sizes
<1>9. (Page * (k - j)) % Page = 0
  BY Multiple, Sizes
<1> QED
  BY <1>2, <1>4, <1>5, <1>7, <1>8, <1>9, Sizes

-----------------------------------------------------------------------------
(* The invariant of the conversion. *)

Past == stage \in {"fill", "copy"} \/ status = 0

ConvertTypes ==
  /\ elf \in Elfs /\ ftext \in Word /\ edata \in Word
  /\ stage = "header" => i = 1
  /\ stage \in {"range", "copy"} => i \in 1 .. Len(elf.segments) + 1
  /\ status \in {-1, 0, 1}
  /\ stage \in {"header", "range", "fill", "copy"} => status = -1

\* The first k - 1 segments do not begin before the text.
Begun(k) ==
  \A n \in 1 .. Len(elf.segments) : n < k /\ Loads(Seg(n)) => ftext <= Seg(n).vaddr

\* What the range check has established.
Checked == InMemory /\ filesz = AlignUp(edata) - ftext

\* The first k - 1 segments are in the image, and nothing else is.
Inside(k) ==
  \A n \in 1 .. Len(elf.segments) :
    n < k /\ Loads(Seg(n)) => Seg(n).vaddr + Seg(n).filesz <= ftext + filesz
Copied(k) == image = [a \in 0 .. filesz - 1 |-> ByteAt(k - 1, ftext + a)]

ConvertInv ==
  /\ ConvertTypes
  /\ stage = "range" => Begun(i)
  /\ Past => Begun(Len(elf.segments) + 1) /\ Checked
  /\ stage = "copy" => Inside(i) /\ Copied(i)
  /\ status = 0 => Inside(Len(elf.segments) + 1) /\ Copied(Len(elf.segments) + 1)

LEMMA LenNat == \A e \in Elfs : Len(e.segments) \in Nat
  BY ElfTypes

LEMMA ConvertInit == ProgramInit => ConvertInv
<1> SUFFICES ASSUME ProgramInit PROVE ConvertInv
  OBVIOUS
<1>1. ConvertTypes
  BY Sizes, LenNat DEF ProgramInit, ConvertTypes, Word
<1> QED
  BY <1>1 DEF ProgramInit, ConvertInv, Past

\* The image is whole pages in the program's memory.
LEMMA CheckedPages ==
  ASSUME ConvertTypes, Checked
  PROVE  /\ Low <= ftext /\ ftext + filesz <= High /\ filesz \in Nat /\ ftext \in Nat
         /\ ftext % Page = 0 /\ filesz % Page = 0
<1>1. ftext \in Nat /\ edata \in Nat
  BY Sizes DEF ConvertTypes, Word
<1>2. AlignUp(edata) \in Nat /\ edata <= AlignUp(edata) /\ AlignUp(edata) <= High
      /\ (AlignUp(edata) - ftext) % Page = 0
  BY <1>1, Sizes, AlignUpExact DEF Checked, InMemory
<1> QED
  BY <1>1, <1>2, Sizes DEF Checked, InMemory

LEMMA ScanKeeps ==
  ASSUME ConvertInv, Scan
  PROVE  ConvertInv'
<1>1. elf \in Elfs /\ i \in 1 .. Len(elf.segments) /\ Len(elf.segments) \in Nat
  BY LenNat DEF ConvertInv, ConvertTypes, Scan
<1>2. Seg(i).vaddr \in Word /\ Seg(i).filesz \in Word
  BY <1>1, SegmentTypes DEF Seg
<1>3. Plus(Seg(i).vaddr, Seg(i).filesz) \in Word
  BY <1>2, Sizes DEF Plus, Word
<1>4. ConvertTypes'
  BY <1>1, <1>2, <1>3 DEF ConvertInv, ConvertTypes, Scan, Seg
<1>5. ftext' <= ftext /\ (Loads(Seg(i)) => ftext' <= Seg(i).vaddr) /\ ftext' \in Nat /\ ftext \in Nat
  BY <1>2, Sizes DEF ConvertInv, ConvertTypes, Scan, Seg, Word
<1>6. ASSUME NEW n \in 1 .. Len(elf.segments), n < i + 1, Loads(Seg(n))
      PROVE  ftext' <= Seg(n).vaddr
  <2>1. Seg(n).vaddr \in Nat
    BY <1>1, SegmentTypes, Sizes DEF Seg, Word
  <2>2. CASE n < i
    <3>1. ftext <= Seg(n).vaddr
      BY <1>6, <2>2 DEF ConvertInv, Begun, Scan
    <3> QED
      BY <1>5, <2>1, <3>1
  <2>3. CASE n = i
    BY <1>5, <1>6, <2>3
  <2> QED
    BY <1>1, <1>6, <2>2, <2>3
<1>7. Begun(i)'
  BY <1>6 DEF Begun, Scan, Seg, Loads
<1>8. stage' = "range" /\ status' = -1
  BY DEF ConvertInv, ConvertTypes, Scan
<1> QED
  BY <1>4, <1>7, <1>8 DEF ConvertInv, Past

LEMMA CheckRangeKeeps ==
  ASSUME ConvertInv, CheckRange
  PROVE  ConvertInv'
<1>1. elf \in Elfs /\ Len(elf.segments) \in Nat /\ i = Len(elf.segments) + 1
  BY LenNat DEF ConvertInv, ConvertTypes, CheckRange
<1>2. ConvertTypes'
  BY DEF ConvertInv, ConvertTypes, CheckRange, Exit
<1>3. CASE InMemory
  <2>1. Begun(Len(elf.segments) + 1)'
    BY <1>1 DEF ConvertInv, Begun, CheckRange, Seg, Loads
  <2>2. Checked'
    BY <1>3 DEF CheckRange, Checked, InMemory, AlignUp
  <2>3. stage' = "fill" /\ status' = -1
    BY <1>3 DEF ConvertInv, ConvertTypes, CheckRange
  <2> QED
    BY <1>2, <2>1, <2>2, <2>3 DEF ConvertInv
<1>4. CASE ~InMemory
  BY <1>2, <1>4 DEF ConvertInv, CheckRange, Exit, Past
<1> QED
  BY <1>3, <1>4

LEMMA FillKeeps ==
  ASSUME ConvertInv, Fill
  PROVE  ConvertInv'
<1>1. elf \in Elfs /\ Len(elf.segments) \in Nat
  BY LenNat DEF ConvertInv, ConvertTypes
<1>2. ConvertTypes'
  BY <1>1 DEF ConvertInv, ConvertTypes, Fill
<1>3. Begun(Len(elf.segments) + 1)' /\ Checked'
  BY DEF ConvertInv, Past, Fill, Begun, Checked, InMemory, AlignUp, Seg, Loads
<1>4. Inside(i)'
  BY DEF Fill, Inside
<1>5. \A a : ByteAt(0, a)' = Blank
  BY DEF ByteAt, Covering
<1>6. Copied(i)'
  BY <1>5 DEF Fill, Copied
<1>7. stage' = "copy" /\ status' = -1
  BY DEF ConvertInv, ConvertTypes, Fill
<1> QED
  BY <1>2, <1>3, <1>4, <1>6, <1>7 DEF ConvertInv
-----------------------------------------------------------------------------
(* A segment is copied. *)

\* What the first n segments put at an address, in terms of the last of them.
LEMMA ByteAtLast ==
  ASSUME NEW n \in Nat \ {0}, NEW a
  PROVE  ByteAt(n, a) = IF Covers(n, a) THEN Seg(n).offset + a - Seg(n).vaddr
                                        ELSE ByteAt(n - 1, a)
<1>1. Covering(n, a) = IF Covers(n, a) THEN Covering(n - 1, a) \cup {n} ELSE Covering(n - 1, a)
  <2>1. 1 .. n = (1 .. n - 1) \cup {n}
    OBVIOUS
  <2> QED
    BY <2>1 DEF Covering
<1>2. CASE Covers(n, a)
  <2>1. n \in Covering(n, a) /\ \A k \in Covering(n, a) : k \in 1 .. n
    BY <1>2 DEF Covering
  <2>2. Top(Covering(n, a)) = n
    BY <2>1 DEF Top
  <2> QED
    BY <1>2, <2>1, <2>2 DEF ByteAt
<1>3. CASE ~Covers(n, a)
  BY <1>1, <1>3 DEF ByteAt
<1> QED
  BY <1>2, <1>3

\* A segment that passes the test lies in the image; its end does not wrap,
\* as fread finds all of it in the file.
LEMMA FitsInside ==
  ASSUME NEW s, s.vaddr \in Word, s.filesz \in Word, s.offset \in Word,
         ConvertTypes, Checked, ftext <= s.vaddr,
         Fits(s), s.offset + s.filesz <= elf.length
  PROVE  At(s) = s.vaddr - ftext /\ At(s) \in Nat /\ At(s) + s.filesz <= filesz
<1>1. At(s) = s.vaddr - ftext /\ At(s) \in Nat
  BY Sizes, CheckedPages DEF At, Minus, Word
<1>2. filesz <= High - Low /\ filesz \in Nat
  BY CheckedPages, Sizes
<1>3. s.filesz <= Modulus - (High - Low)
  BY ElfTypes, Sizes DEF ConvertTypes, Word
<1>4. At(s) + s.filesz < Modulus
  BY <1>1, <1>2, <1>3, Sizes DEF Fits, Word
<1> QED
  BY <1>1, <1>4, Sizes DEF Fits, Plus, Word

LEMMA CopyKeeps ==
  ASSUME ConvertInv, Copy
  PROVE  ConvertInv'
<1> DEFINE s == Seg(i)
<1>1. elf \in Elfs /\ i \in 1 .. Len(elf.segments) /\ Len(elf.segments) \in Nat
  BY LenNat DEF ConvertInv, ConvertTypes, Copy
<1>2. s.vaddr \in Word /\ s.filesz \in Word /\ s.offset \in Word
  BY <1>1, SegmentTypes DEF Seg
<1>3. ConvertTypes /\ Checked /\ Begun(Len(elf.segments) + 1)
  BY DEF ConvertInv, Past, Copy
<1>4. filesz \in Nat /\ ftext \in Nat
  BY <1>3, CheckedPages
<1>5. elf' = elf /\ ftext' = ftext /\ edata' = edata /\ filesz' = filesz
  BY DEF Copy
<1>6. /\ Begun(Len(elf.segments) + 1)' /\ Checked'
      /\ \A n, a : Covers(n, a)' = Covers(n, a) /\ Seg(n)' = Seg(n) /\ ByteAt(n, a)' = ByteAt(n, a)
  BY <1>3, <1>5 DEF Begun, Checked, InMemory, AlignUp, Seg, Loads, Covers, ByteAt, Covering
<1>7. CASE i' = i + 1 /\ stage' = stage /\ status' = status /\ Inside(i)' /\ Copied(i)'
  <2>1. ConvertTypes'
    BY <1>1, <1>5, <1>7 DEF ConvertTypes, ConvertInv, Copy
  <2>2. status' = -1 /\ stage' = "copy"
    BY <1>7 DEF ConvertInv, ConvertTypes, Copy
  <2> QED
    BY <1>6, <1>7, <2>1, <2>2 DEF ConvertInv
<1>8. CASE Exit(1)
  <2>1. ConvertTypes'
    BY <1>5, <1>8 DEF ConvertTypes, ConvertInv, Exit
  <2> QED
    BY <1>8, <2>1 DEF ConvertInv, Exit, Past
<1>9. CASE ~Loads(s)
  <2>1. i' = i + 1 /\ stage' = stage /\ status' = status /\ image' = image
    BY <1>9 DEF Copy, Seg
  <2>2. Inside(i)'
    BY <1>1, <1>5, <1>9 DEF ConvertInv, Copy, Inside, Seg, Loads
  <2>3. \A a : ByteAt(i, a) = ByteAt(i - 1, a)
    BY <1>1, <1>9, ByteAtLast DEF Covers
  <2>4. Copied(i)'
    BY <1>1, <1>5, <1>6, <2>1, <2>3 DEF ConvertInv, Copy, Copied
  <2> QED
    BY <1>7, <2>1, <2>2, <2>4
<1>10. CASE Loads(s) /\ Fits(s) /\ s.offset + s.filesz <= elf.length
  <2>1. /\ i' = i + 1 /\ stage' = stage /\ status' = status
        /\ image' = [a \in DOMAIN image \cup At(s) .. At(s) + s.filesz - 1 |->
                       IF a \in At(s) .. At(s) + s.filesz - 1
                       THEN s.offset + a - At(s) ELSE image[a]]
    BY <1>10 DEF Copy, Seg
  <2>2. ftext <= s.vaddr
    BY <1>1, <1>3, <1>10 DEF Begun
  <2>3. At(s) = s.vaddr - ftext /\ At(s) \in Nat /\ At(s) + s.filesz <= filesz
    BY <1>2, <1>3, <1>10, <2>2, FitsInside
  <2>4. Inside(i)'
    <3> SUFFICES ASSUME NEW n \in 1 .. Len(elf.segments), n < i + 1, Loads(Seg(n))
                 PROVE  Seg(n).vaddr + Seg(n).filesz <= ftext + filesz
      BY <1>5, <2>1 DEF Inside, Seg, Loads
    <3>1. CASE n < i
      BY <3>1 DEF ConvertInv, Copy, Inside
    <3>2. CASE n = i
      BY <1>2, <1>4, <2>3, <3>2, Sizes DEF Word
    <3> QED
      BY <1>1, <3>1, <3>2
  <2>5. image = [a \in 0 .. filesz - 1 |-> ByteAt(i - 1, ftext + a)]
    BY DEF ConvertInv, Copy, Copied
  <2>6. DOMAIN image \cup At(s) .. At(s) + s.filesz - 1 = 0 .. filesz - 1
    <3>1. DOMAIN image = 0 .. filesz - 1
      BY <2>5
    <3>2. s.filesz \in Nat
      BY <1>2, Sizes DEF Word
    <3>3. At(s) .. At(s) + s.filesz - 1 \subseteq 0 .. filesz - 1
      BY <1>4, <2>3, <3>2
    <3> QED
      BY <3>1, <3>3
  <2>7. ASSUME NEW a \in 0 .. filesz - 1
        PROVE  image'[a] = ByteAt(i, ftext + a)
    <3>1. Covers(i, ftext + a) <=> a \in At(s) .. At(s) + s.filesz - 1
      BY <1>2, <1>4, <1>10, <2>3, Sizes DEF Covers, Word
    <3>2. image'[a] = IF a \in At(s) .. At(s) + s.filesz - 1
                      THEN s.offset + a - At(s) ELSE ByteAt(i - 1, ftext + a)
      BY <2>1, <2>5, <2>6
    <3>3. s.offset + a - At(s) = s.offset + (ftext + a) - s.vaddr
      BY <1>2, <1>4, <2>3, Sizes DEF Word
    <3> QED
      BY <1>1, <3>1, <3>2, <3>3, ByteAtLast
  <2>8. Copied(i)'
    <3>1. image' = [a \in 0 .. filesz - 1 |-> image'[a]]
      BY <2>1, <2>6
    <3>2. image' = [a \in 0 .. filesz - 1 |-> ByteAt(i, ftext + a)]
      BY <2>7, <3>1
    <3> QED
      BY <1>1, <1>5, <1>6, <2>1, <3>2 DEF Copied
  <2> QED
    BY <1>7, <2>1, <2>4, <2>8
<1>11. CASE Loads(s) /\ ~(Fits(s) /\ s.offset + s.filesz <= elf.length)
  BY <1>8, <1>11 DEF Copy, Seg
<1> QED
  BY <1>9, <1>10, <1>11
-----------------------------------------------------------------------------
LEMMA OthersKeep ==
  ASSUME ConvertInv, IoError \/ ReadHeaders \/ Close \/ Load \/ ClearBlock \/ UNCHANGED programVars
  PROVE  ConvertInv'
<1>0. elf \in Elfs /\ Len(elf.segments) \in Nat /\ elf' = elf /\ ftext' = ftext
      /\ edata' = edata /\ filesz' = filesz /\ image' = image
  BY LenNat DEF ConvertInv, ConvertTypes, IoError, ReadHeaders, Close, Load, ClearBlock, programVars
<1>1. /\ \A k : Begun(k)' <=> Begun(k)
      /\ \A k : Inside(k)' <=> Inside(k)
      /\ \A k : Copied(k)' <=> Copied(k)
      /\ Checked' <=> Checked
  BY <1>0 DEF Begun, Inside, Copied, Checked, InMemory, AlignUp, Seg, Loads, ByteAt, Covering, Covers
<1>2. CASE IoError
  BY <1>0, <1>2 DEF ConvertInv, ConvertTypes, IoError, Exit, Past
<1>3. CASE ReadHeaders
  <2>1. i' = i /\ status = -1 /\ (stage' = "range" => i = 1)
    BY <1>3 DEF ConvertInv, ConvertTypes, ReadHeaders, Exit
  <2> QED
    BY <1>0, <1>1, <1>3, <2>1 DEF ConvertInv, ConvertTypes, ReadHeaders, Exit, Past, Begun
<1>4. CASE Close
  <2>1. i = Len(elf.segments) + 1
    BY <1>0, <1>4 DEF ConvertInv, ConvertTypes, Close
  <2> QED
    BY <1>0, <1>1, <1>4, <2>1 DEF ConvertInv, ConvertTypes, Close, Exit, Past
<1>5. CASE Load
  BY <1>0, <1>1, <1>5 DEF ConvertInv, ConvertTypes, Load, Past
<1>6. CASE ClearBlock
  BY <1>0, <1>1, <1>6 DEF ConvertInv, ConvertTypes, ClearBlock, Past
<1>7. CASE UNCHANGED programVars
  BY <1>0, <1>1, <1>7 DEF ConvertInv, ConvertTypes, programVars, Past
<1> QED
  BY <1>2, <1>3, <1>4, <1>5, <1>6, <1>7

LEMMA ConvertStep == ConvertInv /\ [ProgramNext]_programVars => ConvertInv'
  BY ScanKeeps, CheckRangeKeeps, FillKeeps, CopyKeeps, OthersKeep DEF ProgramNext

\* What elf2psx reports as converted (elf2psx.c:226-384) holds every segment
\* where the ELF says, in whole pages of the program's memory: no sum wraps.
THEOREM ImageExactHolds == ProgramSpec => []ImageExact
<1>1. ConvertInv => ImageExact
  <2> SUFFICES ASSUME ConvertInv, status = 0 PROVE ImageExact
    BY DEF ImageExact
  <2>1. /\ ConvertTypes /\ Checked /\ Begun(Len(elf.segments) + 1)
        /\ Inside(Len(elf.segments) + 1) /\ Copied(Len(elf.segments) + 1)
        /\ Len(elf.segments) \in Nat
    BY LenNat DEF ConvertInv, Past, ConvertTypes
  <2>2. \A n \in 1 .. Len(elf.segments) :
          Loads(Seg(n)) => /\ ftext <= Seg(n).vaddr
                           /\ Seg(n).vaddr + Seg(n).filesz <= ftext + filesz
    BY <2>1 DEF Begun, Inside
  <2>3. image = [a \in 0 .. filesz - 1 |-> ByteAt(Len(elf.segments), ftext + a)]
    BY <2>1 DEF Copied
  <2> QED
    BY <2>1, <2>2, <2>3, CheckedPages DEF ImageExact
<1> QED
  BY <1>1, ConvertInit, ConvertStep, PTL DEF ProgramSpec
-----------------------------------------------------------------------------
(***************************************************************************)
(* The console: the memory after the loader and _start.                    *)
(***************************************************************************)

\* Some segment before the k-th is loaded.
Some(k) == \E n \in 1 .. Len(elf.segments) : n < k /\ Loads(Seg(n))

\* What memory holds once _start has cleared up to t0.
Cleared ==
  \A a \in Low .. High - 1 :
    memory[a] = IF a \in elf.edata .. t0 - 1 THEN Blank
                ELSE IF a - ftext \in 0 .. filesz - 1 THEN ByteAt(Len(elf.segments), a)
                ELSE Junk

MemoryInv ==
  /\ stage = "header" => ftext = Modulus - 1 /\ edata = 0
  /\ stage = "range" => Some(i) \/ (ftext = Modulus - 1 /\ edata = 0)
  /\ Past => Some(Len(elf.segments) + 1)
  /\ stage \notin {"clear", "main"} => memory = [a \in Low .. High - 1 |-> Junk]
  /\ stage \in {"clear", "main"} =>
       status = 0 /\ DOMAIN memory = Low .. High - 1 /\ t0 \in Nat /\ t0 >= elf.edata /\ Cleared
  /\ stage = "main" => t0 >= elf.end

ConsoleInv == ConvertInv /\ MemoryInv

LEMMA MemoryInit == ProgramInit => MemoryInv
  BY DEF ProgramInit, MemoryInv, Past

\* elf2psx's steps leave the memory as it was.
LEMMA ConvertKeepsMemory ==
  ASSUME ConsoleInv, IoError \/ ReadHeaders \/ Scan \/ CheckRange \/ Fill \/ Copy \/ Close
  PROVE  MemoryInv'
<1>0. elf \in Elfs /\ Len(elf.segments) \in Nat /\ elf' = elf /\ memory' = memory
      /\ \A k : Some(k)' <=> Some(k)
  BY LenNat DEF ConsoleInv, ConvertInv, ConvertTypes, IoError, ReadHeaders, Scan, CheckRange, Fill,
       Copy, Close, Some, Seg, Loads
<1>1. memory = [a \in Low .. High - 1 |-> Junk] /\ stage \notin {"clear", "main"}
  BY DEF ConsoleInv, MemoryInv, IoError, ReadHeaders, Scan, CheckRange, Fill, Copy, Close
<1>2. CASE IoError
  BY <1>0, <1>1, <1>2 DEF MemoryInv, IoError, Exit, Past
<1>3. CASE ReadHeaders
  <2>1. ftext' = Modulus - 1 /\ edata' = 0 /\ status = -1
    BY <1>3 DEF ConsoleInv, ConvertInv, ConvertTypes, MemoryInv, ReadHeaders
  <2> QED
    BY <1>0, <1>1, <1>3, <2>1 DEF MemoryInv, ReadHeaders, Exit, Past
<1>4. CASE Scan
  <2>1. i \in 1 .. Len(elf.segments) /\ stage' = "range" /\ status' = -1 /\ i' = i + 1
    BY <1>0, <1>4 DEF ConsoleInv, ConvertInv, ConvertTypes, Scan
  <2>2. CASE Loads(Seg(i))
    <3>1. Some(i)'
      BY <1>0, <2>1, <2>2 DEF Some, Seg, Loads
    <3> QED
      BY <1>0, <1>1, <2>1, <3>1 DEF MemoryInv, Past
  <2>3. CASE ~Loads(Seg(i))
    <3>1. ftext' = ftext /\ edata' = edata
      BY <1>4, <2>3 DEF Scan, Seg
    <3>2. Some(i) => Some(i)'
      BY <1>0, <2>1 DEF Some, Seg, Loads
    <3> QED
      BY <1>0, <1>1, <1>4, <2>1, <3>1, <3>2 DEF ConsoleInv, MemoryInv, Past, Scan
  <2> QED
    BY <2>2, <2>3
<1>5. CASE CheckRange
  <2>1. i = Len(elf.segments) + 1 /\ status = -1
    BY <1>0, <1>5 DEF ConsoleInv, ConvertInv, ConvertTypes, CheckRange
  <2>2. InMemory => Some(Len(elf.segments) + 1)
    BY <1>5, <2>1, Sizes DEF ConsoleInv, MemoryInv, CheckRange, InMemory
  <2> QED
    BY <1>0, <1>1, <1>5, <2>1, <2>2 DEF MemoryInv, CheckRange, Exit, Past
<1>6. CASE Fill
  BY <1>0, <1>1, <1>6 DEF ConsoleInv, MemoryInv, Fill, Past
<1>7. CASE Copy
  BY <1>0, <1>1, <1>7 DEF ConsoleInv, MemoryInv, Copy, Exit, Past
<1>8. CASE Close
  BY <1>0, <1>1, <1>8 DEF ConsoleInv, MemoryInv, Close, Exit, Past
<1> QED
  BY <1>2, <1>3, <1>4, <1>5, <1>6, <1>7, <1>8

LEMMA LoadKeepsMemory ==
  ASSUME ConsoleInv, Load
  PROVE  MemoryInv'
<1>1. ConvertTypes /\ Checked /\ Copied(Len(elf.segments) + 1) /\ Some(Len(elf.segments) + 1)
  BY DEF ConsoleInv, ConvertInv, MemoryInv, Past, Load
<1>2. elf \in Elfs /\ Len(elf.segments) \in Nat /\ elf.edata \in Nat
  BY <1>1, LenNat, ElfTypes, Sizes DEF ConvertTypes, Word
<1>3. ftext \in Nat /\ filesz \in Nat
  BY <1>1, CheckedPages
<1>4. memory = [a \in Low .. High - 1 |-> Junk]
  BY DEF ConsoleInv, MemoryInv, Load
<1>5. image = [a \in 0 .. filesz - 1 |-> ByteAt(Len(elf.segments), ftext + a)]
  BY <1>1, <1>2 DEF Copied
<1>6. /\ elf' = elf /\ ftext' = ftext /\ filesz' = filesz /\ status' = 0 /\ t0' = elf.edata
      /\ stage' = "clear"
      /\ memory' = [a \in Low .. High - 1 |->
                      IF a - ftext \in 0 .. filesz - 1 THEN image[a - ftext] ELSE Junk]
  BY <1>4, <1>5 DEF Load
<1>7. \A n, a : ByteAt(n, a)' = ByteAt(n, a)
  BY <1>6 DEF ByteAt, Covering, Covers, Seg, Loads
<1>8. Some(Len(elf.segments) + 1)'
  BY <1>1, <1>6 DEF Some, Seg, Loads
<1>9. ASSUME NEW a \in Low .. High - 1
      PROVE  memory'[a] = IF a - ftext \in 0 .. filesz - 1
                          THEN ByteAt(Len(elf.segments), a) ELSE Junk
  <2>1. CASE a - ftext \in 0 .. filesz - 1
    <3>1. image[a - ftext] = ByteAt(Len(elf.segments), ftext + (a - ftext))
      BY <1>5, <2>1
    <3>2. ftext + (a - ftext) = a
      BY <1>3, Sizes
    <3> QED
      BY <1>6, <2>1, <3>1, <3>2
  <2>2. CASE a - ftext \notin 0 .. filesz - 1
    BY <1>6, <2>2
  <2> QED
    BY <2>1, <2>2
<1>10. Cleared'
  <2>1. \A a \in Low .. High - 1 : a \notin elf.edata .. elf.edata - 1
    BY <1>2, Sizes
  <2> QED
    BY <1>6, <1>7, <1>9, <2>1 DEF Cleared
<1> QED
  BY <1>2, <1>6, <1>8, <1>10 DEF MemoryInv, Past

\* Rounding the size up to whole blocks reaches the end.
LEMMA LastReaches ==
  ASSUME NEW e \in Nat, NEW d \in Nat, d <= e
  PROVE  d + ((e - d + ClearUnit - 1) \div ClearUnit) * ClearUnit >= e
<1>1. ClearUnit \in Nat \ {0}
  BY MemoryAssumption
<1>2. PICK k \in Nat, r \in 0 .. ClearUnit - 1 :
        k = (e - d + ClearUnit - 1) \div ClearUnit /\ e - d + ClearUnit - 1 = ClearUnit * k + r
  <2>1. e - d + ClearUnit - 1 \in Nat
    BY <1>1
  <2> QED
    BY <1>1, <2>1, Quotient
<1>3. ClearUnit * k \in Nat /\ ClearUnit * k = k * ClearUnit
  BY <1>1, <1>2
<1>4. ClearUnit * k >= e - d
  BY <1>1, <1>2, <1>3
<1> QED
  BY <1>2, <1>3, <1>4

LEMMA ClearKeepsMemory ==
  ASSUME ConsoleInv, ClearBlock
  PROVE  MemoryInv'
<1>1. /\ status = 0 /\ DOMAIN memory = Low .. High - 1 /\ t0 \in Nat /\ t0 >= elf.edata
      /\ Cleared /\ Some(Len(elf.segments) + 1) /\ elf \in Elfs
  BY DEF ConsoleInv, ConvertInv, ConvertTypes, MemoryInv, Past, ClearBlock
<1>2. elf.edata \in Nat /\ elf.end \in Nat /\ elf.edata <= elf.end
  BY <1>1, ElfTypes, Sizes DEF Word
<1>3. /\ elf' = elf /\ ftext' = ftext /\ filesz' = filesz /\ status' = 0 /\ t0' = t0 + ClearUnit
      /\ stage' \in {"clear", "main"}
      /\ memory' = [a \in Low .. High - 1 |-> IF a \in t0 .. t0 + ClearUnit - 1 THEN Blank ELSE memory[a]]
  BY <1>1 DEF ClearBlock
<1>4. ClearUnit \in Nat /\ ClearUnit > 0
  BY MemoryAssumption
<1>5. \A n, a : ByteAt(n, a)' = ByteAt(n, a)
  BY <1>3 DEF ByteAt, Covering, Covers, Seg, Loads
<1>6. Some(Len(elf.segments) + 1)'
  BY <1>1, <1>3 DEF Some, Seg, Loads
<1>7. Cleared'
  <2>1. \A a \in Low .. High - 1 :
          a \in elf.edata .. t0 + ClearUnit - 1 <=> a \in elf.edata .. t0 - 1 \/ a \in t0 .. t0 + ClearUnit - 1
    BY <1>1, <1>2, <1>4, Sizes
  <2>2. ASSUME NEW a \in Low .. High - 1
        PROVE  memory'[a] = IF a \in elf.edata .. (t0 + ClearUnit) - 1 THEN Blank
                            ELSE IF a - ftext \in 0 .. filesz - 1
                            THEN ByteAt(Len(elf.segments), a) ELSE Junk
    <3>1. memory'[a] = IF a \in t0 .. t0 + ClearUnit - 1 THEN Blank ELSE memory[a]
      BY <1>3
    <3>2. memory[a] = IF a \in elf.edata .. t0 - 1 THEN Blank
                      ELSE IF a - ftext \in 0 .. filesz - 1
                      THEN ByteAt(Len(elf.segments), a) ELSE Junk
      BY <1>1 DEF Cleared
    <3> QED
      BY <1>1, <1>2, <1>4, <2>1, <3>1, <3>2, Sizes
  <2> QED
    BY <1>3, <1>5, <2>2 DEF Cleared
<1>8. stage' = "main" => t0' >= elf.end
  <2>1. stage' = "main" => Last
    BY DEF ClearBlock
  <2>2. Last => t0 >= elf.end
    BY <1>2, LastReaches DEF Last
  <2> QED
    BY <1>1, <1>2, <1>3, <1>4, <2>1, <2>2
<1> QED
  BY <1>1, <1>2, <1>3, <1>4, <1>6, <1>7, <1>8 DEF MemoryInv, Past

LEMMA ConsoleStep == ConsoleInv /\ [ProgramNext]_programVars => ConsoleInv'
<1> SUFFICES ASSUME ConsoleInv, [ProgramNext]_programVars PROVE MemoryInv'
  BY ConvertStep DEF ConsoleInv
<1>1. CASE UNCHANGED programVars
  BY <1>1 DEF ConsoleInv, MemoryInv, programVars, Past, Some, Cleared, Seg, Loads, ByteAt, Covering, Covers
<1> QED
  BY <1>1, ConvertKeepsMemory, LoadKeepsMemory, ClearKeepsMemory DEF ProgramNext

\* main (called at the end of chenboot.S's _start) finds the segments' bytes,
\* and zeros from _edata to _end, for every program, memory map and block.
THEOREM MainFindsProgramHolds == ProgramSpec => []MainFindsProgram
<1>1. ConsoleInv => MainFindsProgram
  <2> SUFFICES ASSUME ConsoleInv, stage = "main", Linked PROVE MainFindsProgram
    BY DEF MainFindsProgram
  <2>1. /\ status = 0 /\ t0 \in Nat /\ t0 >= elf.end /\ Cleared
        /\ Some(Len(elf.segments) + 1) /\ elf \in Elfs /\ ConvertTypes /\ Checked
        /\ Begun(Len(elf.segments) + 1) /\ Inside(Len(elf.segments) + 1)
    BY DEF ConsoleInv, ConvertInv, ConvertTypes, MemoryInv, Past
  <2>2. elf.edata \in Nat /\ elf.end \in Nat /\ elf.end <= High /\ Len(elf.segments) \in Nat
    BY <2>1, ElfTypes, LenNat, Sizes DEF Word, Linked
  <2>3. Low <= ftext /\ ftext \in Nat /\ filesz \in Nat /\ ftext + filesz <= High
    BY <2>1, CheckedPages
  <2>4. ASSUME NEW n \in 1 .. Len(elf.segments), Loads(Seg(n))
        PROVE  /\ Seg(n).vaddr \in Nat /\ Seg(n).filesz \in Nat /\ Seg(n).filesz > 0
               /\ ftext <= Seg(n).vaddr
               /\ Seg(n).vaddr + Seg(n).filesz <= ftext + filesz
               /\ Seg(n).vaddr + Seg(n).filesz <= elf.edata
    BY <2>1, <2>2, <2>4, SegmentTypes, Sizes DEF Begun, Inside, Linked, Seg, Word, Loads
  <2>5. ASSUME NEW n \in 1 .. Len(elf.segments), Loads(Seg(n)),
               NEW a \in Seg(n).vaddr .. Seg(n).vaddr + Seg(n).filesz - 1
        PROVE  memory[a] = ByteAt(Len(elf.segments), a)
    <3>1. /\ Seg(n).vaddr \in Nat /\ Seg(n).filesz \in Nat /\ ftext <= Seg(n).vaddr
          /\ Seg(n).vaddr + Seg(n).filesz <= ftext + filesz
          /\ Seg(n).vaddr + Seg(n).filesz <= elf.edata
      BY <2>4, <2>5
    <3>2. /\ a \in Nat /\ Seg(n).vaddr <= a /\ a < Seg(n).vaddr + Seg(n).filesz
      BY <2>5, <3>1
    <3>3. a \in Low .. High - 1 /\ a - ftext \in 0 .. filesz - 1
      <4>1. ftext <= a /\ a < ftext + filesz
        BY <2>3, <3>1, <3>2
      <4> QED
        BY <2>3, <3>2, <4>1, Sizes
    <3>4. a \notin elf.edata .. t0 - 1
      BY <2>2, <3>1, <3>2
    <3> QED
      BY <2>1, <3>3, <3>4 DEF Cleared
  <2>6. Low <= elf.edata
    BY <2>1, <2>2, <2>3, <2>4, Sizes DEF Some
  <2>7. ASSUME NEW a \in elf.edata .. elf.end - 1 PROVE memory[a] = Blank
    <3>1. a \in Low .. High - 1 /\ a \in elf.edata .. t0 - 1
      BY <2>1, <2>2, <2>6, Sizes
    <3> QED
      BY <2>1, <3>1 DEF Cleared
  <2> QED
    BY <2>5, <2>7 DEF MainFindsProgram
<1>2. ProgramInit => ConsoleInv
  BY ConvertInit, MemoryInit DEF ConsoleInv
<1> QED
  BY <1>1, <1>2, ConsoleStep, PTL DEF ProgramSpec

-----------------------------------------------------------------------------
(***************************************************************************)
(* The buffers.                                                            *)
(***************************************************************************)
Places == {"setup", "show", "zero", "swap", "draw", "move", "read", "compare", "count", "expect"}

\* The value main has read: in its register, or in the frame of the exception.
Read == IF isr = "none" THEN temp ELSE frame

Types ==
  /\ pc \in Places /\ isr \in {"none", "handle", "leave"}
  /\ vidy \in Buffers /\ out \in Buffers /\ realOut \in Buffers
  /\ canvas \in [Buffers -> {"junk", "partial", "whole"}]

\* The hand-over of the buffers: the screen shows what the handler published;
\* while main draws, that is the other buffer; and while main waits, it is
\* one main has drawn.
HandOver ==
  /\ display = realOut
  /\ pc \in {"setup", "show", "zero", "swap", "count", "expect"} => out = vidy /\ realOut = vidy
  /\ pc \in {"draw", "move"} => realOut = out /\ out = 200 - vidy
  /\ pc \in {"read", "compare"} => out = vidy
  /\ pc = "compare" => Read = out
  /\ pc \notin {"setup", "show"} => canvas[realOut] = "whole"
  /\ pc \in {"move", "read", "compare"} => canvas[vidy] = "whole"

BufferInv == Types /\ HandOver

LEMMA BufferInit == Init => BufferInv
  BY DEF Init, BufferInv, Types, HandOver, Buffers, Places, Read

\* main's steps.
LEMMA MainKeepsBuffers ==
  ASSUME BufferInv, MainStep
  PROVE  BufferInv'
<1> USE DEF BufferInv, Types, HandOver, Buffers, Places, Read, Main, shared, dispatch, gpu
<1>1. CASE Setup
  BY <1>1 DEF Setup
<1>2. CASE ShowFirst
  BY <1>2 DEF ShowFirst
<1>3. CASE ZeroCounter
  BY <1>3 DEF ZeroCounter
<1>4. CASE Clear
  BY <1>4 DEF Clear, OtherBuffer
<1>5. CASE Draw
  BY <1>5 DEF Draw
<1>6. CASE Move
  BY <1>6 DEF Move
<1>7. CASE Publish
  BY <1>7 DEF Publish
<1>8. CASE ReadOut
  BY <1>8 DEF ReadOut
<1>9. CASE Compare
  BY <1>9 DEF Compare
<1>10. CASE ReadCounter
  BY <1>10 DEF ReadCounter
<1>11. CASE Count
  BY <1>11 DEF Count
<1> QED
  BY <1>1, <1>2, <1>3, <1>4, <1>5, <1>6, <1>7, <1>8, <1>9, <1>10, <1>11 DEF MainStep

\* The interrupt, and steps of nobody.
LEMMA HandlerKeepsBuffers ==
  ASSUME BufferInv, Vblank \/ Handler \/ UNCHANGED vars
  PROVE  BufferInv'
<1> USE DEF BufferInv, Types, HandOver, Buffers, Places, Read, main, shared, dispatch, gpu
<1>1. CASE Vblank
  BY <1>1 DEF Vblank
<1>2. CASE Dispatch
  BY <1>2 DEF Dispatch
<1>3. CASE Handle
  BY <1>3 DEF Handle, Shown
<1>4. CASE Leave
  BY <1>4 DEF Leave, Restored
<1>5. CASE UNCHANGED vars
  BY <1>5 DEF vars
<1> QED
  BY <1>1, <1>2, <1>3, <1>4, <1>5 DEF Handler

LEMMA BufferStep == BufferInv /\ [Next]_vars => BufferInv'
  BY MainKeepsBuffers, HandlerKeepsBuffers DEF Next

LEMMA BuffersHold == Spec => []BufferInv
  BY BufferInit, BufferStep, PTL DEF Spec

\* From the main loop on, what is on the screen is a whole picture
\* (main.c:141-160 and :72), whenever interrupts come.
THEOREM WholePicturesHolds == Spec => []WholePictures
<1>1. BufferInv => WholePictures
  BY DEF BufferInv, Types, HandOver, WholePictures
<1> QED
  BY <1>1, BuffersHold, PTL

-----------------------------------------------------------------------------
(***************************************************************************)
(* The account of the blanks.                                              *)
(***************************************************************************)

LEMMA CounterModNat == CounterMod \in Nat /\ CounterMod > 0 /\ MaxBehind \in Nat /\ MaxBehind + 1 < CounterMod
  BY CounterAssumption

\* Within one width of the counter, Wrap is a case distinction.
LEMMA WrapCases ==
  ASSUME NEW n \in Int, -CounterMod <= n, n < 2 * CounterMod
  PROVE  Wrap(n) = IF n < 0 THEN n + CounterMod
                   ELSE IF n < CounterMod THEN n ELSE n - CounterMod
<1> USE CounterModNat DEF Wrap
<1>1. CASE n < 0
  BY <1>1, Remainder, n = CounterMod * (-1) + (n + CounterMod)
<1>2. CASE 0 <= n /\ n < CounterMod
  BY <1>2, Remainder, n = CounterMod * 0 + n
<1>3. CASE CounterMod <= n
  BY <1>3, Remainder, n = CounterMod * 1 + (n - CounterMod)
<1> QED
  BY <1>1, <1>2, <1>3

\* A blank that is pending and not counted yet.
Unhandled == IF pending /\ isr # "leave" THEN 1 ELSE 0

\* The blanks main has read from the counter and not moved for, and the
\* counter up to which it has read.
Mine == IF pc = "expect" THEN Wrap(Read - expected) ELSE Unmoved
Upto == IF pc = "expect" THEN Read ELSE expected

Early == {"setup", "show", "zero"}

Numbers ==
  /\ counter \in Counters /\ expected \in Counters /\ owed \in Counters
  /\ vblanks \in Counters /\ moves \in Counters
  /\ pc = "expect" => Read \in Counters

\* The counter is ahead of what main has read by the blanks it does not know
\* of yet.
Account ==
  pc \notin Early => Mine <= owed /\ counter = Wrap(Upto + owed - Mine)

\* It is never ahead by a full turn of the counter.
Bounded ==
  /\ isr # "none" => pending
  /\ pc \in Early => owed + Unhandled <= MaxBehind
  /\ owed + Unhandled <= MaxBehind + 1
  /\ pc \in {"swap", "draw", "move"} => owed + Unhandled - Unmoved <= MaxBehind
  /\ pc \in {"read", "compare"} /\ out # realOut => owed <= MaxBehind
  /\ pc \in {"read", "compare"} /\ out = realOut => owed >= 1
  /\ pc = "count" => owed >= 1
  /\ pc = "expect" => Mine >= 1

TimeInv == BufferInv /\ Numbers /\ Account /\ Bounded

LEMMA TimeInit == Init => TimeInv
<1> SUFFICES ASSUME Init PROVE TimeInv
  OBVIOUS
<1>1. Numbers
  BY CounterModNat DEF Init, Numbers, Counters
<1>2. Account
  BY DEF Init, Account, Early
<1>3. Bounded
  BY CounterModNat DEF Init, Bounded, Early, Unhandled
<1> QED
  BY <1>1, <1>2, <1>3, BufferInit DEF TimeInv

LEMMA MainKeepsTime ==
  ASSUME TimeInv, MainStep
  PROVE  Numbers' /\ Account' /\ Bounded'
<1>0. BufferInv'
  BY MainKeepsBuffers DEF TimeInv
<1> HIDE DEF Wrap
<1> USE CounterModNat, WrapCases
      DEF TimeInv, Numbers, Account, Bounded, Unhandled, Mine, Upto, Unmoved, Counters,
          Early, Main, shared, dispatch, gpu, Read
<1>1. CASE Setup
  BY <1>1 DEF Setup
<1>2. CASE ShowFirst
  BY <1>2 DEF ShowFirst
<1>3. CASE ZeroCounter
  BY <1>3 DEF ZeroCounter
<1>4. CASE Clear
  BY <1>4 DEF Clear
<1>5. CASE Draw
  BY <1>5 DEF Draw
<1>6. CASE Move
  BY <1>6 DEF Move
<1>7. CASE Publish
  BY <1>7 DEF Publish, BufferInv, Types, HandOver, Buffers
<1>8. CASE ReadOut
  BY <1>8 DEF ReadOut
<1>9. CASE Compare
  BY <1>9 DEF Compare, BufferInv, HandOver
<1>10. CASE ReadCounter
  BY <1>10 DEF ReadCounter
<1>11. CASE Count
  BY <1>11 DEF Count, Counted
<1> QED
  BY <1>1, <1>2, <1>3, <1>4, <1>5, <1>6, <1>7, <1>8, <1>9, <1>10, <1>11 DEF MainStep

LEMMA HandlerKeepsTime ==
  ASSUME TimeInv, Vblank \/ Handler \/ UNCHANGED vars
  PROVE  Numbers' /\ Account' /\ Bounded'
<1> HIDE DEF Wrap
<1> USE CounterModNat, WrapCases
      DEF TimeInv, Numbers, Account, Bounded, Unhandled, Mine, Upto, Unmoved, Counters,
          Early, main, shared, dispatch, gpu, Read
<1>1. CASE Vblank
  BY <1>1 DEF Vblank, BufferInv, Types, HandOver, Places
<1>2. CASE Dispatch
  BY <1>2 DEF Dispatch
<1>3. CASE Handle
  <2>1. owed < CounterMod - 1 /\ owed' = owed + 1
    BY <1>3 DEF Handle
  <2>2. Mine' = Mine /\ Upto' = Upto
    BY <1>3 DEF Handle
  <2>3. Numbers'
    BY <1>3, <2>1 DEF Handle
  <2>4. Account'
    BY <1>3, <2>1, <2>2 DEF Handle
  <2>5. Bounded'
    BY <1>3, <2>1, <2>2 DEF Handle, Shown
  <2> QED
    BY <2>3, <2>4, <2>5
<1>4. CASE Leave
  BY <1>4 DEF Leave, Restored
<1>5. CASE UNCHANGED vars
  BY <1>5 DEF vars
<1> QED
  BY <1>1, <1>2, <1>3, <1>4, <1>5 DEF Handler

LEMMA TimeStep == TimeInv /\ [Next]_vars => TimeInv'
  BY MainKeepsTime, HandlerKeepsTime, BufferStep DEF Next, TimeInv

\* The triangle moves once for each vertical blank (main.c:165-180), also when
\* vblank_counter wraps, whatever its width.
THEOREM TimeKeptHolds == Spec => []TimeKept
<1>1. TimeInv => TimeKept
  <2> HIDE DEF Wrap
  <2> QED
    BY CounterModNat, WrapCases
    DEF TimeInv, Numbers, Account, Bounded, Mine, Upto, Unmoved, Counters, Early, TimeKept
<1> QED
  BY <1>1, TimeInit, TimeStep, PTL DEF Spec
-----------------------------------------------------------------------------
(***************************************************************************)
(* The types of the variables, and the motion.                             *)
(***************************************************************************)
\* The triangle falls along one of two parabolas, from a height of -45 or -39,
\* and takes the other one when it bounces; it drifts by 4 to either side.
Heights == {-45, -39}

PoseInv ==
  /\ pose \in [x : -100 .. 100, y : Int, vx : {-4, 4}, vy : -12 .. 11]
  /\ \E top \in Heights : 2 * pose.y = 2 * top + pose.vy * (pose.vy + 1)

RegisterInv == temp \in Buffers \cup Counters /\ frame \in Buffers \cup Counters

\* On either parabola the triangle stays between -50 and 30, and the step that
\* would reach the floor bounces it onto the other.
LEMMA Parabola ==
  ASSUME NEW y \in Int, NEW vy \in -12 .. 11, NEW top \in Heights,
         2 * y = 2 * top + vy * (vy + 1)
  PROVE  /\ y \in -50 .. 30
         /\ y + vy + 1 < 30 => vy + 1 \in -12 .. 11
                  /\ 2 * (y + vy + 1) = 2 * top + (vy + 1) * (vy + 1 + 1)
         /\ y + vy + 1 >= 30 => -(vy + 1) \in -12 .. 11
              /\ 2 * (60 - (y + vy + 1)) = 2 * (-84 - top) + (-(vy + 1)) * (-(vy + 1) + 1)
<1>1. top = -45 \/ top = -39
  BY DEF Heights
<1>2. (vy = -12 \/ vy = -11 \/ vy = -10 \/ vy = -9 \/ vy = -8 \/ vy = -7 \/ vy = -6 \/ vy = -5
        \/ vy = -4 \/ vy = -3 \/ vy = -2 \/ vy = -1)
      \/ (vy = 0 \/ vy = 1 \/ vy = 2 \/ vy = 3 \/ vy = 4 \/ vy = 5 \/ vy = 6 \/ vy = 7
           \/ vy = 8 \/ vy = 9 \/ vy = 10 \/ vy = 11)
  OBVIOUS
<1> QED
  BY <1>1, <1>2

LEMMA PoseInit == Init => PoseInv /\ RegisterInv
<1> SUFFICES ASSUME Init PROVE PoseInv /\ RegisterInv
  OBVIOUS
<1>1. -45 \in Heights /\ 2 * (-45) = 2 * (-45) + 0 * (0 + 1)
  BY DEF Heights
<1> QED
  BY <1>1 DEF Init, PoseInv, RegisterInv, Buffers

LEMMA FallOf ==
  ASSUME NEW p, NEW x \in Int, NEW y \in Int, NEW vx \in Int, NEW vy \in Int,
         p = [x |-> x, y |-> y, vx |-> vx, vy |-> vy]
  PROVE  Fall(p) = IF y + vy + 1 >= 30
                   THEN [x |-> x, y |-> 60 - (y + vy + 1), vx |-> vx, vy |-> -(vy + 1)]
                   ELSE [x |-> x, y |-> y + vy + 1, vx |-> vx, vy |-> vy + 1]
<1>1. p.vy = vy /\ p.y = y
  OBVIOUS
<1>2. y + (vy + 1) = y + vy + 1
  OBVIOUS
<1>3. Fall(p) = IF y + vy + 1 >= 30
                THEN [p EXCEPT !.y = 60 - (y + vy + 1), !.vy = -(vy + 1)]
                ELSE [p EXCEPT !.y = y + vy + 1, !.vy = vy + 1]
  BY <1>1, <1>2 DEF Fall
<1>4. \A h, v : [p EXCEPT !.y = h, !.vy = v] = [x |-> x, y |-> h, vx |-> vx, vy |-> v]
  <2> TAKE h, v
  <2>1. PICK q : q = [p EXCEPT !.y = h]
    OBVIOUS
  <2>2. q = [x |-> x, y |-> h, vx |-> vx, vy |-> vy]
    BY <2>1
  <2>3. [q EXCEPT !.vy = v] = [x |-> x, y |-> h, vx |-> vx, vy |-> v]
    BY <2>2
  <2>4. [p EXCEPT !.y = h, !.vy = v] = [[p EXCEPT !.y = h] EXCEPT !.vy = v]
    OBVIOUS
  <2> QED
    BY <2>1, <2>3, <2>4, Zenon
<1> QED
  BY <1>3, <1>4

LEMMA DriftOf ==
  ASSUME NEW p \in [x : -100 .. 100, y : Int, vx : {-4, 4}, vy : Int]
  PROVE  /\ Drift(p) \in [x : -100 .. 100, y : Int, vx : {-4, 4}, vy : Int]
         /\ Drift(p).y = p.y /\ Drift(p).vy = p.vy
<1>0. PICK x \in -100 .. 100, y \in Int, vx \in {-4, 4}, vy \in Int :
        p = [x |-> x, y |-> y, vx |-> vx, vy |-> vy]
  OBVIOUS
<1>1. p.x = x /\ p.vx = vx
  BY <1>0
<1>2. Drift(p) = CASE x + vx >= 100 /\ vx > 0 -> [p EXCEPT !.x = 200 - (x + vx), !.vx = -vx]
                   [] x + vx <= -100 /\ vx < 0 -> [p EXCEPT !.x = -200 - (x + vx), !.vx = -vx]
                   [] OTHER -> [p EXCEPT !.x = x + vx]
  BY <1>1 DEF Drift
<1>3. \A a, v : [p EXCEPT !.x = a, !.vx = v] = [x |-> a, y |-> y, vx |-> v, vy |-> vy]
  <2> TAKE a, v
  <2>1. PICK q : q = [p EXCEPT !.x = a]
    OBVIOUS
  <2>2. q = [x |-> a, y |-> y, vx |-> vx, vy |-> vy]
    BY <1>0, <2>1
  <2>3. [q EXCEPT !.vx = v] = [x |-> a, y |-> y, vx |-> v, vy |-> vy]
    BY <2>2
  <2>4. [p EXCEPT !.x = a, !.vx = v] = [[p EXCEPT !.x = a] EXCEPT !.vx = v]
    OBVIOUS
  <2> QED
    BY <2>1, <2>3, <2>4, Zenon
<1>4. \A a : [p EXCEPT !.x = a] = [x |-> a, y |-> y, vx |-> vx, vy |-> vy]
  BY <1>0
<1> SUFFICES \E x2 \in -100 .. 100, vx2 \in {-4, 4} :
               Drift(p) = [x |-> x2, y |-> y, vx |-> vx2, vy |-> vy]
  BY <1>0
<1>5. CASE x + vx >= 100 /\ vx > 0
  <2>1. Drift(p) = [x |-> 200 - (x + vx), y |-> y, vx |-> -vx, vy |-> vy]
    <3>1. Drift(p) = [p EXCEPT !.x = 200 - (x + vx), !.vx = -vx]
      BY <1>2, <1>5
    <3> QED
      BY <1>3, <3>1, Zenon
  <2> QED
    BY <1>5, <2>1, 200 - (x + vx) \in -100 .. 100, -vx \in {-4, 4}
<1>6. CASE x + vx <= -100 /\ vx < 0
  <2>1. Drift(p) = [x |-> -200 - (x + vx), y |-> y, vx |-> -vx, vy |-> vy]
    <3>1. Drift(p) = [p EXCEPT !.x = -200 - (x + vx), !.vx = -vx]
      BY <1>2, <1>6
    <3> QED
      BY <1>3, <3>1, Zenon
  <2> QED
    BY <1>6, <2>1, -200 - (x + vx) \in -100 .. 100, -vx \in {-4, 4}
<1>7. CASE ~(x + vx >= 100 /\ vx > 0) /\ ~(x + vx <= -100 /\ vx < 0)
  <2>1. Drift(p) = [x |-> x + vx, y |-> y, vx |-> vx, vy |-> vy]
    BY <1>2, <1>4, <1>7
  <2> QED
    BY <1>7, <2>1, x + vx \in -100 .. 100
<1> QED
  BY <1>0, <1>5, <1>6, <1>7

LEMMA MoveKeepsPose ==
  ASSUME PoseInv, pose' = Drift(Fall(pose))
  PROVE  PoseInv'
<1>1. PICK top \in Heights : 2 * pose.y = 2 * top + pose.vy * (pose.vy + 1)
  BY DEF PoseInv
<1>2. PICK x \in -100 .. 100, y \in Int, vx \in {-4, 4}, vy \in -12 .. 11 :
        pose = [x |-> x, y |-> y, vx |-> vx, vy |-> vy]
  BY DEF PoseInv
<1>3. 2 * y = 2 * top + vy * (vy + 1)
  BY <1>1, <1>2
<1>4. PICK y2 \in Int, vy2 \in -12 .. 11, top2 \in Heights :
        /\ 2 * y2 = 2 * top2 + vy2 * (vy2 + 1)
        /\ Fall(pose) = [x |-> x, y |-> y2, vx |-> vx, vy |-> vy2]
  <2> DEFINE low == y + vy + 1
             up == vy + 1
  <2>0. low \in Int /\ 60 - low \in Int /\ -84 - top \in Heights
    BY DEF Heights
  <2>1. /\ low < 30 => up \in -12 .. 11 /\ 2 * low = 2 * top + up * (up + 1)
        /\ low >= 30 => -up \in -12 .. 11
             /\ 2 * (60 - low) = 2 * (-84 - top) + (-up) * (-up + 1)
    BY <1>3, Parabola
  <2>2. Fall(pose) = IF low >= 30 THEN [x |-> x, y |-> 60 - low, vx |-> vx, vy |-> -up]
                     ELSE [x |-> x, y |-> low, vx |-> vx, vy |-> up]
    BY <1>2, FallOf
  <2> HIDE DEF low, up
  <2>3. CASE low < 30
    BY <2>0, <2>1, <2>2, <2>3
  <2>4. CASE low >= 30
    <3>1. PICK y2 \in Int, vy2 \in -12 .. 11, top2 \in Heights :
            y2 = 60 - low /\ vy2 = -up /\ top2 = -84 - top
      BY <2>0, <2>1, <2>4
    <3> QED
      BY <2>1, <2>2, <2>4, <3>1
  <2>5. low < 30 \/ low >= 30
    BY <2>0
  <2> QED
    BY <2>3, <2>4, <2>5
<1>5. Fall(pose) \in [x : -100 .. 100, y : Int, vx : {-4, 4}, vy : Int]
  BY <1>4
<1>6. /\ pose' \in [x : -100 .. 100, y : Int, vx : {-4, 4}, vy : Int]
      /\ pose'.y = Fall(pose).y /\ pose'.vy = Fall(pose).vy
  BY <1>5, DriftOf
<1>7. pose'.y = y2 /\ pose'.vy = vy2
  BY <1>4, <1>6
<1> QED
  BY <1>4, <1>6, <1>7 DEF PoseInv

LEMMA PoseStep ==
  ASSUME PoseInv, RegisterInv, TimeInv, [Next]_vars
  PROVE  PoseInv' /\ RegisterInv'
<1>1. PoseInv'
  <2>1. CASE Move
    BY <2>1, MoveKeepsPose DEF Move
  <2>2. CASE UNCHANGED pose
    BY <2>2 DEF PoseInv
  <2>3. Move \/ UNCHANGED pose
    BY DEF Next, MainStep, Setup, ShowFirst, ZeroCounter, Clear, Draw, Publish, ReadOut, Compare,
           ReadCounter, Count, Vblank, Handler, Dispatch, Handle, Leave, vars, main
  <2> QED
    BY <2>1, <2>2, <2>3
<1>2. RegisterInv'
  <2>1. out \in Buffers /\ counter \in Counters
    BY DEF TimeInv, BufferInv, Types, Numbers
  <2>2. temp' \in {temp, out, counter, frame} \cup Buffers /\ frame' \in {frame, temp}
    BY DEF Next, MainStep, Setup, ShowFirst, ZeroCounter, Clear, Draw, Move, Publish, ReadOut, Compare,
           ReadCounter, Count, Vblank, Handler, Dispatch, Handle, Leave, Restored, vars, main, dispatch
  <2> QED
    BY <2>1, <2>2 DEF RegisterInv
<1> QED
  BY <1>1, <1>2

\* The types of the variables; in particular the triangle stays on the picture
\* for ever: the rounding of its motion (main.c:165-180) neither gains nor
\* loses height, so that it bounces between the same two parabolas.
THEOREM TypeCorrect == Spec => []TypeOK
<1> DEFINE Inv == TimeInv /\ PoseInv /\ RegisterInv
<1>1. Init => Inv
  BY TimeInit, PoseInit
<1>2. Inv /\ [Next]_vars => Inv'
  BY TimeStep, PoseStep
<1>3. Inv => TypeOK
  <2> SUFFICES ASSUME Inv PROVE TypeOK
    OBVIOUS
  <2>1. pose.x \in -100 .. 100 /\ pose.y \in -50 .. 30
    <3>1. PICK top \in Heights : 2 * pose.y = 2 * top + pose.vy * (pose.vy + 1)
      BY DEF PoseInv
    <3> QED
      BY <3>1, Parabola DEF PoseInv
  <2>2. display \in Buffers
    BY DEF TimeInv, BufferInv, Types, HandOver
  <2> QED
    BY <2>1, <2>2 DEF TypeOK, TimeInv, BufferInv, Types, Numbers, RegisterInv, Places
<1> HIDE DEF Inv
<1> QED
  BY <1>1, <1>2, <1>3, PTL DEF Spec
=============================================================================
