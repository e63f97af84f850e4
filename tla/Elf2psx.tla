------------------------------- MODULE Elf2psx -------------------------------
(***************************************************************************)
(* From the linker to main: elf2psx (src/toolsrc/elf2psx/elf2psx.c) turns  *)
(* an executable into an image of 2 KB pages, the console's loader, which  *)
(* is outside the repository, copies the image into memory, and _start of  *)
(* chenboot (src/src/chenboot/chenboot.S) clears what the image does not   *)
(* hold and calls main.                                                    *)
(*                                                                         *)
(* A byte of the ELF is the offset at which it lies there; 0 is a blank    *)
(* byte, as nothing but the header lies at offset 0.  Addresses and sizes  *)
(* are uint32_t and wrap.                                                  *)
(***************************************************************************)
EXTENDS Integers, Sequences

CONSTANTS
  Modulus,     \* 2^32
  Page,        \* 0x800
  Low, High,   \* 0x80010000, 0x80200000: the memory a program may use
  ClearUnit,   \* 16: bytes _start clears at a time
  Elfs         \* the executables: [header, length, segments, edata, end]

ASSUME MemoryAssumption ==
  /\ {Modulus, Page, ClearUnit} \subseteq Nat \ {0}
  /\ {Low, High} \subseteq Nat
  /\ Low < High /\ High + Page < Modulus
  /\ Low % Page = 0 /\ High % Page = 0

Word == 0 .. Modulus - 1
Segments == [load : BOOLEAN, offset : Word \ {0}, vaddr : Word, filesz : Word]

\* An ELF is no longer than what is left of 4 GB beside the memory, about
\* 4094 MB; the linker's symbols _edata and _end are in this order.
ASSUME ElfAssumption ==
  \A e \in Elfs :
    /\ e.header \in {"good", "bad"}
    /\ e.length \in 0 .. Modulus - (High - Low)
    /\ e.segments \in Seq(Segments)
    /\ e.edata \in Word /\ e.end \in Word /\ e.edata <= e.end

VARIABLES
  stage,    \* the place in elf2psx and on the console
  elf,      \* the ELF
  i,        \* the program header the loops are at
  ftext,    \* target_ftext
  edata,    \* target_edata
  filesz,   \* psxh.filesz, in bytes
  image,    \* the output behind its header
  status,   \* what elf2psx returned, -1 before
  memory,   \* the console's memory
  t0        \* _start's pointer

programVars == <<stage, elf, i, ftext, edata, filesz, image, status, memory, t0>>

Blank == 0
Junk  == -1

\* Sums and differences of uint32_t; AlignUp is (n + 0x7FF) & ~0x7FF.
Plus(a, b)  == IF a + b < Modulus THEN a + b ELSE a + b - Modulus
Minus(a, b) == IF a >= b THEN a - b ELSE a - b + Modulus
AlignUp(n)  == ((n + Page - 1) \div Page) * Page

ProgramInit ==
  /\ stage = "header" /\ elf \in Elfs
  /\ i = 1 /\ ftext = Modulus - 1 /\ edata = 0 /\ filesz = 0
  /\ image = <<>> /\ status = -1
  /\ memory = [a \in Low .. High - 1 |-> Junk] /\ t0 = 0

-----------------------------------------------------------------------------
(* elf2psx. *)

Exit(r) == stage' = "exited" /\ status' = r

\* A call of the C library fails.  What was written of the output stays.
IoError ==
  /\ stage \in {"header", "range", "fill", "copy"}
  /\ Exit(1)
  /\ UNCHANGED <<elf, i, ftext, edata, filesz, image, memory, t0>>

\* The header's fields are checked, and the program headers are read.
ReadHeaders ==
  /\ stage = "header"
  /\ IF elf.header = "bad" \/ elf.segments = <<>>
     THEN Exit(1)
     ELSE stage' = "range" /\ UNCHANGED status
  /\ UNCHANGED <<elf, i, ftext, edata, filesz, image, memory, t0>>

Loads(s) == s.load /\ s.filesz > 0

\* A round of the loop that finds start and end of the program.
Scan ==
  LET s == elf.segments[i]
      e == Plus(s.vaddr, s.filesz)
  IN
  /\ stage = "range" /\ i <= Len(elf.segments)
  /\ ftext' = IF Loads(s) /\ s.vaddr < ftext THEN s.vaddr ELSE ftext
  /\ edata' = IF Loads(s) /\ e > edata THEN e ELSE edata
  /\ i' = i + 1
  /\ UNCHANGED <<stage, elf, filesz, image, status, memory, t0>>

InMemory == ftext <= edata /\ Low <= ftext /\ edata <= High /\ ftext % Page = 0

\* The range is checked and rounded to pages, and the output is opened.
CheckRange ==
  /\ stage = "range" /\ i > Len(elf.segments)
  /\ IF InMemory
     THEN stage' = "fill" /\ filesz' = AlignUp(edata) - ftext /\ UNCHANGED status
     ELSE Exit(1) /\ UNCHANGED filesz
  /\ UNCHANGED <<elf, i, ftext, edata, image, memory, t0>>

\* The header and blank pages are written.
Fill ==
  /\ stage = "fill"
  /\ stage' = "copy" /\ i' = 1
  /\ image' = [a \in 0 .. filesz - 1 |-> Blank]
  /\ UNCHANGED <<elf, ftext, edata, filesz, status, memory, t0>>

\* Where a segment lies in the image, and whether it fits (mutant: only its
\* end is checked, which wraps).
At(s) == Minus(s.vaddr, ftext)
FitsByEnd(s) == Plus(At(s), s.filesz) <= filesz
Fits(s) == At(s) < filesz /\ Plus(At(s), s.filesz) <= filesz

\* A segment is copied; fread fails when the file ends before it does.
Copy ==
  LET s == elf.segments[i] IN
  /\ stage = "copy" /\ i <= Len(elf.segments)
  /\ IF Loads(s)
     THEN IF Fits(s) /\ s.offset + s.filesz <= elf.length
          THEN /\ image' = [a \in DOMAIN image \cup At(s) .. At(s) + s.filesz - 1 |->
                              IF a \in At(s) .. At(s) + s.filesz - 1
                              THEN s.offset + a - At(s) ELSE image[a]]
               /\ i' = i + 1
               /\ UNCHANGED <<stage, status>>
          ELSE Exit(1) /\ UNCHANGED <<i, image>>
     ELSE i' = i + 1 /\ UNCHANGED <<stage, image, status>>
  /\ UNCHANGED <<elf, ftext, edata, filesz, memory, t0>>

Close ==
  /\ stage = "copy" /\ i > Len(elf.segments)
  /\ Exit(0)
  /\ UNCHANGED <<elf, i, ftext, edata, filesz, image, memory, t0>>

-----------------------------------------------------------------------------
(* The console. *)

\* The loader puts the image where its header says.
Load ==
  /\ stage = "exited" /\ status = 0
  /\ stage' = "clear" /\ t0' = elf.edata
  /\ memory' = [a \in DOMAIN memory |->
                  IF a - ftext \in DOMAIN image THEN image[a - ftext] ELSE memory[a]]
  /\ UNCHANGED <<elf, i, ftext, edata, filesz, image, status>>

\* The block at t0 is the last one _start clears: the size is rounded up, and
\* the bound included (mutant: rounded down, and the bound left out).
LastDown == t0 + ClearUnit >= elf.edata + ((elf.end - elf.edata) \div ClearUnit) * ClearUnit
Last     == t0 = elf.edata + ((elf.end - elf.edata + ClearUnit - 1) \div ClearUnit) * ClearUnit

\* A round of _start's loop; the branch's delay slot advances the pointer.
ClearBlock ==
  /\ stage = "clear"
  /\ memory' = [a \in DOMAIN memory |-> IF a \in t0 .. t0 + ClearUnit - 1 THEN Blank ELSE memory[a]]
  /\ t0' = t0 + ClearUnit
  /\ stage' = IF Last THEN "main" ELSE "clear"
  /\ UNCHANGED <<elf, i, ftext, edata, filesz, image, status>>
-----------------------------------------------------------------------------
ProgramNext ==
  \/ IoError \/ ReadHeaders \/ Scan \/ CheckRange \/ Fill \/ Copy \/ Close
  \/ Load \/ ClearBlock

ProgramSpec == ProgramInit /\ [][ProgramNext]_programVars
-----------------------------------------------------------------------------
(***************************************************************************)
(* Properties                                                              *)
(***************************************************************************)
Seg(n)       == elf.segments[n]
Covers(n, a) == Loads(Seg(n)) /\ Seg(n).vaddr <= a /\ a < Seg(n).vaddr + Seg(n).filesz

\* The byte the first n segments put at an address: the last of them has it.
Covering(n, a) == {m \in 1 .. n : Covers(m, a)}
Top(S) == CHOOSE m \in S : \A k \in S : k <= m
ByteAt(n, a) ==
  IF Covering(n, a) = {} THEN Blank
  ELSE Seg(Top(Covering(n, a))).offset + a - Seg(Top(Covering(n, a))).vaddr

\* The image elf2psx reports as converted is one of whole pages within the
\* program's memory, holds every segment, and has every byte of it where the
\* ELF says, whatever addresses and sizes wrap.
ImageExact ==
  status = 0 =>
    /\ Low <= ftext /\ ftext + filesz <= High
    /\ ftext % Page = 0 /\ filesz % Page = 0
    /\ \A n \in 1 .. Len(elf.segments) :
         Loads(Seg(n)) => /\ ftext <= Seg(n).vaddr
                          /\ Seg(n).vaddr + Seg(n).filesz <= ftext + filesz
    /\ image = [a \in 0 .. filesz - 1 |-> ByteAt(Len(elf.segments), ftext + a)]

\* What a linker makes of a program: _edata is where its segments end, and
\* what _start clears is memory.
Linked ==
  /\ elf.end <= High
  /\ \A n \in 1 .. Len(elf.segments) :
       Loads(Seg(n)) => Seg(n).vaddr + Seg(n).filesz <= elf.edata

\* When main is called, memory is what the program was linked to find: the
\* segments' bytes, and zeros from _edata to _end.
MainFindsProgram ==
  stage = "main" /\ Linked =>
    /\ \A n \in 1 .. Len(elf.segments) : Loads(Seg(n)) =>
         \A a \in Seg(n).vaddr .. Seg(n).vaddr + Seg(n).filesz - 1 :
           memory[a] = ByteAt(Len(elf.segments), a)
    /\ \A a \in elf.edata .. elf.end - 1 : memory[a] = Blank
=============================================================================
