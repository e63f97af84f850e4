------------------------------ MODULE MCElf2psx ------------------------------
(***************************************************************************)
(* Elf2psx for TLC: 5-bit addresses, pages of 4 bytes, memory from 8 to    *)
(* 20, and all executables of up to two segments in it, around it and      *)
(* across the end of the address space.                                    *)
(***************************************************************************)
EXTENDS Elf2psx

Segment(o) ==
  [load : {TRUE}, offset : {o}, vaddr : {0, 7, 8, 9, 12, 15, 16, 19, 20, 31}, filesz : {0, 1, 5, 8, 12, 20, 31}]
Note == [load |-> FALSE, offset |-> 1, vaddr |-> 0, filesz |-> 3]

Tables == {<<>>} \cup {<<s>> : s \in Segment(1)} \cup {<<Note, s>> : s \in Segment(1)}
            \cup {<<s, t>> : s \in Segment(1), t \in Segment(6)}

MCElfs ==
  [header : {"good"}, length : {9, 20}, segments : Tables, edata : {12, 17}, end : {17, 18, 20}]
    \cup [header : {"bad"}, length : {9}, segments : {<<>>}, edata : {12}, end : {12}]
=============================================================================
