------------------------------- MODULE MCSawpads -------------------------------
(***************************************************************************)
(* Instances of the memory card and controller driver.  The data are of    *)
(* the two bytes that make the protocol's own ambiguous: 0x00, which the   *)
(* driver sends to be answered, and 0x47, which says that all went well.   *)
(***************************************************************************)
EXTENDS Sawpads

MCSectors == {<<Zero, Zero>>, <<Zero, {0}>>}
MCSector  == {<<Zero, Zero>>}
MCBlocks  == {<<Zero, Zero>>, <<Zero, Good>>}
MCBlock   == {<<Zero>>}
MCValues  == {Zero, Good}
MCZero    == {Zero}
MCStale   == {Zero, FF}
=============================================================================
