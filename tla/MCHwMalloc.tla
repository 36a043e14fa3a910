----------------------------- MODULE MCHwMalloc -----------------------------
(* Small heaps for HwMalloc.  The sizes are scaled down: the header and the *)
(* smallest chunk are 1 and 2 bytes instead of 24 and 32.                   *)
EXTENDS HwMalloc

MCBytes == [i \in Bins |-> 2 * 2^i]

=============================================================================
