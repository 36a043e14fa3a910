-------------------------- MODULE MCHwMallocLists --------------------------
(* Callers for HwMallocLists on a heap of eight of the smallest chunks.     *)
EXTENDS HwMallocLists

MCBytes == [i \in 0 .. NBins - 1 |-> 2 * 2^i]

\* One that asks for blocks of every size and never writes; one that writes
\* into two of four blocks of one size or of two areas; one that writes into
\* one block of different sizes.
MCCallers == {[requests |-> Requests, writes |-> 0],
              [requests |-> {3, 20}, writes |-> 2],
              [requests |-> {3, 7, 20}, writes |-> 1]}

=============================================================================
