----------------------------- MODULE Allocator -----------------------------
(***************************************************************************)
(* What a memory allocator promises its caller: every block it hands out   *)
(* lies inside the heap and shares no byte with a block that is still in   *)
(* use, and a block stays in use until the caller releases it.  HwMalloc   *)
(* implements this specification.                                          *)
(***************************************************************************)
EXTENDS Integers

CONSTANTS Ptrs,   \* addresses a block may start at
          Sizes,  \* sizes a caller may ask for
          Limit   \* first address beyond the heap

VARIABLE live     \* the blocks in use: [ptr, bytes]

Overlap(a, b) == a.ptr < b.ptr + b.bytes /\ b.ptr < a.ptr + a.bytes

Init == live = {}

Allocate(b) == /\ b.ptr + b.bytes <= Limit
               /\ \A c \in live : ~Overlap(b, c)
               /\ live' = live \cup {b}

Release(b) == live' = live \ {b}

Next == \/ \E b \in [ptr : Ptrs, bytes : Sizes] : Allocate(b)
        \/ \E b \in live : Release(b)

Spec == Init /\ [][Next]_live

=============================================================================
