------------------------------- MODULE Allocator -------------------------------
(***************************************************************************)
(* What kmalloc, kmalloc_a and kfree promise: blocks of memory, each to    *)
(* one holder at a time.                                                   *)
(***************************************************************************)
EXTENDS Integers

CONSTANTS lo, hi,       \* where the memory is
          Unit          \* kind of block |-> its alignment
VARIABLES limit,        \* how far the memory is in use
          blocks        \* address |-> size and kind of what is held

vars == <<limit, blocks>>

Init == limit \in lo .. hi /\ blocks = [p \in {} |-> 0]

Apart(p, n, q, m) == p + n <= q \/ q + m <= p

Allocate(p, n, kind) ==
    /\ limit' \in limit .. hi
    /\ p >= lo /\ p + n <= limit' /\ p % Unit[kind] = 0
    /\ \A q \in DOMAIN blocks : Apart(p, n, q, blocks[q].size)
    /\ blocks' = [q \in DOMAIN blocks \cup {p} |->
                     IF q = p THEN [size |-> n, kind |-> kind] ELSE blocks[q]]

\* Memory taken into use by a call that did not return.
Exhaust == limit' \in limit .. hi /\ UNCHANGED blocks

Release(p) ==
    /\ blocks' = [q \in DOMAIN blocks \ {p} |-> blocks[q]]
    /\ UNCHANGED limit

Next ==
    \/ \E p \in DOMAIN blocks' \ DOMAIN blocks :
           Allocate(p, blocks'[p].size, blocks'[p].kind)
    \/ Exhaust
    \/ \E p \in DOMAIN blocks : Release(p)

Spec == Init /\ [][Next]_vars
=============================================================================
