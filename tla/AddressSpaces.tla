----------------------------- MODULE AddressSpaces -----------------------------
(***************************************************************************)
(* What vmm.c promises: address spaces that share the regions the kernel   *)
(* had when they were made, and have every other region to themselves.  A  *)
(* region is what one page table covers.                                   *)
(***************************************************************************)
CONSTANTS Base,            \* the kernel's address space
          Pages,           \* the virtual pages
          RegionOf(_)      \* page -> region
VARIABLES spaces,          \* space |-> page |-> frame, or NULL
          shared           \* space |-> regions it has in common with the kernel

vars == <<spaces, shared>>

Sharers(d, r) ==
    IF r \in shared[d] THEN {e \in DOMAIN spaces : r \in shared[e]} ELSE {d}

\* One page is mapped to f, or unmapped, for all that share it.
Edit(d, v, f) ==
    LET r == RegionOf(v) IN
    /\ spaces' = [e \in DOMAIN spaces |->
                     IF e \in Sharers(d, r) THEN [spaces[e] EXCEPT ![v] = f] ELSE spaces[e]]
    /\ shared' = [shared EXCEPT ![d] = IF d = Base THEN @ \cup {r} ELSE @]

\* A new space starts as the kernel's.
Fork(d) ==
    /\ d \notin DOMAIN spaces
    /\ spaces' = [e \in DOMAIN spaces \cup {d} |-> IF e = d THEN spaces[Base] ELSE spaces[e]]
    /\ shared' = [e \in DOMAIN spaces \cup {d} |-> IF e = d THEN shared[Base] ELSE shared[e]]

Init == DOMAIN spaces = {Base} /\ DOMAIN shared = {Base}

Next ==
    \/ \E d \in DOMAIN spaces, v \in Pages : Edit(d, v, spaces'[d][v])
    \/ \E d \in DOMAIN spaces' : Fork(d)

Spec == Init /\ [][Next]_vars
=============================================================================
