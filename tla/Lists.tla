---------------------------------- MODULE Lists ----------------------------------
(***************************************************************************)
(* What the lists of llist.h promise: each head stands for a sequence.     *)
(***************************************************************************)
EXTENDS SequencesExt

CONSTANTS Heads, Entries

VARIABLE contents

Free(e) == \A h \in Heads : e \notin Range(contents[h])
Without(e) == [h \in Heads |-> Remove(contents[h], e)]

Init == contents = [h \in Heads |-> <<>>]

AddFirst(e, h) == Free(e) /\ contents' = [contents EXCEPT ![h] = <<e>> \o @]
AddLast(e, h) == Free(e) /\ contents' = [contents EXCEPT ![h] = @ \o <<e>>]
Delete(e) == ~Free(e) /\ contents' = Without(e)
MoveFirst(e, h) == ~Free(e) /\ contents' = [Without(e) EXCEPT ![h] = <<e>> \o @]
MoveLast(e, h) == ~Free(e) /\ contents' = [Without(e) EXCEPT ![h] = @ \o <<e>>]

Next ==
    \E e \in Entries :
        \/ Delete(e)
        \/ \E h \in Heads : AddFirst(e, h) \/ AddLast(e, h) \/ MoveFirst(e, h) \/ MoveLast(e, h)

Spec == Init /\ [][Next]_contents
=============================================================================
