---------------------------------- MODULE Llist ----------------------------------
(***************************************************************************)
(* The intrusive circular lists of llist.h at the level of pointers.  A    *)
(* caller adds an entry only when it is in no list, and deletes or moves   *)
(* one only when it is in a list; each operation is one step.              *)
(***************************************************************************)
EXTENDS Integers, SequencesExt

CONSTANTS Heads, Entries, NULL

Nodes == Heads \cup Entries

\* The links of all nodes, next and prev together.
VARIABLES next, prev

vars == <<next, prev>>

\* INIT_LIST_HEAD of the heads; the entries are zeroed memory.
Init ==
    /\ next = [n \in Nodes |-> IF n \in Heads THEN n ELSE NULL]
    /\ prev = [n \in Nodes |-> IF n \in Heads THEN n ELSE NULL]

-----------------------------------------------------------------------------

\* list_for_each and list_for_each_prev: the nodes up to the head, at most all.
Follow(link, h) ==
    LET from[k \in 0 .. Cardinality(Entries), n \in Nodes \cup {NULL}] ==
            IF k = 0 \/ n \in {h, NULL} THEN <<>> ELSE <<n>> \o from[k - 1, link[n]]
    IN from[Cardinality(Entries), link[h]]

InList(e) == \E h \in Heads : Contains(Follow(next, h), e)

list_empty(h) == next[h] = h \/ next[h] = NULL

list_size(h) == Len(Follow(next, h))

\* Mutant: the link back from the next node is forgotten.
ListAdd_Forward(ls, new, before, after) ==
    [next |-> [ls.next EXCEPT ![new] = after, ![before] = new],
     prev |-> [ls.prev EXCEPT ![new] = before]]

\* __list_add on the links ls.
ListAdd(ls, new, before, after) ==
    [next |-> [ls.next EXCEPT ![new] = after, ![before] = new],
     prev |-> [ls.prev EXCEPT ![after] = new, ![new] = before]]

\* __list_del on the links ls.
ListDel(ls, before, after) ==
    [next |-> [ls.next EXCEPT ![before] = after], prev |-> [ls.prev EXCEPT ![after] = before]]

links == [next |-> next, prev |-> prev]

Store(ls) == next' = ls.next /\ prev' = ls.prev

-----------------------------------------------------------------------------

\* INIT_LIST_HEAD
InitListHead(e) ==
    /\ ~InList(e)
    /\ Store([next |-> [next EXCEPT ![e] = e], prev |-> [prev EXCEPT ![e] = e]])

\* list_add
Add(e, h) == ~InList(e) /\ Store(ListAdd(links, e, h, next[h]))

\* list_add_tail
AddTail(e, h) == ~InList(e) /\ Store(ListAdd(links, e, prev[h], h))

\* list_del
Del(e) ==
    LET ls == ListDel(links, prev[e], next[e]) IN
    /\ InList(e)
    /\ Store([next |-> [ls.next EXCEPT ![e] = NULL], prev |-> [ls.prev EXCEPT ![e] = NULL]])

\* list_del_init; an initialised entry that is in no list may be deleted too.
DelInit(e) ==
    LET ls == ListDel(links, prev[e], next[e]) IN
    /\ InList(e) \/ next[e] = e
    /\ Store([next |-> [ls.next EXCEPT ![e] = e], prev |-> [ls.prev EXCEPT ![e] = e]])

\* list_move
Move(e, h) ==
    LET ls == ListDel(links, prev[e], next[e]) IN
    InList(e) /\ Store(ListAdd(ls, e, h, ls.next[h]))

\* Mutant: the tail is read before the entry is unlinked.
MoveTail_Stale(e, h) ==
    LET ls == ListDel(links, prev[e], next[e]) IN
    InList(e) /\ Store(ListAdd(ls, e, prev[h], h))

\* list_move_tail
MoveTail(e, h) ==
    LET ls == ListDel(links, prev[e], next[e]) IN
    InList(e) /\ Store(ListAdd(ls, e, ls.prev[h], h))

Next ==
    \E e \in Entries :
        \/ InitListHead(e) \/ Del(e) \/ DelInit(e)
        \/ \E h \in Heads : Add(e, h) \/ AddTail(e, h) \/ Move(e, h) \/ MoveTail(e, h)

Spec == Init /\ [][Next]_vars

-----------------------------------------------------------------------------
(* Properties.                                                             *)

L == INSTANCE Lists WITH contents <- [h \in Heads |-> Follow(next, h)]

\* Read forwards, the lists behave like sequences: entries are added at the
\* ends, deleted and moved without disturbing the others, also when the entry is
\* next to the head or already at the place it is moved to.
ImplementsLists == L!Spec

\* Read backwards, as list_for_each_prev does, every list is the reverse.
BackwardAgrees == \A h \in Heads : Follow(prev, h) = Reverse(Follow(next, h))

=============================================================================
