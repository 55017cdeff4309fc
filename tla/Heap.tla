--------------------------------- MODULE Heap ---------------------------------
(***************************************************************************)
(* The heap of heap.c: chunks with boundary tags that tile the heap, and a *)
(* list of the free ones by size.  kmalloc, kmalloc_a and kfree reach it   *)
(* through heap_malloc and heap_free, from one caller at a time.           *)
(*                                                                         *)
(* A chunk is named by its address.  Its tag is the word head (its size,   *)
(* PINUSE: the chunk before it is in use, CINUSE: it is itself) and the    *)
(* word prevFoot, which belongs to the user of the chunk before it while   *)
(* that one is in use.  The page behind the heap is not mapped.            *)
(***************************************************************************)
EXTENDS Integers, Sequences, SequencesExt, FiniteSets, FiniteSetsExt

CONSTANTS startAddr, maxAddr, PAGE_SIZE,
          HEAP_MIN_SIZE,          \* the size at first
          Requests,               \* what kmalloc may be asked for
          AlignedRequests,        \* what kmalloc_a may be asked for
          Freed,                  \* which blocks are freed: "plain", "aligned"
          NULL

ASSUME HeapAssumption ==
    /\ PAGE_SIZE \in Nat \ {0} /\ PAGE_SIZE % 8 = 0
    /\ startAddr % PAGE_SIZE = 0 /\ maxAddr % PAGE_SIZE = 0
    /\ HEAP_MIN_SIZE \in 1 .. maxAddr - startAddr /\ HEAP_MIN_SIZE % PAGE_SIZE = 0
    /\ Requests \cup AlignedRequests \subseteq 1 .. maxAddr
    /\ Freed \subseteq {"plain", "aligned"}

VARIABLES
    heap,      \* endAddr, the tag of each chunk, the free list, and how it goes
    live       \* history: what callers hold, as address |-> size and kind

vars == <<heap, live>>

KMALLOC_ALIGNMENT == 8
CHUNK_OVERHEAD == 4
MIN_CHUNK_SIZE == 16
MIN_REQUEST == MIN_CHUNK_SIZE - CHUNK_OVERHEAD - 1

ROUND_UP(n, unit) == ((n + unit - 1) \div unit) * unit

request2size(req) ==
    IF req < MIN_REQUEST THEN MIN_CHUNK_SIZE
    ELSE ROUND_UP(req + CHUNK_OVERHEAD, KMALLOC_ALIGNMENT)

chunk2mem(c) == c + 8
mem2chunk(p) == p - 8

-----------------------------------------------------------------------------
(* The free list and the tags.  h is a value of the variable heap.         *)

chunksize(h, c) == h.tag[c].size

\* The first chunk of the list with at least the size, or its end.
Place(h, size) ==
    Min({k \in 1 .. Len(h.list) : chunksize(h, h.list[k]) >= size} \cup {Len(h.list) + 1})

\* Mutant: a search that ran off the list is taken for a hit.
findSmallestChunk_Last(h, size) ==
    IF h.list = <<>> THEN NULL ELSE h.list[Min({Place(h, size), Len(h.list)})]

findSmallestChunk(h, size) ==
    LET k == Place(h, size) IN IF k > Len(h.list) THEN NULL ELSE h.list[k]

insertChunk(h, c) == [h EXCEPT !.list = InsertAt(@, Place(h, chunksize(h, c)), c)]

\* Unlinking what is not in the list writes through whatever lies there.
removeChunk(h, c) ==
    IF c \in Range(h.list) THEN [h EXCEPT !.list = Remove(@, c)]
    ELSE [h EXCEPT !.status = "wild"]

\* A tag is written, and the chunk is there from then on.
SetTag(h, c, size, pinuse, cinuse, foot) ==
    [h EXCEPT !.tag = [d \in DOMAIN @ \cup {c} |->
        IF d = c THEN [size |-> size, pinuse |-> pinuse, cinuse |-> cinuse, foot |-> foot]
                 ELSE @[d]]]

\* The tag is swallowed by a chunk before it.
DropTag(h, c) == [h EXCEPT !.tag = [d \in DOMAIN @ \ {c} |-> @[d]]]

set_size_and_pinuse(h, c, size, foot) == SetTag(h, c, size, TRUE, FALSE, foot)

\* Mutant: the chunk behind is not told.
set_inuse_Alone(h, c, size, pinuse, foot) == SetTag(h, c, size, pinuse, TRUE, foot)

\* CINUSE, and PINUSE of the chunk behind, whose prevFoot is now the user's.
\* Behind the last chunk there is no memory.
set_inuse(h, c, size, pinuse, foot) ==
    LET g == SetTag(h, c, size, pinuse, TRUE, foot) IN
    IF c + size \in DOMAIN g.tag
    THEN [g EXCEPT !.tag[c + size].pinuse = TRUE, !.tag[c + size].foot = NULL]
    ELSE [g EXCEPT !.status = "fault"]

-----------------------------------------------------------------------------
(* alloc.                                                                  *)

\* The size of the heap after expand, and its assertion.
Expanded(h, nb) == ROUND_UP(h.endAddr - startAddr + nb, PAGE_SIZE)
CanExpand(h, nb) == startAddr + Expanded(h, nb) <= maxAddr

\* expand, and the chunk at the end: the topmost free chunk if it reached up to
\* the old end, a new one otherwise.
Expand(h, nb) ==
    LET end == startAddr + Expanded(h, nb)
        top == Max(Range(h.list))
        merge == h.list # <<>> /\ top + chunksize(h, top) = h.endAddr
        c == IF merge THEN top ELSE h.endAddr
        g == IF merge THEN removeChunk(h, c) ELSE h
    IN insertChunk([set_size_and_pinuse(g, c, end - c, IF merge THEN h.tag[c].foot ELSE NULL)
                        EXCEPT !.endAddr = end], c)

Splits(size, nb) == size >= nb + MIN_CHUNK_SIZE

\* The end of alloc: the hole is taken off the list and split.
Take(h, c, nb) ==
    LET size == chunksize(h, c)
        g == removeChunk(h, c)
        split == insertChunk(SetTag(g, c + nb, size - nb, FALSE, FALSE, NULL), c + nb)
    IN IF Splits(size, nb) THEN set_inuse(split, c, nb, h.tag[c].pinuse, h.tag[c].foot)
                           ELSE set_inuse(g, c, size, h.tag[c].pinuse, h.tag[c].foot)

\* What alloc works on: the heap as it is, or expanded.
Prepared(h, nb) == IF findSmallestChunk(h, nb) # NULL THEN h ELSE Expand(h, nb)
Fits(h, nb) == findSmallestChunk(h, nb) # NULL \/ CanExpand(h, nb)

-----------------------------------------------------------------------------
(* free.  The chunk behind is looked at only if it lies outside the heap,  *)
(* and there the read faults: free neither merges with the chunk behind    *)
(* nor contracts the heap.                                                 *)

Stop(h, why) == [h EXCEPT !.status = why]

\* The block to free, merged with the one before it if PINUSE says so.
Merged(h, c) ==
    LET prevsize == h.tag[c].foot
        prev == c - prevsize
    IN IF h.tag[c].pinuse THEN [heap |-> h, block |-> c, size |-> chunksize(h, c)]
       ELSE IF prevsize = NULL \/ prev \notin DOMAIN h.tag
       THEN [heap |-> Stop(h, "wild"), block |-> c, size |-> chunksize(h, c)]
       ELSE [heap |-> DropTag(removeChunk(h, prev), c), block |-> prev,
             size |-> chunksize(h, c) + prevsize]

Free(h, c) ==
    LET m == Merged(h, c)
        next == m.block + m.size
        g == [m.heap EXCEPT !.tag[next].foot = m.size]
    IN IF h.tag[c].pinuse /\ ~h.tag[c].cinuse THEN Stop(h, "corrupt")
       ELSE IF m.heap.status # "ok" THEN m.heap
       ELSE IF next >= h.endAddr THEN Stop(m.heap, "fault")
       ELSE insertChunk(set_size_and_pinuse(g, m.block, m.size, g.tag[m.block].foot), m.block)

-----------------------------------------------------------------------------
(* palignedAlloc, on the chunk c that alloc returned.  The head of the new *)
(* chunk is what was in that memory: its PINUSE bit may be anything.       *)

\* Where the aligned chunk starts.
AlignedAt(c) ==
    LET br == mem2chunk(ROUND_UP(chunk2mem(c), PAGE_SIZE))
    IN IF br = c \/ br - c >= MIN_CHUNK_SIZE THEN br ELSE br + PAGE_SIZE

\* The lead is given back.
CutLead(h, c, pos, bit) ==
    IF pos = c THEN h
    ELSE LET g == set_inuse(h, pos, chunksize(h, c) - (pos - c), bit, pos - c)
         IN insertChunk(set_size_and_pinuse(g, c, pos - c, h.tag[c].foot), c)

\* The remainder is freed.
CutRest(h, c, nb) ==
    LET size == chunksize(h, c)
        g == SetTag(h, c + nb, 0, FALSE, FALSE, NULL)
        inuse == set_inuse(set_inuse(g, c, nb, h.tag[c].pinuse, h.tag[c].foot),
                           c + nb, size - nb, TRUE, NULL)
    IN IF size > nb + MIN_CHUNK_SIZE THEN Free(inuse, c + nb) ELSE h

-----------------------------------------------------------------------------
(* The operations.                                                         *)

\* createHeap.
Init ==
    /\ heap = [endAddr |-> startAddr + HEAP_MIN_SIZE,
               tag |-> [c \in {startAddr} |-> [size |-> HEAP_MIN_SIZE, pinuse |-> TRUE,
                                               cinuse |-> FALSE, foot |-> 0]],
               list |-> <<startAddr>>, status |-> "ok"]
    /\ live = [p \in {} |-> NULL]

\* The caller has the block, unless the core stopped on the way.
Hold(p, size, kind) ==
    live' = IF heap'.status # "ok" THEN live
            ELSE [q \in DOMAIN live \cup {p} |->
                    IF q = p THEN [size |-> size, kind |-> kind] ELSE live[q]]

alloc(size) ==
    LET nb == request2size(size)
        h == Prepared(heap, nb)
        c == findSmallestChunk(h, nb)
    IN /\ heap.status = "ok" /\ Fits(heap, nb)
       /\ heap' = Take(h, c, nb)
       /\ Hold(chunk2mem(c), size, "plain")

palignedAlloc(size) ==
    LET nb == request2size(size)
        req == request2size(nb + PAGE_SIZE + MIN_CHUNK_SIZE - CHUNK_OVERHEAD)
        h == Prepared(heap, req)
        c == findSmallestChunk(h, req)
        g == Take(h, c, req)
        pos == AlignedAt(c)
    IN /\ heap.status = "ok" /\ Fits(heap, req)
       /\ \E bit \in BOOLEAN :
              heap' = IF g.status # "ok" THEN g ELSE CutRest(CutLead(g, c, pos, bit), pos, nb)
       /\ Hold(chunk2mem(pos), size, "aligned")

\* The assertion of expand: the heap would outgrow maxAddr.
OutOfMemory(size) ==
    /\ heap.status = "ok"
    /\ \/ size \in Requests /\ ~Fits(heap, request2size(size))
       \/ size \in AlignedRequests
          /\ ~Fits(heap, request2size(request2size(size) + PAGE_SIZE + MIN_CHUNK_SIZE
                                          - CHUNK_OVERHEAD))
    /\ heap' = Stop(heap, "full")
    /\ UNCHANGED live

free(p) ==
    /\ heap.status = "ok" /\ p \in DOMAIN live /\ live[p].kind \in Freed
    /\ heap' = Free(heap, mem2chunk(p))
    /\ live' = [q \in DOMAIN live \ {p} |-> live[q]]

Next ==
    \/ \E size \in Requests : alloc(size)
    \/ \E size \in AlignedRequests : palignedAlloc(size)
    \/ \E size \in Requests \cup AlignedRequests : OutOfMemory(size)
    \/ \E p \in DOMAIN live : free(p)

Spec == Init /\ [][Next]_vars

-----------------------------------------------------------------------------
(* What the heap keeps.                                                    *)

Chunks == DOMAIN heap.tag
End(c) == c + chunksize(heap, c)

\* The chunks lie end to end from startAddr to endAddr.
Tiled ==
    /\ startAddr \in Chunks
    /\ \A c \in Chunks : chunksize(heap, c) >= MIN_CHUNK_SIZE /\ c % KMALLOC_ALIGNMENT = 0
    /\ \A c \in Chunks : End(c) \in Chunks \cup {heap.endAddr}
    /\ \A c, d \in Chunks : c < d => End(c) <= d

\* The list holds each free chunk once, the smallest first.
ListOK ==
    /\ Range(heap.list) = {c \in Chunks : ~heap.tag[c].cinuse}
    /\ Cardinality(Range(heap.list)) = Len(heap.list)
    /\ \A i, j \in 1 .. Len(heap.list) :
           i < j => chunksize(heap, heap.list[i]) <= chunksize(heap, heap.list[j])

\* Each block has a chunk in use to itself that is large enough, with the word
\* behind it, which free would use for the size, left to its user.
BlocksOK ==
    \A p \in DOMAIN live :
        LET c == mem2chunk(p) IN
        /\ c \in Chunks /\ heap.tag[c].cinuse
        /\ p + live[p].size <= End(c) + CHUNK_OVERHEAD
        /\ End(c) \in Chunks => heap.tag[End(c)].foot = NULL /\ heap.tag[End(c)].pinuse

\* The invariant of heap.c: whatever is allocated and freed, the chunks tile the
\* heap, the free list is exactly the free ones in order of size, no block runs
\* into a tag, no free chunk is taken off a list it is not on, and free never
\* finds the memory corrupt.  The last chunk is free until an allocation uses up
\* the heap to its very end, which is the only access behind it: free never
\* meets the end of the heap, so that it never contracts.
HeapInv ==
    /\ heap.status \in {"ok", "full", "fault"}
    /\ Tiled /\ ListOK /\ BlocksOK
    /\ \A c \in Chunks : End(c) = heap.endAddr => heap.tag[c].cinuse = (heap.status = "fault")

Promised == INSTANCE Allocator WITH
    lo <- startAddr, hi <- maxAddr, limit <- heap.endAddr, blocks <- live,
    Unit <- [plain |-> KMALLOC_ALIGNMENT, aligned |-> PAGE_SIZE]

\* The heap implements an allocator: a block it hands out is inside the heap,
\* aligned as asked, and apart from every block that is held.
ImplementsAllocator == Promised!Spec
=============================================================================
