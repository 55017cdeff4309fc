---------------------------------- MODULE Pmm ----------------------------------
(***************************************************************************)
(* The physical memory manager of pmm.c: a bitmap with one bit per page,   *)
(* three counters, and a first-fit search over the bitmap.  One call runs  *)
(* at a time: nothing in pmm.c serialises its callers.                     *)
(*                                                                         *)
(* The search of find_free_page is one step per iteration of its loop; the *)
(* other loops touch each bit once and are one step each.                  *)
(***************************************************************************)
EXTENDS Integers, Sequences, FiniteSets

CONSTANTS AddrSpace,     \* 2^32, the width of uint32_t
          PageSize,      \* PAGE_SIZE
          LowMemory,     \* 0x100000
          MemoryMaps,    \* the maps the bootloader may pass
          KernelStart,   \* __kernel_start
          KernelEnd,     \* __kernel_end
          Sizes          \* the sizes callers ask for

\* An entry of the memory map; only MULTIBOOT_MEMORY_AVAILABLE is told apart.
Region == [addr : Nat, len : Nat, available : BOOLEAN]

\* BITMAP_MAX_PAGE: the length of bitmap in bytes, and the number of pages
\* that find_free_page looks at.
BITMAP_MAX_PAGE == ((AddrSpace - 1) \div PageSize) \div 8

Bits == 0 .. 8 * BITMAP_MAX_PAGE - 1

ASSUME SizeAssumption ==
    /\ AddrSpace \in Nat \ {0} /\ PageSize \in Nat \ {0} /\ LowMemory \in Nat
    /\ LowMemory >= PageSize /\ BITMAP_MAX_PAGE \in Nat \ {0}
    /\ MemoryMaps \subseteq Seq(Region)
    /\ KernelStart \in Nat /\ KernelEnd \in Nat /\ KernelStart < KernelEnd
    /\ KernelStart % PageSize = 0
    /\ Sizes \subseteq 0 .. AddrSpace - 1

VARIABLES
    bitmap,                                          \* pages whose bit is set
    total_memory, used_memory, available_memory,
    pc,            \* where the caller is
    region,        \* entry of the map that the loop of the setup is at
    pages,         \* pages of the request
    i, found_pages, first_page,                      \* find_free_page
    held,          \* history: pages callers have been given
    kernel,        \* history: pages of the kernel image
    mmap           \* the memory map the kernel was started with

vars == <<bitmap, total_memory, used_memory, available_memory, pc, region, pages, i, found_pages,
          first_page, held, kernel, mmap>>
counters == <<total_memory, used_memory, available_memory>>
search == <<pages, i, found_pages, first_page>>

-----------------------------------------------------------------------------

\* uint32_t arithmetic.
U32(n) == n % AddrSpace

ROUND_UP(n) == U32((U32(n + PageSize - 1) \div PageSize) * PageSize)

\* The number of pages of a request; a size in the last page wraps to none.
PagesOf(size) == U32(size + PageSize - 1) \div PageSize

BlockStart(r) == ROUND_UP(U32(r.addr))

\* Mutant: the length is rounded once more.
BlockLen_Twice(r) == U32(ROUND_UP(U32(r.addr + r.len)) + PageSize - BlockStart(r))

BlockLen(r) == U32(ROUND_UP(U32(r.addr + r.len)) - BlockStart(r))

Usable(r) == r.available /\ U32(r.addr) >= LowMemory

\* The bits that the loop over one region clears.
RegionPages(r) ==
    BlockStart(r) \div PageSize .. BlockStart(r) \div PageSize + BlockLen(r) \div PageSize - 1

\* The pages of the kernel image.
KernelSize == U32(KernelEnd - KernelStart)
KernelPages ==
    KernelStart \div PageSize .. KernelStart \div PageSize + PagesOf(KernelSize) - 1

\* The pages at the top of the address space, for which the bitmap has no bits,
\* are neither RAM nor part of the kernel.
ASSUME MapAssumption ==
    \A m \in MemoryMaps : \A k \in DOMAIN m :
        /\ U32(m[k].addr) + PageSize < AddrSpace
        /\ m[k].available => RegionPages(m[k]) \subseteq Bits

ASSUME KernelAssumption == KernelPages \subseteq Bits

\* PAGE_SIZE is a power of two, and so divides the range of uint32_t.
ASSUME PageAssumption == AddrSpace % PageSize = 0

\* The usable regions of the maps start below 4 GB: pmm_memory_setup does not
\* look at the upper half of their 64-bit addresses.
MapsBelow4G ==
    \A m \in MemoryMaps : \A k \in DOMAIN m : Usable(m[k]) => m[k].addr < AddrSpace

\* The usable regions of the maps do not share a page.
MapsDisjoint ==
    \A m \in MemoryMaps : \A j, k \in DOMAIN m :
        j # k /\ Usable(m[j]) /\ Usable(m[k]) => RegionPages(m[j]) \cap RegionPages(m[k]) = {}

-----------------------------------------------------------------------------

Init ==
    /\ bitmap = {} /\ total_memory = 0 /\ used_memory = 0 /\ available_memory = 0
    /\ pc = "setup" /\ region = 0 /\ pages = 0 /\ i = 0 /\ found_pages = 0 /\ first_page = 0
    /\ held = {} /\ kernel = {} /\ mmap \in MemoryMaps

\* The bits that pmm_memory_setup clears.
Ram == UNION {RegionPages(mmap[k]) : k \in {k \in DOMAIN mmap : Usable(mmap[k])}}

\* pmm_memory_setup: memset, ...
SetupStart ==
    /\ pc = "setup" /\ region = 0
    /\ bitmap' = Bits
    /\ region' = 1
    /\ UNCHANGED <<counters, pc, search, held, kernel, mmap>>

\* ... one iteration of the loop over the memory map, ...
SetupRegion ==
    /\ pc = "setup" /\ region \in DOMAIN mmap
    /\ LET r == mmap[region] IN
       IF Usable(r)
       THEN /\ bitmap' = bitmap \ RegionPages(r)
            /\ available_memory' = U32(available_memory + BlockLen(r))
       ELSE UNCHANGED <<bitmap, available_memory>>
    /\ region' = region + 1
    /\ UNCHANGED <<total_memory, used_memory, pc, search, held, kernel, mmap>>

\* ... and its end.
SetupEnd ==
    /\ pc = "setup" /\ region = Len(mmap) + 1
    /\ total_memory' = available_memory
    /\ pc' = "kernel"
    /\ UNCHANGED <<bitmap, used_memory, available_memory, region, search, held, kernel, mmap>>

\* Mutant: a count of pages where the counters are in bytes.
Charge_Pages(n) ==
    /\ available_memory' = U32(available_memory - n * PageSize)
    /\ used_memory' = U32(used_memory + n)

\* The counters after n pages have been taken.
Charge(n) ==
    /\ available_memory' = U32(available_memory - n * PageSize)
    /\ used_memory' = U32(used_memory + n * PageSize)

\* pmm_alloc_from, called once by mm_memory_setup for the kernel image, which
\* panics when some page of it is not free.
AllocFrom ==
    /\ pc = "kernel"
    /\ \/ /\ KernelPages \cap bitmap # {}
          /\ pc' = "panic"
          /\ UNCHANGED <<bitmap, counters, kernel>>
       \/ /\ KernelPages \cap bitmap = {}
          /\ bitmap' = bitmap \cup KernelPages
          /\ kernel' = KernelPages
          /\ Charge(PagesOf(KernelSize))
          /\ pc' = "idle"
          /\ UNCHANGED total_memory
    /\ UNCHANGED <<search, held, region, mmap>>

\* pmm_alloc, up to the loop of find_free_page.
Alloc(size) ==
    /\ pc = "idle"
    /\ pages' = PagesOf(size)
    /\ i' = 0 /\ found_pages' = 0 /\ first_page' = 0
    /\ pc' = "scan"
    /\ UNCHANGED <<bitmap, counters, held, kernel, region, mmap>>

\* Mutant: a set bit does not restart the count.
ScanPage_NoReset ==
    /\ pc = "scan" /\ i < BITMAP_MAX_PAGE
    /\ IF i \notin bitmap
       THEN /\ found_pages' = found_pages + 1
            /\ first_page' = IF first_page = 0 THEN i ELSE first_page
       ELSE UNCHANGED <<found_pages, first_page>>
    /\ i' = i + 1
    /\ pc' = IF found_pages' = pages THEN "mark" ELSE "scan"
    /\ UNCHANGED <<bitmap, counters, pages, held, kernel, region, mmap>>

\* One iteration of the loop of find_free_page; 0 means that first_page is not
\* set.
ScanPage ==
    /\ pc = "scan" /\ i < BITMAP_MAX_PAGE
    /\ IF i \notin bitmap
       THEN /\ found_pages' = found_pages + 1
            /\ first_page' = IF first_page = 0 THEN i ELSE first_page
       ELSE found_pages' = 0 /\ first_page' = 0
    /\ i' = i + 1
    /\ pc' = IF found_pages' = pages THEN "mark" ELSE "scan"
    /\ UNCHANGED <<bitmap, counters, pages, held, kernel, region, mmap>>

\* Mutant: the last page is not looked at.
ScanEnd_Early ==
    /\ pc = "scan" /\ i >= BITMAP_MAX_PAGE - 1
    /\ pc' = "halt"
    /\ UNCHANGED <<bitmap, counters, search, held, kernel, region, mmap>>

\* Mutant: the end of the loop is not noticed.
ScanEnd_Spin ==
    /\ pc = "scan" /\ i > BITMAP_MAX_PAGE
    /\ pc' = "halt"
    /\ UNCHANGED <<bitmap, counters, search, held, kernel, region, mmap>>

\* The search has failed: the machine halts.
ScanEnd ==
    /\ pc = "scan" /\ i >= BITMAP_MAX_PAGE
    /\ pc' = "halt"
    /\ UNCHANGED <<bitmap, counters, search, held, kernel, region, mmap>>

\* The block that find_free_page has found.
Block == first_page .. first_page + pages - 1

\* The rest of pmm_alloc.
Mark ==
    /\ pc = "mark"
    /\ bitmap' = bitmap \cup Block
    /\ held' = held \cup Block
    /\ Charge(pages)
    /\ pc' = "idle"
    /\ UNCHANGED <<total_memory, search, kernel, region, mmap>>

\* pmm_unalloc(p * PageSize, size) by a caller that holds the pages it frees.
Unalloc(p, size) ==
    LET n == PagesOf(size)
        block == p .. p + n - 1
    IN
    /\ pc = "idle" /\ n > 0 /\ block \subseteq held
    /\ IF p + n > BITMAP_MAX_PAGE
       THEN pc' = "halt" /\ UNCHANGED <<bitmap, counters, held>>
       ELSE /\ bitmap' = bitmap \ block
            /\ held' = held \ block
            /\ available_memory' = U32(available_memory + n * PageSize)
            /\ used_memory' = U32(used_memory - n * PageSize)
            /\ UNCHANGED <<pc, total_memory>>
    /\ UNCHANGED <<search, kernel, region, mmap>>

Next ==
    \/ SetupStart \/ SetupRegion \/ SetupEnd \/ AllocFrom
    \/ \E size \in Sizes : Alloc(size)
    \/ ScanPage \/ ScanEnd \/ Mark
    \/ \E p \in Bits, size \in Sizes : Unalloc(p, size)

\* The loop of find_free_page runs on; whether callers call is up to them.
Spec == Init /\ [][Next]_vars /\ WF_vars(ScanPage \/ ScanEnd)

-----------------------------------------------------------------------------
(* Properties.                                                             *)

\* All numbers are uint32_t, and a request has fewer pages than the address
\* space.
TypeOK ==
    /\ bitmap \subseteq Bits /\ held \subseteq Bits /\ kernel \subseteq Bits /\ mmap \in MemoryMaps /\ region \in 0 .. Len(mmap) + 1
    /\ total_memory \in 0 .. AddrSpace - 1
    /\ used_memory \in 0 .. AddrSpace - 1
    /\ available_memory \in 0 .. AddrSpace - 1
    /\ pc \in {"setup", "kernel", "idle", "scan", "mark", "halt", "panic"}
    /\ pages \in 0 .. (AddrSpace - 1) \div PageSize
    /\ i \in 0 .. BITMAP_MAX_PAGE /\ found_pages \in 0 .. i /\ first_page \in 0 .. i

\* A block that pmm_alloc is about to hand out is free RAM: no page of it is
\* held by another caller, belongs to the kernel image or was not reported as
\* available.  The value 0 of first_page means "none", so this also rests on
\* page 0 never being free.
AllocatesFreeRam ==
    pc = "mark" => Block \subseteq Ram \ (held \cup kernel \cup bitmap)

\* Every page that pmm_memory_setup frees starts in a region that the memory
\* map calls available: rounding and wrapping free nothing else.
RamInsideMap ==
    pc # "setup" =>
    \A p \in Bits \ bitmap : \E k \in DOMAIN mmap :
        /\ mmap[k].available
        /\ mmap[k].addr <= p * PageSize /\ p * PageSize < mmap[k].addr + mmap[k].len

\* find_free_page is a complete first-fit search of the pages it looks at: a
\* block it returns is the lowest one that fits, and when it halts there is
\* none.
Fits(p) == p + pages <= BITMAP_MAX_PAGE /\ (p .. p + pages - 1) \cap bitmap = {}

FirstFit ==
    /\ pc = "mark" => \A p \in 0 .. first_page - 1 : ~Fits(p)
    /\ pc = "halt" => \A p \in 0 .. BITMAP_MAX_PAGE : ~Fits(p)

\* Between calls the counters agree with the bitmap and with what callers hold,
\* for memory maps whose regions do not overlap.
Accounting ==
    pc \in {"idle", "scan", "mark", "halt"} =>
        /\ available_memory = PageSize * Cardinality(Bits \ bitmap)
        /\ used_memory = PageSize * Cardinality(held \cup kernel)
        /\ total_memory = available_memory + used_memory

-----------------------------------------------------------------------------
(* The inductive invariant.                                                *)

\* What holds of the loop of find_free_page at the start of an iteration: the
\* last found_pages pages are free, first_page is the first of them, and no
\* block that ends before i fits.
SearchInv ==
    /\ found_pages = 0 => first_page = 0
    /\ found_pages > 0 => /\ first_page > 0 /\ first_page = i - found_pages
                          /\ \A p \in first_page .. i - 1 : p \notin bitmap
    /\ found_pages < i => i - found_pages - 1 \in bitmap
    /\ found_pages < pages \/ i = 0

\* Allocated pages, page 0 and pages that are not RAM stay marked.
PmmInv ==
    /\ TypeOK
    /\ pc \in {"setup", "kernel"} => held = {} /\ kernel = {}
    /\ pc = "setup" /\ region = 0 => bitmap = {}
    /\ pc # "setup" \/ region # 0 => 0 \in bitmap /\ Bits \ Ram \subseteq bitmap
    /\ held \cup kernel \subseteq bitmap
    /\ held \subseteq Ram \ kernel /\ \A p \in held : p < BITMAP_MAX_PAGE
    /\ pc = "scan" => SearchInv
    /\ AllocatesFreeRam /\ (pc = "mark" => first_page + pages <= BITMAP_MAX_PAGE)
    /\ pc = "scan" => \A p \in 0 .. i : p + pages <= i => ~Fits(p) \/ pages = 0
    /\ FirstFit

\* The counters agree with the bitmap from the memset of pmm_memory_setup on.  The
\* regions that its loop has yet to reach are still marked.
CountersInv ==
    /\ pc = "setup" /\ region = 0 => available_memory = 0
    /\ pc # "setup" \/ region # 0 =>
           available_memory = PageSize * Cardinality(Bits \ bitmap)
    /\ used_memory = PageSize * Cardinality(held \cup kernel)
    /\ pc # "setup" => total_memory = available_memory + used_memory
    /\ pc = "setup" /\ region # 0 =>
           \A k \in DOMAIN mmap : k >= region /\ Usable(mmap[k]) => RegionPages(mmap[k]) \subseteq bitmap

\* A call of pmm_alloc does not search for ever.
SearchEnds == pc = "scan" ~> pc # "scan"
=============================================================================
