------------------------------- MODULE PmmProofs -------------------------------
(***************************************************************************)
(* Proofs about the physical memory manager, for every page size, memory   *)
(* map and sequence of requests: which bits stay set, what is handed out,  *)
(* which pages are ever free, and what the three counters count.           *)
(***************************************************************************)
EXTENDS Pmm, FiniteSetTheorems, TLAPS

-----------------------------------------------------------------------------
(* Arithmetic.                                                             *)

\* A uint32_t is less than 2^32.
LEMMA U32Type ==
  ASSUME NEW n \in Int
  PROVE  U32(n) \in 0 .. AddrSpace - 1
BY SizeAssumption DEF U32

\* Arithmetic that does not overflow is exact.
LEMMA U32Exact ==
  ASSUME NEW n \in 0 .. AddrSpace - 1
  PROVE  U32(n) = n
BY SizeAssumption DEF U32

\* Division by the page size.
LEMMA PageDiv ==
  ASSUME NEW n \in Nat
  PROVE  /\ n \div PageSize \in Nat
         /\ (n \div PageSize) * PageSize <= n
         /\ n < (n \div PageSize) * PageSize + PageSize
BY SizeAssumption

\* Rounding yields a number.
LEMMA RoundUpType ==
  ASSUME NEW n \in Int
  PROVE  ROUND_UP(U32(n)) \in Int
<1> DEFINE a == U32(U32(n) + PageSize - 1)
<1>1. a \in Nat
  BY U32Type, SizeAssumption
<1>2. a \div PageSize \in Nat
  BY <1>1, PageDiv
<1>3. (a \div PageSize) * PageSize \in Int
  BY <1>2, SizeAssumption
<1> QED
  BY <1>3, U32Type DEF ROUND_UP

\* A multiple of the page size divides exactly.
LEMMA PageMul ==
  ASSUME NEW q \in Nat
  PROVE  (q * PageSize) \div PageSize = q
BY SizeAssumption

\* A request has at most as many pages as the address space.
LEMMA PagesOfType ==
  ASSUME NEW size \in Nat
  PROVE  PagesOf(size) \in 0 .. (AddrSpace - 1) \div PageSize
<1> DEFINE n == U32(size + PageSize - 1)
<1>1. n \in 0 .. AddrSpace - 1
  BY U32Type, SizeAssumption
<1> QED
  BY <1>1, SizeAssumption DEF PagesOf

\* Page 0 is in no region that pmm_memory_setup frees: with it free, the value
\* 0 of first_page would be ambiguous.
LEMMA RegionAboveZero ==
  ASSUME NEW m \in MemoryMaps, NEW k \in DOMAIN m, Usable(m[k])
  PROVE  RegionPages(m[k]) \subseteq Bits \ {0}
<1> DEFINE a == U32(m[k].addr)
           q == (a + PageSize - 1) \div PageSize
<1>1. m[k] \in Region /\ m[k].available
  BY SizeAssumption DEF Usable
<1>2. a \in Nat /\ a >= PageSize /\ a + PageSize < AddrSpace
  <2>1. m[k].addr \in Int
    BY <1>1 DEF Region
  <2>2. a \in 0 .. AddrSpace - 1
    BY <2>1, U32Type
  <2> QED
    BY <2>2, SizeAssumption, MapAssumption DEF Usable
<1> HIDE DEF a
<1>3. q \in Nat /\ q * PageSize <= a + PageSize - 1 /\ q >= 1
  <2>1. a + PageSize - 1 \in Nat
    BY <1>2, SizeAssumption
  <2>2. q \in Nat /\ q * PageSize <= a + PageSize - 1 /\ a + PageSize - 1 < q * PageSize + PageSize
    BY <2>1, PageDiv
  <2>3. q # 0
    BY <1>2, <2>2, SizeAssumption
  <2> QED
    BY <2>2, <2>3
<1>4. BlockStart(m[k]) = q * PageSize
  <2>1. U32(a + PageSize - 1) = a + PageSize - 1
    BY <1>2, SizeAssumption, U32Exact
  <2>2. q * PageSize \in 0 .. AddrSpace - 1
    BY <1>2, <1>3, SizeAssumption
  <2>3. ROUND_UP(a) = U32(q * PageSize)
    BY <2>1 DEF ROUND_UP
  <2> QED
    BY <2>2, <2>3, U32Exact DEF BlockStart, a
<1>5. BlockStart(m[k]) \div PageSize = q
  BY <1>3, <1>4, PageMul
<1>6. RegionPages(m[k]) \subseteq Bits
  BY <1>1, MapAssumption
<1>7. 0 \notin RegionPages(m[k])
  BY <1>3, <1>5 DEF RegionPages
<1> QED
  BY <1>6, <1>7

\* What the memory map calls RAM is inside the bitmap and above page 0.
LEMMA RamBits ==
  ASSUME mmap \in MemoryMaps
  PROVE  Ram \subseteq Bits \ {0}
BY RegionAboveZero DEF Ram

-----------------------------------------------------------------------------
(* The invariant.                                                          *)

\* The state in which pmm_memory_setup is called.
LEMMA InitInv == Init => PmmInv
BY SizeAssumption DEF Init, PmmInv, TypeOK, AllocatesFreeRam, FirstFit

\* pmm_memory_setup: memset.
LEMMA SetupStartInv ==
  ASSUME PmmInv, SetupStart
  PROVE  PmmInv'
<1>1. mmap \in MemoryMaps /\ 0 \in Bits /\ mmap \in Seq(Region)
  BY SizeAssumption DEF PmmInv, TypeOK, Bits
<1>2. TypeOK'
  BY <1>1 DEF PmmInv, TypeOK, SetupStart, counters, search
<1> QED
  BY <1>1, <1>2 DEF PmmInv, SetupStart, counters, search, AllocatesFreeRam, FirstFit, Ram

\* pmm_memory_setup: one region.
LEMMA SetupRegionInv ==
  ASSUME PmmInv, SetupRegion
  PROVE  PmmInv'
<1> DEFINE r == mmap[region]
<1>1. mmap \in MemoryMaps /\ mmap \in Seq(Region) /\ region \in DOMAIN mmap /\ r \in Region
  BY SizeAssumption DEF PmmInv, TypeOK, SetupRegion
<1>2. U32(available_memory + BlockLen(r)) \in 0 .. AddrSpace - 1
  <2>1. available_memory \in Int
    BY DEF PmmInv, TypeOK
  <2>2. r.addr + r.len \in Int /\ r.addr \in Int
    BY <1>1 DEF Region
  <2>3. BlockStart(r) \in Int /\ BlockLen(r) \in Int
    BY <2>2, RoundUpType, U32Type DEF BlockStart, BlockLen
  <2> QED
    BY <2>1, <2>3, U32Type
<1>3. region' \in 0 .. Len(mmap') + 1 /\ region' # 0
  BY <1>1 DEF SetupRegion
<1>4. TypeOK'
  BY <1>2, <1>3 DEF PmmInv, TypeOK, SetupRegion, search
<1>5. Usable(r) => RegionPages(r) \subseteq Ram \ {0}
  BY <1>1, RegionAboveZero DEF Ram
<1>6. (0 \in bitmap /\ Bits \ Ram \subseteq bitmap)'
  BY <1>1, <1>5 DEF PmmInv, SetupRegion, Ram
<1> QED
  BY <1>3, <1>4, <1>6 DEF PmmInv, SetupRegion, search, AllocatesFreeRam, FirstFit

\* pmm_memory_setup: the end.
LEMMA SetupEndInv ==
  ASSUME PmmInv, SetupEnd
  PROVE  PmmInv'
<1>1. region # 0 /\ mmap \in Seq(Region)
  BY SizeAssumption DEF SetupEnd, PmmInv, TypeOK
<1>2. TypeOK'
  BY DEF PmmInv, TypeOK, SetupEnd, search
<1> QED
  BY <1>1, <1>2 DEF PmmInv, SetupEnd, search, AllocatesFreeRam, FirstFit, Ram

\* The counters stay uint32_t.
LEMMA ChargeType ==
  ASSUME NEW n \in Nat, available_memory \in Int, used_memory \in Int
  PROVE  /\ U32(available_memory - n * PageSize) \in 0 .. AddrSpace - 1
         /\ U32(used_memory + n * PageSize) \in 0 .. AddrSpace - 1
         /\ U32(available_memory + n * PageSize) \in 0 .. AddrSpace - 1
         /\ U32(used_memory - n * PageSize) \in 0 .. AddrSpace - 1
<1>1. n * PageSize \in Int
  BY SizeAssumption
<1> QED
  BY <1>1, U32Type

\* pmm_alloc_from.
LEMMA AllocFromInv ==
  ASSUME PmmInv, AllocFrom
  PROVE  PmmInv'
<1>1. available_memory \in Int /\ used_memory \in Int
  BY DEF PmmInv, TypeOK
<1>2. PagesOf(KernelSize) \in Nat
  <2>1. KernelSize \in Nat
    BY U32Type, SizeAssumption DEF KernelSize
  <2> QED
    BY <2>1, PagesOfType, SizeAssumption
<1>3. available_memory' \in 0 .. AddrSpace - 1 /\ used_memory' \in 0 .. AddrSpace - 1
  BY <1>1, <1>2, ChargeType, ZenonT(30) DEF AllocFrom, Charge, counters, PmmInv, TypeOK
<1>4. TypeOK'
  BY <1>3, KernelAssumption DEF PmmInv, TypeOK, AllocFrom, counters, search
<1>5. pc = "kernel" /\ held' = {} /\ mmap' = mmap /\ pc' \in {"idle", "panic"}
  BY DEF PmmInv, AllocFrom
<1>6. bitmap \subseteq bitmap' /\ kernel' \subseteq bitmap'
  BY DEF AllocFrom, PmmInv
<1> QED
  BY <1>4, <1>5, <1>6 DEF PmmInv, AllocatesFreeRam, FirstFit, Ram

\* pmm_alloc before its search.
LEMMA AllocInv ==
  ASSUME PmmInv, NEW size \in Sizes, Alloc(size)
  PROVE  PmmInv'
<1>1. pages' \in 0 .. (AddrSpace - 1) \div PageSize
  BY PagesOfType, SizeAssumption DEF Alloc
<1>2. TypeOK'
  BY <1>1, SizeAssumption DEF PmmInv, TypeOK, Alloc, counters
<1>3. /\ UNCHANGED <<bitmap, held, kernel, region, mmap>>
      /\ i' = 0 /\ found_pages' = 0 /\ first_page' = 0 /\ pc = "idle" /\ pc' = "scan"
  BY DEF Alloc
<1>4. SearchInv'
  BY <1>3 DEF SearchInv
<1>5. \A p \in 0 .. i' : p + pages' <= i' => pages' = 0
  <2>1. pages' \in Nat
    BY <1>1, SizeAssumption
  <2>2. \A p, n \in Nat : p + n <= 0 => n = 0
    OBVIOUS
  <2>3. i' = 0
    BY <1>3
  <2>4. \A p \in 0 .. 0 : p + pages' <= 0 => pages' = 0
    <3>1. 0 .. 0 \subseteq Nat
      OBVIOUS
    <3> QED
      BY <2>1, <2>2, <3>1, Zenon
  <2> QED
    BY <2>3, <2>4
<1> QED
  BY <1>2, <1>3, <1>4, <1>5 DEF PmmInv, AllocatesFreeRam, FirstFit, Ram

\* The search fails.
LEMMA ScanEndInv ==
  ASSUME PmmInv, ScanEnd
  PROVE  PmmInv'
<1>1. /\ UNCHANGED <<bitmap, held, kernel, region, mmap, search>>
      /\ pc = "scan" /\ pc' = "halt" /\ i = BITMAP_MAX_PAGE /\ pages # 0
  <2>1. i = BITMAP_MAX_PAGE /\ i # 0 /\ pages \in Nat /\ found_pages \in Nat
    BY SizeAssumption DEF ScanEnd, PmmInv, TypeOK
  <2>2. found_pages < pages
    BY <2>1 DEF PmmInv, SearchInv, ScanEnd
  <2> QED
    BY <2>1, <2>2 DEF ScanEnd
<1>2. TypeOK'
  BY DEF PmmInv, TypeOK, ScanEnd, counters, search
<1>3. \A p \in 0 .. BITMAP_MAX_PAGE : ~Fits(p)
  BY <1>1, SizeAssumption DEF PmmInv, Fits
<1>4. FirstFit'
  BY <1>1, <1>3 DEF FirstFit, Fits, search
<1> QED
  BY <1>1, <1>2, <1>4 DEF PmmInv, AllocatesFreeRam, Ram

\* One iteration of the search.
LEMMA ScanPageInv ==
  ASSUME PmmInv, ScanPage
  PROVE  PmmInv'
<1>1. /\ UNCHANGED <<bitmap, held, kernel, region, mmap, pages>>
      /\ pc = "scan" /\ i' = i + 1 /\ pc' = IF found_pages' = pages THEN "mark" ELSE "scan"
  BY DEF ScanPage
<1>2. /\ i \in Nat /\ i < BITMAP_MAX_PAGE /\ pages \in Nat /\ BITMAP_MAX_PAGE \in Nat
      /\ found_pages \in 0 .. i /\ first_page \in 0 .. i
  BY SizeAssumption DEF PmmInv, TypeOK, ScanPage
<1>3. SearchInv /\ 0 \in bitmap /\ Bits \ Ram \subseteq bitmap
  BY <1>1 DEF PmmInv
<1>4. /\ found_pages' \in 0 .. i' /\ first_page' \in 0 .. i'
      /\ found_pages' = 0 => first_page' = 0
      /\ found_pages' > 0 => /\ first_page' > 0 /\ first_page' = i' - found_pages'
                             /\ \A p \in first_page' .. i' - 1 : p \notin bitmap
      /\ found_pages' < i' => i' - found_pages' - 1 \in bitmap
      /\ found_pages' <= pages
  <2>1. CASE i \notin bitmap
    <3>1. i # 0 /\ found_pages' = found_pages + 1
          /\ first_page' = IF first_page = 0 THEN i ELSE first_page
      BY <1>3, <2>1 DEF ScanPage
    <3>2. first_page' = i - found_pages
      BY <1>2, <1>3, <3>1 DEF SearchInv
    <3>3. found_pages # i
      BY <1>2, <1>3, <3>1 DEF SearchInv
    <3>4. \A p \in first_page' .. i' - 1 : p \notin bitmap
      BY <1>1, <1>2, <1>3, <2>1, <3>2 DEF SearchInv
    <3>5. found_pages' < i' => i' - found_pages' - 1 \in bitmap
      BY <1>1, <1>2, <1>3, <3>1, <3>3 DEF SearchInv
    <3>6. found_pages' <= pages
      BY <1>2, <1>3, <3>1 DEF SearchInv
    <3> QED
      BY <1>1, <1>2, <3>1, <3>2, <3>3, <3>4, <3>5, <3>6
  <2>2. CASE i \in bitmap
    <3>1. found_pages' = 0 /\ first_page' = 0
      BY <2>2 DEF ScanPage
    <3> QED
      BY <1>1, <1>2, <2>2, <3>1
  <2> QED
    BY <2>1, <2>2
<1>11. /\ i' \in Nat /\ i' = i + 1 /\ found_pages' \in Nat /\ first_page' \in Nat
      /\ found_pages' <= i' /\ found_pages' <= pages
  BY <1>1, <1>2, <1>4
<1>5. TypeOK'
  BY <1>1, <1>2, <1>4 DEF PmmInv, TypeOK, ScanPage, counters
<1>6. \A p \in 0 .. i : p + pages <= i => ~Fits(p) \/ pages = 0
  BY <1>1 DEF PmmInv
<1>7. CASE found_pages' = pages
  <2>1. pc' = "mark" /\ first_page' + pages <= BITMAP_MAX_PAGE
    <3>1. pages = 0 => first_page' = 0
      BY <1>4, <1>7
    <3>2. pages # 0 => first_page' = i' - pages
      BY <1>2, <1>4, <1>7
    <3>3. i' <= BITMAP_MAX_PAGE
      BY <1>2, <1>11
    <3>4. \A f, g \in Nat : g <= BITMAP_MAX_PAGE /\ (pages = 0 => f = 0) /\ (pages # 0 => f = g - pages)
            => f + pages <= BITMAP_MAX_PAGE
      BY <1>2
    <3> QED
      BY <1>1, <1>7, <1>11, <3>1, <3>2, <3>3, <3>4
  <2>2. Block' \subseteq Ram \ bitmap
    <3>1. CASE pages = 0
      BY <1>1, <1>4, <1>7, <3>1 DEF Block
    <3>2. CASE pages # 0
      <4>1. \A p \in Block' : p \in Nat /\ p \notin bitmap /\ p < BITMAP_MAX_PAGE
        <5>1. first_page' = i' - pages /\ \A p \in first_page' .. i' - 1 : p \notin bitmap
          BY <1>2, <1>4, <1>7, <3>2
        <5>2. first_page' + pages - 1 = i' - 1 /\ Block' = first_page' .. i' - 1
          BY <1>1, <1>2, <1>11, <5>1 DEF Block
        <5> QED
          BY <1>2, <1>11, <5>1, <5>2
      <4>2. \A p \in Nat : p < BITMAP_MAX_PAGE => p \in Bits
        BY <1>2 DEF Bits
      <4> QED
        BY <1>3, <4>1, <4>2
    <3> QED
      BY <3>1, <3>2
  <2>3. \A p \in 0 .. first_page' - 1 : ~Fits(p)
    <3>1. CASE pages = 0
      BY <1>4, <1>7, <3>1
    <3>2. CASE pages # 0
      <4>1. first_page' = i' - pages
        BY <1>2, <1>4, <1>7, <3>2
      <4> QED
        BY <1>2, <1>6, <1>11, <3>2, <4>1
    <3> QED
      BY <3>1, <3>2
  <2>4. Ram' = Ram /\ \A p : Fits(p)' <=> Fits(p)
    BY <1>1 DEF Ram, Fits
  <2>5. AllocatesFreeRam' /\ FirstFit'
    BY <1>1, <2>1, <2>2, <2>3, <2>4 DEF AllocatesFreeRam, FirstFit, PmmInv
  <2> QED
    BY <1>1, <1>5, <2>1, <2>4, <2>5 DEF PmmInv
<1>8. CASE found_pages' # pages
  <2>1. pc' = "scan" /\ found_pages' < pages
    BY <1>1, <1>2, <1>4, <1>8
  <2>2. SearchInv'
    BY <1>1, <1>4, <2>1 DEF SearchInv
  <2>3. \A p \in 0 .. i' : p + pages <= i' => ~Fits(p) \/ pages = 0
    <3> SUFFICES ASSUME NEW p \in 0 .. i', p + pages = i', pages # 0
                 PROVE  ~Fits(p)
      BY <1>1, <1>2, <1>6
    <3>1. found_pages' < i' /\ i' - found_pages' - 1 \in p .. p + pages - 1
      <4>1. \A f, g, q, n \in Nat : f < n /\ q + n = g => f < g /\ g - f - 1 \in q .. q + n - 1
        OBVIOUS
      <4>2. p \in Nat
        BY <1>2, <1>11
      <4> QED
        BY <1>2, <1>11, <2>1, <4>1, <4>2, ZenonT(30)
    <3> QED
      BY <1>4, <3>1 DEF Fits
  <2>4. Ram' = Ram /\ \A p : Fits(p)' <=> Fits(p)
    BY <1>1 DEF Ram, Fits
  <2> QED
    BY <1>1, <1>5, <2>1, <2>2, <2>3, <2>4 DEF PmmInv, AllocatesFreeRam, FirstFit
<1> QED
  BY <1>7, <1>8

\* pmm_alloc after its search.
LEMMA MarkInv ==
  ASSUME PmmInv, Mark
  PROVE  PmmInv'
<1>1. available_memory \in Int /\ used_memory \in Int /\ pages \in Nat /\ first_page \in Nat
  BY SizeAssumption DEF PmmInv, TypeOK
<1>2. available_memory' \in 0 .. AddrSpace - 1 /\ used_memory' \in 0 .. AddrSpace - 1
  BY <1>1, ChargeType DEF Mark, Charge
<1>3. /\ Block \subseteq Bits /\ Block \subseteq Ram /\ Block \cap (held \cup kernel) = {}
      /\ \A p \in Block : p < BITMAP_MAX_PAGE
  <2>1. Block \subseteq Ram \ (held \cup kernel) /\ mmap \in MemoryMaps
    BY DEF PmmInv, AllocatesFreeRam, Mark, TypeOK
  <2>2. first_page + pages <= BITMAP_MAX_PAGE
    BY DEF PmmInv, Mark
  <2> QED
    BY <1>1, <2>1, <2>2, RamBits, SizeAssumption DEF Block
<1>4. TypeOK'
  BY <1>2, <1>3 DEF PmmInv, TypeOK, Mark, search
<1>5. /\ UNCHANGED <<region, mmap, kernel>> /\ pc = "mark" /\ pc' = "idle"
      /\ bitmap' = bitmap \cup Block /\ held' = held \cup Block
  BY DEF Mark
<1> QED
  BY <1>3, <1>4, <1>5 DEF PmmInv, AllocatesFreeRam, FirstFit, Ram

\* pmm_unalloc: its check of the bitmap's end never fires.
LEMMA UnallocInv ==
  ASSUME PmmInv, NEW p \in Bits, NEW size \in Sizes, Unalloc(p, size)
  PROVE  PmmInv'
<1> DEFINE n == PagesOf(size)
           block == p .. p + n - 1
<1>1. n \in Nat /\ n > 0 /\ block \subseteq held /\ pc = "idle" /\ p \in Nat
  BY PagesOfType, SizeAssumption DEF Unalloc, Bits
<1> HIDE DEF n
<1>2. p + n <= BITMAP_MAX_PAGE
  <2>1. p + n - 1 \in held
    BY <1>1
  <2> QED
    BY <1>1, <2>1, SizeAssumption DEF PmmInv
<1>3. /\ bitmap' = bitmap \ block /\ held' = held \ block
      /\ available_memory' = U32(available_memory + n * PageSize)
      /\ used_memory' = U32(used_memory - n * PageSize)
      /\ UNCHANGED <<pc, total_memory, search, kernel, region, mmap>>
  BY <1>1, <1>2, SizeAssumption DEF Unalloc, n
<1>4. available_memory' \in 0 .. AddrSpace - 1 /\ used_memory' \in 0 .. AddrSpace - 1
  BY <1>1, <1>3, ChargeType DEF PmmInv, TypeOK
<1>5. TypeOK'
  BY <1>3, <1>4 DEF PmmInv, TypeOK, search
<1>6. 0 \notin block /\ block \subseteq Ram \ kernel
  BY <1>1, RamBits DEF PmmInv, TypeOK
<1>7. (0 \in bitmap /\ Bits \ Ram \subseteq bitmap /\ held \cup kernel \subseteq bitmap)'
  BY <1>1, <1>3, <1>6 DEF PmmInv, Ram
<1>8. Ram' = Ram /\ held' \subseteq held
  BY <1>3 DEF Ram
<1> QED
  BY <1>1, <1>3, <1>5, <1>7, <1>8 DEF PmmInv, AllocatesFreeRam, FirstFit

\* PmmInv is an invariant: whatever is requested and freed in whatever order,
\* allocated pages, page 0 and pages that are not RAM keep their bits.
THEOREM PmmInvariant == Spec => []PmmInv
<1>1. PmmInv /\ [Next]_vars => PmmInv'
  <2> SUFFICES ASSUME PmmInv, [Next]_vars PROVE PmmInv'
    OBVIOUS
  <2>1. CASE SetupStart
    BY <2>1, SetupStartInv
  <2>2. CASE SetupRegion
    BY <2>2, SetupRegionInv
  <2>3. CASE SetupEnd
    BY <2>3, SetupEndInv
  <2>4. CASE AllocFrom
    BY <2>4, AllocFromInv
  <2>5. CASE \E size \in Sizes : Alloc(size)
    BY <2>5, AllocInv
  <2>6. CASE ScanPage
    BY <2>6, ScanPageInv
  <2>7. CASE ScanEnd
    BY <2>7, ScanEndInv
  <2>8. CASE Mark
    BY <2>8, MarkInv
  <2>9. CASE \E p \in Bits, size \in Sizes : Unalloc(p, size)
    BY <2>9, UnallocInv
  <2>10. CASE UNCHANGED vars
    <3>1. TypeOK' /\ Ram' = Ram /\ \A p : Fits(p)' <=> Fits(p)
      BY <2>10 DEF vars, PmmInv, TypeOK, Ram, Fits
    <3>2. AllocatesFreeRam' /\ FirstFit' /\ (pc' = "scan" => SearchInv')
      BY <2>10, <3>1 DEF vars, PmmInv, AllocatesFreeRam, FirstFit, SearchInv, Block
    <3> QED
      BY <2>10, <3>1, <3>2 DEF vars, PmmInv
  <2> QED
    BY <2>1, <2>2, <2>3, <2>4, <2>5, <2>6, <2>7, <2>8, <2>9, <2>10 DEF Next
<1> QED
  BY <1>1, InitInv, PTL DEF Spec

\* Every block that pmm_alloc hands out is free RAM that nobody holds, for every
\* page size, memory map and sequence of calls.
THEOREM NoDoubleAllocation == Spec => []AllocatesFreeRam
<1>1. PmmInv => AllocatesFreeRam
  BY DEF PmmInv
<1> QED
  BY <1>1, PmmInvariant, PTL

\* find_free_page returns the lowest block that fits, and halts only when there
\* is none.
THEOREM SearchIsFirstFit == Spec => []FirstFit
<1>1. PmmInv => FirstFit
  BY DEF PmmInv
<1> QED
  BY <1>1, PmmInvariant, PTL
-----------------------------------------------------------------------------
(* What pmm_memory_setup frees.                                            *)

\* Products with the page size are ordered as their factors are.
LEMMA PageOrder ==
  ASSUME NEW c \in Int, NEW d \in Int, c < d
  PROVE  c * PageSize + PageSize <= d * PageSize
BY SizeAssumption

LEMMA PageOrderBack ==
  ASSUME NEW c \in Int, NEW d \in Int, c * PageSize < d * PageSize
  PROVE  c < d
BY SizeAssumption

\* Rounding up an address that is not in the last page.
LEMMA RoundUpExact ==
  ASSUME NEW n \in Nat, n + PageSize <= AddrSpace
  PROVE  \E q \in Nat : ROUND_UP(n) = q * PageSize /\ n <= q * PageSize /\ q * PageSize < n + PageSize
<1> DEFINE q == (n + PageSize - 1) \div PageSize
<1>1. n + PageSize - 1 \in Nat /\ n + PageSize - 1 \in 0 .. AddrSpace - 1
  BY SizeAssumption
<1>2. /\ q \in Nat /\ q * PageSize <= n + PageSize - 1
      /\ n + PageSize - 1 < q * PageSize + PageSize
  BY <1>1, PageDiv
<1>3. ROUND_UP(n) = U32(q * PageSize)
  BY <1>1, U32Exact DEF ROUND_UP
<1> HIDE DEF q
<1>4. PICK s \in Nat : s = q * PageSize
  BY <1>2, SizeAssumption
<1>5. s \in 0 .. AddrSpace - 1 /\ n <= s /\ s < n + PageSize
  BY <1>1, <1>2, <1>4, SizeAssumption
<1>6. ROUND_UP(n) = s
  BY <1>3, <1>4, <1>5, U32Exact
<1> QED
  BY <1>2, <1>4, <1>5, <1>6

\* A page of the bitmap, and the page after it, start below 4 GB.
LEMMA BitsBelowTop ==
  ASSUME NEW p \in Bits
  PROVE  p \in Nat /\ p * PageSize + PageSize < AddrSpace
<1> DEFINE top == (AddrSpace - 1) \div PageSize
<1>1. AddrSpace - 1 \in Nat /\ top \in Nat /\ top * PageSize <= AddrSpace - 1
  BY SizeAssumption, PageDiv
<1> HIDE DEF top
<1>2. BITMAP_MAX_PAGE \in Nat /\ 8 * BITMAP_MAX_PAGE <= top
  BY <1>1, SizeAssumption DEF BITMAP_MAX_PAGE, top
<1>3. p \in Nat /\ p < top
  BY <1>1, <1>2 DEF Bits
<1>4. p * PageSize + PageSize <= top * PageSize
  BY <1>1, <1>3, PageOrder
<1>5. p * PageSize \in Nat /\ top * PageSize \in Nat
  BY <1>1, <1>3, SizeAssumption
<1> QED
  BY <1>1, <1>3, <1>4, <1>5, SizeAssumption

\* Where the loop over the bits of a region starts.
LEMMA RegionStart ==
  ASSUME NEW m \in MemoryMaps, NEW k \in DOMAIN m
  PROVE  /\ m[k].addr \in Nat /\ m[k].len \in Nat /\ U32(m[k].addr) \in 0 .. AddrSpace - 1
         /\ \E q \in Nat : /\ BlockStart(m[k]) = q * PageSize /\ BlockStart(m[k]) \div PageSize = q
                           /\ U32(m[k].addr) <= q * PageSize /\ q * PageSize < U32(m[k].addr) + PageSize
<1> DEFINE a == U32(m[k].addr)
<1>1. m[k] \in Region
  BY SizeAssumption
<1>2. m[k].addr \in Nat /\ m[k].len \in Nat
  BY <1>1 DEF Region
<1>3. a \in 0 .. AddrSpace - 1
  BY <1>2, U32Type
<1>4. a \in Nat /\ a + PageSize <= AddrSpace
  BY <1>3, SizeAssumption, MapAssumption
<1>5. PICK q \in Nat : ROUND_UP(a) = q * PageSize /\ a <= q * PageSize /\ q * PageSize < a + PageSize
  BY <1>4, RoundUpExact
<1>6. BlockStart(m[k]) = q * PageSize
  BY <1>5 DEF BlockStart
<1>7. BlockStart(m[k]) \div PageSize = q
  BY <1>6, PageMul
<1> QED
  BY <1>2, <1>3, <1>5, <1>6, <1>7

\* The pages freed for a region start inside it, even when its end wraps.
LEMMA RegionInMap ==
  ASSUME MapsBelow4G, NEW m \in MemoryMaps, NEW k \in DOMAIN m, Usable(m[k]),
         NEW p \in RegionPages(m[k])
  PROVE  m[k].addr <= p * PageSize /\ p * PageSize < m[k].addr + m[k].len
<1> DEFINE a == m[k].addr
           b == m[k].addr + m[k].len
<1>1. a \in Nat /\ b \in Nat /\ a <= b /\ U32(a) = a
  <2>1. a \in Nat /\ m[k].len \in Nat
    BY RegionStart
  <2>2. a \in 0 .. AddrSpace - 1
    BY <2>1, SizeAssumption DEF MapsBelow4G
  <2> QED
    BY <2>1, <2>2, U32Exact
<1>2. a + PageSize < AddrSpace /\ p \in Bits
  BY <1>1, MapAssumption DEF Usable
<1>3. PICK q \in Nat : /\ BlockStart(m[k]) = q * PageSize /\ BlockStart(m[k]) \div PageSize = q
                       /\ a <= q * PageSize /\ q * PageSize < a + PageSize
  BY <1>1, RegionStart
<1>4. p \in Nat /\ p * PageSize + PageSize < AddrSpace /\ p * PageSize \in Nat /\ q * PageSize \in Nat
  BY <1>2, BitsBelowTop, SizeAssumption
<1>5. p >= q /\ p <= q + BlockLen(m[k]) \div PageSize - 1
  BY <1>3 DEF RegionPages
<1>6. a <= p * PageSize
  <2>1. CASE p = q
    BY <1>3, <2>1
  <2>2. CASE q < p
    <3>1. q * PageSize + PageSize <= p * PageSize
      BY <1>4, <2>2, PageOrder
    <3>2. \A s, t \in Nat : a <= s /\ s + PageSize <= t => a <= t
      BY <1>1, SizeAssumption
    <3> QED
      BY <1>3, <1>4, <3>1, <3>2
  <2> QED
    BY <1>4, <1>5, <2>1, <2>2
<1>7. CASE b + PageSize > AddrSpace
  BY <1>1, <1>4, <1>6, <1>7, SizeAssumption
<1>8. CASE b + PageSize <= AddrSpace
  <2>1. U32(b) = b
    <3>1. b \in 0 .. AddrSpace - 1
      BY <1>1, <1>8, SizeAssumption
    <3> QED
      BY <3>1, U32Exact
  <2>2. PICK e \in Nat : ROUND_UP(b) = e * PageSize /\ b <= e * PageSize /\ e * PageSize < b + PageSize
    BY <1>1, <1>8, RoundUpExact
  <2>3. e * PageSize \in Nat
    BY SizeAssumption
  <2>4. q <= e
    <3>1. q * PageSize < (e + 1) * PageSize
      <4>1. (e + 1) * PageSize = e * PageSize + PageSize
        BY SizeAssumption
      <4>2. \A s, t \in Nat : s < a + PageSize /\ b <= t => s < t + PageSize
        BY <1>1, SizeAssumption
      <4>3. q * PageSize < e * PageSize + PageSize
        BY <1>3, <1>4, <2>2, <2>3, <4>2
      <4> QED
        BY <4>1, <4>3
    <3>2. q < e + 1
      BY <3>1, PageOrderBack
    <3> QED
      BY <3>2
  <2>5. BlockLen(m[k]) = (e - q) * PageSize
    <3>1. PICK n \in Nat : n = e - q
      BY <2>4
    <3>2. e * PageSize - q * PageSize = n * PageSize
      BY <3>1, SizeAssumption
    <3>3. n * PageSize \in Nat
      BY <3>1, SizeAssumption
    <3>4. n * PageSize \in 0 .. AddrSpace - 1
      BY <1>1, <1>4, <1>8, <2>2, <2>3, <3>2, <3>3, SizeAssumption, SMTT(30)
    <3>5. BlockLen(m[k]) = U32(n * PageSize)
      BY <1>3, <2>1, <2>2, <3>2 DEF BlockLen
    <3> QED
      BY <3>1, <3>4, <3>5, U32Exact
  <2>6. BlockLen(m[k]) \div PageSize = e - q
    BY <2>4, <2>5, PageMul
  <2>7. p < e
    BY <1>4, <1>5, <2>6
  <2>8. p * PageSize + PageSize <= e * PageSize
    BY <1>4, <2>7, PageOrder
  <2>9. \A s, t \in Nat : s + PageSize <= t /\ t < b + PageSize => s < b
    BY <1>1, SizeAssumption
  <2> QED
    BY <1>4, <1>6, <2>2, <2>3, <2>8, <2>9
<1> QED
  BY <1>1, <1>7, <1>8, SizeAssumption

\* Every page that is ever free starts inside a region that the memory map calls
\* available, for every map whose usable regions start below 4 GB: neither the
\* rounding of pmm_memory_setup nor the wrapping of its sums frees another.
THEOREM FreesOnlyReportedRam == MapsBelow4G => (Spec => []RamInsideMap)
<1> SUFFICES ASSUME MapsBelow4G PROVE Spec => []RamInsideMap
  OBVIOUS
<1>1. PmmInv => RamInsideMap
  <2> SUFFICES ASSUME PmmInv, pc # "setup", NEW p \in Bits \ bitmap
               PROVE  \E k \in DOMAIN mmap :
                          /\ mmap[k].available
                          /\ mmap[k].addr <= p * PageSize /\ p * PageSize < mmap[k].addr + mmap[k].len
    BY DEF RamInsideMap
  <2>1. mmap \in MemoryMaps /\ p \in Ram
    BY DEF PmmInv, TypeOK
  <2>2. PICK k \in DOMAIN mmap : Usable(mmap[k]) /\ p \in RegionPages(mmap[k])
    BY <2>1 DEF Ram
  <2>3. mmap[k].addr <= p * PageSize /\ p * PageSize < mmap[k].addr + mmap[k].len
    BY <2>1, <2>2, RegionInMap
  <2> QED
    BY <2>2, <2>3 DEF Usable
<1> QED
  BY <1>1, PmmInvariant, PTL
-----------------------------------------------------------------------------
(* The counters.                                                           *)

\* A number that is a multiple of 2^32 away from a uint32_t wraps to it.
LEMMA U32Wraps ==
  ASSUME NEW j \in Int, NEW t \in 0 .. AddrSpace - 1
  PROVE  U32(j * AddrSpace + t) = t
<1> DEFINE n == j * AddrSpace + t
<1>1. /\ n \in Int /\ n % AddrSpace \in 0 .. AddrSpace - 1 /\ n \div AddrSpace \in Int
      /\ n = (n \div AddrSpace) * AddrSpace + (n % AddrSpace)
  BY SizeAssumption
<1>2. PICK u \in 0 .. AddrSpace - 1 : u = n % AddrSpace
  BY <1>1
<1>3. PICK k \in Int : k = n \div AddrSpace
  BY <1>1
<1>4. j * AddrSpace + t = k * AddrSpace + u
  BY <1>1, <1>2, <1>3
<1>5. j * AddrSpace \in Int /\ k * AddrSpace \in Int
  BY SizeAssumption
<1>6. \A c, d \in Int : c < d => c * AddrSpace + AddrSpace <= d * AddrSpace
  BY SizeAssumption
<1>7. ~(j < k)
  BY <1>4, <1>5, <1>6, SizeAssumption
<1>8. ~(k < j)
  BY <1>4, <1>5, <1>6, SizeAssumption
<1>9. j = k
  BY <1>7, <1>8
<1> QED
  BY <1>2, <1>4, <1>5, <1>9 DEF U32

\* A multiple of the page size stays one when it wraps.
LEMMA U32Pages ==
  ASSUME NEW k \in Int
  PROVE  \E t \in Nat : U32(k * PageSize) = t * PageSize
<1>1. PICK N \in Nat \ {0} : AddrSpace = N * PageSize
  <2> DEFINE N == AddrSpace \div PageSize
  <2>1. AddrSpace = N * PageSize + (AddrSpace % PageSize)
    BY SizeAssumption
  <2>2. N \in Nat /\ N * PageSize \in Int
    BY SizeAssumption
  <2>3. AddrSpace = N * PageSize
    BY <2>1, <2>2, PageAssumption
  <2>4. N # 0
    BY <2>2, <2>3, SizeAssumption
  <2> QED
    BY <2>2, <2>3, <2>4
<1>2. PICK j \in Int, t \in 0 .. N - 1 : k = j * N + t
  <2>1. k \div N \in Int /\ k % N \in 0 .. N - 1 /\ k = (k \div N) * N + (k % N)
    BY <1>1
  <2> QED
    BY <2>1
<1>3. k * PageSize = j * AddrSpace + t * PageSize
  BY <1>1, <1>2, SizeAssumption
<1>4. t * PageSize \in 0 .. AddrSpace - 1
  <2>1. t \in Int /\ N \in Int /\ t < N
    BY <1>1, <1>2
  <2>2. t * PageSize + PageSize <= N * PageSize
    BY <2>1, PageOrder
  <2>3. t * PageSize \in Nat
    BY <1>1, <1>2, SizeAssumption
  <2> QED
    BY <1>1, <2>2, <2>3, SizeAssumption
<1> QED
  BY <1>1, <1>2, <1>3, <1>4, U32Wraps

\* Rounding yields a multiple of the page size, wrapped or not.
LEMMA RoundUpPages ==
  ASSUME NEW n \in Int
  PROVE  \E t \in Nat : ROUND_UP(U32(n)) = t * PageSize
<1> DEFINE a == U32(U32(n) + PageSize - 1)
<1>1. a \in Nat
  BY U32Type, SizeAssumption
<1>2. a \div PageSize \in Int
  BY <1>1, PageDiv
<1> QED
  BY <1>2, U32Pages DEF ROUND_UP

\* The size of an interval of pages.
LEMMA PageInterval ==
  ASSUME NEW p \in Nat, NEW n \in Nat
  PROVE  IsFiniteSet(p .. p + n - 1) /\ Cardinality(p .. p + n - 1) = n
<1>1. p \in Int /\ p + n - 1 \in Int
  OBVIOUS
<1>2. /\ IsFiniteSet(p .. p + n - 1)
      /\ Cardinality(p .. p + n - 1) = IF p > p + n - 1 THEN 0 ELSE p + n - 1 - p + 1
  BY <1>1, FS_Interval
<1>3. (IF p > p + n - 1 THEN 0 ELSE p + n - 1 - p + 1) = n
  OBVIOUS
<1> QED
  BY <1>2, <1>3

\* The bytes that pmm_memory_setup counts for a region are those of the pages it
\* frees.
LEMMA RegionSize ==
  ASSUME NEW m \in MemoryMaps, NEW k \in DOMAIN m
  PROVE  BlockLen(m[k]) = Cardinality(RegionPages(m[k])) * PageSize
<1>1. PICK q \in Nat : BlockStart(m[k]) = q * PageSize /\ BlockStart(m[k]) \div PageSize = q
  BY RegionStart
<1>2. PICK e \in Nat : ROUND_UP(U32(m[k].addr + m[k].len)) = e * PageSize
  <2>1. m[k].addr + m[k].len \in Int
    BY RegionStart
  <2> QED
    BY <2>1, RoundUpPages
<1>3. e * PageSize - q * PageSize = (e - q) * PageSize
  BY SizeAssumption
<1>4. BlockLen(m[k]) = U32((e - q) * PageSize)
  BY <1>1, <1>2, <1>3 DEF BlockLen
<1>5. PICK t \in Nat : U32((e - q) * PageSize) = t * PageSize
  <2>1. e - q \in Int
    OBVIOUS
  <2> QED
    BY <2>1, U32Pages
<1>6. BlockLen(m[k]) \div PageSize = t
  BY <1>4, <1>5, PageMul
<1>7. RegionPages(m[k]) = q .. q + t - 1
  BY <1>1, <1>6 DEF RegionPages
<1> QED
  BY <1>4, <1>5, <1>7, PageInterval

\* The bytes of a set of pages fit in a uint32_t.
LEMMA BytesFit ==
  ASSUME NEW S \in SUBSET Bits
  PROVE  /\ IsFiniteSet(S) /\ Cardinality(S) \in Nat
         /\ PageSize * Cardinality(S) \in 0 .. AddrSpace - 1
<1> DEFINE top == (AddrSpace - 1) \div PageSize
           w == 8 * BITMAP_MAX_PAGE
<1>1. AddrSpace - 1 \in Nat /\ top \in Nat /\ top * PageSize <= AddrSpace - 1
  BY SizeAssumption, PageDiv
<1> HIDE DEF top
<1>2. w \in Nat /\ w <= top
  BY <1>1, SizeAssumption DEF BITMAP_MAX_PAGE, top
<1>3. IsFiniteSet(Bits) /\ Cardinality(Bits) = w
  <2>1. Bits = 0 .. 0 + w - 1
    BY <1>2 DEF Bits
  <2> HIDE DEF w
  <2> QED
    BY <1>2, <2>1, PageInterval
<1>4. IsFiniteSet(S) /\ Cardinality(S) <= w
  BY <1>3, FS_Subset
<1>5. Cardinality(S) \in Nat
  BY <1>4, FS_CardinalityType
<1>6. PICK c \in Nat : c = Cardinality(S) /\ c <= top
  <2>1. \A c, x, y \in Nat : c <= x /\ x <= y => c <= y
    OBVIOUS
  <2> HIDE DEF w
  <2> QED
    BY <1>1, <1>2, <1>4, <1>5, <2>1
<1>7. c * PageSize <= top * PageSize /\ c * PageSize \in Nat /\ top * PageSize \in Nat
  <2>1. CASE c = top
    BY <1>1, <2>1, SizeAssumption
  <2>2. CASE c < top
    <3>1. c * PageSize + PageSize <= top * PageSize
      BY <1>1, <2>2, PageOrder
    <3> QED
      BY <1>1, <3>1, SizeAssumption
  <2> QED
    BY <1>1, <1>6, <2>1, <2>2
<1>8. PageSize * c = c * PageSize
  BY SizeAssumption
<1> QED
  BY <1>1, <1>4, <1>5, <1>6, <1>7, <1>8, SizeAssumption

\* Counting the pages of X out of S and into T.
LEMMA PagesMove ==
  ASSUME NEW S \in SUBSET Bits, NEW T \in SUBSET Bits, NEW X \in SUBSET Bits
  PROVE  /\ X \subseteq S =>
              /\ U32(PageSize * Cardinality(S) - Cardinality(X) * PageSize)
                     = PageSize * Cardinality(S \ X)
              /\ PageSize * Cardinality(S \ X)
                     = PageSize * Cardinality(S) - PageSize * Cardinality(X)
         /\ X \cap T = {} =>
              /\ U32(PageSize * Cardinality(T) + Cardinality(X) * PageSize)
                     = PageSize * Cardinality(T \cup X)
              /\ PageSize * Cardinality(T \cup X)
                     = PageSize * Cardinality(T) + PageSize * Cardinality(X)
<1>1. /\ IsFiniteSet(S) /\ IsFiniteSet(T) /\ IsFiniteSet(X)
      /\ Cardinality(S) \in Nat /\ Cardinality(T) \in Nat /\ Cardinality(X) \in Nat
  BY BytesFit
<1>2. Cardinality(X) * PageSize = PageSize * Cardinality(X)
  BY <1>1, SizeAssumption
<1>3. ASSUME X \subseteq S
      PROVE  /\ U32(PageSize * Cardinality(S) - Cardinality(X) * PageSize)
                     = PageSize * Cardinality(S \ X)
             /\ PageSize * Cardinality(S \ X)
                     = PageSize * Cardinality(S) - PageSize * Cardinality(X)
  <2>1. Cardinality(S \ X) = Cardinality(S) - Cardinality(S \cap X)
    BY <1>1, FS_Difference, ZenonT(30)
  <2>2. S \cap X = X
    BY <1>3
  <2>3. PageSize * Cardinality(S \ X) = PageSize * Cardinality(S) - PageSize * Cardinality(X)
    <3>1. PICK a \in Nat : a = Cardinality(S)
      BY <1>1
    <3>2. PICK b \in Nat : b = Cardinality(X)
      BY <1>1
    <3>3. Cardinality(S \ X) = a - b
      BY <2>1, <2>2, <3>1, <3>2, ZenonT(30)
    <3>4. PageSize * (a - b) = PageSize * a - PageSize * b
      BY SizeAssumption
    <3> QED
      BY <3>1, <3>2, <3>3, <3>4
  <2>4. PageSize * Cardinality(S \ X) \in 0 .. AddrSpace - 1
    BY BytesFit
  <2> QED
    BY <1>2, <2>3, <2>4, U32Exact
<1>4. ASSUME X \cap T = {}
      PROVE  /\ U32(PageSize * Cardinality(T) + Cardinality(X) * PageSize)
                     = PageSize * Cardinality(T \cup X)
             /\ PageSize * Cardinality(T \cup X)
                     = PageSize * Cardinality(T) + PageSize * Cardinality(X)
  <2>1. Cardinality(T \cup X) = Cardinality(T) + Cardinality(X) - Cardinality(T \cap X)
    BY <1>1, FS_Union
  <2>2. T \cap X = {} /\ Cardinality({}) = 0
    BY <1>4, FS_EmptySet
  <2>3. PageSize * Cardinality(T \cup X) = PageSize * Cardinality(T) + PageSize * Cardinality(X)
    <3>1. PICK a \in Nat : a = Cardinality(T)
      BY <1>1
    <3>2. PICK b \in Nat : b = Cardinality(X)
      BY <1>1
    <3>3. Cardinality(T \cup X) = a + b
      <4>1. a + b - 0 = a + b
        OBVIOUS
      <4>2. Cardinality(T \cap X) = 0
        BY <2>2
      <4> QED
        BY <2>1, <3>1, <3>2, <4>1, <4>2
    <3>4. PageSize * (a + b) = PageSize * a + PageSize * b
      BY SizeAssumption
    <3> QED
      BY <3>1, <3>2, <3>3, <3>4
  <2>4. PageSize * Cardinality(T \cup X) \in 0 .. AddrSpace - 1
    BY BytesFit
  <2> QED
    BY <1>2, <2>3, <2>4, U32Exact
<1> QED
  BY <1>3, <1>4
\* The state in which pmm_memory_setup is called: nothing is counted.
LEMMA InitCounters == Init => CountersInv
<1> SUFFICES ASSUME Init PROVE CountersInv
  OBVIOUS
<1>1. held \cup kernel = {} /\ Cardinality({}) = 0
  BY FS_EmptySet DEF Init
<1>2. PageSize * 0 = 0
  BY SizeAssumption
<1> QED
  BY <1>1, <1>2 DEF Init, CountersInv

\* pmm_memory_setup: after the memset no page is free.
LEMMA SetupStartCounters ==
  ASSUME PmmInv, CountersInv, SetupStart
  PROVE  CountersInv'
<1>1. /\ pc = "setup" /\ region = 0 /\ bitmap' = Bits /\ region' = 1
      /\ UNCHANGED <<total_memory, used_memory, available_memory, pc, held, kernel, mmap>>
  BY DEF SetupStart, counters
<1>2. Bits \ bitmap' = {} /\ Cardinality({}) = 0 /\ PageSize * 0 = 0
  BY <1>1, FS_EmptySet, SizeAssumption
<1>3. available_memory' = PageSize * Cardinality(Bits \ bitmap')
  BY <1>1, <1>2 DEF CountersInv
<1>4. \A k \in DOMAIN mmap' : Usable(mmap'[k]) => RegionPages(mmap'[k]) \subseteq bitmap'
  BY <1>1, RegionAboveZero DEF PmmInv, TypeOK
<1> QED
  BY <1>1, <1>3, <1>4 DEF CountersInv

\* pmm_memory_setup: the pages of a region are counted as they are freed.
LEMMA SetupRegionCounters ==
  ASSUME MapsDisjoint, PmmInv, CountersInv, SetupRegion
  PROVE  CountersInv'
<1> DEFINE r == mmap[region]
           X == RegionPages(r)
<1>1. /\ mmap \in MemoryMaps /\ mmap \in Seq(Region) /\ region \in DOMAIN mmap
      /\ pc = "setup" /\ region # 0 /\ bitmap \subseteq Bits /\ region \in Nat
  BY SizeAssumption DEF PmmInv, TypeOK, SetupRegion
<1>2. region' = region + 1 /\ UNCHANGED <<total_memory, used_memory, pc, held, kernel, mmap>>
  BY DEF SetupRegion
<1>3. available_memory = PageSize * Cardinality(Bits \ bitmap)
  BY <1>1 DEF CountersInv
<1>4. \A k \in DOMAIN mmap : k >= region /\ Usable(mmap[k]) => RegionPages(mmap[k]) \subseteq bitmap
  BY <1>1 DEF CountersInv
<1>5. CASE Usable(r)
  <2>1. bitmap' = bitmap \ X /\ available_memory' = U32(available_memory + BlockLen(r))
    BY <1>5 DEF SetupRegion
  <2>2. X \subseteq bitmap /\ X \subseteq Bits
    BY <1>1, <1>4, <1>5
  <2>3. BlockLen(r) = Cardinality(X) * PageSize
    BY <1>1, RegionSize
  <2>4. Bits \ bitmap' = (Bits \ bitmap) \cup X
    BY <1>1, <2>1, <2>2
  <2>5. available_memory' = PageSize * Cardinality(Bits \ bitmap')
    <3>1. X \cap (Bits \ bitmap) = {}
      BY <2>2
    <3>2. U32(PageSize * Cardinality(Bits \ bitmap) + Cardinality(X) * PageSize)
            = PageSize * Cardinality((Bits \ bitmap) \cup X)
      <4> HIDE DEF X
      <4> QED
        BY <2>2, <3>1, PagesMove
    <3> QED
      BY <1>3, <2>1, <2>3, <2>4, <3>2
  <2>6. \A k \in DOMAIN mmap : k >= region + 1 /\ Usable(mmap[k]) => RegionPages(mmap[k]) \subseteq bitmap'
    <3> SUFFICES ASSUME NEW k \in DOMAIN mmap, k >= region + 1, Usable(mmap[k])
                 PROVE  RegionPages(mmap[k]) \subseteq bitmap'
      OBVIOUS
    <3>1. k \in Nat /\ k >= region /\ k # region
      BY <1>1
    <3>2. RegionPages(mmap[k]) \cap X = {}
      BY <1>1, <1>5, <3>1 DEF MapsDisjoint
    <3> QED
      BY <1>4, <2>1, <3>1, <3>2
  <2> QED
    BY <1>1, <1>2, <2>5, <2>6 DEF CountersInv
<1>6. CASE ~Usable(r)
  <2>1. bitmap' = bitmap /\ available_memory' = available_memory
    BY <1>6 DEF SetupRegion
  <2>2. \A k \in DOMAIN mmap : k >= region + 1 => k >= region
    BY <1>1
  <2> QED
    BY <1>1, <1>2, <1>3, <1>4, <2>1, <2>2 DEF CountersInv
<1> QED
  BY <1>5, <1>6

\* pmm_memory_setup: the end.
LEMMA SetupEndCounters ==
  ASSUME PmmInv, CountersInv, SetupEnd
  PROVE  CountersInv'
<1>1. /\ pc = "setup" /\ pc' = "kernel" /\ total_memory' = available_memory
      /\ UNCHANGED <<bitmap, used_memory, available_memory, held, kernel, mmap>>
  BY DEF SetupEnd
<1>2. region # 0 /\ held \cup kernel = {} /\ available_memory \in Nat
  BY SizeAssumption DEF PmmInv, TypeOK, SetupEnd
<1>3. Cardinality({}) = 0 /\ PageSize * 0 = 0
  BY FS_EmptySet, SizeAssumption
<1>4. used_memory = 0
  BY <1>2, <1>3, ZenonT(30) DEF CountersInv
<1>5. available_memory = PageSize * Cardinality(Bits \ bitmap)
  BY <1>1, <1>2 DEF CountersInv
<1>6. total_memory' = available_memory' + used_memory'
  BY <1>1, <1>2, <1>4
<1> QED
  BY <1>1, <1>5, <1>6 DEF CountersInv

\* Free pages X are given to the kernel image or to a caller.
LEMMA TakeCounters ==
  ASSUME PmmInv, CountersInv, pc # "setup", pc' # "setup", NEW X \in SUBSET Bits, X \cap bitmap = {},
         Charge(Cardinality(X)), UNCHANGED total_memory,
         bitmap' = bitmap \cup X, held' \cup kernel' = held \cup kernel \cup X
  PROVE  CountersInv'
<1> DEFINE S == Bits \ bitmap
           T == held \cup kernel
<1>1. S \subseteq Bits /\ T \subseteq Bits /\ X \subseteq S /\ X \cap T = {}
  BY DEF PmmInv, TypeOK
<1>2. Bits \ bitmap' = S \ X /\ held' \cup kernel' = T \cup X
  OBVIOUS
<1>3. /\ available_memory = PageSize * Cardinality(S) /\ used_memory = PageSize * Cardinality(T)
      /\ total_memory = available_memory + used_memory
  BY DEF CountersInv
<1>4. /\ available_memory' = U32(available_memory - Cardinality(X) * PageSize)
      /\ used_memory' = U32(used_memory + Cardinality(X) * PageSize)
  BY DEF Charge
<1> HIDE DEF S, T
<1>5. /\ available_memory' = PageSize * Cardinality(S \ X)
      /\ available_memory' = available_memory - PageSize * Cardinality(X)
      /\ used_memory' = PageSize * Cardinality(T \cup X)
      /\ used_memory' = used_memory + PageSize * Cardinality(X)
  <2>1. /\ U32(PageSize * Cardinality(S) - Cardinality(X) * PageSize) = PageSize * Cardinality(S \ X)
        /\ PageSize * Cardinality(S \ X) = PageSize * Cardinality(S) - PageSize * Cardinality(X)
        /\ U32(PageSize * Cardinality(T) + Cardinality(X) * PageSize) = PageSize * Cardinality(T \cup X)
        /\ PageSize * Cardinality(T \cup X) = PageSize * Cardinality(T) + PageSize * Cardinality(X)
    BY <1>1, PagesMove, SMTT(30)
  <2> QED
    BY <1>3, <1>4, <2>1
<1>6. total_memory' = available_memory' + used_memory'
  <2>1. available_memory \in Nat /\ used_memory \in Nat
    BY SizeAssumption DEF PmmInv, TypeOK
  <2>2. PageSize * Cardinality(X) \in Int
    BY BytesFit, SizeAssumption
  <2>3. \A a, u, x \in Int : a + u = (a - x) + (u + x)
    OBVIOUS
  <2> QED
    BY <1>3, <1>5, <2>1, <2>2, <2>3
<1> QED
  BY <1>2, <1>5, <1>6, ZenonT(30) DEF CountersInv

\* pmm_alloc_from.
LEMMA AllocFromCounters ==
  ASSUME PmmInv, CountersInv, AllocFrom
  PROVE  CountersInv'
<1>1. pc = "kernel" /\ pc' # "setup" /\ held' = held /\ held = {} /\ kernel = {}
  BY DEF AllocFrom, PmmInv
<1>2. CASE KernelPages \cap bitmap # {}
  <2>1. UNCHANGED <<bitmap, total_memory, used_memory, available_memory, kernel, held>>
    BY <1>2 DEF AllocFrom, counters
  <2> QED
    BY <1>1, <2>1 DEF CountersInv
<1>3. CASE KernelPages \cap bitmap = {}
  <2>1. /\ bitmap' = bitmap \cup KernelPages /\ kernel' = KernelPages
        /\ Charge(PagesOf(KernelSize)) /\ UNCHANGED total_memory
    BY <1>3 DEF AllocFrom
  <2>2. Cardinality(KernelPages) = PagesOf(KernelSize)
    <3>1. KernelSize \in Nat
      BY U32Type, SizeAssumption DEF KernelSize
    <3>2. PagesOf(KernelSize) \in Nat
      BY <3>1, PagesOfType, SizeAssumption
    <3>3. KernelStart \div PageSize \in Nat
      BY PageDiv, SizeAssumption
    <3> QED
      BY <3>2, <3>3, PageInterval DEF KernelPages
  <2>3. held' \cup kernel' = held \cup kernel \cup KernelPages
    BY <1>1, <2>1
  <2> QED
    BY <1>1, <1>3, <2>1, <2>2, <2>3, KernelAssumption, TakeCounters
<1> QED
  BY <1>2, <1>3

\* pmm_alloc after its search.
LEMMA MarkCounters ==
  ASSUME PmmInv, CountersInv, Mark
  PROVE  CountersInv'
<1>1. /\ pc = "mark" /\ pc' = "idle" /\ bitmap' = bitmap \cup Block /\ held' = held \cup Block
      /\ Charge(pages) /\ UNCHANGED total_memory /\ kernel' = kernel
  BY DEF Mark
<1>2. Block \in SUBSET Bits /\ Block \cap bitmap = {}
  BY <1>1, RamBits, SMTT(30) DEF PmmInv, TypeOK, AllocatesFreeRam
<1>3. Cardinality(Block) = pages
  BY PageInterval, SizeAssumption DEF Block, PmmInv, TypeOK
<1>4. held' \cup kernel' = held \cup kernel \cup Block
  BY <1>1
<1> QED
  BY <1>1, <1>2, <1>3, <1>4, TakeCounters

\* pmm_unalloc.
LEMMA UnallocCounters ==
  ASSUME PmmInv, CountersInv, NEW p \in Bits, NEW size \in Sizes, Unalloc(p, size)
  PROVE  CountersInv'
<1> DEFINE n == PagesOf(size)
           X == p .. p + n - 1
           S == Bits \ bitmap
           T == held \cup kernel
<1>1. n \in Nat /\ p \in Nat /\ pc = "idle" /\ X \subseteq held /\ kernel' = kernel /\ total_memory' = total_memory
  BY PagesOfType, SizeAssumption DEF Unalloc, Bits, counters
<1>2. CASE p + n > BITMAP_MAX_PAGE
  <2>1. /\ pc' = "halt"
        /\ UNCHANGED <<bitmap, total_memory, used_memory, available_memory, held, kernel>>
    BY <1>2, SMTT(30) DEF Unalloc, counters
  <2> QED
    BY <1>1, <2>1 DEF CountersInv
<1>3. CASE ~(p + n > BITMAP_MAX_PAGE)
  <2>1. /\ pc' = pc /\ bitmap' = bitmap \ X /\ held' = held \ X
        /\ available_memory' = U32(available_memory + n * PageSize)
        /\ used_memory' = U32(used_memory - n * PageSize)
    BY <1>3 DEF Unalloc
  <2>2. Cardinality(X) = n
    <3> HIDE DEF n
    <3> QED
      BY <1>1, PageInterval
  <2>3. S \subseteq Bits /\ T \subseteq Bits /\ X \subseteq T /\ X \cap S = {} /\ X \subseteq Bits
    BY <1>1, SMTT(30) DEF PmmInv, TypeOK
  <2>4. Bits \ bitmap' = S \cup X /\ held' \cup kernel' = T \ X
    BY <1>1, <2>1, <2>3 DEF PmmInv
  <2>5. /\ available_memory = PageSize * Cardinality(S) /\ used_memory = PageSize * Cardinality(T)
        /\ total_memory = available_memory + used_memory
    BY <1>1 DEF CountersInv
  <2> HIDE DEF S, T, X, n
  <2>6. /\ available_memory' = PageSize * Cardinality(S \cup X)
        /\ available_memory' = available_memory + PageSize * Cardinality(X)
        /\ used_memory' = PageSize * Cardinality(T \ X)
        /\ used_memory' = used_memory - PageSize * Cardinality(X)
    <3>1. /\ U32(PageSize * Cardinality(T) - Cardinality(X) * PageSize) = PageSize * Cardinality(T \ X)
          /\ PageSize * Cardinality(T \ X) = PageSize * Cardinality(T) - PageSize * Cardinality(X)
          /\ U32(PageSize * Cardinality(S) + Cardinality(X) * PageSize) = PageSize * Cardinality(S \cup X)
          /\ PageSize * Cardinality(S \cup X) = PageSize * Cardinality(S) + PageSize * Cardinality(X)
      BY <2>3, PagesMove
    <3> QED
      BY <2>1, <2>2, <2>5, <3>1
  <2>7. total_memory' = available_memory' + used_memory'
    <3>1. available_memory \in Nat /\ used_memory \in Nat
      BY SizeAssumption DEF PmmInv, TypeOK
    <3>2. PageSize * Cardinality(X) \in Int
      BY <2>3, BytesFit, SizeAssumption
    <3>3. \A a, u, x \in Int : a + u = (a + x) + (u - x)
      OBVIOUS
    <3> QED
      BY <1>1, <2>5, <2>6, <3>1, <3>2, <3>3, SMTT(30)
  <2> QED
    BY <1>1, <2>1, <2>4, <2>6, <2>7, ZenonT(30) DEF CountersInv
<1> QED
  BY <1>2, <1>3

\* The three counters of pmm.c are exact between calls, for every page size,
\* every map whose usable regions share no page and every sequence of calls: no
\* counter wraps, and no page is counted twice or forgotten.
THEOREM CountersAreExact == MapsDisjoint => (Spec => []Accounting)
<1> SUFFICES ASSUME MapsDisjoint PROVE Spec => []Accounting
  OBVIOUS
<1>1. PmmInv /\ CountersInv /\ [Next]_vars => CountersInv'
  <2> SUFFICES ASSUME PmmInv, CountersInv, [Next]_vars PROVE CountersInv'
    OBVIOUS
  <2>1. CASE SetupStart
    BY <2>1, SetupStartCounters
  <2>2. CASE SetupRegion
    BY <2>2, SetupRegionCounters
  <2>3. CASE SetupEnd
    BY <2>3, SetupEndCounters
  <2>4. CASE AllocFrom
    BY <2>4, AllocFromCounters
  <2>5. CASE (\E size \in Sizes : Alloc(size)) \/ ScanPage \/ ScanEnd \/ UNCHANGED vars
    <3>1. /\ UNCHANGED <<bitmap, total_memory, used_memory, available_memory, held, kernel, mmap, region>>
          /\ pc' = "setup" <=> pc = "setup"
      BY <2>5 DEF Alloc, ScanPage, ScanEnd, vars, counters
    <3> QED
      BY <3>1 DEF CountersInv
  <2>6. CASE Mark
    BY <2>6, MarkCounters
  <2>7. CASE \E p \in Bits, size \in Sizes : Unalloc(p, size)
    BY <2>7, UnallocCounters
  <2> QED
    BY <2>1, <2>2, <2>3, <2>4, <2>5, <2>6, <2>7 DEF Next
<1>2. CountersInv => Accounting
  BY DEF CountersInv, Accounting
<1> QED
  BY <1>1, <1>2, InitCounters, PmmInvariant, PTL DEF Spec
=============================================================================
