------------------------------- MODULE VmmProofs -------------------------------
(***************************************************************************)
(* Proofs about the virtual memory manager, for any cores, table size,     *)
(* memory and calls: what the windows show, that tables are kept apart,    *)
(* what a call returns, and that the tables implement address spaces.      *)
(***************************************************************************)
EXTENDS Vmm, WellFoundedInduction, TLAPS

USE ZenonT(30)

-----------------------------------------------------------------------------
(* The inductive invariant.                                                *)

Window == {dir, table}
Value == Nat \cup {NULL}
Memory == [Frames -> [Entry -> Value]]

Op(D) == [core : Cores, page_dir : D, call : Calls \cup {Kernel}, left : Nat,
          at : Nat, phys : Nat, ret : Value, open : BOOLEAN]

TypeOK ==
    /\ mem \in Memory
    /\ cr3 \in [Cores -> dirs]
    /\ tlb \in [Cores -> [Window -> Value]]
    /\ paging \in BOOLEAN
    /\ op = NULL \/ op \in Op(dirs)

\* Every directory has base_table for its first table, so that the windows are
\* at the same place in all of them; the other tables are frames of pmm_alloc.
\* m is the memory, F the free frames and D the directories.
Apart(m, F, D) ==
    /\ F \subseteq Ram /\ D \subseteq {base_dir} \cup Ram /\ base_dir \in D
    /\ F \cap D = {}
    /\ \A d \in D : m[d][0] = base_table
    /\ \A d \in D : \A t \in Tables :
           m[d][t] # NULL => m[d][t] \in ({base_table} \cup Ram) \ (F \cup D)
    /\ \A d, e \in D : \A t, u \in Tables :
           m[d][t] # NULL /\ m[d][t] = m[e][u]
               => t = u /\ (d = e \/ m[base_dir][t] = m[d][t])

\* The core that runs a call holds no translation of a window but the current
\* one, and every other core none but the one between calls.
Windows ==
    /\ op = NULL \/ ~op.open => \A w \in Window : mem[base_table][w] = w
    /\ op # NULL /\ op.open => mem[base_table][dir] = op.page_dir
    /\ mem[base_table][table] # NULL
    /\ \A c \in Cores, w \in Window :
          tlb[c][w] \in {NULL, IF op # NULL /\ op.core = c THEN mem[base_table][w] ELSE w}

\* Without paging the windows are the two pages themselves: the mapping of the
\* kernel goes into those, which are blank but for what it has written.
Booting ==
    ~paging =>
        /\ dirs = {base_dir}
        /\ \A i \in Entry \ Window : mem[base_table][i] = i
        /\ \A c \in Cores, w \in Window : tlb[c][w] = NULL
        /\ op # NULL =>
              /\ op.call = Kernel /\ op.ret = 0 /\ op.left <= 4 /\ op.at = 5 - op.left
              /\ mem[dir][0] = NULL \/ \A i \in op.at .. N - 1 : mem[table][i] = NULL

\* How far the call o is, with memory m.  The windows are not among the pages
\* it has passed.
Doing(o, m) ==
    LET r == o.call
        Maps(v) == Walk(m, o.page_dir, v)
        passed == r.virt .. o.at - 1
        done == r.virt + (r.count - o.left)
    IN /\ r \in Calls /\ o.left <= r.count /\ o.at >= r.virt
       /\ ~o.open => o.left = r.count /\ o.at = r.virt
       /\ dir \notin passed /\ table \notin passed
       /\ r.kind = "query" =>
             /\ o.at = r.virt
             /\ o.ret = IF o.left = 0 THEN Maps(o.at) ELSE NULL
       /\ r.kind = "unmap" =>
             /\ o.at = done
             /\ \A v \in passed : Maps(v) = NULL
       /\ r.kind \in {"map", "remap"} =>
             /\ o.phys = r.phys + (o.at - r.virt)
             /\ \A v \in passed : Maps(v) = r.phys + (v - r.virt)
             /\ \/ o.at = done /\ o.ret = 0
                \/ /\ r.kind = "map" /\ o.ret = 1 /\ o.open
                   /\ o.at < done /\ Maps(o.at) # NULL

Progress == op # NULL /\ paging => Doing(op, mem)

VmmIInv == TypeOK /\ Apart(mem, free, dirs) /\ Windows /\ Booting /\ Progress

-----------------------------------------------------------------------------
(* Arithmetic.                                                             *)

\* The frames that have a name, and NULL.
LEMMA Numbers ==
  /\ base_dir \in Nat /\ base_table \in Nat /\ dir \in Nat /\ table \in Nat
  /\ base_dir # base_table /\ base_dir # dir /\ base_dir # table
  /\ base_table # dir /\ base_table # table /\ dir # table
  /\ base_dir \in Frames /\ base_table \in Frames /\ dir \in Frames /\ table \in Frames
  /\ base_dir \notin Ram /\ base_table \notin Ram /\ dir \notin Ram /\ table \notin Ram
  /\ 0 \in Entry /\ dir \in Entry /\ table \in Entry /\ dir # 0 /\ table # 0
  /\ Ram \subseteq Frames /\ Ram \subseteq Nat /\ Frames \subseteq Nat
  /\ Tables \subseteq Entry /\ 0 \in Tables
  /\ NULL \notin Nat
BY VmmAssumption, SMTT(30) DEF base_dir, base_table, dir, table, Frames, Entry

\* vmm_virt_to_offs takes a page apart into a table and an entry.
LEMMA Offsets ==
  ASSUME NEW v \in Nat
  PROVE  tid(v) \in Nat /\ pid(v) \in Entry /\ v = N * tid(v) + pid(v)
BY VmmAssumption, SMTT(30) DEF tid, pid, Entry

LEMMA OffsetsDiffer ==
  ASSUME NEW v \in Nat, NEW u \in Nat, tid(v) = tid(u), pid(v) = pid(u)
  PROVE  v = u
BY Offsets

\* The pages of the first table.
LEMMA FirstTable ==
  ASSUME NEW v \in Nat, v < N
  PROVE  tid(v) = 0 /\ pid(v) = v
BY VmmAssumption, SMTT(30) DEF tid, pid

LEMMA FirstTableOnly ==
  ASSUME NEW v \in Nat, tid(v) = 0
  PROVE  v = pid(v)
<1>1. v = N * 0 + pid(v)
  BY Offsets
<1>2. N * 0 = 0
  BY VmmAssumption, SMTT(30)
<1> QED
  BY <1>1, <1>2, Offsets, VmmAssumption, SMTT(30) DEF Entry

LEMMA PagesOfTables ==
  ASSUME NEW v \in Nat, tid(v) \in Tables
  PROVE  v \in 0 .. N * N - 1
<1> DEFINE q == tid(v)
           r == pid(v)
<1>1. q \in 0 .. N - 1 /\ r \in 0 .. N - 1 /\ v = N * q + r /\ N \in Nat
  BY Offsets, VmmAssumption DEF Entry
<1> HIDE DEF q, r
<1>2. N * q <= N * (N - 1)
  BY <1>1, SMTT(30)
<1>3. N * (N - 1) = N * N - N
  BY <1>1, SMTT(30)
<1> QED
  BY <1>1, <1>2, <1>3, SMTT(30)

\* pmm_alloc hands out a frame it has.
LEMMA LowestFrame ==
  ASSUME NEW S, S \subseteq Nat, S # {}
  PROVE  Min(S) \in S
<1> DEFINE R == {p \in Nat \X Nat : p[1] < p[2]}
<1>1. IsWellFoundedOn(R, Nat)
  BY NatLessThanWellFounded DEF OpToRel
<1> HIDE DEF R
<1>2. PICK x \in S : \A y \in S : <<y, x>> \notin R
  BY <1>1, WFMin
<1>3. ASSUME NEW y \in S PROVE x <= y
  <2>1. x \in Nat /\ y \in Nat
    OBVIOUS
  <2>2. <<y, x>> \in R <=> y < x
    BY <2>1 DEF R
  <2> QED
    BY <1>2, <2>1, <2>2, SMTT(30)
<1> QED
  BY <1>3 DEF Min
-----------------------------------------------------------------------------
(* What one access does to memory.                                         *)

Machines == [mem : Memory, free : SUBSET Ram, tlb : [Cores -> [Window -> Value]]]

\* One entry, and a whole frame, of memory m.
Put(m, x, i, f) == [m EXCEPT ![x][i] = f]
Clear(m, x) == [m EXCEPT ![x] = Absent]

\* Memory n is m with entry i of frame x at f, and with frame x cleared.
IsPut(n, m, x, i, f) ==
    /\ n \in Memory
    /\ n[x][i] = f
    /\ \A j \in Entry : j # i => n[x][j] = m[x][j]
    /\ \A y \in Frames : y # x => n[y] = m[y]

IsClear(n, m, x) ==
    /\ n \in Memory
    /\ n[x] = Absent
    /\ \A y \in Frames : y # x => n[y] = m[y]

LEMMA PutIs ==
  ASSUME NEW m \in Memory, NEW x \in Frames, NEW i \in Entry, NEW f \in Value
  PROVE  IsPut(Put(m, x, i, f), m, x, i, f)
BY DEF IsPut, Put, Memory

LEMMA PutSame ==
  ASSUME NEW m \in Memory, NEW x \in Frames, NEW i \in Entry
  PROVE  Put(m, x, i, m[x][i]) = m
BY DEF Put, Memory

LEMMA ClearIs ==
  ASSUME NEW m \in Memory, NEW x \in Frames
  PROVE  IsClear(Clear(m, x), m, x)
BY DEF IsClear, Clear, Memory, Absent, Value

\* Core c holds no translation of a window but the current one, and finds
\* base_table in its directory.
Ready(s, c) ==
    /\ s \in Machines
    /\ s.mem[cr3[c]][0] = base_table
    /\ \A w \in Window : s.tlb[c][w] \in {NULL, s.mem[base_table][w]}

\* The translations of the other cores stay, and no frame changes hands.
Local(s, r, c) ==
    /\ \A e \in Cores : e # c => r.tlb[e] = s.tlb[e]
    /\ r.free = s.free

LEMMA LocalTrans ==
  ASSUME NEW s, NEW r, NEW q, NEW c, Local(s, r, c), Local(r, q, c)
  PROVE  Local(s, q, c)
BY DEF Local

LEMMA MachineParts ==
  ASSUME NEW s \in Machines
  PROVE  /\ s.mem \in Memory /\ s.free \subseteq Ram
         /\ s.tlb \in [Cores -> [Window -> Value]]
         /\ s = [mem |-> s.mem, free |-> s.free, tlb |-> s.tlb]
BY DEF Machines

\* open_dir, open_table, close_dir and close_table: the entry of the window
\* changes, and the core drops its translation if it was another.
LEMMA OpenIs ==
  ASSUME NEW c \in Cores, cr3[c] \in Frames \ {base_table}, NEW s, Ready(s, c),
         NEW w \in Window, NEW f \in Nat
  PROVE  LET r == Open(s, c, w, f) IN
         /\ Ready(r, c) /\ Local(s, r, c)
         /\ r.mem = Put(s.mem, base_table, w, f)
         /\ \A e \in Cores, x \in Window : r.tlb[e][x] \in {NULL, s.tlb[e][x]}
<1> DEFINE m == s.mem
           n == Put(m, base_table, w, f)
           T == s.tlb
           U == [T EXCEPT ![c][w] = NULL]
<1>1. m \in Memory /\ T \in [Cores -> [Window -> Value]] /\ s.free \subseteq Ram
      /\ s = [mem |-> m, free |-> s.free, tlb |-> T]
  BY MachineParts DEF Ready
<1>2. w \in Entry /\ f \in Value /\ base_table \in Frames /\ w # 0
  BY Numbers DEF Window, Value
<1>3. n \in Memory /\ n[base_table][w] = f /\ n[cr3[c]] = m[cr3[c]]
      /\ \A j \in Entry : j # w => n[base_table][j] = m[base_table][j]
  <2>1. IsPut(n, m, base_table, w, f)
    BY <1>1, <1>2, PutIs
  <2> HIDE DEF n
  <2> QED
    BY <2>1 DEF IsPut
<1>4. m[cr3[c]][0] = base_table /\ \A x \in Window : T[c][x] \in {NULL, m[base_table][x]}
  BY DEF Ready
<1>5. CASE m[base_table][w] = f
  <2>1. n = m
    BY <1>1, <1>2, <1>5, PutSame
  <2> QED
    BY <1>1, <1>5, <2>1 DEF Open, Local
<1>6. CASE m[base_table][w] # f
  <2> DEFINE r == [mem |-> n, free |-> s.free, tlb |-> U]
  <2>1. Open(s, c, w, f) = r
    BY <1>1, <1>6 DEF Open, Put
  <2>2. /\ U \in [Cores -> [Window -> Value]] /\ U[c][w] = NULL
        /\ \A x \in Window : x # w => U[c][x] = T[c][x]
        /\ \A e \in Cores : e # c => U[e] = T[e]
    BY <1>1 DEF Value
  <2> HIDE DEF n, U, m, T
  <2>3. r \in Machines
    BY <1>1, <1>3, <2>2 DEF Machines
  <2>4. \A x \in Window : U[c][x] \in {NULL, n[base_table][x]}
    BY <1>3, <1>4, <2>2, Numbers, SMTT(30) DEF Window
  <2> QED
    BY <2>1, <2>2, <2>3, <2>4, <1>3, <1>4, SMTT(30) DEF Ready, Local, m, T, n
<1> QED
  BY <1>5, <1>6

\* Through a window a core reaches the frame the window is pointed at.
LEMMA SeenIs ==
  ASSUME paging, NEW c \in Cores, NEW s, Ready(s, c), NEW w \in Window
  PROVE  Seen(s, c, w) = s.mem[base_table][w]
<1>1. w \in Nat /\ w < N
  BY VmmAssumption, SMTT(30) DEF Window, dir, table
<1>2. tid(w) = 0 /\ pid(w) = w
  BY <1>1, FirstTable
<1>3. base_table # NULL
  BY Numbers
<1>4. Walk(s.mem, cr3[c], w) = s.mem[base_table][w]
  BY <1>2, <1>3 DEF Walk, Ready
<1> QED
  BY <1>4 DEF Seen, Ready

LEMMA UsedIs ==
  ASSUME paging, NEW c \in Cores, NEW s, Ready(s, c), NEW w \in Window
  PROVE  LET r == Used(s, c, w) IN
         Ready(r, c) /\ Local(s, r, c) /\ r.mem = s.mem
<1> DEFINE m == s.mem
           T == s.tlb
           U == [T EXCEPT ![c][w] = m[base_table][w]]
           r == [mem |-> m, free |-> s.free, tlb |-> U]
<1>1. m \in Memory /\ T \in [Cores -> [Window -> Value]] /\ s.free \subseteq Ram
      /\ s = [mem |-> m, free |-> s.free, tlb |-> T]
  BY MachineParts DEF Ready
<1>2. Used(s, c, w) = r
  <2>1. Used(s, c, w) = [s EXCEPT !.tlb[c][w] = m[base_table][w]]
    BY SeenIs DEF Used
  <2>2. \A F, y : [[mem |-> m, free |-> F, tlb |-> T] EXCEPT !.tlb[c][w] = y]
                     = [mem |-> m, free |-> F, tlb |-> [T EXCEPT ![c][w] = y]]
    <3> HIDE DEF m, T
    <3> QED
      BY SMTT(30)
  <2> QED
    BY <1>1, <2>1, <2>2
<1>3. m[base_table][w] \in Value
  BY <1>1, Numbers, SMTT(30) DEF Memory, Window
<1>4. /\ U \in [Cores -> [Window -> Value]] /\ U[c][w] = m[base_table][w]
      /\ \A x \in Window : x # w => U[c][x] = T[c][x]
      /\ \A e \in Cores : e # c => U[e] = T[e]
  BY <1>1, <1>3
<1>5. m[cr3[c]][0] = base_table /\ \A x \in Window : T[c][x] \in {NULL, m[base_table][x]}
  BY DEF Ready
<1> HIDE DEF U, m, T
<1>6. r \in Machines
  BY <1>1, <1>4 DEF Machines
<1> QED
  BY <1>2, <1>4, <1>5, <1>6, SMTT(30) DEF Ready, Local, m, T

\* A state with the memory of another that agrees on the windows.
LEMMA ReadyAgain ==
  ASSUME NEW c \in Cores, NEW s, Ready(s, c), NEW m \in Memory,
         m[cr3[c]][0] = base_table, \A w \in Window : m[base_table][w] = s.mem[base_table][w]
  PROVE  LET r == [mem |-> m, free |-> s.free, tlb |-> s.tlb] IN
         Ready(r, c) /\ Local(s, r, c) /\ r.mem = m
<1> DEFINE r == [mem |-> m, free |-> s.free, tlb |-> s.tlb]
<1>1. r \in Machines
  BY MachineParts DEF Ready, Machines
<1> QED
  BY <1>1 DEF Ready, Local

LEMMA WriteIs ==
  ASSUME paging, NEW c \in Cores, cr3[c] \in Frames, NEW s, Ready(s, c), NEW w \in Window,
         NEW i \in Entry, NEW f \in Value,
         s.mem[base_table][w] \in Frames,
         s.mem[base_table][w] = base_table => i \notin Window,
         s.mem[base_table][w] = cr3[c] => i # 0
  PROVE  LET r == Write(s, c, w, i, f) IN
         /\ Ready(r, c) /\ Local(s, r, c)
         /\ r.mem = Put(s.mem, s.mem[base_table][w], i, f)
<1> DEFINE x == s.mem[base_table][w]
           q == Used(s, c, w)
           n == Put(s.mem, x, i, f)
<1>1. Ready(q, c) /\ Local(s, q, c) /\ q.mem = s.mem
  BY UsedIs
<1>2. q = [mem |-> s.mem, free |-> q.free, tlb |-> q.tlb] /\ s.mem \in Memory
  BY <1>1, MachineParts DEF Ready
<1>3. Write(s, c, w, i, f) = [mem |-> n, free |-> q.free, tlb |-> q.tlb]
  <2> HIDE DEF q
  <2>1. Write(s, c, w, i, f) = [q EXCEPT !.mem[x][i] = f]
    BY SeenIs, SMTT(30) DEF Write, q
  <2> QED
    BY <1>2, <2>1, SMTT(30) DEF Put
<1> HIDE DEF q
<1>4. n \in Memory /\ n[cr3[c]][0] = base_table
      /\ \A v \in Window : n[base_table][v] = s.mem[base_table][v]
  <2>1. s.mem[cr3[c]][0] = base_table
    BY DEF Ready
  <2>2. Window \subseteq Entry /\ 0 \in Entry /\ base_table \in Frames
    BY Numbers DEF Window
  <2>3. /\ n \in Memory /\ n[x][i] = f
        /\ \A j \in Entry : j # i => n[x][j] = s.mem[x][j]
        /\ \A y \in Frames : y # x => n[y] = s.mem[y]
    <3>1. IsPut(n, s.mem, x, i, f)
      BY <1>2, PutIs
    <3> HIDE DEF n
    <3> QED
      BY <3>1 DEF IsPut
  <2> HIDE DEF n
  <2> QED
    BY <2>1, <2>2, <2>3
<1> HIDE DEF n, x
<1>5. LET r == [mem |-> n, free |-> q.free, tlb |-> q.tlb] IN
      Ready(r, c) /\ Local(q, r, c) /\ r.mem = n
  BY <1>1, <1>4, ReadyAgain, SMTT(30)
<1> QED
  BY <1>1, <1>3, <1>5, LocalTrans DEF n, x

LEMMA ZeroIs ==
  ASSUME paging, NEW c \in Cores, cr3[c] \in Frames, NEW s, Ready(s, c), NEW w \in Window,
         s.mem[base_table][w] \in Frames \ {base_table, cr3[c]}
  PROVE  LET r == Zero(s, c, w) IN
         /\ Ready(r, c) /\ Local(s, r, c)
         /\ r.mem = Clear(s.mem, s.mem[base_table][w])
<1> DEFINE x == s.mem[base_table][w]
           q == Used(s, c, w)
           n == Clear(s.mem, x)
<1>1. Ready(q, c) /\ Local(s, q, c) /\ q.mem = s.mem
  BY UsedIs
<1>2. q = [mem |-> s.mem, free |-> q.free, tlb |-> q.tlb] /\ s.mem \in Memory
  BY <1>1, MachineParts DEF Ready
<1>3. Zero(s, c, w) = [mem |-> n, free |-> q.free, tlb |-> q.tlb]
  <2> HIDE DEF q
  <2>1. Zero(s, c, w) = [q EXCEPT !.mem[x] = Absent]
    BY SeenIs DEF Zero, q
  <2> QED
    BY <1>2, <2>1, SMTT(30) DEF Clear
<1> HIDE DEF q
<1>4. n \in Memory /\ n[cr3[c]][0] = base_table
      /\ \A v \in Window : n[base_table][v] = s.mem[base_table][v]
  <2>1. s.mem[cr3[c]][0] = base_table
    BY DEF Ready
  <2>2. n \in Memory /\ \A y \in Frames : y # x => n[y] = s.mem[y]
    <3>1. IsClear(n, s.mem, x)
      BY <1>2, ClearIs
    <3> HIDE DEF n
    <3> QED
      BY <3>1 DEF IsClear
  <2> HIDE DEF n
  <2> QED
    BY <2>1, <2>2, Numbers
<1> HIDE DEF n, x
<1>5. LET r == [mem |-> n, free |-> q.free, tlb |-> q.tlb] IN
      Ready(r, c) /\ Local(q, r, c) /\ r.mem = n
  BY <1>1, <1>4, ReadyAgain, SMTT(30)
<1> QED
  BY <1>1, <1>3, <1>5, LocalTrans DEF n, x

-----------------------------------------------------------------------------
(* One round of a call with paging on.                                     *)

\* Directory d is behind the window of core c, and neither it nor the core's
\* own directory is free or base_table.
Facing(s, c, d) ==
    /\ Ready(s, c)
    /\ s.mem[base_table][dir] = d
    /\ {d, cr3[c]} \subseteq Frames \ {base_table}
    /\ {d, cr3[c]} \cap s.free = {}
    /\ s.mem[d][0] # NULL

LEMMA FacingRead ==
  ASSUME paging, NEW c \in Cores, NEW s, NEW d, Facing(s, c, d), NEW i
  PROVE  Read(s, c, dir, i) = s.mem[d][i]
BY SeenIs DEF Facing, Read, Window

\* ensure_table with the table there.
LEMMA EnsurePresent ==
  ASSUME paging, NEW c \in Cores, NEW s, NEW d, Facing(s, c, d), NEW t,
         s.mem[d][t] # NULL
  PROVE  LET r == ensure_table(s, c, t) IN
         Ready(r, c) /\ Local(s, r, c) /\ r.mem = s.mem
<1>1. ensure_table(s, c, t) = Used(s, c, dir)
  BY FacingRead, SMTT(30) DEF ensure_table
<1> QED
  BY <1>1, UsedIs, SMTT(30) DEF Facing, Window

\* The memory after ensure_table has put the new table f in.
WithTable(m, d, t, f) ==
    Put(Put(Clear(Put(m, base_table, table, f), f), base_table, table, table), d, t, f)

LEMMA WithTableIs ==
  ASSUME NEW m \in Memory, NEW d \in Frames \ {base_table}, NEW t \in Entry,
         NEW f \in Ram \ {d}, m[base_table][table] \in Value
  PROVE  LET n == WithTable(m, d, t, f) IN
         /\ n \in Memory /\ n[f] = Absent /\ n[d][t] = f
         /\ \A i \in Entry : i # t => n[d][i] = m[d][i]
         /\ \A i \in Entry : i # table => n[base_table][i] = m[base_table][i]
         /\ \A x \in Frames \ {base_table, d, f} : n[x] = m[x]
<1> DEFINE m1 == Put(m, base_table, table, f)
           m2 == Clear(m1, f)
           m3 == Put(m2, base_table, table, table)
           n == Put(m3, d, t, f)
<1>1. /\ base_table \in Frames /\ table \in Entry /\ f \in Frames /\ f \in Value
      /\ table \in Value /\ f # base_table
  BY Numbers DEF Value
<1>2. IsPut(m1, m, base_table, table, f)
  BY <1>1, PutIs
<1> HIDE DEF m1
<1>3. IsClear(m2, m1, f)
  BY <1>1, <1>2, ClearIs DEF IsPut
<1> HIDE DEF m2
<1>4. IsPut(m3, m2, base_table, table, table)
  BY <1>1, <1>3, PutIs DEF IsClear
<1> HIDE DEF m3
<1>5. IsPut(n, m3, d, t, f)
  <2>1. m3 \in Memory
    BY <1>4 DEF IsPut
  <2> QED
    BY <2>1, <1>1, PutIs
<1>6. n = WithTable(m, d, t, f)
  BY DEF WithTable, m1, m2, m3
<1> HIDE DEF n
<1>7. n[f] = Absent
  BY <1>1, <1>3, <1>4, <1>5 DEF IsPut, IsClear
<1>8. \A i \in Entry : i # t => n[d][i] = m[d][i]
  BY <1>1, <1>2, <1>3, <1>4, <1>5, SMTT(30) DEF IsPut, IsClear
<1>9. \A i \in Entry : i # table => n[base_table][i] = m[base_table][i]
  BY <1>1, <1>2, <1>3, <1>4, <1>5, SMTT(30) DEF IsPut, IsClear
<1>10. \A x \in Frames \ {base_table, d, f} : n[x] = m[x]
  BY <1>2, <1>3, <1>4, <1>5, SMTT(30) DEF IsPut, IsClear
<1> QED
  BY <1>5, <1>6, <1>7, <1>8, <1>9, <1>10 DEF IsPut

\* ensure_table without it.
LEMMA EnsureFresh ==
  ASSUME paging, NEW c \in Cores, NEW s, NEW d, Facing(s, c, d), NEW t \in Entry,
         s.mem[d][t] = NULL, s.free # {}
  PROVE  LET r == ensure_table(s, c, t)
             f == Min(s.free)
         IN /\ Ready(r, c) /\ f \in s.free /\ r.free = s.free \ {f}
            /\ r.mem = WithTable(s.mem, d, t, f)
            /\ \A e \in Cores : e # c => r.tlb[e] = s.tlb[e]
<1> DEFINE f == Min(s.free)
           u == Used(s, c, dir)
           s1 == [u EXCEPT !.free = @ \ {f}]
           s2 == Open(s1, c, table, f)
           s3 == Zero(s2, c, table)
           s4 == Close(s3, c, table)
           r == Write(s4, c, dir, t, f)
           m1 == Put(s.mem, base_table, table, f)
           m2 == Clear(m1, f)
           m3 == Put(m2, base_table, table, table)
<1>1. ensure_table(s, c, t) = r
  BY FacingRead, SMTT(30) DEF ensure_table
<1>2. s \in Machines /\ s.mem \in Memory /\ s.free \subseteq Ram
  BY MachineParts DEF Facing, Ready
<1>3. f \in s.free /\ f \in Ram /\ f \in Nat /\ f \in Frames /\ f \in Value /\ f # base_table
  BY <1>2, LowestFrame, Numbers DEF Value
<1> HIDE DEF f
<1>4. dir \in Window /\ table \in Window
  BY DEF Window
<1>5. cr3[c] \in Frames \ {base_table, f} /\ d \in Frames \ {base_table, f} /\ Ready(s, c)
      /\ s.mem[base_table][dir] = d /\ t # 0
  BY <1>3 DEF Facing
<1>6. Ready(u, c) /\ Local(s, u, c) /\ u.mem = s.mem
  BY <1>4, <1>5, UsedIs
<1> HIDE DEF u
<1>7. Ready(s1, c) /\ s1.free = s.free \ {f} /\ s1.mem = s.mem /\ s1.tlb = u.tlb
  <2>1. s1 = [mem |-> u.mem, free |-> u.free \ {f}, tlb |-> u.tlb]
    <3>1. u = [mem |-> u.mem, free |-> u.free, tlb |-> u.tlb]
      BY <1>6, MachineParts DEF Ready
    <3> QED
      BY <3>1, SMTT(30)
  <2>2. s1 \in Machines
    BY <2>1, <1>6, MachineParts DEF Ready, Machines
  <2> QED
    BY <2>1, <2>2, <1>6 DEF Ready, Local
<1> HIDE DEF s1
<1>8. Ready(s2, c) /\ Local(s1, s2, c) /\ s2.mem = m1
  BY <1>3, <1>4, <1>5, <1>7, OpenIs, SMTT(30)
<1> HIDE DEF s2
<1>9. /\ m1 \in Memory /\ m1[base_table][table] = f /\ m1[base_table][dir] = d
      /\ \A y \in Frames : y # base_table => m1[y] = s.mem[y]
  <2>1. base_table \in Frames /\ table \in Entry /\ dir \in Entry /\ dir # table
    BY Numbers
  <2>2. IsPut(m1, s.mem, base_table, table, f)
    BY <2>1, <1>2, <1>3, PutIs
  <2> HIDE DEF m1
  <2> QED
    BY <2>1, <2>2, <1>5 DEF IsPut
<1> HIDE DEF m1
<1>10. Ready(s3, c) /\ Local(s2, s3, c) /\ s3.mem = m2
  BY <1>3, <1>4, <1>5, <1>8, <1>9, ZeroIs, SMTT(30)
<1> HIDE DEF s3
<1>11. m2 \in Memory /\ m2[base_table][dir] = d
  <2>1. IsClear(m2, m1, f)
    BY <1>3, <1>9, ClearIs
  <2> HIDE DEF m2
  <2> QED
    BY <2>1, <1>3, <1>9, Numbers DEF IsClear
<1> HIDE DEF m2
<1>12. Ready(s4, c) /\ Local(s3, s4, c) /\ s4.mem = m3
  <2>1. table \in Nat
    BY Numbers
  <2>2. s4 = Open(s3, c, table, table)
    BY DEF Close
  <2> HIDE DEF s4
  <2> QED
    BY <2>1, <2>2, <1>4, <1>5, <1>10, OpenIs, SMTT(30)
<1> HIDE DEF s4
<1>13. m3 \in Memory /\ m3[base_table][dir] = d
  <2>1. base_table \in Frames /\ table \in Entry /\ dir \in Entry /\ dir # table
        /\ table \in Value
    BY Numbers DEF Value
  <2>2. IsPut(m3, m2, base_table, table, table)
    BY <2>1, <1>11, PutIs
  <2> HIDE DEF m3
  <2> QED
    BY <2>1, <2>2, <1>11 DEF IsPut
<1> HIDE DEF m3
<1>14. Ready(r, c) /\ Local(s4, r, c) /\ r.mem = Put(m3, d, t, f)
  BY <1>3, <1>4, <1>5, <1>12, <1>13, WriteIs, SMTT(30)
<1> HIDE DEF r
<1>15. Put(m3, d, t, f) = WithTable(s.mem, d, t, f)
  BY DEF WithTable, m1, m2, m3
<1>16. Local(s1, r, c)
  BY <1>8, <1>10, <1>12, <1>14, LocalTrans
<1> QED
  BY <1>1, <1>3, <1>6, <1>7, <1>14, <1>15, <1>16, SMTT(30) DEF Local, f

LEMMA OpenTableOfIs ==
  ASSUME paging, NEW c \in Cores, NEW s, NEW d, Facing(s, c, d), NEW v,
         s.mem[d][tid(v)] \in Nat
  PROVE  LET r == OpenTableOf(s, c, v) IN
         /\ Ready(r, c) /\ Local(s, r, c)
         /\ r.mem = Put(s.mem, base_table, table, s.mem[d][tid(v)])
<1> DEFINE f == s.mem[d][tid(v)]
           q == Open(s, c, table, f)
<1>1. OpenTableOf(s, c, v) = Used(q, c, table)
  BY FacingRead, SMTT(30) DEF OpenTableOf
<1>2. table \in Window /\ Ready(s, c) /\ cr3[c] \in Frames \ {base_table}
  BY DEF Window, Facing
<1> HIDE DEF f
<1>3. Ready(q, c) /\ Local(s, q, c) /\ q.mem = Put(s.mem, base_table, table, f)
  BY <1>2, OpenIs, SMTT(30) DEF f
<1> HIDE DEF q
<1>4. LET r == Used(q, c, table) IN Ready(r, c) /\ Local(q, r, c) /\ r.mem = q.mem
  BY <1>2, <1>3, UsedIs
<1> QED
  BY <1>1, <1>3, <1>4, LocalTrans DEF f

\* Memory n is m with frame f as table t of directory d, behind the window; if
\* it is new, it is one of the frames F and blank.
Prepared(m, n, F, d, t, f) ==
    /\ n \in Memory
    /\ n[base_table][table] = f
    /\ \A i \in Entry : i # table => n[base_table][i] = m[base_table][i]
    /\ n[d][t] = f
    /\ \A i \in Entry : i # t => n[d][i] = m[d][i]
    /\ \A x \in Frames \ {base_table, d, f} : n[x] = m[x]
    /\ \/ m[d][t] = f /\ f \notin F /\ (f # base_table => n[f] = m[f])
       \/ m[d][t] = NULL /\ f \in F /\ n[f] = Absent

LEMMA EnsuredIs ==
  ASSUME paging, NEW c \in Cores, NEW s, NEW d, Facing(s, c, d), NEW v \in Nat,
         tid(v) \in Entry,
         s.mem[d][tid(v)] \in {NULL} \cup (({base_table} \cup Ram) \ ({d} \cup s.free)),
         Read(s, c, dir, tid(v)) # NULL \/ s.free # {}
  PROVE  LET r == OpenTableOf(ensure_table(s, c, tid(v)), c, v) IN
         \E f \in ({base_table} \cup Ram) \ {d} :
            /\ Ready(r, c) /\ r.free = s.free \ {f}
            /\ \A e \in Cores : e # c => r.tlb[e] = s.tlb[e]
            /\ Prepared(s.mem, r.mem, s.free, d, tid(v), f)
<1> DEFINE t == tid(v)
           q == ensure_table(s, c, t)
           r == OpenTableOf(q, c, v)
           m == s.mem
<1>1. /\ m \in Memory /\ s.free \subseteq Ram /\ d \in Frames \ {base_table}
      /\ m[base_table][dir] = d /\ d \notin s.free /\ cr3[c] \notin s.free
      /\ cr3[c] \in Frames \ {base_table} /\ m[cr3[c]][0] = base_table /\ m[d][0] # NULL
  BY MachineParts DEF Facing, Ready
<1>2. CASE m[d][t] # NULL
  <2> DEFINE f == m[d][t]
  <2>1. Ready(q, c) /\ Local(s, q, c) /\ q.mem = m
    BY <1>2, EnsurePresent, SMTT(30)
  <2>2. Facing(q, c, d)
    BY <2>1 DEF Facing, Local
  <2>3. f \in ({base_table} \cup Ram) \ ({d} \cup s.free) /\ f \in Nat /\ f \in Value
    BY <1>2, Numbers DEF Value
  <2> HIDE DEF q
  <2>4. Ready(r, c) /\ Local(q, r, c) /\ r.mem = Put(m, base_table, table, f)
    BY <2>1, <2>2, <2>3, OpenTableOfIs, SMTT(30)
  <2> HIDE DEF r
  <2>5. IsPut(r.mem, m, base_table, table, f)
    <3>1. base_table \in Frames /\ table \in Entry
      BY Numbers
    <3> HIDE DEF f, m
    <3> QED
      BY <3>1, <1>1, <2>3, <2>4, PutIs, SMTT(30)
  <2>6. Prepared(m, r.mem, s.free, d, t, f)
    <3>1. t \in Entry
      OBVIOUS
    <3> HIDE DEF m, t
    <3> QED
      BY <3>1, <1>1, <2>3, <2>5, Numbers DEF IsPut, Prepared
  <2>7. r.free = s.free \ {f} /\ \A e \in Cores : e # c => r.tlb[e] = s.tlb[e]
    BY <2>1, <2>3, <2>4 DEF Local
  <2> QED
    BY <2>3, <2>4, <2>6, <2>7 DEF r, q
<1>3. CASE m[d][t] = NULL
  <2> DEFINE f == Min(s.free)
  <2>1. s.free # {}
    BY <1>3, FacingRead, SMTT(30)
  <2>2. /\ Ready(q, c) /\ f \in s.free /\ q.free = s.free \ {f}
        /\ q.mem = WithTable(m, d, t, f)
        /\ \A e \in Cores : e # c => q.tlb[e] = s.tlb[e]
    BY <1>3, <2>1, EnsureFresh, SMTT(30)
  <2> HIDE DEF q, f
  <2>3. f \in Ram /\ f # d /\ f \in Nat /\ f # base_table /\ f \in Value
    BY <1>1, <2>2, Numbers DEF Value
  <2>4. t # 0 /\ t \in Entry /\ m[base_table][table] \in Value
    BY <1>1, <1>3, Numbers, SMTT(30) DEF Memory
  <2> HIDE DEF m, t
  <2> DEFINE n == q.mem
  <2>5. /\ n \in Memory /\ n[f] = Absent /\ n[d][t] = f
        /\ \A i \in Entry : i # t => n[d][i] = m[d][i]
        /\ \A i \in Entry : i # table => n[base_table][i] = m[base_table][i]
        /\ \A x \in Frames \ {base_table, d, f} : n[x] = m[x]
    BY <1>1, <2>2, <2>3, <2>4, WithTableIs, SMTT(30)
  <2> HIDE DEF n
  <2>6. n[base_table][dir] = d
    BY <1>1, <2>5, Numbers
  <2>7. n[d][0] # NULL
    BY <1>1, <2>4, <2>5, Numbers
  <2>8. Facing(q, c, d)
    BY <1>1, <2>2, <2>6, <2>7 DEF Facing, n
  <2>9. Ready(r, c) /\ Local(q, r, c) /\ r.mem = Put(n, base_table, table, f)
    BY <2>3, <2>5, <2>8, OpenTableOfIs, SMTT(30) DEF n, t
  <2> HIDE DEF r
  <2>10. IsPut(r.mem, n, base_table, table, f)
    <3>1. base_table \in Frames /\ table \in Entry
      BY Numbers, SMTT(30)
    <3> QED
      BY <3>1, <2>3, <2>5, <2>9, PutIs, SMTT(30)
  <2>11. Prepared(m, r.mem, s.free, d, t, f)
    <3>1. f \in Frames /\ base_table \in Frames
      BY <2>3, Numbers
    <3> QED
      BY <3>1, <1>1, <1>3, <2>2, <2>3, <2>5, <2>10, SMTT(30) DEF IsPut, Prepared
  <2>12. r.free = s.free \ {f} /\ \A e \in Cores : e # c => r.tlb[e] = s.tlb[e]
    BY <2>2, <2>9 DEF Local
  <2> QED
    BY <2>3, <2>9, <2>11, <2>12 DEF r, q, m, t
<1> QED
  BY <1>2, <1>3

\* Memory n is m after a round of a call at page v of directory d: f is its
\* table, and x what is in its entry now.
Edited(m, n, F, d, v, f, x) ==
    \E k : /\ Prepared(m, k, F, d, tid(v), f)
           /\ IsPut(n, k, f, pid(v), x)
           /\ f = base_table /\ pid(v) \in Window => x = k[f][pid(v)]

\* The directories and tables after such a round.
LEMMA EditedRows ==
  ASSUME NEW m \in Memory, NEW F, NEW D, Apart(m, F, D), NEW d \in D,
         NEW v \in Nat, tid(v) \in Tables, NEW f \in ({base_table} \cup Ram) \ {d},
         NEW n, NEW x, Edited(m, n, F, d, v, f, x)
  PROVE  /\ n \in Memory /\ f \notin D /\ n[f][pid(v)] = x
         /\ n[d][tid(v)] = f
         /\ \A i \in Entry : i # tid(v) => n[d][i] = m[d][i]
         /\ \A e \in D : e # d => n[e] = m[e]
         /\ \A g \in Ram \ {d, f} : n[g] = m[g]
         /\ f # base_table => \A i \in Entry : i # table => n[base_table][i] = m[base_table][i]
         /\ \A i \in Entry : i # pid(v) /\ (f = base_table => i # table) =>
               n[f][i] = IF m[d][tid(v)] = NULL THEN NULL ELSE m[f][i]
         /\ n[base_table][table] = f /\ n[base_table][dir] = m[base_table][dir]
         /\ \/ m[d][tid(v)] = f /\ f \notin F
            \/ m[d][tid(v)] = NULL /\ f \in F
<1> DEFINE t == tid(v)
           j == pid(v)
<1>1. PICK k : /\ Prepared(m, k, F, d, t, f)
               /\ IsPut(n, k, f, j, x)
               /\ f = base_table /\ j \in Window => x = k[f][j]
  BY DEF Edited
<1>2. j \in Entry /\ t \in Entry /\ t \in Tables
  BY Offsets, Numbers
<1> HIDE DEF t, j
<1>3. /\ D \subseteq Frames /\ base_table \notin D /\ f \in Frames /\ base_table \in Frames
      /\ Ram \subseteq Frames /\ dir \in Entry /\ table \in Entry /\ dir # table
      /\ base_table \notin Ram
  BY Numbers, SMTT(30) DEF Apart
<1>4. f \notin D
  <2>1. CASE m[d][t] = f /\ f \notin F
    <3>1. f # NULL
      BY Numbers
    <3> QED
      BY <2>1, <3>1, <1>2 DEF Apart
  <2>2. CASE f \in F
    BY <2>2 DEF Apart
  <2> QED
    BY <1>1, <2>1, <2>2 DEF Prepared
<1>5. n \in Memory /\ n[f][j] = x /\ n[d][t] = f /\ \A i \in Entry : i # t => n[d][i] = m[d][i]
  BY <1>1, <1>3, <1>4 DEF Prepared, IsPut
<1>6. \A e \in D : e # d => n[e] = m[e]
  BY <1>1, <1>3, <1>4 DEF Prepared, IsPut
<1>7. \A g \in Ram \ {d, f} : n[g] = m[g]
  BY <1>1, <1>3 DEF Prepared, IsPut
<1>8. f # base_table => \A i \in Entry : i # table => n[base_table][i] = m[base_table][i]
  BY <1>1, <1>3 DEF Prepared, IsPut
<1>9. ASSUME NEW i \in Entry, i # j, f = base_table => i # table
      PROVE  n[f][i] = IF m[d][t] = NULL THEN NULL ELSE m[f][i]
  <2>1. n[f][i] = k[f][i]
    BY <1>1, <1>9 DEF IsPut
  <2>2. CASE m[d][t] = f /\ f \notin F /\ (f # base_table => k[f] = m[f])
    <3>1. k[f][i] = m[f][i]
      BY <1>1, <1>9, <2>2, SMTT(30) DEF Prepared
    <3>2. f # NULL
      BY Numbers
    <3> QED
      BY <2>1, <2>2, <3>1, <3>2
  <2>3. CASE m[d][t] = NULL /\ f \in F /\ k[f] = Absent
    BY <2>1, <2>3 DEF Absent
  <2> QED
    BY <1>1, <2>2, <2>3 DEF Prepared
<1>10. n[base_table][table] = f /\ n[base_table][dir] = m[base_table][dir]
  <2>1. k[base_table][table] = f /\ k[base_table][dir] = m[base_table][dir]
    BY <1>1, <1>3 DEF Prepared
  <2>2. CASE f # base_table
    BY <2>1, <2>2, <1>1, <1>3 DEF IsPut
  <2>3. CASE f = base_table /\ j \notin Window
    BY <2>1, <2>3, <1>1, <1>3 DEF IsPut, Window
  <2>4. CASE f = base_table /\ j \in Window
    BY <2>1, <2>4, <1>1, <1>3 DEF IsPut, Window
  <2> QED
    BY <2>2, <2>3, <2>4
<1>11. (m[d][t] = f /\ f \notin F) \/ (m[d][t] = NULL /\ f \in F)
  BY <1>1 DEF Prepared
<1> QED
  BY <1>4, <1>5, <1>6, <1>7, <1>8, <1>9, <1>10, <1>11 DEF t, j

\* Two directories have a table in common only where the kernel has the same.
LEMMA ApartShare ==
  ASSUME NEW m, NEW F, NEW D, Apart(m, F, D), NEW d \in D, NEW e \in D,
         NEW t \in Tables, NEW u \in Tables, m[d][t] # NULL, m[d][t] = m[e][u]
  PROVE  t = u /\ (d = e \/ m[base_dir][t] = m[d][t])
<1>1. \A a, b \in D : \A p, q \in Tables :
         m[a][p] # NULL /\ m[a][p] = m[b][q]
             => p = q /\ (a = b \/ m[base_dir][p] = m[a][p])
  BY DEF Apart
<1>2. m[d][t] # NULL /\ m[d][t] = m[e][u] => t = u /\ (d = e \/ m[base_dir][t] = m[d][t])
  BY <1>1, SMTT(30)
<1> QED
  BY <1>2

LEMMA ApartDir ==
  ASSUME NEW m, NEW F, NEW D, Apart(m, F, D), NEW d \in D
  PROVE  /\ d \in Nat /\ d # NULL /\ d \in Frames /\ d # base_table /\ d \notin F
         /\ m[d][0] = base_table /\ m[d][0] # NULL
BY Numbers, SMTT(30) DEF Apart

LEMMA ApartTable ==
  ASSUME NEW m, NEW F, NEW D, Apart(m, F, D), NEW d \in D, NEW t \in Tables,
         m[d][t] # NULL
  PROVE  m[d][t] \in {base_table} \cup Ram /\ m[d][t] \notin F /\ m[d][t] \notin D
BY DEF Apart

LEMMA EditedApart ==
  ASSUME NEW m \in Memory, NEW F, NEW D, Apart(m, F, D), NEW d \in D,
         NEW v \in Nat, tid(v) \in Tables, NEW f \in ({base_table} \cup Ram) \ {d},
         NEW n, NEW x, Edited(m, n, F, d, v, f, x)
  PROVE  Apart(n, F \ {f}, D)
<1> DEFINE t == tid(v)
<1>1. /\ f \notin D /\ n[d][t] = f
      /\ \A i \in Entry : i # t => n[d][i] = m[d][i]
      /\ \A e \in D : e # d => n[e] = m[e]
      /\ (m[d][t] = f /\ f \notin F) \/ (m[d][t] = NULL /\ f \in F)
  BY EditedRows, SMTT(30)
<1>2. t \in Tables /\ Tables \subseteq Entry /\ 0 \in Tables /\ 0 \in Entry
      /\ f # NULL /\ base_table # NULL
  BY Numbers
<1> HIDE DEF t
<1>3. \A e \in D, u \in Entry : n[e][u] = IF e = d /\ u = t THEN f ELSE m[e][u]
  BY <1>1
<1>4. CASE m[d][t] = f /\ f \notin F
  <2>1. \A e \in D, u \in Entry : n[e][u] = m[e][u]
    BY <1>3, <1>4
  <2>2. F \ {f} = F
    BY <1>4
  <2> QED
    BY <2>1, <2>2, <1>2, SMTT(30) DEF Apart
<1>5. CASE m[d][t] = NULL /\ f \in F
  <2>1. \A e \in D, u \in Tables : m[e][u] # f
    BY <1>2, <1>5, SMTT(30) DEF Apart
  <2>2. t # 0
    BY <1>2, <1>5, SMTT(30) DEF Apart
  <2>3. /\ F \ {f} \subseteq Ram /\ D \subseteq {base_dir} \cup Ram /\ base_dir \in D
        /\ (F \ {f}) \cap D = {}
    BY DEF Apart
  <2>4. \A e \in D : n[e][0] = base_table
    BY <2>2, <1>2, <1>3, SMTT(30) DEF Apart
  <2>5. ASSUME NEW e \in D, NEW u \in Tables, n[e][u] # NULL
        PROVE  n[e][u] \in ({base_table} \cup Ram) \ ((F \ {f}) \cup D)
    <3>1. CASE e = d /\ u = t
      BY <3>1, <1>1
    <3>2. CASE ~(e = d /\ u = t)
      <4>1. n[e][u] = m[e][u]
        BY <3>2, <1>2, <1>3
      <4> QED
        BY <4>1, <2>5 DEF Apart
    <3> QED
      BY <3>1, <3>2
  <2>6. ASSUME NEW a \in D, NEW e \in D, NEW s \in Tables, NEW u \in Tables,
               n[a][s] # NULL, n[a][s] = n[e][u]
        PROVE  s = u /\ (a = e \/ n[base_dir][s] = n[a][s])
    <3>1. base_dir \in D
      BY <2>3
    <3>2. CASE a = d /\ s = t
      <4>1. e = d /\ u = t
        BY <2>1, <2>6, <3>2, <1>1, <1>2, <1>3, SMTT(30)
      <4> QED
        BY <3>2, <4>1
    <3>3. CASE ~(a = d /\ s = t)
      <4>1. n[a][s] = m[a][s]
        BY <3>3, <1>2, <1>3
      <4>2. n[e][u] = m[e][u]
        <5>1. ~(e = d /\ u = t)
          <6>1. m[a][s] # f
            BY <2>1
          <6>2. n[d][t] = f
            BY <1>1
          <6> QED
            BY <6>1, <6>2, <4>1, <2>6
        <5> QED
          BY <5>1, <1>2, <1>3
      <4>3. s = u /\ (a = e \/ m[base_dir][s] = m[a][s])
        <5>1. m[a][s] # NULL /\ m[a][s] = m[e][u]
          BY <2>6, <4>1, <4>2
        <5> QED
          BY <5>1, ApartShare, SMTT(30)
      <4>4. ASSUME m[base_dir][s] = m[a][s] PROVE n[base_dir][s] = n[a][s]
        <5>1. ~(base_dir = d /\ s = t)
          BY <4>1, <4>4, <2>6, <1>5
        <5>2. n[base_dir][s] = m[base_dir][s]
          BY <5>1, <3>1, <1>2, <1>3
        <5> QED
          BY <4>1, <4>4, <5>2
      <4> QED
        BY <4>3, <4>4
    <3> QED
      BY <3>2, <3>3
  <2>7. \A e \in D : \A u \in Tables :
           n[e][u] # NULL => n[e][u] \in ({base_table} \cup Ram) \ ((F \ {f}) \cup D)
    BY <2>5
  <2>8. \A a, e \in D : \A s, u \in Tables :
           n[a][s] # NULL /\ n[a][s] = n[e][u]
               => s = u /\ (a = e \/ n[base_dir][s] = n[a][s])
    BY <2>6, SMTT(30)
  <2> QED
    BY <2>3, <2>4, <2>7, <2>8 DEF Apart
<1> QED
  BY <1>1, <1>4, <1>5

\* What the hardware finds after such a round: x at v in every directory that
\* has the table, and at every other page but the windows what it found before.
LEMMA EditedWalk ==
  ASSUME NEW m \in Memory, NEW F, NEW D, Apart(m, F, D), NEW d \in D,
         NEW v \in Nat, tid(v) \in Tables, NEW f \in ({base_table} \cup Ram) \ {d},
         NEW n, NEW x, Edited(m, n, F, d, v, f, x),
         NEW e \in D, NEW u \in Nat, tid(u) \in Tables, u \notin Window
  PROVE  Walk(n, e, u) = IF u = v /\ n[e][tid(v)] = f THEN x ELSE Walk(m, e, u)
<1> DEFINE t == tid(v)
           s == tid(u)
           i == pid(u)
<1>1. /\ n \in Memory /\ f \notin D /\ n[f][pid(v)] = x /\ n[d][t] = f
      /\ \A b \in Entry : b # t => n[d][b] = m[d][b]
      /\ \A a \in D : a # d => n[a] = m[a]
      /\ \A g \in Ram \ {d, f} : n[g] = m[g]
      /\ f # base_table => \A b \in Entry : b # table => n[base_table][b] = m[base_table][b]
      /\ \A b \in Entry : b # pid(v) /\ (f = base_table => b # table) =>
            n[f][b] = IF m[d][t] = NULL THEN NULL ELSE m[f][b]
      /\ (m[d][t] = f /\ f \notin F) \/ (m[d][t] = NULL /\ f \in F)
  BY EditedRows, SMTT(30)
<1>2. t \in Tables /\ s \in Tables /\ i \in Entry /\ Tables \subseteq Entry /\ 0 \in Tables
      /\ f # NULL /\ base_dir \in D /\ m[base_dir][0] = base_table /\ base_table # NULL
  BY Offsets, Numbers, SMTT(30) DEF Apart
<1>3. u # v /\ s = t => i # pid(v)
  BY OffsetsDiffer
<1>4. \A a \in D, b \in Tables : m[a][b] = base_table => b = 0
  BY <1>2, SMTT(30) DEF Apart
<1>5. s = 0 => i # table
  BY FirstTableOnly DEF Window
<1>6. Walk(m, e, u) = IF m[e][s] = NULL THEN NULL ELSE m[m[e][s]][i]
  BY DEF Walk
<1>7. Walk(n, e, u) = IF n[e][s] = NULL THEN NULL ELSE n[n[e][s]][i]
  BY DEF Walk
<1>8. \A a \in D, b \in Entry : ~(a = d /\ b = t) => n[a][b] = m[a][b]
  BY <1>1
<1>9. u = v => s = t /\ i = pid(v)
  OBVIOUS
<1> HIDE DEF t, s, i
<1>10. CASE n[e][s] = f
  <2>1. s = t /\ (e = d \/ m[e][t] = f)
    <3>1. CASE e = d /\ s = t
      BY <3>1
    <3>2. CASE ~(e = d /\ s = t)
      <4>1. m[e][s] = f
        BY <3>2, <1>2, <1>8, <1>10
      <4>2. f \notin F
        BY <4>1, <1>2 DEF Apart
      <4>3. m[d][t] = f
        BY <4>2, <1>1
      <4> QED
        BY <4>1, <4>3, <1>2, SMTT(30) DEF Apart
    <3> QED
      BY <3>1, <3>2
  <2>2. CASE u = v
    BY <2>1, <2>2, <1>1, <1>2, <1>7, <1>9, <1>10 DEF t
  <2>3. CASE u # v
    <3>1. f = base_table => i # table
      <4>1. ASSUME f = base_table PROVE s = 0
        <5>1. m[d][t] = f
          BY <4>1, <1>1, Numbers DEF Apart
        <5> QED
          BY <4>1, <5>1, <2>1, <1>2, <1>4
      <4> QED
        BY <4>1, <1>5
    <3>2. n[f][i] = IF m[d][t] = NULL THEN NULL ELSE m[f][i]
      BY <3>1, <2>1, <2>3, <1>1, <1>2, <1>3
    <3>3. CASE m[d][t] = f
      <4>1. m[e][s] = f
        BY <2>1, <3>3
      <4> QED
        BY <4>1, <3>2, <3>3, <2>3, <1>2, <1>6, <1>7, <1>10
    <3>4. CASE m[d][t] = NULL /\ f \in F
      <4>1. e = d
        BY <2>1, <3>4, <1>2, SMTT(30) DEF Apart
      <4> QED
        BY <4>1, <2>1, <2>3, <3>2, <3>4, <1>2, <1>6, <1>7, <1>10
    <3> QED
      BY <3>3, <3>4, <1>1
  <2> QED
    BY <2>2, <2>3
<1>11. CASE n[e][s] # f
  <2>1. n[e][s] = m[e][s]
    BY <1>1, <1>2, <1>8, <1>11
  <2>2. ~(u = v /\ n[e][tid(v)] = f)
    BY <1>9, <1>11 DEF t
  <2>3. CASE m[e][s] = NULL
    BY <2>1, <2>2, <2>3, <1>6, <1>7
  <2>4. CASE m[e][s] # NULL
    <3> DEFINE g == m[e][s]
    <3>1. g \in ({base_table} \cup Ram) \ D
      BY <2>4, <1>2 DEF Apart
    <3>2. g # f
      BY <2>1, <1>11
    <3>3. g = base_table => i # table
      BY <1>2, <1>4, <1>5
    <3> HIDE DEF g
    <3>4. n[g][i] = m[g][i]
      BY <3>1, <3>2, <3>3, <1>1, <1>2
    <3> QED
      BY <2>1, <2>2, <2>4, <3>4, <1>6, <1>7 DEF g
  <2> QED
    BY <2>3, <2>4
<1> QED
  BY <1>10, <1>11

-----------------------------------------------------------------------------
(* How far a call is.                                                      *)

LEMMA OpIs ==
  ASSUME NEW D \in SUBSET ({base_dir} \cup Ram), NEW o \in Op(D)
  PROVE  /\ o # NULL
         /\ o.core \in Cores /\ o.page_dir \in D /\ o.call \in Calls \cup {Kernel}
         /\ o.left \in Nat /\ o.at \in Nat /\ o.phys \in Nat /\ o.ret \in Value
         /\ o.open \in BOOLEAN
<1>1. D \subseteq Nat
  BY Numbers
<1>2. Op(D) \subseteq [core : Cores, page_dir : Nat, call : Calls \cup {Kernel}, left : Nat,
                      at : Nat, phys : Nat, ret : Nat \cup {NULL}, open : BOOLEAN]
  BY <1>1 DEF Op, Value
<1>3. o # NULL
  BY <1>2, VmmAssumption
<1> QED
  BY <1>3 DEF Op

LEMMA CallIs ==
  ASSUME NEW r \in Calls
  PROVE  /\ r.virt \in Nat /\ r.phys \in Nat /\ r.count \in Nat
         /\ r.kind \in {"map", "remap", "unmap", "query"}
         /\ r.kind = "query" => r.count = 1
         /\ \A v \in r.virt .. r.virt + r.count - 1 :
               tid(v) \in Tables /\ (v \in Window => r.kind = "map")
<1>1. r \in [kind : {"map", "remap", "unmap", "query"}, virt : Nat, phys : Nat, count : Nat]
  BY VmmAssumption
<1>2. /\ r.kind = "query" => r.count = 1
      /\ \A v \in r.virt .. r.virt + r.count - 1 :
            v \div N \in Tables /\ (v \in 1 .. 4 => r.kind = "map")
  BY VmmAssumption
<1> QED
  BY <1>1, <1>2, SMTT(30) DEF tid, Window, dir, table

\* A call that has pages left is at one of its pages.
LEMMA DoingAt ==
  ASSUME NEW D \in SUBSET ({base_dir} \cup Ram), NEW o \in Op(D), NEW m, Doing(o, m),
         o.left > 0
  PROVE  /\ o.at \in o.call.virt .. o.call.virt + o.call.count - 1
         /\ tid(o.at) \in Tables
         /\ o.at \in Window => o.call.kind = "map"
<1>1. o.left \in Nat /\ o.at \in Nat
  BY OpIs
<1>2. o.call \in Calls /\ o.left <= o.call.count /\ o.at >= o.call.virt
  BY DEF Doing
<1>3. o.call.virt \in Nat /\ o.call.count \in Nat
  BY <1>2, CallIs
<1>4. o.at <= o.call.virt + (o.call.count - o.left)
  <2>1. CASE o.call.kind = "query"
    BY <2>1, <1>1, <1>2, <1>3, SMTT(30) DEF Doing
  <2>2. CASE o.call.kind = "unmap"
    BY <2>2, <1>1, <1>2, <1>3, SMTT(30) DEF Doing
  <2>3. CASE o.call.kind \in {"map", "remap"}
    BY <2>3, <1>1, <1>2, <1>3, SMTT(30) DEF Doing
  <2> QED
    BY <1>2, <2>1, <2>2, <2>3, CallIs
<1>5. o.at \in o.call.virt .. o.call.virt + o.call.count - 1
  BY <1>1, <1>2, <1>3, <1>4, SMTT(30)
<1> QED
  BY <1>2, <1>5, CallIs

\* The memory n agrees with m about every page of directory d but page v and
\* the windows.
Agree(m, n, d, v) ==
    \A u \in Nat : tid(u) \in Tables /\ u \notin Window /\ u # v => Walk(n, d, u) = Walk(m, d, u)

LEMMA PassedAgree ==
  ASSUME NEW D \in SUBSET ({base_dir} \cup Ram), NEW o \in Op(D), NEW m, Doing(o, m),
         o.left > 0, NEW n, Agree(m, n, o.page_dir, o.at)
  PROVE  \A v \in o.call.virt .. o.at - 1 : Walk(n, o.page_dir, v) = Walk(m, o.page_dir, v)
<1> SUFFICES ASSUME NEW v \in o.call.virt .. o.at - 1
             PROVE  Walk(n, o.page_dir, v) = Walk(m, o.page_dir, v)
  OBVIOUS
<1>1. o.call \in Calls /\ dir \notin o.call.virt .. o.at - 1 /\ table \notin o.call.virt .. o.at - 1
  BY DEF Doing
<1>2. o.call.virt \in Nat /\ o.call.count \in Nat /\ o.at \in Nat
  BY <1>1, CallIs, OpIs
<1>3. o.at \in o.call.virt .. o.call.virt + o.call.count - 1
  BY DoingAt
<1>4. v \in Nat /\ v # o.at /\ v \in o.call.virt .. o.call.virt + o.call.count - 1
  BY <1>2, <1>3, SMTT(30)
<1>5. tid(v) \in Tables /\ v \notin Window
  BY <1>1, <1>4, CallIs DEF Window
<1> QED
  BY <1>4, <1>5 DEF Agree

\* What the rounds have in common.
SameCall(o, q) ==
    q.call = o.call /\ q.page_dir = o.page_dir /\ o.open /\ q.open /\ q.core = o.core

\* A round that goes on to the next page.
LEMMA DoingNext ==
  ASSUME NEW D \in SUBSET ({base_dir} \cup Ram), NEW o \in Op(D), NEW m, Doing(o, m),
         o.left > 0, NEW n, Agree(m, n, o.page_dir, o.at), NEW q \in Op(D), SameCall(o, q),
         q.left = o.left - 1, q.at = o.at + 1,
         \/ /\ o.call.kind \in {"map", "remap"} /\ q.phys = o.phys + 1 /\ q.ret = o.ret
            /\ o.at \notin Window /\ Walk(n, o.page_dir, o.at) = o.phys
            /\ o.call.kind = "map" => Walk(m, o.page_dir, o.at) = NULL
         \/ o.call.kind = "unmap" /\ Walk(n, o.page_dir, o.at) = NULL
  PROVE  Doing(q, n)
<1> DEFINE r == o.call
           d == o.page_dir
<1>1. o.left \in Nat /\ o.at \in Nat /\ o.phys \in Nat
  BY OpIs
<1>2. r \in Calls /\ o.left <= r.count /\ o.at >= r.virt
      /\ dir \notin r.virt .. o.at - 1 /\ table \notin r.virt .. o.at - 1
  BY DEF Doing
<1>3. r.virt \in Nat /\ r.count \in Nat /\ r.phys \in Nat
  BY <1>2, CallIs
<1>4. \A v \in r.virt .. o.at - 1 : Walk(n, d, v) = Walk(m, d, v)
  BY PassedAgree
<1>5. o.at \notin Window
  BY DoingAt
<1>6. r.virt .. q.at - 1 = (r.virt .. o.at - 1) \cup {o.at}
  BY <1>1, <1>2, <1>3, SMTT(30)
<1>7. /\ q.call = r /\ q.page_dir = d /\ q.open /\ q.left <= r.count /\ q.at >= r.virt
      /\ dir \notin r.virt .. q.at - 1 /\ table \notin r.virt .. q.at - 1
  <2>1. q.left <= r.count /\ q.at >= r.virt
    BY <1>1, <1>2, <1>3, SMTT(30)
  <2> QED
    BY <2>1, <1>2, <1>5, <1>6 DEF SameCall, Window
<1>8. CASE r.kind = "unmap"
  <2>1. o.at = r.virt + (r.count - o.left) /\ \A v \in r.virt .. o.at - 1 : Walk(m, d, v) = NULL
    BY <1>8 DEF Doing
  <2>2. q.at = r.virt + (r.count - q.left)
    BY <2>1, <1>1, <1>3, SMTT(30)
  <2>3. Walk(n, d, o.at) = NULL
    BY <1>8
  <2>4. \A v \in r.virt .. q.at - 1 : Walk(n, d, v) = NULL
    BY <2>1, <2>3, <1>4, <1>6
  <2> HIDE DEF r, d
  <2> QED
    BY <1>2, <1>7, <1>8, <2>2, <2>4 DEF Doing
<1>9. CASE r.kind \in {"map", "remap"}
  <2>1. /\ q.phys = o.phys + 1 /\ q.ret = o.ret /\ Walk(n, d, o.at) = o.phys
        /\ r.kind = "map" => Walk(m, d, o.at) = NULL
    BY <1>9
  <2>2. /\ o.phys = r.phys + (o.at - r.virt)
        /\ \A v \in r.virt .. o.at - 1 : Walk(m, d, v) = r.phys + (v - r.virt)
    BY <1>9 DEF Doing
  <2>3. o.at = r.virt + (r.count - o.left) /\ o.ret = 0
    BY <1>9, <2>1 DEF Doing
  <2>4. q.at = r.virt + (r.count - q.left) /\ q.ret = 0 /\ q.phys = r.phys + (q.at - r.virt)
    BY <2>1, <2>2, <2>3, <1>1, <1>3, SMTT(30)
  <2>5. \A v \in r.virt .. q.at - 1 : Walk(n, d, v) = r.phys + (v - r.virt)
    BY <2>1, <2>2, <1>4, <1>6
  <2> HIDE DEF r, d
  <2> QED
    BY <1>2, <1>7, <1>9, <2>4, <2>5 DEF Doing
<1> QED
  BY <1>8, <1>9

\* A round of vmm_map_pages at a page that is present.
LEMMA DoingStuck ==
  ASSUME NEW D \in SUBSET ({base_dir} \cup Ram), NEW o \in Op(D), NEW m, Doing(o, m),
         o.left > 0, NEW n, Agree(m, n, o.page_dir, o.at), NEW q \in Op(D), SameCall(o, q),
         q.left = o.left - 1, q.at = o.at, q.phys = o.phys, q.ret = 1,
         o.call.kind = "map", Walk(n, o.page_dir, o.at) # NULL
  PROVE  Doing(q, n)
<1> DEFINE r == o.call
           d == o.page_dir
<1>1. o.left \in Nat /\ o.at \in Nat /\ o.phys \in Nat
  BY OpIs
<1>2. /\ r \in Calls /\ o.left <= r.count /\ o.at >= r.virt
      /\ dir \notin r.virt .. o.at - 1 /\ table \notin r.virt .. o.at - 1
  BY DEF Doing
<1>3. r.virt \in Nat /\ r.count \in Nat /\ r.phys \in Nat
  BY <1>2, CallIs
<1>4. \A v \in r.virt .. o.at - 1 : Walk(n, d, v) = Walk(m, d, v)
  BY PassedAgree
<1>5. /\ o.phys = r.phys + (o.at - r.virt)
      /\ \A v \in r.virt .. o.at - 1 : Walk(m, d, v) = r.phys + (v - r.virt)
      /\ o.at <= r.virt + (r.count - o.left)
  BY <1>1, <1>2, <1>3, SMTT(30) DEF Doing
<1>6. q.left <= r.count /\ q.at < r.virt + (r.count - q.left)
  BY <1>1, <1>2, <1>3, <1>5, SMTT(30)
<1>7. \A v \in r.virt .. q.at - 1 : Walk(n, d, v) = r.phys + (v - r.virt)
  BY <1>4, <1>5
<1>8. q.call = r /\ q.page_dir = d /\ q.open /\ r.kind = "map" /\ Walk(n, d, q.at) # NULL
      /\ q.phys = r.phys + (q.at - r.virt)
  BY <1>5 DEF SameCall
<1> HIDE DEF r, d
<1> QED
  BY <1>2, <1>6, <1>7, <1>8 DEF Doing

\* The round of virt_to_phys.
LEMMA DoingQuery ==
  ASSUME NEW D \in SUBSET ({base_dir} \cup Ram), NEW o \in Op(D), NEW m, Doing(o, m),
         NEW n, NEW q \in Op(D), SameCall(o, q), q.left = 0, q.at = o.at,
         o.call.kind = "query", q.ret = Walk(n, o.page_dir, o.at)
  PROVE  Doing(q, n)
<1>1. /\ o.call \in Calls /\ o.at = o.call.virt
      /\ dir \notin o.call.virt .. o.at - 1 /\ table \notin o.call.virt .. o.at - 1
  BY DEF Doing
<1>2. 0 <= o.call.count /\ o.at >= o.call.virt
  BY <1>1, CallIs, SMTT(30)
<1> QED
  BY <1>1, <1>2 DEF Doing, SameCall

-----------------------------------------------------------------------------
(* The actions with paging on.                                             *)

\* What the invariant says about the core that runs a call or starts one.
LEMMA MachineReady ==
  ASSUME VmmIInv, NEW c \in Cores, op # NULL => op.core = c
  PROVE  /\ Ready(Machine, c)
         /\ Machine.mem = mem /\ Machine.free = free /\ Machine.tlb = tlb
         /\ cr3[c] \in dirs /\ cr3[c] \in Frames \ {base_table} /\ cr3[c] \notin free
<1>1. mem \in Memory /\ tlb \in [Cores -> [Window -> Value]] /\ cr3[c] \in dirs
  BY DEF VmmIInv, TypeOK
<1>2. /\ free \subseteq Ram /\ dirs \subseteq {base_dir} \cup Ram /\ free \cap dirs = {}
      /\ mem[cr3[c]][0] = base_table
  BY <1>1 DEF VmmIInv, Apart
<1>3. Machine \in Machines
  BY <1>1, <1>2 DEF Machine, Machines
<1>4. \A w \in Window : tlb[c][w] \in {NULL, mem[base_table][w]}
  BY DEF VmmIInv, Windows
<1> QED
  BY <1>1, <1>2, <1>3, <1>4, Numbers DEF Machine, Ready

LEMMA RoundFacing ==
  ASSUME VmmIInv, paging, op # NULL, op.open
  PROVE  /\ Facing(Machine, op.core, op.page_dir)
         /\ Machine.mem = mem /\ Machine.free = free /\ Machine.tlb = tlb
<1>1. op.core \in Cores /\ op.page_dir \in dirs
  BY OpIs DEF VmmIInv, TypeOK, Apart
<1>2. /\ Ready(Machine, op.core)
      /\ Machine.mem = mem /\ Machine.free = free /\ Machine.tlb = tlb
      /\ cr3[op.core] \in Frames \ {base_table} /\ cr3[op.core] \notin free
  BY <1>1, MachineReady
<1>3. op.page_dir \in Frames \ {base_table} /\ op.page_dir \notin free
      /\ mem[op.page_dir][0] # NULL
  BY <1>1, ApartDir, SMTT(30) DEF VmmIInv
<1>4. mem[base_table][dir] = op.page_dir
  BY DEF VmmIInv, Windows
<1> QED
  BY <1>2, <1>3, <1>4 DEF Facing

\* What a round does, apart from op: page at of page_dir has table f, with x in
\* its entry, and the core holds no translations but the current ones.
PageStep(f, x) ==
    /\ f \in ({base_table} \cup Ram) \ {op.page_dir} /\ x \in Value
    /\ Edited(mem, mem', free, op.page_dir, op.at, f, x)
    /\ free' = free \ {f}
    /\ tlb' \in [Cores -> [Window -> Value]]
    /\ \A w \in Window : tlb'[op.core][w] \in {NULL, mem'[base_table][w]}
    /\ \A e \in Cores : e # op.core => tlb'[e] = tlb[e]

\* s is memory with the table of the page in place, behind the window.
Placed(s, f) ==
    /\ f \in ({base_table} \cup Ram) \ {op.page_dir}
    /\ Ready(s, op.core) /\ s.free = free \ {f}
    /\ \A e \in Cores : e # op.core => s.tlb[e] = tlb[e]
    /\ Prepared(mem, s.mem, free, op.page_dir, tid(op.at), f)

LEMMA RoundAt ==
  ASSUME VmmIInv, paging, op # NULL, op.open, op.left > 0
  PROVE  /\ op \in Op(dirs) /\ dirs \in SUBSET ({base_dir} \cup Ram) /\ Doing(op, mem)
         /\ op.core \in Cores /\ op.page_dir \in dirs /\ op.at \in Nat
         /\ tid(op.at) \in Tables /\ tid(op.at) \in Entry /\ pid(op.at) \in Entry
         /\ op.at \in Window => op.call.kind = "map"
         /\ mem \in Memory /\ Apart(mem, free, dirs)
<1>1. op \in Op(dirs) /\ dirs \in SUBSET ({base_dir} \cup Ram) /\ Doing(op, mem)
      /\ mem \in Memory /\ Apart(mem, free, dirs)
  BY DEF VmmIInv, TypeOK, Apart, Progress
<1>2. op.core \in Cores /\ op.page_dir \in dirs /\ op.at \in Nat
  BY <1>1, OpIs
<1>3. tid(op.at) \in Tables /\ (op.at \in Window => op.call.kind = "map")
  BY <1>1, DoingAt
<1> QED
  BY <1>1, <1>2, <1>3, Offsets, Numbers

LEMMA EnsuredPlaced ==
  ASSUME VmmIInv, paging, op # NULL, op.open, op.left > 0, HasTable
  PROVE  \E f : Placed(Ensured, f)
<1> DEFINE c == op.core
           d == op.page_dir
           v == op.at
<1>1. Facing(Machine, c, d) /\ Machine.mem = mem /\ Machine.free = free /\ Machine.tlb = tlb
  BY RoundFacing
<1>2. c \in Cores /\ d \in dirs /\ v \in Nat /\ tid(v) \in Tables /\ tid(v) \in Entry
      /\ Apart(mem, free, dirs)
  BY RoundAt
<1>3. mem[d][tid(v)] \in {NULL} \cup (({base_table} \cup Ram) \ ({d} \cup free))
  BY <1>2 DEF Apart
<1>4. Read(Machine, c, dir, tid(v)) # NULL \/ free # {}
  BY DEF HasTable
<1>5. Ensured = OpenTableOf(ensure_table(Machine, c, tid(v)), c, v)
  BY DEF Ensured
<1>6. \E f \in ({base_table} \cup Ram) \ {d} :
            /\ Ready(Ensured, c) /\ Ensured.free = Machine.free \ {f}
            /\ \A e \in Cores : e # c => Ensured.tlb[e] = Machine.tlb[e]
            /\ Prepared(Machine.mem, Ensured.mem, Machine.free, d, tid(v), f)
  <2> HIDE DEF c, d, v
  <2> QED
    BY <1>1, <1>2, <1>3, <1>4, <1>5, EnsuredIs, SMTT(30)
<1> QED
  BY <1>1, <1>6 DEF Placed

\* What a round reads and writes through the window of the table.
LEMMA PlacedEntry ==
  ASSUME VmmIInv, paging, op # NULL, op.open, op.left > 0, NEW s, NEW f, Placed(s, f)
  PROVE  /\ s.mem \in Memory /\ f \in Frames /\ f \notin dirs
         /\ Read(s, op.core, table, pid(op.at)) = s.mem[f][pid(op.at)]
         /\ s.mem[f][pid(op.at)] \in Value
         /\ Walk(mem, op.page_dir, op.at) # NULL => s.mem[f][pid(op.at)] # NULL
         /\ f = base_table => op.at = pid(op.at)
         /\ op.at \in Window => s.mem[f][pid(op.at)] # NULL
<1> DEFINE d == op.page_dir
           t == tid(op.at)
           i == pid(op.at)
<1>1. /\ op.core \in Cores /\ d \in dirs /\ op.at \in Nat /\ t \in Tables /\ i \in Entry
      /\ Apart(mem, free, dirs)
  BY RoundAt
<1>2. /\ f \in {base_table} \cup Ram /\ Ready(s, op.core)
      /\ Prepared(mem, s.mem, free, d, t, f)
  BY DEF Placed
<1>3. /\ s.mem \in Memory /\ s.mem[base_table][table] = f
      /\ \A j \in Entry : j # table => s.mem[base_table][j] = mem[base_table][j]
      /\ \/ mem[d][t] = f /\ f \notin free /\ (f # base_table => s.mem[f] = mem[f])
         \/ mem[d][t] = NULL /\ f \in free
  BY <1>2 DEF Prepared
<1>4. Read(s, op.core, table, i) = s.mem[f][i]
  BY <1>1, <1>2, <1>3, SeenIs DEF Read, Window
<1>5. f \in Frames /\ f \in Nat /\ f # NULL /\ base_table \notin free
  BY <1>1, <1>2, Numbers, SMTT(30) DEF Apart
<1>6. s.mem[f][i] \in Value
  BY <1>1, <1>3, <1>5 DEF Memory
<1>7. f \notin dirs
  <2>1. CASE mem[d][t] = f
    BY <2>1, <1>1, <1>5, ApartTable, SMTT(30)
  <2>2. CASE f \in free
    BY <2>2, <1>1, ApartDir, SMTT(30)
  <2> QED
    BY <2>1, <2>2, <1>3
<1>8. Walk(mem, d, op.at) = IF mem[d][t] = NULL THEN NULL ELSE mem[mem[d][t]][i]
  BY DEF Walk
<1>9. ASSUME f = base_table PROVE op.at = i
  <2>1. mem[d][t] = base_table /\ mem[base_dir][0] = base_table /\ base_dir \in dirs
        /\ 0 \in Tables /\ base_table # NULL
    BY <1>1, <1>3, <1>5, <1>9, Numbers DEF Apart
  <2>2. t = 0
    BY <2>1, <1>1, ApartShare, SMTT(30)
  <2> QED
    BY <2>2, <1>1, FirstTableOnly
<1>10. op.at \in Window => f = base_table
  <2>1. ASSUME op.at \in Window PROVE f = base_table
    <3>1. op.at < N
      BY <2>1, VmmAssumption, SMTT(30) DEF Window, dir, table
    <3>2. t = 0
      BY <3>1, <1>1, FirstTable
    <3> QED
      BY <3>2, <1>1, <1>3, ApartDir, SMTT(30)
  <2> QED
    BY <2>1
<1> HIDE DEF d, t, i
<1>11. ASSUME Walk(mem, d, op.at) # NULL PROVE s.mem[f][i] # NULL
  <2>1. mem[d][t] = f /\ mem[f][i] # NULL
    BY <1>3, <1>8, <1>11
  <2>2. CASE f = base_table
    <3>1. CASE i = table
      BY <2>2, <3>1, <1>3, <1>5
    <3>2. CASE i # table
      BY <2>1, <2>2, <3>2, <1>1, <1>3
    <3> QED
      BY <3>1, <3>2
  <2>3. CASE f # base_table
    BY <2>1, <2>3, <1>3, <1>5
  <2> QED
    BY <2>2, <2>3
<1>12. ASSUME op.at \in Window PROVE s.mem[f][i] # NULL
  <2>1. f = base_table /\ op.at = i
    BY <1>9, <1>10, <1>12
  <2>2. CASE i = table
    BY <2>1, <2>2, <1>3, <1>5
  <2>3. CASE i = dir
    <3>1. mem[base_table][dir] = d
      BY DEF VmmIInv, Windows, d
    <3>2. d # NULL
      BY <1>1, Numbers, SMTT(30) DEF Apart
    <3> QED
      BY <2>1, <2>3, <3>1, <3>2, <1>1, <1>3, Numbers
  <2> QED
    BY <2>1, <2>2, <2>3, <1>12 DEF Window
<1> QED
  BY <1>3, <1>4, <1>5, <1>6, <1>7, <1>9, <1>11, <1>12 DEF d, t, i

LEMMA PlacedStays ==
  ASSUME VmmIInv, paging, op # NULL, op.open, op.left > 0, NEW s, NEW f, Placed(s, f),
         Becomes(s)
  PROVE  PageStep(f, s.mem[f][pid(op.at)])
<1> DEFINE x == s.mem[f][pid(op.at)]
<1>1. s.mem \in Memory /\ x \in Value
  BY PlacedEntry
<1>2. IsPut(s.mem, s.mem, f, pid(op.at), x)
  BY <1>1 DEF IsPut
<1>3. Edited(mem, s.mem, free, op.page_dir, op.at, f, x)
  BY <1>2 DEF Edited, Placed
<1>4. mem' = s.mem /\ free' = s.free /\ tlb' = s.tlb
  BY DEF Becomes
<1>5. s.tlb \in [Cores -> [Window -> Value]]
  BY MachineParts DEF Placed, Ready
<1> HIDE DEF x
<1> QED
  BY <1>1, <1>3, <1>4, <1>5 DEF PageStep, Placed, Ready, x

LEMMA PlacedSet ==
  ASSUME VmmIInv, paging, op # NULL, op.open, op.left > 0, NEW s, NEW f, Placed(s, f),
         NEW x \in Value, op.at \notin Window, Becomes(Set(s, x))
  PROVE  PageStep(f, x)
<1> DEFINE c == op.core
           i == pid(op.at)
           r == Set(s, x)
<1>1. s.mem \in Memory /\ f \in Frames /\ f \notin dirs /\ (f = base_table => op.at = i)
  BY PlacedEntry
<1>2. c \in Cores /\ i \in Entry
  BY RoundAt
<1>3. cr3[c] \in dirs /\ cr3[c] \in Frames
  BY <1>2, MachineReady
<1>4. Ready(s, c) /\ s.mem[base_table][table] = f
  BY DEF Placed, Prepared
<1>5. r = Write(s, c, table, i, x) /\ table \in Window
  BY DEF Set, Window
<1>6. (f = base_table => i \notin Window) /\ f # cr3[c]
  BY <1>1, <1>3
<1> HIDE DEF c, i, r
<1>7. Ready(r, c) /\ Local(s, r, c) /\ r.mem = Put(s.mem, f, i, x)
  BY <1>1, <1>2, <1>3, <1>4, <1>5, <1>6, WriteIs, SMTT(30)
<1>8. IsPut(r.mem, s.mem, f, i, x)
  BY <1>1, <1>2, <1>7, PutIs
<1>9. Edited(mem, r.mem, free, op.page_dir, op.at, f, x)
  BY <1>6, <1>8 DEF Edited, Placed, i
<1>10. mem' = r.mem /\ free' = r.free /\ tlb' = r.tlb
  BY DEF Becomes, r
<1>11. r.tlb \in [Cores -> [Window -> Value]]
  BY <1>7, MachineParts DEF Ready
<1> QED
  BY <1>7, <1>9, <1>10, <1>11 DEF PageStep, Placed, Ready, Local, c

LEMMA PageStepWalk ==
  ASSUME VmmIInv, paging, op # NULL, op.open, op.left > 0, NEW f, NEW x, PageStep(f, x)
  PROVE  /\ Walk(mem', op.page_dir, op.at) = x
         /\ Agree(mem, mem', op.page_dir, op.at)
<1> DEFINE d == op.page_dir
           v == op.at
<1>1. d \in dirs /\ v \in Nat /\ tid(v) \in Tables /\ mem \in Memory /\ Apart(mem, free, dirs)
  BY RoundAt
<1>2. f \in ({base_table} \cup Ram) \ {d} /\ Edited(mem, mem', free, d, v, f, x)
  BY DEF PageStep
<1> HIDE DEF d, v
<1>3. mem'[d][tid(v)] = f /\ mem'[f][pid(v)] = x
  BY <1>1, <1>2, EditedRows, SMTT(30)
<1>4. f # NULL
  BY <1>2, Numbers
<1>5. Walk(mem', d, v) = x
  BY <1>3, <1>4 DEF Walk
<1>6. ASSUME NEW u \in Nat, tid(u) \in Tables, u \notin Window, u # v
      PROVE  Walk(mem', d, u) = Walk(mem, d, u)
  BY <1>1, <1>2, <1>6, EditedWalk, SMTT(30)
<1> QED
  BY <1>5, <1>6 DEF Agree, d, v

\* A round at one page of one directory.
OnePage ==
    /\ dirs' = dirs
    /\ \E d \in dirs, v \in Nat : \E f \in ({base_table} \cup Ram) \ {d} : \E x :
          tid(v) \in Tables /\ Edited(mem, mem', free, d, v, f, x)

LEMMA PageStepInv ==
  ASSUME VmmIInv, paging, op # NULL, op.open, op.left > 0, NEW f, NEW x, PageStep(f, x),
         op' \in Op(dirs), SameCall(op, op'), UNCHANGED <<dirs, cr3, paging>>,
         Doing(op', mem')
  PROVE  VmmIInv' /\ OnePage
<1> DEFINE d == op.page_dir
           v == op.at
<1>1. /\ d \in dirs /\ v \in Nat /\ tid(v) \in Tables /\ mem \in Memory
      /\ Apart(mem, free, dirs) /\ dirs \in SUBSET ({base_dir} \cup Ram)
  BY RoundAt
<1>2. f \in ({base_table} \cup Ram) \ {d} /\ Edited(mem, mem', free, d, v, f, x)
      /\ free' = free \ {f} /\ tlb' \in [Cores -> [Window -> Value]]
  BY DEF PageStep
<1>3. op' # NULL /\ op'.core = op.core /\ op'.page_dir = d /\ op'.open
  BY <1>1, OpIs DEF SameCall
<1>4. mem[base_table][dir] = d
  BY DEF VmmIInv, Windows
<1> HIDE DEF d, v
<1>5. mem' \in Memory /\ mem'[base_table][table] = f
      /\ mem'[base_table][dir] = mem[base_table][dir]
  BY <1>1, <1>2, EditedRows, SMTT(30)
<1>6. TypeOK'
  BY <1>2, <1>5 DEF VmmIInv, TypeOK
<1>7. Apart(mem', free', dirs')
  BY <1>1, <1>2, EditedApart
<1>8. Windows'
  <2>1. ASSUME NEW c \in Cores, NEW w \in Window
        PROVE  tlb'[c][w] \in
                 {NULL, IF op' # NULL /\ op'.core = c THEN mem'[base_table][w] ELSE w}
    <3>1. CASE c = op.core
      BY <3>1, <1>3 DEF PageStep
    <3>2. CASE c # op.core
      <4>1. tlb'[c][w] = tlb[c][w]
        BY <3>2 DEF PageStep
      <4>2. tlb[c][w] \in {NULL, w}
        BY <3>2 DEF VmmIInv, Windows
      <4> QED
        BY <3>2, <4>1, <4>2, <1>3
    <3> QED
      BY <3>1, <3>2
  <2>2. f # NULL
    BY <1>2, Numbers
  <2> QED
    BY <2>1, <2>2, <1>3, <1>4, <1>5 DEF Windows
<1>9. OnePage
  BY <1>1, <1>2 DEF OnePage
<1>10. VmmIInv'
  BY <1>6, <1>7, <1>8 DEF VmmIInv, Booting, Progress
<1> QED
  BY <1>9, <1>10

\* The loop goes on to the next page.
Forward(o) == [o EXCEPT !.left = @ - 1, !.at = @ + 1, !.phys = @ + 1]
ForwardWith(o, y) == [o EXCEPT !.left = @ - 1, !.at = @ + 1, !.ret = y]

LEMMA Advance ==
  ASSUME NEW D, NEW o \in Op(D), o.open, o.left - 1 \in Nat, o.at \in Nat, o.phys \in Nat
  PROVE  LET q == Forward(o) IN
         /\ q \in Op(D) /\ SameCall(o, q) /\ q.left = o.left - 1
         /\ q.at = o.at + 1 /\ q.phys = o.phys + 1 /\ q.ret = o.ret
<1> DEFINE l == o.left - 1
           a == o.at + 1
           p == o.phys + 1
<1>1. l \in Nat /\ a \in Nat /\ p \in Nat
  BY SMTT(30)
<1>2. Forward(o) = [o EXCEPT !.left = l, !.at = a, !.phys = p]
  BY DEF Forward
<1> HIDE DEF l, a, p
<1>3. LET q == [o EXCEPT !.left = l, !.at = a, !.phys = p] IN
      /\ q \in Op(D) /\ SameCall(o, q) /\ q.left = l
      /\ q.at = a /\ q.phys = p /\ q.ret = o.ret
  BY <1>1 DEF Op, SameCall
<1> QED
  BY <1>2, <1>3 DEF l, a, p

LEMMA AdvanceWith ==
  ASSUME NEW D, NEW o \in Op(D), o.open, o.left - 1 \in Nat, o.at \in Nat, NEW y \in Value
  PROVE  LET q == ForwardWith(o, y) IN
         q \in Op(D) /\ SameCall(o, q) /\ q.left = o.left - 1 /\ q.at = o.at + 1
<1> DEFINE l == o.left - 1
           a == o.at + 1
<1>1. l \in Nat /\ a \in Nat
  BY SMTT(30)
<1>2. ForwardWith(o, y) = [o EXCEPT !.left = l, !.at = a, !.ret = y]
  BY DEF ForwardWith
<1> HIDE DEF l, a
<1>3. LET q == [o EXCEPT !.left = l, !.at = a, !.ret = y] IN
      q \in Op(D) /\ SameCall(o, q) /\ q.left = l /\ q.at = a
  BY <1>1 DEF Op, SameCall
<1> QED
  BY <1>2, <1>3 DEF l, a

LEMMA MapInv ==
  ASSUME VmmIInv, paging, MapPage
  PROVE  VmmIInv' /\ OnePage
<1>1. op # NULL /\ op.open /\ op.left > 0 /\ op.call.kind = "map" /\ HasTable
      /\ UNCHANGED <<dirs, cr3, paging>>
  BY DEF MapPage, Round
<1>2. /\ op \in Op(dirs) /\ dirs \in SUBSET ({base_dir} \cup Ram) /\ Doing(op, mem)
  BY <1>1, RoundAt
<1>3. op.left \in Nat /\ op.at \in Nat /\ op.phys \in Nat /\ op.phys \in Value /\ op.left - 1 \in Nat
  BY <1>1, <1>2, OpIs, SMTT(30) DEF Value
<1>4. PICK f : Placed(Ensured, f)
  BY <1>1, EnsuredPlaced
<1> DEFINE x == Ensured.mem[f][pid(op.at)]
<1>5. /\ Present(Ensured) <=> x # NULL
      /\ Walk(mem, op.page_dir, op.at) # NULL => x # NULL
      /\ op.at \in Window => x # NULL
  BY <1>1, <1>4, PlacedEntry DEF Present
<1> HIDE DEF x
<1>6. CASE Present(Ensured)
  <2>1. Becomes(Ensured) /\ op' = [op EXCEPT !.left = @ - 1, !.ret = 1]
    BY <1>6 DEF MapPage
  <2>2. PageStep(f, x)
    BY <2>1, <1>1, <1>4, PlacedStays DEF x
  <2>3. /\ op' \in Op(dirs) /\ SameCall(op, op') /\ op'.left = op.left - 1
        /\ op'.at = op.at /\ op'.phys = op.phys /\ op'.ret = 1
    BY <2>1, <1>1, <1>2, <1>3 DEF Op, SameCall, Value
  <2>4. Walk(mem', op.page_dir, op.at) = x /\ Agree(mem, mem', op.page_dir, op.at)
    BY <2>2, <1>1, PageStepWalk
  <2>5. Doing(op', mem')
    BY <2>3, <2>4, <1>1, <1>2, <1>5, <1>6, DoingStuck
  <2> QED
    BY <2>2, <2>3, <2>5, <1>1, PageStepInv
<1>7. CASE ~Present(Ensured)
  <2>1. /\ Becomes(Set(Ensured, op.phys))
        /\ op' = Forward(op)
    BY <1>7 DEF MapPage, Forward
  <2>2. op.at \notin Window /\ Walk(mem, op.page_dir, op.at) = NULL
    BY <1>5, <1>7
  <2>3. PageStep(f, op.phys)
    BY <2>1, <2>2, <1>1, <1>3, <1>4, PlacedSet
  <2>4. /\ op' \in Op(dirs) /\ SameCall(op, op') /\ op'.left = op.left - 1
        /\ op'.at = op.at + 1 /\ op'.phys = op.phys + 1 /\ op'.ret = op.ret
    BY <2>1, <1>1, <1>2, <1>3, Advance
  <2>5. Walk(mem', op.page_dir, op.at) = op.phys /\ Agree(mem, mem', op.page_dir, op.at)
    BY <2>3, <1>1, PageStepWalk
  <2>6. Doing(op', mem')
    BY <2>2, <2>4, <2>5, <1>1, <1>2, DoingNext
  <2> QED
    BY <2>3, <2>4, <2>6, <1>1, PageStepInv
<1> QED
  BY <1>6, <1>7

LEMMA RemapInv ==
  ASSUME VmmIInv, paging, RemapPage
  PROVE  VmmIInv' /\ OnePage
<1>1. op # NULL /\ op.open /\ op.left > 0 /\ op.call.kind = "remap" /\ HasTable
      /\ UNCHANGED <<dirs, cr3, paging>>
  BY DEF RemapPage, Round
<1>2. /\ op \in Op(dirs) /\ dirs \in SUBSET ({base_dir} \cup Ram) /\ Doing(op, mem)
      /\ op.at \notin Window
  BY <1>1, RoundAt
<1>3. op.left \in Nat /\ op.at \in Nat /\ op.phys \in Nat /\ op.phys \in Value /\ op.left - 1 \in Nat
  BY <1>1, <1>2, OpIs, SMTT(30) DEF Value
<1>4. PICK f : Placed(Ensured, f)
  BY <1>1, EnsuredPlaced
<1>5. /\ Becomes(Set(Ensured, op.phys))
      /\ op' = Forward(op)
  BY DEF RemapPage, Forward
<1>6. PageStep(f, op.phys)
  BY <1>1, <1>2, <1>3, <1>4, <1>5, PlacedSet
<1>7. /\ op' \in Op(dirs) /\ SameCall(op, op') /\ op'.left = op.left - 1
      /\ op'.at = op.at + 1 /\ op'.phys = op.phys + 1 /\ op'.ret = op.ret
  BY <1>1, <1>2, <1>3, <1>5, Advance
<1>8. Walk(mem', op.page_dir, op.at) = op.phys /\ Agree(mem, mem', op.page_dir, op.at)
  BY <1>1, <1>6, PageStepWalk
<1>9. Doing(op', mem')
  BY <1>1, <1>2, <1>7, <1>8, DoingNext
<1> QED
  BY <1>1, <1>6, <1>7, <1>9, PageStepInv

LEMMA UnmapInv ==
  ASSUME VmmIInv, paging, UnmapPage
  PROVE  VmmIInv' /\ OnePage
<1>1. op # NULL /\ op.open /\ op.left > 0 /\ op.call.kind = "unmap" /\ HasTable
      /\ UNCHANGED <<dirs, cr3, paging>>
  BY DEF UnmapPage, Round
<1>2. /\ op \in Op(dirs) /\ dirs \in SUBSET ({base_dir} \cup Ram) /\ Doing(op, mem)
      /\ op.at \notin Window
  BY <1>1, RoundAt
<1>3. op.left \in Nat /\ op.at \in Nat /\ NULL \in Value /\ op.left - 1 \in Nat
      /\ op.ret \in Value /\ 1 \in Value
  BY <1>1, <1>2, OpIs, SMTT(30) DEF Value
<1>4. PICK f : Placed(Ensured, f)
  BY <1>1, EnsuredPlaced
<1>5. Present(Ensured) <=> Ensured.mem[f][pid(op.at)] # NULL
  BY <1>1, <1>4, PlacedEntry DEF Present
<1>6. PageStep(f, NULL)
  <2>1. CASE Present(Ensured)
    <3>1. Becomes(Set(Ensured, NULL))
      BY <2>1 DEF UnmapPage
    <3> QED
      BY <3>1, <1>1, <1>2, <1>3, <1>4, PlacedSet
  <2>2. CASE ~Present(Ensured)
    <3>1. Becomes(Ensured)
      BY <2>2 DEF UnmapPage
    <3>2. PageStep(f, Ensured.mem[f][pid(op.at)])
      BY <3>1, <1>1, <1>4, PlacedStays
    <3>3. Ensured.mem[f][pid(op.at)] = NULL
      BY <2>2, <1>5
    <3> QED
      BY <3>2, <3>3
  <2> QED
    BY <2>1, <2>2
<1>7. /\ op' \in Op(dirs) /\ SameCall(op, op') /\ op'.left = op.left - 1
      /\ op'.at = op.at + 1
  <2>1. PICK y \in Value : op' = ForwardWith(op, y)
    <3> DEFINE y == IF Present(Ensured) THEN op.ret ELSE 1
    <3>1. y \in Value
      BY <1>3
    <3>2. op' = ForwardWith(op, y)
      BY DEF UnmapPage, ForwardWith
    <3> QED
      BY <3>1, <3>2
  <2> QED
    BY <2>1, <1>1, <1>2, <1>3, AdvanceWith
<1>8. Walk(mem', op.page_dir, op.at) = NULL /\ Agree(mem, mem', op.page_dir, op.at)
  BY <1>1, <1>6, PageStepWalk
<1>9. Doing(op', mem')
  BY <1>1, <1>2, <1>7, <1>8, DoingNext
<1> QED
  BY <1>1, <1>6, <1>7, <1>9, PageStepInv

\* Nothing changes but the windows and the two pages they are by themselves.
Quiet(m, n) ==
    /\ \A y \in {base_dir} \cup Ram : n[y] = m[y]
    /\ \A j \in Entry \ Window : n[base_table][j] = m[base_table][j]

LEMMA QuietApart ==
  ASSUME NEW m, NEW n, Quiet(m, n), NEW F, NEW G \in SUBSET F, NEW D, Apart(m, F, D)
  PROVE  Apart(n, G, D)
<1>1. D \subseteq {base_dir} \cup Ram /\ base_dir \in D
  BY DEF Apart
<1>2. \A d \in D : n[d] = m[d]
  BY <1>1 DEF Quiet
<1>3. G \subseteq Ram /\ G \cap D = {} /\ \A d \in D : n[d][0] = base_table
  BY <1>2 DEF Apart
<1>4. \A d \in D : \A t \in Tables :
         n[d][t] # NULL => n[d][t] \in ({base_table} \cup Ram) \ (G \cup D)
  BY <1>2, ApartTable, SMTT(30)
<1>5. \A d, e \in D : \A t, u \in Tables :
         n[d][t] # NULL /\ n[d][t] = n[e][u]
             => t = u /\ (d = e \/ n[base_dir][t] = n[d][t])
  <2> SUFFICES ASSUME NEW d \in D, NEW e \in D, NEW t \in Tables, NEW u \in Tables,
                      n[d][t] # NULL, n[d][t] = n[e][u]
               PROVE  t = u /\ (d = e \/ n[base_dir][t] = n[d][t])
    BY SMTT(30)
  <2>1. n[d] = m[d] /\ n[e] = m[e] /\ n[base_dir] = m[base_dir]
    BY <1>1, <1>2
  <2>2. t = u /\ (d = e \/ m[base_dir][t] = m[d][t])
    BY <2>1, ApartShare, SMTT(30)
  <2> QED
    BY <2>1, <2>2
<1> QED
  BY <1>1, <1>3, <1>4, <1>5 DEF Apart

LEMMA QuietWalk ==
  ASSUME NEW m, NEW n, Quiet(m, n), NEW F, NEW D, Apart(m, F, D), NEW d \in D,
         NEW u \in Nat, tid(u) \in Tables, u \notin Window
  PROVE  Walk(n, d, u) = Walk(m, d, u)
<1> DEFINE t == tid(u)
           i == pid(u)
           g == m[d][t]
<1>1. t \in Tables /\ i \in Entry
  BY Offsets
<1>2. n[d][t] = g
  BY DEF Quiet, Apart
<1>3. CASE g = NULL
  BY <1>2, <1>3 DEF Walk
<1>4. CASE g # NULL
  <2>1. g \in {base_table} \cup Ram
    BY <1>1, <1>4, ApartTable, SMTT(30)
  <2>2. g = base_table => i \in Entry \ Window
    <3>1. ASSUME g = base_table PROVE t = 0
      <4>1. base_dir \in D /\ m[base_dir][0] = base_table /\ 0 \in Tables
        BY Numbers DEF Apart
      <4> QED
        BY <3>1, <4>1, <1>1, <1>4, ApartShare, SMTT(30)
    <3> QED
      BY <3>1, <1>1, FirstTableOnly
  <2> HIDE DEF g
  <2>3. n[g][i] = m[g][i]
    BY <2>1, <2>2 DEF Quiet
  <2> QED
    BY <2>3, <1>2, <1>4 DEF Walk, g
<1> QED
  BY <1>3, <1>4

\* A window is moved.
LEMMA PutQuiet ==
  ASSUME NEW m \in Memory, NEW n, NEW w \in Window, NEW f, IsPut(n, m, base_table, w, f)
  PROVE  /\ Quiet(m, n) /\ n \in Memory /\ n[base_table][w] = f
         /\ \A x \in Window : x # w => n[base_table][x] = m[base_table][x]
         /\ n[dir] = m[dir] /\ n[table] = m[table]
<1>1. base_dir # base_table /\ base_dir \in Frames /\ Ram \subseteq Frames
      /\ base_table \notin Ram /\ Window \subseteq Entry /\ dir \in Frames /\ table \in Frames
      /\ dir # base_table /\ table # base_table
  BY Numbers DEF Window
<1> QED
  BY <1>1 DEF Quiet, IsPut

LEMMA QueryInv ==
  ASSUME VmmIInv, paging, Query
  PROVE  VmmIInv' /\ (OnePage \/ UNCHANGED <<mem, dirs>>)
<1> DEFINE c == op.core
           d == op.page_dir
           t == tid(op.at)
           s == Used(Machine, c, dir)
           r == OpenTableOf(s, c, op.at)
<1>1. op # NULL /\ op.open /\ op.left > 0 /\ op.call.kind = "query"
      /\ UNCHANGED <<dirs, cr3, paging>>
  BY DEF Query, Round
<1>2. /\ op \in Op(dirs) /\ dirs \in SUBSET ({base_dir} \cup Ram) /\ Doing(op, mem)
      /\ c \in Cores /\ d \in dirs
  BY <1>1, RoundAt
<1>3. Facing(Machine, c, d) /\ Machine.mem = mem /\ Machine.free = free /\ Machine.tlb = tlb
  BY <1>1, RoundFacing
<1>4. Read(Machine, c, dir, t) = mem[d][t]
  BY <1>2, <1>3, FacingRead, SMTT(30)
<1>5. Ready(s, c) /\ Local(Machine, s, c) /\ s.mem = mem
  BY <1>2, <1>3, UsedIs DEF Facing, Window
<1>6. Read(s, c, dir, t) = mem[d][t]
  <2>1. Facing(s, c, d)
    BY <1>3, <1>5 DEF Facing, Local
  <2> HIDE DEF s, c, d, t
  <2> QED
    BY <2>1, <1>2, <1>5, FacingRead, SMTT(30)
<1>7. CASE mem[d][t] = NULL
  <2>1. Becomes(s) /\ op' = [op EXCEPT !.left = 0]
    BY <1>6, <1>7 DEF Query
  <2> HIDE DEF s, c, d
  <2>2. mem' = mem /\ free' = free /\ tlb' = s.tlb
    BY <2>1, <1>3, <1>5 DEF Becomes, Local
  <2>3. op' \in Op(dirs) /\ SameCall(op, op') /\ op'.left = 0 /\ op'.at = op.at /\ op'.ret = op.ret
    BY <2>1, <1>1, <1>2 DEF Op, SameCall
  <2>4. op.ret = NULL
    BY <1>1, <1>2, SMTT(30) DEF Doing
  <2>5. Walk(mem, d, op.at) = NULL
    BY <1>7 DEF Walk
  <2>6. Doing(op', mem')
    BY <2>2, <2>3, <2>4, <2>5, <1>1, <1>2, DoingQuery DEF d
  <2>7. tlb' \in [Cores -> [Window -> Value]]
    BY <2>2, <1>5, MachineParts DEF Ready
  <2>8. op' # NULL /\ op'.core = c /\ op'.open /\ op'.page_dir = d
    BY <2>3, <1>2, OpIs DEF SameCall, c, d
  <2>9. TypeOK'
    BY <2>2, <2>3, <2>7, <1>1 DEF VmmIInv, TypeOK
  <2>10. Windows'
    <3>1. ASSUME NEW e \in Cores, NEW w \in Window
          PROVE  tlb'[e][w] \in {NULL, IF e = c THEN mem[base_table][w] ELSE w}
      <4>1. CASE e = c
        BY <4>1, <2>2, <1>5 DEF Ready
      <4>2. CASE e # c
        <5>1. tlb'[e] = tlb[e]
          BY <4>2, <2>2, <1>3, <1>5 DEF Local
        <5> QED
          BY <4>2, <5>1 DEF VmmIInv, Windows, c
      <4> QED
        BY <4>1, <4>2
    <3> QED
      BY <3>1, <2>2, <2>8, <1>1 DEF VmmIInv, Windows, d
  <2> QED
    BY <2>2, <2>6, <2>9, <2>10, <1>1 DEF VmmIInv, Booting, Progress
<1>8. CASE mem[d][t] # NULL
  <2>1. ensure_table(Machine, c, t) = s
    BY <1>4, <1>8 DEF ensure_table
  <2>2. Ensured = r
    BY <2>1 DEF Ensured
  <2>3. HasTable
    BY <1>4, <1>8 DEF HasTable
  <2>4. PICK f : Placed(r, f)
    BY <2>2, <2>3, <1>1, EnsuredPlaced
  <2>5. Becomes(r) /\ op' = [op EXCEPT !.left = 0, !.ret = Read(r, c, table, pid(op.at))]
    BY <1>6, <1>8 DEF Query
  <2> HIDE DEF r, c, d, t
  <2> DEFINE x == r.mem[f][pid(op.at)]
  <2>6. Read(r, c, table, pid(op.at)) = x /\ x \in Value
    BY <2>4, <1>1, PlacedEntry DEF c
  <2>7. PageStep(f, x)
    BY <2>4, <2>5, <1>1, PlacedStays
  <2> HIDE DEF x
  <2>8. op' \in Op(dirs) /\ SameCall(op, op') /\ op'.left = 0 /\ op'.at = op.at /\ op'.ret = x
    BY <2>5, <2>6, <1>1, <1>2 DEF Op, SameCall
  <2>9. Walk(mem', op.page_dir, op.at) = x
    BY <2>7, <1>1, PageStepWalk
  <2>10. Doing(op', mem')
    BY <2>8, <2>9, <1>1, <1>2, DoingQuery
  <2> QED
    BY <2>7, <2>8, <2>10, <1>1, PageStepInv
<1> QED
  BY <1>7, <1>8

-----------------------------------------------------------------------------
(* The other actions.                                                      *)

\* A call that has not begun has passed no page.
LEMMA DoingBegin ==
  ASSUME NEW D \in SUBSET ({base_dir} \cup Ram), NEW q \in Op(D), q.call \in Calls,
         q.left = q.call.count, q.at = q.call.virt, q.phys = q.call.phys,
         q.ret = IF q.call.kind = "query" THEN NULL ELSE 0, NEW n
  PROVE  Doing(q, n)
<1> DEFINE r == q.call
<1>1. r.virt \in Nat /\ r.phys \in Nat /\ r.count \in Nat /\ (r.kind = "query" => r.count = 1)
  BY CallIs
<1>2. r.virt .. q.at - 1 = {} /\ q.at = r.virt + (r.count - q.left)
      /\ q.phys = r.phys + (q.at - r.virt) /\ q.left <= r.count /\ q.at >= r.virt
  BY <1>1, SMTT(30)
<1>3. r.kind = "query" => q.left # 0
  BY <1>1, SMTT(30)
<1> HIDE DEF r
<1> QED
  BY <1>1, <1>2, <1>3 DEF Doing, r

LEMMA DoingOpen ==
  ASSUME NEW D \in SUBSET ({base_dir} \cup Ram), NEW o \in Op(D), NEW m, Doing(o, m), ~o.open,
         NEW q \in Op(D), q = [o EXCEPT !.open = TRUE], NEW n
  PROVE  Doing(q, n)
<1>1. q.call = o.call /\ q.left = o.left /\ q.at = o.at /\ q.phys = o.phys /\ q.ret = o.ret
  BY DEF Op
<1>2. o.call \in Calls /\ o.left = o.call.count /\ o.at = o.call.virt
  BY DEF Doing
<1>3. /\ o.call.virt \in Nat /\ o.call.phys \in Nat /\ o.call.count \in Nat
      /\ o.call.kind \in {"map", "remap", "unmap", "query"}
      /\ o.call.kind = "query" => o.call.count = 1
  BY <1>2, CallIs
<1>4. CASE o.call.kind = "query"
  <2>1. o.ret = NULL
    BY <1>2, <1>3, <1>4, SMTT(30) DEF Doing
  <2>2. /\ q.call.virt .. q.at - 1 = {} /\ q.left <= q.call.count /\ q.at >= q.call.virt
        /\ q.left # 0
    BY <1>1, <1>2, <1>3, <1>4, SMTT(30)
  <2> QED
    BY <1>1, <1>2, <1>4, <2>1, <2>2 DEF Doing
<1>5. CASE o.call.kind = "unmap"
  <2>1. /\ q.call.virt .. q.at - 1 = {} /\ q.left <= q.call.count /\ q.at >= q.call.virt
        /\ q.at = q.call.virt + (q.call.count - q.left)
    BY <1>1, <1>2, <1>3, SMTT(30)
  <2> QED
    BY <1>1, <1>2, <1>5, <2>1 DEF Doing
<1>6. CASE o.call.kind \in {"map", "remap"}
  <2>1. o.ret = 0 /\ o.phys = o.call.phys + (o.at - o.call.virt)
    BY <1>6 DEF Doing
  <2>2. /\ q.call.virt .. q.at - 1 = {} /\ q.left <= q.call.count /\ q.at >= q.call.virt
        /\ q.at = q.call.virt + (q.call.count - q.left)
        /\ q.phys = q.call.phys + (q.at - q.call.virt)
    BY <1>1, <1>2, <1>3, <2>1, SMTT(30)
  <2> QED
    BY <1>1, <1>2, <1>6, <2>1, <2>2 DEF Doing
<1> QED
  BY <1>3, <1>4, <1>5, <1>6

LEMMA OpenDirIs ==
  ASSUME VmmIInv, OpenDir
  PROVE  /\ op # NULL /\ ~op.open /\ op \in Op(dirs) /\ op.core \in Cores /\ op.page_dir \in dirs
         /\ dirs \in SUBSET ({base_dir} \cup Ram)
         /\ op' = [op EXCEPT !.open = TRUE] /\ op' \in Op(dirs)
         /\ UNCHANGED <<dirs, cr3, paging>>
         /\ IsPut(mem', mem, base_table, dir, op.page_dir) /\ mem \in Memory /\ free' = free
         /\ tlb' \in [Cores -> [Window -> Value]]
         /\ \A w \in Window : tlb'[op.core][w] \in {NULL, mem'[base_table][w]}
         /\ \A e \in Cores : e # op.core => tlb'[e] = tlb[e]
         /\ \A e \in Cores, w \in Window : tlb'[e][w] \in {NULL, tlb[e][w]}
<1> DEFINE c == op.core
           d == op.page_dir
           r == Open(Machine, c, dir, d)
<1>1. op # NULL /\ ~op.open /\ Becomes(r) /\ op' = [op EXCEPT !.open = TRUE]
      /\ UNCHANGED <<dirs, cr3, paging>>
  BY DEF OpenDir
<1>2. op \in Op(dirs) /\ dirs \in SUBSET ({base_dir} \cup Ram) /\ mem \in Memory
      /\ Apart(mem, free, dirs)
  BY <1>1 DEF VmmIInv, TypeOK, Apart
<1>3. c \in Cores /\ d \in dirs
  BY <1>2, OpIs
<1>4. op' \in Op(dirs)
  BY <1>1, <1>2 DEF Op
<1>5. /\ Ready(Machine, c) /\ Machine.mem = mem /\ Machine.free = free /\ Machine.tlb = tlb
      /\ cr3[c] \in Frames \ {base_table}
  BY <1>3, MachineReady
<1>6. dir \in Window /\ d \in Nat /\ d \in Value /\ base_table \in Frames /\ dir \in Entry
  BY <1>2, <1>3, ApartDir, Numbers, SMTT(30) DEF Window, Value
<1> HIDE DEF c, d
<1>7. /\ Ready(r, c) /\ Local(Machine, r, c)
      /\ r.mem = Put(mem, base_table, dir, d)
      /\ \A e \in Cores, x \in Window : r.tlb[e][x] \in {NULL, tlb[e][x]}
  BY <1>3, <1>5, <1>6, OpenIs, SMTT(30)
<1> HIDE DEF r
<1>8. IsPut(r.mem, mem, base_table, dir, d)
  BY <1>2, <1>6, <1>7, PutIs
<1>9. mem' = r.mem /\ free' = r.free /\ tlb' = r.tlb
  BY <1>1 DEF Becomes
<1>10. r.tlb \in [Cores -> [Window -> Value]]
  BY <1>7, MachineParts DEF Ready
<1>11. /\ free' = free
       /\ \A w \in Window : tlb'[c][w] \in {NULL, mem'[base_table][w]}
       /\ \A e \in Cores : e # c => tlb'[e] = tlb[e]
  BY <1>5, <1>7, <1>9 DEF Ready, Local
<1> QED
  BY <1>1, <1>2, <1>3, <1>4, <1>7, <1>8, <1>9, <1>10, <1>11 DEF c, d

LEMMA OpenDirInv ==
  ASSUME VmmIInv, OpenDir
  PROVE  VmmIInv'
<1>1. /\ op # NULL /\ ~op.open /\ op \in Op(dirs) /\ op.core \in Cores /\ op.page_dir \in dirs
      /\ dirs \in SUBSET ({base_dir} \cup Ram)
      /\ op' = [op EXCEPT !.open = TRUE] /\ op' \in Op(dirs)
      /\ UNCHANGED <<dirs, cr3, paging>>
  BY OpenDirIs
<1>2. /\ IsPut(mem', mem, base_table, dir, op.page_dir) /\ mem \in Memory /\ free' = free
      /\ tlb' \in [Cores -> [Window -> Value]]
      /\ \A w \in Window : tlb'[op.core][w] \in {NULL, mem'[base_table][w]}
      /\ \A e \in Cores : e # op.core => tlb'[e] = tlb[e]
      /\ \A e \in Cores, w \in Window : tlb'[e][w] \in {NULL, tlb[e][w]}
  BY OpenDirIs
<1>3. dir \in Window /\ table \in Window /\ table # dir /\ table # NULL
  BY Numbers DEF Window
<1>4. /\ Quiet(mem, mem') /\ mem' \in Memory /\ mem'[base_table][dir] = op.page_dir
      /\ mem'[base_table][table] = mem[base_table][table]
      /\ mem'[dir] = mem[dir] /\ mem'[table] = mem[table]
  BY <1>2, <1>3, PutQuiet, SMTT(30)
<1>5. /\ op' # NULL /\ op'.open /\ op'.core = op.core /\ op'.page_dir = op.page_dir
      /\ op'.call = op.call /\ op'.ret = op.ret /\ op'.left = op.left /\ op'.at = op.at
  <2>1. op' # NULL
    BY <1>1, OpIs
  <2> QED
    BY <2>1, <1>1 DEF Op
<1>6. TypeOK'
  BY <1>1, <1>2, <1>4 DEF VmmIInv, TypeOK
<1>7. Apart(mem', free', dirs')
  <2>1. Apart(mem, free, dirs) /\ free \in SUBSET free
    BY DEF VmmIInv
  <2> QED
    BY <2>1, <1>1, <1>2, <1>4, QuietApart
<1>8. Windows'
  <2>1. mem[base_table][table] = table
    BY <1>1, <1>3 DEF VmmIInv, Windows
  <2>2. ASSUME NEW e \in Cores, NEW w \in Window
        PROVE  tlb'[e][w] \in {NULL, IF e = op.core THEN mem'[base_table][w] ELSE w}
    <3>1. CASE e = op.core
      BY <3>1, <1>2
    <3>2. CASE e # op.core
      <4>1. tlb[e][w] \in {NULL, w}
        BY <3>2 DEF VmmIInv, Windows
      <4> QED
        BY <3>2, <4>1, <1>2
    <3> QED
      BY <3>1, <3>2
  <2> QED
    BY <2>1, <2>2, <1>3, <1>4, <1>5 DEF Windows
<1>9. Booting'
  <2> SUFFICES ASSUME ~paging PROVE Booting'
    BY <1>1 DEF Booting
  <2>1. /\ dirs = {base_dir}
        /\ \A i \in Entry \ Window : mem[base_table][i] = i
        /\ \A c \in Cores, w \in Window : tlb[c][w] = NULL
        /\ op.call = Kernel /\ op.ret = 0 /\ op.left <= 4 /\ op.at = 5 - op.left
        /\ mem[dir][0] = NULL \/ \A i \in op.at .. N - 1 : mem[table][i] = NULL
    BY <1>1 DEF VmmIInv, Booting
  <2>2. \A i \in Entry \ Window : mem'[base_table][i] = i
    BY <2>1, <1>4 DEF Quiet
  <2>3. \A c \in Cores, w \in Window : tlb'[c][w] = NULL
    BY <2>1, <1>2, SMTT(30)
  <2> QED
    BY <2>1, <2>2, <2>3, <1>1, <1>4, <1>5, SMTT(30) DEF Booting
<1>10. Progress'
  <2> SUFFICES ASSUME paging PROVE Doing(op', mem')
    BY <1>1 DEF Progress
  <2>1. Doing(op, mem)
    BY <1>1 DEF VmmIInv, Progress
  <2> QED
    BY <2>1, <1>1, DoingOpen
<1> QED
  BY <1>6, <1>7, <1>8, <1>9, <1>10 DEF VmmIInv

LEMMA ReturnIs ==
  ASSUME VmmIInv, Return
  PROVE  /\ op' = NULL /\ UNCHANGED <<dirs, cr3, paging>>
         /\ Quiet(mem, mem') /\ mem' \in Memory /\ free' = free
         /\ \A w \in Window : mem'[base_table][w] = w
         /\ tlb' \in [Cores -> [Window -> Value]]
         /\ \A e \in Cores, w \in Window : tlb'[e][w] \in {NULL, w}
         /\ ~paging => \A e \in Cores, w \in Window : tlb'[e][w] = NULL
<1> DEFINE c == op.core
           s == Open(Machine, c, table, table)
           r == Open(s, c, dir, dir)
<1>1. op # NULL /\ op.open /\ Becomes(r) /\ op' = NULL /\ UNCHANGED <<dirs, cr3, paging>>
  BY DEF Return, Close
<1>2. op \in Op(dirs) /\ dirs \in SUBSET ({base_dir} \cup Ram) /\ mem \in Memory
  BY <1>1 DEF VmmIInv, TypeOK, Apart
<1>3. c \in Cores
  BY <1>2, OpIs
<1>4. /\ Ready(Machine, c) /\ Machine.mem = mem /\ Machine.free = free /\ Machine.tlb = tlb
      /\ cr3[c] \in Frames \ {base_table}
  BY <1>3, MachineReady
<1>5. /\ dir \in Window /\ table \in Window /\ dir \in Nat /\ table \in Nat /\ dir # table
      /\ dir \in Value /\ table \in Value /\ base_table \in Frames
      /\ dir \in Entry /\ table \in Entry
  BY Numbers DEF Window, Value
<1>6. \A e \in Cores : e # c => \A w \in Window : tlb[e][w] \in {NULL, w}
  BY DEF VmmIInv, Windows
<1>7. ~paging => \A e \in Cores, w \in Window : tlb[e][w] = NULL
  BY DEF VmmIInv, Booting
<1> HIDE DEF c
<1>8. /\ Ready(s, c) /\ Local(Machine, s, c) /\ s.mem = Put(mem, base_table, table, table)
      /\ \A e \in Cores, x \in Window : s.tlb[e][x] \in {NULL, tlb[e][x]}
  BY <1>3, <1>4, <1>5, OpenIs, SMTT(30)
<1>9. IsPut(s.mem, mem, base_table, table, table)
  BY <1>2, <1>5, <1>8, PutIs
<1> HIDE DEF s
<1>10. s.mem \in Memory
  BY <1>9 DEF IsPut
<1>11. /\ Ready(r, c) /\ Local(s, r, c) /\ r.mem = Put(s.mem, base_table, dir, dir)
       /\ \A e \in Cores, x \in Window : r.tlb[e][x] \in {NULL, s.tlb[e][x]}
  BY <1>3, <1>4, <1>5, <1>8, OpenIs, SMTT(30)
<1> HIDE DEF r
<1>12. IsPut(r.mem, s.mem, base_table, dir, dir)
  BY <1>5, <1>10, <1>11, PutIs
<1>13. mem' = r.mem /\ free' = r.free /\ tlb' = r.tlb
  BY <1>1 DEF Becomes
<1>14. /\ Quiet(mem, s.mem) /\ s.mem[base_table][table] = table
  BY <1>2, <1>5, <1>9, PutQuiet, SMTT(30)
<1>15. /\ Quiet(s.mem, r.mem) /\ r.mem \in Memory /\ r.mem[base_table][dir] = dir
       /\ r.mem[base_table][table] = s.mem[base_table][table]
  BY <1>5, <1>10, <1>12, PutQuiet, SMTT(30)
<1>16. Quiet(mem, mem') /\ mem' \in Memory /\ \A w \in Window : mem'[base_table][w] = w
  BY <1>13, <1>14, <1>15 DEF Quiet, Window
<1>17. free' = free /\ tlb' \in [Cores -> [Window -> Value]]
  BY <1>4, <1>8, <1>11, <1>13, MachineParts DEF Ready, Local
<1>18. ASSUME NEW e \in Cores, NEW w \in Window PROVE tlb'[e][w] \in {NULL, w}
  <2>1. CASE e = c
    BY <2>1, <1>11, <1>13, <1>16 DEF Ready
  <2>2. CASE e # c
    BY <2>2, <1>6, <1>8, <1>11, <1>13, SMTT(30)
  <2> QED
    BY <2>1, <2>2
<1>19. ~paging => \A e \in Cores, w \in Window : tlb'[e][w] = NULL
  BY <1>7, <1>8, <1>11, <1>13, SMTT(30)
<1> QED
  BY <1>1, <1>16, <1>17, <1>18, <1>19

LEMMA ReturnInv ==
  ASSUME VmmIInv, Return
  PROVE  VmmIInv'
<1>1. /\ op' = NULL /\ UNCHANGED <<dirs, cr3, paging>>
      /\ Quiet(mem, mem') /\ mem' \in Memory /\ free' = free
      /\ \A w \in Window : mem'[base_table][w] = w
      /\ tlb' \in [Cores -> [Window -> Value]]
      /\ \A e \in Cores, w \in Window : tlb'[e][w] \in {NULL, w}
      /\ ~paging => \A e \in Cores, w \in Window : tlb'[e][w] = NULL
  BY ReturnIs
<1>2. table \in Window /\ table # NULL
  BY Numbers DEF Window
<1>3. TypeOK'
  BY <1>1 DEF VmmIInv, TypeOK
<1>4. Apart(mem', free', dirs')
  <2>1. Apart(mem, free, dirs) /\ free \in SUBSET free
    BY SMTT(30) DEF VmmIInv
  <2> QED
    BY <2>1, <1>1, QuietApart
<1>5. Windows'
  BY <1>1, <1>2 DEF Windows
<1>6. Booting'
  BY <1>1 DEF VmmIInv, Booting, Quiet
<1> QED
  BY <1>1, <1>3, <1>4, <1>5, <1>6 DEF VmmIInv, Progress

LEMMA CallInv ==
  ASSUME VmmIInv, NEW c \in Cores, NEW d \in dirs, NEW r \in Calls, Call(c, d, r)
  PROVE  VmmIInv'
<1>1. /\ paging /\ op = NULL
      /\ op' = [core |-> c, page_dir |-> d, call |-> r, left |-> r.count, at |-> r.virt,
                phys |-> r.phys, ret |-> IF r.kind = "query" THEN NULL ELSE 0, open |-> FALSE]
      /\ UNCHANGED <<mem, free, dirs, cr3, tlb, paging>>
  BY DEF Call
<1>2. r.virt \in Nat /\ r.phys \in Nat /\ r.count \in Nat
  BY CallIs
<1>3. dirs \in SUBSET ({base_dir} \cup Ram)
  BY DEF VmmIInv, Apart
<1>4. op' \in Op(dirs)
  BY <1>1, <1>2 DEF Op, Value
<1>5. op' # NULL /\ op'.core = c /\ ~op'.open
  BY <1>1, <1>3, <1>4, OpIs
<1>6. Doing(op', mem')
  BY <1>1, <1>3, <1>4, DoingBegin
<1>7. TypeOK'
  BY <1>1, <1>4 DEF VmmIInv, TypeOK
<1>8. Windows'
  BY <1>1, <1>5 DEF VmmIInv, Windows
<1>9. Apart(mem, free, dirs)' /\ Booting'
  BY <1>1 DEF VmmIInv, Booting
<1> QED
  BY <1>6, <1>7, <1>8, <1>9 DEF VmmIInv, Progress

LEMMA SetInv ==
  ASSUME VmmIInv, NEW c \in Cores, NEW d \in dirs, vmm_set_cr3(c, d)
  PROVE  VmmIInv'
<1>1. /\ paging
      /\ op # NULL => op.core # c
      /\ cr3' = [cr3 EXCEPT ![c] = d]
      /\ tlb' = [tlb EXCEPT ![c] = [w \in {dir, table} |-> NULL]]
      /\ UNCHANGED <<mem, free, dirs, paging, op>>
  BY DEF vmm_set_cr3
<1>2. TypeOK'
  BY <1>1 DEF VmmIInv, TypeOK, Window, Value
<1>3. /\ \A w \in Window : tlb'[c][w] = NULL
      /\ \A e \in Cores : e # c => tlb'[e] = tlb[e]
  BY <1>1 DEF VmmIInv, TypeOK, Window
<1>4. Windows'
  <2>1. \A e \in Cores, w \in Window :
          tlb'[e][w] \in {NULL, IF op # NULL /\ op.core = e THEN mem[base_table][w] ELSE w}
    BY <1>3 DEF VmmIInv, Windows
  <2> QED
    BY <2>1, <1>1 DEF VmmIInv, Windows
<1> QED
  <2>1. Apart(mem, free, dirs)' /\ Booting'
    BY <1>1 DEF VmmIInv, Booting
  <2>2. Progress'
    BY <1>1 DEF VmmIInv, Progress
  <2> QED
    BY <2>1, <2>2, <1>2, <1>4 DEF VmmIInv

LEMMA EnableInv ==
  ASSUME VmmIInv, vmm_enable_paging
  PROVE  VmmIInv'
<1>1. op = NULL /\ paging' = TRUE /\ UNCHANGED <<mem, free, dirs, cr3, tlb, op>>
  BY DEF vmm_enable_paging
<1> QED
  BY <1>1 DEF VmmIInv, TypeOK, Windows, Booting, Progress

LEMMA StutterInv ==
  ASSUME VmmIInv, UNCHANGED vars
  PROVE  VmmIInv'
BY SMTT(30) DEF VmmIInv, TypeOK, Windows, Booting, Progress, vars

\* vmm_fork_kernel_space: the new directory is a copy of base_dir, and the
\* window is back where it was.
LEMMA ForkIs ==
  ASSUME VmmIInv, NEW c \in Cores, vmm_fork_kernel_space(c)
  PROVE  /\ paging /\ op = NULL /\ UNCHANGED <<cr3, paging, op>>
         /\ Min(free) \in free /\ dirs' = dirs \cup {Min(free)} /\ free' = free \ {Min(free)}
         /\ mem' \in Memory /\ mem'[Min(free)] = mem[base_dir]
         /\ \A y \in Frames \ {Min(free), base_table} : mem'[y] = mem[y]
         /\ \A j \in Entry : mem'[base_table][j] = mem[base_table][j]
         /\ tlb' \in [Cores -> [Window -> Value]]
         /\ \A e \in Cores, w \in Window : tlb'[e][w] \in {NULL, w}
<1> DEFINE new == Min(free)
           s0 == [Machine EXCEPT !.free = @ \ {new}]
           s1 == Open(s0, c, dir, new)
           s == Zero(s1, c, dir)
           copied == [s EXCEPT !.mem[Seen(s, c, dir)] =
                         [i \in Entry |-> IF mem[base_dir][i] # NULL THEN mem[base_dir][i]
                                                                      ELSE @[i]]]
           r == Open(copied, c, dir, dir)
<1>1. /\ paging /\ op = NULL /\ free # {} /\ UNCHANGED <<cr3, paging, op>>
      /\ Becomes(r) /\ dirs' = dirs \cup {new}
  BY DEF vmm_fork_kernel_space, Close
<1>2. mem \in Memory /\ Apart(mem, free, dirs) /\ free \subseteq Ram /\ base_dir \in dirs
  BY DEF VmmIInv, TypeOK, Apart
<1>3. new \in free /\ new \in Ram
  BY <1>1, <1>2, LowestFrame, Numbers
<1>4. /\ Ready(Machine, c) /\ Machine.mem = mem /\ Machine.free = free /\ Machine.tlb = tlb
      /\ cr3[c] \in Frames \ {base_table} /\ cr3[c] \notin free
  BY <1>1, MachineReady
<1>5. /\ \A w \in Window : mem[base_table][w] = w
      /\ \A e \in Cores, w \in Window : tlb[e][w] \in {NULL, w}
  BY <1>1 DEF VmmIInv, Windows
<1>6. /\ dir \in Window /\ dir \in Nat /\ dir \in Value /\ base_table \in Frames /\ dir \in Entry
      /\ new \in Nat /\ new \in Frames /\ new \in Value /\ new # base_table
      /\ base_dir \in Frames /\ base_dir # base_table /\ 0 \in Entry /\ Window \subseteq Entry
  BY <1>3, Numbers DEF Window, Value
<1> HIDE DEF new
<1>7. new # base_dir /\ new # cr3[c]
  BY <1>2, <1>3, <1>4 DEF Apart
<1>8. Ready(s0, c) /\ s0.free = free \ {new} /\ s0.mem = mem /\ s0.tlb = tlb
  <2>1. s0 = [mem |-> mem, free |-> free \ {new}, tlb |-> tlb]
    BY SMTT(30) DEF Machine
  <2>2. s0 \in Machines
    BY <2>1, <1>2, <1>4, MachineParts DEF Ready, Machines
  <2> QED
    BY <2>1, <2>2, <1>4 DEF Ready
<1> HIDE DEF s0
<1>9. Ready(s1, c) /\ Local(s0, s1, c) /\ s1.mem = Put(mem, base_table, dir, new)
  BY <1>4, <1>6, <1>8, OpenIs, SMTT(30)
<1> HIDE DEF s1
<1>10. IsPut(s1.mem, mem, base_table, dir, new)
  BY <1>2, <1>6, <1>9, PutIs
<1>11. s1.mem \in Memory /\ s1.mem[base_table][dir] = new
  BY <1>10 DEF IsPut
<1>12. Ready(s, c) /\ Local(s1, s, c) /\ s.mem = Clear(s1.mem, new)
  BY <1>1, <1>4, <1>6, <1>7, <1>9, <1>11, ZeroIs
<1> HIDE DEF s
<1>13. IsClear(s.mem, s1.mem, new)
  BY <1>6, <1>11, <1>12, ClearIs
<1>14. s.mem \in Memory /\ s.mem[base_table][dir] = new /\ s.mem[new] = Absent
  BY <1>6, <1>11, <1>13 DEF IsClear
<1>15. Seen(s, c, dir) = new
  BY <1>1, <1>6, <1>12, <1>14, SeenIs
<1> DEFINE n == [s.mem EXCEPT ![new] = mem[base_dir]]
<1>16. copied = [mem |-> n, free |-> s.free, tlb |-> s.tlb]
  <2>1. [i \in Entry |-> IF mem[base_dir][i] # NULL THEN mem[base_dir][i] ELSE s.mem[new][i]]
          = mem[base_dir]
    BY <1>2, <1>6, <1>14 DEF Memory, Absent
  <2>2. s = [mem |-> s.mem, free |-> s.free, tlb |-> s.tlb]
    BY <1>12, MachineParts DEF Ready
  <2>3. copied = [s EXCEPT !.mem[new] = [i \in Entry |->
                     IF mem[base_dir][i] # NULL THEN mem[base_dir][i] ELSE s.mem[new][i]]]
    BY <1>15
  <2>4. copied = [s EXCEPT !.mem[new] = mem[base_dir]]
    BY <2>1, <2>3
  <2> HIDE DEF copied
  <2> QED
    BY <2>2, <2>4
<1> HIDE DEF copied
<1>17. /\ n \in Memory /\ n[new] = mem[base_dir]
       /\ \A y \in Frames : y # new => n[y] = s.mem[y]
  BY <1>2, <1>6, <1>14 DEF Memory
<1> HIDE DEF n
<1>18. n[cr3[c]][0] = base_table /\ \A w \in Window : n[base_table][w] = s.mem[base_table][w]
  BY <1>4, <1>6, <1>7, <1>12, <1>17 DEF Ready
<1>19. Ready(copied, c) /\ Local(s, copied, c) /\ copied.mem = n
  BY <1>12, <1>16, <1>17, <1>18, ReadyAgain
<1>20. /\ Ready(r, c) /\ Local(copied, r, c) /\ r.mem = Put(n, base_table, dir, dir)
  BY <1>4, <1>6, <1>19, OpenIs, SMTT(30)
<1> HIDE DEF r
<1>21. IsPut(r.mem, n, base_table, dir, dir)
  BY <1>6, <1>17, <1>20, PutIs
<1>22. mem' = r.mem /\ free' = r.free /\ tlb' = r.tlb
  BY <1>1 DEF Becomes
<1>23. free' = free \ {new} /\ tlb' \in [Cores -> [Window -> Value]]
  BY <1>8, <1>9, <1>12, <1>19, <1>20, <1>22, MachineParts DEF Ready, Local
<1>24. /\ mem' \in Memory /\ mem'[new] = mem[base_dir]
       /\ \A y \in Frames \ {new, base_table} : mem'[y] = mem[y]
  <2>1. mem' \in Memory /\ \A y \in Frames : y # base_table => mem'[y] = n[y]
    BY <1>21, <1>22 DEF IsPut
  <2>2. \A y \in Frames : y # new => s.mem[y] = s1.mem[y]
    BY <1>13 DEF IsClear
  <2>3. \A y \in Frames : y # base_table => s1.mem[y] = mem[y]
    BY <1>10 DEF IsPut
  <2> QED
    BY <2>1, <2>2, <2>3, <1>6, <1>17
<1>25. ASSUME NEW j \in Entry PROVE mem'[base_table][j] = mem[base_table][j]
  <2>1. n[base_table] = s1.mem[base_table]
    BY <1>6, <1>13, <1>17 DEF IsClear
  <2>2. CASE j = dir
    BY <2>2, <1>5, <1>6, <1>21, <1>22 DEF IsPut
  <2>3. CASE j # dir
    BY <2>1, <2>3, <1>10, <1>21, <1>22 DEF IsPut
  <2> QED
    BY <2>2, <2>3
<1>26. ASSUME NEW e \in Cores, NEW w \in Window PROVE tlb'[e][w] \in {NULL, w}
  <2>1. CASE e = c
    <3>1. tlb'[e][w] \in {NULL, mem'[base_table][w]}
      BY <2>1, <1>20, <1>22 DEF Ready
    <3> QED
      BY <3>1, <1>5, <1>6, <1>25
  <2>2. CASE e # c
    <3>1. tlb'[e] = tlb[e]
      BY <2>2, <1>8, <1>9, <1>12, <1>19, <1>20, <1>22 DEF Local
    <3> QED
      BY <3>1, <1>5
  <2> QED
    BY <2>1, <2>2
<1> QED
  BY <1>1, <1>3, <1>23, <1>24, <1>25, <1>26 DEF new

LEMMA ForkApart ==
  ASSUME NEW m, NEW n, NEW F, NEW D, NEW a \in F, Apart(m, F, D),
         n[a] = m[base_dir], \A y \in D : n[y] = m[y]
  PROVE  Apart(n, F \ {a}, D \cup {a})
<1>1. /\ F \subseteq Ram /\ D \subseteq {base_dir} \cup Ram /\ base_dir \in D
      /\ F \cap D = {}
  BY DEF Apart
<1> DEFINE E == D \cup {a}
           of(y) == IF y = a THEN base_dir ELSE y
<1>2. \A y \in E : of(y) \in D /\ n[y] = m[of(y)]
  BY <1>1
<1>3. \A y \in E : n[y][0] = base_table
  BY <1>2, SMTT(30) DEF Apart
<1>4. ASSUME NEW y \in E, NEW t \in Tables, n[y][t] # NULL
      PROVE  n[y][t] \in ({base_table} \cup Ram) \ ((F \ {a}) \cup E)
  <2>1. n[y] = m[of(y)] /\ of(y) \in D
    BY <1>2
  <2> HIDE DEF of
  <2>2. m[of(y)][t] \in {base_table} \cup Ram /\ m[of(y)][t] \notin F /\ m[of(y)][t] \notin D
    BY <2>1, <1>4, ApartTable, SMTT(30)
  <2> QED
    BY <2>1, <2>2
<1>5. ASSUME NEW d \in E, NEW e \in E, NEW t \in Tables, NEW u \in Tables,
             n[d][t] # NULL, n[d][t] = n[e][u]
      PROVE  t = u /\ (d = e \/ n[base_dir][t] = n[d][t])
  <2>1. n[d] = m[of(d)] /\ of(d) \in D /\ n[e] = m[of(e)] /\ of(e) \in D
        /\ n[base_dir] = m[base_dir]
    BY <1>1, <1>2
  <2>2. of(d) = of(e) => d = e \/ of(d) = base_dir
    OBVIOUS
  <2> HIDE DEF of
  <2>3. t = u /\ (of(d) = of(e) \/ m[base_dir][t] = m[of(d)][t])
    BY <2>1, <1>5, ApartShare, SMTT(30)
  <2> QED
    BY <2>1, <2>2, <2>3
<1> HIDE DEF of
<1>6. \A y \in E : \A t \in Tables :
         n[y][t] # NULL => n[y][t] \in ({base_table} \cup Ram) \ ((F \ {a}) \cup E)
  BY <1>4
<1>7. \A d, e \in E : \A t, u \in Tables :
         n[d][t] # NULL /\ n[d][t] = n[e][u]
             => t = u /\ (d = e \/ n[base_dir][t] = n[d][t])
  BY <1>5, SMTT(30)
<1>8. /\ F \ {a} \subseteq Ram /\ E \subseteq {base_dir} \cup Ram /\ base_dir \in E
      /\ (F \ {a}) \cap E = {}
  BY <1>1
<1> QED
  BY <1>3, <1>6, <1>7, <1>8 DEF Apart

LEMMA ForkInv ==
  ASSUME VmmIInv, NEW c \in Cores, vmm_fork_kernel_space(c)
  PROVE  VmmIInv'
<1> DEFINE new == Min(free)
<1>1. /\ paging /\ op = NULL /\ UNCHANGED <<cr3, paging, op>>
      /\ new \in free /\ dirs' = dirs \cup {new} /\ free' = free \ {new}
      /\ mem' \in Memory /\ mem'[new] = mem[base_dir]
      /\ \A y \in Frames \ {new, base_table} : mem'[y] = mem[y]
      /\ \A j \in Entry : mem'[base_table][j] = mem[base_table][j]
      /\ tlb' \in [Cores -> [Window -> Value]]
      /\ \A e \in Cores, w \in Window : tlb'[e][w] \in {NULL, w}
  BY ForkIs
<1> HIDE DEF new
<1>2. Apart(mem, free, dirs)
  BY DEF VmmIInv
<1>3. \A y \in dirs : mem'[y] = mem[y]
  BY <1>1, <1>2, ApartDir, SMTT(30)
<1>4. Apart(mem', free', dirs')
  BY <1>1, <1>2, <1>3, ForkApart
<1>5. TypeOK'
  BY <1>1 DEF VmmIInv, TypeOK
<1>6. Windows'
  <2>1. Window \subseteq Entry
    BY Numbers DEF Window
  <2>2. \A w \in Window : mem'[base_table][w] = w
    BY <2>1, <1>1 DEF VmmIInv, Windows
  <2> QED
    BY <2>2, <1>1, Numbers DEF Windows, Window
<1> QED
  BY <1>1, <1>4, <1>5, <1>6 DEF VmmIInv, Booting, Progress

-----------------------------------------------------------------------------
(* The mapping of the kernel, before paging is on.                         *)

\* An access goes to the page of the window itself.
LEMMA BootUsed ==
  ASSUME ~paging, NEW s, NEW c, NEW w
  PROVE  Used(s, c, w) = s
BY DEF Used

LEMMA BootRead ==
  ASSUME ~paging, NEW s, NEW c, NEW w, NEW i
  PROVE  Read(s, c, w, i) = s.mem[w][i]
BY DEF Read, Seen

LEMMA BootWrite ==
  ASSUME ~paging, NEW s, NEW c, NEW w, NEW i, NEW f
  PROVE  Write(s, c, w, i, f) = [s EXCEPT !.mem[w][i] = f]
BY DEF Write, Used, Seen

LEMMA BootZero ==
  ASSUME ~paging, NEW s, NEW c, NEW w
  PROVE  Zero(s, c, w) = [s EXCEPT !.mem[w] = Absent]
BY DEF Zero, Used, Seen

\* s is a memory that the mapping has left with the base tables and the
\* translations as they were.
Untouched(s) ==
    /\ s \in Machines
    /\ Quiet(mem, s.mem) /\ s.free \subseteq free
    /\ s.mem[base_table][dir] = mem[base_table][dir]
    /\ s.mem[base_table][table] # NULL
    /\ \A e \in Cores, w \in Window : s.tlb[e][w] = NULL

LEMMA UntouchedOpen ==
  ASSUME NEW s, Untouched(s), NEW c \in Cores, NEW f \in Nat
  PROVE  LET r == Open(s, c, table, f) IN
         Untouched(r) /\ r.mem[dir] = s.mem[dir] /\ r.mem[table] = s.mem[table]
         /\ r.free = s.free
<1> DEFINE m == s.mem
           n == Put(m, base_table, table, f)
           T == s.tlb
           U == [T EXCEPT ![c][table] = NULL]
           r == [mem |-> n, free |-> s.free, tlb |-> U]
<1>1. m \in Memory /\ T \in [Cores -> [Window -> Value]] /\ s.free \subseteq Ram
      /\ s = [mem |-> m, free |-> s.free, tlb |-> T]
  BY MachineParts DEF Untouched
<1>2. CASE m[base_table][table] = f
  <2>1. Open(s, c, table, f) = s
    BY <1>2 DEF Open
  <2> QED
    BY <2>1
<1>3. CASE m[base_table][table] # f
  <2>1. Open(s, c, table, f) = r
    BY <1>1, <1>3 DEF Open, Put
  <2>2. /\ f \in Value /\ base_table \in Frames /\ table \in Entry /\ table \in Window
        /\ f # NULL /\ dir \in Window /\ dir # table
    BY Numbers DEF Value, Window
  <2>3. IsPut(n, m, base_table, table, f)
    BY <1>1, <2>2, PutIs
  <2>4. U \in [Cores -> [Window -> Value]] /\ \A e \in Cores, w \in Window : U[e][w] = NULL
    BY <1>1 DEF Value, Untouched
  <2>5. Quiet(mem, m) /\ m[base_table][dir] = mem[base_table][dir]
    BY DEF Untouched
  <2> HIDE DEF n, U, m, T
  <2>6. /\ Quiet(m, n) /\ n \in Memory /\ n[base_table][table] = f
        /\ n[base_table][dir] = m[base_table][dir] /\ n[dir] = m[dir] /\ n[table] = m[table]
    <3>1. m \in Memory
      BY <1>1
    <3>2. /\ Quiet(m, n) /\ n \in Memory /\ n[base_table][table] = f
          /\ \A x \in Window : x # table => n[base_table][x] = m[base_table][x]
          /\ n[dir] = m[dir] /\ n[table] = m[table]
      BY <2>2, <2>3, <3>1, PutQuiet
    <3> QED
      BY <2>2, <3>2
  <2>7. r \in Machines
    BY <2>4, <2>6, <1>1 DEF Machines
  <2>8. Quiet(mem, n)
    BY <2>5, <2>6 DEF Quiet
  <2> QED
    BY <2>1, <2>2, <2>4, <2>5, <2>6, <2>7, <2>8, SMTT(30) DEF Untouched, m
<1> QED
  BY <1>2, <1>3

\* What is written to the pages of the windows is not seen elsewhere.
LEMMA UntouchedWrite ==
  ASSUME NEW s, Untouched(s), NEW x \in Window, NEW n \in Memory,
         \A y \in Frames : y # x => n[y] = s.mem[y]
  PROVE  LET r == [mem |-> n, free |-> s.free, tlb |-> s.tlb] IN Untouched(r)
<1> DEFINE r == [mem |-> n, free |-> s.free, tlb |-> s.tlb]
<1>1. r \in Machines
  BY MachineParts DEF Untouched, Machines
<1>2. /\ base_table # x /\ base_dir # x /\ x \notin Ram /\ base_table \in Frames
      /\ base_dir \in Frames /\ Ram \subseteq Frames
  BY Numbers DEF Window
<1>3. Quiet(mem, n) /\ n[base_table] = s.mem[base_table]
  BY <1>2 DEF Untouched, Quiet
<1> QED
  BY <1>1, <1>3 DEF Untouched

LEMMA BootEnsured ==
  ASSUME VmmIInv, ~paging, Round("map"), HasTable
  PROVE  /\ Untouched(Ensured) /\ Ensured.mem[dir][0] # NULL
         /\ \A i \in op.at .. N - 1 : Ensured.mem[table][i] = NULL
         /\ op.at \in 1 .. 4 /\ op.left \in 1 .. 4 /\ op.at = 5 - op.left
         /\ op \in Op(dirs) /\ op.core \in Cores /\ dirs \in SUBSET ({base_dir} \cup Ram)
<1> DEFINE c == op.core
           q == ensure_table(Machine, c, 0)
<1>1. op # NULL /\ op.open /\ op.left > 0
  BY DEF Round
<1>2. op \in Op(dirs) /\ dirs \in SUBSET ({base_dir} \cup Ram) /\ mem \in Memory
      /\ tlb \in [Cores -> [Window -> Value]] /\ Apart(mem, free, dirs) /\ free \subseteq Ram
  BY <1>1 DEF VmmIInv, TypeOK, Apart
<1>3. c \in Cores /\ op.left \in Nat /\ op.at \in Nat
  BY <1>2, OpIs
<1>4. /\ \A e \in Cores, w \in Window : tlb[e][w] = NULL
      /\ op.left <= 4 /\ op.at = 5 - op.left
      /\ mem[dir][0] = NULL \/ \A i \in op.at .. N - 1 : mem[table][i] = NULL
  BY <1>1 DEF VmmIInv, Booting
<1>5. op.at \in 1 .. 4 /\ op.left \in 1 .. 4
  BY <1>1, <1>3, <1>4, SMTT(30)
<1>6. tid(op.at) = 0
  BY <1>5, FirstTable, VmmAssumption, SMTT(30) DEF table
<1>7. /\ Untouched(Machine) /\ Machine.mem = mem /\ Machine.free = free
      /\ Machine = [mem |-> mem, free |-> free, tlb |-> tlb]
  <2>1. Machine \in Machines
    BY <1>2 DEF Machine, Machines
  <2>2. mem[base_table][table] # NULL
    BY DEF VmmIInv, Windows
  <2> QED
    BY <2>1, <2>2, <1>4 DEF Untouched, Quiet, Machine
<1>8. /\ dir \in Window /\ table \in Window /\ dir \in Frames /\ table \in Frames /\ dir # table
      /\ table \in Nat /\ 0 \in Entry /\ table \in Value
  BY Numbers DEF Window, Value
<1>9. \A i \in op.at .. N - 1 : i \in Entry
  BY <1>5, VmmAssumption, SMTT(30) DEF Entry
<1>10. Read(Machine, c, dir, 0) = mem[dir][0]
  BY <1>7, BootRead, SMTT(30)
<1>11. /\ Untouched(q) /\ q.mem[dir][0] \in Nat
       /\ \A i \in op.at .. N - 1 : q.mem[table][i] = NULL
  <2>1. CASE mem[dir][0] # NULL
    <3>1. q = Machine
      BY <2>1, <1>10, BootUsed DEF ensure_table
    <3>2. mem[dir][0] \in Nat
      BY <2>1, <1>2, <1>8 DEF Memory, Value
    <3> QED
      BY <2>1, <3>1, <3>2, <1>4, <1>7
  <2>2. CASE mem[dir][0] = NULL
    <3> DEFINE new == Min(free)
               s0 == [mem |-> mem, free |-> free \ {new}, tlb |-> tlb]
               s1 == Open(s0, c, table, new)
               s2 == Zero(s1, c, table)
               s3 == Open(s2, c, table, table)
               s4 == Write(s3, c, dir, 0, new)
    <3>1. free # {}
      BY <2>2, <1>6, <1>10 DEF HasTable
    <3>2. new \in free /\ new \in Nat /\ new \in Value
      BY <3>1, <1>2, LowestFrame, Numbers DEF Value
    <3>3. q = s4
      <4>1. [Used(Machine, c, dir) EXCEPT !.free = @ \ {new}] = s0
        BY <1>7, BootUsed, SMTT(30)
      <4>2. q = Write(Close(Zero(Open([Used(Machine, c, dir) EXCEPT !.free = @ \ {new}],
                                      c, table, new), c, table), c, table), c, dir, 0, new)
        BY <2>2, <1>7, <1>10 DEF ensure_table
      <4> QED
        BY <4>1, <4>2 DEF Close
    <3> HIDE DEF new, q
    <3>4. Untouched(s0)
      <4>1. s0 \in Machines
        BY <1>2 DEF Machines
      <4> QED
        BY <4>1, <1>7 DEF Untouched, Machine
    <3> HIDE DEF s0
    <3>5. Untouched(s1)
      BY <3>2, <3>4, <1>3, UntouchedOpen
    <3> HIDE DEF s1
    <3>6. Untouched(s2) /\ s2.mem[table] = Absent
      <4> DEFINE n == Clear(s1.mem, table)
      <4>1. s1.mem \in Memory /\ s1 = [mem |-> s1.mem, free |-> s1.free, tlb |-> s1.tlb]
        BY <3>5, MachineParts DEF Untouched
      <4>2. IsClear(n, s1.mem, table)
        BY <4>1, <1>8, ClearIs
      <4>3. s2 = [s1 EXCEPT !.mem[table] = Absent]
        BY BootZero
      <4> HIDE DEF s2
      <4>4. s2 = [mem |-> n, free |-> s1.free, tlb |-> s1.tlb]
        BY <4>1, <4>3 DEF Clear
      <4> HIDE DEF n
      <4>5. n \in Memory /\ n[table] = Absent /\ \A y \in Frames : y # table => n[y] = s1.mem[y]
        BY <4>2 DEF IsClear
      <4> QED
        BY <4>4, <4>5, <3>5, <1>8, UntouchedWrite
    <3> HIDE DEF s2
    <3>7. Untouched(s3) /\ s3.mem[table] = Absent
      BY <3>6, <1>3, <1>8, UntouchedOpen
    <3> HIDE DEF s3
    <3>8. Untouched(s4) /\ s4.mem[table] = Absent /\ s4.mem[dir][0] = new
      <4> DEFINE n == Put(s3.mem, dir, 0, new)
      <4>1. s3.mem \in Memory /\ s3 = [mem |-> s3.mem, free |-> s3.free, tlb |-> s3.tlb]
        BY <3>7, MachineParts DEF Untouched
      <4>2. IsPut(n, s3.mem, dir, 0, new)
        BY <4>1, <3>2, <1>8, PutIs
      <4>3. s4 = [s3 EXCEPT !.mem[dir][0] = new]
        BY BootWrite, SMTT(30)
      <4> HIDE DEF s4
      <4>4. s4 = [mem |-> n, free |-> s3.free, tlb |-> s3.tlb]
        BY <4>1, <4>3 DEF Put
      <4> HIDE DEF n
      <4>5. n \in Memory /\ n[dir][0] = new /\ \A y \in Frames : y # dir => n[y] = s3.mem[y]
        BY <4>2 DEF IsPut
      <4> QED
        BY <4>4, <4>5, <3>7, <1>8, UntouchedWrite
    <3> HIDE DEF s4
    <3>9. \A i \in op.at .. N - 1 : q.mem[table][i] = NULL
      BY <3>3, <3>8, <1>9 DEF Absent
    <3> QED
      BY <3>2, <3>3, <3>8, <3>9
  <2> QED
    BY <2>1, <2>2
<1>12. Ensured = Open(q, c, table, q.mem[dir][0])
  <2>1. Ensured = OpenTableOf(q, c, op.at)
    BY <1>6 DEF Ensured
  <2> HIDE DEF q
  <2> QED
    BY <2>1, <1>6, BootRead, BootUsed, SMTT(30) DEF OpenTableOf
<1> HIDE DEF q
<1>13. /\ Untouched(Ensured) /\ Ensured.mem[dir] = q.mem[dir] /\ Ensured.mem[table] = q.mem[table]
  BY <1>3, <1>11, <1>12, UntouchedOpen
<1> QED
  BY <1>2, <1>3, <1>4, <1>5, <1>11, <1>13, Numbers

\* The memory and the translations after a round of the mapping.
LEMMA BootIs ==
  ASSUME VmmIInv, ~paging, MapPage
  PROVE  /\ Untouched([mem |-> mem', free |-> free', tlb |-> tlb'])
         /\ \A i \in op.at + 1 .. N - 1 : mem'[table][i] = NULL
         /\ op' = Forward(op) /\ op.open /\ op # NULL /\ UNCHANGED <<dirs, cr3, paging>>
         /\ op.at \in 1 .. 4 /\ op.left \in 1 .. 4 /\ op.at = 5 - op.left
         /\ op \in Op(dirs) /\ op.core \in Cores /\ dirs \in SUBSET ({base_dir} \cup Ram)
<1> DEFINE s == Ensured
           n == Put(s.mem, table, op.at, op.phys)
<1>1. Round("map") /\ HasTable /\ op # NULL /\ op.open /\ UNCHANGED <<dirs, cr3, paging>>
  BY DEF MapPage, Round
<1>2. /\ Untouched(s) /\ s.mem[dir][0] # NULL
      /\ \A i \in op.at .. N - 1 : s.mem[table][i] = NULL
      /\ op.at \in 1 .. 4 /\ op.left \in 1 .. 4 /\ op.at = 5 - op.left
      /\ op \in Op(dirs) /\ op.core \in Cores /\ dirs \in SUBSET ({base_dir} \cup Ram)
  BY <1>1, BootEnsured
<1>3. op.phys \in Nat /\ op.phys \in Value
  BY <1>2, OpIs DEF Value
<1>4. pid(op.at) = op.at /\ op.at \in op.at .. N - 1 /\ op.at \in Entry /\ op.at + 1 .. N - 1 \subseteq Entry
      /\ \A i \in op.at + 1 .. N - 1 : i \in op.at .. N - 1 /\ i # op.at
  BY <1>2, FirstTable, VmmAssumption, SMTT(30) DEF table, Entry
<1> HIDE DEF s
<1>5. Read(s, op.core, table, pid(op.at)) = NULL
  BY <1>2, <1>4, BootRead, SMTT(30)
<1>6. Becomes(Set(s, op.phys)) /\ op' = Forward(op)
  BY <1>5 DEF MapPage, Present, Forward, s
<1>7. s.mem \in Memory /\ s = [mem |-> s.mem, free |-> s.free, tlb |-> s.tlb]
  BY <1>2, MachineParts DEF Untouched
<1>8. table \in Frames /\ table \in Window
  BY Numbers DEF Window
<1>9. IsPut(n, s.mem, table, op.at, op.phys)
  BY <1>3, <1>4, <1>7, <1>8, PutIs
<1>10. Set(s, op.phys) = [mem |-> n, free |-> s.free, tlb |-> s.tlb]
  <2>1. Set(s, op.phys) = [s EXCEPT !.mem[table][op.at] = op.phys]
    BY <1>4, BootWrite, SMTT(30) DEF Set
  <2> QED
    BY <2>1, <1>7 DEF Put
<1> HIDE DEF n
<1>11. mem' = n /\ free' = s.free /\ tlb' = s.tlb
  BY <1>6, <1>10, SMTT(30) DEF Becomes
<1>12. n \in Memory /\ \A y \in Frames : y # table => n[y] = s.mem[y]
  BY <1>9 DEF IsPut
<1>13. Untouched([mem |-> n, free |-> s.free, tlb |-> s.tlb])
  BY <1>2, <1>8, <1>12, UntouchedWrite
<1>14. \A i \in op.at + 1 .. N - 1 : n[table][i] = NULL
  BY <1>2, <1>4, <1>9 DEF IsPut
<1> QED
  BY <1>1, <1>2, <1>6, <1>11, <1>13, <1>14

LEMMA BootInv ==
  ASSUME VmmIInv, ~paging, MapPage
  PROVE  VmmIInv'
<1> DEFINE s == [mem |-> mem', free |-> free', tlb |-> tlb']
<1>1. /\ Untouched(s)
      /\ \A i \in op.at + 1 .. N - 1 : mem'[table][i] = NULL
      /\ op' = Forward(op) /\ op.open /\ op # NULL /\ UNCHANGED <<dirs, cr3, paging>>
      /\ op.at \in 1 .. 4 /\ op.left \in 1 .. 4 /\ op.at = 5 - op.left
      /\ op \in Op(dirs) /\ dirs \in SUBSET ({base_dir} \cup Ram)
  BY BootIs
<1>2. op.left - 1 \in Nat /\ op.at \in Nat /\ op.phys \in Nat
  BY <1>1, OpIs, SMTT(30)
<1>3. /\ op' \in Op(dirs) /\ SameCall(op, op') /\ op'.left = op.left - 1
      /\ op'.at = op.at + 1 /\ op'.ret = op.ret
  BY <1>1, <1>2, Advance
<1>4. op' # NULL /\ op'.open /\ op'.page_dir = op.page_dir /\ op'.call = op.call
  BY <1>1, <1>3, OpIs DEF SameCall
<1>5. /\ mem' \in Memory /\ tlb' \in [Cores -> [Window -> Value]]
      /\ Quiet(mem, mem') /\ free' \subseteq free
      /\ mem'[base_table][dir] = mem[base_table][dir]
      /\ mem'[base_table][table] # NULL
      /\ \A e \in Cores, w \in Window : tlb'[e][w] = NULL
  BY <1>1, MachineParts DEF Untouched
<1>6. TypeOK'
  BY <1>1, <1>3, <1>5 DEF VmmIInv, TypeOK
<1>7. Apart(mem', free', dirs')
  <2>1. Apart(mem, free, dirs) /\ free' \in SUBSET free
    BY <1>5 DEF VmmIInv
  <2> QED
    BY <2>1, <1>1, <1>5, QuietApart
<1>8. Windows'
  BY <1>1, <1>4, <1>5, SMTT(30) DEF VmmIInv, Windows
<1>9. Booting'
  <2>1. /\ dirs = {base_dir}
        /\ \A i \in Entry \ Window : mem[base_table][i] = i
        /\ op.call = Kernel /\ op.ret = 0
    BY <1>1 DEF VmmIInv, Booting
  <2>2. \A i \in Entry \ Window : mem'[base_table][i] = i
    BY <2>1, <1>5 DEF Quiet
  <2>3. op'.left <= 4 /\ op'.at = 5 - op'.left
    BY <1>1, <1>2, <1>3, SMTT(30)
  <2>4. \A i \in op'.at .. N - 1 : mem'[table][i] = NULL
    BY <1>1, <1>3
  <2> QED
    BY <2>1, <2>2, <2>3, <2>4, <1>1, <1>3, <1>4, <1>5 DEF Booting
<1> QED
  BY <1>1, <1>6, <1>7, <1>8, <1>9 DEF VmmIInv, Progress

-----------------------------------------------------------------------------
(* The invariant.                                                          *)

LEMMA InitInv ==
  ASSUME Init
  PROVE  VmmIInv
<1>1. /\ mem \in Memory
      /\ mem[base_dir] = [Absent EXCEPT ![0] = base_table]
      /\ mem[base_table] = [i \in Entry |-> i]
      /\ mem[dir] = Absent /\ mem[table] = Absent
  <2>1. Absent \in [Entry -> Value] /\ [i \in Entry |-> i] \in [Entry -> Value]
        /\ [i \in Entry |-> 0] \in [Entry -> Value]
        /\ [Absent EXCEPT ![0] = base_table] \in [Entry -> Value]
    BY Numbers, VmmAssumption, SMTT(30) DEF Absent, Value, Entry
  <2>2. /\ mem = [f \in Frames |->
                    CASE f = base_dir   -> [Absent EXCEPT ![0] = base_table]
                      [] f = base_table -> [i \in Entry |-> i]
                      [] f \in Ram       -> [i \in Entry |-> 0]
                      [] OTHER           -> Absent]
    BY DEF Init
  <2>3. mem \in Memory
    BY <2>1, <2>2 DEF Memory
  <2> QED
    BY <2>2, <2>3, Numbers
<1>2. /\ free = Ram /\ dirs = {base_dir} /\ cr3 = [c \in Cores |-> base_dir]
      /\ tlb = [c \in Cores |-> [w \in {dir, table} |-> NULL]] /\ paging = FALSE
      /\ op = [core |-> boot_core, page_dir |-> base_dir, call |-> Kernel,
               left |-> 4, at |-> 1, phys |-> 1, ret |-> 0, open |-> FALSE]
  BY DEF Init, Kernel
<1>3. op \in Op(dirs) /\ ~op.open
  BY <1>2, VmmAssumption DEF Op, Value
<1>4. op # NULL
  <2>1. dirs \in SUBSET ({base_dir} \cup Ram)
    BY <1>2
  <2> QED
    BY <2>1, <1>3, OpIs
<1>5. TypeOK
  BY <1>1, <1>2, <1>3 DEF TypeOK, Window, Value
<1>6. Apart(mem, free, dirs)
  <2>1. /\ mem[base_dir][0] = base_table
        /\ \A t \in Tables : t # 0 => mem[base_dir][t] = NULL
    BY <1>1, Numbers DEF Absent
  <2>2. base_dir \notin Ram /\ base_table \notin Ram /\ base_table # base_dir /\ base_table # NULL
    BY Numbers
  <2> QED
    BY <2>1, <2>2, <1>2 DEF Apart
<1>7. /\ \A e \in Cores, w \in Window : tlb[e][w] = NULL
      /\ \A i \in Entry : mem[base_table][i] = i
  BY <1>1, <1>2 DEF Window
<1>8. Windows
  <2>1. Window \subseteq Entry /\ table \in Window /\ table # NULL
    BY Numbers DEF Window
  <2> QED
    BY <2>1, <1>3, <1>4, <1>7 DEF Windows
<1>9. Booting
  <2>1. mem[dir][0] = NULL
    BY <1>1, Numbers DEF Absent
  <2> QED
    BY <2>1, <1>2, <1>7, SMTT(30) DEF Booting
<1> QED
  BY <1>2, <1>5, <1>6, <1>8, <1>9 DEF VmmIInv, Progress

\* Before paging is on only the mapping of the kernel runs.
LEMMA BootMapsOnly ==
  ASSUME VmmIInv, ~paging, NEW k, Round(k)
  PROVE  k = "map"
BY SMTT(30) DEF VmmIInv, Booting, Round, Kernel

LEMMA StepInv ==
  ASSUME VmmIInv, [Next]_vars
  PROVE  VmmIInv'
<1>1. CASE vmm_enable_paging
  BY <1>1, EnableInv
<1>2. ASSUME NEW c \in Cores, NEW d \in dirs, NEW r \in Calls, Call(c, d, r)
      PROVE  VmmIInv'
  BY <1>2, CallInv
<1>3. CASE OpenDir
  BY <1>3, OpenDirInv, SMTT(30)
<1>4. CASE MapPage
  BY <1>4, MapInv, BootInv
<1>5. CASE RemapPage
  <2>1. paging
    BY <1>5, BootMapsOnly DEF RemapPage
  <2> QED
    BY <2>1, <1>5, RemapInv
<1>6. CASE UnmapPage
  <2>1. paging
    BY <1>6, BootMapsOnly DEF UnmapPage
  <2> QED
    BY <2>1, <1>6, UnmapInv, SMTT(30)
<1>7. CASE Query
  <2>1. paging
    BY <1>7, BootMapsOnly DEF Query
  <2> QED
    BY <2>1, <1>7, QueryInv
<1>8. CASE Return
  BY <1>8, ReturnInv, SMTT(30)
<1>9. ASSUME NEW c \in Cores, vmm_fork_kernel_space(c) PROVE VmmIInv'
  BY <1>9, ForkInv
<1>10. ASSUME NEW c \in Cores, NEW d \in dirs, vmm_set_cr3(c, d) PROVE VmmIInv'
  BY <1>10, SetInv
<1>11. CASE UNCHANGED vars
  BY <1>11, StutterInv
<1> QED
  BY <1>1, <1>2, <1>3, <1>4, <1>5, <1>6, <1>7, <1>8, <1>9, <1>10, <1>11 DEF Next

\* The invariant that the other theorems rest on.
THEOREM VmmInductive == Spec => []VmmIInv
<1>1. Init => VmmIInv
  BY InitInv
<1>2. VmmIInv /\ [Next]_vars => VmmIInv'
  BY StepInv
<1> QED
  BY <1>1, <1>2, PTL DEF Spec

LEMMA InvTables ==
  ASSUME VmmIInv
  PROVE  VmmInv
<1>1. Apart(mem, free, dirs)
  BY DEF VmmIInv
<1>2. \A d \in dirs : \A x \in TablesOf(d) :
         \E t \in Tables : x = mem[d][t] /\ mem[d][t] # NULL
  BY DEF TablesOf
<1>3. \A d \in dirs : \A x \in TablesOf(d) : x \notin free /\ x \notin dirs
  BY <1>1, <1>2, ApartTable, SMTT(30)
<1>4. free \cap dirs = {}
  BY <1>1 DEF Apart
<1>5. free \cap (dirs \cup UNION {TablesOf(d) : d \in dirs}) = {}
  BY <1>3, <1>4
<1>6. \A d, e \in dirs : d \notin TablesOf(e)
  BY <1>3
<1>7. \A d, e \in dirs : \A t, u \in Tables :
         mem[d][t] # NULL /\ mem[d][t] = mem[e][u]
             => t = u /\ (d = e \/ mem[base_dir][t] = mem[d][t])
  BY <1>1, ApartShare, SMTT(30)
<1>8. op = NULL => /\ mem[base_table][dir] = dir /\ mem[base_table][table] = table
                   /\ \A c \in Cores, w \in {dir, table} : tlb[c][w] \in {NULL, w}
  BY DEF VmmIInv, Windows, Window
<1>9. ASSUME ~paging, NEW v \in 0 .. N - 1 \ {dir, table}
      PROVE  Walk(mem, base_dir, v) = v
  <2>1. v \in Nat /\ v < N /\ v \in Entry \ Window
    BY <1>9, VmmAssumption, SMTT(30) DEF Entry, Window
  <2>2. tid(v) = 0 /\ pid(v) = v
    BY <2>1, FirstTable
  <2>3. mem[base_dir][0] = base_table /\ base_table # NULL
    BY <1>1, Numbers, SMTT(30) DEF Apart
  <2>4. mem[base_table][v] = v
    BY <1>9, <2>1 DEF VmmIInv, Booting
  <2> QED
    BY <2>2, <2>3, <2>4 DEF Walk
<1> QED
  BY <1>5, <1>6, <1>7, <1>8, <1>9 DEF VmmInv

LEMMA InvReturns ==
  ASSUME VmmIInv
  PROVE  Returns
<1> SUFFICES ASSUME op # NULL, op.left = 0 PROVE Returns
  BY DEF Returns
<1>1. op \in Op(dirs) /\ dirs \in SUBSET ({base_dir} \cup Ram)
  BY DEF VmmIInv, TypeOK, Apart
<1>2. op.at \in Nat
  BY <1>1, OpIs
<1> DEFINE r == op.call
           Maps(v) == Walk(mem, op.page_dir, v)
<1>3. CASE ~paging
  <2>1. r.kind = "map" /\ op.ret = 0
    BY <1>3, SMTT(30) DEF VmmIInv, Booting, Kernel
  <2> QED
    BY <2>1, <1>3 DEF Returns
<1>4. CASE paging
  <2>1. Doing(op, mem)
    BY <1>4 DEF VmmIInv, Progress
  <2>2. r \in Calls /\ op.at >= r.virt
    BY <2>1 DEF Doing
  <2>3. r.virt \in Nat /\ r.phys \in Nat /\ r.count \in Nat
        /\ r.kind \in {"map", "remap", "unmap", "query"}
    BY <2>2, CallIs
  <2>4. CASE r.kind = "query"
    <3>1. op.at = r.virt /\ op.ret = Maps(op.at)
      BY <2>1, <2>4 DEF Doing
    <3> QED
      BY <3>1, <2>4 DEF Returns
  <2>5. CASE r.kind = "unmap"
    <3>1. op.at = r.virt + (r.count - 0) /\ \A v \in r.virt .. op.at - 1 : Maps(v) = NULL
      BY <2>1, <2>5 DEF Doing
    <3>2. op.at - 1 = r.virt + r.count - 1
      BY <3>1, <2>3, SMTT(30)
    <3>3. \A v \in r.virt .. r.virt + r.count - 1 : Maps(v) = NULL
      BY <3>1, <3>2
    <3> QED
      BY <3>3, <2>5 DEF Returns
  <2>6. CASE r.kind \in {"map", "remap"}
    <3>1. /\ \A v \in r.virt .. op.at - 1 : Maps(v) = r.phys + (v - r.virt)
          /\ \/ op.at = r.virt + (r.count - 0) /\ op.ret = 0
             \/ r.kind = "map" /\ op.ret = 1 /\ Maps(op.at) # NULL
      BY <2>1, <2>6 DEF Doing
    <3>2. CASE op.at = r.virt + (r.count - 0) /\ op.ret = 0
      <4>1. op.at - 1 = r.virt + r.count - 1
        BY <3>2, <2>3, SMTT(30)
      <4>2. \A v \in r.virt .. r.virt + r.count - 1 : Maps(v) = r.phys + (v - r.virt)
        BY <3>1, <4>1
      <4> QED
        BY <4>2, <3>2, <2>6, <1>4 DEF Returns
    <3>3. CASE r.kind = "map" /\ op.ret = 1 /\ Maps(op.at) # NULL
      <4>1. op.ret # 0
        BY <3>3, SMTT(30)
      <4> QED
        BY <4>1, <3>1, <3>3 DEF Returns
    <3> QED
      BY <3>1, <3>2, <3>3
  <2> QED
    BY <2>3, <2>4, <2>5, <2>6
<1> QED
  BY <1>3, <1>4

\* Between calls the windows of every core show their own pages, and the tables
\* and directories of all address spaces are kept apart from each other and
\* from the free frames; the mapping of the kernel leaves the base tables alone.
THEOREM TablesAreKeptApart == Spec => []VmmInv
<1>1. VmmIInv => VmmInv
  BY InvTables
<1> QED
  BY <1>1, VmmInductive, PTL

\* What vmm_map_pages, vmm_remap_pages, vmm_unmap_pages and virt_to_phys return
\* is true of the page tables, however long the range is.
THEOREM CallsReturnTheTruth == Spec => []Returns
<1>1. VmmIInv => Returns
  BY InvReturns
<1> QED
  BY <1>1, VmmInductive, PTL

-----------------------------------------------------------------------------
(* The tables implement address spaces.                                    *)

\* Every step is a round at one page, a fork, or leaves the tables alone.
LEMMA StepIs ==
  ASSUME VmmIInv, [Next]_vars
  PROVE  \/ OnePage
         \/ Quiet(mem, mem') /\ dirs' = dirs
         \/ \E c \in Cores : vmm_fork_kernel_space(c)
<1>1. ASSUME UNCHANGED <<mem, dirs>> PROVE Quiet(mem, mem') /\ dirs' = dirs
  BY <1>1 DEF Quiet
<1>2. CASE vmm_enable_paging
  BY <1>1, <1>2 DEF vmm_enable_paging
<1>3. ASSUME NEW c \in Cores, NEW d \in dirs, NEW r \in Calls, Call(c, d, r)
      PROVE  Quiet(mem, mem') /\ dirs' = dirs
  BY <1>1, <1>3 DEF Call
<1>4. CASE OpenDir
  <2>1. IsPut(mem', mem, base_table, dir, op.page_dir) /\ mem \in Memory /\ dirs' = dirs
    BY <1>4, OpenDirIs
  <2>2. dir \in Window
    BY DEF Window
  <2> QED
    BY <2>1, <2>2, PutQuiet
<1>5. CASE MapPage
  <2>1. CASE paging
    BY <2>1, <1>5, MapInv
  <2>2. CASE ~paging
    <3>1. Untouched([mem |-> mem', free |-> free', tlb |-> tlb']) /\ dirs' = dirs
      BY <2>2, <1>5, BootIs
    <3> QED
      BY <3>1 DEF Untouched
  <2> QED
    BY <2>1, <2>2
<1>6. CASE RemapPage
  <2>1. paging
    BY <1>6, BootMapsOnly, SMTT(30) DEF RemapPage
  <2> QED
    BY <2>1, <1>6, RemapInv
<1>7. CASE UnmapPage
  <2>1. paging
    BY <1>7, BootMapsOnly, SMTT(30) DEF UnmapPage
  <2> QED
    BY <2>1, <1>7, UnmapInv
<1>8. CASE Query
  <2>1. paging
    BY <1>8, BootMapsOnly, SMTT(30) DEF Query
  <2> QED
    BY <2>1, <1>1, <1>8, QueryInv
<1>9. CASE Return
  BY <1>9, ReturnIs
<1>10. ASSUME NEW c \in Cores, NEW d \in dirs, vmm_set_cr3(c, d)
       PROVE  Quiet(mem, mem') /\ dirs' = dirs
  BY <1>1, <1>10 DEF vmm_set_cr3
<1>11. CASE UNCHANGED vars
  BY <1>1, <1>11 DEF vars
<1> QED
  BY <1>2, <1>3, <1>4, <1>5, <1>6, <1>7, <1>8, <1>9, <1>10, <1>11 DEF Next

\* The address spaces that memory m has with the directories D.
SpacesOf(m, D) == [d \in D |-> [v \in Pages |-> Walk(m, d, v)]]
SharedOf(m, D) ==
    [d \in D |-> {t \in Tables : m[d][t] # NULL /\ m[d][t] = m[base_dir][t]}]

\* Directory d has the table of t in common with the kernel.
Common(m, d, t) == m[d][t] # NULL /\ m[d][t] = m[base_dir][t]

LEMMA PageIs ==
  ASSUME NEW v \in Pages
  PROVE  v \in Nat /\ tid(v) \in Tables /\ v \notin Window
BY VmmAssumption, SMTT(30) DEF Pages, Window

LEMMA IsPage ==
  ASSUME NEW v \in Nat, tid(v) \in Tables, v \notin Window
  PROVE  v \in Pages
BY PagesOfTables DEF Pages, Window

LEMMA QuietSpaces ==
  ASSUME NEW m, NEW n, Quiet(m, n), NEW F, NEW D, Apart(m, F, D)
  PROVE  SpacesOf(n, D) = SpacesOf(m, D) /\ SharedOf(n, D) = SharedOf(m, D)
<1>1. \A d \in D : n[d] = m[d]
  BY DEF Quiet, Apart
<1>2. \A d \in D : \A v \in Pages : Walk(n, d, v) = Walk(m, d, v)
  BY PageIs, QuietWalk, SMTT(30)
<1>3. SpacesOf(n, D) = SpacesOf(m, D)
  BY <1>2 DEF SpacesOf
<1>4. base_dir \in D
  BY DEF Apart
<1> QED
  BY <1>1, <1>3, <1>4 DEF SharedOf

\* The directories that have the table of a round, and what they have in common
\* with the kernel after it.
LEMMA EditedSharers ==
  ASSUME NEW m \in Memory, NEW F, NEW D, Apart(m, F, D), NEW d \in D,
         NEW v \in Nat, tid(v) \in Tables, NEW f \in ({base_table} \cup Ram) \ {d},
         NEW n, NEW x, Edited(m, n, F, d, v, f, x)
  PROVE  /\ \A e \in D : n[e][tid(v)] = f <=>
               IF Common(m, d, tid(v)) THEN Common(m, e, tid(v)) ELSE e = d
         /\ \A e \in D, s \in Tables :
               Common(n, e, s) <=> Common(m, e, s) \/ (e = d /\ d = base_dir /\ s = tid(v))
<1> DEFINE t == tid(v)
<1>1. /\ n[d][t] = f
      /\ \A i \in Entry : i # t => n[d][i] = m[d][i]
      /\ \A e \in D : e # d => n[e] = m[e]
      /\ (m[d][t] = f /\ f \notin F) \/ (m[d][t] = NULL /\ f \in F)
  BY EditedRows, SMTT(30)
<1>2. t \in Tables /\ Tables \subseteq Entry /\ f # NULL /\ base_dir \in D
  BY Numbers, SMTT(30) DEF Apart
<1> HIDE DEF t
<1>3. ASSUME NEW e \in D, e # d, n[e][t] = f PROVE Common(m, d, t) /\ Common(m, e, t)
  <2>1. m[e][t] = f
    BY <1>1, <1>3
  <2>2. f \notin F
    BY <2>1, <1>2, ApartTable, SMTT(30)
  <2>3. m[d][t] = f
    BY <2>2, <1>1
  <2>4. m[base_dir][t] = f
    BY <2>1, <2>3, <1>2, <1>3, ApartShare, SMTT(30)
  <2> QED
    BY <2>1, <2>3, <2>4, <1>2 DEF Common
<1>4. ASSUME NEW e \in D
      PROVE  n[e][t] = f <=> IF Common(m, d, t) THEN Common(m, e, t) ELSE e = d
  <2>1. ASSUME Common(m, d, t), Common(m, e, t) PROVE n[e][t] = f
    BY <2>1, <1>1 DEF Common
  <2> QED
    BY <2>1, <1>1, <1>3
<1>5. ASSUME NEW e \in D, NEW s \in Tables
      PROVE  Common(n, e, s) <=> Common(m, e, s) \/ (e = d /\ d = base_dir /\ s = t)
  <2>1. CASE s # t
    <3>1. \A a \in D : n[a][s] = m[a][s]
      BY <2>1, <1>1, <1>2
    <3> QED
      BY <2>1, <3>1, <1>2 DEF Common
  <2>2. CASE s = t /\ m[d][t] = f
    <3>1. \A a \in D : n[a][t] = m[a][t]
      BY <2>2, <1>1
    <3> QED
      BY <2>2, <3>1, <1>2 DEF Common
  <2>3. CASE s = t /\ m[d][t] = NULL /\ f \in F
    <3>1. \A a \in D : m[a][t] # f
      BY <2>3, <1>2, ApartTable, SMTT(30)
    <3>2. CASE d = base_dir
      BY <2>3, <3>1, <3>2, <1>1, <1>2 DEF Common
    <3>3. CASE d # base_dir
      BY <2>3, <3>1, <3>3, <1>1, <1>2 DEF Common
    <3> QED
      BY <3>2, <3>3
  <2> QED
    BY <2>1, <2>2, <2>3, <1>1
<1> QED
  BY <1>4, <1>5 DEF t

\* A round changes one page for all that share its table, and only the kernel
\* gets a new region that it shares.
LEMMA EditedSpaces ==
  ASSUME NEW m \in Memory, NEW F, NEW D, Apart(m, F, D), NEW d \in D,
         NEW v \in Nat, tid(v) \in Tables, NEW f \in ({base_table} \cup Ram) \ {d},
         NEW n, NEW x, Edited(m, n, F, d, v, f, x), v \notin Window,
         NEW sp, sp = SpacesOf(m, D), NEW sh, sh = SharedOf(m, D)
  PROVE  /\ SpacesOf(n, D) =
              [e \in D |-> IF e \in (IF tid(v) \in sh[d] THEN {a \in D : tid(v) \in sh[a]} ELSE {d})
                           THEN [sp[e] EXCEPT ![v] = x] ELSE sp[e]]
         /\ SharedOf(n, D) = [sh EXCEPT ![d] = IF d = base_dir THEN @ \cup {tid(v)} ELSE @]
         /\ SpacesOf(n, D)[d][v] = x
<1> DEFINE t == tid(v)
           S == IF t \in sh[d] THEN {a \in D : t \in sh[a]} ELSE {d}
<1>1. /\ \A e \in D : n[e][t] = f <=> IF Common(m, d, t) THEN Common(m, e, t) ELSE e = d
      /\ \A e \in D, s \in Tables :
            Common(n, e, s) <=> Common(m, e, s) \/ (e = d /\ d = base_dir /\ s = t)
  BY EditedSharers, SMTT(30)
<1>2. t \in Tables /\ v \in Pages
  BY IsPage
<1>3. \A e \in D, u \in Pages : Walk(n, e, u) = IF u = v /\ n[e][t] = f THEN x ELSE Walk(m, e, u)
  BY PageIs, EditedWalk, SMTT(30)
<1> HIDE DEF t
<1>4. \A e \in D : sh[e] = {s \in Tables : Common(m, e, s)}
  BY DEF SharedOf, Common
<1>5. \A e \in D : n[e][t] = f <=> e \in S
  BY <1>1, <1>2, <1>4
<1>6. \A e \in D : sp[e] = [u \in Pages |-> Walk(m, e, u)]
  BY DEF SpacesOf
<1> HIDE DEF S
<1>7. \A e \in D : [u \in Pages |-> Walk(n, e, u)] = IF e \in S THEN [sp[e] EXCEPT ![v] = x] ELSE sp[e]
  <2> SUFFICES ASSUME NEW e \in D
               PROVE  [u \in Pages |-> Walk(n, e, u)]
                        = IF e \in S THEN [sp[e] EXCEPT ![v] = x] ELSE sp[e]
    OBVIOUS
  <2>1. CASE e \in S
    <3>1. [sp[e] EXCEPT ![v] = x] = [u \in Pages |-> IF u = v THEN x ELSE Walk(m, e, u)]
      BY <1>2, <1>6
    <3>2. \A u \in Pages : Walk(n, e, u) = IF u = v THEN x ELSE Walk(m, e, u)
      BY <2>1, <1>3, <1>5
    <3> QED
      BY <2>1, <3>1, <3>2
  <2>2. CASE e \notin S
    BY <2>2, <1>3, <1>5, <1>6, SMTT(30)
  <2> QED
    BY <2>1, <2>2
<1>8. SpacesOf(n, D) = [e \in D |-> IF e \in S THEN [sp[e] EXCEPT ![v] = x] ELSE sp[e]]
  BY <1>7 DEF SpacesOf
<1>9. \A e \in D : {s \in Tables : Common(n, e, s)} =
                     IF e = d /\ d = base_dir THEN sh[e] \cup {t} ELSE sh[e]
  BY <1>1, <1>2, <1>4, SMTT(30)
<1>10. SharedOf(n, D) = [e \in D |-> IF e = d /\ d = base_dir THEN sh[e] \cup {t} ELSE sh[e]]
  BY <1>9 DEF SharedOf, Common
<1>11. sh = [e \in D |-> sh[e]]
  BY DEF SharedOf
<1>12. SharedOf(n, D) = [sh EXCEPT ![d] = IF d = base_dir THEN @ \cup {t} ELSE @]
  BY <1>10, <1>11
<1>13. n[d][t] = f
  BY EditedRows, SMTT(30) DEF t
<1>14. SpacesOf(n, D)[d][v] = x
  BY <1>2, <1>3, <1>13 DEF SpacesOf
<1> QED
  BY <1>8, <1>12, <1>14 DEF S, t

\* A round at a window changes no page, for the window is mapped already.
LEMMA EditedWindow ==
  ASSUME NEW m \in Memory, NEW F, NEW D, Apart(m, F, D), NEW d \in D,
         NEW v \in Nat, tid(v) \in Tables, NEW f \in ({base_table} \cup Ram) \ {d},
         NEW n, NEW x, Edited(m, n, F, d, v, f, x), v \in Window
  PROVE  SpacesOf(n, D) = SpacesOf(m, D) /\ SharedOf(n, D) = SharedOf(m, D)
<1>1. \A e \in D, u \in Pages : Walk(n, e, u) = Walk(m, e, u)
  BY PageIs, EditedWalk, SMTT(30)
<1>2. SpacesOf(n, D) = SpacesOf(m, D)
  BY <1>1 DEF SpacesOf
<1>3. \A e \in D, s \in Tables :
         Common(n, e, s) <=> Common(m, e, s) \/ (e = d /\ d = base_dir /\ s = tid(v))
  BY EditedSharers, SMTT(30)
<1>4. tid(v) = 0
  <2>1. v < N
    BY VmmAssumption, SMTT(30) DEF Window, dir, table
  <2> QED
    BY <2>1, FirstTable
<1>5. Common(m, base_dir, 0)
  BY Numbers, SMTT(30) DEF Common, Apart
<1>6. \A e \in D : {s \in Tables : Common(n, e, s)} = {s \in Tables : Common(m, e, s)}
  BY <1>3, <1>4, <1>5
<1>7. SharedOf(n, D) = SharedOf(m, D)
  BY <1>6 DEF SharedOf, Common
<1> QED
  BY <1>2, <1>7

\* Memory n is m with a as a copy of the directory of the kernel.
Forked(m, n, a) ==
    /\ n[a] = m[base_dir]
    /\ \A y \in Frames \ {a, base_table} : n[y] = m[y]
    /\ \A j \in Entry : n[base_table][j] = m[base_table][j]

\* What spaces g are with one more, which is as the kernel's.
Grown(g, D, a) == [e \in D \cup {a} |-> IF e = a THEN g[base_dir] ELSE g[e]]

\* A fork gives the new space what the kernel has.
LEMMA ForkSpaces ==
  ASSUME NEW m, NEW n, NEW F, NEW D, NEW a \in F, Apart(m, F, D), Forked(m, n, a),
         NEW sp, sp = SpacesOf(m, D), NEW sh, sh = SharedOf(m, D)
  PROVE  /\ a \notin D
         /\ SpacesOf(n, D \cup {a}) = Grown(sp, D, a)
         /\ SharedOf(n, D \cup {a}) = Grown(sh, D, a)
<1>1. a \notin D /\ base_dir \in D /\ a \in Ram /\ D \subseteq {base_dir} \cup Ram
  BY DEF Apart
<1>0. /\ n[a] = m[base_dir]
      /\ \A y \in Frames \ {a, base_table} : n[y] = m[y]
      /\ \A j \in Entry : n[base_table][j] = m[base_table][j]
  BY DEF Forked
<1>2. \A e \in D : n[e] = m[e]
  BY <1>0, <1>1, ApartDir, SMTT(30)
<1> DEFINE of(e) == IF e = a THEN base_dir ELSE e
<1>3. \A e \in D \cup {a} : of(e) \in D /\ n[e] = m[of(e)]
  BY <1>0, <1>1, <1>2
<1>4. n[base_dir] = m[base_dir]
  BY <1>1, <1>2
<1> HIDE DEF of
<1>5. ASSUME NEW e \in D \cup {a}, NEW u \in Pages
      PROVE  Walk(n, e, u) = Walk(m, of(e), u)
  <2> DEFINE g == m[of(e)][tid(u)]
             i == pid(u)
  <2>1. n[e][tid(u)] = g /\ tid(u) \in Tables /\ i \in Entry /\ of(e) \in D
    BY <1>3, <1>5, PageIs, Offsets
  <2>2. CASE g = NULL
    BY <2>1, <2>2 DEF Walk
  <2>3. CASE g # NULL
    <3>1. g \in {base_table} \cup Ram /\ g \notin F
      BY <2>1, <2>3, ApartTable, SMTT(30)
    <3> HIDE DEF g, i
    <3>2. n[g][i] = m[g][i]
      <4>1. CASE g = base_table
        BY <4>1, <2>1, <1>0
      <4>2. CASE g # base_table
        <5>1. g \in Frames \ {a, base_table}
          BY <4>2, <3>1, Numbers
        <5> QED
          BY <5>1, <1>0
      <4> QED
        BY <4>1, <4>2
    <3> QED
      BY <2>1, <2>3, <3>2 DEF Walk, g, i
  <2> QED
    BY <2>2, <2>3
<1>6. \A e \in D \cup {a} : [u \in Pages |-> Walk(n, e, u)] = [u \in Pages |-> Walk(m, of(e), u)]
  BY <1>5
<1>7. \A e \in D : sp[e] = [u \in Pages |-> Walk(m, e, u)]
  BY DEF SpacesOf
<1>8. \A e \in D \cup {a} : [u \in Pages |-> Walk(n, e, u)] = sp[of(e)]
  BY <1>3, <1>6, <1>7
<1>9. SpacesOf(n, D \cup {a}) = [e \in D \cup {a} |-> sp[of(e)]]
  BY <1>8 DEF SpacesOf
<1>10. \A e \in D \cup {a} : {t \in Tables : n[e][t] # NULL /\ n[e][t] = n[base_dir][t]} = sh[of(e)]
  BY <1>3, <1>4 DEF SharedOf
<1>11. SharedOf(n, D \cup {a}) = [e \in D \cup {a} |-> sh[of(e)]]
  BY <1>10 DEF SharedOf
<1> QED
  BY <1>1, <1>9, <1>11 DEF of, Grown

-----------------------------------------------------------------------------
(* The refinement.                                                         *)

LEMMA PromisedInit ==
  ASSUME Init
  PROVE  Promised!Init
<1>1. dirs = {base_dir}
  BY DEF Init
<1> QED
  BY <1>1 DEF Promised!Init

LEMMA PromisedStep ==
  ASSUME VmmIInv, [Next]_vars
  PROVE  Promised!Next \/ UNCHANGED Promised!vars
<1> DEFINE sp == SpacesOf(mem, dirs)
           sh == SharedOf(mem, dirs)
<1>1. mem \in Memory /\ Apart(mem, free, dirs) /\ base_dir \in dirs
  BY DEF VmmIInv, TypeOK, Apart
<1>2. ASSUME SpacesOf(mem', dirs') = sp, SharedOf(mem', dirs') = sh PROVE UNCHANGED Promised!vars
  BY <1>2 DEF Promised!vars, SpacesOf, SharedOf
<1>3. CASE Quiet(mem, mem') /\ dirs' = dirs
  BY <1>1, <1>2, <1>3, QuietSpaces, SMTT(30)
<1>4. CASE OnePage
  <2>1. PICK d \in dirs, v \in Nat : \E f \in ({base_table} \cup Ram) \ {d} : \E x :
          tid(v) \in Tables /\ Edited(mem, mem', free, d, v, f, x)
    BY <1>4 DEF OnePage
  <2>2. PICK f \in ({base_table} \cup Ram) \ {d} : \E x :
          tid(v) \in Tables /\ Edited(mem, mem', free, d, v, f, x)
    BY <2>1
  <2>3. PICK x : tid(v) \in Tables /\ Edited(mem, mem', free, d, v, f, x)
    BY <2>2
  <2>4. dirs' = dirs
    BY <1>4 DEF OnePage
  <2>5. CASE v \in Window
    BY <2>3, <2>4, <2>5, <1>1, <1>2, EditedWindow, SMTT(30)
  <2>6. CASE v \notin Window
    <3>1. /\ SpacesOf(mem', dirs) =
               [e \in dirs |->
                  IF e \in (IF tid(v) \in sh[d] THEN {a \in dirs : tid(v) \in sh[a]} ELSE {d})
                  THEN [sp[e] EXCEPT ![v] = x] ELSE sp[e]]
          /\ SharedOf(mem', dirs) = [sh EXCEPT ![d] = IF d = base_dir THEN @ \cup {tid(v)} ELSE @]
          /\ SpacesOf(mem', dirs)[d][v] = x
      BY <2>3, <2>6, <1>1, EditedSpaces, SMTT(30)
    <3>2. v \in Pages
      BY <2>3, <2>6, IsPage
    <3>3. Promised!Edit(d, v, x)
      BY <3>1, <2>4 DEF Promised!Edit, Promised!Sharers, SpacesOf, SharedOf
    <3>4. d \in DOMAIN [e \in dirs |-> [u \in Pages |-> Walk(mem, e, u)]]
      OBVIOUS
    <3>5. x = ([e \in dirs |-> [u \in Pages |-> Walk(mem, e, u)]]')[d][v]
      BY <3>1, <2>4 DEF SpacesOf
    <3>6. Promised!Edit(d, v, ([e \in dirs |-> [u \in Pages |-> Walk(mem, e, u)]]')[d][v])
      BY <3>3, <3>5 DEF Promised!Edit
    <3>7. Promised!Next
      BY <3>2, <3>4, <3>6 DEF Promised!Next, Promised!Edit
    <3> QED
      BY <3>7
  <2> QED
    BY <2>5, <2>6
<1>5. ASSUME NEW c \in Cores, vmm_fork_kernel_space(c) PROVE Promised!Next
  <2> DEFINE a == Min(free)
  <2>1. a \in free /\ dirs' = dirs \cup {a} /\ Forked(mem, mem', a)
    BY <1>5, ForkIs DEF Forked
  <2> HIDE DEF a
  <2>2. /\ a \notin dirs
        /\ SpacesOf(mem', dirs \cup {a}) = Grown(sp, dirs, a)
        /\ SharedOf(mem', dirs \cup {a}) = Grown(sh, dirs, a)
    BY <2>1, <1>1, ForkSpaces, SMTT(30)
  <2>3. Promised!Fork(a)
    BY <2>1, <2>2 DEF Promised!Fork, Grown, SpacesOf, SharedOf
  <2>4. a \in DOMAIN [e \in dirs |-> [u \in Pages |-> Walk(mem, e, u)]]'
    BY <2>1
  <2> QED
    BY <2>3, <2>4 DEF Promised!Next, Promised!Fork
<1> QED
  BY <1>3, <1>4, <1>5, StepIs

\* The page tables implement address spaces: a round of vmm_map_pages,
\* vmm_remap_pages or vmm_unmap_pages changes one page, in the space it names
\* and in those that share the kernel's table for it; vmm_fork_kernel_space
\* makes a space that has what the kernel has; and nothing else changes a page.
THEOREM TablesImplementSpaces == Spec => ImplementsSpaces
<1>1. Init => Promised!Init
  BY PromisedInit, SMTT(30)
<1>2. VmmIInv /\ [Next]_vars => [Promised!Next]_(Promised!vars)
  BY PromisedStep
<1> QED
  BY <1>1, <1>2, VmmInductive, PTL DEF Spec, ImplementsSpaces, Promised!Spec
=============================================================================
