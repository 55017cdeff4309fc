---------------------------------- MODULE Vmm ----------------------------------
(***************************************************************************)
(* The virtual memory manager, vmm.c.  A page directory or table anywhere  *)
(* in memory is reached through two windows, the pages of _dir and _table: *)
(* their entries in _base_table are pointed at the frame to be read or     *)
(* written, and back at the pages themselves afterwards.  Each core keeps  *)
(* the translation of a window it has used until it invalidates it.        *)
(*                                                                         *)
(* Virtual pages, frames and table entries are numbered; N is the number   *)
(* of entries of a table.  vmm.c has no lock: one call runs at a time.     *)
(***************************************************************************)
EXTENDS Integers, FiniteSets, FiniteSetsExt

CONSTANTS Cores, boot_core,
          N,             \* entries per table, 1024
          Tables,        \* directory entries in use
          Ram,           \* the frames pmm_alloc has
          Calls,         \* what is called: kind, virt, phys and count
          NULL

\* The first N frames, which base_table maps one to one: the page at address
\* zero, the two base tables and the two windows.
base_dir == 1
base_table == 2
dir == 3
table == 4
Kernel == [kind |-> "map", virt |-> 1, phys |-> 1, count |-> 4]

ASSUME VmmAssumption ==
    /\ N \in Nat /\ N > table /\ Tables \subseteq 0 .. N - 1 /\ 0 \in Tables
    /\ Ram \subseteq Nat /\ \A f \in Ram : f >= N
    /\ boot_core \in Cores
    /\ Calls \subseteq [kind : {"map", "remap", "unmap", "query"},
                        virt : Nat, phys : Nat, count : Nat]
    /\ \A r \in Calls :
          /\ r.kind = "query" => r.count = 1
          /\ \A v \in r.virt .. r.virt + r.count - 1 :
                v \div N \in Tables /\ (v \in 1 .. 4 => r.kind = "map")
    /\ NULL \notin Nat
    /\ NULL \notin [core : Cores, page_dir : Nat, call : Calls \cup {Kernel}, left : Nat,
                    at : Nat, phys : Nat, ret : Nat \cup {NULL}, open : BOOLEAN]

VARIABLES
    mem,       \* frame |-> entry |-> the frame it points to, NULL if not present
    free,      \* the frames pmm.c has left
    dirs,      \* the page directories there are
    cr3,       \* core |-> its page directory
    tlb,       \* core |-> window |-> its translation, NULL if not held
    paging,    \* CR0.PG of the boot core
    op         \* the call that runs

vars == <<mem, free, dirs, cr3, tlb, paging, op>>

Entry == 0 .. N - 1
Absent == [i \in Entry |-> NULL]
Frames == 0 .. 4 \cup Ram

\* vmm_virt_to_offs.
tid(v) == v \div N
pid(v) == v % N

\* What the hardware makes of page v in the directory d of memory m.
Walk(m, d, v) ==
    IF m[d][tid(v)] = NULL THEN NULL ELSE m[m[d][tid(v)]][pid(v)]

-----------------------------------------------------------------------------
(* The windows.  s is the memory with the free frames and the translations *)
(* held, as [mem, free, tlb].                                              *)

\* The frame core c reaches through the window w: without paging the window is
\* the page itself.
Seen(s, c, w) ==
    IF ~paging THEN w
    ELSE IF s.tlb[c][w] # NULL THEN s.tlb[c][w] ELSE Walk(s.mem, cr3[c], w)

\* After an access the translation is held.
Used(s, c, w) == IF paging THEN [s EXCEPT !.tlb[c][w] = Seen(s, c, w)] ELSE s

Read(s, c, w, i) == s.mem[Seen(s, c, w)][i]
Write(s, c, w, i, f) == [Used(s, c, w) EXCEPT !.mem[Seen(s, c, w)][i] = f]
Zero(s, c, w) == [Used(s, c, w) EXCEPT !.mem[Seen(s, c, w)] = Absent]

\* Mutant: the translation is not invalidated.
Open_NoInvlpg(s, c, w, f) == [s EXCEPT !.mem[base_table][w] = f]

\* open_dir and open_table.
Open(s, c, w, f) ==
    IF s.mem[base_table][w] = f THEN s
    ELSE [s EXCEPT !.mem[base_table][w] = f, !.tlb[c][w] = NULL]

\* close_dir and close_table.
Close(s, c, w) == Open(s, c, w, w)

\* Mutant: the new table is not cleared.
ensure_table_Dirty(s, c, t) ==
    LET new == Min(s.free)
        opened == Open([Used(s, c, dir) EXCEPT !.free = @ \ {new}], c, table, new)
    IN IF Read(s, c, dir, t) # NULL THEN Used(s, c, dir)
       ELSE Write(Close(opened, c, table), c, dir, t, new)

ensure_table(s, c, t) ==
    LET new == Min(s.free)
        opened == Open([Used(s, c, dir) EXCEPT !.free = @ \ {new}], c, table, new)
    IN IF Read(s, c, dir, t) # NULL THEN Used(s, c, dir)
       ELSE Write(Close(Zero(opened, c, table), c, table), c, dir, t, new)

\* The table of page v, behind the window.
OpenTableOf(s, c, v) == Used(Open(s, c, table, Read(s, c, dir, tid(v))), c, table)

-----------------------------------------------------------------------------
(* The calls.  op counts the pages left and holds the page it is at.       *)

\* The memory setup, up to the mapping of the kernel, which runs before paging
\* is on.  Free frames hold anything, here what looks like entries.
Init ==
    /\ mem = [f \in Frames |->
                 CASE f = base_dir   -> [Absent EXCEPT ![0] = base_table]
                   [] f = base_table -> [i \in Entry |-> i]
                   [] f \in Ram       -> [i \in Entry |-> 0]
                   [] OTHER           -> Absent]
    /\ free = Ram
    /\ dirs = {base_dir}
    /\ cr3 = [c \in Cores |-> base_dir]
    /\ tlb = [c \in Cores |-> [w \in {dir, table} |-> NULL]]
    /\ paging = FALSE
    /\ op = [core |-> boot_core, page_dir |-> base_dir, call |-> Kernel,
             left |-> Kernel.count, at |-> Kernel.virt, phys |-> Kernel.phys, ret |-> 0,
             open |-> FALSE]

Machine == [mem |-> mem, free |-> free, tlb |-> tlb]

Becomes(s) == mem' = s.mem /\ free' = s.free /\ tlb' = s.tlb

vmm_enable_paging ==
    /\ ~paging /\ op = NULL
    /\ paging' = TRUE
    /\ UNCHANGED <<mem, free, dirs, cr3, tlb, op>>

\* A caller; vmm_map, vmm_remap and vmm_unmap name the directory of the core.
Call(c, d, r) ==
    /\ paging /\ op = NULL
    /\ op' = [core |-> c, page_dir |-> d, call |-> r, left |-> r.count, at |-> r.virt,
              phys |-> r.phys, ret |-> IF r.kind = "query" THEN NULL ELSE 0, open |-> FALSE]
    /\ UNCHANGED <<mem, free, dirs, cr3, tlb, paging>>

OpenDir ==
    /\ op # NULL /\ ~op.open
    /\ Becomes(Open(Machine, op.core, dir, op.page_dir))
    /\ op' = [op EXCEPT !.open = TRUE]
    /\ UNCHANGED <<dirs, cr3, paging>>

\* The head of one round of the loops.
Round(kind) == op # NULL /\ op.open /\ op.left > 0 /\ op.call.kind = kind

\* The rest of it: the entry is written if it differs, and what comes next.
Ensured == OpenTableOf(ensure_table(Machine, op.core, tid(op.at)), op.core, op.at)
HasTable == Read(Machine, op.core, dir, tid(op.at)) # NULL \/ free # {}
Present(s) == Read(s, op.core, table, pid(op.at)) # NULL
Set(s, f) == Write(s, op.core, table, pid(op.at), f)

\* vmm_map_pages: a page that is present stays, and the loop stays at it.
MapPage ==
    /\ Round("map") /\ HasTable
    /\ LET s == Ensured IN
       IF Present(s)
       THEN Becomes(s) /\ op' = [op EXCEPT !.left = @ - 1, !.ret = 1]
       ELSE /\ Becomes(Set(s, op.phys))
            /\ op' = [op EXCEPT !.left = @ - 1, !.at = @ + 1, !.phys = @ + 1]
    /\ UNCHANGED <<dirs, cr3, paging>>

RemapPage ==
    /\ Round("remap") /\ HasTable
    /\ Becomes(Set(Ensured, op.phys))
    /\ op' = [op EXCEPT !.left = @ - 1, !.at = @ + 1, !.phys = @ + 1]
    /\ UNCHANGED <<dirs, cr3, paging>>

\* Mutant: as in vmm_map_pages, the loop stays at a page it has nothing to do for.
UnmapPage_Stays ==
    /\ Round("unmap") /\ HasTable
    /\ LET s == Ensured IN
       IF Present(s)
       THEN Becomes(Set(s, NULL)) /\ op' = [op EXCEPT !.left = @ - 1, !.at = @ + 1]
       ELSE Becomes(s) /\ op' = [op EXCEPT !.left = @ - 1, !.ret = 1]
    /\ UNCHANGED <<dirs, cr3, paging>>

UnmapPage ==
    /\ Round("unmap") /\ HasTable
    /\ LET s == Ensured IN
       /\ Becomes(IF Present(s) THEN Set(s, NULL) ELSE s)
       /\ op' = [op EXCEPT !.left = @ - 1, !.at = @ + 1,
                           !.ret = IF Present(s) THEN @ ELSE 1]
    /\ UNCHANGED <<dirs, cr3, paging>>

\* virt_to_phys: no table is made.
Query ==
    /\ Round("query")
    /\ LET s == Used(Machine, op.core, dir)
           t == OpenTableOf(s, op.core, op.at)
       IN IF Read(s, op.core, dir, tid(op.at)) = NULL
          THEN Becomes(s) /\ op' = [op EXCEPT !.left = 0]
          ELSE /\ Becomes(t)
               /\ op' = [op EXCEPT !.left = 0, !.ret = Read(t, op.core, table, pid(op.at))]
    /\ UNCHANGED <<dirs, cr3, paging>>

Return ==
    /\ op # NULL /\ op.open /\ op.left = 0
    /\ Becomes(Close(Close(Machine, op.core, table), op.core, dir))
    /\ op' = NULL
    /\ UNCHANGED <<dirs, cr3, paging>>

vmm_fork_kernel_space(c) ==
    /\ paging /\ op = NULL /\ free # {}
    /\ LET new == Min(free)
           s == Zero(Open([Machine EXCEPT !.free = @ \ {new}], c, dir, new), c, dir)
           copied == [s EXCEPT !.mem[Seen(s, c, dir)] =
                         [i \in Entry |-> IF mem[base_dir][i] # NULL THEN mem[base_dir][i]
                                                                      ELSE @[i]]]
       IN Becomes(Close(copied, c, dir)) /\ dirs' = dirs \cup {new}
    /\ UNCHANGED <<cr3, paging, op>>

\* vmm_set_cr3, and vmm_replace_cr3 for a directory other than the current one:
\* every translation is dropped.
vmm_set_cr3(c, d) ==
    /\ paging /\ d # cr3[c]
    /\ (op # NULL => op.core # c)
    /\ cr3' = [cr3 EXCEPT ![c] = d]
    /\ tlb' = [tlb EXCEPT ![c] = [w \in {dir, table} |-> NULL]]
    /\ UNCHANGED <<mem, free, dirs, paging, op>>

Next ==
    \/ vmm_enable_paging
    \/ \E c \in Cores, d \in dirs, r \in Calls : Call(c, d, r)
    \/ OpenDir
    \/ MapPage
    \/ RemapPage
    \/ UnmapPage
    \/ Query
    \/ Return
    \/ \E c \in Cores : vmm_fork_kernel_space(c)
    \/ \E c \in Cores, d \in dirs : vmm_set_cr3(c, d)

Spec == Init /\ [][Next]_vars
-----------------------------------------------------------------------------
(* What the manager keeps.                                                 *)

Pages == {v \in 0 .. N * N - 1 : tid(v) \in Tables /\ v \notin {dir, table}}
TablesOf(d) == {mem[d][t] : t \in Tables} \ {NULL}

\* Between calls both windows show their own pages, on every core.  No frame is
\* two tables, or a table and a directory, and none of them is free; a process
\* has a table in common with another only where the kernel has the same.  The
\* mapping of the kernel, made before paging is on, has left the base tables as
\* they were.
VmmInv ==
    /\ op = NULL => /\ mem[base_table][dir] = dir /\ mem[base_table][table] = table
                    /\ \A c \in Cores, w \in {dir, table} : tlb[c][w] \in {NULL, w}
    /\ ~paging => \A v \in 0 .. N - 1 \ {dir, table} : Walk(mem, base_dir, v) = v
    /\ free \cap (dirs \cup UNION {TablesOf(d) : d \in dirs}) = {}
    /\ \A d, e \in dirs : d \notin TablesOf(e)
    /\ \A d, e \in dirs : \A t, u \in Tables :
           mem[d][t] # NULL /\ mem[d][t] = mem[e][u]
               => t = u /\ (d = e \/ mem[base_dir][t] = mem[d][t])

\* What a call returns is true of the page tables.  virt_to_phys returns what
\* the hardware would find; vmm_unmap_pages leaves no page of the range; a
\* vmm_map_pages that returns 0, and any vmm_remap_pages, leaves the whole range
\* mapped; a vmm_map_pages that returns 1 has mapped the range up to a page that
\* was there already, and nothing from there on.
Returns ==
    LET first == op.call.virt
        Maps(v) == Walk(mem, op.page_dir, v)
        MapsTo(last) == \A v \in first .. last : Maps(v) = op.call.phys + (v - first)
        last == first + op.call.count - 1
    IN op # NULL /\ op.left = 0 =>
          /\ op.call.kind = "query" => op.ret = Maps(first)
          /\ op.call.kind = "unmap" => \A v \in first .. last : Maps(v) = NULL
          /\ op.call.kind = "remap" => MapsTo(last)
          /\ op.call.kind = "map" =>
                IF op.ret = 0 THEN paging => MapsTo(last)
                              ELSE MapsTo(op.at - 1) /\ Maps(op.at) # NULL

Promised == INSTANCE AddressSpaces WITH
    Base <- base_dir, RegionOf <- tid,
    spaces <- [d \in dirs |-> [v \in Pages |-> Walk(mem, d, v)]],
    shared <- [d \in dirs |->
                 {t \in Tables : mem[d][t] # NULL /\ mem[d][t] = mem[base_dir][t]}]

\* The tables implement address spaces: a call changes one page at a time, in
\* the space it names and in those that share the kernel's table for it, and a
\* forked space starts with exactly what the kernel has mapped.
ImplementsSpaces == Promised!Spec
=============================================================================
