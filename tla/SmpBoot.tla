-------------------------------- MODULE SmpBoot --------------------------------
(***************************************************************************)
(* The launch of the application processors (APs): smp_launch_cpus on the  *)
(* bootstrap processor against the trampoline and smp_entry_point on the   *)
(* others.  They share one information block at 0x500, one stack at 0xA000 *)
(* and the TSS slot of the one descriptor table, and synchronise only by   *)
(* the status byte of the block and by waiting for fixed times.            *)
(*                                                                         *)
(* Time.  A wait of smp_launch_cpus is long enough for one phase of an AP: *)
(* from the start-up interrupt to status 1, to status 2, to status 3, and  *)
(* to the scheduler.  The cores of late keep no such bound.                *)
(***************************************************************************)
EXTENDS Integers, Sequences, FiniteSets, Functions

CONSTANTS madt_cpu,   \* the cores in the order of the MADT
          BSP,        \* the core that runs smp_launch_cpus
          Usable,     \* the cores with cpu_flags & 3
          NULL

CPUs == Range(madt_cpu)
APs == CPUs \ {BSP}

ASSUME CpuAssumption ==
    /\ madt_cpu \in Seq(CPUs) /\ IsInjective(madt_cpu)
    /\ BSP \in CPUs /\ Usable \subseteq CPUs /\ NULL \notin CPUs

VARIABLES
    pc,                 \* of the BSP
    id, try,            \* its loops
    since,              \* the phase of each core when the BSP began to wait
    status,             \* smp_info_ptr->status
    filled,             \* the other fields of the block are not zero
    mapped,             \* the block and the trampoline are mapped
    smp_boot_counter,
    ap,                 \* the control point of each core
    tss,                \* the core whose TSS the shared descriptor names
    tr,                 \* the TSS each core has loaded
    report,             \* what the BSP has printed of each core
    late                \* the cores that may be slower than the waits; it never changes

info == <<status, filled>>
bsp == <<pc, id, try, since, report, late>>
vars == <<pc, id, try, since, status, filled, mapped, smp_boot_counter, ap, tss, tr, report, late>>

-----------------------------------------------------------------------------
(* The control points of an AP, with the instruction that comes next:      *)
(*   "wait"    reset by INIT, or never started                             *)
(*   "sipi"    mov [status], 1                                             *)
(*   "real"    reads of gdt_ptr, cr3, esp and entry                        *)
(*   "loaded"  mov [status], 2                                             *)
(*   "count"   lock inc [smp_boot_counter]                                 *)
(*   "entry"   gdt_set_gate_base in tss_init                               *)
(*   "ltr"     tss_flush                                                   *)
(*   "conf"    info->status = 3                                            *)
(*   "ready"   the yield that leaves the boot stack                        *)
(*   "sched"   in the scheduler                                            *)
(*   "wild"    it has read the block while it was cleared or unmapped      *)

OnBootStack(c) == ap[c] \in {"loaded", "count", "entry", "ltr", "conf", "ready"}
Up(c) == ap[c] \in {"ready", "sched"}

\* How far a core at control point p has come.
Phase(p) == CASE p = "wait" -> 0
              [] p = "sipi" -> 1
              [] p \in {"real", "loaded"} -> 2
              [] p \in {"count", "entry", "ltr", "conf"} -> 3
              [] p = "ready" -> 4
              [] OTHER -> 5

cpu == madt_cpu[id]

Init ==
    /\ pc = "map" /\ id = 1 /\ try = 0 /\ since = [c \in CPUs |-> 0]
    /\ status = 0 /\ filled = FALSE /\ mapped = TRUE
    /\ smp_boot_counter = 1
    /\ ap = [c \in CPUs |-> IF c = BSP THEN "sched" ELSE "wait"]
    /\ tss = BSP /\ tr = [c \in CPUs |-> IF c = BSP THEN BSP ELSE NULL]
    /\ report = [c \in CPUs |-> "none"]
    /\ late \in SUBSET (APs \cap Usable)

-----------------------------------------------------------------------------
(* smp_launch_cpus.                                                        *)

Goto(here, there) == pc = here /\ pc' = there

\* vmm_remap, the copy of the trampoline and the first memset.
Prepare ==
    /\ Goto("map", "next")
    /\ mapped' = TRUE /\ status' = 0 /\ filled' = FALSE
    /\ UNCHANGED <<id, try, since, smp_boot_counter, ap, tss, tr, report, late>>

\* The head of list_for_each: the BSP and unusable cores are passed over.
NextCpu ==
    /\ pc = "next" /\ id \in DOMAIN madt_cpu
    /\ IF cpu # BSP /\ cpu \in Usable
       THEN pc' = "clear" /\ UNCHANGED id
       ELSE id' = id + 1 /\ UNCHANGED pc
    /\ UNCHANGED <<try, since, info, mapped, smp_boot_counter, ap, tss, tr, report, late>>

\* memset of the block, ...
Clear ==
    /\ Goto("clear", "fill")
    /\ status' = 0 /\ filled' = FALSE
    /\ UNCHANGED <<id, try, since, mapped, smp_boot_counter, ap, tss, tr, report, late>>

\* ... and its new contents, the same for all cores.
Fill ==
    /\ Goto("fill", "init")
    /\ status' = 0 /\ filled' = TRUE /\ try' = 0
    /\ UNCHANGED <<id, since, mapped, smp_boot_counter, ap, tss, tr, report, late>>

\* A wait starts, with the cores at the points "at": sleep_no_task.
Sleep(at) == since' = [c \in CPUs |-> Phase(at[c])]

\* A wait ends: the cores that are not late have completed a phase.
Slept == \A c \in CPUs \ late : Phase(ap[c]) \in {0, 5} \/ Phase(ap[c]) > since[c]

\* smp_send_ipi(0x500) resets the core, whatever it does.
SendInit ==
    /\ Goto("init", "initwait")
    /\ ap' = [ap EXCEPT ![cpu] = "wait"]
    /\ Sleep(ap')
    /\ UNCHANGED <<id, try, info, mapped, smp_boot_counter, tss, tr, report, late>>

\* smp_send_ipi(0x601) starts a core that waits for it, or is lost.
SendSipi ==
    /\ Goto("initwait", "sipiwait") /\ Slept
    /\ \/ ap' = [ap EXCEPT ![cpu] = "sipi"]
       \/ UNCHANGED ap
    /\ Sleep(ap')
    /\ UNCHANGED <<id, try, info, mapped, smp_boot_counter, tss, tr, report, late>>

\* Mutant: the second try is made whatever the status is.
CheckStatus_Always ==
    /\ pc = "sipiwait" /\ Slept
    /\ \/ status > 0 /\ try = 1 /\ pc' = "one" /\ UNCHANGED <<id, try>>
       \/ try = 0 /\ pc' = "init" /\ try' = 1 /\ UNCHANGED id
       \/ status = 0 /\ try = 1 /\ pc' = "next" /\ id' = id + 1 /\ UNCHANGED try
    /\ UNCHANGED <<since, info, mapped, smp_boot_counter, ap, tss, tr, report, late>>

\* Mutant: it tries until the core answers.
CheckStatus_Forever ==
    /\ pc = "sipiwait" /\ Slept
    /\ pc' = IF status > 0 THEN "one" ELSE "init"
    /\ try' = 1 /\ UNCHANGED id
    /\ UNCHANGED <<since, info, mapped, smp_boot_counter, ap, tss, tr, report, late>>

\* if (status > 0), or the next try, or the next core.
CheckStatus ==
    /\ pc = "sipiwait" /\ Slept
    /\ \/ status > 0 /\ pc' = "one" /\ UNCHANGED <<id, try>>
       \/ status = 0 /\ try = 0 /\ pc' = "init" /\ try' = 1 /\ UNCHANGED id
       \/ status = 0 /\ try = 1 /\ pc' = "next" /\ id' = id + 1 /\ UNCHANGED try
    /\ UNCHANGED <<since, info, mapped, smp_boot_counter, ap, tss, tr, report, late>>

\* if (status == 1) wait
CheckStuck ==
    /\ pc = "one"
    /\ IF status = 1 THEN pc' = "onewait" /\ Sleep(ap)
                     ELSE pc' = "two" /\ UNCHANGED since
    /\ UNCHANGED <<id, try, info, mapped, smp_boot_counter, ap, tss, tr, report, late>>

\* Mutant: no second wait.
CheckConfiguring_NoWait ==
    /\ pc = "two" \/ (pc = "onewait" /\ Slept)
    /\ pc' = "three" /\ UNCHANGED since
    /\ UNCHANGED <<id, try, info, mapped, smp_boot_counter, ap, tss, tr, report, late>>

\* if (status == 2) wait
CheckConfiguring ==
    /\ pc = "two" \/ (pc = "onewait" /\ Slept)
    /\ IF status = 2 THEN pc' = "twowait" /\ Sleep(ap)
                     ELSE pc' = "three" /\ UNCHANGED since
    /\ UNCHANGED <<id, try, info, mapped, smp_boot_counter, ap, tss, tr, report, late>>

\* The report, break, and the next core.
Report ==
    /\ pc = "three" \/ (pc = "twowait" /\ Slept)
    /\ pc' = "next" /\ id' = id + 1
    /\ report' = [report EXCEPT ![cpu] = IF status = 3 THEN "booted" ELSE "failed"]
    /\ UNCHANGED <<try, since, info, mapped, smp_boot_counter, ap, tss, tr, late>>

\* vmm_unmap and the return.
Finish ==
    /\ pc = "next" /\ id = Len(madt_cpu) + 1
    /\ pc' = "done" /\ mapped' = FALSE
    /\ UNCHANGED <<id, try, since, info, smp_boot_counter, ap, tss, tr, report, late>>

\* v86_init maps low memory again.
StartV86 ==
    /\ Goto("done", "v86") /\ mapped' = TRUE
    /\ UNCHANGED <<id, try, since, info, smp_boot_counter, ap, tss, tr, report, late>>

-----------------------------------------------------------------------------
(* An AP.  Before it turns paging on it uses physical addresses.           *)

ApGoto(c, here, there) == ap[c] = here /\ ap' = [ap EXCEPT ![c] = there]

\* smp_trampoline up to the status.
ApStart(c) ==
    /\ ApGoto(c, "sipi", "real")
    /\ status' = 1
    /\ UNCHANGED <<bsp, filled, mapped, smp_boot_counter, tss, tr>>

\* The rest of the trampoline.
ApLoad(c) ==
    /\ ApGoto(c, "real", IF filled /\ mapped THEN "loaded" ELSE "wild")
    /\ UNCHANGED <<bsp, info, mapped, smp_boot_counter, tss, tr>>

\* smp_loaded: the status, ...
ApConfigure(c) ==
    /\ ApGoto(c, "loaded", IF mapped THEN "count" ELSE "wild")
    /\ status' = IF mapped THEN 2 ELSE status
    /\ UNCHANGED <<bsp, filled, mapped, smp_boot_counter, tss, tr>>

\* Mutant: the count is not taken.
ApCount_Forgets(c) ==
    /\ ApGoto(c, "count", "entry")
    /\ UNCHANGED <<bsp, info, mapped, smp_boot_counter, tss, tr>>

\* ... and the atomic count.
ApCount(c) ==
    /\ ApGoto(c, "count", "entry")
    /\ smp_boot_counter' = (smp_boot_counter + 1) % 256
    /\ UNCHANGED <<bsp, info, mapped, tss, tr>>

\* Mutant: the task register is loaded before the descriptor is written.
ApSetTss_Swapped(c) ==
    /\ ApGoto(c, "entry", "conf")
    /\ tr' = [tr EXCEPT ![c] = tss] /\ tss' = c
    /\ UNCHANGED <<bsp, info, mapped, smp_boot_counter>>

\* smp_entry_point: tss_init writes the shared descriptor, ...
ApSetTss(c) ==
    /\ ApGoto(c, "entry", "ltr")
    /\ tss' = c
    /\ UNCHANGED <<bsp, info, mapped, smp_boot_counter, tr>>

\* ... loads it, ...
ApLoadTss(c) ==
    /\ ApGoto(c, "ltr", "conf")
    /\ tr' = [tr EXCEPT ![c] = tss]
    /\ UNCHANGED <<bsp, info, mapped, smp_boot_counter, tss>>

\* ... and after idt_init and sched_init_core the core is ready.
ApReady(c) ==
    /\ ApGoto(c, "conf", IF mapped THEN "ready" ELSE "wild")
    /\ status' = IF mapped THEN 3 ELSE status
    /\ UNCHANGED <<bsp, filled, mapped, smp_boot_counter, tss, tr>>

\* syscall0(2) leaves the boot stack for the idle thread of the core; only cores
\* that yield at the same moment could find _sched_lock taken, and be late.
ApLeave(c) ==
    /\ ApGoto(c, "ready", "sched")
    /\ UNCHANGED <<bsp, info, mapped, smp_boot_counter, tss, tr>>

ApNext(c) ==
    \/ ApStart(c) \/ ApLoad(c) \/ ApConfigure(c) \/ ApCount(c) \/ ApSetTss(c)
    \/ ApLoadTss(c) \/ ApReady(c) \/ ApLeave(c)

BspNext ==
    \/ Prepare \/ NextCpu \/ Clear \/ Fill \/ SendInit \/ SendSipi \/ CheckStatus
    \/ CheckStuck \/ CheckConfiguring \/ Report \/ Finish \/ StartV86

Next == BspNext \/ \E c \in APs : ApNext(c)

\* The processors execute.  A late core may stop for ever.
Fairness == WF_vars(BspNext) /\ \A c \in APs : WF_vars(c \notin late /\ ApNext(c))

Spec == Init /\ [][Next]_vars /\ Fairness

-----------------------------------------------------------------------------
(* Properties.                                                             *)

TypeOK ==
    /\ pc \in {"map", "next", "clear", "fill", "init", "initwait", "sipiwait", "one",
              "onewait", "two", "twowait", "three", "done", "v86"}
    /\ id \in 1 .. Len(madt_cpu) + 1 /\ try \in 0 .. 1 /\ since \in [CPUs -> 0 .. 5]
    /\ status \in 0 .. 3 /\ filled \in BOOLEAN /\ mapped \in BOOLEAN
    /\ smp_boot_counter \in 0 .. 255
    /\ ap \in [CPUs -> {"wait", "sipi", "real", "loaded", "count", "entry", "ltr", "conf",
                        "ready", "sched", "wild"}]
    /\ tss \in CPUs /\ tr \in [CPUs -> CPUs \cup {NULL}]
    /\ report \in [CPUs -> {"none", "booted", "failed"}] /\ late \subseteq APs

\* No core is slower than the waits.
Punctual == late = {}

\* The stack at 0xA000 has one user at a time, from the trampoline that loads it
\* to the yield at the end of smp_entry_point.
OneOnBootStack ==
    Punctual => \A c, d \in APs : OnBootStack(c) /\ OnBootStack(d) => c = d

\* "Core %u booted!" is printed of cores that reached the end of
\* smp_entry_point, although the status byte does not say whose it is, and
\* "Core %u failed to start." only of cores that have not.
TrueReports ==
    Punctual => \A c \in APs : /\ report[c] = "booted" => Up(c)
                               /\ report[c] = "failed" => ~Up(c)

\* The number of cores that smp_launch_cpus returns is the number of cores that
\* run; a retried core is not counted twice.
ExactCount ==
    Punctual /\ pc \in {"done", "v86"} =>
        smp_boot_counter = 1 + Cardinality({c \in APs : Up(c)})

\* No core loads the task register from a descriptor that another core has
\* written in between.
OwnTss == \A c \in CPUs : tr[c] \in {c, NULL}

\* No AP uses the block while it is cleared for the next one or unmapped.
NoneWild == \A c \in APs : ap[c] # "wild"

\* What the waits guarantee if no core is late.  Outside the tries for a core
\* only the previous core may still be on its way to the scheduler, and the wait
\* after INIT outlasts that; during the tries only the core in question is
\* active, and the status byte tells how far it has come.
Active(c) == ap[c] \notin {"wait", "sched"}

Trying == pc \in {"sipiwait", "one", "onewait", "two", "twowait", "three"}

StatusAt(p) == CASE p \in {"wait", "sipi"} -> 0
                 [] p \in {"real", "loaded"} -> 1
                 [] p \in {"count", "entry", "ltr", "conf"} -> 2
                 [] OTHER -> 3

OneActive ==
    /\ \A c \in APs : Active(c) => IF Trying THEN c = cpu ELSE ap[c] = "ready"
    /\ \A c, d \in APs : Active(c) /\ Active(d) => c = d
    /\ pc = "initwait" => ap[cpu] = "wait" /\ \A c \in APs : Active(c) => since[c] = 4

StatusOK ==
    /\ pc \notin {"map", "next", "done", "v86"} => id \in DOMAIN madt_cpu /\ cpu \in APs
    /\ pc # "done" => mapped
    /\ pc \in {"init", "initwait"} \/ Trying => filled
    /\ pc \in {"init", "initwait"} => status = 0
    /\ Trying => status = StatusAt(ap[cpu])
    /\ pc = "sipiwait" => since[cpu] = 1 \/ ap[cpu] = "wait"
    /\ pc \in {"one", "onewait"} => status > 0
    /\ pc = "onewait" => since[cpu] = 2
    /\ pc \in {"two", "twowait"} => status > 1
    /\ pc = "twowait" => since[cpu] = 3
    /\ pc = "three" => status = 3

ReportsOK ==
    \A c \in APs : report[c] # "none" =>
        report[c] = "booted" /\ Up(c) /\ \E k \in 1 .. id - 1 : madt_cpu[k] = c

TssOK == OwnTss /\ \A c \in APs : ap[c] = "ltr" => tss = c

\* The status byte is that of the core smp_launch_cpus is trying, no other core is between
\* its start-up interrupt and status 3, and the reports are right (inductive if Punctual).
LaunchInv == TypeOK /\ NoneWild /\ OneActive /\ StatusOK /\ ReportsOK /\ TssOK

\* If no core is slower than the waits of smp_launch_cpus, at each of its steps the status
\* byte is that of the core it is trying, no other core is between its start-up interrupt
\* and status 3, no core reads the block while it is cleared or unmapped, and no core loads
\* a TSS descriptor that another one has written.
PunctualLaunch == Punctual => LaunchInv

\* A core that runs has been counted, however late it is.
NeverUndercounts == smp_boot_counter >= 1 + Cardinality({c \in APs : Up(c)})

\* smp_launch_cpus returns: no core, however late, holds it up.
LaunchEnds == <>(pc = "v86")

\* If no core is late, a core that answers a start-up interrupt gets to the scheduler.
StartedCoresJoin == \A c \in APs : (Punctual /\ ap[c] = "sipi") ~> (ap[c] = "sched")

-----------------------------------------------------------------------------
(* How many cores have been counted.                                       *)

At(P) == {c \in APs : ap[c] \in P}

Coming == {"sipi", "real", "loaded", "count"}
Counted == {"entry", "ltr", "conf", "ready", "sched"}

\* The tries made so far, two for each core that is done with.
Tries ==
    2 * (id - 1) + (CASE pc \in {"init", "initwait"} -> try [] Trying -> try + 1 [] OTHER -> 0)

TriesAp == pc \notin {"map", "next", "done", "v86"} => id \in DOMAIN madt_cpu /\ cpu \in APs

\* A core that runs has been counted, and each try leads to at most one count
\* (inductive if the byte does not overflow, however late the cores are).
CountInv ==
    /\ TypeOK /\ TriesAp
    /\ smp_boot_counter >= 1 + Cardinality(At(Counted))
    /\ smp_boot_counter + Cardinality(At(Coming)) <= 1 + Tries

\* A core that has not been tried waits, and INIT never resets a core that has
\* been counted (inductive if Punctual, together with LaunchInv).
UntriedWait ==
    \A k \in DOMAIN madt_cpu : madt_cpu[k] \in APs /\ (k > id \/ (k = id /\ ~Trying))
                               => ap[madt_cpu[k]] = "wait"

ExactInv == UntriedWait /\ smp_boot_counter = 1 + Cardinality(At(Counted))
=============================================================================
