------------------------------- MODULE Sched -------------------------------
(***************************************************************************)
(* The thread scheduler of pixOS: src/proc/sched.c with the interrupt      *)
(* entry and exit path that drives it (src/int/isr.c, src/int/int.s), the  *)
(* timer and inter-processor interrupts, the three scheduler system calls, *)
(* and the boot code that brings each core into the scheduler.             *)
(*                                                                         *)
(* Every core is a process.  A core either executes the code of a context  *)
(* (a thread, its idle loop, or its boot code) with interrupts enabled, or *)
(* it is at one of the control points below, all of which run with         *)
(* interrupts disabled: interrupt gates clear IF, sched_run_proc clears it *)
(* itself.  Steps of different cores interleave at the granularity of the  *)
(* accesses to shared memory that no common lock orders.                   *)
(***************************************************************************)
EXTENDS Integers, Sequences, FiniteSets, Functions

CONSTANTS
    NCores,        \* number of cores; core 0 is the bootstrap processor
    Threads,       \* every thread_t but the idle threads
    Procs,         \* every process_t handed to sched_run_proc
    ThreadsOf,     \* [Procs -> Seq(Threads)], pt_list of each process
    kernel_proc,   \* the process sched_init creates
    v86_proc,      \* the process v86_init creates
    TestProcs,     \* Seq(Procs), what kernel_thread creates and runs, in order
    Calls,         \* [Threads -> SUBSET CallNames], what each thread may do
    SleepPeriods,  \* length of a sleep call in scheduler periods (8 PIT ticks)
    NULL

CallNames == {"exit", "sleep", "yield", "fault", "spawn"}

Cores == 0 .. NCores - 1

ASSUME NCoresAssumption == NCores \in Nat \ {0}

ASSUME ProcsAssumption ==
    /\ kernel_proc \in Procs /\ v86_proc \in Procs /\ kernel_proc # v86_proc
    /\ ThreadsOf \in [Procs -> Seq(Threads)]
    /\ \A p \in Procs : ThreadsOf[p] # <<>>
    /\ TestProcs \in Seq(Procs \ {kernel_proc, v86_proc})

ASSUME CallsAssumption ==
    /\ Calls \in [Threads -> SUBSET CallNames]
    /\ SleepPeriods \in Nat \ {0}
    /\ NULL \notin Threads /\ NULL \notin Procs /\ NULL \notin Cores
    /\ {"idle", "boot"} \cap Threads = {}

VARIABLES
    \* core_locals_t, one per core
    state,           \* CORE_OFFLINE, CORE_BOOTING, CORE_ONLINE, CORE_IDLE
    current_thread,
    irq_regs,        \* the context whose frame isr_handler will return to
    need_resched,
    \* what the core is doing
    on,              \* the context whose kernel stack the core stands on
    pc,              \* control point
    kind,            \* who called _sched_runner: "all", "one" or "re"
    arg,             \* the process a creating core is working on
    new_thread,      \* what pick_thread returned to _sched
    boot,            \* how far the boot code of the core has got
    resched_ipi,     \* vector 0xF0 pending in the local APIC
    panic_ipi,       \* vector 0xF1 pending in the local APIC
    \* shared by all cores
    sched_lock,      \* holder of _sched_lock, or NULL
    thread_list,
    proc_list,
    created,         \* threads linked in their process's pt_list
    thread_state,    \* thread->state
    sleep_time,      \* thread->sleep_time, in scheduler periods
    regs,            \* thread->regs is the frame of the latest stop
    upd,             \* loop of update_sleeping_threads on core 0
    \* history, read by properties only
    owner,           \* the core whose frame is the thread's latest, NULL once saved
    waited           \* timer periods begun since the thread went to sleep

coreVars  == <<state, current_thread, irq_regs, need_resched>>
ctrlVars  == <<on, pc, kind, arg, new_thread, boot>>
ipiVars   == <<resched_ipi, panic_ipi>>
listVars  == <<thread_list, proc_list, created>>
threadVars == <<thread_state, sleep_time, regs>>
histVars  == <<owner, waited>>
vars == <<coreVars, ctrlVars, ipiVars, sched_lock, listVars, threadVars, upd,
          histVars>>

Contexts == Threads \cup {"idle", "boot"}

\* Control points at which the core holds _sched_lock.
Holding == {"update", "updating", "pick", "switch", "creating", "enqueueing"}

\* Control points inside sched_thread_sleep, after the thread has been marked
\* SLEEPING and before current_thread is cleared.
Sleeping == {"sleep_regs", "sleep_time"}

Points == Holding \cup Sleeping \cup
          {"code", "trylock", "ipi", "resched", "exit", "create", "enqueue", "dead"}

-----------------------------------------------------------------------------
(* Initial state: sched_init has run on core 0, every core is about to     *)
(* execute sched_init_core.  smp_launch_cpus gives up on a slow core       *)
(* without stopping it, so no order between the cores is assumed.          *)

Init ==
    /\ state = [c \in Cores |-> "OFFLINE"]
    /\ current_thread = [c \in Cores |-> NULL]
    /\ irq_regs = [c \in Cores |-> "boot"]
    /\ need_resched = [c \in Cores |-> FALSE]
    /\ on = [c \in Cores |-> "boot"]
    /\ pc = [c \in Cores |-> "create"]
    /\ kind = [c \in Cores |-> "one"]
    /\ arg = [c \in Cores |-> NULL]
    /\ new_thread = [c \in Cores |-> NULL]
    /\ boot = [c \in Cores |-> "init"]
    /\ resched_ipi = [c \in Cores |-> FALSE]
    /\ panic_ipi = [c \in Cores |-> FALSE]
    /\ sched_lock = NULL
    /\ thread_list = <<>>
    /\ proc_list = <<>>
    /\ created = Range(ThreadsOf[kernel_proc])
    /\ thread_state = [t \in Threads |-> "STOPPED"]
    /\ sleep_time = [t \in Threads |-> 0]
    /\ regs = [t \in Threads |-> TRUE]
    /\ upd = [i |-> 1, seen |-> 0]
    /\ owner = [t \in Threads |-> NULL]
    /\ waited = [t \in Threads |-> 0]

-----------------------------------------------------------------------------
(* Control-flow helpers.                                                   *)

Goto(c, l) == pc' = [pc EXCEPT ![c] = l]

\* isr_handler after the vector's handler returned: need_resched is tested,
\* and nothing ever clears it.
AfterHandler(c) == IF need_resched[c] THEN "resched" ELSE "exit"

\* Return of _sched_runner: to _sched_all, to isr_handler's dispatch, or to
\* isr_handler's need_resched test.
AfterSched(c) ==
    CASE kind[c] = "all" -> "ipi"
      [] kind[c] = "one" -> AfterHandler(c)
      [] kind[c] = "re"  -> "exit"

\* isr_handler's prologue: the frame just pushed is the one of the context
\* that was executing.
EnterIrq(c) == irq_regs' = [irq_regs EXCEPT ![c] = on[c]]

\* Mutant: panic() without sched_panic.
Panic_NoIpi(c) == Goto(c, "dead") /\ UNCHANGED panic_ipi

\* panic(): the core stops with interrupts off, whatever it holds, after
\* sched_panic sent 0xF1 to every other core.  It holds _sched_lock here, so no
\* second core gets this far and panic_counter is 0.
Panic(c) ==
    /\ Goto(c, "dead")
    /\ panic_ipi' = [d \in Cores |-> IF d = c THEN panic_ipi[d] ELSE TRUE]

-----------------------------------------------------------------------------
(* Interrupts that reach the scheduler.                                    *)

\* timer_handler on every eighth tick of the PIT, which only core 0 receives
\* (the other seven ticks change nothing modelled here): _sched_all gives up
\* while proc_list is empty or the kernel process has no thread.
Timer(c) ==
    /\ c = 0 /\ pc[c] = "code"
    /\ proc_list # <<>>
    /\ Range(ThreadsOf[kernel_proc]) \cap created # {}
    /\ EnterIrq(c)
    /\ Goto(c, "trylock")
    /\ kind' = [kind EXCEPT ![c] = "all"]
    /\ waited' = [t \in Threads |->
                    IF thread_state[t] = "SLEEPING" /\ waited[t] < SleepPeriods
                    THEN waited[t] + 1 ELSE waited[t]]
    /\ UNCHANGED <<state, current_thread, need_resched, on, arg, new_thread, boot, ipiVars,
                   sched_lock, listVars, threadVars, upd, owner>>

\* Vector 0xF0: _sched_runner.
ReschedIpi(c) ==
    /\ pc[c] = "code" /\ resched_ipi[c]
    /\ resched_ipi' = [resched_ipi EXCEPT ![c] = FALSE]
    /\ EnterIrq(c)
    /\ Goto(c, "trylock")
    /\ kind' = [kind EXCEPT ![c] = "one"]
    /\ UNCHANGED <<state, current_thread, need_resched, on, arg, new_thread, boot, panic_ipi,
                   sched_lock, listVars, threadVars, upd, histVars>>

\* Vector 0xF1: _panic parks the core in _idle with interrupts disabled.
PanicIpi(c) ==
    /\ pc[c] = "code" /\ panic_ipi[c]
    /\ panic_ipi' = [panic_ipi EXCEPT ![c] = FALSE]
    /\ EnterIrq(c)
    /\ state' = [state EXCEPT ![c] = "OFFLINE"]
    /\ Goto(c, "dead")
    /\ UNCHANGED <<current_thread, need_resched, on, kind, arg, new_thread, boot, resched_ipi,
                   sched_lock, listVars, threadVars, upd, histVars>>

\* vmm_page_fault in a thread: the thread is marked, need_resched is set and
\* isr_handler goes on to the need_resched test.
PageFault(c) ==
    /\ pc[c] = "code" /\ on[c] \in Threads /\ "fault" \in Calls[on[c]]
    /\ EnterIrq(c)
    /\ thread_state' = [thread_state EXCEPT ![current_thread[c]] = "TERMINATED"]
    /\ need_resched' = [need_resched EXCEPT ![c] = TRUE]
    /\ Goto(c, "resched")
    /\ UNCHANGED <<state, current_thread, on, kind, arg, new_thread, boot, ipiVars, sched_lock,
                   listVars, sleep_time, regs, upd, histVars>>

-----------------------------------------------------------------------------
(* System calls.                                                           *)

\* The core executes a thread that may make the call.  A thread that faulted
\* returns to the faulting instruction and can only fault again.
Calling(c, name) ==
    /\ pc[c] = "code" /\ on[c] \in Threads
    /\ name \in Calls[on[c]] /\ thread_state[on[c]] # "TERMINATED"

\* sched_thread_yield, from a thread or from the boot code of a core.
Yield(c) ==
    /\ \/ Calling(c, "yield") /\ UNCHANGED boot
       \/ /\ pc[c] = "code" /\ on[c] = "boot" /\ boot[c] = "yield"
          /\ boot' = [boot EXCEPT ![c] = "spin"]
    /\ EnterIrq(c)
    /\ Goto(c, "trylock")
    /\ kind' = [kind EXCEPT ![c] = "one"]
    /\ UNCHANGED <<state, current_thread, need_resched, on, arg, new_thread, ipiVars, sched_lock,
                   listVars, threadVars, upd, histVars>>

\* save_thread's second write, thread->regs = irq_regs: the latest frame of the
\* thread unless another core has loaded the thread in between.
SaveRegs(c) ==
    LET t == current_thread[c] IN
    /\ regs' = [regs EXCEPT ![t] = (owner[t] = c)]
    /\ owner' = [owner EXCEPT ![t] = IF @ = c THEN NULL ELSE @]

\* Mutant: enter_idle leaves the frame to return to.
EnterIdle_KeepsFrame(c) == UNCHANGED irq_regs /\ state' = [state EXCEPT ![c] = "IDLE"]

\* enter_idle, the part every caller shares.
EnterIdle(c) ==
    /\ state' = [state EXCEPT ![c] = "IDLE"]
    /\ irq_regs' = [irq_regs EXCEPT ![c] = "idle"]

\* Mutant: sched_thread_exit does not clear current_thread.
ThreadExit_KeepsThread(c) ==
    /\ Calling(c, "exit") /\ current_thread[c] # NULL
    /\ thread_state' = [thread_state EXCEPT ![current_thread[c]] = "TERMINATED"]
    /\ SaveRegs(c)
    /\ EnterIdle(c)
    /\ Goto(c, AfterHandler(c))
    /\ UNCHANGED <<current_thread, need_resched, on, kind, arg, new_thread, boot, ipiVars, sched_lock, listVars,
                   sleep_time, upd, waited>>

\* sched_thread_exit.  It takes no lock; nobody reads regs or exitcode of a
\* TERMINATED thread, so its writes are one step.
ThreadExit(c) ==
    /\ Calling(c, "exit") /\ current_thread[c] # NULL
    /\ thread_state' = [thread_state EXCEPT ![current_thread[c]] = "TERMINATED"]
    /\ SaveRegs(c)
    /\ current_thread' = [current_thread EXCEPT ![c] = NULL]
    /\ EnterIdle(c)
    /\ Goto(c, AfterHandler(c))
    /\ UNCHANGED <<need_resched, on, kind, arg, new_thread, boot, ipiVars, sched_lock, listVars,
                   sleep_time, upd, waited>>

\* sched_thread_sleep takes no lock either, and its writes to the thread are
\* visible to core 0 one by one: first save_thread's state, ...
SleepState(c) ==
    /\ Calling(c, "sleep") /\ current_thread[c] # NULL
    /\ EnterIrq(c)
    /\ thread_state' = [thread_state EXCEPT ![current_thread[c]] = "SLEEPING"]
    /\ waited' = [waited EXCEPT ![current_thread[c]] = 0]
    /\ Goto(c, "sleep_regs")
    /\ UNCHANGED <<state, current_thread, need_resched, on, kind, arg, new_thread, boot, ipiVars,
                   sched_lock, listVars, sleep_time, regs, upd, owner>>

\* ... then save_thread's regs, ...
SleepRegs(c) ==
    /\ pc[c] = "sleep_regs"
    /\ SaveRegs(c)
    /\ Goto(c, "sleep_time")
    /\ UNCHANGED <<coreVars, on, kind, arg, new_thread, boot, ipiVars, sched_lock, listVars,
                   thread_state, sleep_time, upd, waited>>

\* ... then sleep_time; the rest is private to the core.
SleepTime(c) ==
    /\ pc[c] = "sleep_time"
    /\ sleep_time' = [sleep_time EXCEPT ![current_thread[c]] = SleepPeriods]
    /\ current_thread' = [current_thread EXCEPT ![c] = NULL]
    /\ EnterIdle(c)
    /\ Goto(c, AfterHandler(c))
    /\ UNCHANGED <<need_resched, on, kind, arg, new_thread, boot, ipiVars, sched_lock, listVars,
                   thread_state, regs, upd, histVars>>

-----------------------------------------------------------------------------
(* _sched_runner and _sched.                                               *)

\* Mutant: _sched_runner goes on without the lock.
TryLockTaken_NoTest(c) ==
    /\ pc[c] = "trylock"
    /\ sched_lock' = c
    /\ Goto(c, IF c = 0 /\ thread_list # <<>> THEN "update" ELSE "pick")
    /\ UNCHANGED <<coreVars, on, kind, arg, new_thread, boot, ipiVars, listVars, threadVars, upd,
                   histVars>>

\* check_and_lock found the lock free.  Only core 0 runs the loop of
\* update_sleeping_threads.
TryLockTaken(c) ==
    /\ pc[c] = "trylock" /\ sched_lock = NULL
    /\ sched_lock' = c
    /\ Goto(c, IF c = 0 /\ thread_list # <<>> THEN "update" ELSE "pick")
    /\ UNCHANGED <<coreVars, on, kind, arg, new_thread, boot, ipiVars, listVars, threadVars, upd,
                   histVars>>

\* check_and_lock found it taken: this round of scheduling is skipped.
TryLockBusy(c) ==
    /\ pc[c] = "trylock" /\ sched_lock # NULL
    /\ Goto(c, AfterSched(c))
    /\ UNCHANGED <<coreVars, on, kind, arg, new_thread, boot, ipiVars, sched_lock, listVars,
                   threadVars, upd, histVars>>

\* The loop moves to the next thread of the list, or ends.
NextUpdate(c) ==
    IF upd.i < Len(thread_list)
    THEN Goto(c, "update") /\ upd' = [i |-> upd.i + 1, seen |-> 0]
    ELSE Goto(c, "pick") /\ upd' = [i |-> 1, seen |-> 0]

\* Mutant: update_sleeping_threads looks at every thread that does not run.
UpdateRead_AnyState(c) ==
    /\ pc[c] = "update"
    /\ LET t == thread_list[upd.i] IN
       IF thread_state[t] # "RUNNING"
       THEN Goto(c, "updating") /\ upd' = [upd EXCEPT !.seen = sleep_time[t]]
       ELSE NextUpdate(c)
    /\ UNCHANGED <<coreVars, on, kind, arg, new_thread, boot, ipiVars, sched_lock, listVars,
                   threadVars, histVars>>

\* update_sleeping_threads: the loop body reads the thread ...
UpdateRead(c) ==
    /\ pc[c] = "update"
    /\ LET t == thread_list[upd.i] IN
       IF thread_state[t] = "SLEEPING"
       THEN Goto(c, "updating") /\ upd' = [upd EXCEPT !.seen = sleep_time[t]]
       ELSE NextUpdate(c)
    /\ UNCHANGED <<coreVars, on, kind, arg, new_thread, boot, ipiVars, sched_lock, listVars,
                   threadVars, histVars>>

\* Mutant: the sleep is cut short, the subtraction is missing.
Shorten_ToZero(n) == 0
Shorten_NotAtAll(n) == n

\* One period less, but not less than nothing.
Shorten(n) == IF n = 0 THEN 0 ELSE n - 1

\* ... and writes it back one period shorter, waking it at zero.
UpdateWrite(c) ==
    /\ pc[c] = "updating"
    /\ LET t    == thread_list[upd.i]
           left == Shorten(upd.seen)
       IN /\ sleep_time' = [sleep_time EXCEPT ![t] = left]
          /\ thread_state' =
                [thread_state EXCEPT ![t] = IF left = 0 THEN "STOPPED" ELSE @]
          /\ waited' = [waited EXCEPT ![t] = IF left = 0 THEN 0 ELSE @]
    /\ NextUpdate(c)
    /\ UNCHANGED <<coreVars, on, kind, arg, new_thread, boot, ipiVars, sched_lock, listVars, regs,
                   owner>>

\* Mutant: pick_thread takes a thread that sleeps, or ends the scan one
\* thread early.
Ready_AlsoSleeping(i) == thread_state[thread_list[i]] \in {"STOPPED", "SLEEPING"}
Ready_NotLast(i) == i < Len(thread_list) /\ thread_state[thread_list[i]] = "STOPPED"

\* pick_thread.  Every thread has cpu = -1 and priority 0 (thread_create and
\* the memset of thread_alloc; nothing else writes them), so the scan ends
\* with the first STOPPED thread of the list.
Ready(i) == thread_state[thread_list[i]] = "STOPPED"
Picked(i) == Ready(i) /\ \A j \in 1 .. i - 1 : ~Ready(j)

\* Mutant: the scan starts with the second thread.
Pick_SkipsFirst(c) ==
    /\ pc[c] = "pick"
    /\ \/ \E i \in DOMAIN thread_list \ {1} :
             /\ Ready(i) /\ \A j \in 2 .. i - 1 : ~Ready(j)
             /\ new_thread' = [new_thread EXCEPT ![c] = thread_list[i]]
       \/ /\ \A i \in DOMAIN thread_list \ {1} : ~Ready(i)
          /\ new_thread' = [new_thread EXCEPT ![c] = NULL]
    /\ Goto(c, "switch")
    /\ UNCHANGED <<coreVars, on, kind, arg, boot, ipiVars, sched_lock, listVars,
                   threadVars, upd, histVars>>

Pick(c) ==
    /\ pc[c] = "pick"
    /\ \/ \E i \in DOMAIN thread_list :
             Picked(i) /\ new_thread' = [new_thread EXCEPT ![c] = thread_list[i]]
       \/ /\ \A i \in DOMAIN thread_list : ~Ready(i)
          /\ new_thread' = [new_thread EXCEPT ![c] = NULL]
    /\ Goto(c, "switch")
    /\ UNCHANGED <<coreVars, on, kind, arg, boot, ipiVars, sched_lock, listVars,
                   threadVars, upd, histVars>>

\* load_thread of new_thread, applied to the thread states ts, the saved frames
\* rs and their owners os.
Load(c, ts, rs, os) ==
    LET t == new_thread[c] IN
    /\ state' = [state EXCEPT ![c] = IF @ = "IDLE" THEN "ONLINE" ELSE @]
    /\ current_thread' = [current_thread EXCEPT ![c] = t]
    /\ irq_regs' = [irq_regs EXCEPT ![c] = t]
    /\ thread_state' = [ts EXCEPT ![t] = "RUNNING"]
    /\ regs' = [rs EXCEPT ![t] = FALSE]
    /\ owner' = [os EXCEPT ![t] = c]

\* The end of _sched_runner.
Release(c) ==
    /\ sched_lock' = NULL
    /\ new_thread' = [new_thread EXCEPT ![c] = NULL]
    /\ Goto(c, AfterSched(c))

\* The assertions of _sched on the core that runs it.
SchedAsserts(c) ==
    IF state[c] = "ONLINE"
    THEN current_thread[c] # NULL /\ thread_state[current_thread[c]] = "RUNNING"
    ELSE current_thread[c] = NULL

\* Mutant: save_thread forgets the frame.
Switch_NoRegs(c) ==
    /\ pc[c] = "switch" /\ SchedAsserts(c)
    /\ state[c] = "ONLINE" /\ new_thread[c] # NULL
    /\ LET cur == current_thread[c] IN
       Load(c, [thread_state EXCEPT ![cur] = "STOPPED"],
               [regs EXCEPT ![cur] = FALSE],
               [owner EXCEPT ![cur] = IF @ = c THEN NULL ELSE @])
    /\ Release(c)
    /\ UNCHANGED <<need_resched, on, kind, arg, boot, ipiVars, listVars, sleep_time,
                   upd, waited>>

\* _sched, case CORE_ONLINE: save_thread on the current thread, load_thread
\* on the picked one.
Switch(c) ==
    /\ pc[c] = "switch" /\ SchedAsserts(c)
    /\ state[c] = "ONLINE" /\ new_thread[c] # NULL
    /\ LET cur == current_thread[c] IN
       Load(c, [thread_state EXCEPT ![cur] = "STOPPED"],
               [regs EXCEPT ![cur] = (owner[cur] = c)],
               [owner EXCEPT ![cur] = IF @ = c THEN NULL ELSE @])
    /\ Release(c)
    /\ UNCHANGED <<need_resched, on, kind, arg, boot, ipiVars, listVars, sleep_time,
                   upd, waited>>

\* _sched, case CORE_IDLE.
Dispatch(c) ==
    /\ pc[c] = "switch" /\ SchedAsserts(c)
    /\ state[c] = "IDLE" /\ new_thread[c] # NULL
    /\ Load(c, thread_state, regs, owner)
    /\ Release(c)
    /\ UNCHANGED <<need_resched, on, kind, arg, boot, ipiVars, listVars, sleep_time,
                   upd, waited>>

\* _sched, cases CORE_ONLINE and CORE_IDLE with nothing to run.
Stay(c) ==
    /\ pc[c] = "switch" /\ SchedAsserts(c)
    /\ state[c] \in {"ONLINE", "IDLE"} /\ new_thread[c] = NULL
    /\ Release(c)
    /\ UNCHANGED <<coreVars, on, kind, arg, boot, ipiVars, listVars, threadVars, upd,
                   histVars>>

\* _sched, case CORE_BOOTING: the interrupted boot code is not saved anywhere.
LeaveBoot(c) ==
    /\ pc[c] = "switch" /\ SchedAsserts(c)
    /\ state[c] = "BOOTING"
    /\ EnterIdle(c)
    /\ Release(c)
    /\ UNCHANGED <<current_thread, need_resched, on, kind, arg, boot, ipiVars, listVars,
                   threadVars, upd, histVars>>

\* The end of _sched_all: smp_send_global_interrupt(0xF0).
SendIpi(c) ==
    /\ pc[c] = "ipi"
    /\ resched_ipi' = [d \in Cores |-> IF d = c THEN resched_ipi[d] ELSE TRUE]
    /\ Goto(c, AfterHandler(c))
    /\ UNCHANGED <<coreVars, on, kind, arg, new_thread, boot, panic_ipi, sched_lock, listVars,
                   threadVars, upd, histVars>>

\* isr_handler: the need_resched test succeeded.
Resched(c) ==
    /\ pc[c] = "resched"
    /\ Goto(c, "trylock")
    /\ kind' = [kind EXCEPT ![c] = "re"]
    /\ UNCHANGED <<coreVars, on, arg, new_thread, boot, ipiVars, sched_lock, listVars, threadVars,
                   upd, histVars>>

\* The end of isr_handler and isr_common's stack switch and iret: until this
\* step the core stands on the stack of the context it was interrupted in.
ExitIrq(c) ==
    /\ pc[c] = "exit"
    /\ on' = [on EXCEPT ![c] = irq_regs[c]]
    /\ Goto(c, "code")
    /\ kind' = [kind EXCEPT ![c] = "one"]
    /\ UNCHANGED <<coreVars, arg, new_thread, boot, ipiVars, sched_lock, listVars, threadVars,
                   upd, histVars>>

-----------------------------------------------------------------------------
(* Creating threads and handing processes to the scheduler.                *)

\* kernel_thread starts its block with interrupts disabled.
Spawn(c) ==
    /\ Calling(c, "spawn")
    /\ TestProcs # <<>> /\ TestProcs[1] \notin Range(proc_list)
    /\ arg' = [arg EXCEPT ![c] = TestProcs[1]]
    /\ Goto(c, "create")
    /\ UNCHANGED <<coreVars, on, kind, new_thread, boot, ipiVars, sched_lock, listVars, threadVars,
                   upd, histVars>>

\* kmain: sched_run calls sched_run_proc(kernel_proc).
BootRunKernel(c) ==
    /\ pc[c] = "code" /\ on[c] = "boot" /\ boot[c] = "kernel"
    /\ arg' = [arg EXCEPT ![c] = kernel_proc]
    /\ Goto(c, "enqueue")
    /\ UNCHANGED <<coreVars, on, kind, new_thread, boot, ipiVars, sched_lock, listVars, threadVars,
                   upd, histVars>>

\* sched_lock(), a spin lock: thread_create and sched_run_proc.
LockCreate(c) ==
    /\ pc[c] = "create" /\ sched_lock = NULL
    /\ sched_lock' = c
    /\ Goto(c, "creating")
    /\ UNCHANGED <<coreVars, on, kind, arg, new_thread, boot, ipiVars, listVars, threadVars, upd,
                   histVars>>

LockEnqueue(c) ==
    /\ pc[c] = "enqueue" /\ sched_lock = NULL
    /\ sched_lock' = c
    /\ Goto(c, "enqueueing")
    /\ UNCHANGED <<coreVars, on, kind, arg, new_thread, boot, ipiVars, listVars, threadVars, upd,
                   histVars>>

\* thread_create(idle_proc) and the end of sched_init_core.  On core 0 the
\* next thing is v86_init; another core enables interrupts and yields.
CreateIdle(c) ==
    /\ pc[c] = "creating" /\ boot[c] = "init"
    /\ sched_lock' = NULL
    /\ state' = [state EXCEPT ![c] = "BOOTING"]
    /\ current_thread' = [current_thread EXCEPT ![c] = NULL]
    /\ IF c = 0
       THEN /\ boot' = [boot EXCEPT ![c] = "v86"]
            /\ arg' = [arg EXCEPT ![c] = v86_proc]
            /\ Goto(c, "create")
       ELSE /\ boot' = [boot EXCEPT ![c] = "yield"]
            /\ Goto(c, "code") /\ UNCHANGED arg
    /\ UNCHANGED <<irq_regs, need_resched, on, kind, new_thread, ipiVars, listVars, threadVars, upd,
                   histVars>>

\* thread_create for a process: its next thread becomes STOPPED and joins
\* pt_list.  After the last one the caller goes on to sched_run_proc.
CreateThread(c) ==
    /\ pc[c] = "creating" /\ boot[c] # "init"
    /\ sched_lock' = NULL
    /\ LET list == ThreadsOf[arg[c]] IN
       \E i \in DOMAIN list :
          /\ list[i] \notin created /\ \A j \in 1 .. i - 1 : list[j] \in created
          /\ created' = created \cup {list[i]}
          /\ thread_state' = [thread_state EXCEPT ![list[i]] = "STOPPED"]
          /\ Goto(c, IF i = Len(list) THEN "enqueue" ELSE "create")
    /\ UNCHANGED <<coreVars, on, kind, arg, new_thread, boot, ipiVars, thread_list, proc_list,
                   sleep_time, regs, upd, histVars>>

\* The process kernel_thread goes on with after p, if any.
FollowingTest(p) ==
    LET later == {i \in DOMAIN TestProcs : i > 1 /\ TestProcs[i - 1] = p}
    IN  IF later = {} THEN NULL ELSE TestProcs[CHOOSE i \in later : TRUE]

\* The assertion of sched_run_proc on the threads of the process.
RunProcAsserts(c) ==
    \A t \in Range(ThreadsOf[arg[c]]) : t \in created /\ thread_state[t] = "STOPPED"

\* sched_run_proc: the process and all its threads are appended.
RunProc(c) ==
    LET p == arg[c] IN
    /\ pc[c] = "enqueueing" /\ RunProcAsserts(c)
    /\ proc_list' = Append(proc_list, p)
    /\ thread_list' = thread_list \o ThreadsOf[p]
    /\ sched_lock' = NULL
    /\ boot' = [boot EXCEPT ![c] = CASE on[c] # "boot" -> @
                                     [] p = v86_proc -> "kernel"
                                     [] OTHER -> "yield"]
    /\ arg' = [arg EXCEPT ![c] = FollowingTest(p)]
    /\ Goto(c, IF FollowingTest(p) = NULL THEN "code" ELSE "create")
    /\ UNCHANGED <<coreVars, on, kind, new_thread, ipiVars, created, threadVars, upd, histVars>>

\* An assertion of the scheduler fails: panic() with the lock held.
AssertFails(c) ==
    /\ pc[c] \in {"switch", "enqueueing"}
    /\ IF pc[c] = "switch" THEN ~SchedAsserts(c) ELSE ~RunProcAsserts(c)
    /\ Panic(c)
    /\ UNCHANGED <<coreVars, on, kind, arg, new_thread, boot, resched_ipi, sched_lock, listVars,
                   threadVars, upd, histVars>>

-----------------------------------------------------------------------------
(* The specification.                                                      *)

\* What a core does by itself once it has begun.
Step(c) ==
    \/ SleepRegs(c) \/ SleepTime(c)
    \/ TryLockTaken(c) \/ TryLockBusy(c) \/ UpdateRead(c) \/ UpdateWrite(c)
    \/ Pick(c) \/ Switch(c) \/ Dispatch(c) \/ Stay(c) \/ LeaveBoot(c)
    \/ SendIpi(c) \/ Resched(c) \/ ExitIrq(c)
    \/ BootRunKernel(c) \/ LockCreate(c) \/ LockEnqueue(c)
    \/ CreateIdle(c) \/ CreateThread(c) \/ RunProc(c) \/ AssertFails(c)

\* What a thread or the hardware makes it begin.
Event(c) ==
    \/ Timer(c) \/ ReschedIpi(c) \/ PanicIpi(c) \/ PageFault(c)
    \/ Yield(c) \/ ThreadExit(c) \/ SleepState(c) \/ Spawn(c)

Next == \E c \in Cores : Step(c) \/ Event(c)

Spec == Init /\ [][Next]_vars

\* Fairness.  A core keeps executing, and a core that spins on the lock gets
\* it.  The timer interrupt is delivered at some instruction boundary of core
\* 0.  Core 0 opens each timer period and only then sends 0xF0 to the others,
\* so if it tries the lock again and again it finds it free again and again;
\* nothing of the kind is assumed of the cores that compete after the 0xF0.
Fairness ==
    /\ \A c \in Cores : WF_vars(Step(c)) /\ SF_vars(LockCreate(c) \/ LockEnqueue(c))
    /\ SF_vars(Timer(0))
    /\ ([]<><<Timer(0)>>_vars) => ([]<><<TryLockTaken(0)>>_vars)

\* A thread that may exit and is given the processor again and again exits.
ExitFairness ==
    \A t \in {u \in Threads : "exit" \in Calls[u]} :
        SF_vars(\E c \in Cores : on[c] = t /\ ThreadExit(c))

FairSpec == Spec /\ Fairness /\ ExitFairness

\* For the shutdown after a panic: cores keep executing and take a pending
\* 0xF1 at some instruction boundary.
PanicSpec ==
    Spec /\ \A c \in Cores : WF_vars(Step(c)) /\ SF_vars(PanicIpi(c))

-----------------------------------------------------------------------------
(* The invariant.                                                          *)

\* The type of every variable.
TypeOK ==
    /\ state \in [Cores -> {"OFFLINE", "BOOTING", "ONLINE", "IDLE"}]
    /\ current_thread \in [Cores -> Threads \cup {NULL}]
    /\ irq_regs \in [Cores -> Contexts]
    /\ need_resched \in [Cores -> BOOLEAN]
    /\ on \in [Cores -> Contexts]
    /\ pc \in [Cores -> Points]
    /\ kind \in [Cores -> {"all", "one", "re"}]
    /\ arg \in [Cores -> Procs \cup {NULL}]
    /\ new_thread \in [Cores -> Threads \cup {NULL}]
    /\ boot \in [Cores -> {"init", "v86", "kernel", "yield", "spin"}]
    /\ resched_ipi \in [Cores -> BOOLEAN]
    /\ panic_ipi \in [Cores -> BOOLEAN]
    /\ sched_lock \in Cores \cup {NULL}
    /\ thread_list \in Seq(Threads)
    /\ proc_list \in Seq(Procs)
    /\ created \subseteq Threads
    /\ thread_state \in [Threads -> {"STOPPED", "RUNNING", "SLEEPING", "TERMINATED"}]
    /\ sleep_time \in [Threads -> Nat]
    /\ regs \in [Threads -> BOOLEAN]
    /\ upd \in [i : Nat \ {0}, seen : Nat]
    /\ owner \in [Threads -> Cores \cup {NULL}]
    /\ waited \in [Threads -> 0 .. SleepPeriods]

\* A thread is dispatched on at most one core.  The only moment at which two
\* cores name the same current_thread is while one of them is still inside
\* sched_thread_sleep, which publishes SLEEPING before it lets go.
ExclusiveDispatch ==
    \A c, d \in Cores :
        /\ c # d
        /\ current_thread[c] # NULL /\ current_thread[c] = current_thread[d]
        => pc[c] \in Sleeping \/ pc[d] \in Sleeping

\* Whoever is in a critical section holds the lock.
LockInv == \A c \in Cores : pc[c] \in Holding => sched_lock = c

\* What a core relies on about itself: the frame it returns to belongs to its
\* current_thread, which is neither waiting nor asleep and is in the list.
CoreOK(c) ==
    /\ irq_regs[c] \in Threads => current_thread[c] = irq_regs[c]
    /\ pc[c] \in {"code", "create", "creating", "enqueue", "enqueueing"}
       => irq_regs[c] = on[c]
    /\ pc[c] \in Sleeping => current_thread[c] # NULL
    /\ boot[c] = "init" => current_thread[c] = NULL /\ pc[c] \in {"create", "creating"}
    /\ pc[c] \in {"create", "creating", "enqueue", "enqueueing"} /\ boot[c] # "init"
       => arg[c] # NULL
    /\ current_thread[c] # NULL => current_thread[c] \in Range(thread_list)
    /\ current_thread[c] # NULL /\ pc[c] \notin Sleeping
       => thread_state[current_thread[c]] \in {"RUNNING", "TERMINATED"}

\* What the holder of the lock has read is still true when it uses it.
HolderOK(c) ==
    /\ pc[c] \in {"update", "updating"} => upd.i \in DOMAIN thread_list
    /\ pc[c] = "updating" => thread_state[thread_list[upd.i]] = "SLEEPING"
    /\ pc[c] \in Holding \ {"update", "updating"} => upd.i = 1
    /\ pc[c] = "switch" /\ new_thread[c] # NULL
       => /\ new_thread[c] \in Range(thread_list)
          /\ thread_state[new_thread[c]] = "STOPPED"

\* Only created threads are in the list, the others have never run, and the loop
\* of update_sleeping_threads starts at the head.
ListInv ==
    /\ sched_lock = NULL => upd.i = 1
    /\ Range(thread_list) \subseteq created
    /\ \A t \in Threads \ created : thread_state[t] = "STOPPED"

\* A RUNNING thread is on a core.
RunningInv ==
    \A t \in Threads :
        thread_state[t] = "RUNNING"
        => \E c \in Cores : current_thread[c] = t /\ pc[c] \notin Sleeping

\* The conjunction is preserved by every step of every core; ExclusiveDispatch
\* by itself is not, because it says nothing of the states of the threads that
\* the cores name, nor of who may change them.
SchedInv ==
    /\ TypeOK /\ LockInv
    /\ \A c \in Cores : CoreOK(c) /\ HolderOK(c)
    /\ ListInv /\ RunningInv /\ ExclusiveDispatch
=============================================================================
