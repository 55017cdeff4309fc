---------------------------- MODULE SchedProperties ----------------------------
(***************************************************************************)
(* What the scheduler promises: the properties of Sched, and the abstract  *)
(* dispatcher it implements.                                               *)
(***************************************************************************)
EXTENDS Sched

-----------------------------------------------------------------------------
(* The abstract dispatcher.  A core inside sched_thread_sleep has already  *)
(* given its thread away: from there on core 0 may wake it.                *)

Status == [SLEEPING |-> "asleep", STOPPED |-> "ready", RUNNING |-> "running",
           TERMINATED |-> "done"]

StatusOf(t) ==
    IF t \in Range(thread_list) THEN Status[thread_state[t]] ELSE "absent"

RunningOn(c) == IF pc[c] \in Sleeping THEN NULL ELSE current_thread[c]

Abstract == INSTANCE ThreadDispatch
            WITH status  <- [t \in Threads |-> StatusOf(t)],
                 running <- [c \in Cores |-> RunningOn(c)]

\* Every step of every core is a step of the abstract dispatcher or invisible
\* to it: in particular no interleaving of cores, not even one through the
\* unlocked sched_thread_sleep, dispatches a thread twice or loses one.
ImplementsDispatch == Abstract!Spec

-----------------------------------------------------------------------------
(* Properties.                                                             *)

\* Two cores stand on the kernel stack of the same thread only while one of
\* them is on its way out of it: in the epilogue of isr_handler, with irq_regs
\* already naming another frame, or inside sched_thread_sleep.
StackHandover ==
    \A c, d \in Cores :
        c # d /\ on[c] \in Threads /\ on[c] = on[d]
        => \E e \in {c, d} : irq_regs[e] # on[e] \/ pc[e] \in Sleeping

\* No thread is lost: a RUNNING thread is current_thread of a core that will
\* save it, so it can become STOPPED again, and a thread that pick_thread may
\* choose has never also been left on a core.
NoThreadLost ==
    \A t \in Threads :
        /\ thread_state[t] = "RUNNING"
           => \E c \in Cores : current_thread[c] = t /\ pc[c] \notin Sleeping
        /\ thread_state[t] = "STOPPED"
           => \A c \in Cores : current_thread[c] = t => pc[c] \in Sleeping

\* The frame load_thread is about to return through is the one of the thread's
\* latest stop, not an older one: a thread never repeats work it has done.
\* (With threads that sleep this needs a single core, see ShortSleepIsTheRace.)
ReadyThreadsAreSaved ==
    \A t \in Threads : thread_state[t] = "STOPPED" => regs[t]

\* The assertions of _sched and sched_run_proc hold, so no core panics.
NoPanic == \A c \in Cores : pc[c] # "dead"

\* A thread that exited is never made runnable again, not even by a core that
\* is late in sched_thread_sleep or in update_sleeping_threads.
TerminatedForGood ==
    [][\A t \in Threads : thread_state[t] = "TERMINATED"
                          => thread_state'[t] = "TERMINATED"]_vars

\* kernel_thread sleeps for 1000 ms: a sleeping thread becomes runnable after all
\* but the first of the timer periods it asked for.  The one exception is that
\* update_sleeping_threads reads the thread while its core is still inside
\* sched_thread_sleep, which publishes SLEEPING before sleep_time: then core 0
\* works with a time that is not, or no longer, the one the thread asked for.
ShortSleepIsTheRace ==
    [][\A t \in Threads :
          thread_state[t] = "SLEEPING" /\ thread_state'[t] = "STOPPED"
          => \/ waited[t] >= SleepPeriods - 1
             \/ upd.seen # sleep_time[t]
             \/ \E c \in Cores : current_thread[c] = t /\ pc[c] \in Sleeping]_vars

\* _sched's assertion that the thread it takes off a core is RUNNING.
CurrentIsRunning ==
    \A c \in Cores : pc[c] = "switch" /\ state[c] = "ONLINE"
                     => thread_state[current_thread[c]] = "RUNNING"

\* Every sleeping thread is woken.
SleepersWake ==
    \A t \in Threads : thread_state[t] = "SLEEPING" ~> thread_state[t] # "SLEEPING"

\* Every thread handed to the scheduler that would exit if it ran does exit,
\* although pick_thread always prefers the front of the list.
ThreadsFinish ==
    \A t \in Threads :
        "exit" \in Calls[t] /\ t \in Range(thread_list) ~> thread_state[t] = "TERMINATED"

\* The two threads at the front of the list share core 0 whatever the other
\* cores do: each time one of them waits it is dispatched again.  pick_thread
\* always prefers the front, so a third thread that never sleeps may starve.
FrontThreadsRun ==
    \A i \in {1, 2} :
        i \in DOMAIN thread_list /\ Ready(i) ~> i \in DOMAIN thread_list /\ ~Ready(i)

\* After a panic every other core stops, unless it spins with interrupts
\* disabled on the lock that the panicking core still holds.
PanicStopsCores ==
    (\E c \in Cores : pc[c] = "dead")
    ~> (\A c \in Cores : pc[c] \in {"dead", "create", "enqueue"})
-----------------------------------------------------------------------------
(* What the threads may do, and the inductive invariants behind NoPanic,   *)
(* ReadyThreadsAreSaved and ShortSleepIsTheRace.                           *)

NoneCalls(name) == \A t \in Threads : name \notin Calls[t]

\* kernel.c creates every process once, from kernel_thread or from the boot code
\* of core 0, and every thread belongs to one process.
ProcsAreDistinct ==
    /\ \A p \in Procs : \A i, j \in DOMAIN ThreadsOf[p] : ThreadsOf[p][i] = ThreadsOf[p][j] => i = j
    /\ \A p, q \in Procs : p # q => Range(ThreadsOf[p]) \cap Range(ThreadsOf[q]) = {}
    /\ \A i, j \in DOMAIN TestProcs : TestProcs[i] = TestProcs[j] => i = j
    /\ \A t, u \in Threads : "spawn" \in Calls[t] /\ "spawn" \in Calls[u] => t = u

\* Control points of a core that creates and runs processes.
Creating == {"create", "creating", "enqueue", "enqueueing"}

\* kernel_thread is at its nth test process.
TestTurn(n, p) ==
    /\ p = TestProcs[n] /\ p \notin Range(proc_list)
    /\ \A m \in 1 .. n - 1 : TestProcs[m] \in Range(proc_list)

\* A creating core works on a process that is not in the list: core 0 during its
\* boot on the v86 or the kernel process, kernel_thread on a test process.
CreatorOK(c) ==
    /\ boot[c] \in {"init", "v86"} => on[c] = "boot" /\ pc[c] \in Creating \cup {"dead"}
    /\ boot[c] \in {"v86", "kernel"} => c = 0
    /\ pc[c] \in Creating /\ boot[c] # "init" =>
          \/ on[c] = "boot" /\ boot[c] = "v86" /\ arg[c] = v86_proc
          \/ on[c] = "boot" /\ boot[c] = "kernel" /\ arg[c] = kernel_proc
          \/ /\ on[c] \in Threads /\ "spawn" \in Calls[on[c]]
             /\ \E n \in DOMAIN TestProcs : TestTurn(n, arg[c])
    /\ pc[c] \in {"enqueue", "enqueueing"} => Range(ThreadsOf[arg[c]]) \subseteq created

\* thread_list holds the threads of the processes of proc_list, each once, and
\* the test processes are run in order.
CreateInv ==
    /\ \A c \in Cores : CreatorOK(c)
    /\ Range(ThreadsOf[kernel_proc]) \subseteq created
    /\ boot[0] \in {"init", "v86"} => v86_proc \notin Range(proc_list)
    /\ boot[0] \in {"init", "v86", "kernel"} => kernel_proc \notin Range(proc_list)
    /\ \A t \in Range(thread_list) : \E p \in Range(proc_list) : t \in Range(ThreadsOf[p])
    /\ \A i, j \in DOMAIN thread_list : thread_list[i] = thread_list[j] => i = j
    /\ \A n \in DOMAIN TestProcs : TestProcs[n] \in Range(proc_list) =>
          \A m \in 1 .. n : TestProcs[m] \in Range(proc_list)

\* Without page faults in threads: a core is ONLINE exactly when it has a thread,
\* that thread is RUNNING, and a thread that is not in the list has not run.
CalmInv ==
    /\ \A c \in Cores :
          /\ pc[c] # "dead" /\ ~panic_ipi[c]
          /\ state[c] = "ONLINE" <=> current_thread[c] # NULL
          /\ current_thread[c] # NULL /\ pc[c] \notin Sleeping
             => thread_state[current_thread[c]] = "RUNNING"
    /\ \A t \in Threads \ Range(thread_list) : thread_state[t] = "STOPPED"

\* Without a second core that could wake a thread inside sched_thread_sleep: the
\* frame of a thread is its core's until it is saved.
SavedInv ==
    /\ ReadyThreadsAreSaved
    /\ \A t \in Threads : thread_state[t] = "SLEEPING" =>
          regs[t] \/ \E c \in Cores : current_thread[c] = t /\ pc[c] = "sleep_regs"
    /\ \A c \in Cores :
          /\ current_thread[c] # NULL => owner[current_thread[c]] = c \/ pc[c] = "sleep_time"
          /\ pc[c] \in Sleeping => NCores = 1 /\ thread_state[current_thread[c]] = "SLEEPING"

\* Core 0 will look at the sleep of t before the next timer period begins, or it
\* still executes its boot code and may yield once.
Due(t) ==
    \/ pc[0] = "trylock" /\ kind[0] = "all"
    \/ pc[0] \in {"update", "updating"} /\ \E i \in upd.i .. Len(thread_list) : thread_list[i] = t
    \/ irq_regs[0] = "boot" /\ pc[0] \notin {"update", "updating", "pick", "switch", "dead"}

\* Periods waited and periods left add up to the length of the sleep, less the
\* period in which it began.
EnoughLeft(t, left) ==
    /\ waited[t] + left >= SleepPeriods - 1
    /\ Due(t) => waited[t] + left >= SleepPeriods

\* The rounds of scheduling core 0 makes: one per timer period, and one that its
\* boot code asks for.  The other cores never shorten sleeps.
OnlyPeriodic ==
    /\ \A c \in Cores :
          /\ ~need_resched[c] /\ pc[c] # "resched"
          /\ pc[c] \in {"update", "updating", "ipi"} \/ kind[c] = "all" => c = 0
    /\ ~resched_ipi[0]
    /\ irq_regs[0] = "boot" => state[0] \in {"OFFLINE", "BOOTING"}
    /\ pc[0] = "trylock" => kind[0] = "all" \/ irq_regs[0] = "boot"

\* A sleeping thread has enough of its sleep left, or its core has not yet written
\* how much that is.
SleeperOK(t) ==
    IF thread_state[t] = "SLEEPING"
    THEN \/ EnoughLeft(t, sleep_time[t])
         \/ sleep_time[t] = 0 /\ \E c \in Cores : current_thread[c] = t /\ pc[c] \in Sleeping
    ELSE sleep_time[t] \in {0, SleepPeriods}

\* What update_sleeping_threads read was right when it read it.
SeenOK ==
    pc[0] = "updating" =>
        \/ upd.seen \in {0, sleep_time[thread_list[upd.i]]}
        \/ EnoughLeft(thread_list[upd.i], upd.seen)

\* Without yields and page faults in threads core 0 shortens sleeps only once per
\* timer period, and once from its boot code.
SleepInv == OnlyPeriodic /\ (\A t \in Threads : SleeperOK(t)) /\ SeenOK
=============================================================================
