---------------------------- MODULE SchedSteps ----------------------------
(***************************************************************************)
(* How far a step of one core can disturb the others: what an action of    *)
(* Sched must satisfy to preserve SchedInv.                                *)
(***************************************************************************)
EXTENDS Sched

\* The variables of the other cores are left alone.
OthersSame(c) ==
    \A d \in Cores \ {c} :
        /\ pc'[d] = pc[d] /\ on'[d] = on[d] /\ irq_regs'[d] = irq_regs[d]
        /\ current_thread'[d] = current_thread[d] /\ new_thread'[d] = new_thread[d]
        /\ boot'[d] = boot[d] /\ arg'[d] = arg[d]

\* The state of a thread is changed by the core it runs on or, while it does
\* not run, by the holder of the lock.
ThreadStep(c) ==
    \A t \in Threads :
        \/ thread_state'[t] = thread_state[t]
        \/ t = current_thread[c] /\ pc[c] \notin Sleeping
        \/ /\ t \in Range(thread_list) /\ thread_state[t] \in {"STOPPED", "SLEEPING"}
           /\ pc[c] \in Holding

\* The core keeps its thread, gives it up, or takes a STOPPED one; it leaves
\* sched_thread_sleep without a thread.
CurrentStep(c) ==
    /\ \/ current_thread'[c] \in {current_thread[c], NULL}
       \/ thread_state[current_thread'[c]] = "STOPPED"
    /\ pc[c] \in Sleeping => pc'[c] \in Sleeping \/ current_thread'[c] = NULL

\* A thread that is RUNNING after the step is on this core, or was on another.
RunningStep(c) ==
    \A t \in Threads :
        thread_state'[t] = "RUNNING"
        => \/ t = current_thread'[c] /\ pc'[c] \notin Sleeping
           \/ /\ thread_state[t] = "RUNNING"
              /\ ~(t = current_thread[c] /\ pc[c] \notin Sleeping)

\* The list grows, and it and the loop of update_sleeping_threads belong to
\* the holder of the lock.
ListStep(c) ==
    /\ created \subseteq created'
    /\ Range(thread_list) \subseteq Range(thread_list')
    /\ Range(thread_list') \subseteq created'
    /\ pc[c] \notin Holding => thread_list' = thread_list /\ upd' = upd
    /\ sched_lock' = NULL => upd'.i = 1

\* The lock is taken when free and released by its holder.
LockStep(c) == sched_lock \in {NULL, c} \/ sched_lock' = sched_lock

\* What the core itself relies on after the step.
OwnOK(c) == /\ pc[c] \in Holding => sched_lock = c
            /\ CoreOK(c) /\ HolderOK(c)

Effect(c) ==
    /\ OthersSame(c) /\ ThreadStep(c) /\ CurrentStep(c) /\ RunningStep(c)
    /\ ListStep(c) /\ LockStep(c) /\ OwnOK(c)'
=============================================================================
