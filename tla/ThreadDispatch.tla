--------------------------- MODULE ThreadDispatch ---------------------------
(***************************************************************************)
(* What the scheduler of pixOS promises, without locks, interrupts, saved  *)
(* frames or lists: threads are admitted, a core runs at most one thread,  *)
(* a thread runs on at most one core, and each change of a thread's status *)
(* happens in one step.  Sched implements it.                              *)
(***************************************************************************)

CONSTANTS Cores, Threads, NULL

VARIABLES
    status,    \* status of each thread
    running    \* the thread each core runs, or NULL

vars == <<status, running>>

Statuses == {"absent", "ready", "running", "asleep", "done"}

Init ==
    /\ status = [t \in Threads |-> "absent"]
    /\ running = [c \in Cores |-> NULL]

\* A process is handed to the scheduler with all its threads.
Admit(S) ==
    /\ \A t \in S : status[t] = "absent"
    /\ status' = [t \in Threads |-> IF t \in S THEN "ready" ELSE status[t]]
    /\ UNCHANGED running

\* An idle core takes a ready thread.
Run(c, t) ==
    /\ running[c] = NULL /\ status[t] = "ready"
    /\ status' = [status EXCEPT ![t] = "running"]
    /\ running' = [running EXCEPT ![c] = t]

\* A busy core swaps its thread for a ready one.
Preempt(c, t) ==
    /\ running[c] # NULL /\ status[running[c]] = "running" /\ status[t] = "ready"
    /\ status' = [status EXCEPT ![running[c]] = "ready", ![t] = "running"]
    /\ running' = [running EXCEPT ![c] = t]

\* The thread of a core goes to sleep, or exits.
Leave(c, s) ==
    /\ running[c] # NULL /\ status[running[c]] = "running"
    /\ status' = [status EXCEPT ![running[c]] = s]
    /\ running' = [running EXCEPT ![c] = NULL]

\* The thread of a core is killed; the core keeps it until it stops.
Kill(c) ==
    /\ running[c] # NULL
    /\ status' = [status EXCEPT ![running[c]] = "done"]
    /\ UNCHANGED running

\* The sleep of a thread ends.
Wake(t) ==
    /\ status[t] = "asleep"
    /\ status' = [status EXCEPT ![t] = "ready"]
    /\ UNCHANGED running

Next ==
    \/ \E S \in SUBSET Threads : Admit(S)
    \/ \E c \in Cores, t \in Threads : Run(c, t) \/ Preempt(c, t)
    \/ \E c \in Cores : Leave(c, "asleep") \/ Leave(c, "done") \/ Kill(c)
    \/ \E t \in Threads : Wake(t)

Spec == Init /\ [][Next]_vars
=============================================================================
