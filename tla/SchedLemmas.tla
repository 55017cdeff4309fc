---------------------------- MODULE SchedLemmas ----------------------------
(***************************************************************************)
(* What single steps do to the invariants behind the theorems on saved     *)
(* frames, on panics and on the length of sleeps.                          *)
(***************************************************************************)
EXTENDS SchedSteps, SchedProperties, TLAPS

USE ZenonT(30)

\* Where _sched_runner and the vectors' handlers return to.
LEMMA ReturnPoints ==
  ASSUME NEW c \in Cores, TypeOK
  PROVE  /\ AfterSched(c) \in {"ipi", "resched", "exit"}
         /\ AfterHandler(c) \in {"resched", "exit"}
  BY DEF TypeOK, AfterSched, AfterHandler

-----------------------------------------------------------------------------
(* Frames.                                                                 *)

\* The step neither dispatches nor stops a thread.
Quiet(c) == /\ UNCHANGED <<current_thread, thread_state, regs, owner>>
            /\ pc[c] \notin Sleeping /\ pc'[c] \notin Sleeping

\* All other steps.
Stops(c) == PageFault(c) \/ ThreadExit(c) \/ SleepState(c) \/ SleepRegs(c) \/ SleepTime(c)

Moves(c) == UpdateWrite(c) \/ Switch(c) \/ Dispatch(c)

\* Interrupts and system calls on their way to _sched_runner.
LEMMA QuietEvent ==
  ASSUME NEW c \in Cores, SchedInv,
         Timer(c) \/ ReschedIpi(c) \/ PanicIpi(c) \/ Yield(c) \/ Spawn(c) \/ BootRunKernel(c)
  PROVE  Quiet(c)
<1>1. pc \in [Cores -> Points]
  BY DEF SchedInv, TypeOK
<1> QED
  BY <1>1 DEF Quiet, Sleeping, Timer, ReschedIpi, PanicIpi, Yield, Spawn, BootRunKernel, Calling, Goto,
     coreVars, threadVars, histVars

\* _sched_runner when it changes no thread.
LEMMA QuietRunner ==
  ASSUME NEW c \in Cores, SchedInv,
         TryLockTaken(c) \/ TryLockBusy(c) \/ UpdateRead(c) \/ Pick(c) \/ Stay(c) \/ LeaveBoot(c)
         \/ SendIpi(c) \/ Resched(c) \/ ExitIrq(c)
  PROVE  Quiet(c)
<1>1. pc \in [Cores -> Points] /\ AfterSched(c) \notin Sleeping /\ AfterHandler(c) \notin Sleeping
  BY ReturnPoints DEF SchedInv, TypeOK, Sleeping
<1>2. CASE TryLockTaken(c) \/ TryLockBusy(c)
  BY <1>1, <1>2 DEF Quiet, Sleeping, TryLockTaken, TryLockBusy, Goto, coreVars, threadVars, histVars
<1>3. CASE UpdateRead(c)
  <2>1. pc[c] = "update" /\ UNCHANGED <<current_thread, thread_state, regs, owner>>
    BY <1>3 DEF UpdateRead, coreVars, threadVars, histVars
  <2>2. pc'[c] \in {"updating", "update", "pick"}
    BY <1>1, <1>3 DEF UpdateRead, NextUpdate, Goto
  <2> QED
    BY <2>1, <2>2 DEF Quiet, Sleeping
<1>4. CASE Pick(c)
  BY <1>1, <1>4 DEF Quiet, Sleeping, Pick, Goto, coreVars, threadVars, histVars
<1>5. CASE Stay(c) \/ LeaveBoot(c)
  <2>1. pc[c] = "switch" /\ UNCHANGED <<current_thread, thread_state, regs, owner>>
    BY <1>5 DEF Stay, LeaveBoot, coreVars, threadVars, histVars
  <2>2. pc' = [pc EXCEPT ![c] = AfterSched(c)]
    BY <1>5 DEF Stay, LeaveBoot, Release, Goto
  <2> QED
    BY <1>1, <2>1, <2>2 DEF Quiet, Sleeping
<1>6. CASE SendIpi(c) \/ Resched(c) \/ ExitIrq(c)
  BY <1>1, <1>6 DEF Quiet, Sleeping, SendIpi, Resched, ExitIrq, Goto, coreVars, threadVars, histVars
<1> QED
  BY <1>2, <1>3, <1>4, <1>5, <1>6

\* Creating threads and processes: a thread that thread_create makes STOPPED is
\* known to no core.
LEMMA QuietCreate ==
  ASSUME NEW c \in Cores, SchedInv,
         LockCreate(c) \/ LockEnqueue(c) \/ CreateIdle(c) \/ CreateThread(c) \/ RunProc(c) \/ AssertFails(c)
  PROVE  Quiet(c)
<1>1. pc \in [Cores -> Points] /\ current_thread \in [Cores -> Threads \cup {NULL}]
      /\ thread_state \in [Threads -> {"STOPPED", "RUNNING", "SLEEPING", "TERMINATED"}]
  BY DEF SchedInv, TypeOK
<1>2. CASE LockCreate(c) \/ LockEnqueue(c) \/ AssertFails(c)
  BY <1>1, <1>2 DEF Quiet, Sleeping, LockCreate, LockEnqueue, AssertFails, Panic, Goto, coreVars,
     threadVars, histVars
<1>3. CASE CreateIdle(c)
  <2>1. current_thread[c] = NULL
    BY <1>3 DEF SchedInv, CoreOK, CreateIdle
  <2>2. current_thread' = current_thread
    BY <1>1, <1>3, <2>1 DEF CreateIdle
  <2>3. pc[c] = "creating" /\ pc'[c] \in {"create", "code"}
    BY <1>1, <1>3 DEF CreateIdle, Goto
  <2> QED
    BY <1>3, <2>2, <2>3 DEF Quiet, Sleeping, CreateIdle, threadVars, histVars
<1>4. CASE CreateThread(c)
  <2>1. arg[c] \in Procs
    BY <1>4, SMTT(30) DEF SchedInv, TypeOK, CoreOK, CreateThread
  <2>2. PICK i \in DOMAIN ThreadsOf[arg[c]] :
            /\ ThreadsOf[arg[c]][i] \notin created
            /\ thread_state' = [thread_state EXCEPT ![ThreadsOf[arg[c]][i]] = "STOPPED"]
    BY <1>4 DEF CreateThread
  <2>3. ThreadsOf[arg[c]][i] \in Threads
    BY <2>1, ProcsAssumption, SMTT(30)
  <2>4. thread_state[ThreadsOf[arg[c]][i]] = "STOPPED"
    BY <2>2, <2>3 DEF SchedInv, ListInv
  <2>5. thread_state' = thread_state
    BY <1>1, <2>2, <2>3, <2>4
  <2>6. pc[c] = "creating" /\ pc'[c] \in {"create", "enqueue"}
    BY <1>1, <1>4 DEF CreateThread, Goto
  <2> QED
    BY <1>4, <2>5, <2>6 DEF Quiet, Sleeping, CreateThread, coreVars, histVars
<1>5. CASE RunProc(c)
  <2>1. pc[c] = "enqueueing" /\ pc'[c] \in {"create", "code"}
    BY <1>1, <1>5 DEF RunProc, Goto
  <2> QED
    BY <1>5, <2>1 DEF Quiet, Sleeping, RunProc, coreVars, threadVars, histVars
<1> QED
  BY <1>2, <1>3, <1>4, <1>5

\* Every step is quiet, stops a thread or moves one.
LEMMA QuietOrNot ==
  ASSUME NEW c \in Cores, SchedInv, Step(c) \/ Event(c)
  PROVE  Quiet(c) \/ Stops(c) \/ Moves(c)
BY QuietEvent, QuietRunner, QuietCreate DEF Step, Event, Stops, Moves

\* Nobody else is inside sched_thread_sleep.
LEMMA SleepsAlone ==
  ASSUME SavedInv, NEW c \in Cores, NEW d \in Cores, c # d
  PROVE  pc[d] \notin Sleeping /\ pc[c] \notin Sleeping
<1>1. NCores # 1
  BY NCoresAssumption, SMTT(30) DEF Cores
<1> QED
  BY <1>1 DEF SavedInv

\* A step that touches no frame.
LEMMA QuietSaved ==
  ASSUME NEW c \in Cores, SchedInv, SavedInv, Effect(c), Quiet(c)
  PROVE  SavedInv'
<1>1. \A d \in Cores : /\ pc'[d] \in Sleeping => pc'[d] = pc[d]
                       /\ pc[d] \in Sleeping => pc'[d] = pc[d]
  BY DEF Quiet, Effect, OthersSame
<1>2. UNCHANGED <<current_thread, thread_state, regs, owner>>
  BY DEF Quiet
<1>3. \A d \in Cores : /\ pc[d] = "sleep_regs" => pc'[d] = "sleep_regs"
                       /\ pc[d] = "sleep_time" => pc'[d] = "sleep_time"
  BY <1>1 DEF Sleeping
<1> QED
  BY <1>1, <1>2, <1>3, SMTT(30) DEF SavedInv, ReadyThreadsAreSaved

\* A thread leaves its core: its frame is saved first, or it never runs again.
LEMMA StopsSaved ==
  ASSUME NCores = 1 \/ NoneCalls("sleep"),
         NEW c \in Cores, SchedInv, SavedInv, Effect(c), TypeOK', Stops(c)
  PROVE  SavedInv'
<1> DEFINE t == current_thread[c]
<1>1. /\ pc \in [Cores -> Points] /\ current_thread \in [Cores -> Threads \cup {NULL}]
      /\ thread_state \in [Threads -> {"STOPPED", "RUNNING", "SLEEPING", "TERMINATED"}]
      /\ regs \in [Threads -> BOOLEAN] /\ owner \in [Threads -> Cores \cup {NULL}]
  BY DEF SchedInv, TypeOK
<1>2. \A d \in Cores \ {c} : /\ pc'[d] = pc[d] /\ current_thread'[d] = current_thread[d]
                             /\ pc[d] \notin Sleeping
  BY SleepsAlone DEF Effect, OthersSame
<1>3. ASSUME NEW d \in Cores \ {c}, current_thread[d] # NULL, pc[c] \notin Sleeping
      PROVE  current_thread[d] # t
  BY <1>2, <1>3 DEF SchedInv, ExclusiveDispatch
<1>4. CASE PageFault(c)
  <2>1. /\ pc[c] = "code" /\ pc'[c] = "resched" /\ UNCHANGED <<current_thread, regs, owner>>
        /\ thread_state' = [thread_state EXCEPT ![t] = "TERMINATED"]
    BY <1>1, <1>4 DEF PageFault, Goto, histVars
  <2>2. t \in Threads
    BY <1>4 DEF PageFault, SchedInv, CoreOK
  <2>3. pc[c] \notin Sleeping /\ pc'[c] \notin Sleeping
    BY <2>1 DEF Sleeping
  <2>4. \A u \in Threads : thread_state'[u] # "TERMINATED" => thread_state'[u] = thread_state[u]
    BY <1>1, <2>1
  <2>5. ReadyThreadsAreSaved'
    BY <2>1, <2>4, SMTT(30) DEF SavedInv, ReadyThreadsAreSaved
  <2>6. \A d \in Cores : pc'[d] \notin Sleeping /\ pc[d] \notin Sleeping
    BY <1>2, <2>3
  <2>7. \A d \in Cores : pc[d] # "sleep_regs" /\ pc[d] # "sleep_time"
    BY <2>6 DEF Sleeping
  <2>8. \A u \in Threads : thread_state'[u] = "SLEEPING" => regs'[u]
    BY <2>1, <2>4, <2>7, SMTT(30) DEF SavedInv
  <2> QED
    BY <2>1, <2>5, <2>6, <2>7, <2>8 DEF SavedInv
<1>5. CASE ThreadExit(c)
  <2>1. /\ pc[c] = "code" /\ t # NULL
        /\ thread_state' = [thread_state EXCEPT ![t] = "TERMINATED"]
        /\ regs' = [regs EXCEPT ![t] = (owner[t] = c)]
        /\ owner' = [owner EXCEPT ![t] = IF @ = c THEN NULL ELSE @]
        /\ current_thread' = [current_thread EXCEPT ![c] = NULL]
        /\ pc'[c] = AfterHandler(c)
    BY <1>1, <1>5 DEF ThreadExit, Calling, SaveRegs, Goto
  <2>2. t \in Threads /\ pc[c] \notin Sleeping /\ pc'[c] \notin Sleeping
    BY <1>1, <2>1, ReturnPoints DEF Sleeping, SchedInv
  <2>3. \A u \in Threads \ {t} : thread_state'[u] = thread_state[u] /\ regs'[u] = regs[u] /\ owner'[u] = owner[u]
    BY <1>1, <2>1
  <2>4. thread_state'[t] = "TERMINATED" /\ current_thread'[c] = NULL
    BY <1>1, <2>1, <2>2
  <2>5. ReadyThreadsAreSaved'
    BY <2>3, <2>4, SMTT(30) DEF SavedInv, ReadyThreadsAreSaved
  <2>6. \A d \in Cores : pc'[d] \notin Sleeping /\ pc[d] \notin Sleeping
    BY <1>2, <2>2
  <2>7. \A d \in Cores : pc[d] # "sleep_regs" /\ pc[d] # "sleep_time"
    BY <2>6, SMTT(30) DEF Sleeping
  <2>8. \A u \in Threads : thread_state'[u] = "SLEEPING" => regs'[u]
    BY <2>3, <2>4, <2>7, SMTT(30) DEF SavedInv
  <2>9. \A d \in Cores : current_thread'[d] # NULL => owner'[current_thread'[d]] = d
    BY <1>1, <1>2, <1>3, <2>2, <2>3, <2>4, <2>7, SMTT(30) DEF SavedInv
  <2> QED
    BY <2>5, <2>6, <2>8, <2>9 DEF SavedInv
<1>6. CASE SleepState(c)
  <2>1. /\ pc[c] = "code" /\ t # NULL /\ pc'[c] = "sleep_regs"
        /\ thread_state' = [thread_state EXCEPT ![t] = "SLEEPING"]
        /\ UNCHANGED <<current_thread, regs, owner>>
    BY <1>1, <1>6 DEF SleepState, Calling, Goto
  <2>2. NCores = 1
    BY <1>6 DEF SleepState, Calling, NoneCalls
  <2>3. t \in Threads /\ Cores = {0} /\ c = 0
    BY <1>1, <2>1, <2>2, SMTT(30) DEF Cores
  <2>4. \A u \in Threads \ {t} : thread_state'[u] = thread_state[u]
    BY <1>1, <2>1
  <2>5. thread_state'[t] = "SLEEPING"
    BY <1>1, <2>1, <2>3
  <2>6. ReadyThreadsAreSaved'
    BY <2>1, <2>4, <2>5, SMTT(30) DEF SavedInv, ReadyThreadsAreSaved
  <2>7. \A u \in Threads : thread_state'[u] = "SLEEPING" => regs'[u] \/ u = t
    BY <2>1, <2>3, <2>4, SMTT(30) DEF SavedInv
  <2>8. owner[t] = c
    BY <2>1 DEF SavedInv
  <2> QED
    BY <2>1, <2>2, <2>3, <2>5, <2>6, <2>7, <2>8 DEF SavedInv
<1>7. CASE SleepRegs(c)
  <2>1. /\ pc[c] = "sleep_regs" /\ pc'[c] = "sleep_time"
        /\ regs' = [regs EXCEPT ![t] = (owner[t] = c)]
        /\ UNCHANGED <<current_thread, thread_state>>
    BY <1>1, <1>7 DEF SleepRegs, SaveRegs, Goto, coreVars
  <2>2. pc[c] \in Sleeping
    BY <2>1 DEF Sleeping
  <2>3. NCores = 1 /\ thread_state[t] = "SLEEPING" /\ t # NULL
    BY <2>2 DEF SavedInv, SchedInv, CoreOK
  <2>4. t \in Threads /\ Cores = {0} /\ c = 0
    BY <1>1, <2>3, SMTT(30) DEF Cores
  <2>5. owner[t] = c
    BY <2>1, <2>3 DEF SavedInv
  <2>6. \A u \in Threads : u # t => regs'[u] = regs[u]
    BY <1>1, <2>1
  <2>7. regs'[t]
    BY <1>1, <2>1, <2>4, <2>5
  <2>8. ReadyThreadsAreSaved'
    BY <2>1, <2>6, <2>7, SMTT(30) DEF SavedInv, ReadyThreadsAreSaved
  <2>9. \A u \in Threads : thread_state'[u] = "SLEEPING" => regs'[u]
    BY <2>1, <2>4, <2>6, <2>7, SMTT(30) DEF SavedInv
  <2> QED
    BY <2>1, <2>3, <2>4, <2>8, <2>9 DEF SavedInv
<1>8. CASE SleepTime(c)
  <2>1. /\ pc[c] = "sleep_time" /\ pc'[c] = AfterHandler(c)
        /\ current_thread' = [current_thread EXCEPT ![c] = NULL]
        /\ UNCHANGED <<thread_state, regs, owner>>
    BY <1>1, <1>8 DEF SleepTime, Goto, histVars
  <2>2. pc[c] \in Sleeping /\ pc'[c] \notin Sleeping
    BY <2>1, ReturnPoints DEF Sleeping, SchedInv
  <2>3. NCores = 1
    BY <2>2 DEF SavedInv
  <2>4. Cores = {0} /\ c = 0 /\ current_thread'[c] = NULL
    BY <1>1, <2>1, <2>3, SMTT(30) DEF Cores
  <2>5. \A u \in Threads : thread_state'[u] = "SLEEPING" => regs'[u]
    BY <2>1, <2>4 DEF SavedInv
  <2> QED
    BY <2>1, <2>2, <2>4, <2>5 DEF SavedInv, ReadyThreadsAreSaved
<1> QED
  BY <1>4, <1>5, <1>6, <1>7, <1>8 DEF Stops

\* A thread is woken, stopped or dispatched by the holder of the lock.
LEMMA MovesSaved ==
  ASSUME NEW c \in Cores, SchedInv, SavedInv, Effect(c), Moves(c)
  PROVE  SavedInv'
<1>1. /\ pc \in [Cores -> Points] /\ current_thread \in [Cores -> Threads \cup {NULL}]
      /\ thread_state \in [Threads -> {"STOPPED", "RUNNING", "SLEEPING", "TERMINATED"}]
      /\ regs \in [Threads -> BOOLEAN] /\ owner \in [Threads -> Cores \cup {NULL}]
  BY DEF SchedInv, TypeOK
<1>2. \A d \in Cores \ {c} : /\ pc'[d] = pc[d] /\ current_thread'[d] = current_thread[d]
                             /\ pc[d] \notin Sleeping
  BY SleepsAlone DEF Effect, OthersSame
<1>3. pc[c] \notin Sleeping
  BY DEF Moves, UpdateWrite, Switch, Dispatch, Sleeping
<1>4. pc'[c] \notin Sleeping
  <2>1. CASE UpdateWrite(c)
    BY <1>1, <2>1 DEF UpdateWrite, NextUpdate, Goto, Sleeping
  <2>2. CASE Switch(c) \/ Dispatch(c)
    <3>1. pc' = [pc EXCEPT ![c] = AfterSched(c)]
      BY <2>2 DEF Switch, Dispatch, Release, Goto
    <3>2. AfterSched(c) \notin Sleeping
      BY ReturnPoints DEF SchedInv, Sleeping
    <3> QED
      BY <1>1, <3>1, <3>2
  <2> QED
    BY <2>1, <2>2 DEF Moves
<1>5. \A d \in Cores : pc'[d] \notin Sleeping /\ pc[d] \notin Sleeping
  BY <1>2, <1>3, <1>4
<1>6. \A d \in Cores : pc[d] # "sleep_regs" /\ pc[d] # "sleep_time"
  BY <1>5 DEF Sleeping
<1>7. \A u \in Threads : thread_state[u] \in {"SLEEPING", "STOPPED"} => regs[u]
  BY <1>6, SMTT(30) DEF SavedInv, ReadyThreadsAreSaved
<1>8. \A d \in Cores : current_thread[d] # NULL => owner[current_thread[d]] = d
  BY <1>6 DEF SavedInv
<1>9. SUFFICES /\ \A u \in Threads : thread_state'[u] \in {"SLEEPING", "STOPPED"} => regs'[u]
               /\ \A d \in Cores : current_thread'[d] # NULL => owner'[current_thread'[d]] = d
  BY <1>5 DEF SavedInv, ReadyThreadsAreSaved
<1>10. CASE UpdateWrite(c)
  <2> DEFINE t == thread_list[upd.i]
  <2>1. UNCHANGED <<current_thread, regs, owner>>
    BY <1>10 DEF UpdateWrite, coreVars
  <2>2. \A u \in Threads : u # t => thread_state'[u] = thread_state[u]
    BY <1>1, <1>10 DEF UpdateWrite
  <2>3. thread_state[t] = "SLEEPING"
    BY <1>10 DEF UpdateWrite, SchedInv, HolderOK
  <2> QED
    BY <1>7, <1>8, <2>1, <2>2, <2>3
<1>11. ASSUME Switch(c) \/ Dispatch(c)
       PROVE  /\ new_thread[c] \in Threads /\ thread_state[new_thread[c]] = "STOPPED"
              /\ \A d \in Cores : current_thread[d] # new_thread[c]
  <2>1. new_thread[c] # NULL /\ pc[c] = "switch"
    BY <1>11 DEF Switch, Dispatch
  <2>2. new_thread[c] \in Threads /\ thread_state[new_thread[c]] = "STOPPED"
    BY <2>1, SMTT(30) DEF SchedInv, TypeOK, HolderOK
  <2>3. new_thread[c] # NULL
    BY <2>1
  <2> QED
    BY <1>5, <2>2, <2>3 DEF SchedInv, CoreOK
<1>12. CASE Switch(c)
  <2> DEFINE cur == current_thread[c]
             t == new_thread[c]
  <2>1. /\ thread_state' = [[thread_state EXCEPT ![cur] = "STOPPED"] EXCEPT ![t] = "RUNNING"]
        /\ regs' = [[regs EXCEPT ![cur] = (owner[cur] = c)] EXCEPT ![t] = FALSE]
        /\ owner' = [[owner EXCEPT ![cur] = IF @ = c THEN NULL ELSE @] EXCEPT ![t] = c]
        /\ current_thread' = [current_thread EXCEPT ![c] = t]
    BY <1>12 DEF Switch, Load
  <2>2. cur \in Threads /\ t \in Threads /\ cur # t /\ cur # NULL
    BY <1>1, <1>11, <1>12, CallsAssumption DEF Switch, SchedAsserts
  <2>3. \A u \in Threads \ {cur, t} :
            thread_state'[u] = thread_state[u] /\ regs'[u] = regs[u] /\ owner'[u] = owner[u]
    BY <1>1, <2>1, <2>2
  <2>4. thread_state'[t] = "RUNNING" /\ owner'[t] = c /\ regs'[cur] = (owner[cur] = c)
    BY <1>1, <2>1, <2>2
  <2>5. owner[cur] = c
    BY <1>8, <2>2
  <2>6. \A u \in Threads : thread_state'[u] \in {"SLEEPING", "STOPPED"} => regs'[u]
    BY <1>7, <2>3, <2>4, <2>5
  <2>7. ASSUME NEW d \in Cores, current_thread'[d] # NULL PROVE owner'[current_thread'[d]] = d
    <3>1. CASE d = c
      BY <1>1, <2>1, <2>4, <3>1
    <3>2. CASE d # c
      <4>1. current_thread'[d] = current_thread[d] /\ current_thread[d] \in Threads
        BY <1>1, <1>2, <2>7, <3>2
      <4>2. current_thread[d] # t /\ current_thread[d] # cur
        BY <1>5, <1>11, <1>12, <2>2, <3>2 DEF SchedInv, ExclusiveDispatch
      <4>3. current_thread[d] # NULL
        BY <2>7, <4>1
      <4> QED
        BY <1>8, <2>3, <4>1, <4>2, <4>3
    <3> QED
      BY <3>1, <3>2
  <2> QED
    BY <2>6, <2>7
<1>13. CASE Dispatch(c)
  <2> DEFINE t == new_thread[c]
  <2>1. /\ thread_state' = [thread_state EXCEPT ![t] = "RUNNING"]
        /\ regs' = [regs EXCEPT ![t] = FALSE]
        /\ owner' = [owner EXCEPT ![t] = c]
        /\ current_thread' = [current_thread EXCEPT ![c] = t]
    BY <1>13 DEF Dispatch, Load
  <2>2. t \in Threads
    BY <1>11, <1>13
  <2>3. \A u \in Threads \ {t} :
            thread_state'[u] = thread_state[u] /\ regs'[u] = regs[u] /\ owner'[u] = owner[u]
    BY <1>1, <2>1, <2>2
  <2>4. thread_state'[t] = "RUNNING" /\ owner'[t] = c
    BY <1>1, <2>1, <2>2
  <2>5. \A u \in Threads : thread_state'[u] \in {"SLEEPING", "STOPPED"} => regs'[u]
    BY <1>7, <2>3, <2>4
  <2>6. ASSUME NEW d \in Cores, current_thread'[d] # NULL PROVE owner'[current_thread'[d]] = d
    <3>1. CASE d = c
      BY <1>1, <2>1, <2>4, <3>1
    <3>2. CASE d # c
      <4>1. current_thread'[d] = current_thread[d] /\ current_thread[d] \in Threads
        BY <1>1, <1>2, <2>6, <3>2, SMTT(30)
      <4>2. current_thread[d] # t /\ current_thread[d] # NULL
        BY <1>11, <1>13, <2>6, <4>1
      <4> QED
        BY <1>8, <2>3, <4>1, <4>2, SMTT(30)
    <3> QED
      BY <3>1, <3>2, SMTT(30)
  <2> QED
    BY <2>5, <2>6, SMTT(30)
<1> QED
  BY <1>10, <1>12, <1>13 DEF Moves

-----------------------------------------------------------------------------
(* Creating processes.                                                     *)

\* The step has nothing to do with the creation of processes.
Aside(c) == /\ UNCHANGED <<thread_list, proc_list, created>> /\ boot'[c] \in {boot[c], "spin"}
            /\ pc[c] \notin Creating \cup {"dead"} /\ pc'[c] \notin Creating

\* Steps that are part of it.
Creates(c) == \/ Spawn(c) \/ BootRunKernel(c) \/ LockCreate(c) \/ LockEnqueue(c) \/ CreateIdle(c)
              \/ CreateThread(c) \/ RunProc(c) \/ AssertFails(c)

\* Interrupts and system calls.
LEMMA AsideEvent ==
  ASSUME NEW c \in Cores, SchedInv,
         \/ Timer(c) \/ ReschedIpi(c) \/ PanicIpi(c) \/ Yield(c) \/ PageFault(c)
         \/ ThreadExit(c) \/ SleepState(c) \/ SleepRegs(c) \/ SleepTime(c)
  PROVE  Aside(c)
<1>1. /\ pc \in [Cores -> Points] /\ AfterHandler(c) \in {"resched", "exit"}
      /\ boot \in [Cores -> {"init", "v86", "kernel", "yield", "spin"}]
  BY ReturnPoints DEF SchedInv, TypeOK
<1>2. CASE Timer(c) \/ ReschedIpi(c) \/ PanicIpi(c) \/ PageFault(c)
  BY <1>1, <1>2 DEF Aside, Creating, Timer, ReschedIpi, PanicIpi, PageFault, Goto, listVars
<1>3. CASE Yield(c)
  BY <1>1, <1>3 DEF Aside, Creating, Yield, Calling, Goto, listVars
<1>4. CASE ThreadExit(c) \/ SleepState(c)
  BY <1>1, <1>4 DEF Aside, Creating, ThreadExit, SleepState, Calling, Goto, listVars
<1>5. CASE SleepRegs(c) \/ SleepTime(c)
  BY <1>1, <1>5 DEF Aside, Creating, SleepRegs, SleepTime, Goto, listVars
<1> QED
  BY <1>2, <1>3, <1>4, <1>5

\* _sched_runner and the return from the interrupt.
LEMMA AsideRunner ==
  ASSUME NEW c \in Cores, SchedInv,
         \/ TryLockTaken(c) \/ TryLockBusy(c) \/ UpdateRead(c) \/ UpdateWrite(c) \/ Pick(c) \/ Switch(c)
         \/ Dispatch(c) \/ Stay(c) \/ LeaveBoot(c) \/ SendIpi(c) \/ Resched(c) \/ ExitIrq(c)
  PROVE  Aside(c)
<1>1. /\ pc \in [Cores -> Points] /\ AfterHandler(c) \in {"resched", "exit"}
      /\ AfterSched(c) \in {"ipi", "resched", "exit"}
  BY ReturnPoints DEF SchedInv, TypeOK
<1>2. CASE TryLockTaken(c) \/ TryLockBusy(c)
  BY <1>1, <1>2 DEF Aside, Creating, TryLockTaken, TryLockBusy, Goto, listVars
<1>3. CASE UpdateRead(c) \/ UpdateWrite(c)
  <2>1. pc[c] \in {"update", "updating"} /\ UNCHANGED <<thread_list, proc_list, created, boot>>
    BY <1>3 DEF UpdateRead, UpdateWrite, listVars
  <2>2. pc'[c] \in {"updating", "update", "pick"}
    BY <1>1, <1>3 DEF UpdateRead, UpdateWrite, NextUpdate, Goto
  <2> QED
    BY <2>1, <2>2 DEF Aside, Creating
<1>4. CASE Pick(c)
  BY <1>1, <1>4 DEF Aside, Creating, Pick, Goto, listVars
<1>5. CASE Switch(c) \/ Dispatch(c) \/ Stay(c) \/ LeaveBoot(c)
  <2>1. pc[c] = "switch" /\ UNCHANGED <<thread_list, proc_list, created, boot>>
    BY <1>5 DEF Switch, Dispatch, Stay, LeaveBoot, listVars
  <2>2. pc' = [pc EXCEPT ![c] = AfterSched(c)]
    BY <1>5 DEF Switch, Dispatch, Stay, LeaveBoot, Release, Goto
  <2> QED
    BY <1>1, <2>1, <2>2 DEF Aside, Creating
<1>6. CASE SendIpi(c) \/ Resched(c) \/ ExitIrq(c)
  BY <1>1, <1>6 DEF Aside, Creating, SendIpi, Resched, ExitIrq, Goto, listVars
<1> QED
  BY <1>2, <1>3, <1>4, <1>5, <1>6

\* Every step is of one of the two kinds.
LEMMA AsideOrCreates ==
  ASSUME NEW c \in Cores, SchedInv, Step(c) \/ Event(c)
  PROVE  Aside(c) \/ Creates(c)
BY AsideEvent, AsideRunner DEF Step, Event, Creates

\* A core is not disturbed by a step of another that leaves proc_list alone.
LEMMA CreatorSame ==
  ASSUME NEW c \in Cores, NEW d \in Cores, d # c, CreatorOK(d), Effect(c), proc_list' = proc_list
  PROVE  CreatorOK(d)'
<1>1. pc'[d] = pc[d] /\ on'[d] = on[d] /\ boot'[d] = boot[d] /\ arg'[d] = arg[d] /\ created \subseteq created'
  BY DEF Effect, OthersSame, ListStep
<1> QED
  BY <1>1 DEF CreatorOK, TestTurn

\* A step that has nothing to do with it.
LEMMA AsideCreate ==
  ASSUME NEW c \in Cores, SchedInv, CreateInv, Effect(c), Aside(c)
  PROVE  CreateInv'
<1>1. UNCHANGED <<thread_list, proc_list, created>>
  BY DEF Aside
<1>2. \A d \in Cores : boot'[d] \in {boot[d], "spin"}
  BY DEF Aside, Effect, OthersSame
<1>3. ASSUME NEW d \in Cores PROVE CreatorOK(d)'
  <2>1. CASE d = c
    <3>1. boot[c] \notin {"init", "v86"} /\ (boot[c] = "kernel" => c = 0)
      BY DEF CreateInv, CreatorOK, Aside
    <3>2. pc'[c] \notin Creating
      BY DEF Aside
    <3> QED
      BY <1>2, <2>1, <3>1, <3>2 DEF CreatorOK, Creating
  <2>2. CASE d # c
    BY <1>1, <2>2, CreatorSame DEF CreateInv
  <2> QED
    BY <2>1, <2>2
<1>4. 0 \in Cores
  BY NCoresAssumption, SMTT(30) DEF Cores
<1> QED
  BY <1>1, <1>2, <1>3, <1>4 DEF CreateInv

\* A thread is created.
LEMMA CreateThreadCreate ==
  ASSUME NEW c \in Cores, SchedInv, CreateInv, Effect(c), CreateThread(c)
  PROVE  CreateInv'
<1> DEFINE list == ThreadsOf[arg[c]]
<1>1. /\ pc[c] = "creating" /\ boot[c] # "init"
      /\ UNCHANGED <<on, arg, boot, thread_list, proc_list>>
  BY DEF CreateThread
<1>2. PICK i \in DOMAIN list :
          /\ \A j \in 1 .. i - 1 : list[j] \in created
          /\ created' = created \cup {list[i]}
          /\ pc' = [pc EXCEPT ![c] = IF i = Len(list) THEN "enqueue" ELSE "create"]
  BY DEF CreateThread, Goto
<1>3. arg[c] \in Procs /\ list \in Seq(Threads) /\ pc \in [Cores -> Points]
  BY <1>1, ProcsAssumption, SMTT(30) DEF SchedInv, TypeOK, CoreOK
<1>4. pc'[c] = IF i = Len(list) THEN "enqueue" ELSE "create"
  BY <1>2, <1>3
<1>5. i = Len(list) => Range(list) \subseteq created'
  <2> SUFFICES ASSUME i = Len(list), NEW j \in DOMAIN list PROVE list[j] \in created'
    BY DEF Range
  <2>1. j = i \/ j \in 1 .. i - 1
    BY <1>3, SMTT(30)
  <2> QED
    BY <1>2, <2>1
<1>6. ASSUME NEW d \in Cores PROVE CreatorOK(d)'
  <2>1. CASE d = c
    <3>1. CreatorOK(c) /\ pc[c] \in Creating /\ pc'[c] \in Creating
      BY <1>1, <1>4 DEF CreateInv, Creating
    <3>2. pc'[c] \in {"enqueue", "enqueueing"} => Range(ThreadsOf[arg'[c]]) \subseteq created'
      BY <1>1, <1>4, <1>5
    <3> QED
      BY <1>1, <2>1, <3>1, <3>2 DEF CreatorOK, TestTurn
  <2>2. CASE d # c
    BY <1>1, <2>2, CreatorSame DEF CreateInv
  <2> QED
    BY <2>1, <2>2
<1> QED
  BY <1>1, <1>2, <1>6 DEF CreateInv

\* The other steps of a creating core up to sched_run_proc.
LEMMA BeginCreate ==
  ASSUME NEW c \in Cores, SchedInv, CreateInv, Effect(c),
         Spawn(c) \/ BootRunKernel(c) \/ LockCreate(c) \/ LockEnqueue(c) \/ CreateIdle(c) \/ AssertFails(c)
  PROVE  CreateInv'
<1>1. /\ UNCHANGED <<on, thread_list, proc_list, created>>
      /\ pc \in [Cores -> Points] /\ arg \in [Cores -> Procs \cup {NULL}]
      /\ boot \in [Cores -> {"init", "v86", "kernel", "yield", "spin"}]
  BY DEF Spawn, BootRunKernel, LockCreate, LockEnqueue, CreateIdle, AssertFails, listVars, SchedInv, TypeOK
<1>2. CreatorOK(c) /\ Range(ThreadsOf[kernel_proc]) \subseteq created /\ 0 \in Cores
  BY NCoresAssumption, SMTT(30) DEF CreateInv, Cores
<1>3. CreatorOK(c)' /\ (c = 0 => boot'[c] = boot[c] \/ (boot'[c] = "v86" /\ boot[c] = "init"))
  <2>1. CASE Spawn(c)
    <3>1. /\ pc[c] = "code" /\ pc'[c] = "create" /\ boot' = boot /\ arg'[c] = TestProcs[1]
          /\ on[c] \in Threads /\ "spawn" \in Calls[on[c]]
          /\ TestProcs # <<>> /\ TestProcs[1] \notin Range(proc_list)
      BY <1>1, <2>1 DEF Spawn, Calling, Goto
    <3>2. 1 \in DOMAIN TestProcs /\ \A m \in 1 .. 1 - 1 : FALSE
      BY <3>1, ProcsAssumption, SMTT(30)
    <3>3. TestTurn(1, arg[c])'
      BY <1>1, <3>1, <3>2 DEF TestTurn
    <3>4. boot[c] \notin {"init", "v86"}
      BY <1>2, <3>1 DEF CreatorOK, Creating
    <3> QED
      BY <1>1, <1>2, <3>1, <3>2, <3>3, <3>4 DEF CreatorOK
  <2>2. CASE BootRunKernel(c)
    <3>1. /\ pc[c] = "code" /\ pc'[c] = "enqueue" /\ boot' = boot /\ arg'[c] = kernel_proc
          /\ on[c] = "boot" /\ boot[c] = "kernel"
      BY <1>1, <2>2 DEF BootRunKernel, Goto
    <3> QED
      BY <1>1, <1>2, <3>1 DEF CreatorOK
  <2>3. CASE LockCreate(c)
    <3>1. pc[c] = "create" /\ pc'[c] = "creating" /\ boot' = boot /\ arg' = arg
      BY <1>1, <2>3 DEF LockCreate, Goto
    <3> QED
      BY <1>1, <1>2, <3>1 DEF CreatorOK, Creating, TestTurn
  <2>4. CASE LockEnqueue(c)
    <3>1. pc[c] = "enqueue" /\ pc'[c] = "enqueueing" /\ boot' = boot /\ arg' = arg
      BY <1>1, <2>4 DEF LockEnqueue, Goto
    <3> QED
      BY <1>1, <1>2, <3>1 DEF CreatorOK, Creating, TestTurn
  <2>5. CASE CreateIdle(c) /\ c = 0
    <3>1. /\ pc[c] = "creating" /\ pc'[c] = "create" /\ boot[c] = "init" /\ boot'[c] = "v86"
          /\ arg'[c] = v86_proc
      BY <1>1, <2>5 DEF CreateIdle, Goto
    <3> QED
      BY <1>1, <1>2, <2>5, <3>1 DEF CreatorOK, Creating
  <2>6. CASE CreateIdle(c) /\ c # 0
    <3>1. pc'[c] = "code" /\ boot'[c] = "yield"
      BY <1>1, <2>6 DEF CreateIdle, Goto
    <3> QED
      BY <1>1, <1>2, <2>6, <3>1 DEF CreatorOK, Creating
  <2>7. CASE AssertFails(c)
    <3>1. pc'[c] = "dead" /\ boot' = boot /\ arg' = arg
      BY <1>1, <2>7 DEF AssertFails, Panic, Goto
    <3> QED
      BY <1>1, <1>2, <3>1 DEF CreatorOK, Creating
  <2> QED
    BY <2>1, <2>2, <2>3, <2>4, <2>5, <2>6, <2>7
<1>4. \A d \in Cores : CreatorOK(d)'
  BY <1>1, <1>3, CreatorSame DEF CreateInv
<1>5. boot'[0] = boot[0] \/ (boot'[0] = "v86" /\ boot[0] = "init")
  <2>1. c # 0 => boot'[0] = boot[0]
    BY <1>2 DEF Effect, OthersSame
  <2> QED
    BY <1>3, <2>1
<1> QED
  BY <1>1, <1>4, <1>5 DEF CreateInv

\* The process that kernel_thread goes on with.
LEMMA FollowingTestIs ==
  ASSUME ProcsAreDistinct, NEW p \in Procs
  PROVE  /\ p \in {kernel_proc, v86_proc} => FollowingTest(p) = NULL
         /\ \A n \in DOMAIN TestProcs : p = TestProcs[n] =>
              FollowingTest(p) = IF n = Len(TestProcs) THEN NULL ELSE TestProcs[n + 1]
<1> DEFINE later == {i \in DOMAIN TestProcs : i > 1 /\ TestProcs[i - 1] = p}
<1>1. TestProcs \in Seq(Procs \ {kernel_proc, v86_proc}) /\ DOMAIN TestProcs = 1 .. Len(TestProcs)
      /\ Len(TestProcs) \in Nat
  BY ProcsAssumption, SMTT(30)
<1>2. ASSUME p \in {kernel_proc, v86_proc} PROVE FollowingTest(p) = NULL
  <2>1. \A i \in DOMAIN TestProcs : i > 1 => i - 1 \in DOMAIN TestProcs
    BY <1>1, SMTT(30)
  <2>2. \A i \in DOMAIN TestProcs : TestProcs[i] # p
    BY <1>1, <1>2, SMTT(30)
  <2>3. later = {}
    BY <2>1, <2>2
  <2> QED
    BY <2>3 DEF FollowingTest
<1>3. ASSUME NEW n \in DOMAIN TestProcs, p = TestProcs[n]
      PROVE  FollowingTest(p) = IF n = Len(TestProcs) THEN NULL ELSE TestProcs[n + 1]
  <2>1. \A i \in DOMAIN TestProcs : i > 1 /\ TestProcs[i - 1] = p => i = n + 1
    <3> SUFFICES ASSUME NEW i \in DOMAIN TestProcs, i > 1, TestProcs[i - 1] = p PROVE i = n + 1
      OBVIOUS
    <3>1. i - 1 \in DOMAIN TestProcs
      BY <1>1, SMTT(30)
    <3>2. i - 1 = n
      BY <1>3, <3>1 DEF ProcsAreDistinct
    <3> QED
      BY <1>1, <3>2, SMTT(30)
  <2>2. CASE n = Len(TestProcs)
    <3>1. n + 1 \notin DOMAIN TestProcs
      BY <1>1, <2>2, SMTT(30)
    <3>2. later = {}
      BY <2>1, <3>1
    <3> QED
      BY <2>2, <3>2 DEF FollowingTest
  <2>3. CASE n # Len(TestProcs)
    <3>1. n + 1 \in DOMAIN TestProcs /\ n + 1 > 1 /\ (n + 1) - 1 = n
      BY <1>1, <2>3, SMTT(30)
    <3>2. n + 1 \in later
      BY <1>3, <3>1
    <3>3. (CHOOSE i \in later : TRUE) \in later
      BY <3>2
    <3>4. (CHOOSE i \in later : TRUE) = n + 1
      BY <2>1, <3>3
    <3> QED
      BY <2>3, <3>2, <3>4 DEF FollowingTest
  <2> QED
    BY <2>2, <2>3
<1> QED
  BY <1>2, <1>3

\* A process that is being created is not in the list, and neither are its
\* threads.
LEMMA CreatedUnlisted ==
  ASSUME ProcsAreDistinct, NEW c \in Cores, SchedInv, CreateInv, pc[c] \in Creating, boot[c] # "init"
  PROVE  /\ arg[c] \in Procs /\ arg[c] \notin Range(proc_list)
         /\ Range(ThreadsOf[arg[c]]) \cap Range(thread_list) = {}
<1>1. CreatorOK(c) /\ arg[c] \in Procs /\ Range(proc_list) \subseteq Procs
  BY SMTT(30) DEF CreateInv, SchedInv, TypeOK, CoreOK, Creating, Range
<1>2. arg[c] \notin Range(proc_list)
  BY <1>1 DEF CreatorOK, CreateInv, TestTurn
<1>3. ASSUME NEW t \in Range(ThreadsOf[arg[c]]), t \in Range(thread_list) PROVE FALSE
  <2>1. PICK q \in Range(proc_list) : t \in Range(ThreadsOf[q])
    BY <1>3 DEF CreateInv
  <2>2. q # arg[c] /\ q \in Procs
    BY <1>1, <1>2
  <2> QED
    BY <1>1, <1>3, <2>1, <2>2 DEF ProcsAreDistinct
<1> QED
  BY <1>1, <1>2, <1>3

\* The threads that sched_run_proc appends are new to the list.
LEMMA RunProcList ==
  ASSUME ProcsAreDistinct, NEW c \in Cores, SchedInv, CreateInv, RunProc(c)
  PROVE  /\ \A t \in Range(thread_list') : \E p \in Range(proc_list') : t \in Range(ThreadsOf[p])
         /\ \A i, j \in DOMAIN thread_list' : thread_list'[i] = thread_list'[j] => i = j
         /\ Range(proc_list') = Range(proc_list) \cup {arg[c]}
<1> DEFINE p == arg[c]
           n == Len(thread_list)
<1>1. pc[c] = "enqueueing" /\ boot[c] # "init"
  BY DEF RunProc, SchedInv, CoreOK
<1>2. p \in Procs /\ Range(ThreadsOf[p]) \cap Range(thread_list) = {}
  BY <1>1, CreatedUnlisted DEF Creating
<1>3. /\ thread_list \in Seq(Threads) /\ ThreadsOf[p] \in Seq(Threads) /\ proc_list \in Seq(Procs)
      /\ thread_list' = thread_list \o ThreadsOf[p] /\ proc_list' = Append(proc_list, p)
  BY <1>2, ProcsAssumption DEF SchedInv, TypeOK, RunProc
<1>4. Range(proc_list') = Range(proc_list) \cup {p}
  <2>1. DOMAIN proc_list' = 1 .. Len(proc_list) + 1 /\ DOMAIN proc_list = 1 .. Len(proc_list)
        /\ Len(proc_list) \in Nat
    BY <1>2, <1>3, SMTT(30)
  <2>2. proc_list'[Len(proc_list) + 1] = p /\ \A i \in DOMAIN proc_list : proc_list'[i] = proc_list[i]
    BY <1>2, <1>3, SMTT(30)
  <2>3. \A i \in DOMAIN proc_list' : i \in DOMAIN proc_list \/ i = Len(proc_list) + 1
    BY <2>1, SMTT(30)
  <2>4. DOMAIN proc_list \subseteq DOMAIN proc_list' /\ Len(proc_list) + 1 \in DOMAIN proc_list'
    BY <2>1, SMTT(30)
  <2> QED
    BY <2>2, <2>3, <2>4 DEF Range
<1>5. \A i \in DOMAIN thread_list' :
          \/ i \in DOMAIN thread_list /\ thread_list'[i] = thread_list[i]
          \/ /\ i \notin DOMAIN thread_list /\ i - n \in DOMAIN ThreadsOf[p]
             /\ thread_list'[i] = ThreadsOf[p][i - n]
  BY <1>3, SMTT(30)
<1>6. ASSUME NEW i \in DOMAIN thread_list', NEW j \in DOMAIN thread_list', thread_list'[i] = thread_list'[j]
      PROVE  i = j
  <2>1. CASE i \in DOMAIN thread_list /\ j \in DOMAIN thread_list
    BY <1>5, <1>6, <2>1 DEF CreateInv
  <2>2. CASE i \notin DOMAIN thread_list /\ j \notin DOMAIN thread_list
    <3>1. i - n \in DOMAIN ThreadsOf[p] /\ j - n \in DOMAIN ThreadsOf[p]
          /\ ThreadsOf[p][i - n] = ThreadsOf[p][j - n]
      BY <1>5, <1>6, <2>2
    <3>2. i - n = j - n
      BY <1>2, <3>1 DEF ProcsAreDistinct
    <3>3. i \in Int /\ j \in Int /\ n \in Int
      BY <1>3, SMTT(30)
    <3> QED
      BY <3>2, <3>3, SMTT(30)
  <2>3. CASE i \in DOMAIN thread_list /\ j \notin DOMAIN thread_list
    <3>1. thread_list'[i] \in Range(thread_list) /\ thread_list'[j] \in Range(ThreadsOf[p])
      BY <1>5, <2>3 DEF Range
    <3> QED
      BY <1>2, <1>6, <3>1
  <2>4. CASE i \notin DOMAIN thread_list /\ j \in DOMAIN thread_list
    <3>1. thread_list'[j] \in Range(thread_list) /\ thread_list'[i] \in Range(ThreadsOf[p])
      BY <1>5, <2>4 DEF Range
    <3> QED
      BY <1>2, <1>6, <3>1
  <2> QED
    BY <2>1, <2>2, <2>3, <2>4
<1>7. ASSUME NEW t \in Range(thread_list') PROVE \E q \in Range(proc_list') : t \in Range(ThreadsOf[q])
  <2>1. t \in Range(thread_list) \/ t \in Range(ThreadsOf[p])
    BY <1>5, SMTT(30) DEF Range
  <2> QED
    BY <1>4, <2>1 DEF CreateInv
<1> QED
  BY <1>4, <1>6, <1>7

\* sched_run_proc.
LEMMA RunProcCreate ==
  ASSUME ProcsAreDistinct, NEW c \in Cores, SchedInv, CreateInv, Effect(c), RunProc(c)
  PROVE  CreateInv'
<1> DEFINE p == arg[c]
<1>1. /\ pc[c] = "enqueueing" /\ boot[c] # "init" /\ UNCHANGED <<on, created>>
      /\ boot'[c] = CASE on[c] # "boot" -> boot[c] [] p = v86_proc -> "kernel" [] OTHER -> "yield"
      /\ arg'[c] = FollowingTest(p)
      /\ pc'[c] = IF FollowingTest(p) = NULL THEN "code" ELSE "create"
  <2>1. /\ pc \in [Cores -> Points] /\ arg \in [Cores -> Procs \cup {NULL}]
        /\ boot \in [Cores -> {"init", "v86", "kernel", "yield", "spin"}]
    BY DEF SchedInv, TypeOK
  <2>2. pc[c] = "enqueueing" /\ boot[c] # "init"
    BY DEF RunProc, SchedInv, CoreOK
  <2> QED
    BY <2>1, <2>2 DEF RunProc, Goto
<1>2. p \in Procs /\ p \notin Range(proc_list)
  BY <1>1, CreatedUnlisted DEF Creating
<1>3. Range(proc_list') = Range(proc_list) \cup {p}
  BY RunProcList
<1>4. /\ \A d \in Cores \ {c} : /\ pc'[d] = pc[d] /\ on'[d] = on[d] /\ boot'[d] = boot[d] /\ arg'[d] = arg[d]
                                /\ CreatorOK(d)
      /\ CreatorOK(c) /\ 0 \in Cores
  BY NCoresAssumption, SMTT(30) DEF Effect, OthersSame, CreateInv, Cores
<1>5. \A n \in DOMAIN TestProcs : TestProcs[n] \notin {kernel_proc, v86_proc}
  BY ProcsAssumption, SMTT(30)
<1>6. CASE on[c] = "boot" /\ boot[c] = "v86" /\ p = v86_proc
  <2>1. FollowingTest(p) = NULL /\ c = 0
    BY <1>2, <1>4, <1>6, FollowingTestIs DEF CreatorOK
  <2>2. boot'[c] = "kernel" /\ pc'[c] = "code"
    BY <1>1, <1>6, <2>1
  <2>3. CreatorOK(c)'
    BY <2>1, <2>2 DEF CreatorOK, Creating
  <2>4. \A d \in Cores \ {c} : CreatorOK(d)'
    BY <1>1, <1>3, <1>4, <1>5, <1>6, SMTT(30) DEF CreatorOK, TestTurn
  <2>5. kernel_proc \notin Range(proc_list')
    BY <1>3, <1>6, <2>1, ProcsAssumption DEF CreateInv
  <2>6. \A n \in DOMAIN TestProcs : TestProcs[n] \in Range(proc_list') =>
            \A m \in 1 .. n : TestProcs[m] \in Range(proc_list')
    BY <1>3, <1>5, <1>6 DEF CreateInv
  <2> QED
    BY <1>1, <2>1, <2>2, <2>3, <2>4, <2>5, <2>6, RunProcList DEF CreateInv
<1>7. CASE on[c] = "boot" /\ boot[c] = "kernel" /\ p = kernel_proc
  <2>1. FollowingTest(p) = NULL /\ c = 0 /\ p # v86_proc
    BY <1>2, <1>4, <1>7, FollowingTestIs, ProcsAssumption DEF CreatorOK
  <2>2. boot'[c] = "yield" /\ pc'[c] = "code"
    BY <1>1, <1>7, <2>1
  <2>3. CreatorOK(c)'
    BY <2>1, <2>2 DEF CreatorOK, Creating
  <2>4. \A d \in Cores \ {c} : CreatorOK(d)'
    BY <1>1, <1>3, <1>4, <1>5, <1>7, SMTT(30) DEF CreatorOK, TestTurn
  <2>5. \A n \in DOMAIN TestProcs : TestProcs[n] \in Range(proc_list') =>
            \A m \in 1 .. n : TestProcs[m] \in Range(proc_list')
    BY <1>3, <1>5, <1>7 DEF CreateInv
  <2> QED
    BY <1>1, <2>1, <2>2, <2>3, <2>4, <2>5, RunProcList DEF CreateInv
<1>8. CASE /\ on[c] \in Threads /\ "spawn" \in Calls[on[c]]
           /\ \E n \in DOMAIN TestProcs : TestTurn(n, p)
  <2>1. PICK n \in DOMAIN TestProcs : TestTurn(n, p)
    BY <1>8
  <2>2. /\ p = TestProcs[n] /\ p \notin {kernel_proc, v86_proc} /\ n \in 1 .. Len(TestProcs)
        /\ \A m \in 1 .. n - 1 : TestProcs[m] \in Range(proc_list)
    BY <1>5, <2>1, ProcsAssumption, SMTT(30) DEF TestTurn
  <2>3. on[c] # "boot" /\ boot'[c] = boot[c] /\ boot[c] \notin {"init", "v86"}
    <3>1. on[c] # "boot"
      BY <1>8, CallsAssumption
    <3>2. boot'[c] = boot[c]
      BY <1>1, <2>2, <3>1
    <3> QED
      BY <1>4, <3>1, <3>2 DEF CreatorOK
  <2>4. \A m \in DOMAIN TestProcs : TestProcs[m] \in Range(proc_list') =>
            \A k \in 1 .. m : TestProcs[k] \in Range(proc_list')
    <3> SUFFICES ASSUME NEW m \in DOMAIN TestProcs, TestProcs[m] \in Range(proc_list'), NEW k \in 1 .. m
                 PROVE  TestProcs[k] \in Range(proc_list')
      OBVIOUS
    <3>1. CASE TestProcs[m] \in Range(proc_list)
      BY <1>3, <3>1 DEF CreateInv
    <3>2. CASE TestProcs[m] = p
      <4>1. m = n
        BY <2>2, <3>2 DEF ProcsAreDistinct
      <4>2. k = n \/ k \in 1 .. n - 1
        BY <2>2, <4>1, SMTT(30)
      <4> QED
        BY <1>3, <2>2, <4>2
    <3> QED
      BY <1>3, <3>1, <3>2
  <2>5. CreatorOK(c)'
    <3>1. CASE n = Len(TestProcs)
      <4>1. pc'[c] = "code"
        BY <1>1, <1>2, <2>2, <3>1, FollowingTestIs
      <4> QED
        BY <1>4, <2>3, <4>1 DEF CreatorOK, Creating
    <3>2. CASE n # Len(TestProcs)
      <4>1. n + 1 \in DOMAIN TestProcs /\ n + 1 # n /\ n \in 1 .. n + 1
            /\ \A m \in 1 .. (n + 1) - 1 : m = n \/ m \in 1 .. n - 1
        BY <2>2, <3>2, ProcsAssumption, SMTT(30)
      <4>2. FollowingTest(p) = TestProcs[n + 1]
        BY <1>2, <2>2, <3>2, FollowingTestIs
      <4>3. TestProcs[n + 1] # p
        BY <2>2, <4>1 DEF ProcsAreDistinct
      <4>4. TestProcs[n + 1] \notin Range(proc_list)
        BY <1>2, <2>2, <4>1 DEF CreateInv
      <4>5. TestTurn(n + 1, arg[c])'
        BY <1>1, <1>3, <2>2, <4>1, <4>2, <4>3, <4>4 DEF TestTurn
      <4>6. pc'[c] \in {"code", "create"}
        BY <1>1
      <4> QED
        BY <1>1, <1>4, <1>8, <2>3, <4>1, <4>5, <4>6 DEF CreatorOK
    <3> QED
      BY <3>1, <3>2
  <2>6. ASSUME NEW d \in Cores \ {c} PROVE CreatorOK(d)'
    <3>1. CASE pc[d] \in Creating /\ on[d] \in Threads
      <4>1. pc[c] \in Creating /\ pc[c] \notin Sleeping /\ pc[d] \notin Sleeping
        BY <1>1, <3>1 DEF Creating, Sleeping
      <4>2. current_thread[d] = on[d] /\ current_thread[c] = on[c]
        BY <1>8, <3>1, <4>1 DEF SchedInv, CoreOK, Creating
      <4>3. on[c] # on[d]
        BY <1>8, <2>6, <4>1, <4>2, CallsAssumption DEF SchedInv, ExclusiveDispatch
      <4>4. "spawn" \notin Calls[on[d]]
        BY <1>8, <3>1, <4>3 DEF ProcsAreDistinct
      <4>5. boot[d] # "init"
        BY <1>4, <2>6, <3>1, CallsAssumption DEF CreatorOK
      <4> QED
        BY <1>4, <2>6, <3>1, <4>4, <4>5, CallsAssumption DEF CreatorOK
    <3>2. CASE ~(pc[d] \in Creating /\ on[d] \in Threads)
      BY <1>1, <1>4, <2>6, <3>2 DEF CreatorOK
    <3> QED
      BY <3>1, <3>2
  <2>7. boot'[0] = boot[0]
    BY <1>4, <2>3
  <2>8. \A d \in Cores : CreatorOK(d)'
    BY <2>5, <2>6
  <2> QED
    BY <1>1, <1>3, <2>2, <2>4, <2>7, <2>8, RunProcList DEF CreateInv
<1> QED
  BY <1>1, <1>4, <1>6, <1>7, <1>8 DEF CreatorOK, Creating

-----------------------------------------------------------------------------
(* No panic.                                                               *)

\* The step keeps the core that takes it as the assertions of _sched want it.
CalmStep(c) ==
    /\ \A d \in Cores \ {c} : state'[d] = state[d]
    /\ UNCHANGED panic_ipi
    /\ pc'[c] # "dead"
    /\ state'[c] = "ONLINE" <=> current_thread'[c] # NULL
    /\ current_thread'[c] # NULL /\ pc'[c] \notin Sleeping
       => thread_state'[current_thread'[c]] = "RUNNING"

\* Such a step preserves the invariant: a running thread is stopped by its own
\* core only, and a thread that is not in the list by nobody.
LEMMA CalmStepInv ==
  ASSUME NEW c \in Cores, SchedInv, CalmInv, Effect(c), CalmStep(c)
  PROVE  CalmInv'
<1>1. ASSUME NEW d \in Cores
      PROVE  /\ pc'[d] # "dead" /\ ~panic_ipi'[d]
             /\ state'[d] = "ONLINE" <=> current_thread'[d] # NULL
             /\ current_thread'[d] # NULL /\ pc'[d] \notin Sleeping
                => thread_state'[current_thread'[d]] = "RUNNING"
  <2>1. CASE d = c
    BY <2>1 DEF CalmStep, CalmInv
  <2>2. CASE d # c
    <3>1. /\ pc'[d] = pc[d] /\ current_thread'[d] = current_thread[d] /\ state'[d] = state[d]
          /\ UNCHANGED panic_ipi
      BY <2>2 DEF Effect, OthersSame, CalmStep
    <3>2. ASSUME current_thread[d] # NULL, pc[d] \notin Sleeping
          PROVE  thread_state'[current_thread[d]] = "RUNNING"
      <4>1. current_thread[d] \in Threads /\ thread_state[current_thread[d]] = "RUNNING"
        BY <3>2, SMTT(30) DEF SchedInv, TypeOK, CalmInv
      <4>2. ~(current_thread[d] = current_thread[c] /\ pc[c] \notin Sleeping)
        BY <2>2, <3>2 DEF SchedInv, ExclusiveDispatch
      <4> QED
        BY <4>1, <4>2 DEF Effect, ThreadStep
    <3> QED
      BY <3>1, <3>2, SMTT(30) DEF CalmInv
  <2> QED
    BY <2>1, <2>2
<1>2. ASSUME NEW t \in Threads \ Range(thread_list') PROVE thread_state'[t] = "STOPPED"
  <2>1. t \in Threads /\ t \notin Range(thread_list)
    BY <1>2 DEF Effect, ListStep
  <2>2. t # current_thread[c]
    BY <2>1, CallsAssumption DEF SchedInv, CoreOK
  <2> QED
    BY <2>1, <2>2 DEF Effect, ThreadStep, CalmInv
<1> QED
  BY <1>1, <1>2 DEF CalmInv

\* A step that touches no thread and does not change the state of its core.
LEMMA CalmQuiet ==
  ASSUME NEW c \in Cores, CalmInv, Quiet(c), UNCHANGED <<state, panic_ipi>>, pc'[c] # "dead"
  PROVE  CalmStep(c)
BY DEF CalmStep, CalmInv, Quiet

\* Interrupts, system calls and thread creation.
LEMMA CalmEvent ==
  ASSUME NEW c \in Cores, SchedInv, CalmInv,
         Timer(c) \/ ReschedIpi(c) \/ Yield(c) \/ Spawn(c) \/ BootRunKernel(c)
         \/ LockCreate(c) \/ LockEnqueue(c) \/ CreateThread(c) \/ RunProc(c)
  PROVE  CalmStep(c)
<1>1. pc \in [Cores -> Points]
  BY DEF SchedInv, TypeOK
<1>2. UNCHANGED <<state, panic_ipi>>
  BY DEF Timer, ReschedIpi, Yield, Spawn, BootRunKernel, LockCreate, LockEnqueue, CreateThread, RunProc,
     coreVars, ipiVars
<1>3. pc'[c] # "dead"
  BY <1>1 DEF Timer, ReschedIpi, Yield, Spawn, BootRunKernel, LockCreate, LockEnqueue, CreateThread, RunProc,
     Goto
<1> QED
  BY <1>2, <1>3, QuietEvent, QuietCreate, CalmQuiet

\* _sched_runner when it neither loads nor wakes a thread.
LEMMA CalmRunner ==
  ASSUME NEW c \in Cores, SchedInv, CalmInv,
         TryLockTaken(c) \/ TryLockBusy(c) \/ UpdateRead(c) \/ Pick(c) \/ Stay(c)
         \/ SendIpi(c) \/ Resched(c) \/ ExitIrq(c)
  PROVE  CalmStep(c)
<1>1. pc \in [Cores -> Points] /\ AfterSched(c) # "dead" /\ AfterHandler(c) # "dead"
  BY ReturnPoints DEF SchedInv, TypeOK
<1>2. UNCHANGED <<state, panic_ipi>>
  BY DEF TryLockTaken, TryLockBusy, UpdateRead, Pick, Stay, SendIpi, Resched, ExitIrq, coreVars, ipiVars
<1>3. pc'[c] # "dead"
  BY <1>1 DEF TryLockTaken, TryLockBusy, UpdateRead, NextUpdate, Pick, Stay, Release, SendIpi, Resched,
     ExitIrq, Goto
<1> QED
  BY <1>2, <1>3, QuietRunner, CalmQuiet

\* A core that gets or gives up its thread.
LEMMA CalmMoves ==
  ASSUME NEW c \in Cores, SchedInv, CalmInv,
         UpdateWrite(c) \/ Switch(c) \/ Dispatch(c) \/ LeaveBoot(c) \/ CreateIdle(c)
         \/ ThreadExit(c) \/ SleepState(c) \/ SleepRegs(c) \/ SleepTime(c)
  PROVE  CalmStep(c)
<1>1. /\ pc \in [Cores -> Points] /\ AfterSched(c) # "dead" /\ AfterHandler(c) # "dead"
      /\ state \in [Cores -> {"OFFLINE", "BOOTING", "ONLINE", "IDLE"}]
      /\ current_thread \in [Cores -> Threads \cup {NULL}]
      /\ new_thread \in [Cores -> Threads \cup {NULL}]
      /\ thread_state \in [Threads -> {"STOPPED", "RUNNING", "SLEEPING", "TERMINATED"}]
  BY ReturnPoints DEF SchedInv, TypeOK
<1>2. CASE UpdateWrite(c)
  <2>1. /\ pc[c] = "updating" /\ UNCHANGED <<state, current_thread, panic_ipi>>
        /\ \E s \in {"STOPPED", thread_state[thread_list[upd.i]]} :
              thread_state' = [thread_state EXCEPT ![thread_list[upd.i]] = s]
    BY <1>2 DEF UpdateWrite, coreVars, ipiVars
  <2>2. pc'[c] # "dead"
    BY <1>1, <1>2 DEF UpdateWrite, NextUpdate, Goto
  <2>3. thread_state[thread_list[upd.i]] = "SLEEPING"
    BY <2>1 DEF SchedInv, HolderOK
  <2>4. ASSUME current_thread[c] # NULL PROVE thread_state'[current_thread[c]] = "RUNNING"
    <3>0. pc[c] \notin Sleeping
      BY <2>1 DEF Sleeping
    <3>1. current_thread[c] \in Threads /\ thread_state[current_thread[c]] = "RUNNING"
      <4>1. current_thread[c] \in Threads
        BY <1>1, <2>4
      <4>2. thread_state[current_thread[c]] = "RUNNING"
        BY <2>4, <3>0 DEF CalmInv
      <4> QED
        BY <4>1, <4>2
    <3>2. current_thread[c] # thread_list[upd.i]
      BY <2>3, <3>1
    <3> QED
      BY <1>1, <2>1, <3>1, <3>2
  <2> QED
    BY <2>1, <2>2, <2>4 DEF CalmStep, CalmInv
<1>3. CASE Switch(c) \/ Dispatch(c)
  <2>1. /\ new_thread[c] # NULL /\ UNCHANGED panic_ipi /\ pc' = [pc EXCEPT ![c] = AfterSched(c)]
        /\ state[c] \in {"ONLINE", "IDLE"}
        /\ state' = [state EXCEPT ![c] = IF @ = "IDLE" THEN "ONLINE" ELSE @]
        /\ current_thread' = [current_thread EXCEPT ![c] = new_thread[c]]
    BY <1>3 DEF Switch, Dispatch, Load, Release, Goto, ipiVars
  <2>2. thread_state'[new_thread[c]] = "RUNNING"
    <3>1. CASE Switch(c)
      <4>1. thread_state' = [[thread_state EXCEPT ![current_thread[c]] = "STOPPED"]
                              EXCEPT ![new_thread[c]] = "RUNNING"]
        BY <3>1 DEF Switch, Load
      <4>2. new_thread[c] \in Threads
        BY <1>1, <2>1
      <4> QED
        BY <1>1, <4>1, <4>2
    <3>2. CASE Dispatch(c)
      <4>1. thread_state' = [thread_state EXCEPT ![new_thread[c]] = "RUNNING"]
        BY <3>2 DEF Dispatch, Load
      <4>2. new_thread[c] \in Threads
        BY <1>1, <2>1, SMTT(30)
      <4> QED
        BY <1>1, <4>1, <4>2
    <3> QED
      BY <1>3, <3>1, <3>2
  <2>3. pc'[c] # "dead" /\ state'[c] = "ONLINE" /\ current_thread'[c] = new_thread[c]
        /\ \A d \in Cores \ {c} : state'[d] = state[d]
    BY <1>1, <2>1
  <2> QED
    BY <2>1, <2>2, <2>3 DEF CalmStep
<1>4. CASE LeaveBoot(c) \/ CreateIdle(c) \/ ThreadExit(c) \/ SleepTime(c)
  <2>1. /\ UNCHANGED panic_ipi
        /\ \E s \in {"IDLE", "BOOTING"} : state' = [state EXCEPT ![c] = s]
    BY <1>4 DEF LeaveBoot, CreateIdle, ThreadExit, SleepTime, EnterIdle, ipiVars
  <2>2. pc'[c] # "dead"
    BY <1>1, <1>4 DEF LeaveBoot, CreateIdle, ThreadExit, SleepTime, Release, Goto
  <2>3. current_thread'[c] = NULL
    BY <1>1, <1>4 DEF LeaveBoot, SchedAsserts, CreateIdle, ThreadExit, SleepTime
  <2>4. state'[c] # "ONLINE" /\ \A d \in Cores \ {c} : state'[d] = state[d]
    BY <1>1, <2>1
  <2> QED
    BY <2>1, <2>2, <2>3, <2>4 DEF CalmStep
<1>5. CASE SleepState(c) \/ SleepRegs(c)
  <2>1. UNCHANGED <<state, current_thread, panic_ipi>>
    BY <1>5 DEF SleepState, SleepRegs, coreVars, ipiVars
  <2>2. pc'[c] \in Sleeping
    BY <1>1, <1>5 DEF SleepState, SleepRegs, Goto, Sleeping
  <2> QED
    BY <2>1, <2>2 DEF CalmStep, CalmInv, Sleeping
<1> QED
  BY <1>2, <1>3, <1>4, <1>5

\* The assertions hold, and nothing else panics.
LEMMA NothingPanics ==
  ASSUME ProcsAreDistinct, NoneCalls("fault"), NEW c \in Cores, SchedInv, CreateInv, CalmInv
  PROVE  ~PanicIpi(c) /\ ~PageFault(c) /\ ~AssertFails(c)
<1>1. ~PanicIpi(c) /\ ~PageFault(c)
  BY DEF PanicIpi, CalmInv, PageFault, NoneCalls
<1>2. ASSUME pc[c] = "switch" PROVE SchedAsserts(c)
  BY <1>2 DEF SchedAsserts, CalmInv, Sleeping
<1>3. ASSUME pc[c] = "enqueueing" PROVE RunProcAsserts(c)
  <2>1. boot[c] # "init" /\ CreatorOK(c)
    BY <1>3 DEF SchedInv, CoreOK, CreateInv
  <2>2. /\ Range(ThreadsOf[arg[c]]) \cap Range(thread_list) = {} /\ arg[c] \in Procs
        /\ Range(ThreadsOf[arg[c]]) \subseteq created
    BY <1>3, <2>1, CreatedUnlisted DEF Creating, CreatorOK
  <2>3. created \subseteq Threads
    BY DEF SchedInv, TypeOK
  <2> QED
    BY <2>2, <2>3 DEF RunProcAsserts, CalmInv
<1> QED
  BY <1>1, <1>2, <1>3 DEF AssertFails

-----------------------------------------------------------------------------
(* Sleeps.                                                                 *)

\* Core 0 exists.
LEMMA BootCore == 0 \in Cores
BY NCoresAssumption, SMTT(30) DEF Cores

\* The step makes no round of scheduling on core 0 beyond the periodic ones.
PeriodicStep(c) ==
    /\ UNCHANGED need_resched
    /\ \A d \in Cores \ {c} : kind'[d] = kind[d] /\ state'[d] = state[d]
    /\ pc'[c] # "resched"
    /\ pc'[c] \in {"update", "updating", "ipi"} \/ kind'[c] = "all" => c = 0
    /\ ~resched_ipi'[0]
    /\ c = 0 => /\ irq_regs'[0] = "boot" => state'[0] \in {"OFFLINE", "BOOTING"}
                /\ pc'[0] = "trylock" => kind'[0] = "all" \/ irq_regs'[0] = "boot"

\* Such a step preserves that part of the invariant.
LEMMA PeriodicStepInv ==
  ASSUME NEW c \in Cores, OnlyPeriodic, Effect(c), PeriodicStep(c)
  PROVE  OnlyPeriodic'
<1>1. 0 \in Cores
  BY NCoresAssumption, SMTT(30) DEF Cores
<1>2. \A d \in Cores \ {c} : /\ pc'[d] = pc[d] /\ irq_regs'[d] = irq_regs[d]
                             /\ kind'[d] = kind[d] /\ state'[d] = state[d]
  BY DEF Effect, OthersSame, PeriodicStep
<1>3. CASE c = 0
  BY <1>1, <1>2, <1>3 DEF OnlyPeriodic, PeriodicStep
<1>4. CASE c # 0
  BY <1>1, <1>2, <1>4 DEF OnlyPeriodic, PeriodicStep
<1> QED
  BY <1>3, <1>4

\* Where _sched_runner and the vectors' handlers return to when nobody faults.
LEMMA PeriodicReturn ==
  ASSUME NEW c \in Cores, SchedInv, OnlyPeriodic
  PROVE  /\ AfterHandler(c) = "exit"
         /\ AfterSched(c) \in {"ipi", "exit"} /\ (AfterSched(c) = "ipi" => c = 0)
<1>1. kind[c] \in {"all", "one", "re"}
  BY DEF SchedInv, TypeOK
<1>2. AfterHandler(c) = "exit"
  BY DEF AfterHandler, OnlyPeriodic
<1> QED
  BY <1>1, <1>2 DEF AfterSched, OnlyPeriodic

\* Interrupts and system calls.
LEMMA PeriodicEvent ==
  ASSUME NoneCalls("fault"), NoneCalls("yield"),
         NEW c \in Cores, SchedInv, OnlyPeriodic, Event(c)
  PROVE  PeriodicStep(c)
<1>1. /\ pc \in [Cores -> Points] /\ kind \in [Cores -> {"all", "one", "re"}]
      /\ state \in [Cores -> {"OFFLINE", "BOOTING", "ONLINE", "IDLE"}]
      /\ irq_regs \in [Cores -> Contexts] /\ AfterHandler(c) = "exit"
      /\ resched_ipi \in [Cores -> BOOLEAN] /\ 0 \in Cores
  BY PeriodicReturn, BootCore DEF SchedInv, TypeOK
<1>2. pc[c] = "code" /\ irq_regs[c] = on[c] /\ ~PageFault(c)
  BY DEF Event, Timer, ReschedIpi, PanicIpi, PageFault, Yield, Calling, ThreadExit, SleepState, Spawn,
     SchedInv, CoreOK, NoneCalls
<1>3. irq_regs[c] = "boot" /\ c = 0 => state[0] \in {"OFFLINE", "BOOTING"}
  BY DEF OnlyPeriodic
<1>4. CASE Timer(c)
  BY <1>1, <1>2, <1>3, <1>4 DEF Timer, EnterIrq, Goto, ipiVars, PeriodicStep, OnlyPeriodic
<1>5. CASE ReschedIpi(c)
  <2>1. c # 0
    BY <1>5 DEF ReschedIpi, OnlyPeriodic
  <2> QED
    BY <1>1, <1>5, <2>1 DEF ReschedIpi, EnterIrq, Goto, PeriodicStep, OnlyPeriodic
<1>6. CASE PanicIpi(c)
  BY <1>1, <1>2, <1>6 DEF PanicIpi, EnterIrq, Goto, PeriodicStep, OnlyPeriodic
<1>7. CASE Yield(c)
  <2>1. on[c] = "boot"
    BY <1>7 DEF Yield, Calling, NoneCalls
  <2> QED
    BY <1>1, <1>2, <1>3, <1>7, <2>1 DEF Yield, EnterIrq, Goto, ipiVars, PeriodicStep, OnlyPeriodic
<1>8. CASE ThreadExit(c)
  BY <1>1, <1>8 DEF ThreadExit, EnterIdle, Goto, ipiVars, PeriodicStep, OnlyPeriodic
<1>9. CASE SleepState(c)
  BY <1>1, <1>2, <1>3, <1>9 DEF SleepState, EnterIrq, Goto, ipiVars, PeriodicStep, OnlyPeriodic
<1>10. CASE Spawn(c)
  BY <1>1, <1>10 DEF Spawn, Goto, coreVars, ipiVars, PeriodicStep, OnlyPeriodic
<1> QED
  BY <1>2, <1>4, <1>5, <1>6, <1>7, <1>8, <1>9, <1>10 DEF Event

\* _sched_runner.
LEMMA PeriodicRunner ==
  ASSUME NEW c \in Cores, SchedInv, OnlyPeriodic,
         SleepRegs(c) \/ SleepTime(c) \/ TryLockTaken(c) \/ TryLockBusy(c) \/ UpdateRead(c)
         \/ UpdateWrite(c) \/ Pick(c) \/ SendIpi(c) \/ Resched(c) \/ ExitIrq(c)
  PROVE  PeriodicStep(c)
<1>1. /\ pc \in [Cores -> Points] /\ kind \in [Cores -> {"all", "one", "re"}]
      /\ state \in [Cores -> {"OFFLINE", "BOOTING", "ONLINE", "IDLE"}]
      /\ irq_regs \in [Cores -> Contexts] /\ AfterHandler(c) = "exit"
      /\ AfterSched(c) \in {"ipi", "exit"} /\ (AfterSched(c) = "ipi" => c = 0)
      /\ resched_ipi \in [Cores -> BOOLEAN] /\ 0 \in Cores
  BY PeriodicReturn, BootCore DEF SchedInv, TypeOK
<1>2. CASE SleepRegs(c) \/ Pick(c) \/ ExitIrq(c)
  BY <1>1, <1>2 DEF SleepRegs, Pick, ExitIrq, Goto, coreVars, ipiVars, PeriodicStep, OnlyPeriodic
<1>3. CASE SleepTime(c)
  BY <1>1, <1>3 DEF SleepTime, EnterIdle, Goto, ipiVars, PeriodicStep, OnlyPeriodic
<1>4. CASE TryLockTaken(c) \/ TryLockBusy(c)
  BY <1>1, <1>4 DEF TryLockTaken, TryLockBusy, Goto, coreVars, ipiVars, PeriodicStep, OnlyPeriodic
<1>5. CASE UpdateRead(c) \/ UpdateWrite(c)
  <2>1. c = 0 /\ UNCHANGED <<coreVars, kind, resched_ipi>>
    BY <1>5 DEF UpdateRead, UpdateWrite, OnlyPeriodic, ipiVars
  <2>2. pc'[c] \in {"update", "updating", "pick"}
    BY <1>1, <1>5 DEF UpdateRead, UpdateWrite, NextUpdate, Goto
  <2> QED
    BY <2>1, <2>2 DEF coreVars, PeriodicStep, OnlyPeriodic
<1>6. CASE SendIpi(c)
  <2>1. c = 0 /\ UNCHANGED <<coreVars, kind>> /\ ~resched_ipi'[0] /\ pc'[c] = "exit"
    BY <1>1, <1>6 DEF SendIpi, Goto, OnlyPeriodic
  <2> QED
    BY <2>1 DEF coreVars, PeriodicStep, OnlyPeriodic
<1>7. CASE Resched(c)
  BY <1>7 DEF Resched, OnlyPeriodic
<1> QED
  BY <1>2, <1>3, <1>4, <1>5, <1>6, <1>7

\* _sched, and the creation of threads and processes.
LEMMA PeriodicRest ==
  ASSUME NEW c \in Cores, SchedInv, OnlyPeriodic,
         Switch(c) \/ Dispatch(c) \/ Stay(c) \/ LeaveBoot(c) \/ BootRunKernel(c) \/ LockCreate(c)
         \/ LockEnqueue(c) \/ CreateIdle(c) \/ CreateThread(c) \/ RunProc(c) \/ AssertFails(c)
  PROVE  PeriodicStep(c)
<1>1. /\ pc \in [Cores -> Points] /\ kind \in [Cores -> {"all", "one", "re"}]
      /\ state \in [Cores -> {"OFFLINE", "BOOTING", "ONLINE", "IDLE"}]
      /\ irq_regs \in [Cores -> Contexts] /\ new_thread \in [Cores -> Threads \cup {NULL}]
      /\ AfterSched(c) \in {"ipi", "exit"} /\ (AfterSched(c) = "ipi" => c = 0) /\ 0 \in Cores
  BY PeriodicReturn, BootCore DEF SchedInv, TypeOK
<1>2. CASE Switch(c) \/ Dispatch(c) \/ Stay(c) \/ LeaveBoot(c)
  <2>1. /\ UNCHANGED <<need_resched, kind, resched_ipi>> /\ pc'[c] = AfterSched(c)
        /\ \A d \in Cores \ {c} : state'[d] = state[d]
    BY <1>1, <1>2 DEF Switch, Dispatch, Stay, LeaveBoot, Load, EnterIdle, Release, Goto, coreVars, ipiVars
  <2>2. c = 0 /\ irq_regs'[0] = "boot" => state'[0] \in {"OFFLINE", "BOOTING"}
    <3>1. CASE Switch(c) \/ Dispatch(c)
      <4>1. new_thread[c] \in Threads /\ irq_regs' = [irq_regs EXCEPT ![c] = new_thread[c]]
        BY <1>1, <3>1 DEF Switch, Dispatch, Load
      <4> QED
        BY <1>1, <4>1, CallsAssumption
    <3>2. CASE Stay(c)
      BY <1>1, <3>2 DEF Stay, coreVars, OnlyPeriodic
    <3>3. CASE LeaveBoot(c)
      BY <1>1, <3>3 DEF LeaveBoot, EnterIdle
    <3> QED
      BY <1>2, <3>1, <3>2, <3>3
  <2> QED
    BY <1>1, <2>1, <2>2 DEF PeriodicStep, OnlyPeriodic
<1>3. CASE BootRunKernel(c) \/ LockCreate(c) \/ LockEnqueue(c) \/ CreateThread(c) \/ RunProc(c) \/ AssertFails(c)
  <2>1. UNCHANGED <<coreVars, kind, resched_ipi>>
    BY <1>3 DEF BootRunKernel, LockCreate, LockEnqueue, CreateThread, RunProc, AssertFails, ipiVars
  <2>2. pc'[c] \in {"create", "creating", "enqueue", "enqueueing", "code", "dead"}
    BY <1>1, <1>3 DEF BootRunKernel, LockCreate, LockEnqueue, CreateThread, RunProc, AssertFails, Panic, Goto
  <2> QED
    BY <1>1, <2>1, <2>2 DEF coreVars, PeriodicStep, OnlyPeriodic
<1>4. CASE CreateIdle(c)
  <2>1. /\ UNCHANGED <<need_resched, kind, resched_ipi>> /\ pc'[c] \in {"create", "code"}
        /\ state' = [state EXCEPT ![c] = "BOOTING"]
    BY <1>1, <1>4 DEF CreateIdle, Goto, ipiVars
  <2> QED
    BY <1>1, <2>1 DEF PeriodicStep, OnlyPeriodic
<1> QED
  BY <1>2, <1>3, <1>4

\* Another core does not make core 0 look at a sleep once more, nor touch what it
\* is looking at.
LEMMA DueOther ==
  ASSUME NEW c \in Cores, c # 0, SchedInv, Effect(c), PeriodicStep(c)
  PROVE  /\ \A t \in Threads : Due(t)' => Due(t)
         /\ pc'[0] = "updating" => pc[0] = "updating" /\ UNCHANGED <<upd, thread_list>>
<1>1. pc'[0] = pc[0] /\ irq_regs'[0] = irq_regs[0] /\ kind'[0] = kind[0]
  BY BootCore DEF Effect, OthersSame, PeriodicStep
<1>2. ASSUME pc[0] \in {"update", "updating"} PROVE UNCHANGED <<upd, thread_list>>
  <2>1. sched_lock = 0
    BY <1>2, BootCore DEF SchedInv, LockInv, Holding
  <2>2. pc[c] \notin Holding
    BY <2>1 DEF SchedInv, LockInv
  <2> QED
    BY <2>2 DEF Effect, ListStep
<1>3. ASSUME NEW t \in Threads, Due(t)' PROVE Due(t)
  <2>1. CASE pc[0] \in {"update", "updating"}
    BY <1>1, <1>2, <1>3, <2>1 DEF Due
  <2>2. CASE pc[0] \notin {"update", "updating"}
    BY <1>1, <1>3, <2>2 DEF Due
  <2> QED
    BY <2>1, <2>2
<1> QED
  BY <1>1, <1>2, <1>3

\* Core 0 leaves a round of scheduling, or is not in one.
LEMMA NotDue ==
  ASSUME pc'[0] \notin {"trylock", "update", "updating"},
         irq_regs'[0] = "boot" /\ pc'[0] \notin {"pick", "switch", "dead"}
         => irq_regs[0] = "boot" /\ pc[0] \notin {"update", "updating", "pick", "switch", "dead"}
  PROVE  \A t \in Threads : Due(t)' => Due(t)
BY DEF Due

\* The loop of update_sleeping_threads goes on to the next thread or ends.
LEMMA NextUpdateDue ==
  ASSUME SchedInv, pc[0] \in {"update", "updating"}, NextUpdate(0), UNCHANGED thread_list
  PROVE  /\ \A t \in Threads : Due(t)' =>
              \E i \in upd.i + 1 .. Len(thread_list) : thread_list[i] = t
         /\ pc'[0] \in {"update", "pick"}
<1>1. /\ pc \in [Cores -> Points] /\ upd.i \in Nat /\ Len(thread_list) \in Nat
      /\ upd.i \in DOMAIN thread_list
  BY BootCore, SMTT(30) DEF SchedInv, TypeOK, HolderOK
<1>2. CASE upd.i < Len(thread_list)
  <2>1. pc'[0] = "update" /\ upd'.i = upd.i + 1
    BY <1>1, <1>2, BootCore, SMTT(30) DEF NextUpdate, Goto
  <2> QED
    BY <2>1 DEF Due
<1>3. CASE ~(upd.i < Len(thread_list))
  <2>1. pc'[0] = "pick"
    BY <1>1, <1>3, BootCore DEF NextUpdate, Goto
  <2> QED
    BY <2>1 DEF Due
<1> QED
  BY <1>2, <1>3

\* Core 0 looks at a sleep once more only because of the timer.
LEMMA DueOwn ==
  ASSUME NoneCalls("fault"), NoneCalls("yield"), SchedInv, OnlyPeriodic,
         Step(0) \/ Event(0), ~Timer(0)
  PROVE  /\ \A t \in Threads : Due(t)' => Due(t)
         /\ pc'[0] = "updating" => UpdateRead(0)
<1>1. /\ 0 \in Cores /\ pc \in [Cores -> Points] /\ irq_regs \in [Cores -> Contexts]
      /\ new_thread \in [Cores -> Threads \cup {NULL}]
      /\ AfterHandler(0) = "exit" /\ AfterSched(0) \in {"ipi", "exit"}
  BY PeriodicReturn, BootCore DEF SchedInv, TypeOK
<1>2. ~PageFault(0) /\ ~ReschedIpi(0) /\ ~Resched(0)
  BY <1>1 DEF PageFault, NoneCalls, ReschedIpi, Resched, OnlyPeriodic
<1>3. CASE PanicIpi(0) \/ AssertFails(0) \/ Pick(0)
  <2>1. pc'[0] \in {"dead", "switch"}
    BY <1>1, <1>3 DEF PanicIpi, AssertFails, Panic, Pick, Goto
  <2> QED
    BY <2>1, NotDue
<1>4. CASE ThreadExit(0) \/ SleepTime(0) \/ LeaveBoot(0)
  <2>1. pc'[0] \in {"exit", "ipi"}
    BY <1>1, <1>4 DEF ThreadExit, SleepTime, LeaveBoot, Release, Goto
  <2>2. irq_regs'[0] = "idle"
    BY <1>1, <1>4 DEF ThreadExit, SleepTime, LeaveBoot, EnterIdle
  <2> QED
    BY <2>1, <2>2, NotDue
<1>5. CASE SleepState(0)
  <2>1. pc'[0] = "sleep_regs" /\ irq_regs'[0] = on[0] /\ on[0] \in Threads
    BY <1>1, <1>5 DEF SleepState, Calling, EnterIrq, Goto
  <2>2. irq_regs'[0] # "boot"
    BY <2>1, CallsAssumption
  <2> QED
    BY <2>1, <2>2, NotDue
<1>6. CASE Switch(0) \/ Dispatch(0)
  <2>1. pc'[0] \in {"exit", "ipi"}
    BY <1>1, <1>6 DEF Switch, Dispatch, Release, Goto
  <2>2. irq_regs'[0] = new_thread[0] /\ new_thread[0] \in Threads
    BY <1>1, <1>6 DEF Switch, Dispatch, Load
  <2>3. irq_regs'[0] # "boot"
    BY <2>2, CallsAssumption
  <2> QED
    BY <2>1, <2>3, NotDue
<1>7. CASE Stay(0)
  <2>1. pc'[0] \in {"exit", "ipi"}
    BY <1>1, <1>7 DEF Stay, Release, Goto
  <2>2. irq_regs'[0] # "boot"
    BY <1>7 DEF Stay, OnlyPeriodic, coreVars
  <2> QED
    BY <2>1, <2>2, NotDue, SMTT(30)
<1>8. CASE SleepRegs(0) \/ TryLockBusy(0) \/ SendIpi(0) \/ ExitIrq(0)
  <2>1. /\ pc'[0] \in {"sleep_time", "exit", "ipi", "code"}
        /\ pc[0] \notin {"update", "updating", "pick", "switch", "dead"}
    BY <1>1, <1>8 DEF SleepRegs, TryLockBusy, SendIpi, ExitIrq, Goto
  <2>2. UNCHANGED irq_regs
    BY <1>8 DEF SleepRegs, TryLockBusy, SendIpi, ExitIrq, coreVars
  <2> QED
    BY <2>1, <2>2, NotDue
<1>9. CASE Spawn(0) \/ BootRunKernel(0) \/ LockCreate(0) \/ LockEnqueue(0) \/ CreateIdle(0)
           \/ CreateThread(0) \/ RunProc(0)
  <2>1. pc'[0] \in {"create", "creating", "enqueue", "enqueueing", "code"}
    BY <1>1, <1>9 DEF Spawn, BootRunKernel, LockCreate, LockEnqueue, CreateIdle, CreateThread, RunProc, Goto
  <2>2. pc[0] \notin {"update", "updating", "pick", "switch", "dead"} /\ UNCHANGED irq_regs
    BY <1>9 DEF Spawn, Calling, BootRunKernel, LockCreate, LockEnqueue, CreateIdle, CreateThread, RunProc, coreVars
  <2> QED
    BY <2>1, <2>2, NotDue
<1>10. CASE Yield(0)
  <2>1. on[0] = "boot" /\ pc[0] = "code" /\ pc'[0] = "trylock"
    BY <1>1, <1>10 DEF Yield, Calling, NoneCalls, Goto
  <2>2. irq_regs[0] = "boot"
    BY <1>1, <2>1 DEF SchedInv, CoreOK
  <2> QED
    BY <2>1, <2>2 DEF Due
<1>11. CASE TryLockTaken(0)
  <2>1. pc[0] = "trylock" /\ pc'[0] \in {"update", "pick"}
    BY <1>1, <1>11 DEF TryLockTaken, Goto
  <2> QED
    BY <2>1 DEF Due, OnlyPeriodic
<1>12. CASE UpdateRead(0) \/ UpdateWrite(0)
  <2>1. pc[0] \in {"update", "updating"} /\ UNCHANGED thread_list
    BY <1>12 DEF UpdateRead, UpdateWrite, listVars
  <2>2. CASE NextUpdate(0)
    <3>1. pc'[0] \in {"update", "pick"}
      BY <2>1, <2>2, NextUpdateDue
    <3>2. ASSUME NEW t \in Threads, Due(t)' PROVE Due(t)
      <4>1. PICK i \in upd.i + 1 .. Len(thread_list) : thread_list[i] = t
        BY <2>1, <2>2, <3>2, NextUpdateDue
      <4>2. i \in upd.i .. Len(thread_list)
        BY SMTT(30) DEF SchedInv, TypeOK
      <4> QED
        BY <2>1, <4>1, <4>2 DEF Due
    <3> QED
      BY <3>1, <3>2
  <2>3. CASE ~NextUpdate(0)
    <3>1. UpdateRead(0) /\ pc'[0] = "updating" /\ upd'.i = upd.i
      BY <1>1, <1>12, <2>3, SMTT(30) DEF UpdateRead, UpdateWrite, Goto, SchedInv, TypeOK
    <3> QED
      BY <2>1, <3>1 DEF Due
  <2> QED
    BY <2>2, <2>3
<1> QED
  BY <1>2, <1>3, <1>4, <1>5, <1>6, <1>7, <1>8, <1>9, <1>10, <1>11, <1>12 DEF Step, Event

\* The step begins and ends no sleep.
Dull(c) ==
    /\ UNCHANGED <<sleep_time, waited>>
    /\ \A t \in Threads : thread_state'[t] = "SLEEPING" <=> thread_state[t] = "SLEEPING"
    /\ pc[c] \in Sleeping => pc'[c] \in Sleeping /\ current_thread'[c] = current_thread[c]

\* All other steps.
Sleeps(c) == Timer(c) \/ SleepState(c) \/ SleepTime(c) \/ UpdateWrite(c)

\* Only sched_thread_sleep puts a thread to sleep, and only update_sleeping_threads
\* wakes one.
LEMMA DullOrNot ==
  ASSUME NoneCalls("fault"), NEW c \in Cores, SchedInv, Step(c) \/ Event(c)
  PROVE  Dull(c) \/ Sleeps(c)
<1>1. /\ current_thread \in [Cores -> Threads \cup {NULL}]
      /\ new_thread \in [Cores -> Threads \cup {NULL}] /\ pc \in [Cores -> Points]
      /\ thread_state \in [Threads -> {"STOPPED", "RUNNING", "SLEEPING", "TERMINATED"}]
  BY DEF SchedInv, TypeOK
<1>2. ASSUME Quiet(c), UNCHANGED <<sleep_time, waited>> PROVE Dull(c)
  BY <1>2 DEF Quiet, Dull
<1>3. CASE ReschedIpi(c) \/ PanicIpi(c) \/ Yield(c) \/ Spawn(c) \/ BootRunKernel(c)
  <2>1. UNCHANGED <<sleep_time, waited>>
    BY <1>3 DEF ReschedIpi, PanicIpi, Yield, Spawn, BootRunKernel, threadVars, histVars
  <2> QED
    BY <1>2, <1>3, <2>1, QuietEvent
<1>4. CASE TryLockTaken(c) \/ TryLockBusy(c) \/ UpdateRead(c) \/ Pick(c) \/ Stay(c) \/ LeaveBoot(c)
           \/ SendIpi(c) \/ Resched(c) \/ ExitIrq(c)
  <2>1. UNCHANGED <<sleep_time, waited>>
    BY <1>4 DEF TryLockTaken, TryLockBusy, UpdateRead, Pick, Stay, LeaveBoot, SendIpi, Resched, ExitIrq,
       threadVars, histVars
  <2> QED
    BY <1>2, <1>4, <2>1, QuietRunner
<1>5. CASE LockCreate(c) \/ LockEnqueue(c) \/ CreateIdle(c) \/ CreateThread(c) \/ RunProc(c) \/ AssertFails(c)
  <2>1. UNCHANGED <<sleep_time, waited>>
    BY <1>5 DEF LockCreate, LockEnqueue, CreateIdle, CreateThread, RunProc, AssertFails, threadVars, histVars
  <2> QED
    BY <1>2, <1>5, <2>1, QuietCreate
<1>6. CASE PageFault(c)
  BY <1>6 DEF PageFault, NoneCalls
<1>7. CASE ThreadExit(c)
  <2>1. /\ UNCHANGED <<sleep_time, waited>> /\ pc[c] = "code" /\ current_thread[c] \in Threads
        /\ thread_state' = [thread_state EXCEPT ![current_thread[c]] = "TERMINATED"]
    BY <1>1, <1>7 DEF ThreadExit, Calling
  <2>2. thread_state[current_thread[c]] # "SLEEPING"
    BY <2>1, CallsAssumption DEF SchedInv, CoreOK, Sleeping
  <2> QED
    BY <1>1, <2>1, <2>2 DEF Dull, Sleeping
<1>8. CASE SleepRegs(c)
  <2>1. UNCHANGED <<sleep_time, waited, thread_state, current_thread>>
    BY <1>8 DEF SleepRegs, coreVars
  <2>2. pc'[c] \in Sleeping
    BY <1>1, <1>8 DEF SleepRegs, Goto, Sleeping
  <2> QED
    BY <2>1, <2>2 DEF Dull
<1>9. CASE Switch(c) \/ Dispatch(c)
  <2>1. /\ UNCHANGED <<sleep_time, waited>> /\ pc[c] = "switch" /\ new_thread[c] \in Threads
    BY <1>1, <1>9 DEF Switch, Dispatch
  <2>2. thread_state[new_thread[c]] = "STOPPED"
    BY <2>1, CallsAssumption DEF SchedInv, HolderOK
  <2>3. \A t \in Threads : thread_state'[t] = "SLEEPING" <=> thread_state[t] = "SLEEPING"
    <3>1. CASE Switch(c)
      <4>1. /\ current_thread[c] \in Threads /\ thread_state[current_thread[c]] = "RUNNING"
            /\ thread_state' = [[thread_state EXCEPT ![current_thread[c]] = "STOPPED"]
                                 EXCEPT ![new_thread[c]] = "RUNNING"]
        BY <1>1, <3>1 DEF Switch, SchedAsserts, Load
      <4>2. \A t \in Threads : thread_state'[t] = IF t = new_thread[c] THEN "RUNNING"
                                                  ELSE IF t = current_thread[c] THEN "STOPPED"
                                                  ELSE thread_state[t]
        BY <1>1, <2>1, <4>1
      <4> QED
        BY <2>2, <4>1, <4>2
    <3>2. CASE Dispatch(c)
      <4>1. thread_state' = [thread_state EXCEPT ![new_thread[c]] = "RUNNING"]
        BY <3>2 DEF Dispatch, Load
      <4> QED
        BY <1>1, <2>1, <2>2, <4>1
    <3> QED
      BY <1>9, <3>1, <3>2
  <2> QED
    BY <2>1, <2>3 DEF Dull, Sleeping
<1> QED
  BY <1>3, <1>4, <1>5, <1>6, <1>7, <1>8, <1>9 DEF Step, Event, Sleeps

\* Every step but that of the timer leaves core 0 with at most as much to look at,
\* and it looks at a thread it has just read or was already looking at.
LEMMA DueStep ==
  ASSUME NoneCalls("fault"), NoneCalls("yield"), NEW c \in Cores, SchedInv, OnlyPeriodic,
         Step(c) \/ Event(c), ~Timer(c), Effect(c), PeriodicStep(c)
  PROVE  /\ \A t \in Threads : Due(t)' => Due(t)
         /\ pc'[0] = "updating" => UpdateRead(0) \/ (pc[0] = "updating" /\ UNCHANGED <<upd, thread_list>>)
BY DueOwn, DueOther

\* A step that begins and ends no sleep.
LEMMA DullSleep ==
  ASSUME NoneCalls("fault"), NoneCalls("yield"), NEW c \in Cores, SchedInv, SleepInv,
         Step(c) \/ Event(c), ~Timer(c), Effect(c), PeriodicStep(c), Dull(c)
  PROVE  (\A t \in Threads : SleeperOK(t)') /\ SeenOK'
<1>1. /\ \A t \in Threads : Due(t)' => Due(t)
      /\ pc'[0] = "updating" => UpdateRead(0) \/ (pc[0] = "updating" /\ UNCHANGED <<upd, thread_list>>)
  BY DueStep DEF SleepInv
<1>2. UNCHANGED <<sleep_time, waited>>
  BY DEF Dull
<1>3. \A t \in Threads : \A n : EnoughLeft(t, n) => EnoughLeft(t, n)'
  BY <1>1, <1>2 DEF EnoughLeft
<1>4. \A d \in Cores : pc[d] \in Sleeping => pc'[d] \in Sleeping /\ current_thread'[d] = current_thread[d]
  BY DEF Dull, Effect, OthersSame
<1>5. ASSUME NEW t \in Threads PROVE SleeperOK(t)'
  <2>1. thread_state'[t] = "SLEEPING" <=> thread_state[t] = "SLEEPING"
    BY DEF Dull
  <2>2. SleeperOK(t) /\ sleep_time'[t] = sleep_time[t]
    BY <1>2 DEF SleepInv
  <2>3. EnoughLeft(t, sleep_time[t]) => EnoughLeft(t, sleep_time[t])'
    BY <1>2, <1>3
  <2> QED
    BY <1>4, <2>1, <2>2, <2>3 DEF SleeperOK
<1>6. SeenOK'
  <2>1. CASE UpdateRead(0) /\ pc'[0] = "updating"
    <3>1. UNCHANGED thread_list
      BY <2>1 DEF UpdateRead, listVars
    <3>2. upd'.seen = sleep_time[thread_list[upd.i]] /\ upd'.i = upd.i
      BY <2>1, BootCore, SMTT(30) DEF UpdateRead, NextUpdate, Goto, SchedInv, TypeOK
    <3> QED
      BY <1>2, <3>1, <3>2 DEF SeenOK
  <2>2. CASE pc'[0] = "updating" /\ pc[0] = "updating" /\ UNCHANGED <<upd, thread_list>>
    <3>1. thread_list[upd.i] \in Threads
      BY <2>2, BootCore, SMTT(30) DEF SchedInv, TypeOK, HolderOK
    <3>2. \/ upd.seen \in {0, sleep_time[thread_list[upd.i]]}
          \/ EnoughLeft(thread_list[upd.i], upd.seen)
      BY <2>2 DEF SleepInv, SeenOK
    <3>3. EnoughLeft(thread_list[upd.i], upd.seen) => EnoughLeft(thread_list[upd.i], upd.seen)'
      BY <1>1, <1>2, <2>2, <3>1 DEF EnoughLeft
    <3> QED
      BY <1>2, <2>2, <3>2, <3>3 DEF SeenOK
  <2>3. CASE pc'[0] # "updating"
    BY <2>3 DEF SeenOK
  <2> QED
    BY <1>1, <2>1, <2>2, <2>3
<1> QED
  BY <1>5, <1>6

\* A timer period begins: every sleeper has waited one more.
LEMMA TimerSleep ==
  ASSUME NEW c \in Cores, SchedInv, SleepInv, Timer(c)
  PROVE  (\A t \in Threads : SleeperOK(t)') /\ SeenOK'
<1>1. /\ c = 0 /\ pc[0] = "code" /\ pc' = [pc EXCEPT ![0] = "trylock"]
      /\ pc \in [Cores -> Points] /\ waited \in [Threads -> 0 .. SleepPeriods]
      /\ sleep_time \in [Threads -> Nat] /\ SleepPeriods \in Nat
      /\ UNCHANGED <<thread_state, sleep_time, current_thread>>
  BY CallsAssumption DEF Timer, Goto, SchedInv, TypeOK, threadVars
<1>2. pc'[0] = "trylock" /\ \A d \in Cores : pc[d] \in Sleeping => pc'[d] = pc[d]
  BY <1>1, BootCore DEF Sleeping
<1>3. SeenOK'
  BY <1>2 DEF SeenOK
<1>4. ASSUME NEW t \in Threads PROVE SleeperOK(t)'
  <2>1. CASE thread_state[t] # "SLEEPING"
    BY <1>1, <2>1 DEF SleepInv, SleeperOK
  <2>2. CASE thread_state[t] = "SLEEPING" /\ EnoughLeft(t, sleep_time[t])
    <3>1. /\ waited[t] \in Nat /\ sleep_time[t] \in Nat /\ waited[t] <= SleepPeriods
          /\ waited'[t] = IF waited[t] < SleepPeriods THEN waited[t] + 1 ELSE waited[t]
      BY <1>1, <2>2, SMTT(30) DEF Timer
    <3>2. waited[t] + sleep_time[t] >= SleepPeriods - 1
      BY <2>2 DEF EnoughLeft
    <3>3. waited'[t] + sleep_time[t] >= SleepPeriods
      BY <1>1, <3>1, <3>2, SMTT(30)
    <3>4. waited'[t] + sleep_time[t] >= SleepPeriods - 1
      BY <1>1, <3>1, <3>3, SMTT(30)
    <3> QED
      BY <1>1, <2>2, <3>3, <3>4 DEF SleeperOK, EnoughLeft
  <2>3. CASE /\ thread_state[t] = "SLEEPING" /\ sleep_time[t] = 0
             /\ \E d \in Cores : current_thread[d] = t /\ pc[d] \in Sleeping
    <3>1. \E d \in Cores : current_thread'[d] = t /\ pc'[d] \in Sleeping
      BY <1>1, <1>2, <2>3
    <3> QED
      BY <1>1, <2>3, <3>1 DEF SleeperOK
  <2> QED
    BY <2>1, <2>2, <2>3 DEF SleepInv, SleeperOK
<1> QED
  BY <1>3, <1>4

\* A sleep that nobody touches is still long enough.
LEMMA KeepsSleep ==
  ASSUME NEW t \in Threads, SleeperOK(t), Due(t)' => Due(t),
         thread_state'[t] = thread_state[t], sleep_time'[t] = sleep_time[t], waited'[t] = waited[t],
         \A d \in Cores : current_thread[d] = t /\ pc[d] \in Sleeping
                          => current_thread'[d] = t /\ pc'[d] \in Sleeping
  PROVE  SleeperOK(t)'
<1>1. EnoughLeft(t, sleep_time[t]) => EnoughLeft(t, sleep_time[t])'
  BY DEF EnoughLeft
<1> QED
  BY <1>1 DEF SleeperOK

\* sched_thread_sleep marks the thread SLEEPING.
LEMMA SleepStateSleep ==
  ASSUME NoneCalls("fault"), NoneCalls("yield"), NEW c \in Cores, SchedInv, SleepInv,
         SleepState(c), Effect(c), PeriodicStep(c)
  PROVE  (\A t \in Threads : SleeperOK(t)') /\ SeenOK'
<1> DEFINE u == current_thread[c]
<1>1. /\ \A t \in Threads : Due(t)' => Due(t)
      /\ pc'[0] = "updating" => UpdateRead(0) \/ (pc[0] = "updating" /\ UNCHANGED <<upd, thread_list>>)
  <2>1. pc'[c] = "sleep_regs"
    BY DEF SleepState, Goto, SchedInv, TypeOK
  <2>2. ~Timer(c)
    BY <2>1, SMTT(30) DEF Timer, Goto, SchedInv, TypeOK
  <2> QED
    BY <2>2, DueStep DEF SleepInv, Event
<1>2. /\ u \in Threads /\ pc[c] = "code" /\ pc'[c] = "sleep_regs"
      /\ UNCHANGED <<current_thread, sleep_time, upd, thread_list>>
      /\ thread_state' = [thread_state EXCEPT ![u] = "SLEEPING"] /\ waited' = [waited EXCEPT ![u] = 0]
  BY DEF SleepState, Calling, Goto, SchedInv, TypeOK, listVars
<1>3. /\ thread_state \in [Threads -> {"STOPPED", "RUNNING", "SLEEPING", "TERMINATED"}]
      /\ waited \in [Threads -> 0 .. SleepPeriods] /\ sleep_time \in [Threads -> Nat]
      /\ SleepPeriods \in Nat \ {0}
  BY CallsAssumption DEF SchedInv, TypeOK
<1>4. thread_state[u] # "SLEEPING"
  BY <1>2, CallsAssumption DEF SchedInv, CoreOK, Sleeping
<1>5. \A d \in Cores : pc[d] \in Sleeping => pc'[d] \in Sleeping
  BY <1>2 DEF Effect, OthersSame, Sleeping
<1>6. ASSUME NEW t \in Threads PROVE SleeperOK(t)'
  <2>1. CASE t # u
    <3>1. thread_state'[t] = thread_state[t] /\ waited'[t] = waited[t]
      BY <1>2, <1>3, <2>1
    <3>2. SleeperOK(t)
      BY DEF SleepInv
    <3> QED
      BY <1>1, <1>2, <1>5, <3>1, <3>2, KeepsSleep
  <2>2. CASE t = u
    <3>1. sleep_time[t] \in {0, SleepPeriods}
      BY <1>4, <2>2 DEF SleepInv, SleeperOK
    <3>2. thread_state'[t] = "SLEEPING" /\ waited'[t] = 0
      BY <1>2, <1>3, <2>2
    <3>3. CASE sleep_time[t] = SleepPeriods
      <4>1. 0 + SleepPeriods >= SleepPeriods /\ 0 + SleepPeriods >= SleepPeriods - 1
        BY <1>3, SMTT(30)
      <4> QED
        BY <1>2, <3>2, <3>3, <4>1 DEF SleeperOK, EnoughLeft
    <3>4. CASE sleep_time[t] = 0
      <4>1. current_thread'[c] = t /\ pc'[c] \in Sleeping
        BY <1>2, <2>2 DEF Sleeping
      <4> QED
        BY <1>2, <3>2, <3>4, <4>1 DEF SleeperOK
    <3> QED
      BY <3>1, <3>3, <3>4
  <2> QED
    BY <2>1, <2>2
<1>7. SeenOK'
  <2>1. CASE pc'[0] # "updating"
    BY <2>1 DEF SeenOK
  <2>2. CASE pc'[0] = "updating"
    <3>1. pc[0] = "updating"
      BY <1>2, <2>2, BootCore DEF Effect, OthersSame
    <3>2. thread_list[upd.i] \in Threads /\ thread_list[upd.i] # u
      BY <1>4, <3>1, BootCore, SMTT(30) DEF SchedInv, TypeOK, HolderOK
    <3>3. waited'[thread_list[upd.i]] = waited[thread_list[upd.i]]
      BY <1>2, <1>3, <3>2
    <3>4. EnoughLeft(thread_list[upd.i], upd.seen) => EnoughLeft(thread_list[upd.i], upd.seen)'
      BY <1>1, <1>2, <3>2, <3>3 DEF EnoughLeft
    <3> QED
      BY <1>2, <3>1, <3>4 DEF SleepInv, SeenOK
  <2> QED
    BY <2>1, <2>2
<1> QED
  BY <1>6, <1>7

\* sched_thread_sleep writes how long the thread sleeps.
LEMMA SleepTimeSleep ==
  ASSUME NoneCalls("fault"), NoneCalls("yield"), NEW c \in Cores, SchedInv, SleepInv,
         SleepTime(c), Effect(c), PeriodicStep(c)
  PROVE  (\A t \in Threads : SleeperOK(t)') /\ SeenOK'
<1> DEFINE u == current_thread[c]
<1>1. \A t \in Threads : Due(t)' => Due(t)
  BY DueStep DEF SleepInv, Step, SleepTime, Timer
<1>2. /\ u \in Threads /\ pc[c] = "sleep_time" /\ pc'[c] = "exit"
      /\ UNCHANGED <<thread_state, waited, upd, thread_list>>
      /\ sleep_time' = [sleep_time EXCEPT ![u] = SleepPeriods]
  <2>1. pc[c] = "sleep_time" /\ UNCHANGED <<thread_state, waited, upd, thread_list>>
        /\ sleep_time' = [sleep_time EXCEPT ![u] = SleepPeriods]
    BY DEF SleepTime, listVars, histVars
  <2>2. u \in Threads
    BY <2>1, SMTT(30) DEF SchedInv, TypeOK, CoreOK, Sleeping
  <2>3. pc'[c] = "exit"
    BY PeriodicReturn DEF SleepInv, SleepTime, Goto, SchedInv, TypeOK
  <2> QED
    BY <2>1, <2>2, <2>3
<1>3. /\ waited \in [Threads -> 0 .. SleepPeriods] /\ sleep_time \in [Threads -> Nat]
      /\ SleepPeriods \in Nat \ {0}
  BY CallsAssumption DEF SchedInv, TypeOK
<1>4. \A d \in Cores \ {c} : pc'[d] = pc[d] /\ current_thread'[d] = current_thread[d]
  BY DEF Effect, OthersSame
<1>5. ASSUME NEW t \in Threads PROVE SleeperOK(t)'
  <2>1. CASE t # u
    <3>1. sleep_time'[t] = sleep_time[t]
      BY <1>2, <1>3, <2>1
    <3>2. SleeperOK(t)
      BY SMTT(30) DEF SleepInv
    <3>3. \A d \in Cores : current_thread[d] = t /\ pc[d] \in Sleeping
                           => current_thread'[d] = t /\ pc'[d] \in Sleeping
      BY <1>4, <2>1
    <3> QED
      BY <1>1, <1>2, <3>1, <3>2, <3>3, KeepsSleep
  <2>2. CASE t = u
    <3>1. sleep_time'[t] = SleepPeriods /\ waited'[t] \in Nat
      <4>1. waited[t] \in Nat
        BY <1>3, SMTT(30)
      <4>2. sleep_time'[t] = SleepPeriods /\ waited' = waited
        BY <1>2, <1>3, <2>2
      <4> QED
        BY <4>1, <4>2
    <3>2. waited'[t] + SleepPeriods >= SleepPeriods /\ waited'[t] + SleepPeriods >= SleepPeriods - 1
      <4>1. \A w, n \in Nat : w + n >= n /\ w + n >= n - 1
        BY SMTT(30)
      <4>2. SleepPeriods \in Nat
        BY <1>3
      <4> QED
        BY <3>1, <4>1, <4>2
    <3> QED
      BY <3>1, <3>2 DEF SleeperOK, EnoughLeft
  <2> QED
    BY <2>1, <2>2, SMTT(30)
<1>6. SeenOK'
  <2>1. CASE pc'[0] # "updating"
    BY <2>1, SMTT(30) DEF SeenOK
  <2>2. CASE pc'[0] = "updating"
    <3> DEFINE t == thread_list[upd.i]
    <3>1. pc[0] = "updating"
      BY <1>2, <1>4, <2>2, BootCore
    <3>2. t \in Threads /\ thread_state[t] = "SLEEPING"
      BY <3>1, BootCore, SMTT(30) DEF SchedInv, TypeOK, HolderOK
    <3>3. upd.seen \in {0, sleep_time[t]} \/ EnoughLeft(t, upd.seen)
      BY <3>1 DEF SleepInv, SeenOK
    <3>4. sleep_time[t] = 0 \/ EnoughLeft(t, sleep_time[t])
      BY <3>2 DEF SleepInv, SleeperOK
    <3>5. upd.seen = 0 \/ EnoughLeft(t, upd.seen)
      BY <3>3, <3>4
    <3>6. EnoughLeft(t, upd.seen) => EnoughLeft(t, upd.seen)'
      BY <1>1, <1>2, <3>2 DEF EnoughLeft
    <3> QED
      BY <1>2, <3>5, <3>6 DEF SeenOK
  <2> QED
    BY <2>1, <2>2, SMTT(30)
<1> QED
  BY <1>5, <1>6, SMTT(30)

\* update_sleeping_threads shortens a sleep: once it has done so it does not look at
\* the thread again before the next timer period.
LEMMA UpdateWriteSleep ==
  ASSUME NoneCalls("fault"), NoneCalls("yield"), NEW c \in Cores, SchedInv, CreateInv, SleepInv,
         UpdateWrite(c), Effect(c), PeriodicStep(c)
  PROVE  (\A t \in Threads : SleeperOK(t)') /\ SeenOK'
<1>1. c = 0 /\ pc[0] = "updating" /\ NextUpdate(0) /\ UNCHANGED <<thread_list, current_thread>>
  BY DEF UpdateWrite, SleepInv, OnlyPeriodic, listVars, coreVars
<1>2. PICK u \in Threads, left \in Nat :
          /\ u = thread_list[upd.i] /\ thread_state[u] = "SLEEPING" /\ upd.i \in DOMAIN thread_list
          /\ upd.i \in Nat /\ upd.seen \in Nat /\ left = Shorten(upd.seen)
  <2>1. /\ thread_list[upd.i] \in Threads /\ thread_state[thread_list[upd.i]] = "SLEEPING"
        /\ upd.i \in DOMAIN thread_list /\ upd.i \in Nat /\ upd.seen \in Nat
    BY <1>1, BootCore, SMTT(30) DEF SchedInv, TypeOK, HolderOK
  <2>2. Shorten(upd.seen) \in Nat
    BY <2>1, SMTT(30) DEF Shorten
  <2> QED
    BY <2>1, <2>2
<1>3. /\ thread_state \in [Threads -> {"STOPPED", "RUNNING", "SLEEPING", "TERMINATED"}]
      /\ waited \in [Threads -> 0 .. SleepPeriods] /\ sleep_time \in [Threads -> Nat]
      /\ SleepPeriods \in Nat \ {0} /\ thread_list \in Seq(Threads)
  BY CallsAssumption DEF SchedInv, TypeOK
<1>4. /\ \A t \in Threads : Due(t)' => \E i \in upd.i + 1 .. Len(thread_list) : thread_list[i] = t
      /\ pc'[0] \in {"update", "pick"}
  BY <1>1, NextUpdateDue
<1>5. SeenOK'
  BY <1>4 DEF SeenOK
<1>6. \A d \in Cores : pc[d] \in Sleeping => pc'[d] \in Sleeping
  BY <1>1 DEF Effect, OthersSame, Sleeping
<1>7. ASSUME NEW t \in Threads, t # u PROVE SleeperOK(t)'
  <2>1. thread_state'[t] = thread_state[t] /\ waited'[t] = waited[t] /\ sleep_time'[t] = sleep_time[t]
    BY <1>2, <1>3, <1>7 DEF UpdateWrite
  <2>2. SleeperOK(t)
    BY DEF SleepInv
  <2>3. Due(t)' => Due(t)
    BY <1>1, DueStep DEF SleepInv, Step, Timer
  <2> QED
    BY <1>1, <1>6, <2>1, <2>2, <2>3, KeepsSleep
<1>8. SleeperOK(u)'
  <2>1. UNCHANGED thread_list /\ upd.i \in 1 .. Len(thread_list)
    BY <1>1, <1>2, <1>3, SMTT(30)
  <2>2. sleep_time'[u] = left /\ thread_state'[u] = (IF left = 0 THEN "STOPPED" ELSE "SLEEPING")
        /\ waited'[u] = (IF left = 0 THEN 0 ELSE waited[u])
    BY <1>2, <1>3 DEF UpdateWrite
  <2>3. CASE left = 0
    BY <2>2, <2>3 DEF SleeperOK
  <2>4. CASE left # 0
    <3>1. upd.seen # 0 /\ left = upd.seen - 1
      BY <1>2, <2>4 DEF Shorten
    <3>2. EnoughLeft(u, upd.seen)
      <4>1. upd.seen = sleep_time[u] \/ EnoughLeft(u, upd.seen)
        BY <1>1, <1>2, <3>1 DEF SleepInv, SeenOK
      <4>2. sleep_time[u] = 0 \/ EnoughLeft(u, sleep_time[u])
        BY <1>2 DEF SleepInv, SleeperOK
      <4> QED
        BY <3>1, <4>1, <4>2
    <3>3. Due(u)
      <4>1. upd.i \in upd.i .. Len(thread_list)
        BY <1>3, <2>1, SMTT(30)
      <4> QED
        BY <1>1, <1>2, <4>1 DEF Due
    <3>4. waited[u] + upd.seen >= SleepPeriods /\ waited[u] \in Nat
      BY <1>2, <1>3, <3>2, <3>3, SMTT(30) DEF EnoughLeft
    <3>5. waited[u] + left >= SleepPeriods - 1
      <4>1. \A w, n, m \in Nat : w + n >= m => w + (n - 1) >= m - 1
        BY SMTT(30)
      <4>2. waited[u] \in Nat /\ upd.seen \in Nat /\ SleepPeriods \in Nat
        BY <1>2, <1>3, <3>4
      <4> QED
        BY <3>1, <3>4, <4>1, <4>2
    <3>6. ~Due(u)'
      <4> SUFFICES ASSUME Due(u)' PROVE FALSE
        OBVIOUS
      <4>1. PICK i \in upd.i + 1 .. Len(thread_list) : thread_list[i] = u
        BY <1>2, <1>4
      <4>2. i \in DOMAIN thread_list /\ i # upd.i
        BY <1>2, <1>3, SMTT(30)
      <4> QED
        BY <1>2, <4>1, <4>2 DEF CreateInv
    <3>7. thread_state'[u] = "SLEEPING" /\ waited'[u] = waited[u]
      BY <2>2, <2>4
    <3>8. waited'[u] + sleep_time'[u] >= SleepPeriods - 1
      BY <2>2, <3>5, <3>7
    <3> QED
      BY <3>6, <3>7, <3>8 DEF SleeperOK, EnoughLeft
  <2> QED
    BY <2>3, <2>4
<1> QED
  BY <1>5, <1>7, <1>8

\* Sleeps are shortened as the invariant says.
LEMMA SleepStepInv ==
  ASSUME NoneCalls("fault"), NoneCalls("yield"), NEW c \in Cores, SchedInv, CreateInv, SleepInv,
         Step(c) \/ Event(c), Effect(c)
  PROVE  SleepInv'
<1>2. PeriodicStep(c)
  BY PeriodicEvent, PeriodicRunner, PeriodicRest DEF SleepInv, Step
<1>3. OnlyPeriodic'
  BY <1>2, PeriodicStepInv DEF SleepInv
<1>4. (\A t \in Threads : SleeperOK(t)') /\ SeenOK'
  <2>1. CASE Sleeps(c)
    BY <1>2, <2>1, TimerSleep, SleepStateSleep, SleepTimeSleep, UpdateWriteSleep DEF Sleeps
  <2>2. CASE ~Sleeps(c)
    <3>1. Dull(c) /\ ~Timer(c)
      BY <2>2, DullOrNot DEF Sleeps
    <3> QED
      BY <1>2, <3>1, DullSleep
  <2> QED
    BY <2>1, <2>2
<1> QED
  BY <1>3, <1>4 DEF SleepInv

\* A thread that wakes has waited long enough, or sched_thread_sleep raced.
LEMMA WakesInTime ==
  ASSUME NoneCalls("fault"), NEW c \in Cores, SchedInv, SleepInv, Step(c) \/ Event(c),
         NEW t \in Threads, thread_state[t] = "SLEEPING", thread_state'[t] = "STOPPED"
  PROVE  \/ waited[t] >= SleepPeriods - 1
         \/ upd.seen # sleep_time[t]
         \/ \E d \in Cores : current_thread[d] = t /\ pc[d] \in Sleeping
<1>1. thread_state \in [Threads -> {"STOPPED", "RUNNING", "SLEEPING", "TERMINATED"}]
      /\ sleep_time \in [Threads -> Nat] /\ waited \in [Threads -> 0 .. SleepPeriods]
      /\ SleepPeriods \in Nat \ {0}
  BY CallsAssumption DEF SchedInv, TypeOK
<1>2. ~Dull(c) /\ ~Timer(c) /\ ~SleepTime(c)
  BY DEF Dull, Timer, SleepTime, threadVars
<1>3. ~SleepState(c)
  <2> SUFFICES ASSUME SleepState(c) PROVE FALSE
    OBVIOUS
  <2>1. thread_state' = [thread_state EXCEPT ![current_thread[c]] = "SLEEPING"]
    BY DEF SleepState
  <2> QED
    BY <1>1, <2>1
<1>4. UpdateWrite(c)
  BY <1>2, <1>3, DullOrNot DEF Sleeps
<1>5. c = 0 /\ pc[0] = "updating"
  BY <1>4 DEF UpdateWrite, SleepInv, OnlyPeriodic
<1>6. /\ upd.i \in DOMAIN thread_list /\ thread_list \in Seq(Threads)
      /\ upd.i \in Nat /\ upd.seen \in Nat
  BY <1>5, BootCore DEF SchedInv, TypeOK, HolderOK
<1>7. t = thread_list[upd.i] /\ Shorten(upd.seen) = 0
  <2>1. thread_state' = [thread_state EXCEPT ![thread_list[upd.i]] =
                            IF Shorten(upd.seen) = 0 THEN "STOPPED" ELSE @]
    BY <1>4 DEF UpdateWrite
  <2> QED
    BY <1>1, <2>1
<1>8. upd.seen <= 1
  BY <1>6, <1>7, SMTT(30) DEF Shorten
<1>9. Due(t)
  <2>1. upd.i \in upd.i .. Len(thread_list)
    <3>1. upd.i <= Len(thread_list) /\ Len(thread_list) \in Nat
      BY <1>6, SMTT(30)
    <3> QED
      BY <1>6, <3>1, SMTT(30)
  <2> QED
    BY <1>5, <1>7, <2>1 DEF Due
<1>10. CASE EnoughLeft(t, sleep_time[t]) /\ upd.seen = sleep_time[t]
  <2>1. waited[t] + sleep_time[t] >= SleepPeriods
    BY <1>9, <1>10 DEF EnoughLeft
  <2>2. \A w, n, m \in Nat : w + n >= m /\ n <= 1 => w >= m - 1
    BY SMTT(30)
  <2>3. waited[t] \in 0 .. SleepPeriods
    BY <1>1
  <2>4. waited[t] \in Nat /\ sleep_time[t] \in Nat /\ SleepPeriods \in Nat
    BY <1>1, <2>3, SMTT(30)
  <2> QED
    BY <1>8, <1>10, <2>1, <2>2, <2>4
<1> QED
  BY <1>10 DEF SleepInv, SleeperOK
=============================================================================
