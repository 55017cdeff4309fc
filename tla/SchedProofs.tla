---------------------------- MODULE SchedProofs ----------------------------
(***************************************************************************)
(* The theorems about the scheduler: no thread is lost, frames are saved   *)
(* before they are used, nothing panics, sleeps last long enough, and each *)
(* step is one of the abstract dispatcher.  Each states what it needs of   *)
(* the threads' calls.                                                     *)
(***************************************************************************)
EXTENDS SchedEffect, SchedLemmas

USE ZenonT(30)

\* Two cores share a kernel stack only while one of them is leaving it.
THEOREM Handover == Spec => []StackHandover
<1>1. SchedInv => StackHandover
  <2> SUFFICES ASSUME SchedInv, NEW c \in Cores, NEW d \in Cores, c # d,
                      on[c] \in Threads, on[c] = on[d],
                      irq_regs[c] = on[c], irq_regs[d] = on[d],
                      pc[c] \notin Sleeping, pc[d] \notin Sleeping
               PROVE  FALSE
    BY DEF StackHandover
  <2>1. current_thread[c] = on[c] /\ current_thread[d] = on[c]
    BY DEF SchedInv, CoreOK
  <2> QED
    BY <2>1, CallsAssumption DEF SchedInv, ExclusiveDispatch
<1> QED
  BY Invariant, <1>1, PTL

\* A RUNNING thread is on a core, and a STOPPED one on none.
THEOREM NoneLost == Spec => []NoThreadLost
<1>1. SchedInv => NoThreadLost
  <2> SUFFICES ASSUME SchedInv, NEW t \in Threads, thread_state[t] = "STOPPED",
                      NEW c \in Cores, current_thread[c] = t
               PROVE  pc[c] \in Sleeping
    BY DEF SchedInv, RunningInv, NoThreadLost
  <2>1. t # NULL /\ CoreOK(c)
    BY CallsAssumption DEF SchedInv
  <2> QED
    BY <2>1 DEF CoreOK
<1> QED
  BY Invariant, <1>1, PTL

\* The frame that load_thread returns through is always the thread's latest: for
\* any number of cores when no thread sleeps, and on a single core when threads
\* do, whatever else they do.
THEOREM FramesAreSaved ==
  NCores = 1 \/ NoneCalls("sleep") => (Spec => []ReadyThreadsAreSaved)
<1> SUFFICES ASSUME NCores = 1 \/ NoneCalls("sleep") PROVE Spec => []ReadyThreadsAreSaved
  OBVIOUS
<1>1. Init => SavedInv
  BY SMTT(30) DEF Init, SavedInv, ReadyThreadsAreSaved, Sleeping
<1>2. SchedInv /\ SavedInv /\ [Next]_vars => SavedInv'
  <2> SUFFICES ASSUME SchedInv, SavedInv, [Next]_vars PROVE SavedInv'
    OBVIOUS
  <2>1. CASE UNCHANGED vars
    BY <2>1, SMTT(30) DEF vars, SavedInv, ReadyThreadsAreSaved, coreVars, ctrlVars, threadVars, histVars
  <2>2. ASSUME NEW c \in Cores, Step(c) \/ Event(c) PROVE SavedInv'
    <3>1. TypeOK' /\ Effect(c)
      BY <2>2, StepEffect
    <3>2. Quiet(c) \/ Stops(c) \/ Moves(c)
      BY <2>2, QuietOrNot
    <3> QED
      BY <3>1, <3>2, QuietSaved, StopsSaved, MovesSaved
  <2> QED
    BY <2>1, <2>2 DEF Next
<1>3. SavedInv => ReadyThreadsAreSaved
  BY DEF SavedInv
<1> QED
  BY <1>1, <1>2, <1>3, Invariant, PTL DEF Spec

\* Every thread is in thread_list at most once, and a process that is being
\* created is not in the list, for any processes that are distinct.
THEOREM CreateInvariant == ProcsAreDistinct => (Spec => []CreateInv)
<1> SUFFICES ASSUME ProcsAreDistinct PROVE Spec => []CreateInv
  OBVIOUS
<1>1. Init => CreateInv
  <2> SUFFICES ASSUME Init PROVE CreateInv
    OBVIOUS
  <2>1. Range(proc_list) = {} /\ Range(thread_list) = {} /\ DOMAIN thread_list = {} /\ 0 \in Cores
    BY NCoresAssumption, SMTT(30) DEF Init, Range, Cores
  <2>2. \A c \in Cores : CreatorOK(c)
    BY DEF Init, CreatorOK, Creating
  <2> QED
    BY <2>1, <2>2 DEF Init, CreateInv
<1>2. SchedInv /\ CreateInv /\ [Next]_vars => CreateInv'
  <2> SUFFICES ASSUME SchedInv, CreateInv, [Next]_vars PROVE CreateInv'
    OBVIOUS
  <2>1. CASE UNCHANGED vars
    <3>1. UNCHANGED <<pc, on, boot, arg, thread_list, proc_list, created>>
      BY <2>1 DEF vars, ctrlVars, listVars
    <3>2. \A c \in Cores : CreatorOK(c)'
      BY <3>1, SMTT(30) DEF CreateInv, CreatorOK, TestTurn
    <3> QED
      BY <3>1, <3>2 DEF CreateInv
  <2>2. ASSUME NEW c \in Cores, Step(c) \/ Event(c) PROVE CreateInv'
    <3>1. Effect(c)
      BY <2>2, StepEffect
    <3>2. Aside(c) \/ Creates(c)
      BY <2>2, AsideOrCreates
    <3> QED
      BY <3>1, <3>2, AsideCreate, BeginCreate, CreateThreadCreate, RunProcCreate DEF Creates
  <2> QED
    BY <2>1, <2>2 DEF Next
<1> QED
  BY <1>1, <1>2, Invariant, PTL DEF Spec

\* If no thread faults, no assertion of _sched or sched_run_proc fails and no core
\* panics, for any number of cores, whatever other calls the threads make.
THEOREM NothingFails ==
  ProcsAreDistinct /\ NoneCalls("fault") => (Spec => []NoPanic)
<1> SUFFICES ASSUME ProcsAreDistinct, NoneCalls("fault") PROVE Spec => []NoPanic
  OBVIOUS
<1>1. Init => CalmInv
  BY SMTT(30) DEF Init, CalmInv
<1>2. SchedInv /\ CreateInv /\ CalmInv /\ [Next]_vars => CalmInv'
  <2> SUFFICES ASSUME SchedInv, CreateInv, CalmInv, [Next]_vars PROVE CalmInv'
    OBVIOUS
  <2>1. CASE UNCHANGED vars
    <3>1. UNCHANGED <<pc, panic_ipi, state, current_thread, thread_state, thread_list>>
      BY <2>1 DEF vars, coreVars, ctrlVars, ipiVars, listVars, threadVars
    <3> QED
      BY <3>1 DEF CalmInv
  <2>2. ASSUME NEW c \in Cores, Step(c) \/ Event(c) PROVE CalmInv'
    <3>1. Effect(c)
      BY <2>2, StepEffect
    <3>2. CalmStep(c)
      BY <2>2, CalmEvent, CalmRunner, CalmMoves, NothingPanics DEF Step, Event
    <3> QED
      BY <3>1, <3>2, CalmStepInv
  <2> QED
    BY <2>1, <2>2 DEF Next
<1>3. CalmInv => NoPanic
  BY DEF CalmInv, NoPanic
<1> QED
  BY <1>1, <1>2, <1>3, Invariant, CreateInvariant, PTL DEF Spec

\* If no thread yields or faults, every sleep lasts all but the first of the timer
\* periods asked for, unless core 0 reads the thread while its core is still inside
\* sched_thread_sleep: for any number of cores, any threads and any length of sleep.
THEOREM SleepsLastLongEnough ==
  ProcsAreDistinct /\ NoneCalls("fault") /\ NoneCalls("yield") => (Spec => ShortSleepIsTheRace)
<1> SUFFICES ASSUME ProcsAreDistinct, NoneCalls("fault"), NoneCalls("yield")
             PROVE  Spec => ShortSleepIsTheRace
  OBVIOUS
<1> DEFINE InTime == \A t \in Threads :
              thread_state[t] = "SLEEPING" /\ thread_state'[t] = "STOPPED"
              => \/ waited[t] >= SleepPeriods - 1
                 \/ upd.seen # sleep_time[t]
                 \/ \E c \in Cores : current_thread[c] = t /\ pc[c] \in Sleeping
<1>1. Init => SleepInv
  <2> SUFFICES ASSUME Init PROVE SleepInv
    OBVIOUS
  <2>1. OnlyPeriodic
    BY BootCore DEF Init, OnlyPeriodic
  <2>2. SeenOK
    BY BootCore DEF Init, SeenOK
  <2>3. \A t \in Threads : SleeperOK(t)
    BY DEF Init, SleeperOK
  <2> QED
    BY <2>1, <2>2, <2>3 DEF SleepInv
<1>2. SchedInv /\ CreateInv /\ SleepInv /\ [Next]_vars => SleepInv'
  <2> SUFFICES ASSUME SchedInv, CreateInv, SleepInv, [Next]_vars PROVE SleepInv'
    OBVIOUS
  <2>1. CASE UNCHANGED vars
    <3>1. UNCHANGED <<need_resched, pc, kind, resched_ipi, irq_regs, state, thread_state, sleep_time,
                      waited, current_thread, upd, thread_list>>
      BY <2>1 DEF vars, coreVars, ctrlVars, ipiVars, listVars, threadVars, histVars
    <3>2. OnlyPeriodic' /\ \A t \in Threads : Due(t)' <=> Due(t)
      BY <3>1 DEF SleepInv, OnlyPeriodic, Due
    <3>3. \A t \in Threads : SleeperOK(t)'
      BY <3>1, <3>2 DEF SleepInv, SleeperOK, EnoughLeft
    <3>4. SeenOK'
      <4>1. pc[0] = "updating" => thread_list[upd.i] \in Threads
        BY BootCore, SMTT(30) DEF SchedInv, TypeOK, HolderOK
      <4> QED
        BY <3>1, <3>2, <4>1 DEF SleepInv, SeenOK, EnoughLeft
    <3> QED
      BY <3>2, <3>3, <3>4 DEF SleepInv
  <2>2. ASSUME NEW c \in Cores, Step(c) \/ Event(c) PROVE SleepInv'
    BY <2>2, StepEffect, SleepStepInv
  <2> QED
    BY <2>1, <2>2 DEF Next
<1>3. SchedInv /\ SleepInv /\ [Next]_vars => [InTime]_vars
  <2> SUFFICES ASSUME SchedInv, SleepInv, Next PROVE InTime
    OBVIOUS
  <2> QED
    BY WakesInTime DEF Next
<1> QED
  BY <1>1, <1>2, <1>3, Invariant, CreateInvariant, PTL DEF Spec, ShortSleepIsTheRace

-----------------------------------------------------------------------------
(* Sched implements ThreadDispatch.                                        *)

\* The threads and the lists look the same and so does every core.
LEMMA SameView ==
  ASSUME thread_state' = thread_state, thread_list' = thread_list,
         \A d \in Cores : RunningOn(d)' = RunningOn(d)
  PROVE  UNCHANGED Abstract!vars
<1>1. \A t \in Threads : StatusOf(t)' = StatusOf(t)
  BY DEF StatusOf
<1> QED
  BY <1>1 DEF Abstract!vars

\* A step of core c does not change what another core runs.
LEMMA OthersRun ==
  ASSUME NEW c \in Cores, OthersSame(c), NEW d \in Cores, d # c
  PROVE  RunningOn(d)' = RunningOn(d)
  BY DEF RunningOn, OthersSame

\* Steps that touch no thread and no list.
LEMMA QuietStep ==
  ASSUME NEW c \in Cores, OthersSame(c), UNCHANGED <<thread_state, thread_list>>,
         RunningOn(c)' = RunningOn(c)
  PROVE  UNCHANGED Abstract!vars
<1>1. \A d \in Cores : RunningOn(d)' = RunningOn(d)
  BY OthersRun
<1> QED
  BY <1>1, SameView

\* How the refinement mapping changes when only the state of thread t does.
LEMMA StatusStep ==
  ASSUME TypeOK, TypeOK', thread_list' = thread_list, NEW t \in Range(thread_list),
         NEW s \in {"STOPPED", "RUNNING", "SLEEPING", "TERMINATED"},
         thread_state' = [thread_state EXCEPT ![t] = s]
  PROVE  [u \in Threads |-> StatusOf(u)]'
         = [[u \in Threads |-> StatusOf(u)] EXCEPT ![t] = Status[s]]
<1>1. t \in Threads
  BY SMTT(30) DEF Range, TypeOK
<1>2. ASSUME NEW u \in Threads
      PROVE  StatusOf(u)' = IF u = t THEN Status[s] ELSE StatusOf(u)
  <2>1. thread_state \in [Threads -> {"STOPPED", "RUNNING", "SLEEPING", "TERMINATED"}]
    BY DEF TypeOK
  <2> QED
    BY <1>1, <2>1 DEF StatusOf
<1> QED
  BY <1>1, <1>2

\* How it changes when only core c runs something else.
LEMMA RunStep ==
  ASSUME NEW c \in Cores, OthersSame(c), NEW r, RunningOn(c)' = r
  PROVE  [d \in Cores |-> RunningOn(d)]' = [[d \in Cores |-> RunningOn(d)] EXCEPT ![c] = r]
<1>1. \A d \in Cores : RunningOn(d)' = IF d = c THEN r ELSE RunningOn(d)
  BY OthersRun
<1> QED
  BY <1>1

\* sched_thread_sleep's first write is the abstract sleep.
LEMMA SleepStateRefines ==
  ASSUME NEW c \in Cores, SchedInv, SleepState(c), TypeOK', Effect(c)
  PROVE  Abstract!Leave(c, "asleep")
<1> DEFINE t == current_thread[c]
<1>0. TypeOK /\ CoreOK(c) /\ pc[c] = "code" /\ OthersSame(c)
  BY DEF SchedInv, SleepState, Calling, Effect
<1>1. t = on[c] /\ t \in Threads /\ t \in Range(thread_list) /\ thread_state[t] = "RUNNING"
  BY <1>0, CallsAssumption DEF SleepState, Calling, CoreOK, Sleeping
<1>2. RunningOn(c) = t /\ RunningOn(c)' = NULL
  BY <1>0, SMTT(30) DEF RunningOn, SleepState, Goto, Sleeping, TypeOK
<1>3. thread_list' = thread_list /\ thread_state' = [thread_state EXCEPT ![t] = "SLEEPING"]
  BY DEF SleepState, listVars
<1>4. [u \in Threads |-> StatusOf(u)]' = [[u \in Threads |-> StatusOf(u)] EXCEPT ![t] = "asleep"]
  BY <1>0, <1>1, <1>3, StatusStep DEF Status
<1>5. [d \in Cores |-> RunningOn(d)]' = [[d \in Cores |-> RunningOn(d)] EXCEPT ![c] = NULL]
  BY <1>0, <1>2, RunStep
<1>6. StatusOf(t) = "running" /\ t # NULL
  BY <1>1, CallsAssumption, SMTT(30) DEF StatusOf, Status
<1> QED
  BY <1>1, <1>2, <1>4, <1>5, <1>6 DEF Abstract!Leave

\* The exit system call is the abstract exit.
LEMMA ThreadExitRefines ==
  ASSUME NEW c \in Cores, SchedInv, ThreadExit(c), TypeOK', Effect(c)
  PROVE  Abstract!Leave(c, "done")
<1> DEFINE t == current_thread[c]
<1>0. TypeOK /\ CoreOK(c) /\ pc[c] = "code" /\ OthersSame(c)
  BY DEF SchedInv, ThreadExit, Calling, Effect
<1>1. t = on[c] /\ t \in Threads /\ t \in Range(thread_list) /\ thread_state[t] = "RUNNING"
  BY <1>0, CallsAssumption DEF ThreadExit, Calling, CoreOK, Sleeping
<1>2. RunningOn(c) = t /\ RunningOn(c)' = NULL
  BY <1>0, SMTT(30) DEF RunningOn, ThreadExit, Sleeping, TypeOK
<1>3. thread_list' = thread_list /\ thread_state' = [thread_state EXCEPT ![t] = "TERMINATED"]
  BY DEF ThreadExit, listVars
<1>4. [u \in Threads |-> StatusOf(u)]' = [[u \in Threads |-> StatusOf(u)] EXCEPT ![t] = "done"]
  BY <1>0, <1>1, <1>3, StatusStep DEF Status
<1>5. [d \in Cores |-> RunningOn(d)]' = [[d \in Cores |-> RunningOn(d)] EXCEPT ![c] = NULL]
  BY <1>0, <1>2, RunStep, SMTT(30)
<1>6. StatusOf(t) = "running" /\ t # NULL
  BY <1>1, CallsAssumption, SMTT(30) DEF StatusOf, Status
<1> QED
  BY <1>1, <1>2, <1>4, <1>5, <1>6 DEF Abstract!Leave

\* A page fault is the abstract kill.
LEMMA PageFaultRefines ==
  ASSUME NEW c \in Cores, SchedInv, PageFault(c), TypeOK', Effect(c)
  PROVE  Abstract!Kill(c)
<1> DEFINE t == current_thread[c]
<1>0. TypeOK /\ CoreOK(c) /\ pc[c] = "code" /\ OthersSame(c)
  BY DEF SchedInv, PageFault, Effect
<1>1. t \in Threads /\ t # NULL /\ t \in Range(thread_list)
  BY <1>0, CallsAssumption DEF PageFault, CoreOK
<1>2. RunningOn(c) = t /\ RunningOn(c)' = t
  BY <1>0, SMTT(30) DEF RunningOn, PageFault, Goto, Sleeping, TypeOK
<1>3. thread_list' = thread_list /\ thread_state' = [thread_state EXCEPT ![t] = "TERMINATED"]
  BY DEF PageFault, listVars
<1>4. [u \in Threads |-> StatusOf(u)]' = [[u \in Threads |-> StatusOf(u)] EXCEPT ![t] = "done"]
  BY <1>0, <1>1, <1>3, StatusStep DEF Status
<1>5. [d \in Cores |-> RunningOn(d)]' = [d \in Cores |-> RunningOn(d)]
  <2>1. \A d \in Cores : RunningOn(d)' = RunningOn(d)
    BY <1>0, <1>2, OthersRun
  <2> QED
    BY <2>1
<1> QED
  BY <1>1, <1>2, <1>4, <1>5 DEF Abstract!Kill

\* update_sleeping_threads wakes a thread, or changes nothing abstract.
LEMMA UpdateWriteRefines ==
  ASSUME NEW c \in Cores, SchedInv, UpdateWrite(c), TypeOK', Effect(c)
  PROVE  (\E t \in Threads : Abstract!Wake(t)) \/ UNCHANGED Abstract!vars
<1> DEFINE t == thread_list[upd.i]
           left == Shorten(upd.seen)
<1>0. TypeOK /\ HolderOK(c) /\ pc[c] = "updating" /\ OthersSame(c)
  BY DEF SchedInv, UpdateWrite, Effect
<1>1. t \in Threads /\ t \in Range(thread_list) /\ thread_state[t] = "SLEEPING"
  BY <1>0, SMTT(30) DEF HolderOK, TypeOK, Range
<1>2. RunningOn(c)' = RunningOn(c)
  <2>1. pc'[c] \in {"update", "pick"} /\ current_thread' = current_thread
    <3>1. pc \in [Cores -> Points]
      BY <1>0 DEF TypeOK
    <3>2. current_thread' = current_thread
      BY DEF UpdateWrite, coreVars
    <3>3. pc'[c] \in {"update", "pick"}
      BY <3>1 DEF UpdateWrite, NextUpdate, Goto
    <3> QED
      BY <3>2, <3>3
  <2> QED
    BY <1>0, <2>1 DEF RunningOn, Sleeping
<1>3. /\ thread_list' = thread_list
      /\ thread_state' = [thread_state EXCEPT ![t] = IF left = 0 THEN "STOPPED" ELSE @]
  BY DEF UpdateWrite, listVars
<1>4. CASE left = 0
  <2>1. [u \in Threads |-> StatusOf(u)]' = [[u \in Threads |-> StatusOf(u)] EXCEPT ![t] = "ready"]
    BY <1>0, <1>1, <1>3, <1>4, StatusStep DEF Status
  <2>2. [d \in Cores |-> RunningOn(d)]' = [d \in Cores |-> RunningOn(d)]
    <3>1. \A d \in Cores : RunningOn(d)' = RunningOn(d)
      BY <1>0, <1>2, OthersRun
    <3> QED
      BY <3>1, SMTT(30)
  <2>3. StatusOf(t) = "asleep"
    BY <1>1, SMTT(30) DEF StatusOf, Status
  <2> QED
    BY <1>1, <2>1, <2>2, <2>3 DEF Abstract!Wake
<1>5. CASE left # 0
  <2>1. thread_state' = thread_state
    BY <1>0, <1>3, <1>5, SMTT(30) DEF TypeOK
  <2> QED
    BY <1>0, <1>2, <1>3, <2>1, QuietStep
<1> QED
  BY <1>4, <1>5

\* Loading a thread is the abstract dispatch.
LEMMA DispatchRefines ==
  ASSUME NEW c \in Cores, SchedInv, Dispatch(c), TypeOK', Effect(c)
  PROVE  \E t \in Threads : Abstract!Run(c, t)
<1> DEFINE t == new_thread[c]
<1>0. TypeOK /\ HolderOK(c) /\ pc[c] = "switch" /\ OthersSame(c)
  BY DEF SchedInv, Dispatch, Effect
<1>1. /\ t \in Threads /\ t \in Range(thread_list) /\ thread_state[t] = "STOPPED"
      /\ current_thread[c] = NULL
  <2>1. t # NULL /\ current_thread[c] = NULL
    BY <1>0 DEF Dispatch, SchedAsserts
  <2>2. t \in Threads
    BY <1>0, <2>1, SMTT(30) DEF TypeOK
  <2>3. t \in Range(thread_list) /\ thread_state[t] = "STOPPED"
    BY <1>0, <2>1 DEF HolderOK
  <2> QED
    BY <2>1, <2>2, <2>3
<1>2. RunningOn(c) = NULL /\ RunningOn(c)' = t
  <2>1. current_thread'[c] = t
    BY <1>0, SMTT(30) DEF Dispatch, Load, TypeOK
  <2>2. pc'[c] \in {"ipi", "resched", "exit"}
    BY <1>0, AfterPoints, ZenonT(60) DEF Dispatch, Release, Goto, TypeOK
  <2> QED
    BY <1>1, <2>1, <2>2 DEF RunningOn, Sleeping
<1>3. thread_list' = thread_list /\ thread_state' = [thread_state EXCEPT ![t] = "RUNNING"]
  BY DEF Dispatch, Load, listVars
<1>4. [u \in Threads |-> StatusOf(u)]' = [[u \in Threads |-> StatusOf(u)] EXCEPT ![t] = "running"]
  BY <1>0, <1>1, <1>3, StatusStep DEF Status
<1>5. [d \in Cores |-> RunningOn(d)]' = [[d \in Cores |-> RunningOn(d)] EXCEPT ![c] = t]
  BY <1>0, <1>2, RunStep
<1>6. StatusOf(t) = "ready"
  BY <1>1, SMTT(30) DEF StatusOf, Status
<1> QED
  BY <1>1, <1>2, <1>4, <1>5, <1>6 DEF Abstract!Run

\* Switching is the abstract preemption and dispatch in one step.
LEMMA SwitchRefines ==
  ASSUME NEW c \in Cores, SchedInv, Switch(c), TypeOK', Effect(c)
  PROVE  \E t \in Threads : Abstract!Preempt(c, t)
<1> DEFINE t == new_thread[c]
           cur == current_thread[c]
<1>0. TypeOK /\ HolderOK(c) /\ CoreOK(c) /\ pc[c] = "switch" /\ OthersSame(c)
  BY DEF SchedInv, Switch, Effect
<1>1. /\ t \in Threads /\ t \in Range(thread_list) /\ thread_state[t] = "STOPPED"
      /\ cur \in Threads /\ cur \in Range(thread_list) /\ thread_state[cur] = "RUNNING"
      /\ cur # NULL /\ cur # t
  <2>1. t # NULL /\ cur # NULL /\ thread_state[cur] = "RUNNING"
    BY DEF Switch, SchedAsserts
  <2>2. t \in Threads /\ cur \in Threads
    BY <1>0, <2>1, SMTT(30) DEF TypeOK
  <2>3. t \in Range(thread_list) /\ thread_state[t] = "STOPPED"
    BY <1>0, <2>1 DEF HolderOK
  <2>4. cur \in Range(thread_list)
    BY <1>0, <2>1 DEF CoreOK
  <2> QED
    BY <2>1, <2>2, <2>3, <2>4
<1>2. RunningOn(c) = cur /\ RunningOn(c)' = t
  <2>1. current_thread'[c] = t
    BY <1>0, SMTT(30) DEF Switch, Load, TypeOK
  <2>2. pc'[c] \in {"ipi", "resched", "exit"}
    BY <1>0, AfterPoints DEF Switch, Release, Goto, TypeOK
  <2> QED
    BY <1>0, <1>1, <2>1, <2>2 DEF RunningOn, Sleeping
<1>3. /\ thread_list' = thread_list
      /\ thread_state' = [[thread_state EXCEPT ![cur] = "STOPPED"] EXCEPT ![t] = "RUNNING"]
  BY DEF Switch, Load, listVars
<1>4. [u \in Threads |-> StatusOf(u)]'
      = [[u \in Threads |-> StatusOf(u)] EXCEPT ![cur] = "ready", ![t] = "running"]
  <2>1. ASSUME NEW u \in Threads
        PROVE  StatusOf(u)' = IF u = t THEN "running" ELSE IF u = cur THEN "ready" ELSE StatusOf(u)
    <3>1. thread_state'[u] = IF u = t THEN "RUNNING"
                             ELSE IF u = cur THEN "STOPPED" ELSE thread_state[u]
      <4> DEFINE ts == [thread_state EXCEPT ![cur] = "STOPPED"]
      <4>1. /\ DOMAIN ts = Threads
            /\ ts[u] = IF u = cur THEN "STOPPED" ELSE thread_state[u]
        BY <1>0, <1>1, SMTT(30) DEF TypeOK
      <4>2. thread_state' = [ts EXCEPT ![t] = "RUNNING"]
        BY <1>3
      <4> HIDE DEF ts
      <4> QED
        BY <1>1, <4>1, <4>2
    <3>2. Status["RUNNING"] = "running" /\ Status["STOPPED"] = "ready"
      BY DEF Status
    <3>3. CASE u = t
      BY <1>1, <1>3, <3>1, <3>2, <3>3 DEF StatusOf
    <3>4. CASE u # t /\ u = cur
      BY <1>1, <1>3, <3>1, <3>2, <3>4 DEF StatusOf
    <3>5. CASE u # t /\ u # cur
      BY <1>3, <3>1, <3>5, SMTT(30) DEF StatusOf
    <3> QED
      BY <3>3, <3>4, <3>5
  <2> QED
    BY <1>1, <2>1
<1>5. [d \in Cores |-> RunningOn(d)]' = [[d \in Cores |-> RunningOn(d)] EXCEPT ![c] = t]
  BY <1>0, <1>2, RunStep
<1>6. StatusOf(t) = "ready" /\ StatusOf(cur) = "running"
  BY <1>1, SMTT(30) DEF StatusOf, Status
<1> QED
  BY <1>1, <1>2, <1>4, <1>5, <1>6 DEF Abstract!Preempt

\* sched_run_proc admits the threads that are not in the list yet.
LEMMA RunProcRefines ==
  ASSUME NEW c \in Cores, SchedInv, RunProc(c), TypeOK', Effect(c)
  PROVE  \E S \in SUBSET Threads : Abstract!Admit(S)
<1> DEFINE new == Range(thread_list') \ Range(thread_list)
<1>0. TypeOK /\ CoreOK(c) /\ pc[c] = "enqueueing" /\ OthersSame(c) /\ ListStep(c)
  BY DEF SchedInv, RunProc, Effect
<1>1. /\ thread_list' = thread_list \o ThreadsOf[arg[c]] /\ thread_state' = thread_state
      /\ \A t \in Range(ThreadsOf[arg[c]]) : thread_state[t] = "STOPPED"
      /\ ThreadsOf[arg[c]] \in Seq(Threads) /\ thread_list \in Seq(Threads)
  BY <1>0, ProcsAssumption, SMTT(30) DEF RunProc, RunProcAsserts, CoreOK, TypeOK, threadVars
<1>2. new \subseteq Threads /\ \A t \in new : thread_state[t] = "STOPPED"
  <2>1. ASSUME NEW i \in DOMAIN thread_list'
        PROVE  \/ i \in DOMAIN thread_list /\ thread_list'[i] = thread_list[i]
               \/ /\ i - Len(thread_list) \in DOMAIN ThreadsOf[arg[c]]
                  /\ thread_list'[i] = ThreadsOf[arg[c]][i - Len(thread_list)]
    BY <1>1, SMTT(30)
  <2>2. new \subseteq Range(ThreadsOf[arg[c]])
    BY <2>1 DEF Range
  <2>3. Range(ThreadsOf[arg[c]]) \subseteq Threads
    BY <1>1, SMTT(30) DEF Range
  <2> QED
    BY <1>1, <2>2, <2>3
<1>3. \A t \in new : StatusOf(t) = "absent"
  BY DEF StatusOf
<1>4. ASSUME NEW t \in Threads
      PROVE  StatusOf(t)' = IF t \in new THEN "ready" ELSE StatusOf(t)
  BY <1>0, <1>1, <1>2, SMTT(30) DEF StatusOf, Status, ListStep
<1>5. [d \in Cores |-> RunningOn(d)]' = [d \in Cores |-> RunningOn(d)]
  <2>1. RunningOn(c)' = RunningOn(c)
    <3>1. pc'[c] \in {"code", "create"} /\ current_thread' = current_thread
      BY <1>0, SMTT(30) DEF RunProc, Goto, TypeOK, coreVars
    <3> QED
      BY <1>0, <3>1 DEF RunningOn, Sleeping
  <2>2. \A d \in Cores : RunningOn(d)' = RunningOn(d)
    BY <1>0, <2>1, OthersRun
  <2> QED
    BY <2>2, SMTT(30)
<1>6. Abstract!Admit(new)
  BY <1>2, <1>3, <1>4, <1>5 DEF Abstract!Admit
<1> QED
  BY <1>2, <1>6

\* The actions that neither change a thread's state nor what a core runs.
Private(c) ==
    \/ Timer(c) \/ ReschedIpi(c) \/ PanicIpi(c) \/ Yield(c) \/ TryLockTaken(c)
    \/ TryLockBusy(c) \/ UpdateRead(c) \/ Pick(c) \/ Stay(c) \/ LeaveBoot(c)
    \/ SendIpi(c) \/ Resched(c) \/ ExitIrq(c) \/ Spawn(c) \/ BootRunKernel(c)
    \/ LockCreate(c) \/ LockEnqueue(c) \/ AssertFails(c)

\* Steps on what only the core itself sees change nothing abstract.
LEMMA PrivateSame ==
  ASSUME NEW c \in Cores, SchedInv, Private(c)
  PROVE  UNCHANGED <<thread_state, thread_list>> /\ RunningOn(c)' = RunningOn(c)
<1>0. TypeOK /\ pc \in [Cores -> Points]
  BY DEF SchedInv, TypeOK
<1>1. CASE Timer(c)
  BY <1>0, <1>1 DEF RunningOn, Sleeping, Timer, Goto, listVars, threadVars
<1>2. CASE ReschedIpi(c)
  BY <1>0, <1>2 DEF RunningOn, Sleeping, ReschedIpi, Goto, listVars, threadVars
<1>3. CASE PanicIpi(c)
  BY <1>0, <1>3 DEF RunningOn, Sleeping, PanicIpi, Goto, listVars, threadVars
<1>4. CASE Yield(c)
  BY <1>0, <1>4 DEF RunningOn, Sleeping, Yield, Calling, Goto, listVars, threadVars
<1>5. CASE TryLockTaken(c)
  BY <1>0, <1>5 DEF RunningOn, Sleeping, TryLockTaken, Goto, coreVars, listVars, threadVars
<1>6. CASE TryLockBusy(c)
  BY <1>0, <1>6, AfterPoints DEF RunningOn, Sleeping, TryLockBusy, Goto, coreVars, listVars, threadVars
<1>7. CASE UpdateRead(c)
  BY <1>0, <1>7 DEF RunningOn, Sleeping, UpdateRead, NextUpdate, Goto, coreVars, listVars, threadVars
<1>8. CASE Pick(c)
  BY <1>0, <1>8 DEF RunningOn, Sleeping, Pick, Goto, coreVars, listVars, threadVars
<1>9. CASE Stay(c)
  BY <1>0, <1>9, AfterPoints DEF RunningOn, Sleeping, Stay, Release, Goto, coreVars, listVars, threadVars
<1>10. CASE LeaveBoot(c)
  BY <1>0, <1>10, AfterPoints DEF RunningOn, Sleeping, LeaveBoot, Release, Goto, listVars, threadVars
<1>11. CASE SendIpi(c)
  BY <1>0, <1>11, AfterPoints DEF RunningOn, Sleeping, SendIpi, Goto, coreVars, listVars, threadVars
<1>12. CASE Resched(c)
  BY <1>0, <1>12 DEF RunningOn, Sleeping, Resched, Goto, coreVars, listVars, threadVars
<1>13. CASE ExitIrq(c)
  BY <1>0, <1>13 DEF RunningOn, Sleeping, ExitIrq, Goto, coreVars, listVars, threadVars
<1>14. CASE Spawn(c)
  BY <1>0, <1>14 DEF RunningOn, Sleeping, Spawn, Calling, Goto, coreVars, listVars, threadVars
<1>15. CASE BootRunKernel(c)
  BY <1>0, <1>15 DEF RunningOn, Sleeping, BootRunKernel, Goto, coreVars, listVars, threadVars
<1>16. CASE LockCreate(c)
  BY <1>0, <1>16 DEF RunningOn, Sleeping, LockCreate, Goto, coreVars, listVars, threadVars
<1>17. CASE LockEnqueue(c)
  BY <1>0, <1>17 DEF RunningOn, Sleeping, LockEnqueue, Goto, coreVars, listVars, threadVars
<1>18. CASE AssertFails(c)
  BY <1>0, <1>18 DEF RunningOn, Sleeping, AssertFails, Panic, Goto, coreVars, listVars, threadVars
<1> QED
  BY <1>1, <1>2, <1>3, <1>4, <1>5, <1>6, <1>7, <1>8, <1>9, <1>10, <1>11, <1>12, <1>13, <1>14, <1>15, <1>16, <1>17, <1>18 DEF Private

\* The later writes of sched_thread_sleep change nothing abstract.
LEMMA SleepSame ==
  ASSUME NEW c \in Cores, SchedInv, SleepRegs(c) \/ SleepTime(c)
  PROVE  UNCHANGED <<thread_state, thread_list>> /\ RunningOn(c)' = RunningOn(c)
<1>0. TypeOK
  BY DEF SchedInv
<1>1. UNCHANGED <<thread_state, thread_list>>
  BY DEF SleepRegs, SleepTime, listVars
<1>2. RunningOn(c) = NULL /\ RunningOn(c)' = NULL
  BY <1>0 DEF RunningOn, SleepRegs, SleepTime, Goto, Sleeping, TypeOK
<1> QED
  BY <1>1, <1>2

\* Creating a thread that is in no list changes nothing abstract.
LEMMA CreateSame ==
  ASSUME NEW c \in Cores, SchedInv, CreateIdle(c) \/ CreateThread(c)
  PROVE  UNCHANGED <<thread_state, thread_list>> /\ RunningOn(c)' = RunningOn(c)
<1>0. TypeOK /\ CoreOK(c) /\ ListInv /\ pc[c] = "creating"
  BY DEF SchedInv, CreateIdle, CreateThread
<1>1. thread_list' = thread_list /\ current_thread' = current_thread
  <2>1. CASE CreateIdle(c)
    <3>1. current_thread' = [current_thread EXCEPT ![c] = NULL] /\ thread_list' = thread_list
      BY <2>1 DEF CreateIdle, listVars
    <3>2. current_thread[c] = NULL
      BY <1>0, <2>1 DEF CreateIdle, CoreOK
    <3>3. current_thread \in [Cores -> Threads \cup {NULL}]
      BY <1>0 DEF TypeOK
    <3> QED
      BY <3>1, <3>2, <3>3
  <2>2. CASE CreateThread(c)
    BY <2>2 DEF CreateThread, coreVars
  <2> QED
    BY <2>1, <2>2
<1>2. thread_state' = thread_state
  <2>1. CASE CreateIdle(c)
    BY <2>1 DEF CreateIdle, threadVars
  <2>2. CASE CreateThread(c)
    <3> DEFINE list == ThreadsOf[arg[c]]
    <3>1. list \in Seq(Threads)
      <4>1. arg[c] \in Procs \cup {NULL}
        BY <1>0 DEF TypeOK
      <4>2. arg[c] # NULL
        <5>1. boot[c] # "init"
          BY <2>2 DEF CreateThread
        <5> QED
          BY <1>0, <5>1 DEF CoreOK
      <4> QED
        BY <4>1, <4>2, ProcsAssumption
    <3>2. PICK i \in DOMAIN list :
            /\ list[i] \notin created
            /\ thread_state' = [thread_state EXCEPT ![list[i]] = "STOPPED"]
      BY <2>2 DEF CreateThread
    <3> HIDE DEF list
    <3>3. list[i] \in Threads
      BY <3>1, SMTT(30)
    <3>4. thread_state[list[i]] = "STOPPED"
      BY <1>0, <3>2, <3>3 DEF ListInv
    <3>5. thread_state = [t \in Threads |-> thread_state[t]]
      BY <1>0 DEF TypeOK
    <3> QED
      BY <3>2, <3>3, <3>4, <3>5
  <2> QED
    BY <2>1, <2>2
<1>3. RunningOn(c)' = RunningOn(c)
  <2>1. pc'[c] \in {"code", "create", "enqueue"}
    <3>1. pc \in [Cores -> Points]
      BY <1>0 DEF TypeOK
    <3>2. CASE CreateIdle(c)
      BY <3>1, <3>2 DEF CreateIdle, Goto
    <3>3. CASE CreateThread(c)
      BY <3>1, <3>3 DEF CreateThread, Goto
    <3> QED
      BY <3>2, <3>3
  <2> QED
    BY <1>0, <1>1, <2>1 DEF RunningOn, Sleeping
<1> QED
  BY <1>1, <1>2, <1>3

\* Every step is an abstract step or changes nothing abstract.
LEMMA StepRefines ==
  ASSUME NEW c \in Cores, SchedInv, Step(c) \/ Event(c)
  PROVE  Abstract!Next \/ UNCHANGED Abstract!vars
<1>0. TypeOK' /\ Effect(c)
  BY StepEffect
<1>1. CASE Private(c) \/ SleepRegs(c) \/ SleepTime(c) \/ CreateIdle(c) \/ CreateThread(c)
  <2>1. UNCHANGED <<thread_state, thread_list>> /\ RunningOn(c)' = RunningOn(c)
    BY <1>1, PrivateSame, SleepSame, CreateSame
  <2> QED
    BY <1>0, <2>1, QuietStep DEF Effect
<1>2. CASE RunProc(c)
  BY <1>0, <1>2, RunProcRefines DEF Abstract!Next
<1>3. CASE Dispatch(c) \/ Switch(c)
  BY <1>0, <1>3, DispatchRefines, SwitchRefines DEF Abstract!Next
<1>4. CASE SleepState(c) \/ ThreadExit(c) \/ PageFault(c)
  BY <1>0, <1>4, SleepStateRefines, ThreadExitRefines, PageFaultRefines DEF Abstract!Next
<1>5. CASE UpdateWrite(c)
  BY <1>0, <1>5, UpdateWriteRefines DEF Abstract!Next
<1> QED
  BY <1>1, <1>2, <1>3, <1>4, <1>5 DEF Step, Event, Private

\* The initial states map to initial states.
LEMMA InitRefines == Init => Abstract!Init
<1> SUFFICES ASSUME Init PROVE Abstract!Init
  OBVIOUS
<1>1. \A t \in Threads : StatusOf(t) = "absent"
  <2>1. thread_list = <<>>
    BY DEF Init
  <2>2. \A t \in Threads : t \notin Range(thread_list)
    BY <2>1, SMTT(30) DEF Range
  <2> QED
    BY <2>2 DEF StatusOf
<1>2. \A c \in Cores : RunningOn(c) = NULL
  BY DEF Init, RunningOn, Sleeping
<1> QED
  BY <1>1, <1>2 DEF Abstract!Init

\* The scheduler implements the abstract dispatcher.
THEOREM Refinement == Spec => ImplementsDispatch
<1>1. SchedInv /\ [Next]_vars => [Abstract!Next]_(Abstract!vars)
  <2> SUFFICES ASSUME SchedInv, [Next]_vars PROVE [Abstract!Next]_(Abstract!vars)
    OBVIOUS
  <2>1. CASE Next
    BY <2>1, StepRefines DEF Next
  <2>2. CASE UNCHANGED vars
    <3>1. UNCHANGED <<thread_state, thread_list, pc, current_thread>>
      BY <2>2 DEF vars, coreVars, ctrlVars, listVars, threadVars
    <3>2. \A d \in Cores : RunningOn(d)' = RunningOn(d)
      BY <3>1 DEF RunningOn
    <3> QED
      BY <3>1, <3>2, SameView
  <2> QED
    BY <2>1, <2>2
<1> QED
  BY <1>1, InitRefines, Invariant, PTL DEF Spec, ImplementsDispatch, Abstract!Spec

-----------------------------------------------------------------------------

\* No step leaves TERMINATED.
LEMMA TerminatedStep ==
  ASSUME SchedInv, NEW c \in Cores, Step(c) \/ Event(c), NEW t \in Threads,
         thread_state[t] = "TERMINATED"
  PROVE  thread_state'[t] = "TERMINATED"
<1>0. TypeOK /\ CoreOK(c) /\ HolderOK(c)
  BY DEF SchedInv
<1>1. CASE Private(c) \/ SleepRegs(c) \/ SleepTime(c) \/ CreateIdle(c) \/ CreateThread(c)
  <2>1. thread_state' = thread_state
    BY <1>1, PrivateSame, SleepSame, CreateSame
  <2> QED
    BY <2>1
<1>2. CASE RunProc(c)
  BY <1>2 DEF RunProc, threadVars
<1>3. CASE Dispatch(c) \/ Switch(c)
  <2>1. new_thread[c] # t
    BY <1>0, <1>3 DEF Dispatch, Switch, HolderOK
  <2>2. CASE Dispatch(c)
    BY <1>0, <2>1, <2>2 DEF Dispatch, Load, TypeOK
  <2>3. CASE Switch(c)
    <3> DEFINE ts == [thread_state EXCEPT ![current_thread[c]] = "STOPPED"]
    <3>1. current_thread[c] # t
      BY <1>0, <2>3 DEF Switch, SchedAsserts
    <3>2. ts[t] = "TERMINATED"
      BY <1>0, <3>1 DEF TypeOK
    <3>3. thread_state' = [ts EXCEPT ![new_thread[c]] = "RUNNING"] /\ DOMAIN ts = Threads
      BY <1>0, <2>3 DEF Switch, Load, TypeOK
    <3> HIDE DEF ts
    <3> QED
      BY <2>1, <3>2, <3>3
  <2> QED
    BY <1>3, <2>2, <2>3
<1>4. CASE SleepState(c)
  <2>1. current_thread[c] = on[c] /\ on[c] # t
    BY <1>0, <1>4 DEF SleepState, Calling, CoreOK
  <2> QED
    BY <1>0, <1>4, <2>1 DEF SleepState, TypeOK
<1>5. CASE ThreadExit(c) \/ PageFault(c)
  BY <1>0, <1>5 DEF ThreadExit, PageFault, TypeOK
<1>6. CASE UpdateWrite(c)
  <2>1. thread_list[upd.i] # t
    BY <1>0, <1>6 DEF UpdateWrite, HolderOK
  <2> QED
    BY <1>0, <1>6, <2>1 DEF UpdateWrite, TypeOK
<1> QED
  BY <1>1, <1>2, <1>3, <1>4, <1>5, <1>6 DEF Step, Event, Private

\* A thread that exited or was killed by a page fault is never made runnable
\* again by any core, for every number of cores and threads.
THEOREM TerminatedStays == Spec => TerminatedForGood
<1> DEFINE Stays == \A t \in Threads : thread_state[t] = "TERMINATED"
                                       => thread_state'[t] = "TERMINATED"
<1>1. SchedInv /\ [Next]_vars => [Stays]_vars
  BY TerminatedStep DEF Next
<1>2. TerminatedForGood <=> [][Stays]_vars
  BY DEF TerminatedForGood
<1> HIDE DEF Stays
<1> QED
  BY <1>1, <1>2, Invariant, PTL DEF Spec
=============================================================================
