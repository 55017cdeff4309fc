---------------------------- MODULE SchedEffect ----------------------------
(***************************************************************************)
(* Every action of Sched changes only what its core may change, so that    *)
(* SchedInv is an invariant for any number of cores, threads, processes.  *)
(***************************************************************************)
EXTENDS SchedSteps, TLAPS

USE ZenonT(30)

-----------------------------------------------------------------------------
(* Steps with such effects preserve the invariant.                         *)

\* The lock still has one holder.
LEMMA EffectLock ==
  ASSUME NEW c \in Cores, SchedInv, Effect(c)
  PROVE  LockInv'
<1> SUFFICES ASSUME NEW d \in Cores, pc'[d] \in Holding PROVE sched_lock' = d
  BY DEF LockInv
<1>1. CASE d = c
  BY <1>1 DEF Effect, OwnOK
<1>2. CASE d # c
  <2>1. sched_lock = d
    BY <1>2 DEF Effect, OthersSame, SchedInv, LockInv
  <2> QED
    BY <1>2, <2>1, CallsAssumption DEF Effect, LockStep
<1> QED
  BY <1>1, <1>2

\* What each core and the lock holder rely on still holds.
LEMMA EffectCore ==
  ASSUME NEW c \in Cores, SchedInv, Effect(c), NEW d \in Cores
  PROVE  CoreOK(d)' /\ HolderOK(d)'
<1>1. CASE d = c
  BY <1>1 DEF Effect, OwnOK
<1>2. CASE d # c
  <2>1. /\ pc'[d] = pc[d] /\ on'[d] = on[d] /\ irq_regs'[d] = irq_regs[d]
        /\ current_thread'[d] = current_thread[d] /\ new_thread'[d] = new_thread[d]
        /\ boot'[d] = boot[d] /\ arg'[d] = arg[d]
    BY <1>2 DEF Effect, OthersSame
  <2>2. CoreOK(d) /\ HolderOK(d) /\ CoreOK(c) /\ HolderOK(c) /\ ExclusiveDispatch
        /\ TypeOK /\ (pc[d] \in Holding => sched_lock = d)
        /\ (pc[c] \in Holding => sched_lock = c)
    BY DEF SchedInv, LockInv
  <2>3. ASSUME current_thread[d] # NULL, pc[d] \notin Sleeping
        PROVE  thread_state'[current_thread[d]] = thread_state[current_thread[d]]
    <3>1. thread_state[current_thread[d]] \in {"RUNNING", "TERMINATED"}
      BY <2>2, <2>3 DEF CoreOK
    <3>2. ~(current_thread[d] = current_thread[c] /\ pc[c] \notin Sleeping)
      BY <2>2, <2>3, <1>2 DEF ExclusiveDispatch
    <3>3. current_thread[d] \in Threads
      BY <2>2, <2>3 DEF TypeOK
    <3> QED
      BY <3>1, <3>2, <3>3 DEF Effect, ThreadStep
  <2>4. CoreOK(d)'
    <3>1. current_thread[d] # NULL => current_thread[d] \in Range(thread_list')
      BY <2>2 DEF CoreOK, Effect, ListStep
    <3> QED
      BY <2>1, <2>2, <2>3, <3>1 DEF CoreOK
  <2>5. CASE pc[d] \notin Holding
    BY <2>1, <2>4, <2>5 DEF HolderOK, Holding
  <2>6. CASE pc[d] \in Holding
    <3>1. pc[c] \notin Holding
      BY <1>2, <2>2, <2>6
    <3>2. thread_list' = thread_list /\ upd' = upd
      BY <3>1 DEF Effect, ListStep
    <3>3. ASSUME NEW t \in Threads, thread_state[t] \in {"STOPPED", "SLEEPING"}
          PROVE  thread_state'[t] = thread_state[t]
      <4>1. t = current_thread[c] /\ pc[c] \notin Sleeping
            => thread_state[t] \in {"RUNNING", "TERMINATED"}
        BY <2>2, CallsAssumption DEF CoreOK
      <4> QED
        BY <3>1, <3>3, <4>1 DEF Effect, ThreadStep
    <3>4. \A i \in DOMAIN thread_list : thread_list[i] \in Threads
      BY <2>2, SMTT(30) DEF TypeOK
    <3>5. new_thread[d] # NULL => new_thread[d] \in Threads
      BY <2>2 DEF TypeOK
    <3> QED
      BY <2>1, <2>2, <2>4, <3>2, <3>3, <3>4, <3>5 DEF HolderOK
  <2> QED
    BY <2>4, <2>5, <2>6
<1> QED
  BY <1>1, <1>2

\* No thread gets a second core.
LEMMA EffectExclusive ==
  ASSUME NEW c \in Cores, SchedInv, Effect(c)
  PROVE  ExclusiveDispatch'
<1> SUFFICES ASSUME NEW d \in Cores, d # c, current_thread'[c] # NULL,
                    current_thread'[c] = current_thread[d],
                    pc'[c] \notin Sleeping, pc[d] \notin Sleeping
             PROVE  FALSE
  BY SMTT(30) DEF ExclusiveDispatch, Effect, OthersSame, SchedInv
<1>1. CoreOK(d) /\ ExclusiveDispatch /\ TypeOK
  BY DEF SchedInv
<1>2. thread_state[current_thread[d]] \in {"RUNNING", "TERMINATED"}
  BY <1>1 DEF CoreOK
<1>3. current_thread'[c] = current_thread[c] /\ pc[c] \notin Sleeping
  BY <1>2 DEF Effect, CurrentStep
<1> QED
  BY <1>1, <1>3 DEF ExclusiveDispatch

\* Every RUNNING thread is still on a core.
LEMMA EffectRunning ==
  ASSUME NEW c \in Cores, SchedInv, Effect(c)
  PROVE  RunningInv'
<1> SUFFICES ASSUME NEW t \in Threads, thread_state'[t] = "RUNNING"
             PROVE  \E d \in Cores : current_thread'[d] = t /\ pc'[d] \notin Sleeping
  BY DEF RunningInv
<1>1. CASE t = current_thread'[c] /\ pc'[c] \notin Sleeping
  BY <1>1
<1>2. CASE thread_state[t] = "RUNNING" /\ ~(t = current_thread[c] /\ pc[c] \notin Sleeping)
  <2>1. PICK d \in Cores : current_thread[d] = t /\ pc[d] \notin Sleeping
    BY <1>2 DEF SchedInv, RunningInv
  <2> QED
    BY <1>2, <2>1 DEF Effect, OthersSame
<1> QED
  BY <1>1, <1>2 DEF Effect, RunningStep

\* The list still holds created threads only.
LEMMA EffectList ==
  ASSUME NEW c \in Cores, SchedInv, Effect(c)
  PROVE  ListInv'
<1>1. CoreOK(c) /\ ListInv
  BY DEF SchedInv
<1>2. ASSUME NEW t \in Threads, t \notin created'
      PROVE  thread_state'[t] = "STOPPED"
  <2>1. t \notin created /\ t \notin Range(thread_list)
    BY <1>1, <1>2 DEF Effect, ListStep, ListInv
  <2>2. t # current_thread[c]
    BY <1>1, <2>1, CallsAssumption DEF CoreOK
  <2> QED
    BY <1>1, <2>1, <2>2 DEF Effect, ThreadStep, ListInv
<1> QED
  BY <1>2 DEF ListInv, Effect, ListStep

\* Together: such a step preserves the invariant.
LEMMA EffectInv ==
  ASSUME NEW c \in Cores, SchedInv, Effect(c), TypeOK'
  PROVE  SchedInv'
  BY EffectLock, EffectCore, EffectExclusive, EffectRunning, EffectList DEF SchedInv

-----------------------------------------------------------------------------
(* Every action has such an effect.                                        *)

\* Where _sched_runner and the vectors' handlers return to.
LEMMA AfterPoints ==
  ASSUME NEW c \in Cores, TypeOK
  PROVE  /\ AfterSched(c) \in {"ipi", "resched", "exit"}
         /\ AfterHandler(c) \in {"resched", "exit"}
  BY DEF TypeOK, AfterSched, AfterHandler

\* A core in the loop of update_sleeping_threads moves within the list.
LEMMA NextUpdateStep ==
  ASSUME NEW c \in Cores, TypeOK, upd.i \in DOMAIN thread_list, NextUpdate(c)
  PROVE  /\ upd' \in [i : Nat \ {0}, seen : Nat]
         /\ \/ upd'.i \in DOMAIN thread_list /\ pc' = [pc EXCEPT ![c] = "update"]
            \/ upd'.i = 1 /\ pc' = [pc EXCEPT ![c] = "pick"]
<1>1. thread_list \in Seq(Threads) /\ upd.i \in Nat
  BY DEF TypeOK
<1>2. CASE upd.i < Len(thread_list)
  <2>1. upd' = [i |-> upd.i + 1, seen |-> 0] /\ pc' = [pc EXCEPT ![c] = "update"]
    BY <1>2 DEF NextUpdate, Goto
  <2> QED
    BY <1>1, <1>2, <2>1, SMTT(30)
<1>3. CASE ~(upd.i < Len(thread_list))
  <2>1. upd' = [i |-> 1, seen |-> 0] /\ pc' = [pc EXCEPT ![c] = "pick"]
    BY <1>3 DEF NextUpdate, Goto
  <2> QED
    BY <2>1, SMTT(30)
<1> QED
  BY <1>2, <1>3

\* update_sleeping_threads reads a thread of the list.
LEMMA UpdateReadEffect ==
  ASSUME NEW c \in Cores, SchedInv, UpdateRead(c)
  PROVE  TypeOK' /\ Effect(c)
<1> DEFINE t == thread_list[upd.i]
<1>0. TypeOK /\ LockInv /\ CoreOK(c) /\ HolderOK(c) /\ ListInv /\ pc[c] = "update"
  BY DEF SchedInv, UpdateRead
<1>1. upd.i \in DOMAIN thread_list /\ sched_lock = c
  BY <1>0 DEF HolderOK, LockInv, Holding
<1>2. t \in Threads /\ sleep_time[t] \in Nat
  BY <1>0, <1>1, SMTT(30) DEF TypeOK
<1>3. /\ upd' \in [i : Nat \ {0}, seen : Nat]
      /\ \/ /\ upd'.i \in DOMAIN thread_list /\ pc' = [pc EXCEPT ![c] = "update"]
         \/ /\ upd'.i = 1 /\ pc' = [pc EXCEPT ![c] = "pick"]
         \/ /\ upd'.i \in DOMAIN thread_list /\ pc' = [pc EXCEPT ![c] = "updating"]
            /\ thread_state[thread_list[upd'.i]] = "SLEEPING"
  <2>1. CASE thread_state[t] = "SLEEPING"
    <3>1. upd' = [upd EXCEPT !.seen = sleep_time[t]] /\ pc' = [pc EXCEPT ![c] = "updating"]
      BY <2>1 DEF UpdateRead, Goto
    <3>2. upd' \in [i : Nat \ {0}, seen : Nat] /\ upd'.i = upd.i
      BY <1>0, <1>2, <3>1 DEF TypeOK
    <3> QED
      BY <1>1, <2>1, <3>1, <3>2
  <2>2. CASE thread_state[t] # "SLEEPING"
    BY <1>0, <1>1, <2>2, NextUpdateStep DEF UpdateRead
  <2> QED
    BY <2>1, <2>2
<1>4. /\ UNCHANGED <<coreVars, on, kind, arg, new_thread, boot, ipiVars, sched_lock,
                     listVars, threadVars, histVars>>
      /\ pc' \in [Cores -> Points] /\ pc'[c] \in {"update", "updating", "pick"}
      /\ \A d \in Cores \ {c} : pc'[d] = pc[d]
  <2>1. UNCHANGED <<coreVars, on, kind, arg, new_thread, boot, ipiVars, sched_lock,
                    listVars, threadVars, histVars>>
    BY DEF UpdateRead
  <2>2. pc \in [Cores -> Points] /\ {"update", "updating", "pick"} \subseteq Points
    BY <1>0 DEF TypeOK, Points, Holding
  <2> QED
    BY <1>3, <2>1, <2>2
<1>5. TypeOK'
  BY <1>0, <1>3, <1>4 DEF TypeOK, coreVars, ipiVars, listVars, threadVars, histVars
<1>6. OthersSame(c) /\ ThreadStep(c) /\ LockStep(c)
  BY <1>4 DEF OthersSame, ThreadStep, LockStep, coreVars, threadVars
<1>7. CurrentStep(c) /\ RunningStep(c)
  BY <1>0, <1>4 DEF CurrentStep, RunningStep, coreVars, threadVars, Sleeping
<1>8. ListStep(c)
  BY <1>0, <1>1, <1>4, CallsAssumption DEF ListStep, listVars, ListInv, Holding
<1>9. HolderOK(c)'
  <2>1. pc \in [Cores -> Points]
    BY <1>0 DEF TypeOK
  <2>2. \/ upd'.i \in DOMAIN thread_list /\ pc'[c] = "update"
        \/ upd'.i = 1 /\ pc'[c] = "pick"
        \/ /\ upd'.i \in DOMAIN thread_list /\ pc'[c] = "updating"
           /\ thread_state[thread_list[upd'.i]] = "SLEEPING"
    BY <1>3, <2>1
  <2>3. UNCHANGED <<thread_list, thread_state>>
    BY <1>4 DEF listVars, threadVars
  <2> QED
    BY <2>2, <2>3 DEF HolderOK, Holding
<1>10. OwnOK(c)'
  BY <1>0, <1>1, <1>4, <1>9 DEF OwnOK, CoreOK, coreVars, listVars, threadVars, Sleeping
<1> QED
  BY <1>5, <1>6, <1>7, <1>8, <1>10 DEF Effect

\* _sched_runner takes the lock.
LEMMA TryLockTakenEffect ==
  ASSUME NEW c \in Cores, SchedInv, TryLockTaken(c)
  PROVE  TypeOK' /\ Effect(c)
<1>0. TypeOK /\ LockInv /\ CoreOK(c) /\ HolderOK(c) /\ ListInv
  BY DEF SchedInv
<1>1. TypeOK'
  BY <1>0 DEF TypeOK, TryLockTaken, Points, Holding, Goto, coreVars, ipiVars, listVars, threadVars, histVars
<1>2. OthersSame(c) /\ ThreadStep(c) /\ LockStep(c)
  BY <1>0 DEF OthersSame, ThreadStep, LockStep, TypeOK, TryLockTaken, Goto, coreVars, threadVars
<1>3. CurrentStep(c) /\ RunningStep(c)
  BY <1>0, SMTT(30) DEF CurrentStep, RunningStep, TypeOK, TryLockTaken, Goto, coreVars, threadVars, Sleeping
<1>4. ListStep(c)
  BY <1>0, CallsAssumption DEF ListStep, ListInv, TryLockTaken, listVars
<1>5. HolderOK(c)'
  <2>1. upd'.i = 1 /\ thread_list' = thread_list /\ thread_list \in Seq(Threads)
    BY <1>0 DEF TryLockTaken, ListInv, listVars, TypeOK
  <2>2. pc'[c] = "pick" \/ (pc'[c] = "update" /\ thread_list # <<>>)
    BY <1>0 DEF TryLockTaken, Goto, TypeOK
  <2>3. thread_list # <<>> => 1 \in DOMAIN thread_list
    BY <2>1, SMTT(30)
  <2> QED
    BY <2>1, <2>2, <2>3 DEF HolderOK
<1>6. OwnOK(c)'
  BY <1>0, <1>5 DEF OwnOK, CoreOK, TypeOK, TryLockTaken, Goto, coreVars, listVars, threadVars, Sleeping
<1> QED
  BY <1>1, <1>2, <1>3, <1>4, <1>6, SMTT(30) DEF Effect

\* update_sleeping_threads writes back a shorter time, or wakes the thread.
LEMMA UpdateWriteEffect ==
  ASSUME NEW c \in Cores, SchedInv, UpdateWrite(c)
  PROVE  TypeOK' /\ Effect(c)
<1> DEFINE t == thread_list[upd.i]
           left == Shorten(upd.seen)
<1>0. TypeOK /\ LockInv /\ CoreOK(c) /\ HolderOK(c) /\ ListInv /\ pc[c] = "updating"
  BY DEF SchedInv, UpdateWrite
<1>1. upd.i \in DOMAIN thread_list /\ sched_lock = c /\ thread_state[t] = "SLEEPING"
  BY <1>0 DEF HolderOK, LockInv, Holding
<1>2. t \in Threads /\ t \in Range(thread_list) /\ left \in Nat
  <2>1. thread_list \in Seq(Threads) /\ upd.seen \in Nat
    BY <1>0 DEF TypeOK
  <2>2. left \in Nat
    BY <2>1, SMTT(30) DEF Shorten
  <2>3. t \in Threads /\ t \in Range(thread_list)
    BY <1>1, <2>1, SMTT(30) DEF Range
  <2> QED
    BY <2>2, <2>3
<1>3. /\ upd' \in [i : Nat \ {0}, seen : Nat]
      /\ \/ upd'.i \in DOMAIN thread_list /\ pc' = [pc EXCEPT ![c] = "update"]
         \/ upd'.i = 1 /\ pc' = [pc EXCEPT ![c] = "pick"]
  BY <1>0, <1>1, NextUpdateStep DEF UpdateWrite
<1>4. /\ UNCHANGED <<coreVars, on, kind, arg, new_thread, boot, ipiVars, sched_lock,
                     listVars, regs, owner>>
      /\ pc' \in [Cores -> Points] /\ pc'[c] \in {"update", "pick"}
      /\ \A d \in Cores \ {c} : pc'[d] = pc[d]
  <2>1. UNCHANGED <<coreVars, on, kind, arg, new_thread, boot, ipiVars, sched_lock,
                    listVars, regs, owner>>
    BY DEF UpdateWrite
  <2>2. pc \in [Cores -> Points] /\ {"update", "pick"} \subseteq Points
    BY <1>0 DEF TypeOK, Points, Holding
  <2> QED
    BY <1>3, <2>1, <2>2
<1>5. /\ sleep_time' = [sleep_time EXCEPT ![t] = left]
      /\ thread_state' = [thread_state EXCEPT ![t] = IF left = 0 THEN "STOPPED" ELSE @]
      /\ waited' = [waited EXCEPT ![t] = IF left = 0 THEN 0 ELSE @]
  BY DEF UpdateWrite
<1>6. /\ \A u \in Threads : thread_state'[u] = thread_state[u]
                            \/ (u = t /\ thread_state'[u] = "STOPPED")
      /\ thread_state' \in [Threads -> {"STOPPED", "RUNNING", "SLEEPING", "TERMINATED"}]
  BY <1>0, <1>5, ZenonT(60) DEF TypeOK
<1>7. TypeOK'
  <2>1. waited' \in [Threads -> 0 .. SleepPeriods] /\ sleep_time' \in [Threads -> Nat]
    BY <1>0, <1>2, <1>5, CallsAssumption, SMTT(30) DEF TypeOK
  <2> QED
    BY <1>0, <1>3, <1>4, <1>6, <2>1 DEF TypeOK, coreVars, ipiVars, listVars
<1>8. OthersSame(c) /\ LockStep(c)
  BY <1>4 DEF OthersSame, LockStep, coreVars
<1>9. ThreadStep(c)
  BY <1>0, <1>1, <1>2, <1>6 DEF ThreadStep, Holding
<1>10. CurrentStep(c) /\ RunningStep(c)
  BY <1>0, <1>4, <1>6 DEF CurrentStep, RunningStep, coreVars, Sleeping
<1>11. ListStep(c)
  BY <1>0, <1>1, <1>4, CallsAssumption DEF ListStep, listVars, ListInv, Holding
<1>12. HolderOK(c)'
  BY <1>0, <1>3, <1>4 DEF HolderOK, listVars
<1>13. CoreOK(c)'
  <2>1. current_thread[c] # NULL => current_thread[c] \in Threads /\ current_thread[c] # t
    BY <1>0, <1>1, SMTT(30) DEF CoreOK, TypeOK, Sleeping
  <2>2. current_thread[c] # NULL
        => thread_state'[current_thread[c]] = thread_state[current_thread[c]]
    BY <1>6, <2>1
  <2> QED
    BY <1>0, <1>4, <2>2 DEF CoreOK, coreVars, listVars, Sleeping
<1>14. OwnOK(c)'
  BY <1>1, <1>4, <1>12, <1>13 DEF OwnOK
<1> QED
  BY <1>7, <1>8, <1>9, <1>10, <1>11, <1>14 DEF Effect

\* pick_thread only names a STOPPED thread.
LEMMA PickEffect ==
  ASSUME NEW c \in Cores, SchedInv, Pick(c)
  PROVE  TypeOK' /\ Effect(c)
<1>0. TypeOK /\ LockInv /\ CoreOK(c) /\ HolderOK(c) /\ ListInv /\ pc[c] = "pick"
  BY DEF SchedInv, Pick
<1>1. /\ UNCHANGED <<coreVars, on, kind, arg, boot, ipiVars, sched_lock, listVars,
                     threadVars, upd, histVars>>
      /\ pc' = [pc EXCEPT ![c] = "switch"]
  BY DEF Pick, Goto
<1>2. \/ \E i \in DOMAIN thread_list :
            /\ thread_state[thread_list[i]] = "STOPPED"
            /\ new_thread' = [new_thread EXCEPT ![c] = thread_list[i]]
      \/ new_thread' = [new_thread EXCEPT ![c] = NULL]
  BY DEF Pick, Picked, Ready
<1>3. \A i \in DOMAIN thread_list : thread_list[i] \in Threads \cap Range(thread_list)
  BY <1>0, SMTT(30) DEF TypeOK, Range
<1>4. /\ new_thread' \in [Cores -> Threads \cup {NULL}]
      /\ \A d \in Cores \ {c} : new_thread'[d] = new_thread[d]
      /\ \/ new_thread'[c] = NULL
         \/ /\ new_thread'[c] \in Range(thread_list)
            /\ thread_state[new_thread'[c]] = "STOPPED"
  <2>0. new_thread \in [Cores -> Threads \cup {NULL}]
    BY <1>0 DEF TypeOK
  <2>1. CASE new_thread' = [new_thread EXCEPT ![c] = NULL]
    BY <2>0, <2>1
  <2>2. ASSUME NEW i \in DOMAIN thread_list, thread_state[thread_list[i]] = "STOPPED",
               new_thread' = [new_thread EXCEPT ![c] = thread_list[i]]
        PROVE  <1>4!1 /\ <1>4!2 /\ <1>4!3
    BY <1>3, <2>0, <2>2
  <2> QED
    BY <1>2, <2>1, <2>2
<1>5. TypeOK'
  BY <1>0, <1>1, <1>4
  DEF TypeOK, Points, Holding, coreVars, ipiVars, listVars, threadVars, histVars
<1>6. OthersSame(c) /\ ThreadStep(c) /\ LockStep(c)
  BY <1>0, <1>1, <1>4, SMTT(30) DEF OthersSame, ThreadStep, LockStep, TypeOK, coreVars, threadVars
<1>7. CurrentStep(c) /\ RunningStep(c)
  BY <1>0, <1>1 DEF CurrentStep, RunningStep, TypeOK, Sleeping, coreVars, threadVars
<1>8. ListStep(c)
  BY <1>0, <1>1 DEF ListStep, ListInv, listVars
<1>9. HolderOK(c)'
  BY <1>0, <1>1, <1>4, SMTT(30) DEF HolderOK, Holding, TypeOK, coreVars, listVars, threadVars
<1>10. OwnOK(c)'
  BY <1>0, <1>1, <1>9, ZenonT(60)
  DEF OwnOK, CoreOK, LockInv, Holding, Sleeping, TypeOK, coreVars, listVars, threadVars
<1> QED
  BY <1>5, <1>6, <1>7, <1>8, <1>10, SMTT(30) DEF Effect

\* The common end of Switch and Dispatch: the core has loaded new_thread and
\* released the lock.
LEMMA LoadOwnOK ==
  ASSUME NEW c \in Cores, SchedInv, pc[c] = "switch", new_thread[c] # NULL,
         Release(c), TypeOK', UNCHANGED <<boot, listVars, upd>>,
         current_thread'[c] = new_thread[c], irq_regs'[c] = new_thread[c],
         thread_state'[new_thread[c]] = "RUNNING"
  PROVE  OwnOK(c)'
<1>0. TypeOK /\ CoreOK(c) /\ HolderOK(c)
  BY DEF SchedInv
<1>1. pc'[c] \in {"ipi", "resched", "exit"}
  <2>1. pc \in [Cores -> Points] /\ pc' = [pc EXCEPT ![c] = AfterSched(c)]
    BY <1>0 DEF TypeOK, Release, Goto
  <2> QED
    BY <1>0, <2>1, AfterPoints
<1>2. new_thread[c] \in Range(thread_list) /\ boot[c] # "init"
  BY <1>0 DEF HolderOK, CoreOK
<1>3. HolderOK(c)'
  BY <1>1 DEF HolderOK, Holding
<1> QED
  BY <1>1, <1>2, <1>3 DEF OwnOK, CoreOK, Holding, Sleeping, listVars

\* _sched stops one thread and loads another.
LEMMA SwitchEffect ==
  ASSUME NEW c \in Cores, SchedInv, Switch(c)
  PROVE  TypeOK' /\ Effect(c)
<1> DEFINE cur == current_thread[c]
           t == new_thread[c]
<1>0. TypeOK /\ LockInv /\ CoreOK(c) /\ HolderOK(c) /\ ListInv /\ pc[c] = "switch"
  BY DEF SchedInv, Switch
<1>1. /\ cur \in Threads /\ t \in Threads /\ cur # t
      /\ t \in Range(thread_list) /\ thread_state[t] = "STOPPED"
      /\ sched_lock = c /\ upd.i = 1
  BY ZenonT(40), <1>0 DEF Switch, SchedAsserts, HolderOK, TypeOK, LockInv, Holding
<1>2. /\ UNCHANGED <<need_resched, on, kind, arg, boot, ipiVars, listVars, sleep_time,
                     upd, waited>>
      /\ state' = [state EXCEPT ![c] = IF @ = "IDLE" THEN "ONLINE" ELSE @]
      /\ current_thread' = [current_thread EXCEPT ![c] = t]
      /\ irq_regs' = [irq_regs EXCEPT ![c] = t]
      /\ thread_state' = [[thread_state EXCEPT ![cur] = "STOPPED"] EXCEPT ![t] = "RUNNING"]
      /\ sched_lock' = NULL
      /\ new_thread' = [new_thread EXCEPT ![c] = NULL]
      /\ Release(c)
  BY DEF Switch, Load, Release
<1>3. pc'[c] \in {"ipi", "resched", "exit"} /\ \A d \in Cores \ {c} : pc'[d] = pc[d]
  BY <1>0, <1>2, AfterPoints, ZenonT(60) DEF Release, Goto, TypeOK
<1>4. TypeOK'
  <2>1. regs' \in [Threads -> BOOLEAN] /\ owner' \in [Threads -> Cores \cup {NULL}]
    BY <1>0 DEF Switch, Load, TypeOK
  <2>2. pc' \in [Cores -> Points]
    BY <1>0, <1>2, AfterPoints DEF Release, Goto, TypeOK, Points
  <2> QED
    BY <1>0, <1>1, <1>2, <2>1, <2>2 DEF TypeOK, Contexts, ipiVars, listVars
<1>5. OthersSame(c) /\ LockStep(c)
  BY <1>0, <1>1, <1>2, <1>3, SMTT(30) DEF OthersSame, LockStep, TypeOK
<1>6. ThreadStep(c)
  BY <1>0, <1>1, <1>2, ZenonT(60) DEF ThreadStep, Holding, Sleeping, TypeOK
<1>7. CurrentStep(c) /\ RunningStep(c)
  BY <1>0, <1>1, <1>2, <1>3, ZenonT(60) DEF CurrentStep, RunningStep, Sleeping, TypeOK
<1>8. ListStep(c)
  BY <1>0, <1>1, <1>2 DEF ListStep, ListInv, Holding, listVars
<1>9. OwnOK(c)'
  <2>1. t # NULL /\ UNCHANGED <<boot, listVars, upd>>
    BY <1>1, <1>2, CallsAssumption
  <2>2. current_thread'[c] = t /\ irq_regs'[c] = t /\ thread_state'[t] = "RUNNING"
    BY <1>0, <1>1, <1>2, ZenonT(60) DEF TypeOK
  <2> QED
    BY <1>0, <1>2, <1>4, <2>1, <2>2, LoadOwnOK
<1> QED
  BY <1>4, <1>5, <1>6, <1>7, <1>8, <1>9, SMTT(30) DEF Effect

\* _sched loads a thread on a core that has none.
LEMMA DispatchEffect ==
  ASSUME NEW c \in Cores, SchedInv, Dispatch(c)
  PROVE  TypeOK' /\ Effect(c)
<1> DEFINE t == new_thread[c]
<1>0. TypeOK /\ LockInv /\ CoreOK(c) /\ HolderOK(c) /\ ListInv /\ pc[c] = "switch"
  BY DEF SchedInv, Dispatch
<1>1. /\ t \in Threads /\ current_thread[c] = NULL
      /\ t \in Range(thread_list) /\ thread_state[t] = "STOPPED"
      /\ sched_lock = c /\ upd.i = 1
  BY <1>0, SMTT(30) DEF Dispatch, SchedAsserts, HolderOK, TypeOK, LockInv, Holding
<1>2. /\ UNCHANGED <<need_resched, on, kind, arg, boot, ipiVars, listVars, sleep_time,
                     upd, waited>>
      /\ state' = [state EXCEPT ![c] = IF @ = "IDLE" THEN "ONLINE" ELSE @]
      /\ current_thread' = [current_thread EXCEPT ![c] = t]
      /\ irq_regs' = [irq_regs EXCEPT ![c] = t]
      /\ thread_state' = [thread_state EXCEPT ![t] = "RUNNING"]
      /\ sched_lock' = NULL
      /\ new_thread' = [new_thread EXCEPT ![c] = NULL]
      /\ Release(c)
  BY DEF Dispatch, Load, Release
<1>3. pc'[c] \in {"ipi", "resched", "exit"} /\ \A d \in Cores \ {c} : pc'[d] = pc[d]
  BY <1>0, <1>2, AfterPoints, ZenonT(60) DEF Release, Goto, TypeOK
<1>4. TypeOK'
  <2>1. regs' \in [Threads -> BOOLEAN] /\ owner' \in [Threads -> Cores \cup {NULL}]
    BY <1>0 DEF Dispatch, Load, TypeOK
  <2>2. pc' \in [Cores -> Points]
    BY <1>0, <1>2, AfterPoints DEF Release, Goto, TypeOK, Points
  <2> QED
    BY <1>0, <1>1, <1>2, <2>1, <2>2 DEF TypeOK, Contexts, ipiVars, listVars
<1>5. OthersSame(c) /\ LockStep(c)
  BY ZenonT(40), <1>0, <1>1, <1>2, <1>3 DEF OthersSame, LockStep, TypeOK
<1>6. ThreadStep(c)
  BY <1>0, <1>1, <1>2, ZenonT(60) DEF ThreadStep, Holding, Sleeping, TypeOK
<1>7. CurrentStep(c) /\ RunningStep(c)
  BY <1>0, <1>1, <1>2, <1>3, CallsAssumption, ZenonT(60) DEF CurrentStep, RunningStep, Sleeping, TypeOK
<1>8. ListStep(c)
  BY <1>0, <1>1, <1>2 DEF ListStep, ListInv, Holding, listVars
<1>9. OwnOK(c)'
  <2>1. t # NULL /\ UNCHANGED <<boot, listVars, upd>>
    BY <1>1, <1>2, CallsAssumption
  <2>2. current_thread'[c] = t /\ irq_regs'[c] = t /\ thread_state'[t] = "RUNNING"
    BY <1>0, <1>1, <1>2, SMTT(30) DEF TypeOK
  <2> QED
    BY <1>0, <1>2, <1>4, <2>1, <2>2, LoadOwnOK
<1> QED
  BY <1>4, <1>5, <1>6, <1>7, <1>8, <1>9, SMTT(30) DEF Effect

\* thread_create under the lock.
LEMMA CreateThreadEffect ==
  ASSUME NEW c \in Cores, SchedInv, CreateThread(c)
  PROVE  TypeOK' /\ Effect(c)
<1>0. TypeOK /\ LockInv /\ CoreOK(c) /\ HolderOK(c) /\ ListInv /\ pc[c] = "creating"
  BY DEF SchedInv, CreateThread
<1>1. /\ sched_lock = c /\ sched_lock' = NULL /\ boot[c] # "init" /\ upd.i = 1
      /\ ThreadsOf[arg[c]] \in Seq(Threads) /\ arg[c] # NULL
      /\ UNCHANGED <<coreVars, on, kind, arg, new_thread, boot, ipiVars, thread_list, proc_list,
                     sleep_time, regs, upd, histVars>>
  BY <1>0, ProcsAssumption, SMTT(30) DEF CreateThread, LockInv, HolderOK, CoreOK, TypeOK, Holding
<1>2. PICK i \in DOMAIN ThreadsOf[arg[c]] :
        /\ ThreadsOf[arg[c]][i] \notin created
        /\ created' = created \cup {ThreadsOf[arg[c]][i]}
        /\ thread_state' = [thread_state EXCEPT ![ThreadsOf[arg[c]][i]] = "STOPPED"]
        /\ Goto(c, IF i = Len(ThreadsOf[arg[c]]) THEN "enqueue" ELSE "create")
  BY DEF CreateThread
<1>3. ThreadsOf[arg[c]][i] \in Threads
  BY <1>1, SMTT(30)
<1>4. thread_state' = thread_state
  BY <1>0, <1>2, <1>3, SMTT(30) DEF ListInv, TypeOK
<1>5. /\ pc'[c] \in {"create", "enqueue"} /\ pc' \in [Cores -> Points]
      /\ \A d \in Cores \ {c} : pc'[d] = pc[d]
  BY <1>0, <1>2 DEF Goto, TypeOK, Points
<1>6. TypeOK'
  <2>1. created' \subseteq Threads /\ sched_lock' \in Cores \cup {NULL}
    BY <1>0, <1>1, <1>2, <1>3 DEF TypeOK
  <2> QED
    BY <1>0, <1>1, <1>4, <1>5, <2>1, ZenonT(60) DEF TypeOK, coreVars, ipiVars, histVars
<1>7. OthersSame(c) /\ ThreadStep(c) /\ LockStep(c)
  BY <1>1, <1>4, <1>5 DEF OthersSame, ThreadStep, LockStep, coreVars
<1>8. CurrentStep(c) /\ RunningStep(c)
  BY <1>0, <1>1, <1>4, <1>5, ZenonT(60) DEF CurrentStep, RunningStep, Sleeping, coreVars
<1>9. ListStep(c)
  BY <1>0, <1>1, <1>2 DEF ListStep, ListInv
<1>10. HolderOK(c)'
  BY <1>5 DEF HolderOK, Holding
<1>11. OwnOK(c)'
  BY <1>0, <1>1, <1>4, <1>5, <1>10 DEF OwnOK, CoreOK, Holding, Sleeping, coreVars
<1> QED
  BY <1>6, <1>7, <1>8, <1>9, <1>11 DEF Effect

\* kernel_thread goes on with a process.
LEMMA FollowingTestType ==
  ASSUME NEW p
  PROVE  FollowingTest(p) \in Procs \cup {NULL}
<1> DEFINE later == {i \in DOMAIN TestProcs : i > 1 /\ TestProcs[i - 1] = p}
<1>1. CASE later = {}
  BY <1>1 DEF FollowingTest
<1>2. CASE later # {}
  <2>1. (CHOOSE i \in later : TRUE) \in DOMAIN TestProcs
    BY <1>2
  <2>2. FollowingTest(p) = TestProcs[CHOOSE i \in later : TRUE]
    BY <1>2 DEF FollowingTest
  <2> QED
    BY <2>1, <2>2, ProcsAssumption, SMTT(30)
<1> QED
  BY <1>1, <1>2

\* sched_run_proc appends the threads of a process.
LEMMA RunProcEffect ==
  ASSUME NEW c \in Cores, SchedInv, RunProc(c)
  PROVE  TypeOK' /\ Effect(c)
<1> DEFINE p == arg[c]
<1>0. TypeOK /\ LockInv /\ CoreOK(c) /\ HolderOK(c) /\ ListInv /\ pc[c] = "enqueueing"
  BY DEF SchedInv, RunProc
<1>1. /\ sched_lock = c /\ sched_lock' = NULL /\ upd.i = 1 /\ boot[c] # "init"
      /\ UNCHANGED <<coreVars, on, kind, new_thread, ipiVars, created, threadVars, upd, histVars>>
      /\ proc_list' = Append(proc_list, p)
      /\ thread_list' = thread_list \o ThreadsOf[p]
      /\ arg' = [arg EXCEPT ![c] = FollowingTest(p)]
      /\ Range(ThreadsOf[p]) \subseteq created
  BY <1>0 DEF RunProc, RunProcAsserts, LockInv, HolderOK, CoreOK, Holding
<1>2. p \in Procs /\ ThreadsOf[p] \in Seq(Threads)
  BY <1>0, <1>1, ProcsAssumption, SMTT(30) DEF CoreOK, TypeOK
<1>3. /\ boot' \in [Cores -> {"init", "v86", "kernel", "yield", "spin"}]
      /\ boot'[c] # "init" /\ \A d \in Cores \ {c} : boot'[d] = boot[d]
  <2>1. boot' = [boot EXCEPT ![c] = CASE on[c] # "boot" -> @
                                      [] p = v86_proc -> "kernel"
                                      [] OTHER -> "yield"]
    BY DEF RunProc
  <2>2. boot \in [Cores -> {"init", "v86", "kernel", "yield", "spin"}]
    BY <1>0 DEF TypeOK
  <2> QED
    BY <1>1, <2>1, <2>2
<1>4. /\ arg' \in [Cores -> Procs \cup {NULL}] /\ arg'[c] = FollowingTest(p)
      /\ \A d \in Cores \ {c} : arg'[d] = arg[d]
  BY <1>0, <1>1, FollowingTestType DEF TypeOK
<1>5. /\ pc'[c] = IF FollowingTest(p) = NULL THEN "code" ELSE "create"
      /\ pc' \in [Cores -> Points] /\ \A d \in Cores \ {c} : pc'[d] = pc[d]
  BY <1>0 DEF RunProc, Goto, TypeOK, Points
<1>6. thread_list' \in Seq(Threads) /\ proc_list' \in Seq(Procs)
  BY <1>0, <1>1, <1>2, SMTT(30) DEF TypeOK
<1>7. Range(thread_list') = Range(thread_list) \cup Range(ThreadsOf[p])
  <2>1. thread_list \in Seq(Threads)
    BY <1>0 DEF TypeOK
  <2>2. Len(thread_list') = Len(thread_list) + Len(ThreadsOf[p])
    BY <1>1, <1>2, <2>1, SMTT(30)
  <2>3. ASSUME NEW i \in DOMAIN thread_list
        PROVE  i \in DOMAIN thread_list' /\ thread_list'[i] = thread_list[i]
    BY <1>1, <1>2, <2>1, SMTT(30)
  <2>4. ASSUME NEW i \in DOMAIN ThreadsOf[p]
        PROVE  /\ Len(thread_list) + i \in DOMAIN thread_list'
               /\ thread_list'[Len(thread_list) + i] = ThreadsOf[p][i]
    BY <1>1, <1>2, <2>1, SMTT(30)
  <2>5. ASSUME NEW i \in DOMAIN thread_list'
        PROVE  \/ i \in DOMAIN thread_list /\ thread_list'[i] = thread_list[i]
               \/ /\ i - Len(thread_list) \in DOMAIN ThreadsOf[p]
                  /\ thread_list'[i] = ThreadsOf[p][i - Len(thread_list)]
    BY <1>1, <1>2, <2>1, SMTT(30)
  <2> QED
    BY <2>3, <2>4, <2>5, SMTT(30) DEF Range
<1>8. TypeOK'
  BY <1>0, <1>1, <1>3, <1>4, <1>5, <1>6 DEF TypeOK, coreVars, ipiVars, threadVars, histVars
<1>9. OthersSame(c) /\ ThreadStep(c) /\ LockStep(c)
  BY <1>1, <1>3, <1>4, <1>5 DEF OthersSame, ThreadStep, LockStep, coreVars, threadVars
<1>10. CurrentStep(c) /\ RunningStep(c)
  BY <1>0, <1>1, <1>5 DEF CurrentStep, RunningStep, Sleeping, coreVars, threadVars
<1>11. ListStep(c)
  BY <1>0, <1>1, <1>7 DEF ListStep, ListInv, Holding
<1>12. HolderOK(c)'
  BY <1>5 DEF HolderOK, Holding
<1>13. CoreOK(c)'
  BY <1>0, <1>1, <1>3, <1>4, <1>5, <1>7 DEF CoreOK, Sleeping, coreVars, threadVars
<1>14. OwnOK(c)'
  BY <1>5, <1>12, <1>13 DEF OwnOK, Holding
<1> QED
  BY <1>8, <1>9, <1>10, <1>11, <1>14, SMTT(30) DEF Effect

\* The timer interrupt of core 0.
LEMMA TimerEffect ==
  ASSUME NEW c \in Cores, SchedInv, Timer(c)
  PROVE  TypeOK' /\ Effect(c)
<1>0. TypeOK /\ CoreOK(c) /\ ListInv /\ pc[c] = "code"
  BY DEF SchedInv, Timer
<1>1. TypeOK'
  <2>1. waited' \in [Threads -> 0 .. SleepPeriods]
    <3>1. ASSUME NEW n \in 0 .. SleepPeriods, n < SleepPeriods
          PROVE  n + 1 \in 0 .. SleepPeriods
      BY <3>1, CallsAssumption, SMTT(30)
    <3>2. \A t \in Threads : waited[t] \in 0 .. SleepPeriods
      BY <1>0 DEF TypeOK
    <3> QED
      BY <3>1, <3>2 DEF Timer
  <2> QED
    BY <1>0, <2>1 DEF TypeOK, Timer, EnterIrq, Goto, Points, ipiVars, listVars, threadVars
<1>2. OthersSame(c) /\ ThreadStep(c) /\ LockStep(c)
  BY <1>0, SMTT(30) DEF OthersSame, ThreadStep, LockStep, TypeOK, Timer, EnterIrq, Goto, threadVars
<1>3. CurrentStep(c) /\ RunningStep(c)
  BY <1>0 DEF CurrentStep, RunningStep, TypeOK, Timer, Goto, Sleeping, threadVars
<1>4. ListStep(c)
  BY <1>0 DEF ListStep, ListInv, Timer, listVars
<1>5. OwnOK(c)'
  BY <1>0 DEF OwnOK, CoreOK, HolderOK, TypeOK, Timer, EnterIrq, Goto, Holding, Sleeping,
              listVars, threadVars
<1> QED
  BY <1>1, <1>2, <1>3, <1>4, <1>5, SMTT(30) DEF Effect

\* The yield system call.
LEMMA YieldEffect ==
  ASSUME NEW c \in Cores, SchedInv, Yield(c)
  PROVE  TypeOK' /\ Effect(c)
<1>0. TypeOK /\ CoreOK(c) /\ ListInv /\ pc[c] = "code"
  BY DEF SchedInv, Yield, Calling
<1>1. /\ boot' \in [Cores -> {"init", "v86", "kernel", "yield", "spin"}]
      /\ boot'[c] # "init" /\ \A d \in Cores \ {c} : boot'[d] = boot[d]
  BY <1>0, ZenonT(60) DEF TypeOK, CoreOK, Yield
<1>2. TypeOK'
  BY <1>0, <1>1 DEF TypeOK, Yield, EnterIrq, Goto, Points, ipiVars, listVars, threadVars, histVars
<1>3. OthersSame(c) /\ ThreadStep(c) /\ LockStep(c)
  BY <1>0, <1>1, SMTT(30) DEF OthersSame, ThreadStep, LockStep, TypeOK, Yield, EnterIrq, Goto, threadVars
<1>4. CurrentStep(c) /\ RunningStep(c)
  BY <1>0 DEF CurrentStep, RunningStep, TypeOK, Yield, Goto, Sleeping, threadVars
<1>5. ListStep(c)
  BY <1>0, ZenonT(60) DEF ListStep, ListInv, Yield, listVars
<1>6. OwnOK(c)'
  BY <1>0, <1>1, SMTT(30) DEF OwnOK, CoreOK, HolderOK, TypeOK, Yield, EnterIrq, Goto, Holding, Sleeping,
              listVars, threadVars
<1> QED
  BY <1>2, <1>3, <1>4, <1>5, <1>6, SMTT(30) DEF Effect

\* kernel_thread or kmain turns to a process.
LEMMA SpawnEffect ==
  ASSUME NEW c \in Cores, SchedInv, Spawn(c) \/ BootRunKernel(c)
  PROVE  TypeOK' /\ Effect(c)
<1>0. TypeOK /\ CoreOK(c) /\ ListInv /\ pc[c] = "code"
  BY DEF SchedInv, Spawn, BootRunKernel, Calling
<1>1. \E p \in Procs, l \in {"create", "enqueue"} :
        arg' = [arg EXCEPT ![c] = p] /\ pc' = [pc EXCEPT ![c] = l]
  <2>1. TestProcs # <<>> => TestProcs[1] \in Procs
    BY ProcsAssumption, SMTT(30)
  <2> QED
    BY <2>1, ProcsAssumption DEF Spawn, BootRunKernel, Goto
<1>2. /\ arg' \in [Cores -> Procs \cup {NULL}] /\ arg'[c] # NULL
      /\ pc' \in [Cores -> Points] /\ pc'[c] \in {"create", "enqueue"}
      /\ \A d \in Cores \ {c} : arg'[d] = arg[d] /\ pc'[d] = pc[d]
  <2>1. arg \in [Cores -> Procs \cup {NULL}] /\ pc \in [Cores -> Points]
        /\ {"create", "enqueue"} \subseteq Points
    BY <1>0 DEF TypeOK, Points
  <2> QED
    BY <1>1, <2>1, CallsAssumption, SMTT(30)
<1>3. UNCHANGED <<coreVars, on, kind, new_thread, boot, ipiVars, sched_lock, listVars, threadVars,
                  upd, histVars>>
  BY DEF Spawn, BootRunKernel
<1>4. TypeOK'
  BY <1>0, <1>2, <1>3 DEF TypeOK, coreVars, ipiVars, listVars, threadVars, histVars
<1>5. OthersSame(c) /\ ThreadStep(c) /\ LockStep(c)
  BY <1>2, <1>3 DEF OthersSame, ThreadStep, LockStep, coreVars, threadVars
<1>6. CurrentStep(c) /\ RunningStep(c)
  BY <1>0, <1>2, <1>3 DEF CurrentStep, RunningStep, Sleeping, coreVars, threadVars
<1>7. ListStep(c)
  BY <1>0, <1>3 DEF ListStep, ListInv, listVars
<1>8. OwnOK(c)'
  BY <1>0, <1>2, <1>3 DEF OwnOK, CoreOK, HolderOK, Holding, Sleeping, coreVars, listVars, threadVars
<1> QED
  BY <1>4, <1>5, <1>6, <1>7, <1>8 DEF Effect

\* sched_init_core creates the idle thread.
LEMMA CreateIdleEffect ==
  ASSUME NEW c \in Cores, SchedInv, CreateIdle(c)
  PROVE  TypeOK' /\ Effect(c)
<1>0. TypeOK /\ LockInv /\ CoreOK(c) /\ HolderOK(c) /\ ListInv /\ pc[c] = "creating"
  BY DEF SchedInv, CreateIdle
<1>1. /\ sched_lock = c /\ sched_lock' = NULL /\ upd.i = 1
      /\ current_thread[c] = NULL /\ current_thread' = current_thread
  BY <1>0, SMTT(30) DEF CreateIdle, LockInv, HolderOK, CoreOK, TypeOK, Holding
<1>2. UNCHANGED <<irq_regs, need_resched, on, kind, new_thread, ipiVars, listVars, threadVars, upd,
                  histVars>>
  BY DEF CreateIdle
<1>3. /\ boot' \in [Cores -> {"init", "v86", "kernel", "yield", "spin"}]
      /\ boot'[c] # "init" /\ \A d \in Cores \ {c} : boot'[d] = boot[d]
  <2>1. boot' = [boot EXCEPT ![c] = "v86"] \/ boot' = [boot EXCEPT ![c] = "yield"]
    BY DEF CreateIdle
  <2>2. boot \in [Cores -> {"init", "v86", "kernel", "yield", "spin"}]
    BY <1>0 DEF TypeOK
  <2> QED
    BY <2>1, <2>2
<1>4. /\ arg' \in [Cores -> Procs \cup {NULL}] /\ pc' \in [Cores -> Points]
      /\ pc'[c] = "code" \/ (pc'[c] = "create" /\ arg'[c] # NULL)
      /\ \A d \in Cores \ {c} : arg'[d] = arg[d] /\ pc'[d] = pc[d]
  <2>1. arg \in [Cores -> Procs \cup {NULL}] /\ pc \in [Cores -> Points]
        /\ {"create", "code"} \subseteq Points
    BY <1>0 DEF TypeOK, Points
  <2>2. \/ arg' = [arg EXCEPT ![c] = v86_proc] /\ pc' = [pc EXCEPT ![c] = "create"]
        \/ arg' = arg /\ pc' = [pc EXCEPT ![c] = "code"]
    BY DEF CreateIdle, Goto
  <2> QED
    BY <2>1, <2>2, ProcsAssumption, CallsAssumption, ZenonT(60)
<1>5. TypeOK'
  <2>1. state' \in [Cores -> {"OFFLINE", "BOOTING", "ONLINE", "IDLE"}]
    BY <1>0 DEF TypeOK, CreateIdle
  <2> QED
    BY <1>0, <1>1, <1>2, <1>3, <1>4, <2>1 DEF TypeOK, ipiVars, listVars, threadVars, histVars
<1>6. OthersSame(c) /\ ThreadStep(c) /\ LockStep(c)
  BY <1>1, <1>2, <1>3, <1>4 DEF OthersSame, ThreadStep, LockStep, threadVars
<1>7. CurrentStep(c) /\ RunningStep(c)
  BY <1>0, <1>1, <1>2, <1>4, CallsAssumption DEF CurrentStep, RunningStep, Sleeping, threadVars
<1>8. ListStep(c)
  BY <1>0, <1>1, <1>2 DEF ListStep, ListInv, Holding, listVars
<1>9. OwnOK(c)'
  BY <1>0, <1>1, <1>2, <1>3, <1>4
  DEF OwnOK, CoreOK, HolderOK, Holding, Sleeping, listVars, threadVars
<1> QED
  BY <1>5, <1>6, <1>7, <1>8, <1>9, SMTT(30) DEF Effect

\* Vector 0xF0.
LEMMA ReschedIpiEffect ==
  ASSUME NEW c \in Cores, SchedInv, ReschedIpi(c)
  PROVE  TypeOK' /\ Effect(c)
<1>0. TypeOK /\ LockInv /\ CoreOK(c) /\ HolderOK(c) /\ ListInv
  BY SMTT(30) DEF SchedInv
<1>1. TypeOK'
  BY <1>0, CallsAssumption DEF TypeOK, CoreOK, Points, Contexts, Holding, Sleeping,
      ReschedIpi, EnterIrq, Goto, listVars, threadVars, histVars
<1>2. OthersSame(c) /\ ThreadStep(c) /\ LockStep(c)
  BY <1>0 DEF OthersSame, ThreadStep, LockStep, TypeOK, LockInv, CoreOK, Holding, Sleeping,
      ReschedIpi, EnterIrq, Goto, listVars, threadVars, histVars
<1>3. CurrentStep(c) /\ RunningStep(c)
  BY <1>0, CallsAssumption DEF CurrentStep, RunningStep, TypeOK, CoreOK, Sleeping,
      ReschedIpi, EnterIrq, Goto, listVars, threadVars, histVars
<1>4. ListStep(c)
  BY <1>0, CallsAssumption DEF ListStep, ListInv, HolderOK, Holding, ReschedIpi, EnterIrq,
      Goto, listVars, threadVars, histVars
<1>5. OwnOK(c)'
  BY <1>0, CallsAssumption, ZenonT(60) DEF OwnOK, CoreOK, HolderOK, LockInv, TypeOK, ListInv, Holding,
      Sleeping, ReschedIpi, EnterIrq, Goto, listVars, threadVars, histVars
<1> QED
  BY <1>1, <1>2, <1>3, <1>4, <1>5, SMTT(30) DEF Effect

\* The vector that halts a core.
LEMMA PanicIpiEffect ==
  ASSUME NEW c \in Cores, SchedInv, PanicIpi(c)
  PROVE  TypeOK' /\ Effect(c)
<1>0. TypeOK /\ LockInv /\ CoreOK(c) /\ HolderOK(c) /\ ListInv
  BY SMTT(30) DEF SchedInv
<1>1. TypeOK'
  BY <1>0, CallsAssumption DEF TypeOK, CoreOK, Points, Contexts, Holding, Sleeping,
      PanicIpi, EnterIrq, Goto, listVars, threadVars, histVars
<1>2. OthersSame(c) /\ ThreadStep(c) /\ LockStep(c)
  BY <1>0 DEF OthersSame, ThreadStep, LockStep, TypeOK, LockInv, CoreOK, Holding, Sleeping,
      PanicIpi, EnterIrq, Goto, listVars, threadVars, histVars
<1>3. CurrentStep(c) /\ RunningStep(c)
  BY <1>0, CallsAssumption DEF CurrentStep, RunningStep, TypeOK, CoreOK, Sleeping, PanicIpi,
      EnterIrq, Goto, listVars, threadVars, histVars
<1>4. ListStep(c)
  BY <1>0, CallsAssumption DEF ListStep, ListInv, HolderOK, Holding, PanicIpi, EnterIrq,
      Goto, listVars, threadVars, histVars
<1>5. OwnOK(c)'
  BY <1>0, CallsAssumption DEF OwnOK, CoreOK, HolderOK, LockInv, TypeOK, ListInv, Holding,
      Sleeping, PanicIpi, EnterIrq, Goto, listVars, threadVars, histVars
<1> QED
  BY <1>1, <1>2, <1>3, <1>4, <1>5, SMTT(30) DEF Effect

\* vmm_page_fault terminates the thread it interrupts.
LEMMA PageFaultEffect ==
  ASSUME NEW c \in Cores, SchedInv, PageFault(c)
  PROVE  TypeOK' /\ Effect(c)
<1>0. TypeOK /\ LockInv /\ CoreOK(c) /\ HolderOK(c) /\ ListInv
  BY SMTT(30) DEF SchedInv
<1>1. TypeOK'
  BY <1>0, CallsAssumption DEF TypeOK, CoreOK, Points, Contexts, Holding, Sleeping,
      PageFault, EnterIrq, Goto, ipiVars, listVars, histVars
<1>2. OthersSame(c) /\ ThreadStep(c) /\ LockStep(c)
  BY <1>0, SMTT(30) DEF OthersSame, ThreadStep, LockStep, TypeOK, LockInv, CoreOK, Holding, Sleeping,
      PageFault, EnterIrq, Goto, ipiVars, listVars, histVars
<1>3. CurrentStep(c) /\ RunningStep(c)
  BY <1>0, CallsAssumption DEF CurrentStep, RunningStep, TypeOK, CoreOK, Sleeping,
      PageFault, EnterIrq, Goto, ipiVars, listVars, histVars
<1>4. ListStep(c)
  BY <1>0, CallsAssumption DEF ListStep, ListInv, HolderOK, Holding, PageFault, EnterIrq,
      Goto, ipiVars, listVars, histVars
<1>5. OwnOK(c)'
  <2>1. /\ pc[c] = "code" /\ pc' = [pc EXCEPT ![c] = "resched"]
        /\ irq_regs' = [irq_regs EXCEPT ![c] = on[c]]
        /\ thread_state' = [thread_state EXCEPT ![current_thread[c]] = "TERMINATED"]
        /\ UNCHANGED <<current_thread, boot, arg, upd, thread_list, new_thread, on>>
    BY DEF PageFault, EnterIrq, Goto, listVars
  <2>2. pc \in [Cores -> Points] /\ irq_regs \in [Cores -> Contexts]
        /\ DOMAIN thread_state = Threads /\ current_thread \in [Cores -> Threads \cup {NULL}]
    BY <1>0 DEF TypeOK
  <2>3. pc'[c] = "resched" /\ irq_regs'[c] = irq_regs[c] /\ boot[c] # "init"
    BY <1>0, <2>1, <2>2 DEF CoreOK
  <2>4. current_thread[c] \in Threads => thread_state'[current_thread[c]] = "TERMINATED"
    BY <2>1, <2>2
  <2>5. CoreOK(c)'
    BY <1>0, <2>1, <2>2, <2>3, <2>4 DEF CoreOK, Sleeping
  <2> QED
    BY <2>3, <2>5 DEF OwnOK, HolderOK, Holding
<1> QED
  BY <1>1, <1>2, <1>3, <1>4, <1>5, SMTT(30) DEF Effect

\* The exit system call.
LEMMA ThreadExitEffect ==
  ASSUME NEW c \in Cores, SchedInv, ThreadExit(c)
  PROVE  TypeOK' /\ Effect(c)
<1>0. TypeOK /\ LockInv /\ CoreOK(c) /\ HolderOK(c) /\ ListInv
  BY SMTT(30) DEF SchedInv
<1>1. TypeOK'
  BY <1>0, CallsAssumption, AfterPoints DEF TypeOK, CoreOK, Points, Contexts, Holding,
      Sleeping, ThreadExit, Calling, SaveRegs, EnterIdle, Goto, ipiVars, listVars
<1>2. OthersSame(c) /\ ThreadStep(c) /\ LockStep(c)
  BY <1>0, ZenonT(60) DEF OthersSame, ThreadStep, LockStep, TypeOK, LockInv, CoreOK, Holding, Sleeping,
      ThreadExit, Calling, SaveRegs, EnterIdle, Goto, ipiVars, listVars
<1>3. CurrentStep(c) /\ RunningStep(c)
  BY <1>0, CallsAssumption, AfterPoints, ZenonT(60) DEF CurrentStep, RunningStep, TypeOK, CoreOK,
      Sleeping, ThreadExit, Calling, SaveRegs, EnterIdle, Goto, ipiVars, listVars
<1>4. ListStep(c)
  BY <1>0, CallsAssumption DEF ListStep, ListInv, HolderOK, Holding, ThreadExit, Calling,
      SaveRegs, EnterIdle, Goto, ipiVars, listVars
<1>5. pc'[c] \in {"ipi", "resched", "exit"}
  <2>1. pc \in [Cores -> Points] /\ pc' = [pc EXCEPT ![c] = AfterHandler(c)]
    BY <1>0 DEF TypeOK, ThreadExit, Goto
  <2> QED
    BY <1>0, <2>1, AfterPoints
<1>6. HolderOK(c)'
  BY <1>5 DEF HolderOK, Holding
<1>7. CoreOK(c)'
  BY <1>0, <1>5, CallsAssumption, ZenonT(60) DEF CoreOK, TypeOK, Sleeping, ThreadExit, EnterIdle, listVars
<1>8. OwnOK(c)'
  BY <1>5, <1>6, <1>7 DEF OwnOK, Holding
<1> QED
  BY <1>1, <1>2, <1>3, <1>4, <1>8, SMTT(30) DEF Effect

\* sched_thread_sleep, first write.
LEMMA SleepStateEffect ==
  ASSUME NEW c \in Cores, SchedInv, SleepState(c)
  PROVE  TypeOK' /\ Effect(c)
<1>0. TypeOK /\ LockInv /\ CoreOK(c) /\ HolderOK(c) /\ ListInv
  BY SMTT(30) DEF SchedInv
<1>1. TypeOK'
  <2>1. /\ UNCHANGED <<state, current_thread, need_resched, on, kind, arg, new_thread, boot,
                       ipiVars, sched_lock, listVars, sleep_time, regs, upd, owner>>
        /\ irq_regs' = [irq_regs EXCEPT ![c] = on[c]]
        /\ pc' = [pc EXCEPT ![c] = "sleep_regs"]
        /\ thread_state' = [thread_state EXCEPT ![current_thread[c]] = "SLEEPING"]
        /\ waited' = [waited EXCEPT ![current_thread[c]] = 0]
    BY DEF SleepState, EnterIrq, Goto
  <2>2. irq_regs' \in [Cores -> Contexts] /\ pc' \in [Cores -> Points]
    BY <1>0, <2>1 DEF TypeOK, Points, Sleeping
  <2>3. thread_state' \in [Threads -> {"STOPPED", "RUNNING", "SLEEPING", "TERMINATED"}]
    BY <1>0, <2>1 DEF TypeOK
  <2>4. waited' \in [Threads -> 0 .. SleepPeriods]
    <3>1. waited \in [Threads -> 0 .. SleepPeriods]
      BY <1>0 DEF TypeOK
    <3>2. 0 \in 0 .. SleepPeriods
      BY CallsAssumption, SMTT(30)
    <3> QED
      BY <2>1, <3>1, <3>2
  <2> QED
    BY <1>0, <2>1, <2>2, <2>3, <2>4 DEF TypeOK, ipiVars, listVars
<1>2. OthersSame(c) /\ ThreadStep(c) /\ LockStep(c)
  BY <1>0 DEF OthersSame, ThreadStep, LockStep, TypeOK, LockInv, CoreOK, Holding, Sleeping,
      SleepState, Calling, EnterIrq, Goto, ipiVars, listVars
<1>3. CurrentStep(c) /\ RunningStep(c)
  BY <1>0, CallsAssumption DEF CurrentStep, RunningStep, TypeOK, CoreOK, Sleeping,
      SleepState, Calling, EnterIrq, Goto, ipiVars, listVars
<1>4. ListStep(c)
  BY <1>0, CallsAssumption DEF ListStep, ListInv, HolderOK, Holding, SleepState, Calling,
      EnterIrq, Goto, ipiVars, listVars
<1>5. OwnOK(c)'
  <2>1. pc'[c] = "sleep_regs" /\ irq_regs'[c] = on[c] /\ pc[c] = "code"
    BY <1>0, SMTT(30) DEF TypeOK, SleepState, Calling, EnterIrq, Goto
  <2>2. HolderOK(c)'
    BY <2>1 DEF HolderOK, Holding
  <2>3. UNCHANGED <<current_thread, on, boot, thread_list>> /\ current_thread[c] # NULL
    BY DEF SleepState, listVars
  <2>4. CoreOK(c)'
    BY <1>0, <2>1, <2>3 DEF CoreOK, Sleeping
  <2> QED
    BY <2>1, <2>2, <2>4 DEF OwnOK, Holding
<1> QED
  BY <1>1, <1>2, <1>3, <1>4, <1>5, SMTT(30) DEF Effect

\* sched_thread_sleep, second write.
LEMMA SleepRegsEffect ==
  ASSUME NEW c \in Cores, SchedInv, SleepRegs(c)
  PROVE  TypeOK' /\ Effect(c)
<1>0. TypeOK /\ LockInv /\ CoreOK(c) /\ HolderOK(c) /\ ListInv
  BY SMTT(30) DEF SchedInv
<1>1. TypeOK'
  BY <1>0, CallsAssumption DEF TypeOK, CoreOK, Points, Contexts, Holding, Sleeping,
      SleepRegs, SaveRegs, Goto, coreVars, ipiVars, listVars
<1>2. OthersSame(c) /\ ThreadStep(c) /\ LockStep(c)
  BY <1>0 DEF OthersSame, ThreadStep, LockStep, TypeOK, LockInv, CoreOK, Holding, Sleeping,
      SleepRegs, SaveRegs, Goto, coreVars, ipiVars, listVars
<1>3. CurrentStep(c) /\ RunningStep(c)
  BY <1>0, CallsAssumption DEF CurrentStep, RunningStep, TypeOK, CoreOK, Sleeping,
      SleepRegs, SaveRegs, Goto, coreVars, ipiVars, listVars
<1>4. ListStep(c)
  BY <1>0, CallsAssumption DEF ListStep, ListInv, HolderOK, Holding, SleepRegs, SaveRegs,
      Goto, coreVars, ipiVars, listVars
<1>5. OwnOK(c)'
  <2>1. pc'[c] = "sleep_time" /\ pc[c] = "sleep_regs"
    BY <1>0 DEF TypeOK, SleepRegs, Goto
  <2>2. HolderOK(c)'
    BY <2>1 DEF HolderOK, Holding
  <2>3. UNCHANGED <<coreVars, on, boot, thread_list>>
    BY DEF SleepRegs, listVars
  <2>4. CoreOK(c)'
    BY <1>0, <2>1, <2>3 DEF CoreOK, Sleeping, coreVars
  <2> QED
    BY <2>1, <2>2, <2>4 DEF OwnOK, Holding
<1> QED
  BY <1>1, <1>2, <1>3, <1>4, <1>5, SMTT(30) DEF Effect

\* sched_thread_sleep, last write; the core goes idle.
LEMMA SleepTimeEffect ==
  ASSUME NEW c \in Cores, SchedInv, SleepTime(c)
  PROVE  TypeOK' /\ Effect(c)
<1>0. TypeOK /\ LockInv /\ CoreOK(c) /\ HolderOK(c) /\ ListInv
  BY SMTT(30) DEF SchedInv
<1>1. TypeOK'
  BY <1>0, CallsAssumption, AfterPoints DEF TypeOK, CoreOK, Points, Contexts, Holding,
      Sleeping, SleepTime, EnterIdle, Goto, ipiVars, listVars, histVars
<1>2. OthersSame(c) /\ ThreadStep(c) /\ LockStep(c)
  BY <1>0, ZenonT(60) DEF OthersSame, ThreadStep, LockStep, TypeOK, LockInv, CoreOK, Holding, Sleeping,
      SleepTime, EnterIdle, Goto, ipiVars, listVars, histVars
<1>3. CurrentStep(c) /\ RunningStep(c)
  BY <1>0, CallsAssumption, AfterPoints DEF CurrentStep, RunningStep, TypeOK, CoreOK,
      Sleeping, SleepTime, EnterIdle, Goto, ipiVars, listVars, histVars
<1>4. ListStep(c)
  BY <1>0, CallsAssumption DEF ListStep, ListInv, HolderOK, Holding, SleepTime, EnterIdle,
      Goto, ipiVars, listVars, histVars
<1>5. pc'[c] \in {"ipi", "resched", "exit"}
  <2>1. pc \in [Cores -> Points] /\ pc' = [pc EXCEPT ![c] = AfterHandler(c)]
    BY <1>0, ZenonT(60) DEF TypeOK, SleepTime, Goto
  <2> QED
    BY <1>0, <2>1, AfterPoints, SMTT(30)
<1>6. HolderOK(c)'
  BY <1>5, SMTT(30) DEF HolderOK, Holding
<1>7. CoreOK(c)'
  BY <1>0, <1>5, CallsAssumption DEF CoreOK, TypeOK, Sleeping, SleepTime, EnterIdle, listVars
<1>8. OwnOK(c)'
  BY <1>5, <1>6, <1>7, SMTT(30) DEF OwnOK, Holding
<1> QED
  BY <1>1, <1>2, <1>3, <1>4, <1>8, SMTT(30) DEF Effect

\* _sched_runner finds the lock taken.
LEMMA TryLockBusyEffect ==
  ASSUME NEW c \in Cores, SchedInv, TryLockBusy(c)
  PROVE  TypeOK' /\ Effect(c)
<1>0. TypeOK /\ LockInv /\ CoreOK(c) /\ HolderOK(c) /\ ListInv
  BY SMTT(30) DEF SchedInv
<1>1. TypeOK'
  BY <1>0, CallsAssumption, AfterPoints DEF TypeOK, CoreOK, Points, Contexts, Holding,
      Sleeping, TryLockBusy, Goto, coreVars, ipiVars, listVars, threadVars, histVars
<1>2. OthersSame(c) /\ ThreadStep(c) /\ LockStep(c)
  BY <1>0 DEF OthersSame, ThreadStep, LockStep, TypeOK, LockInv, CoreOK, Holding, Sleeping,
      TryLockBusy, Goto, coreVars, ipiVars, listVars, threadVars, histVars
<1>3. CurrentStep(c) /\ RunningStep(c)
  BY <1>0, CallsAssumption, AfterPoints, ZenonT(60) DEF CurrentStep, RunningStep, TypeOK, CoreOK,
      Sleeping, TryLockBusy, Goto, coreVars, ipiVars, listVars, threadVars, histVars
<1>4. ListStep(c)
  BY <1>0, CallsAssumption DEF ListStep, ListInv, HolderOK, Holding, TryLockBusy, Goto,
      coreVars, ipiVars, listVars, threadVars, histVars
<1>5. pc'[c] \in {"ipi", "resched", "exit"}
  <2>1. pc \in [Cores -> Points] /\ pc' = [pc EXCEPT ![c] = AfterSched(c)]
    BY <1>0 DEF TypeOK, TryLockBusy, Goto
  <2> QED
    BY <1>0, <2>1, AfterPoints
<1>6. HolderOK(c)'
  BY <1>5, SMTT(30) DEF HolderOK, Holding
<1>7. CoreOK(c)'
  BY <1>0, <1>5, CallsAssumption DEF CoreOK, TypeOK, Sleeping, TryLockBusy, coreVars, listVars, threadVars
<1>8. OwnOK(c)'
  BY <1>5, <1>6, <1>7, SMTT(30) DEF OwnOK, Holding
<1> QED
  BY <1>1, <1>2, <1>3, <1>4, <1>8, SMTT(30) DEF Effect

\* _sched finds nothing to switch to.
LEMMA StayEffect ==
  ASSUME NEW c \in Cores, SchedInv, Stay(c)
  PROVE  TypeOK' /\ Effect(c)
<1>0. TypeOK /\ LockInv /\ CoreOK(c) /\ HolderOK(c) /\ ListInv
  BY SMTT(30) DEF SchedInv
<1>1. TypeOK'
  BY <1>0, CallsAssumption, AfterPoints DEF TypeOK, CoreOK, Points, Contexts, Holding,
      Sleeping, Stay, Release, Goto, coreVars, ipiVars, listVars, threadVars, histVars
<1>2. OthersSame(c) /\ ThreadStep(c) /\ LockStep(c)
  BY <1>0 DEF OthersSame, ThreadStep, LockStep, TypeOK, LockInv, CoreOK, Holding, Sleeping,
      Stay, Release, Goto, coreVars, ipiVars, listVars, threadVars, histVars
<1>3. CurrentStep(c) /\ RunningStep(c)
  BY <1>0, CallsAssumption, AfterPoints, ZenonT(60) DEF CurrentStep, RunningStep, TypeOK, CoreOK,
      Sleeping, Stay, Release, Goto, coreVars, ipiVars, listVars, threadVars, histVars
<1>4. ListStep(c)
  BY <1>0, CallsAssumption DEF ListStep, ListInv, HolderOK, Holding, Stay, Release, Goto,
      coreVars, ipiVars, listVars, threadVars, histVars
<1>5. OwnOK(c)'
  <2>1. pc'[c] \in {"ipi", "resched", "exit"}
    <3>1. pc \in [Cores -> Points] /\ pc' = [pc EXCEPT ![c] = AfterSched(c)]
      BY <1>0 DEF TypeOK, Stay, Release, Goto
    <3> QED
      BY <1>0, <3>1, AfterPoints, SMTT(30)
  <2>2. HolderOK(c)'
    BY <2>1, SMTT(30) DEF HolderOK, Holding
  <2>3. /\ UNCHANGED <<irq_regs, current_thread, boot, thread_list, thread_state>>
        /\ pc[c] \notin Sleeping /\ pc[c] \notin {"create", "creating"}
    BY DEF Stay, coreVars, listVars, threadVars, Sleeping
  <2>4. pc'[c] \notin Sleeping
        /\ pc'[c] \notin {"code", "create", "creating", "enqueue", "enqueueing"}
    BY <2>1 DEF Sleeping
  <2>5. CoreOK(c)'
    BY <1>0, <2>3, <2>4 DEF CoreOK
  <2> QED
    BY <2>1, <2>2, <2>5, SMTT(30) DEF OwnOK, Holding
<1> QED
  BY <1>1, <1>2, <1>3, <1>4, <1>5, SMTT(30) DEF Effect

\* _sched leaves the boot code of a core.
LEMMA LeaveBootEffect ==
  ASSUME NEW c \in Cores, SchedInv, LeaveBoot(c)
  PROVE  TypeOK' /\ Effect(c)
<1>0. TypeOK /\ LockInv /\ CoreOK(c) /\ HolderOK(c) /\ ListInv
  BY SMTT(30) DEF SchedInv
<1>1. TypeOK'
  BY <1>0, CallsAssumption, AfterPoints DEF TypeOK, CoreOK, Points, Contexts, Holding,
      Sleeping, LeaveBoot, EnterIdle, Release, Goto, ipiVars, listVars, threadVars, histVars
<1>2. OthersSame(c) /\ ThreadStep(c) /\ LockStep(c)
  BY <1>0 DEF OthersSame, ThreadStep, LockStep, TypeOK, LockInv, CoreOK, Holding, Sleeping,
      LeaveBoot, EnterIdle, Release, Goto, ipiVars, listVars, threadVars, histVars
<1>3. CurrentStep(c) /\ RunningStep(c)
  BY <1>0, CallsAssumption, AfterPoints, ZenonT(60) DEF CurrentStep, RunningStep, TypeOK, CoreOK,
      Sleeping, LeaveBoot, EnterIdle, Release, Goto, ipiVars, listVars, threadVars, histVars
<1>4. ListStep(c)
  BY <1>0, CallsAssumption DEF ListStep, ListInv, HolderOK, Holding, LeaveBoot, EnterIdle,
      Release, Goto, ipiVars, listVars, threadVars, histVars
<1>5. pc'[c] \in {"ipi", "resched", "exit"}
  <2>1. pc \in [Cores -> Points] /\ pc' = [pc EXCEPT ![c] = AfterSched(c)]
    BY <1>0 DEF TypeOK, LeaveBoot, Release, Goto
  <2> QED
    BY <1>0, <2>1, AfterPoints, SMTT(30)
<1>6. HolderOK(c)'
  BY <1>5, SMTT(30) DEF HolderOK, Holding
<1>7. CoreOK(c)'
  BY <1>0, <1>5, CallsAssumption DEF CoreOK, TypeOK, Sleeping, LeaveBoot, EnterIdle, SchedAsserts, listVars, threadVars
<1>8. OwnOK(c)'
  BY <1>5, <1>6, <1>7, SMTT(30) DEF OwnOK, Holding
<1> QED
  BY <1>1, <1>2, <1>3, <1>4, <1>8, SMTT(30) DEF Effect

\* Core 0 sends 0xF0 to the other cores.
LEMMA SendIpiEffect ==
  ASSUME NEW c \in Cores, SchedInv, SendIpi(c)
  PROVE  TypeOK' /\ Effect(c)
<1>0. TypeOK /\ LockInv /\ CoreOK(c) /\ HolderOK(c) /\ ListInv
  BY SMTT(30) DEF SchedInv
<1>1. TypeOK'
  BY <1>0, CallsAssumption, AfterPoints DEF TypeOK, CoreOK, Points, Contexts, Holding,
      Sleeping, SendIpi, Goto, coreVars, listVars, threadVars, histVars
<1>2. OthersSame(c) /\ ThreadStep(c) /\ LockStep(c)
  BY <1>0 DEF OthersSame, ThreadStep, LockStep, TypeOK, LockInv, CoreOK, Holding, Sleeping,
      SendIpi, Goto, coreVars, listVars, threadVars, histVars
<1>3. CurrentStep(c) /\ RunningStep(c)
  BY <1>0, CallsAssumption, AfterPoints, ZenonT(60) DEF CurrentStep, RunningStep, TypeOK, CoreOK,
      Sleeping, SendIpi, Goto, coreVars, listVars, threadVars, histVars
<1>4. ListStep(c)
  BY <1>0, CallsAssumption DEF ListStep, ListInv, HolderOK, Holding, SendIpi, Goto,
      coreVars, listVars, threadVars, histVars
<1>5. pc'[c] \in {"ipi", "resched", "exit"}
  <2>1. pc \in [Cores -> Points] /\ pc' = [pc EXCEPT ![c] = AfterHandler(c)]
    BY <1>0 DEF TypeOK, SendIpi, Goto
  <2> QED
    BY <1>0, <2>1, AfterPoints, SMTT(30)
<1>6. HolderOK(c)'
  BY <1>5, SMTT(30) DEF HolderOK, Holding
<1>7. CoreOK(c)'
  BY <1>0, <1>5, CallsAssumption DEF CoreOK, TypeOK, Sleeping, SendIpi, coreVars, listVars, threadVars
<1>8. OwnOK(c)'
  BY <1>5, <1>6, <1>7, SMTT(30) DEF OwnOK, Holding
<1> QED
  BY <1>1, <1>2, <1>3, <1>4, <1>8, SMTT(30) DEF Effect

\* isr_handler reschedules.
LEMMA ReschedEffect ==
  ASSUME NEW c \in Cores, SchedInv, Resched(c)
  PROVE  TypeOK' /\ Effect(c)
<1>0. TypeOK /\ LockInv /\ CoreOK(c) /\ HolderOK(c) /\ ListInv
  BY SMTT(30) DEF SchedInv
<1>1. TypeOK'
  BY <1>0, CallsAssumption DEF TypeOK, CoreOK, Points, Contexts, Holding, Sleeping, Resched,
      Goto, coreVars, ipiVars, listVars, threadVars, histVars
<1>2. OthersSame(c) /\ ThreadStep(c) /\ LockStep(c)
  BY <1>0 DEF OthersSame, ThreadStep, LockStep, TypeOK, LockInv, CoreOK, Holding, Sleeping,
      Resched, Goto, coreVars, ipiVars, listVars, threadVars, histVars
<1>3. CurrentStep(c) /\ RunningStep(c)
  BY <1>0, CallsAssumption DEF CurrentStep, RunningStep, TypeOK, CoreOK, Sleeping, Resched,
      Goto, coreVars, ipiVars, listVars, threadVars, histVars
<1>4. ListStep(c)
  BY <1>0, CallsAssumption DEF ListStep, ListInv, HolderOK, Holding, Resched, Goto,
      coreVars, ipiVars, listVars, threadVars, histVars
<1>5. OwnOK(c)'
  BY <1>0, CallsAssumption DEF OwnOK, CoreOK, HolderOK, LockInv, TypeOK, ListInv, Holding,
      Sleeping, Resched, Goto, coreVars, ipiVars, listVars, threadVars, histVars
<1> QED
  BY <1>1, <1>2, <1>3, <1>4, <1>5, SMTT(30) DEF Effect

\* isr_handler returns to the frame irq_regs names.
LEMMA ExitIrqEffect ==
  ASSUME NEW c \in Cores, SchedInv, ExitIrq(c)
  PROVE  TypeOK' /\ Effect(c)
<1>0. TypeOK /\ LockInv /\ CoreOK(c) /\ HolderOK(c) /\ ListInv
  BY SMTT(30) DEF SchedInv
<1>1. TypeOK'
  BY <1>0, CallsAssumption DEF TypeOK, CoreOK, Points, Contexts, Holding, Sleeping, ExitIrq,
      Goto, coreVars, ipiVars, listVars, threadVars, histVars
<1>2. OthersSame(c) /\ ThreadStep(c) /\ LockStep(c)
  BY <1>0, SMTT(30) DEF OthersSame, ThreadStep, LockStep, TypeOK, LockInv, CoreOK, Holding, Sleeping,
      ExitIrq, Goto, coreVars, ipiVars, listVars, threadVars, histVars
<1>3. CurrentStep(c) /\ RunningStep(c)
  BY <1>0, CallsAssumption DEF CurrentStep, RunningStep, TypeOK, CoreOK, Sleeping, ExitIrq,
      Goto, coreVars, ipiVars, listVars, threadVars, histVars
<1>4. ListStep(c)
  BY <1>0, CallsAssumption DEF ListStep, ListInv, HolderOK, Holding, ExitIrq, Goto,
      coreVars, ipiVars, listVars, threadVars, histVars
<1>5. OwnOK(c)'
  BY <1>0, CallsAssumption, ZenonT(60) DEF OwnOK, CoreOK, HolderOK, LockInv, TypeOK, ListInv, Holding,
      Sleeping, ExitIrq, Goto, coreVars, ipiVars, listVars, threadVars, histVars
<1> QED
  BY <1>1, <1>2, <1>3, <1>4, <1>5, SMTT(30) DEF Effect

\* thread_create takes the lock.
LEMMA LockCreateEffect ==
  ASSUME NEW c \in Cores, SchedInv, LockCreate(c)
  PROVE  TypeOK' /\ Effect(c)
<1>0. TypeOK /\ LockInv /\ CoreOK(c) /\ HolderOK(c) /\ ListInv
  BY SMTT(30) DEF SchedInv
<1>1. TypeOK'
  BY <1>0, CallsAssumption DEF TypeOK, CoreOK, Points, Contexts, Holding, Sleeping,
      LockCreate, Goto, coreVars, ipiVars, listVars, threadVars, histVars
<1>2. OthersSame(c) /\ ThreadStep(c) /\ LockStep(c)
  BY <1>0 DEF OthersSame, ThreadStep, LockStep, TypeOK, LockInv, CoreOK, Holding, Sleeping,
      LockCreate, Goto, coreVars, ipiVars, listVars, threadVars, histVars
<1>3. CurrentStep(c) /\ RunningStep(c)
  BY <1>0, CallsAssumption DEF CurrentStep, RunningStep, TypeOK, CoreOK, Sleeping,
      LockCreate, Goto, coreVars, ipiVars, listVars, threadVars, histVars
<1>4. ListStep(c)
  BY <1>0, CallsAssumption DEF ListStep, ListInv, HolderOK, Holding, LockCreate, Goto,
      coreVars, ipiVars, listVars, threadVars, histVars
<1>5. OwnOK(c)'
  BY <1>0, CallsAssumption, ZenonT(60) DEF OwnOK, CoreOK, HolderOK, LockInv, TypeOK, ListInv, Holding,
      Sleeping, LockCreate, Goto, coreVars, ipiVars, listVars, threadVars, histVars
<1> QED
  BY <1>1, <1>2, <1>3, <1>4, <1>5, SMTT(30) DEF Effect

\* sched_run_proc takes the lock.
LEMMA LockEnqueueEffect ==
  ASSUME NEW c \in Cores, SchedInv, LockEnqueue(c)
  PROVE  TypeOK' /\ Effect(c)
<1>0. TypeOK /\ LockInv /\ CoreOK(c) /\ HolderOK(c) /\ ListInv
  BY SMTT(30) DEF SchedInv
<1>1. TypeOK'
  BY <1>0, CallsAssumption DEF TypeOK, CoreOK, Points, Contexts, Holding, Sleeping,
      LockEnqueue, Goto, coreVars, ipiVars, listVars, threadVars, histVars
<1>2. OthersSame(c) /\ ThreadStep(c) /\ LockStep(c)
  BY <1>0 DEF OthersSame, ThreadStep, LockStep, TypeOK, LockInv, CoreOK, Holding, Sleeping,
      LockEnqueue, Goto, coreVars, ipiVars, listVars, threadVars, histVars
<1>3. CurrentStep(c) /\ RunningStep(c)
  BY <1>0, CallsAssumption DEF CurrentStep, RunningStep, TypeOK, CoreOK, Sleeping,
      LockEnqueue, Goto, coreVars, ipiVars, listVars, threadVars, histVars
<1>4. ListStep(c)
  BY <1>0, CallsAssumption DEF ListStep, ListInv, HolderOK, Holding, LockEnqueue, Goto,
      coreVars, ipiVars, listVars, threadVars, histVars
<1>5. OwnOK(c)'
  BY <1>0, CallsAssumption, ZenonT(60) DEF OwnOK, CoreOK, HolderOK, LockInv, TypeOK, ListInv, Holding,
      Sleeping, LockEnqueue, Goto, coreVars, ipiVars, listVars, threadVars, histVars
<1> QED
  BY <1>1, <1>2, <1>3, <1>4, <1>5, SMTT(30) DEF Effect

\* A failed assertion panics.
LEMMA AssertFailsEffect ==
  ASSUME NEW c \in Cores, SchedInv, AssertFails(c)
  PROVE  TypeOK' /\ Effect(c)
<1>0. TypeOK /\ LockInv /\ CoreOK(c) /\ HolderOK(c) /\ ListInv
  BY SMTT(30) DEF SchedInv
<1>1. TypeOK'
  BY <1>0, CallsAssumption DEF TypeOK, CoreOK, Points, Contexts, Holding, Sleeping,
      AssertFails, Panic, Goto, coreVars, listVars, threadVars, histVars
<1>2. OthersSame(c) /\ ThreadStep(c) /\ LockStep(c)
  BY <1>0 DEF OthersSame, ThreadStep, LockStep, TypeOK, LockInv, CoreOK, Holding, Sleeping,
      AssertFails, Panic, Goto, coreVars, listVars, threadVars, histVars
<1>3. CurrentStep(c) /\ RunningStep(c)
  BY <1>0, CallsAssumption DEF CurrentStep, RunningStep, TypeOK, CoreOK, Sleeping,
      AssertFails, Panic, Goto, coreVars, listVars, threadVars, histVars
<1>4. ListStep(c)
  BY <1>0, CallsAssumption DEF ListStep, ListInv, HolderOK, Holding, AssertFails, Panic,
      Goto, coreVars, listVars, threadVars, histVars
<1>5. OwnOK(c)'
  BY ZenonT(40), <1>0, CallsAssumption DEF OwnOK, CoreOK, HolderOK, LockInv, TypeOK, ListInv, Holding,
      Sleeping, AssertFails, Panic, Goto, coreVars, listVars, threadVars, histVars
<1> QED
  BY <1>1, <1>2, <1>3, <1>4, <1>5, SMTT(30) DEF Effect

-----------------------------------------------------------------------------
(* The invariant.                                                          *)

\* Every step is a step of some core with such an effect.
LEMMA StepEffect ==
  ASSUME NEW c \in Cores, SchedInv, Step(c) \/ Event(c)
  PROVE  TypeOK' /\ Effect(c)
<1>1. CASE Step(c)
  BY <1>1, SleepRegsEffect, SleepTimeEffect, TryLockTakenEffect, TryLockBusyEffect, UpdateReadEffect,
     UpdateWriteEffect, PickEffect, SwitchEffect, DispatchEffect, StayEffect, LeaveBootEffect, SendIpiEffect,
     ReschedEffect, ExitIrqEffect, SpawnEffect, LockCreateEffect, LockEnqueueEffect, CreateIdleEffect,
     CreateThreadEffect, RunProcEffect, AssertFailsEffect
  DEF Step
<1>2. CASE Event(c)
  BY <1>2, TimerEffect, ReschedIpiEffect, PanicIpiEffect, PageFaultEffect, YieldEffect, ThreadExitEffect,
     SleepStateEffect, SpawnEffect
  DEF Event
<1> QED
  BY <1>1, <1>2

\* The invariant holds when the cores start.
LEMMA InitInv == Init => SchedInv
<1> SUFFICES ASSUME Init PROVE SchedInv
  OBVIOUS
<1>1. Range(ThreadsOf[kernel_proc]) \subseteq Threads
  BY ProcsAssumption, SMTT(30) DEF Range
<1>2. TypeOK
  BY <1>1, CallsAssumption, SMTT(30) DEF Init, TypeOK, Points, Contexts
<1>3. LockInv /\ ExclusiveDispatch /\ RunningInv
  BY DEF Init, LockInv, ExclusiveDispatch, RunningInv, Holding
<1>4. \A c \in Cores : CoreOK(c) /\ HolderOK(c)
  BY CallsAssumption DEF Init, CoreOK, HolderOK, Holding, Sleeping
<1>5. ListInv
  BY SMTT(30) DEF Init, ListInv, Range
<1> QED
  BY <1>2, <1>3, <1>4, <1>5 DEF SchedInv

\* A stuttering step preserves the invariant.
LEMMA StutterInv ==
  ASSUME SchedInv, UNCHANGED vars
  PROVE  SchedInv'
<1>1. UNCHANGED <<coreVars, ctrlVars, ipiVars, sched_lock, listVars, threadVars, upd, histVars>>
  BY DEF vars
<1>2. TypeOK' /\ LockInv'
  BY <1>1 DEF SchedInv, TypeOK, LockInv, coreVars, ctrlVars, ipiVars, listVars, threadVars, histVars
<1>3. ExclusiveDispatch' /\ RunningInv' /\ ListInv'
  BY <1>1 DEF SchedInv, ExclusiveDispatch, RunningInv, ListInv, coreVars, ctrlVars, listVars, threadVars
<1>4. ASSUME NEW c \in Cores PROVE CoreOK(c)' /\ HolderOK(c)'
  BY <1>1 DEF SchedInv, CoreOK, HolderOK, coreVars, ctrlVars, listVars, threadVars
<1> QED
  BY <1>2, <1>3, <1>4 DEF SchedInv

\* The inductive invariant holds for any number of cores, any threads and any
\* processes, whatever system calls and page faults the threads make.
THEOREM Invariant == Spec => []SchedInv
<1>1. SchedInv /\ [Next]_vars => SchedInv'
  BY StepEffect, EffectInv, StutterInv DEF Next
<1> QED
  BY InitInv, <1>1, PTL DEF Spec

\* Every variable keeps its type: in particular sleep_time never wraps below
\* zero and the loop of update_sleeping_threads stays within thread_list.
THEOREM TypeCorrect == Spec => []TypeOK
<1>1. SchedInv => TypeOK
  BY DEF SchedInv
<1> QED
  BY Invariant, <1>1, PTL

\* _sched never has one thread on two cores.
THEOREM Exclusive == Spec => []ExclusiveDispatch
<1>1. SchedInv => ExclusiveDispatch
  BY DEF SchedInv
<1> QED
  BY Invariant, <1>1, PTL

\* The lock protects every critical section of sched.c and thread_create.
THEOREM MutualExclusion ==
  Spec => [](\A c, d \in Cores : pc[c] \in Holding /\ pc[d] \in Holding => c = d)
<1>1. SchedInv => (\A c, d \in Cores : pc[c] \in Holding /\ pc[d] \in Holding => c = d)
  BY DEF SchedInv, LockInv
<1> QED
  BY Invariant, <1>1, PTL
=============================================================================
