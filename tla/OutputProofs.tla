----------------------------- MODULE OutputProofs -----------------------------
(***************************************************************************)
(* The spin locks of lock_asm.s keep the messages of ser_printf and of     *)
(* kprintf apart, for any number of cores, calls and nested warnings.  A   *)
(* handler deadlocks with its own core only after another core has used    *)
(* the windows during its walk, and without that some call always moves.   *)
(***************************************************************************)
EXTENDS Output, SequenceTheorems, TLAPS

USE ZenonT(30)

\* What an activation may be after a step that prints nothing.
Silent(c, l) ==
    /\ act \in [Cores -> [Levels -> Acts]] /\ act' \in [Cores -> [Levels -> Acts]]
    /\ \A d \in Cores, m \in Levels : d # c \/ m # l => act'[d][m] = act[d][m]
    /\ act[c][l].pc # "print" /\ act'[c][l].pc # "print"
    /\ act'[c][l].pc = "lock" => act'[c][l].lock \in Locks
    /\ dat' = dat

\* A step outside the locks leaves the invariant as it was.
LEMMA SilentKeeps ==
    ASSUME TypeOK, Exclusive, NEW c \in Cores, NEW l \in Levels, Silent(c, l),
           panicked' = panicked
    PROVE  TypeOK' /\ Exclusive'
<1>1. \A d \in Cores, m \in Levels, k \in Locks : Printing(d, m, k)' = Printing(d, m, k)
  BY DEF Silent, Printing
<1>2. TypeOK'
  <2>1. dat' \in [Locks -> BOOLEAN]
    BY DEF Silent, TypeOK
  <2>2. act' \in [Cores -> [Levels -> Acts]]
    BY DEF Silent
  <2>3. ASSUME NEW d \in Cores, NEW m \in Levels, act'[d][m].pc \in {"lock", "print"}
        PROVE  act'[d][m].lock \in Locks
    <3>1. CASE d = c /\ m = l
      BY <2>3, <3>1 DEF Silent
    <3>2. CASE d # c \/ m # l
      <4>1. act'[d][m] = act[d][m]
        BY <3>2 DEF Silent
      <4> QED
        BY <2>3, <4>1 DEF TypeOK
    <3> QED
      BY <3>1, <3>2
  <2> QED
    BY <2>1, <2>2, <2>3 DEF TypeOK
<1>3. \A k \in Locks : Held(k)' <=> Held(k)
  BY <1>1 DEF Held
<1>4. \A k \in Locks : dat'[k] <=> dat[k]
  BY DEF Silent
<1>5. Exclusive'
  BY <1>1, <1>3, <1>4, SMTT(30) DEF Exclusive
<1> QED
  BY <1>2, <1>5

\* One activation is replaced by another that does not print.
LEMMA GotoSilent ==
    ASSUME TypeOK, NEW c \in Cores, NEW l \in Levels, NEW a \in Acts,
           act' = [act EXCEPT ![c][l] = a], dat' = dat,
           act[c][l].pc # "print", a.pc # "print", a.pc = "lock" => a.lock \in Locks
    PROVE  Silent(c, l)
  BY DEF Silent, TypeOK

\* A step that only moves on, to anywhere but a lock.
LEMMA GotoKeeps ==
    ASSUME TypeOK, Exclusive, NEW c \in Cores, NEW l \in Levels, NEW pc \in PCs,
           act[c][l].pc # "print", pc \notin {"lock", "print"}, Goto(c, l, pc),
           dat' = dat, panicked' = panicked
    PROVE  TypeOK' /\ Exclusive'
<1> DEFINE a == [act[c][l] EXCEPT !.pc = pc]
<1>1. a \in Acts /\ a.pc = pc /\ act' = [act EXCEPT ![c][l] = a]
  <2>1. act \in [Cores -> [Levels -> Acts]]
    BY DEF TypeOK
  <2>2. a \in Acts /\ a.pc = pc
    <3>1. act[c][l] \in Acts
      BY <2>1
    <3> QED
      BY <3>1 DEF Acts
  <2>3. act' = [act EXCEPT ![c][l].pc = pc]
    BY DEF Goto
  <2>4. act' = [act EXCEPT ![c][l] = a]
    BY <2>1, <2>3
  <2> QED
    BY <2>2, <2>4
<1>2. Silent(c, l)
  BY <1>1, GotoSilent
<1> QED
  BY <1>2, SilentKeeps

\* What a sequence that is not empty, and a longer one, consist of.
LEMMA Sequence ==
    ASSUME NEW S, NEW s \in Seq(S)
    PROVE  /\ s # <<>> => Head(s) \in S /\ Tail(s) \in Seq(S)
           /\ s # <<>> => s[1] = Head(s) /\ 1 \in DOMAIN s
           /\ \A x \in S : <<x>> \o s \in Seq(S)
           /\ s # <<>> => \A x \in S : [s EXCEPT ![1] = x] \in Seq(S)
<1>1. s # <<>> => Head(s) \in S /\ Tail(s) \in Seq(S)
  BY SMTT(30)
<1>2. s # <<>> => s[1] = Head(s) /\ 1 \in DOMAIN s
  BY SMTT(30)
<1>3. ASSUME NEW x \in S PROVE <<x>> \o s \in Seq(S)
  <2>1. <<x>> \in Seq(S)
    BY SMTT(30)
  <2> QED
    BY <2>1, SMTT(30)
<1>4. ASSUME s # <<>>, NEW x \in S PROVE [s EXCEPT ![1] = x] \in Seq(S)
  <2>1. 1 \in 1 .. Len(s)
    BY <1>4, SMTT(30)
  <2> QED
    BY <2>1, ExceptSeq
<1> QED
  BY <1>1, <1>2, <1>3, <1>4

\* An activation that was given back its caller's state is one.
LEMMA ReturnType ==
    ASSUME NEW a \in Acts, a.outer # <<>>
    PROVE  /\ Head(a.outer) \in [lock : Locks, more : Nat]
           /\ [a EXCEPT !.pc = "lock", !.lock = Head(a.outer).lock, !.outer = Tail(a.outer)] \in Acts
           /\ Head(a.outer).more > 0 =>
                  [a EXCEPT !.pc = "open_dir", !.outer[1].more = @ - 1] \in Acts
<1>1. a.outer \in Seq([lock : Locks, more : Nat])
  BY DEF Acts
<1>2. /\ Head(a.outer) \in [lock : Locks, more : Nat]
      /\ Tail(a.outer) \in Seq([lock : Locks, more : Nat])
      /\ a.outer[1] = Head(a.outer) /\ 1 \in DOMAIN a.outer
  BY <1>1, Sequence
<1>3. [a EXCEPT !.pc = "lock", !.lock = Head(a.outer).lock, !.outer = Tail(a.outer)] \in Acts
  BY <1>2 DEF Acts, PCs
<1>4. ASSUME Head(a.outer).more > 0
      PROVE  [a EXCEPT !.pc = "open_dir", !.outer[1].more = @ - 1] \in Acts
  <2> DEFINE h == [Head(a.outer) EXCEPT !.more = @ - 1]
             o == [a.outer EXCEPT ![1] = h]
  <2>1. h \in [lock : Locks, more : Nat]
    BY <1>2, <1>4, SMTT(30)
  <2>2. o \in Seq([lock : Locks, more : Nat])
    BY <1>1, <2>1, Sequence
  <2>3. [a EXCEPT !.pc = "open_dir", !.outer[1].more = @ - 1]
          = [a EXCEPT !.pc = "open_dir", !.outer = o]
    BY <1>1, <1>2 DEF Acts
  <2> QED
    BY <2>2, <2>3 DEF Acts, PCs
<1> QED
  BY <1>2, <1>3, <1>4

\* Every step that neither takes nor gives back a lock keeps the invariant.
LEMMA WalkKeeps ==
    ASSUME TypeOK, Exclusive, NEW c \in Cores, NEW l \in Levels,
           \/ open_dir(c, l) \/ read_dir(c, l) \/ open_table(c, l) \/ read_table(c, l)
           \/ close_table(c, l) \/ close_dir(c, l) \/ deadlock(c, l)
    PROVE  TypeOK' /\ Exclusive'
<1> act[c][l] \in Acts
  BY DEF TypeOK
<1>1. CASE open_dir(c, l)
  BY <1>1, GotoKeeps DEF open_dir, At, PCs, Walking
<1>2. CASE open_table(c, l)
  BY <1>2, GotoKeeps DEF open_table, At, PCs, Walking
<1>3. CASE close_table(c, l)
  BY <1>3, GotoKeeps DEF close_table, At, PCs, Walking
<1>4. CASE read_dir(c, l)
  <2> DEFINE pc == IF Seen(c, "dir") = "self" THEN "close_table" ELSE "open_table"
             a == [act[c][l] EXCEPT !.pc = pc, !.mapped = FALSE]
  <2>1. act' = [act EXCEPT ![c][l] = a] /\ dat' = dat /\ panicked' = panicked
    <3>1. act' = [act EXCEPT ![c][l].pc = pc, ![c][l].mapped = FALSE]
      BY <1>4 DEF read_dir
    <3>2. dat' = dat /\ panicked' = panicked
      BY <1>4 DEF read_dir
    <3>3. act \in [Cores -> [Levels -> Acts]]
      BY DEF TypeOK
    <3> HIDE DEF pc
    <3>4. act' = [act EXCEPT ![c][l] = a]
      BY <3>1, <3>3
    <3> QED
      BY <3>2, <3>4
  <2>2. a \in Acts /\ a.pc \notin {"lock", "print"} /\ act[c][l].pc # "print"
    BY <1>4 DEF read_dir, At, Acts, PCs, Walking
  <2> QED
    BY <2>1, <2>2, GotoSilent, SilentKeeps
<1>5. CASE read_table(c, l)
  <2>1. PICK found \in BOOLEAN :
            act' = [act EXCEPT ![c][l].pc = "close_table", ![c][l].mapped = found]
    BY <1>5 DEF read_table
  <2> DEFINE a == [act[c][l] EXCEPT !.pc = "close_table", !.mapped = found]
  <2>2. act' = [act EXCEPT ![c][l] = a]
    BY <2>1 DEF TypeOK
  <2>3. dat' = dat /\ panicked' = panicked
    BY <1>5 DEF read_table
  <2>4. a \in Acts /\ a.pc \notin {"lock", "print"} /\ act[c][l].pc # "print"
    BY <1>5 DEF read_table, At, Acts, PCs, Walking
  <2> QED
    BY <2>2, <2>3, <2>4, GotoSilent, SilentKeeps
<1>6. CASE close_dir(c, l)
  <2> DEFINE a == [act[c][l] EXCEPT !.pc = "lock", !.lock = Chosen(c, l)]
  <2>1. act' = [act EXCEPT ![c][l] = a] /\ dat' = dat /\ panicked' = panicked
    <3>1. act' = [act EXCEPT ![c][l].pc = "lock", ![c][l].lock = Chosen(c, l)]
      BY <1>6 DEF close_dir
    <3>2. dat' = dat /\ panicked' = panicked
      BY <1>6 DEF close_dir
    <3>3. act \in [Cores -> [Levels -> Acts]]
      BY SMTT(30) DEF TypeOK
    <3>4. act' = [act EXCEPT ![c][l] = a]
      BY <3>1, <3>3
    <3> QED
      BY <3>2, <3>4
  <2>2. Chosen(c, l) \in Locks
    BY DEF Chosen, Locks
  <2>3. a \in Acts /\ a.pc = "lock" /\ a.lock \in Locks /\ act[c][l].pc # "print"
    BY <1>6, <2>2 DEF close_dir, At, Acts, PCs
  <2> QED
    BY <2>1, <2>3, GotoSilent, SilentKeeps
<1>7. CASE deadlock(c, l)
  <2> DEFINE o == <<[lock |-> act[c][l].lock, more |-> 1]>> \o act[c][l].outer
             a == [act[c][l] EXCEPT !.pc = "open_dir", !.outer = o]
  <2>1. act' = [act EXCEPT ![c][l] = a] /\ dat' = dat /\ panicked' = panicked
    <3>1. act' = [act EXCEPT ![c][l].pc = "open_dir", ![c][l].outer = o]
      BY <1>7 DEF deadlock
    <3>2. dat' = dat /\ panicked' = panicked
      BY <1>7 DEF deadlock
    <3>3. act \in [Cores -> [Levels -> Acts]]
      BY SMTT(30) DEF TypeOK
    <3> HIDE DEF o
    <3>4. act' = [act EXCEPT ![c][l] = a]
      BY <3>1, <3>3
    <3> QED
      BY <3>2, <3>4
  <2>2. act[c][l].lock \in Locks
    BY <1>7 DEF deadlock, At, TypeOK
  <2>3. o \in Seq([lock : Locks, more : Nat])
    BY <2>2, Sequence DEF Acts
  <2>4. a \in Acts /\ a.pc \notin {"lock", "print"} /\ act[c][l].pc # "print"
    BY <1>7, <2>3 DEF deadlock, At, Acts, PCs
  <2> QED
    BY <2>1, <2>4, GotoSilent, SilentKeeps
<1> QED
  BY <1>1, <1>2, <1>3, <1>4, <1>5, <1>6, <1>7

\* Taking a lock that is free, whose bit no call has set.
LEMMA LockKeeps ==
    ASSUME TypeOK, Exclusive, NEW c \in Cores, NEW l \in Levels, spinlock_lock(c, l)
    PROVE  TypeOK' /\ Exclusive'
<1> DEFINE lk == act[c][l].lock
           a == [act[c][l] EXCEPT !.pc = "print"]
<1>1. act[c][l] \in Acts /\ lk \in Locks /\ act[c][l].pc = "lock"
  BY DEF spinlock_lock, At, TypeOK
<1>2. a \in Acts /\ a.pc = "print" /\ a.lock = lk /\ act' = [act EXCEPT ![c][l] = a]
  <2>1. a \in Acts /\ a.pc = "print" /\ a.lock = lk
    BY <1>1 DEF Acts, PCs
  <2>2. act' = [act EXCEPT ![c][l].pc = "print"]
    BY DEF spinlock_lock, Goto
  <2>3. act \in [Cores -> [Levels -> Acts]]
    BY DEF TypeOK
  <2>4. act' = [act EXCEPT ![c][l] = a]
    BY <2>2, <2>3
  <2> QED
    BY <2>1, <2>4
<1> HIDE DEF a
<1>3. \A d \in Cores, m \in Levels :
          act'[d][m] = IF d = c /\ m = l THEN a ELSE act[d][m]
  BY <1>2 DEF TypeOK
<1>4. dat' = [dat EXCEPT ![lk] = TRUE] /\ ~dat[lk] /\ panicked' = panicked
  BY DEF spinlock_lock
<1>5. TypeOK'
  <2>1. dat' \in [Locks -> BOOLEAN]
    BY <1>1, <1>4 DEF TypeOK
  <2>2. act' \in [Cores -> [Levels -> Acts]]
    BY <1>2 DEF TypeOK
  <2>3. ASSUME NEW d \in Cores, NEW m \in Levels, act'[d][m].pc \in {"lock", "print"}
        PROVE  act'[d][m].lock \in Locks
    <3>1. CASE d = c /\ m = l
      BY <1>1, <1>2, <1>3, <2>3, <3>1, SMTT(30)
    <3>2. CASE ~(d = c /\ m = l)
      <4>1. act'[d][m] = act[d][m]
        BY <1>3, <3>2
      <4> QED
        BY <2>3, <4>1 DEF TypeOK
    <3> QED
      BY <3>1, <3>2
  <2> QED
    BY <2>1, <2>2, <2>3 DEF TypeOK
<1>6. \A d \in Cores, m \in Levels, k \in Locks :
          Printing(d, m, k)' <=> Printing(d, m, k) \/ (d = c /\ m = l /\ k = lk)
  BY <1>1, <1>2, <1>3, SMTT(30) DEF Printing
<1>7. \A k \in Locks : Held(k)' <=> Held(k) \/ k = lk
  BY <1>1, <1>6 DEF Held
<1>8. \A k \in Locks : dat'[k] <=> dat[k] \/ k = lk
  BY <1>1, <1>4 DEF TypeOK
<1>9. panicked = {} => \A d \in Cores, m \in Levels : ~Printing(d, m, lk)
  BY <1>1, <1>4 DEF Exclusive, Held
<1>10. Exclusive'
  <2> SUFFICES ASSUME panicked' = {}
               PROVE  /\ \A k \in Locks : dat'[k] <=> Held(k)'
                      /\ \A k \in Locks, d, e \in Cores : \A m, n \in Levels :
                             Printing(d, m, k)' /\ Printing(e, n, k)' => d = e /\ m = n
    BY DEF Exclusive
  <2>1. \A k \in Locks : dat'[k] <=> Held(k)'
    BY <1>4, <1>7, <1>8 DEF Exclusive
  <2>2. ASSUME NEW k \in Locks, NEW d \in Cores, NEW e \in Cores,
               NEW m \in Levels, NEW n \in Levels, Printing(d, m, k)', Printing(e, n, k)'
        PROVE  d = e /\ m = n
    BY <1>4, <1>6, <1>9, <2>2, SMTT(30) DEF Exclusive
  <2> QED
    BY <2>1, <2>2
<1> QED
  BY <1>5, <1>10

\* Giving back the lock of the one call that prints under it.
LEMMA UnlockKeeps ==
    ASSUME TypeOK, Exclusive, NEW c \in Cores, NEW l \in Levels, spinlock_unlock(c, l)
    PROVE  TypeOK' /\ Exclusive'
<1> DEFINE b == act[c][l]
           lk == b.lock
           a == Returned(b)
<1>1. b \in Acts /\ lk \in Locks /\ b.pc = "print"
  BY DEF spinlock_unlock, At, TypeOK
<1>2. act' = [act EXCEPT ![c][l] = a]
  BY DEF spinlock_unlock
<1>3. /\ a \in Acts /\ a.pc # "print"
      /\ a.pc = "lock" => a.lock \in Locks
  <2>1. Idle \in Acts /\ Idle.pc = "idle"
    BY SMTT(30) DEF Idle, Acts, PCs
  <2>2. CASE b.outer # <<>> /\ Head(b.outer).more > 0
    <3>1. a = [b EXCEPT !.pc = "open_dir", !.outer[1].more = @ - 1]
      BY <2>2 DEF Returned
    <3>2. a.pc = "open_dir"
      BY <1>1, <3>1 DEF Acts
    <3> QED
      BY <1>1, <2>2, <3>1, <3>2, ReturnType
  <2>3. CASE b.outer # <<>> /\ ~(Head(b.outer).more > 0)
    <3>1. a = [b EXCEPT !.pc = "lock", !.lock = Head(b.outer).lock, !.outer = Tail(b.outer)]
      BY <2>3 DEF Returned
    <3>2. a.pc = "lock" /\ a.lock = Head(b.outer).lock
      BY <1>1, <3>1 DEF Acts
    <3> QED
      BY <1>1, <2>3, <3>1, <3>2, ReturnType
  <2> QED
    BY <2>1, <2>2, <2>3 DEF Returned
<1> HIDE DEF a
<1>4. \A d \in Cores, m \in Levels :
          act'[d][m] = IF d = c /\ m = l THEN a ELSE act[d][m]
  BY <1>2 DEF TypeOK
<1>5. dat' = [dat EXCEPT ![lk] = FALSE] /\ panicked' = panicked
  BY DEF spinlock_unlock
<1>6. TypeOK'
  <2>1. dat' \in [Locks -> BOOLEAN]
    BY <1>1, <1>5 DEF TypeOK
  <2>2. act' \in [Cores -> [Levels -> Acts]]
    BY <1>2, <1>3 DEF TypeOK
  <2>3. ASSUME NEW d \in Cores, NEW m \in Levels, act'[d][m].pc \in {"lock", "print"}
        PROVE  act'[d][m].lock \in Locks
    <3>1. CASE d = c /\ m = l
      BY <1>3, <1>4, <2>3, <3>1
    <3>2. CASE ~(d = c /\ m = l)
      <4>1. act'[d][m] = act[d][m]
        BY <1>4, <3>2, SMTT(30)
      <4> QED
        BY <2>3, <4>1, SMTT(30) DEF TypeOK
    <3> QED
      BY <3>1, <3>2, SMTT(30)
  <2> QED
    BY <2>1, <2>2, <2>3, SMTT(30) DEF TypeOK
<1>7. \A d \in Cores, m \in Levels, k \in Locks :
          Printing(d, m, k)' <=> Printing(d, m, k) /\ ~(d = c /\ m = l)
  BY <1>3, <1>4 DEF Printing
<1>8. Printing(c, l, lk)
  BY <1>1 DEF Printing
<1>9. ASSUME panicked = {}, NEW k \in Locks
      PROVE  Held(k)' <=> Held(k) /\ k # lk
  <2>1. \A d \in Cores, m \in Levels : Printing(d, m, lk) => d = c /\ m = l
    BY <1>1, <1>8, <1>9 DEF Exclusive
  <2>2. k # lk => \A d \in Cores, m \in Levels : Printing(d, m, k) => ~(d = c /\ m = l)
    BY <1>1 DEF Printing
  <2> QED
    BY <1>7, <2>1, <2>2 DEF Held
<1>10. \A k \in Locks : dat'[k] <=> dat[k] /\ k # lk
  BY <1>1, <1>5 DEF TypeOK
<1>11. Exclusive'
  <2> SUFFICES ASSUME panicked' = {}
               PROVE  /\ \A k \in Locks : dat'[k] <=> Held(k)'
                      /\ \A k \in Locks, d, e \in Cores : \A m, n \in Levels :
                             Printing(d, m, k)' /\ Printing(e, n, k)' => d = e /\ m = n
    BY SMTT(30) DEF Exclusive
  <2>1. \A k \in Locks : dat'[k] <=> Held(k)'
    BY <1>5, <1>9, <1>10 DEF Exclusive
  <2>2. ASSUME NEW k \in Locks, NEW d \in Cores, NEW e \in Cores,
               NEW m \in Levels, NEW n \in Levels, Printing(d, m, k)', Printing(e, n, k)'
        PROVE  d = e /\ m = n
    BY <1>5, <1>7, <2>2, SMTT(30) DEF Exclusive
  <2> QED
    BY <2>1, <2>2, SMTT(30)
<1> QED
  BY <1>6, <1>11, SMTT(30)

\* No call prints when the cores start.
LEMMA InitExclusive == Init => TypeOK /\ Exclusive
<1> SUFFICES ASSUME Init PROVE TypeOK /\ Exclusive
  OBVIOUS
<1>1. Idle \in Acts /\ Idle.pc = "idle"
  BY SMTT(30) DEF Idle, Acts, PCs
<1>2. \A c \in Cores, l \in Levels : act[c][l] = Idle
  BY DEF Init
<1>3. TypeOK
  BY <1>1, <1>2 DEF Init, TypeOK
<1>4. \A c \in Cores, l \in Levels, k \in Locks : ~Printing(c, l, k)
  BY <1>1, <1>2 DEF Printing
<1>5. \A k \in Locks : ~dat[k] /\ ~Held(k)
  BY <1>4 DEF Init, Held
<1> QED
  BY <1>3, <1>4, <1>5 DEF Exclusive

\* Every step keeps the calls under one lock apart.
LEMMA NextExclusive == TypeOK /\ Exclusive /\ [Next]_vars => (TypeOK /\ Exclusive)'
<1> SUFFICES ASSUME TypeOK, Exclusive, [Next]_vars
             PROVE  TypeOK' /\ Exclusive'
  OBVIOUS
<1>1. ASSUME act' = act, dat' = dat, panicked' = panicked
      PROVE  TypeOK' /\ Exclusive'
  BY <1>1, SMTT(30) DEF TypeOK, Exclusive, Held, Printing
<1>2. ASSUME NEW c \in Cores, NEW l \in Levels, ser_printf(c, l)
      PROVE  TypeOK' /\ Exclusive'
  BY <1>2, GotoKeeps DEF ser_printf, MayCall, At, PCs
<1>3. ASSUME NEW c \in Cores, NEW l \in Levels, panic(c, l)
      PROVE  TypeOK' /\ Exclusive'
  <2> DEFINE a == [act[c][l] EXCEPT !.pc = "open_dir"]
  <2>1. a \in Acts /\ a.pc = "open_dir" /\ act' = [act EXCEPT ![c][l] = a]
    <3>1. act \in [Cores -> [Levels -> Acts]]
      BY DEF TypeOK
    <3>2. a \in Acts /\ a.pc = "open_dir"
      <4>1. act[c][l] \in Acts
        BY <3>1
      <4> QED
        BY <4>1 DEF Acts, PCs
    <3>3. act' = [act EXCEPT ![c][l].pc = "open_dir"]
      BY <1>3 DEF panic, Goto
    <3>4. act' = [act EXCEPT ![c][l] = a]
      BY <3>1, <3>3
    <3> QED
      BY <3>2, <3>4
  <2>2. dat' \in [Locks -> BOOLEAN]
    BY <1>3 DEF panic, TypeOK, Locks
  <2>3. TypeOK'
    BY <2>1, <2>2 DEF TypeOK
  <2>4. panicked' # {}
    BY <1>3 DEF panic
  <2> QED
    BY <2>3, <2>4 DEF Exclusive
<1>4. ASSUME NEW c \in Cores, kprintf(c)
      PROVE  TypeOK' /\ Exclusive'
  <2> DEFINE a == [Idle EXCEPT !.pc = "lock", !.lock = "kprintf_lock"]
  <2>1. /\ act' = [act EXCEPT ![c][Thread] = a] /\ dat' = dat /\ panicked' = panicked
        /\ act[c][Thread].pc = "idle"
    BY <1>4 DEF kprintf, MayCall, At
  <2>2. Idle \in Acts
    BY SMTT(30) DEF Idle, Acts, PCs
  <2>3. a \in Acts /\ a.pc = "lock" /\ a.lock \in Locks
    BY <2>2 DEF Acts, PCs, Locks
  <2>4. Thread \in Levels
    BY DEF Levels
  <2> QED
    BY <2>1, <2>3, <2>4, GotoSilent, SilentKeeps
<1>5. ASSUME NEW c \in Cores, Halt(c) \/ StopOther(c)
      PROVE  TypeOK' /\ Exclusive'
  BY <1>1, <1>5 DEF Halt, StopOther
<1>6. ASSUME NEW c \in Cores, NEW l \in Levels, PanicAgain(c, l)
      PROVE  TypeOK' /\ Exclusive'
  BY <1>1, <1>6 DEF PanicAgain
<1>7. CASE UNCHANGED vars
  BY <1>1, <1>7 DEF vars
<1> QED
  BY <1>2, <1>3, <1>4, <1>5, <1>6, <1>7, WalkKeeps, LockKeeps, UnlockKeeps DEF Next, Step

\* One call at a time prints under a lock, until a panic takes the locks away:
\* for every number of cores, of calls, and of warnings of deadlock_handler.
THEOREM MessagesDoNotMix == Spec => []Exclusive
BY InitExclusive, NextExclusive, PTL DEF Spec

-----------------------------------------------------------------------------
(* The windows, and the locks that handlers choose.                        *)

\* A step of one call leaves the others where they are.
Others(c, l) == \A d \in Cores, m \in Levels : d # c \/ m # l => act'[d][m] = act[d][m]

\* The call at a level after the step.
Now(c, l, pc, lock, mapped, outer) ==
    /\ Others(c, l)
    /\ act'[c][l].pc = pc /\ act'[c][l].lock = lock
    /\ act'[c][l].mapped = mapped /\ act'[c][l].outer = outer

\* What replacing one activation means.
LEMMA NowBy ==
    ASSUME TypeOK, NEW c \in Cores, NEW l \in Levels, NEW a,
           act' = [act EXCEPT ![c][l] = a]
    PROVE  Others(c, l) /\ act'[c][l] = a
  BY DEF Others, TypeOK

\* Moving on changes the control point only.
LEMMA NowGoto ==
    ASSUME TypeOK, NEW c \in Cores, NEW l \in Levels, NEW pc, Goto(c, l, pc)
    PROVE  Now(c, l, pc, act[c][l].lock, act[c][l].mapped, act[c][l].outer)
<1> DEFINE a == [act[c][l] EXCEPT !.pc = pc]
<1>1. act \in [Cores -> [Levels -> Acts]] /\ act[c][l] \in Acts
  BY DEF TypeOK
<1>2. act' = [act EXCEPT ![c][l].pc = pc]
  BY DEF Goto
<1>3. act' = [act EXCEPT ![c][l] = a]
  BY <1>1, <1>2
<1>4. a.pc = pc /\ a.lock = act[c][l].lock /\ a.mapped = act[c][l].mapped
      /\ a.outer = act[c][l].outer
  BY <1>1 DEF Acts
<1> HIDE DEF a
<1>5. Others(c, l) /\ act'[c][l] = a
  BY <1>3, NowBy
<1> QED
  BY <1>4, <1>5 DEF Now

\* The end of a read of a window, and of the walk.
LEMMA NowRead ==
    ASSUME TypeOK, NEW c \in Cores, NEW l \in Levels, NEW pc, NEW found,
           act' = [act EXCEPT ![c][l].pc = pc, ![c][l].mapped = found]
    PROVE  Now(c, l, pc, act[c][l].lock, found, act[c][l].outer)
<1> DEFINE a == [act[c][l] EXCEPT !.pc = pc, !.mapped = found]
<1>1. act \in [Cores -> [Levels -> Acts]] /\ act[c][l] \in Acts
  BY DEF TypeOK
<1>2. act' = [act EXCEPT ![c][l] = a]
  BY <1>1
<1>3. a.pc = pc /\ a.lock = act[c][l].lock /\ a.mapped = found /\ a.outer = act[c][l].outer
  BY <1>1 DEF Acts
<1> HIDE DEF a
<1>4. Others(c, l) /\ act'[c][l] = a
  BY ONLY TypeOK, c \in Cores, l \in Levels, <1>2, NowBy, Zenon
<1> QED
  BY <1>3, <1>4 DEF Now

\* The walk ends with the choice of a lock.
LEMMA NowChoose ==
    ASSUME TypeOK, NEW c \in Cores, NEW l \in Levels, NEW lk,
           act' = [act EXCEPT ![c][l].pc = "lock", ![c][l].lock = lk]
    PROVE  Now(c, l, "lock", lk, act[c][l].mapped, act[c][l].outer)
<1> DEFINE a == [act[c][l] EXCEPT !.pc = "lock", !.lock = lk]
<1>1. act \in [Cores -> [Levels -> Acts]] /\ act[c][l] \in Acts
  BY DEF TypeOK
<1>2. act' = [act EXCEPT ![c][l] = a]
  BY <1>1
<1>3. a.pc = "lock" /\ a.lock = lk /\ a.mapped = act[c][l].mapped /\ a.outer = act[c][l].outer
  BY <1>1 DEF Acts
<1> HIDE DEF a
<1>4. Others(c, l) /\ act'[c][l] = a
  BY ONLY TypeOK, c \in Cores, l \in Levels, <1>2, NowBy, Zenon
<1> QED
  BY <1>3, <1>4 DEF Now

\* deadlock_handler begins to print.
LEMMA NowWarn ==
    ASSUME TypeOK, NEW c \in Cores, NEW l \in Levels, NEW o,
           act' = [act EXCEPT ![c][l].pc = "open_dir", ![c][l].outer = o]
    PROVE  Now(c, l, "open_dir", act[c][l].lock, act[c][l].mapped, o)
<1> DEFINE a == [act[c][l] EXCEPT !.pc = "open_dir", !.outer = o]
<1>1. act \in [Cores -> [Levels -> Acts]] /\ act[c][l] \in Acts
  BY DEF TypeOK
<1>2. act' = [act EXCEPT ![c][l] = a]
  BY <1>1
<1>3. a.pc = "open_dir" /\ a.lock = act[c][l].lock /\ a.mapped = act[c][l].mapped /\ a.outer = o
  BY <1>1 DEF Acts
<1> HIDE DEF a
<1>4. Others(c, l) /\ act'[c][l] = a
  BY ONLY TypeOK, c \in Cores, l \in Levels, <1>2, NowBy, Zenon
<1> QED
  BY <1>3, <1>4 DEF Now

\* Writing the entry of a window and dropping the translation.
LEMMA ShowEffect ==
    ASSUME WindowTypeOK, NEW c \in Cores, NEW w \in Windows, NEW what \in {"self", "tables"},
           Show(c, w, what)
    PROVE  /\ window' \in [Windows -> {"self", "tables"}]
           /\ tlb' \in [Cores -> [Windows -> {"none", "self", "tables"}]]
           /\ window'[w] = what /\ \A v \in Windows \ {w} : window'[v] = window[v]
           /\ \A e \in Cores, v \in Windows : e # c \/ v # w => tlb'[e][v] = tlb[e][v]
           /\ tlb'[c][w] = IF window[w] = what THEN tlb[c][w] ELSE "none"
<1>1. CASE window[w] = what
  BY <1>1 DEF Show, WindowTypeOK
<1>2. CASE window[w] # what
  BY <1>2, SMTT(30) DEF Show, WindowTypeOK
<1> QED
  BY <1>1, <1>2

\* Reading through a window.
LEMMA HoldEffect ==
    ASSUME WindowTypeOK, NEW c \in Cores, NEW w \in Windows, Hold(c, w)
    PROVE  /\ tlb' \in [Cores -> [Windows -> {"none", "self", "tables"}]]
           /\ \A e \in Cores, v \in Windows : e # c \/ v # w => tlb'[e][v] = tlb[e][v]
           /\ tlb'[c][w] = Seen(c, w)
<1>1. Seen(c, w) \in {"none", "self", "tables"}
  BY DEF Seen, WindowTypeOK
<1>2. tlb' = [tlb EXCEPT ![c][w] = Seen(c, w)]
  BY DEF Hold
<1> QED
  BY <1>1, <1>2 DEF WindowTypeOK

\* A call that does not walk has no part in the windows.
LEMMA QuietWindows ==
    ASSUME WindowInv, \A d \in Cores : HandlerWalk(d), NEW c \in Cores, NEW l \in Levels,
           Others(c, l), act[c][l].pc \notin Walking, act'[c][l].pc \notin Walking,
           UNCHANGED <<window, tlb, overlap>>
    PROVE  WindowInv' /\ \A d \in Cores : HandlerWalk(d)'
<1>1. \A d \in Cores, m \in Levels : d # c \/ m # l => act'[d][m] = act[d][m]
  BY DEF Others
<1>2. \A d \in Cores, m \in Levels : act[d][m].pc \in Walking => act'[d][m] = act[d][m]
  BY <1>1
<1>3. \A d \in Cores, m \in Levels : act'[d][m].pc \in Walking => act'[d][m] = act[d][m]
  BY <1>1
<1>4. \A d \in Cores : InWalk(d)' <=> InWalk(d)
  BY <1>2, <1>3 DEF InWalk
<1>5. WindowInv'
  BY <1>2, <1>4 DEF WindowInv, Walking
<1>6. ASSUME NEW d \in Cores PROVE HandlerWalk(d)'
  <2>1. Irq \in Levels
    BY DEF Levels
  <2>2. CASE act'[d][Irq].pc \in Walking
    BY <1>3, <1>4, <2>1, <2>2 DEF HandlerWalk
  <2>3. CASE act'[d][Irq].pc \notin Walking
    BY <2>3 DEF HandlerWalk, Walking
  <2> QED
    BY <2>2, <2>3
<1> QED
  BY <1>5, <1>6

\* A walk of another call cannot disturb the walk of a handler that is not
\* overlapped: such a handler is alone.
LEMMA OtherHandlers ==
    ASSUME \A d \in Cores : HandlerWalk(d), NEW c \in Cores, NEW l \in Levels,
           Others(c, l), Runs(c, l), act[c][l].pc \in Walking, overlap' = overlap,
           NEW d \in Cores, d # c \/ l = Thread
    PROVE  HandlerWalk(d)'
<1>1. Irq \in Levels /\ Irq # Thread
  BY SMTT(30) DEF Levels, Irq, Thread
<1>2. act'[d][Irq] = act[d][Irq]
  BY <1>1 DEF Others
<1>3. CASE d = c
  <2>1. act[d][Irq].pc = "idle"
    BY <1>3 DEF Runs
  <2> QED
    BY <1>2, <2>1 DEF HandlerWalk, Walking
<1>4. CASE d # c
  <2>1. InWalk(c)
    BY DEF InWalk
  <2>2. overlap[d] \/ act[d][Irq].pc \notin Walking
    BY <1>4, <2>1 DEF HandlerWalk
  <2> QED
    BY <1>2, <2>2 DEF HandlerWalk, Walking
<1> QED
  BY <1>3, <1>4

\* is_mapped opens the directory window.
LEMMA OpenDirWindows ==
    ASSUME TypeOK, WindowTypeOK, WindowInv, \A d \in Cores : HandlerWalk(d),
           NEW c \in Cores, NEW l \in Levels, open_dir(c, l)
    PROVE  WindowTypeOK' /\ WindowInv' /\ \A d \in Cores : HandlerWalk(d)'
<1>1. /\ Others(c, l) /\ act[c][l].pc = "open_dir" /\ act'[c][l].pc = "read_dir" /\ Runs(c, l)
  BY NowGoto DEF open_dir, At, Now
<1>2. /\ window' \in [Windows -> {"self", "tables"}]
      /\ tlb' \in [Cores -> [Windows -> {"none", "self", "tables"}]]
      /\ window'["dir"] = "tables" /\ window'["table"] = window["table"]
      /\ \A e \in Cores : tlb'[e]["table"] = tlb[e]["table"]
      /\ \A e \in Cores : e # c => tlb'[e]["dir"] = tlb[e]["dir"]
      /\ tlb'[c]["dir"] = IF window["dir"] = "tables" THEN tlb[c]["dir"] ELSE "none"
  <2>1. Show(c, "dir", "tables") /\ "dir" \in Windows /\ "table" \in Windows
    BY DEF open_dir, Windows
  <2> QED
    BY <2>1, ShowEffect, SMTT(30)
<1>3. overlap' = [d \in Cores |-> \/ overlap[d]
                                  \/ d = c /\ l = Irq /\ \E e \in Cores \ {c} : InWalk(e)
                                  \/ d # c /\ act[d][Irq].pc \in Walking]
  BY DEF open_dir
<1>4. WindowTypeOK'
  <2>1. overlap' \in [Cores -> BOOLEAN]
    BY <1>3 DEF WindowTypeOK
  <2> QED
    BY <1>2, <2>1 DEF WindowTypeOK
<1>5. \A d \in Cores, m \in Levels : d # c \/ m # l => act'[d][m] = act[d][m]
  BY <1>1 DEF Others
<1>6. \A d \in Cores : InWalk(d) => InWalk(d)'
  BY <1>1, <1>5 DEF InWalk, Walking
<1>7. \A d \in Cores : d # c => (InWalk(d)' <=> InWalk(d))
  BY <1>5 DEF InWalk
<1>8. InWalk(c)'
  BY <1>1 DEF InWalk, Walking
<1>9. WindowInv'
  <2>1. \E e \in Cores : InWalk(e)' /\ tlb'[e]["dir"] # "self"
    <3>1. CASE window["dir"] = "tables"
      BY <1>2, <1>6, <3>1 DEF WindowInv
    <3>2. CASE window["dir"] # "tables"
      BY <1>2, <1>8, <3>2
    <3> QED
      BY <3>1, <3>2
  <2>2. ASSUME window'["table"] = "tables"
        PROVE  \E e \in Cores :
                   /\ tlb'[e]["table"] # "self"
                   /\ \E m \in Levels : act'[e][m].pc \in {"read_table", "close_table"}
    BY <1>1, <1>2, <1>5, <2>2, SMTT(30) DEF WindowInv
  <2> QED
    BY <2>1, <2>2 DEF WindowInv
<1>10. ASSUME NEW d \in Cores PROVE HandlerWalk(d)'
  <2>1. Irq \in Levels /\ Irq # Thread
    BY SMTT(30) DEF Levels, Irq, Thread
  <2>2. CASE d # c
    <3>1. act'[d][Irq] = act[d][Irq]
      BY <1>5, <2>1, <2>2
    <3>2. overlap'[d] \/ act[d][Irq].pc \notin Walking
      BY <1>3, <2>2
    <3> QED
      BY <3>1, <3>2 DEF HandlerWalk, Walking
  <2>3. CASE d = c /\ l = Thread
    <3>1. act'[d][Irq] = act[d][Irq] /\ act[d][Irq].pc = "idle"
      BY <1>1, <1>5, <2>1, <2>3 DEF Runs
    <3> QED
      BY <3>1 DEF HandlerWalk, Walking
  <2>4. CASE d = c /\ l = Irq
    <3> SUFFICES ASSUME ~overlap'[c] PROVE HandlerWalk(d)'
      BY <2>4 DEF HandlerWalk
    <3>1. \A e \in Cores \ {c} : ~InWalk(e)
      BY <1>3, <2>4
    <3>2. \A e \in Cores \ {c} : ~InWalk(e)'
      BY <1>7, <3>1
    <3>3. tlb'[c]["dir"] # "self"
      BY <1>2, <3>1 DEF WindowInv
    <3> QED
      BY <1>1, <1>2, <2>4, <3>2, <3>3 DEF HandlerWalk
  <2>5. l = Thread \/ l = Irq
    BY DEF Levels
  <2> QED
    BY <2>2, <2>3, <2>4, <2>5
<1> QED
  BY <1>4, <1>9, <1>10

\* is_mapped reads the directory.
LEMMA ReadDirWindows ==
    ASSUME TypeOK, WindowTypeOK, WindowInv, \A d \in Cores : HandlerWalk(d),
           NEW c \in Cores, NEW l \in Levels, read_dir(c, l)
    PROVE  WindowTypeOK' /\ WindowInv' /\ \A d \in Cores : HandlerWalk(d)'
<1> DEFINE pc == IF Seen(c, "dir") = "self" THEN "close_table" ELSE "open_table"
<1>1. Now(c, l, pc, act[c][l].lock, FALSE, act[c][l].outer)
  BY NowRead DEF read_dir
<1>2. /\ Others(c, l) /\ act[c][l].pc = "read_dir" /\ act'[c][l].pc = pc /\ Runs(c, l)
      /\ window' = window /\ overlap' = overlap
  BY <1>1 DEF read_dir, At, Now
<1>3. /\ tlb' \in [Cores -> [Windows -> {"none", "self", "tables"}]]
      /\ \A e \in Cores : tlb'[e]["table"] = tlb[e]["table"]
      /\ \A e \in Cores : e # c => tlb'[e]["dir"] = tlb[e]["dir"]
      /\ tlb'[c]["dir"] = Seen(c, "dir")
  <2>1. Hold(c, "dir") /\ "dir" \in Windows /\ "table" \in Windows
    BY DEF read_dir, Windows
  <2> QED
    BY <2>1, HoldEffect, SMTT(30)
<1>4. WindowTypeOK'
  BY <1>2, <1>3 DEF WindowTypeOK
<1>5. \A d \in Cores, m \in Levels : d # c \/ m # l => act'[d][m] = act[d][m]
  BY <1>2 DEF Others
<1>6. \A d \in Cores : InWalk(d)' <=> InWalk(d)
  BY <1>2, <1>5 DEF InWalk, Walking
<1>7. WindowInv'
  <2>1. ASSUME window["dir"] = "tables"
        PROVE  \E e \in Cores : InWalk(e)' /\ tlb'[e]["dir"] # "self"
    <3>1. PICK e \in Cores : InWalk(e) /\ tlb[e]["dir"] # "self"
      BY <2>1 DEF WindowInv
    <3>2. tlb'[e]["dir"] # "self"
      BY <1>3, <2>1, <3>1 DEF Seen
    <3> QED
      BY <1>6, <3>1, <3>2
  <2>2. ASSUME window["table"] = "tables"
        PROVE  \E e \in Cores :
                   /\ tlb'[e]["table"] # "self"
                   /\ \E m \in Levels : act'[e][m].pc \in {"read_table", "close_table"}
    BY <1>2, <1>3, <1>5, <2>2, SMTT(30) DEF WindowInv
  <2> QED
    BY <1>2, <2>1, <2>2 DEF WindowInv
<1>8. ASSUME l = Irq PROVE HandlerWalk(c)'
  <2> SUFFICES ASSUME ~overlap[c] PROVE HandlerWalk(c)'
    BY <1>2 DEF HandlerWalk
  <2>1. window["dir"] = "tables" /\ tlb[c]["dir"] # "self" /\ \A e \in Cores \ {c} : ~InWalk(e)
    BY <1>2, <1>8 DEF HandlerWalk, Walking
  <2>2. act'[c][Irq].pc = "open_table"
    BY <1>2, <1>8, <2>1 DEF Seen
  <2> QED
    BY <1>6, <2>1, <2>2 DEF HandlerWalk
<1>9. \A d \in Cores : d # c \/ l = Thread => HandlerWalk(d)'
  BY <1>2, OtherHandlers DEF Walking
<1> QED
  BY <1>4, <1>7, <1>8, <1>9 DEF Levels

\* is_mapped opens the table window.
LEMMA OpenTableWindows ==
    ASSUME TypeOK, WindowTypeOK, WindowInv, \A d \in Cores : HandlerWalk(d),
           NEW c \in Cores, NEW l \in Levels, open_table(c, l)
    PROVE  WindowTypeOK' /\ WindowInv' /\ \A d \in Cores : HandlerWalk(d)'
<1>1. /\ Others(c, l) /\ act[c][l].pc = "open_table" /\ act'[c][l].pc = "read_table" /\ Runs(c, l)
      /\ overlap' = overlap
  BY NowGoto DEF open_table, At, Now
<1>2. /\ window' \in [Windows -> {"self", "tables"}]
      /\ tlb' \in [Cores -> [Windows -> {"none", "self", "tables"}]]
      /\ window'["table"] = "tables" /\ window'["dir"] = window["dir"]
      /\ \A e \in Cores : tlb'[e]["dir"] = tlb[e]["dir"]
      /\ \A e \in Cores : e # c => tlb'[e]["table"] = tlb[e]["table"]
      /\ tlb'[c]["table"] = IF window["table"] = "tables" THEN tlb[c]["table"] ELSE "none"
  <2>1. Show(c, "table", "tables") /\ "dir" \in Windows /\ "table" \in Windows
    BY DEF open_table, Windows
  <2> QED
    BY <2>1, ShowEffect, SMTT(30)
<1>3. WindowTypeOK'
  BY <1>1, <1>2 DEF WindowTypeOK
<1>4. \A d \in Cores, m \in Levels : d # c \/ m # l => act'[d][m] = act[d][m]
  BY <1>1 DEF Others
<1>5. \A d \in Cores : InWalk(d)' <=> InWalk(d)
  BY <1>1, <1>4 DEF InWalk, Walking
<1>6. WindowInv'
  <2>1. window["dir"] = "tables" => \E e \in Cores : InWalk(e)' /\ tlb'[e]["dir"] # "self"
    BY <1>2, <1>5 DEF WindowInv
  <2>2. \E e \in Cores :
           /\ tlb'[e]["table"] # "self"
           /\ \E m \in Levels : act'[e][m].pc \in {"read_table", "close_table"}
    <3>1. CASE window["table"] = "tables"
      BY <1>1, <1>2, <1>4, <3>1, SMTT(30) DEF WindowInv
    <3>2. CASE window["table"] # "tables"
      BY <1>1, <1>2, <3>2
    <3> QED
      BY <3>1, <3>2
  <2> QED
    BY <1>2, <2>1, <2>2 DEF WindowInv
<1>7. ASSUME l = Irq PROVE HandlerWalk(c)'
  <2> SUFFICES ASSUME ~overlap[c] PROVE HandlerWalk(c)'
    BY <1>1 DEF HandlerWalk
  <2>1. \A e \in Cores \ {c} : ~InWalk(e)
    BY <1>1, <1>7 DEF HandlerWalk, Walking
  <2>2. tlb'[c]["table"] # "self"
    <3>1. CASE window["table"] = "tables"
      <4>1. PICK e \in Cores : /\ tlb[e]["table"] # "self"
                               /\ \E m \in Levels : act[e][m].pc \in {"read_table", "close_table"}
        BY <3>1 DEF WindowInv
      <4>2. e = c
        BY <2>1, <4>1 DEF InWalk, Walking
      <4> QED
        BY <1>2, <3>1, <4>1, <4>2
    <3>2. CASE window["table"] # "tables"
      BY <1>2, <3>2
    <3> QED
      BY <3>1, <3>2
  <2> QED
    BY <1>1, <1>2, <1>5, <1>7, <2>1, <2>2 DEF HandlerWalk
<1>8. \A d \in Cores : d # c \/ l = Thread => HandlerWalk(d)'
  BY <1>1, OtherHandlers DEF Walking
<1> QED
  BY <1>3, <1>6, <1>7, <1>8, SMTT(30) DEF Levels

\* is_mapped reads the table.
LEMMA ReadTableWindows ==
    ASSUME TypeOK, WindowTypeOK, WindowInv, \A d \in Cores : HandlerWalk(d),
           NEW c \in Cores, NEW l \in Levels, read_table(c, l)
    PROVE  WindowTypeOK' /\ WindowInv' /\ \A d \in Cores : HandlerWalk(d)'
<1>1. PICK found \in BOOLEAN :
          /\ Seen(c, "table") # "self" => found
          /\ act' = [act EXCEPT ![c][l].pc = "close_table", ![c][l].mapped = found]
  BY DEF read_table
<1>2. Now(c, l, "close_table", act[c][l].lock, found, act[c][l].outer)
  BY <1>1, NowRead
<1>3. /\ Others(c, l) /\ act[c][l].pc = "read_table" /\ act'[c][l].pc = "close_table" /\ Runs(c, l)
      /\ window' = window /\ overlap' = overlap /\ act'[c][l].mapped = found
  BY <1>2 DEF read_table, At, Now
<1>4. /\ tlb' \in [Cores -> [Windows -> {"none", "self", "tables"}]]
      /\ \A e \in Cores : tlb'[e]["dir"] = tlb[e]["dir"]
      /\ \A e \in Cores : e # c => tlb'[e]["table"] = tlb[e]["table"]
      /\ tlb'[c]["table"] = Seen(c, "table")
  <2>1. Hold(c, "table") /\ "dir" \in Windows /\ "table" \in Windows
    BY DEF read_table, Windows
  <2> QED
    BY <2>1, HoldEffect, SMTT(30)
<1>5. WindowTypeOK'
  BY <1>3, <1>4 DEF WindowTypeOK
<1>6. \A d \in Cores, m \in Levels : d # c \/ m # l => act'[d][m] = act[d][m]
  BY <1>3 DEF Others
<1>7. \A d \in Cores : InWalk(d)' <=> InWalk(d)
  BY <1>3, <1>6 DEF InWalk, Walking
<1>8. WindowInv'
  <2>1. window["dir"] = "tables" => \E e \in Cores : InWalk(e)' /\ tlb'[e]["dir"] # "self"
    BY <1>4, <1>7 DEF WindowInv
  <2>2. ASSUME window["table"] = "tables"
        PROVE  \E e \in Cores :
                   /\ tlb'[e]["table"] # "self"
                   /\ \E m \in Levels : act'[e][m].pc \in {"read_table", "close_table"}
    <3>1. PICK e \in Cores, m \in Levels :
              tlb[e]["table"] # "self" /\ act[e][m].pc \in {"read_table", "close_table"}
      BY <2>2 DEF WindowInv
    <3>2. tlb'[e]["table"] # "self"
      BY <1>4, <2>2, <3>1 DEF Seen
    <3>3. act'[e][m].pc \in {"read_table", "close_table"}
      BY <1>3, <1>6, <3>1
    <3> QED
      BY <3>2, <3>3
  <2> QED
    BY <1>3, <2>1, <2>2 DEF WindowInv
<1>9. ASSUME l = Irq PROVE HandlerWalk(c)'
  <2> SUFFICES ASSUME ~overlap[c] PROVE HandlerWalk(c)'
    BY <1>3 DEF HandlerWalk
  <2>1. /\ window["table"] = "tables" /\ tlb[c]["table"] # "self"
        /\ \A e \in Cores \ {c} : ~InWalk(e)
    BY <1>3, <1>9 DEF HandlerWalk, Walking
  <2>2. act'[c][Irq].mapped
    BY <1>1, <1>3, <1>9, <2>1 DEF Seen
  <2> QED
    BY <1>3, <1>7, <1>9, <2>1, <2>2 DEF HandlerWalk
<1>10. \A d \in Cores : d # c \/ l = Thread => HandlerWalk(d)'
  BY <1>3, OtherHandlers DEF Walking
<1> QED
  BY <1>5, <1>8, <1>9, <1>10 DEF Levels

\* is_mapped closes the table window.
LEMMA CloseTableWindows ==
    ASSUME TypeOK, WindowTypeOK, WindowInv, \A d \in Cores : HandlerWalk(d),
           NEW c \in Cores, NEW l \in Levels, close_table(c, l)
    PROVE  WindowTypeOK' /\ WindowInv' /\ \A d \in Cores : HandlerWalk(d)'
<1>1. /\ Others(c, l) /\ act[c][l].pc = "close_table" /\ act'[c][l].pc = "close_dir" /\ Runs(c, l)
      /\ overlap' = overlap /\ act'[c][l].mapped = act[c][l].mapped
  BY NowGoto DEF close_table, At, Now
<1>2. /\ window' \in [Windows -> {"self", "tables"}]
      /\ tlb' \in [Cores -> [Windows -> {"none", "self", "tables"}]]
      /\ window'["table"] = "self" /\ window'["dir"] = window["dir"]
      /\ \A e \in Cores : tlb'[e]["dir"] = tlb[e]["dir"]
  <2>1. Show(c, "table", "self") /\ "dir" \in Windows /\ "table" \in Windows
    BY DEF close_table, Windows
  <2> QED
    BY <2>1, ShowEffect, SMTT(30)
<1>3. WindowTypeOK'
  BY <1>1, <1>2 DEF WindowTypeOK
<1>4. \A d \in Cores, m \in Levels : d # c \/ m # l => act'[d][m] = act[d][m]
  BY <1>1 DEF Others
<1>5. \A d \in Cores : InWalk(d)' <=> InWalk(d)
  BY <1>1, <1>4 DEF InWalk, Walking
<1>6. WindowInv'
  BY <1>2, <1>5 DEF WindowInv
<1>7. ASSUME l = Irq PROVE HandlerWalk(c)'
  BY <1>1, <1>5, <1>7 DEF HandlerWalk, Walking
<1>8. \A d \in Cores : d # c \/ l = Thread => HandlerWalk(d)'
  BY <1>1, OtherHandlers DEF Walking
<1> QED
  BY <1>3, <1>6, <1>7, <1>8, SMTT(30) DEF Levels

\* is_mapped closes the directory window.
LEMMA CloseDirWindows ==
    ASSUME TypeOK, WindowTypeOK, WindowInv, \A d \in Cores : HandlerWalk(d),
           NEW c \in Cores, NEW l \in Levels, close_dir(c, l)
    PROVE  WindowTypeOK' /\ WindowInv' /\ \A d \in Cores : HandlerWalk(d)'
<1>0. Now(c, l, "lock", Chosen(c, l), act[c][l].mapped, act[c][l].outer)
  BY NowChoose DEF close_dir
<1>1. /\ Others(c, l) /\ act[c][l].pc = "close_dir" /\ act'[c][l].pc = "lock" /\ Runs(c, l)
      /\ overlap' = overlap
  BY <1>0 DEF close_dir, At, Now
<1>2. /\ window' \in [Windows -> {"self", "tables"}]
      /\ tlb' \in [Cores -> [Windows -> {"none", "self", "tables"}]]
      /\ window'["dir"] = "self" /\ window'["table"] = window["table"]
      /\ \A e \in Cores : tlb'[e]["table"] = tlb[e]["table"]
  <2>1. Show(c, "dir", "self") /\ "dir" \in Windows /\ "table" \in Windows
    BY DEF close_dir, Windows
  <2> QED
    BY <2>1, ShowEffect, SMTT(30)
<1>3. WindowTypeOK'
  BY <1>1, <1>2 DEF WindowTypeOK
<1>4. \A d \in Cores, m \in Levels : d # c \/ m # l => act'[d][m] = act[d][m]
  BY <1>1 DEF Others
<1>5. WindowInv'
  BY <1>1, <1>2, <1>4, SMTT(30) DEF WindowInv
<1>6. ASSUME l = Irq PROVE HandlerWalk(c)'
  BY <1>1, <1>6 DEF HandlerWalk, Walking
<1>7. \A d \in Cores : d # c \/ l = Thread => HandlerWalk(d)'
  BY <1>1, OtherHandlers DEF Walking
<1> QED
  BY <1>3, <1>5, <1>6, <1>7, SMTT(30) DEF Levels

\* A step that uses no lock but the ones its level may use keeps the choice.
LEMMA ChoiceKeeps ==
    ASSUME LockChoice, NEW c \in Cores, NEW l \in Levels, Others(c, l),
           \A d \in Cores : overlap[d] => overlap'[d],
           \A k \in Locks : Uses(c, l, k)' =>
               \/ Uses(c, l, k)
               \/ l = Thread /\ k # "irq_sprintf_lock"
               \/ l = Irq /\ (k = "irq_sprintf_lock" \/ overlap'[c])
    PROVE  LockChoice'
<1> SUFFICES ASSUME NEW d \in Cores, NEW k \in Locks
             PROVE  /\ Uses(d, Thread, k)' => k # "irq_sprintf_lock"
                    /\ Uses(d, Irq, k)' => k = "irq_sprintf_lock" \/ overlap'[d]
  BY DEF LockChoice
<1>1. Thread \in Levels /\ Irq \in Levels /\ Thread # Irq
  BY SMTT(30) DEF Levels, Thread, Irq
<1>2. \A m \in Levels : d # c \/ m # l => (Uses(d, m, k)' <=> Uses(d, m, k))
  BY DEF Others, Uses
<1>3. Uses(d, Thread, k)' => k # "irq_sprintf_lock"
  BY <1>1, <1>2 DEF LockChoice
<1>4. Uses(d, Irq, k)' => k = "irq_sprintf_lock" \/ overlap'[d]
  BY <1>1, <1>2 DEF LockChoice
<1> QED
  BY <1>3, <1>4

\* What runs after a return uses only what was waited for before.
LEMMA ReturnedUses ==
    ASSUME NEW b \in Acts, NEW k,
           \/ Returned(b).pc \in {"lock", "print"} /\ Returned(b).lock = k
           \/ \E i \in DOMAIN Returned(b).outer : Returned(b).outer[i].lock = k
    PROVE  \E i \in DOMAIN b.outer : b.outer[i].lock = k
<1> DEFINE a == Returned(b)
           R == [lock : Locks, more : Nat]
<1>1. b.outer \in Seq(R)
  BY DEF Acts
<1>2. CASE b.outer = <<>>
  <2>1. a.pc = "idle" /\ a.outer = <<>>
    BY <1>2 DEF Returned, Idle
  <2> QED
    BY <2>1, SMTT(30)
<1>3. CASE b.outer # <<>> /\ Head(b.outer).more > 0
  <2> DEFINE h == [Head(b.outer) EXCEPT !.more = @ - 1]
             o == [b.outer EXCEPT ![1] = h]
  <2>1. a = [b EXCEPT !.pc = "open_dir", !.outer[1].more = @ - 1]
    BY <1>3 DEF Returned
  <2>2. Head(b.outer) \in R /\ b.outer[1] = Head(b.outer) /\ 1 \in DOMAIN b.outer
    BY <1>1, <1>3, Sequence
  <2>3. a = [b EXCEPT !.pc = "open_dir", !.outer = o]
    BY <1>1, <2>1, <2>2 DEF Acts
  <2>4. a.pc = "open_dir" /\ a.outer = o
    BY <2>3 DEF Acts
  <2>5. DOMAIN o = DOMAIN b.outer /\ \A i \in DOMAIN b.outer : o[i].lock = b.outer[i].lock
    BY <1>1, <2>2
  <2> QED
    BY <2>4, <2>5
<1>4. CASE b.outer # <<>> /\ ~(Head(b.outer).more > 0)
  <2>1. a = [b EXCEPT !.pc = "lock", !.lock = Head(b.outer).lock, !.outer = Tail(b.outer)]
    BY <1>4 DEF Returned
  <2>2. a.lock = Head(b.outer).lock /\ a.outer = Tail(b.outer)
    BY <2>1 DEF Acts
  <2>3. b.outer[1] = Head(b.outer) /\ 1 \in DOMAIN b.outer
    BY <1>1, <1>4, Sequence
  <2>4. \A i \in DOMAIN Tail(b.outer) : i + 1 \in DOMAIN b.outer /\ Tail(b.outer)[i] = b.outer[i + 1]
    BY <1>1, <1>4, SMTT(30)
  <2> QED
    BY <2>2, <2>3, <2>4
<1> QED
  BY <1>2, <1>3, <1>4

\* No step of a walk, and no lock, makes a level use a lock of the other.
LEMMA StepChoice ==
    ASSUME TypeOK, WindowTypeOK, \A d \in Cores : HandlerWalk(d), LockChoice,
           NEW c \in Cores, NEW l \in Levels, Step(c, l)
    PROVE  LockChoice'
<1>0. act[c][l] \in Acts /\ act[c][l].outer \in Seq([lock : Locks, more : Nat])
  BY DEF TypeOK, Acts
<1>1. \A d \in Cores : overlap[d] => overlap'[d]
  BY DEF Step, open_dir, read_dir, open_table, read_table, close_table, close_dir,
      spinlock_lock, deadlock, spinlock_unlock
<1>2. ASSUME NEW pc, Goto(c, l, pc), pc \notin {"lock", "print"}
      PROVE  LockChoice'
  <2>1. Now(c, l, pc, act[c][l].lock, act[c][l].mapped, act[c][l].outer)
    BY <1>2, NowGoto
  <2>2. Others(c, l) /\ \A k \in Locks : Uses(c, l, k)' => Uses(c, l, k)
    BY <1>2, <2>1 DEF Now, Uses
  <2> QED
    BY <1>1, <2>2, ChoiceKeeps
<1>3. CASE open_dir(c, l) \/ open_table(c, l) \/ close_table(c, l)
  BY <1>2, <1>3 DEF open_dir, open_table, close_table
<1>4. CASE read_dir(c, l)
  <2> DEFINE pc == IF Seen(c, "dir") = "self" THEN "close_table" ELSE "open_table"
  <2>1. Now(c, l, pc, act[c][l].lock, FALSE, act[c][l].outer)
    BY <1>4, NowRead DEF read_dir
  <2>2. Others(c, l) /\ \A k \in Locks : Uses(c, l, k)' => Uses(c, l, k)
    BY <2>1 DEF Now, Uses
  <2> QED
    BY <1>1, <2>2, ChoiceKeeps, SMTT(30)
<1>5. CASE read_table(c, l)
  <2>1. PICK found \in BOOLEAN :
            act' = [act EXCEPT ![c][l].pc = "close_table", ![c][l].mapped = found]
    BY <1>5 DEF read_table
  <2>2. Now(c, l, "close_table", act[c][l].lock, found, act[c][l].outer)
    BY <2>1, NowRead
  <2>3. Others(c, l) /\ \A k \in Locks : Uses(c, l, k)' => Uses(c, l, k)
    BY <2>2 DEF Now, Uses
  <2> QED
    BY <1>1, <2>3, ChoiceKeeps
<1>6. CASE close_dir(c, l)
  <2>1. Now(c, l, "lock", Chosen(c, l), act[c][l].mapped, act[c][l].outer)
    BY <1>6, NowChoose DEF close_dir
  <2>2. Others(c, l) /\ \A k \in Locks : Uses(c, l, k)' => Uses(c, l, k) \/ k = Chosen(c, l)
    BY <2>1 DEF Now, Uses
  <2>3. l = Thread => Chosen(c, l) # "irq_sprintf_lock"
    BY SMTT(30) DEF Chosen, Thread, Irq
  <2>4. l = Irq => Chosen(c, l) = "irq_sprintf_lock" \/ overlap[c]
    <3>1. l = Irq /\ ~overlap[c] => act[c][Irq].mapped
      BY <1>6 DEF close_dir, At, HandlerWalk
    <3> QED
      BY <3>1 DEF Chosen
  <2>5. l = Thread \/ l = Irq
    BY DEF Levels
  <2> QED
    BY <1>1, <2>2, <2>3, <2>4, <2>5, ChoiceKeeps
<1>7. CASE spinlock_lock(c, l)
  <2>1. Now(c, l, "print", act[c][l].lock, act[c][l].mapped, act[c][l].outer)
    BY <1>7, NowGoto DEF spinlock_lock
  <2>2. act[c][l].pc = "lock"
    BY <1>7 DEF spinlock_lock, At
  <2>3. Others(c, l) /\ \A k \in Locks : Uses(c, l, k)' => Uses(c, l, k)
    BY <2>1, <2>2 DEF Now, Uses
  <2> QED
    BY <1>1, <2>3, ChoiceKeeps, SMTT(30)
<1>8. CASE deadlock(c, l)
  <2> DEFINE lk == act[c][l].lock
             o == <<[lock |-> lk, more |-> 1]>> \o act[c][l].outer
  <2>1. Now(c, l, "open_dir", lk, act[c][l].mapped, o)
    <3>1. act' = [act EXCEPT ![c][l].pc = "open_dir", ![c][l].outer = o]
      BY <1>8 DEF deadlock
    <3> QED
      BY <3>1, NowWarn
  <2>2. act[c][l].pc = "lock"
    BY <1>8 DEF deadlock, At
  <2>3. \A i \in DOMAIN o : o[i].lock = lk \/ (i - 1 \in DOMAIN act[c][l].outer /\ o[i] = act[c][l].outer[i - 1])
    BY <1>0, SMTT(30)
  <2> HIDE DEF o
  <2>4. Others(c, l) /\ \A k \in Locks : Uses(c, l, k)' => Uses(c, l, k)
    BY <2>1, <2>2, <2>3 DEF Now, Uses
  <2> QED
    BY <1>1, <2>4, ChoiceKeeps, SMTT(30)
<1>9. CASE spinlock_unlock(c, l)
  <2>1. Others(c, l) /\ act'[c][l] = Returned(act[c][l])
    BY <1>9, NowBy DEF spinlock_unlock
  <2>2. \A k \in Locks : Uses(c, l, k)' => Uses(c, l, k)
    BY <1>0, <2>1, ReturnedUses, SMTT(30) DEF Uses
  <2> QED
    BY <1>1, <2>1, <2>2, ChoiceKeeps
<1> QED
  BY <1>3, <1>4, <1>5, <1>6, <1>7, <1>8, <1>9 DEF Step

\* A step that takes no lock and gives none back.
LEMMA HeldKeeps ==
    ASSUME TakenIsHeld, NEW c \in Cores, NEW l \in Levels, Others(c, l), act[c][l].pc # "print",
           \A k \in Locks : dat'[k] => dat[k] \/ (act'[c][l].pc = "print" /\ act'[c][l].lock = k)
    PROVE  TakenIsHeld'
<1>1. \A d \in Cores, m \in Levels, k \in Locks : Printing(d, m, k) => Printing(d, m, k)'
  BY SMTT(30) DEF Others, Printing
<1>2. \A k \in Locks : Held(k) => Held(k)'
  BY <1>1 DEF Held
<1>3. \A k \in Locks : act'[c][l].pc = "print" /\ act'[c][l].lock = k => Held(k)'
  BY DEF Held, Printing
<1> QED
  BY <1>2, <1>3 DEF TakenIsHeld

\* So a taken lock still has its call after every step.
LEMMA StepHeld ==
    ASSUME TypeOK, TakenIsHeld, NEW c \in Cores, NEW l \in Levels, Step(c, l)
    PROVE  TakenIsHeld'
<1>1. ASSUME NEW pc, NEW lk, NEW mp, NEW o, Now(c, l, pc, lk, mp, o), act[c][l].pc # "print",
             dat' = dat
      PROVE  TakenIsHeld'
  BY <1>1, HeldKeeps DEF Now
<1>2. CASE open_dir(c, l) \/ open_table(c, l) \/ close_table(c, l)
  <2>1. PICK pc \in PCs : Goto(c, l, pc)
    BY <1>2 DEF open_dir, open_table, close_table, PCs, Walking
  <2>2. dat' = dat /\ act[c][l].pc # "print"
    BY <1>2 DEF open_dir, open_table, close_table, At
  <2> QED
    BY <1>1, <2>1, <2>2, NowGoto
<1>3. CASE read_dir(c, l)
  <2> DEFINE pc == IF Seen(c, "dir") = "self" THEN "close_table" ELSE "open_table"
  <2>1. Now(c, l, pc, act[c][l].lock, FALSE, act[c][l].outer)
    BY <1>3, NowRead DEF read_dir
  <2>2. dat' = dat /\ act[c][l].pc # "print"
    BY <1>3 DEF read_dir, At
  <2> HIDE DEF pc
  <2> QED
    BY <1>1, <2>1, <2>2
<1>4. CASE read_table(c, l)
  <2>1. PICK found \in BOOLEAN :
            act' = [act EXCEPT ![c][l].pc = "close_table", ![c][l].mapped = found]
    BY <1>4 DEF read_table
  <2>2. Now(c, l, "close_table", act[c][l].lock, found, act[c][l].outer)
    BY <2>1, NowRead
  <2>3. dat' = dat /\ act[c][l].pc # "print"
    BY <1>4 DEF read_table, At
  <2> QED
    BY <1>1, <2>2, <2>3
<1>5. CASE close_dir(c, l)
  <2>1. Now(c, l, "lock", Chosen(c, l), act[c][l].mapped, act[c][l].outer)
    BY <1>5, NowChoose DEF close_dir
  <2>2. dat' = dat /\ act[c][l].pc # "print"
    BY <1>5 DEF close_dir, At
  <2> QED
    BY <1>1, <2>1, <2>2
<1>6. CASE deadlock(c, l)
  <2> DEFINE o == <<[lock |-> act[c][l].lock, more |-> 1]>> \o act[c][l].outer
  <2>1. Now(c, l, "open_dir", act[c][l].lock, act[c][l].mapped, o)
    <3>1. act' = [act EXCEPT ![c][l].pc = "open_dir", ![c][l].outer = o]
      BY <1>6 DEF deadlock
    <3> QED
      BY <3>1, NowWarn
  <2>2. dat' = dat /\ act[c][l].pc # "print"
    BY <1>6 DEF deadlock, At
  <2> HIDE DEF o
  <2> QED
    BY <1>1, <2>1, <2>2
<1>7. CASE spinlock_lock(c, l)
  <2>1. Now(c, l, "print", act[c][l].lock, act[c][l].mapped, act[c][l].outer)
    BY <1>7, NowGoto DEF spinlock_lock
  <2>2. dat' = [dat EXCEPT ![act[c][l].lock] = TRUE] /\ act[c][l].pc = "lock"
    BY <1>7 DEF spinlock_lock, At
  <2>3. \A k \in Locks : dat'[k] => dat[k] \/ k = act[c][l].lock
    BY <2>2 DEF TypeOK
  <2> QED
    BY <2>1, <2>2, <2>3, HeldKeeps DEF Now
<1>8. CASE spinlock_unlock(c, l)
  <2> DEFINE lk == act[c][l].lock
  <2>1. Others(c, l)
    BY <1>8, NowBy DEF spinlock_unlock
  <2>2. dat' = [dat EXCEPT ![lk] = FALSE]
    BY <1>8 DEF spinlock_unlock
  <2>3. \A k \in Locks : dat'[k] => dat[k] /\ k # lk
    BY <2>2 DEF TypeOK
  <2>4. ASSUME NEW k \in Locks, Held(k), k # lk PROVE Held(k)'
    <3>1. PICK d \in Cores, m \in Levels : Printing(d, m, k)
      BY <2>4 DEF Held
    <3>2. d # c \/ m # l
      BY <2>4, <3>1 DEF Printing
    <3>3. Printing(d, m, k)'
      BY <2>1, <3>1, <3>2 DEF Printing, Others
    <3> QED
      BY <3>3 DEF Held
  <2> QED
    BY <2>3, <2>4 DEF TakenIsHeld
<1> QED
  BY <1>2, <1>3, <1>4, <1>5, <1>6, <1>7, <1>8 DEF Step

\* Everything is closed, idle and free at first.
LEMMA InitOutput == Init => OutputInv
<1> SUFFICES ASSUME Init PROVE OutputInv
  OBVIOUS
<1>1. TypeOK
  BY InitExclusive
<1>2. \A c \in Cores, l \in Levels :
          act[c][l].pc = "idle" /\ act[c][l].lock = "" /\ act[c][l].outer = <<>>
  BY DEF Init, Idle
<1>3. WindowTypeOK
  BY DEF Init, WindowTypeOK
<1>4. WindowInv
  BY DEF Init, WindowInv, Windows
<1>5. \A c \in Cores : HandlerWalk(c)
  BY <1>2 DEF HandlerWalk, Walking, Levels
<1>6. ASSUME NEW c \in Cores, NEW l \in Levels, NEW k \in Locks PROVE ~Uses(c, l, k)
  <2>1. act[c][l].pc = "idle" /\ DOMAIN act[c][l].outer = {}
    <3>1. act[c][l].outer = <<>> /\ act[c][l].pc = "idle"
      BY <1>2
    <3>2. DOMAIN <<>> = {}
      BY SMTT(30)
    <3> QED
      BY <3>1, <3>2
  <2> QED
    BY <2>1 DEF Uses
<1>7. LockChoice
  BY <1>6 DEF LockChoice, Levels
<1>8. TakenIsHeld
  BY DEF TakenIsHeld, Init
<1> QED
  BY <1>1, <1>3, <1>4, <1>5, <1>7, <1>8 DEF OutputInv

\* A call starts: ser_printf, or panic.
LEMMA CallOutput ==
    ASSUME OutputInv, NEW c \in Cores, NEW l \in Levels, ser_printf(c, l) \/ panic(c, l)
    PROVE  /\ WindowTypeOK' /\ WindowInv' /\ \A d \in Cores : HandlerWalk(d)'
           /\ LockChoice' /\ TakenIsHeld'
<1>1. /\ TypeOK /\ WindowTypeOK /\ WindowInv /\ LockChoice /\ TakenIsHeld
      /\ \A d \in Cores : HandlerWalk(d)
  BY DEF OutputInv
<1>2. /\ Goto(c, l, "open_dir") /\ act[c][l].pc = "idle" /\ UNCHANGED <<window, tlb, overlap>>
      /\ dat' = dat \/ dat' = [dat EXCEPT !["kprintf_lock"] = FALSE, !["sprintf_lock"] = FALSE]
  BY DEF ser_printf, panic, MayCall, At
<1>3. Now(c, l, "open_dir", act[c][l].lock, act[c][l].mapped, act[c][l].outer)
  BY <1>1, <1>2, NowGoto
<1>4. Others(c, l) /\ act'[c][l].pc = "open_dir" /\ act'[c][l].outer = act[c][l].outer
  BY <1>3 DEF Now
<1>5. WindowTypeOK'
  BY <1>1, <1>2 DEF WindowTypeOK
<1>6. WindowInv' /\ \A d \in Cores : HandlerWalk(d)'
  BY <1>1, <1>2, <1>4, QuietWindows DEF Walking
<1>7. \A k \in Locks : Uses(c, l, k)' => Uses(c, l, k)
  BY <1>4 DEF Uses
<1>8. LockChoice'
  BY <1>1, <1>2, <1>4, <1>7, ChoiceKeeps
<1>9. \A k \in Locks : dat'[k] => dat[k]
  BY <1>1, <1>2 DEF TypeOK
<1>10. TakenIsHeld'
  BY <1>1, <1>2, <1>4, <1>9, HeldKeeps
<1> QED
  BY <1>5, <1>6, <1>8, <1>10

\* kprintf goes to its lock at once.
LEMMA KprintfOutput ==
    ASSUME OutputInv, NEW c \in Cores, kprintf(c)
    PROVE  /\ WindowTypeOK' /\ WindowInv' /\ \A d \in Cores : HandlerWalk(d)'
           /\ LockChoice' /\ TakenIsHeld'
<1> DEFINE a == [Idle EXCEPT !.pc = "lock", !.lock = "kprintf_lock"]
<1>1. /\ TypeOK /\ WindowTypeOK /\ WindowInv /\ LockChoice /\ TakenIsHeld
      /\ \A d \in Cores : HandlerWalk(d)
  BY DEF OutputInv
<1>2. Thread \in Levels
  BY DEF Levels
<1>3. /\ act' = [act EXCEPT ![c][Thread] = a] /\ act[c][Thread].pc = "idle"
      /\ UNCHANGED <<dat, window, tlb, overlap>>
  BY DEF kprintf, MayCall, At
<1>4. a.pc = "lock" /\ a.lock = "kprintf_lock" /\ a.outer = <<>>
  BY DEF Idle
<1> HIDE DEF a
<1>5. Others(c, Thread) /\ act'[c][Thread] = a
  BY <1>1, <1>2, <1>3, NowBy
<1>6. WindowTypeOK'
  BY <1>1, <1>3 DEF WindowTypeOK
<1>7. WindowInv' /\ \A d \in Cores : HandlerWalk(d)'
  BY <1>1, <1>2, <1>3, <1>4, <1>5, QuietWindows DEF Walking
<1>8. \A k \in Locks : Uses(c, Thread, k)' => k # "irq_sprintf_lock"
  BY <1>4, <1>5, SMTT(30) DEF Uses
<1>9. LockChoice'
  BY <1>1, <1>2, <1>3, <1>5, <1>8, ChoiceKeeps
<1>10. TakenIsHeld'
  BY <1>1, <1>2, <1>3, <1>5, HeldKeeps
<1> QED
  BY <1>6, <1>7, <1>9, <1>10

\* The walk of is_mapped, and the locks.
LEMMA StepWindows ==
    ASSUME TypeOK, WindowTypeOK, WindowInv, \A d \in Cores : HandlerWalk(d),
           NEW c \in Cores, NEW l \in Levels, Step(c, l)
    PROVE  WindowTypeOK' /\ WindowInv' /\ \A d \in Cores : HandlerWalk(d)'
<1>1. CASE \/ open_dir(c, l) \/ read_dir(c, l) \/ open_table(c, l)
           \/ read_table(c, l) \/ close_table(c, l) \/ close_dir(c, l)
  BY <1>1, OpenDirWindows, ReadDirWindows, OpenTableWindows, ReadTableWindows,
     CloseTableWindows, CloseDirWindows
<1>2. ASSUME Others(c, l), act[c][l].pc \notin Walking, act'[c][l].pc \notin Walking,
             UNCHANGED <<window, tlb, overlap>>
      PROVE  WindowTypeOK' /\ WindowInv' /\ \A d \in Cores : HandlerWalk(d)'
  <2>1. WindowTypeOK'
    BY <1>2 DEF WindowTypeOK
  <2> QED
    BY <1>2, <2>1, QuietWindows
<1>3. CASE spinlock_lock(c, l)
  <2>1. Now(c, l, "print", act[c][l].lock, act[c][l].mapped, act[c][l].outer)
    BY <1>3, NowGoto DEF spinlock_lock
  <2>2. act[c][l].pc = "lock" /\ UNCHANGED <<window, tlb, overlap>>
    BY <1>3 DEF spinlock_lock, At
  <2> QED
    BY <1>2, <2>1, <2>2 DEF Now, Walking
<1>4. CASE deadlock(c, l)
  <2> DEFINE o == <<[lock |-> act[c][l].lock, more |-> 1]>> \o act[c][l].outer
  <2>1. Now(c, l, "open_dir", act[c][l].lock, act[c][l].mapped, o)
    <3>1. act' = [act EXCEPT ![c][l].pc = "open_dir", ![c][l].outer = o]
      BY <1>4 DEF deadlock
    <3> QED
      BY <3>1, NowWarn
  <2>2. act[c][l].pc = "lock" /\ UNCHANGED <<window, tlb, overlap>>
    BY <1>4 DEF deadlock, At
  <2> HIDE DEF o
  <2> QED
    BY <1>2, <2>1, <2>2 DEF Now, Walking
<1>5. CASE spinlock_unlock(c, l)
  <2>1. Others(c, l) /\ act'[c][l] = Returned(act[c][l])
    BY <1>5, NowBy DEF spinlock_unlock
  <2>2. act[c][l].pc = "print" /\ UNCHANGED <<window, tlb, overlap>>
    BY <1>5 DEF spinlock_unlock, At
  <2>3. act[c][l] \in Acts
    BY DEF TypeOK
  <2>4. Returned(act[c][l]).pc \in {"idle", "open_dir", "lock"}
    BY <2>3 DEF Returned, Idle, Acts
  <2> QED
    BY <1>2, <2>1, <2>2, <2>4 DEF Walking
<1> QED
  BY <1>1, <1>3, <1>4, <1>5 DEF Step

\* The invariant is inductive.
LEMMA NextOutput == OutputInv /\ Exclusive /\ [Next]_vars => (OutputInv /\ Exclusive)'
<1> SUFFICES ASSUME OutputInv, Exclusive, [Next]_vars PROVE (OutputInv /\ Exclusive)'
  OBVIOUS
<1>1. /\ TypeOK /\ WindowTypeOK /\ WindowInv /\ LockChoice /\ TakenIsHeld
      /\ \A d \in Cores : HandlerWalk(d)
  BY DEF OutputInv
<1>2. TypeOK' /\ Exclusive'
  BY <1>1, NextExclusive
<1>3. ASSUME /\ WindowTypeOK' /\ WindowInv' /\ \A d \in Cores : HandlerWalk(d)'
             /\ LockChoice' /\ TakenIsHeld'
      PROVE  (OutputInv /\ Exclusive)'
  BY <1>2, <1>3 DEF OutputInv
<1>4. CASE \E c \in Cores, l \in Levels : ser_printf(c, l) \/ panic(c, l)
  BY <1>3, <1>4, CallOutput
<1>5. CASE \E c \in Cores, l \in Levels : Step(c, l)
  BY <1>1, <1>3, <1>5, StepWindows, StepChoice, StepHeld
<1>6. CASE \E c \in Cores : kprintf(c)
  BY <1>3, <1>6, KprintfOutput
<1>7. CASE \/ UNCHANGED vars
           \/ \E c \in Cores, l \in Levels : PanicAgain(c, l)
           \/ \E c \in Cores : Halt(c) \/ StopOther(c)
  <2>1. UNCHANGED <<dat, act, window, tlb, overlap>>
    BY <1>7 DEF PanicAgain, Halt, StopOther, vars
  <2>2. WindowTypeOK' /\ WindowInv'
    BY <1>1, <2>1 DEF WindowTypeOK, WindowInv, InWalk
  <2>3. \A d \in Cores : HandlerWalk(d)'
    BY <1>1, <2>1 DEF HandlerWalk, InWalk
  <2>4. LockChoice'
    BY <1>1, <2>1 DEF LockChoice, Uses
  <2>5. TakenIsHeld'
    BY <1>1, <2>1 DEF TakenIsHeld, Held, Printing
  <2> QED
    BY <1>3, <2>2, <2>3, <2>4, <2>5
<1> QED
  BY <1>4, <1>5, <1>6, <1>7 DEF Next

\* The windows, the walks and the choice of locks are always as OutputInv says.
LEMMA OutputInvariance == Spec => []OutputInv
<1>1. Init => OutputInv /\ Exclusive
  BY InitOutput, InitExclusive
<1>2. OutputInv /\ Exclusive /\ [Next]_vars => (OutputInv /\ Exclusive)'
  BY NextOutput
<1> QED
  BY <1>1, <1>2, PTL DEF Spec

\* A handler spins on a lock of its own core only after a walk of another core
\* has overlapped its own: without that it takes irq_sprintf_lock, which no
\* thread, not even through a warning of deadlock_handler, ever takes.
THEOREM SelfDeadlockNeedsOverlap == Spec => []SelfDeadlockIsTheRace
<1>1. OutputInv => SelfDeadlockIsTheRace
  <2> SUFFICES ASSUME OutputInv, NEW c \in Cores, act[c][Irq].pc = "lock",
                      Printing(c, Thread, act[c][Irq].lock)
               PROVE  overlap[c]
    BY DEF SelfDeadlockIsTheRace
  <2> DEFINE k == act[c][Irq].lock
  <2>1. k \in Locks
    BY DEF OutputInv, TypeOK, Levels
  <2>2. Uses(c, Irq, k) /\ Uses(c, Thread, k)
    BY DEF Uses, Printing
  <2> QED
    BY <2>1, <2>2 DEF OutputInv, LockChoice
<1> QED
  BY <1>1, OutputInvariance, PTL

\* While a call waits for a lock some call is on its way, for any number of
\* cores, calls and nested warnings, unless a core has halted or the walk of a
\* handler was overlapped: the lock has a holder, a holder that is interrupted
\* has a handler on top of it, and the lock that handler may wait for is one
\* that only handlers hold, which nothing interrupts.
THEOREM SomeCallMoves == Spec => []NotAllWait
<1>1. OutputInv => NotAllWait
  <2> SUFFICES ASSUME OutputInv, NEW c \in Cores, NEW l \in Levels, Waits(c, l),
                      halted = {}, \A d \in Cores : ~overlap[d]
               PROVE  \E d \in Cores, m \in Levels :
                          Runs(d, m) /\ act[d][m].pc # "idle" /\ ~Waits(d, m)
    BY DEF NotAllWait
  <2>1. TypeOK /\ LockChoice /\ TakenIsHeld
    BY DEF OutputInv
  <2>2. Thread \in Levels /\ Irq \in Levels /\ Thread # Irq /\ Levels = {Thread, Irq}
    BY SMTT(30) DEF Levels, Thread, Irq
  <2>3. ASSUME NEW d \in Cores, NEW m \in Levels, Waits(d, m)
        PROVE  /\ act[d][m].lock \in Locks /\ Uses(d, m, act[d][m].lock)
               /\ \E e \in Cores, n \in Levels : Printing(e, n, act[d][m].lock)
    <3>1. act[d][m].pc = "lock" /\ dat[act[d][m].lock]
      BY <2>3 DEF Waits, At
    <3>2. act[d][m].lock \in Locks
      BY <2>1, <3>1 DEF TypeOK
    <3> QED
      BY <2>1, <3>1, <3>2 DEF Uses, TakenIsHeld, Held
  <2>4. ASSUME NEW d \in Cores, NEW m \in Levels, NEW k \in Locks, Printing(d, m, k)
        PROVE  act[d][m].pc # "idle" /\ ~Waits(d, m) /\ Uses(d, m, k)
    BY <2>4 DEF Printing, Waits, At, Uses
  <2>5. \A d \in Cores : Runs(d, Irq)
    BY <2>2 DEF Runs
  <2>6. PICK d \in Cores, m \in Levels : Printing(d, m, act[c][l].lock)
    BY <2>3
  <2>7. act[c][l].lock \in Locks
    BY <2>3
  <2>8. CASE Runs(d, m)
    BY <2>4, <2>6, <2>7, <2>8
  <2>9. CASE ~Runs(d, m) /\ ~Waits(d, Irq)
    <3>1. act[d][Irq].pc # "idle"
      BY <2>9 DEF Runs
    <3> QED
      BY <2>2, <2>5, <2>9, <3>1
  <2>10. CASE Waits(d, Irq)
    <3>1. act[d][Irq].lock = "irq_sprintf_lock"
      BY <2>1, <2>2, <2>3, <2>10 DEF LockChoice
    <3>2. PICK e \in Cores, n \in Levels : Printing(e, n, "irq_sprintf_lock")
      BY <2>2, <2>3, <2>10, <3>1, SMTT(30)
    <3>3. "irq_sprintf_lock" \in Locks
      BY DEF Locks
    <3>4. n = Irq
      BY <2>1, <2>2, <2>4, <3>2, <3>3 DEF LockChoice
    <3> QED
      BY <2>2, <2>4, <2>5, <3>2, <3>3, <3>4
  <2> QED
    BY <2>8, <2>9, <2>10
<1> QED
  BY <1>1, OutputInvariance, PTL
=============================================================================
