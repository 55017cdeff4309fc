--------------------------------- MODULE Output --------------------------------
(***************************************************************************)
(* Printing: the spin locks of lock_asm.s, ser_printf and kprintf, called  *)
(* by the thread of a core and by an interrupt handler on top of it, and   *)
(* panic.  ser_printf asks is_mapped whether the core's locals may be read *)
(* before it looks whether it runs in an interrupt; the walk goes through  *)
(* the two windows of vmm.c, which all cores share without a lock.         *)
(***************************************************************************)
EXTENDS Integers, Sequences, FiniteSets

CONSTANTS Cores,
          Prints,        \* bound on the calls of a thread, and of a handler
          Warnings       \* bound on the calls of deadlock_handler

ASSUME OutputAssumption == Prints \in Nat /\ Warnings \in Nat

VARIABLES
    dat,       \* lock |-> it is taken
    act,       \* core |-> level |-> the call that runs there
    window,    \* window |-> what its entry in _base_table shows
    tlb,       \* core |-> window |-> the translation it holds
    left,      \* core |-> level |-> the calls still to come
    warnings,  \* the calls of deadlock_handler still to come
    panicked,  \* the cores that have called panic: at most one
    halted,    \* the cores that have stopped
    overlap    \* history: core |-> another core used the windows during the walk
               \* of its handler

vars == <<dat, act, window, tlb, left, warnings, panicked, halted, overlap>>

Locks == {"sprintf_lock", "irq_sprintf_lock", "kprintf_lock"}
Windows == {"dir", "table"}
Thread == 0
Irq == 1
Levels == {Thread, Irq}
Walking == {"read_dir", "open_table", "read_table", "close_table", "close_dir"}
Idle == [pc |-> "idle", lock |-> "", mapped |-> FALSE, outer |-> <<>>]

PCs == Walking \cup {"idle", "open_dir", "lock", "print"}
Acts == [pc : PCs, lock : Locks \cup {""}, mapped : BOOLEAN,
         outer : Seq([lock : Locks, more : Nat])]

TypeOK ==
    /\ dat \in [Locks -> BOOLEAN]
    /\ act \in [Cores -> [Levels -> Acts]]
    /\ \A c \in Cores, l \in Levels : act[c][l].pc \in {"lock", "print"} => act[c][l].lock \in Locks

\* A handler runs on top of the thread.
Runs(c, l) == c \notin halted /\ (l = Thread => act[c][Irq].pc = "idle")
At(c, l, pc) == Runs(c, l) /\ act[c][l].pc = pc
Goto(c, l, pc) == act' = [act EXCEPT ![c][l].pc = pc]
InWalk(c) == \E l \in Levels : act[c][l].pc \in Walking

Init ==
    /\ dat = [k \in Locks |-> FALSE]
    /\ act = [c \in Cores |-> [l \in Levels |-> Idle]]
    /\ window = [w \in Windows |-> "self"]
    /\ tlb = [c \in Cores |-> [w \in Windows |-> "none"]]
    /\ left = [c \in Cores |-> [l \in Levels |-> Prints]]
    /\ warnings = Warnings
    /\ panicked = {} /\ halted = {}
    /\ overlap = [c \in Cores |-> FALSE]

-----------------------------------------------------------------------------
(* Calls.  A thread prints with ser_printf and kprintf, a handler with     *)
(* ser_printf; handlers run with interrupts disabled, panic disables them. *)

MayCall(c, l) == At(c, l, "idle") /\ left[c][l] > 0 /\ c \notin panicked
Called(c, l) == left' = [left EXCEPT ![c][l] = @ - 1]

ser_printf(c, l) ==
    /\ MayCall(c, l) /\ Called(c, l)
    /\ Goto(c, l, "open_dir")
    /\ UNCHANGED <<dat, window, tlb, warnings, panicked, halted, overlap>>

kprintf(c) ==
    /\ MayCall(c, Thread) /\ Called(c, Thread)
    /\ act' = [act EXCEPT ![c][Thread] = [Idle EXCEPT !.pc = "lock", !.lock = "kprintf_lock"]]
    /\ UNCHANGED <<dat, window, tlb, warnings, panicked, halted, overlap>>

\* The first panic takes the locks away from whoever has them, and prints.
panic(c, l) ==
    /\ MayCall(c, l) /\ Called(c, l) /\ panicked = {}
    /\ panicked' = {c}
    /\ dat' = [dat EXCEPT !["kprintf_lock"] = FALSE, !["sprintf_lock"] = FALSE]
    /\ Goto(c, l, "open_dir")
    /\ UNCHANGED <<window, tlb, warnings, halted, overlap>>

\* Any later panic only stops its core: the counter is past 1 when it is compared
\* with 1, so that the second message is never printed.
PanicAgain(c, l) ==
    /\ MayCall(c, l) /\ panicked # {}
    /\ halted' = halted \cup {c}
    /\ UNCHANGED <<dat, act, window, tlb, left, warnings, panicked, overlap>>

\* sched_panic, after the message: the core halts, and the others as soon as
\* they take the interrupt.
Halt(c) ==
    /\ c \in panicked /\ \A l \in Levels : act[c][l].pc = "idle"
    /\ halted' = halted \cup {c}
    /\ UNCHANGED <<dat, act, window, tlb, left, warnings, panicked, overlap>>

StopOther(c) ==
    /\ panicked # {} /\ panicked \subseteq halted
    /\ act[c][Irq].pc = "idle" /\ c \notin halted
    /\ halted' = halted \cup {c}
    /\ UNCHANGED <<dat, act, window, tlb, left, warnings, panicked, overlap>>

-----------------------------------------------------------------------------
(* is_mapped.  Behind a window that shows itself there is its own page,    *)
(* in which _dir has no entry for the locals, and _table any.              *)

Seen(c, w) == IF tlb[c][w] # "none" THEN tlb[c][w] ELSE window[w]
Hold(c, w) == tlb' = [tlb EXCEPT ![c][w] = Seen(c, w)]

\* The entry is written, and the translation dropped, unless it is right.
Show(c, w, what) ==
    IF window[w] = what THEN UNCHANGED <<window, tlb>>
    ELSE /\ window' = [window EXCEPT ![w] = what]
         /\ tlb' = [tlb EXCEPT ![c][w] = "none"]

open_dir(c, l) ==
    /\ At(c, l, "open_dir")
    /\ Show(c, "dir", "tables")
    /\ Goto(c, l, "read_dir")
    /\ overlap' = [d \in Cores |->
                     \/ overlap[d]
                     \/ d = c /\ l = Irq /\ \E e \in Cores \ {c} : InWalk(e)
                     \/ d # c /\ act[d][Irq].pc \in Walking]
    /\ UNCHANGED <<dat, left, warnings, panicked, halted>>

read_dir(c, l) ==
    /\ At(c, l, "read_dir")
    /\ Hold(c, "dir")
    /\ act' = [act EXCEPT ![c][l].pc = IF Seen(c, "dir") = "self" THEN "close_table"
                                                                  ELSE "open_table",
                          ![c][l].mapped = FALSE]
    /\ UNCHANGED <<dat, window, left, warnings, panicked, halted, overlap>>

open_table(c, l) ==
    /\ At(c, l, "open_table")
    /\ Show(c, "table", "tables")
    /\ Goto(c, l, "read_table")
    /\ UNCHANGED <<dat, left, warnings, panicked, halted, overlap>>

read_table(c, l) ==
    /\ At(c, l, "read_table")
    /\ Hold(c, "table")
    /\ \E found \in BOOLEAN :
           /\ Seen(c, "table") # "self" => found
           /\ act' = [act EXCEPT ![c][l].pc = "close_table", ![c][l].mapped = found]
    /\ UNCHANGED <<dat, window, left, warnings, panicked, halted, overlap>>

close_table(c, l) ==
    /\ At(c, l, "close_table")
    /\ Show(c, "table", "self")
    /\ Goto(c, l, "close_dir")
    /\ UNCHANGED <<dat, left, warnings, panicked, halted, overlap>>

\* Mutant: the walk is left out, and with it the question where we are.
Chosen_OneLock(c, l) == "sprintf_lock"

\* The lock ser_printf takes.
Chosen(c, l) ==
    IF act[c][l].mapped /\ l = Irq THEN "irq_sprintf_lock" ELSE "sprintf_lock"

close_dir(c, l) ==
    /\ At(c, l, "close_dir")
    /\ Show(c, "dir", "self")
    /\ act' = [act EXCEPT ![c][l].pc = "lock", ![c][l].lock = Chosen(c, l)]
    /\ UNCHANGED <<dat, left, warnings, panicked, halted, overlap>>

-----------------------------------------------------------------------------
(* The locks.                                                              *)

\* Mutant: the bit is tested, and set in a second step that does not look.
spinlock_lock_NoTest(c, l) ==
    /\ At(c, l, "lock")
    /\ dat' = [dat EXCEPT ![act[c][l].lock] = TRUE]
    /\ Goto(c, l, "print")
    /\ UNCHANGED <<window, tlb, left, warnings, panicked, halted, overlap>>

\* lock bts; while the bit is set the core spins.
spinlock_lock(c, l) ==
    /\ At(c, l, "lock") /\ ~dat[act[c][l].lock]
    /\ dat' = [dat EXCEPT ![act[c][l].lock] = TRUE]
    /\ Goto(c, l, "print")
    /\ UNCHANGED <<window, tlb, left, warnings, panicked, halted, overlap>>

\* deadlock_handler, after spinning for long: two messages through ser_printf,
\* and the core spins on.
deadlock(c, l) ==
    /\ At(c, l, "lock") /\ dat[act[c][l].lock]
    /\ warnings > 0 /\ warnings' = warnings - 1
    /\ act' = [act EXCEPT ![c][l].pc = "open_dir",
                          ![c][l].outer = <<[lock |-> act[c][l].lock, more |-> 1]>> \o @]
    /\ UNCHANGED <<dat, window, tlb, left, panicked, halted, overlap>>

\* A call returns, to its caller or to deadlock_handler, which prints its second
\* message or goes on spinning.
Returned(a) ==
    IF a.outer = <<>> THEN Idle
    ELSE IF Head(a.outer).more > 0
    THEN [a EXCEPT !.pc = "open_dir", !.outer[1].more = @ - 1]
    ELSE [a EXCEPT !.pc = "lock", !.lock = Head(a.outer).lock, !.outer = Tail(a.outer)]

\* Mutant: the lock is not given back.
spinlock_unlock_Not(c, l) ==
    /\ At(c, l, "print")
    /\ act' = [act EXCEPT ![c][l] = Returned(act[c][l])]
    /\ UNCHANGED <<dat, window, tlb, left, warnings, panicked, halted, overlap>>

\* The message is out and the lock given back.
spinlock_unlock(c, l) ==
    /\ At(c, l, "print")
    /\ dat' = [dat EXCEPT ![act[c][l].lock] = FALSE]
    /\ act' = [act EXCEPT ![c][l] = Returned(act[c][l])]
    /\ UNCHANGED <<window, tlb, left, warnings, panicked, halted, overlap>>

Step(c, l) ==
    \/ open_dir(c, l)
    \/ read_dir(c, l)
    \/ open_table(c, l)
    \/ read_table(c, l)
    \/ close_table(c, l)
    \/ close_dir(c, l)
    \/ spinlock_lock(c, l)
    \/ deadlock(c, l)
    \/ spinlock_unlock(c, l)

Next ==
    \/ \E c \in Cores, l \in Levels :
           ser_printf(c, l) \/ panic(c, l) \/ PanicAgain(c, l) \/ Step(c, l)
    \/ \E c \in Cores : kprintf(c) \/ Halt(c) \/ StopOther(c)

Spec == Init /\ [][Next]_vars

-----------------------------------------------------------------------------
(* What printing promises.                                                 *)

Printing(c, l, k) == act[c][l].pc = "print" /\ act[c][l].lock = k
Held(k) == \E c \in Cores, l \in Levels : Printing(c, l, k)

\* Until a panic takes the locks away, the messages under one lock do not mix:
\* one call at a time is between spinlock_lock and spinlock_unlock, whether of
\* the same core or of another, and the lock is taken exactly while there is one.
Exclusive ==
    panicked = {} =>
        /\ \A k \in Locks : dat[k] <=> Held(k)
        /\ \A k \in Locks, c, d \in Cores : \A l, m \in Levels :
               Printing(c, l, k) /\ Printing(d, m, k) => c = d /\ l = m

\* A handler that spins on a lock its own core holds never gets it.  Before a
\* panic this is so only if is_mapped answered it wrongly, and that takes another
\* core that used the windows at the same time: on one core, a handler that
\* prints in the middle of a print, or in the middle of a walk, is safe.
SelfDeadlockIsTheRace ==
    \A c \in Cores :
        panicked = {} /\ act[c][Irq].pc = "lock" /\ Printing(c, Thread, act[c][Irq].lock)
            => overlap[c]

Waits(c, l) == At(c, l, "lock") /\ dat[act[c][l].lock]

\* Printing never comes to a halt by itself: while a call waits for a lock some
\* other call is on its way, unless a core that halted after a panic, or the
\* deadlock above, keeps the lock for good.  This holds for nested warnings of
\* deadlock_handler, which take locks while their caller waits for one, and for
\* the message of a panic.
NotAllWait ==
    (\E c \in Cores, l \in Levels : Waits(c, l)) =>
        \/ \E c \in Cores, l \in Levels : Runs(c, l) /\ act[c][l].pc # "idle" /\ ~Waits(c, l)
        \/ halted # {}
        \/ \E c \in Cores : overlap[c]

-----------------------------------------------------------------------------
(* The inductive invariant.                                                *)

\* What the entries of the windows and the translations of them may be.
WindowTypeOK ==
    /\ window \in [Windows -> {"self", "tables"}]
    /\ tlb \in [Cores -> [Windows -> {"none", "self", "tables"}]]
    /\ overlap \in [Cores -> BOOLEAN]

\* A window is open only during a walk of the core that opened it, and that core
\* does not hold a translation from before.
WindowInv ==
    /\ window["dir"] = "tables" =>
           \E e \in Cores : InWalk(e) /\ tlb[e]["dir"] # "self"
    /\ window["table"] = "tables" =>
           \E e \in Cores : /\ tlb[e]["table"] # "self"
                           /\ \E l \in Levels : act[e][l].pc \in {"read_table", "close_table"}

\* A handler whose walk no other core has overlapped is alone with the windows:
\* it reads what it has opened, and finds the locals.
HandlerWalk(c) ==
    ~overlap[c] =>
        /\ act[c][Irq].pc \in Walking => \A e \in Cores \ {c} : ~InWalk(e)
        /\ act[c][Irq].pc = "read_dir" => window["dir"] = "tables" /\ tlb[c]["dir"] # "self"
        /\ act[c][Irq].pc = "read_table" => window["table"] = "tables" /\ tlb[c]["table"] # "self"
        /\ act[c][Irq].pc \in {"close_table", "close_dir"} => act[c][Irq].mapped

\* The call that runs at a level, or one that it interrupted with a warning, has
\* taken lock k or waits for it.
Uses(c, l, k) ==
    \/ act[c][l].pc \in {"lock", "print"} /\ act[c][l].lock = k
    \/ \E i \in DOMAIN act[c][l].outer : act[c][l].outer[i].lock = k

\* Threads keep away from the lock of the handlers, and a handler from the locks
\* of the threads unless its walk was overlapped.
LockChoice ==
    \A c \in Cores, k \in Locks :
        /\ Uses(c, Thread, k) => k # "irq_sprintf_lock"
        /\ Uses(c, Irq, k) => k = "irq_sprintf_lock" \/ overlap[c]

\* A lock that is taken, also after a panic, has a call that will give it back.
TakenIsHeld == \A k \in Locks : dat[k] => Held(k)

OutputInv ==
    /\ TypeOK /\ WindowTypeOK /\ WindowInv
    /\ \A c \in Cores : HandlerWalk(c)
    /\ LockChoice /\ TakenIsHeld
=============================================================================
