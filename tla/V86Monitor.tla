------------------------------- MODULE V86Monitor -------------------------------
(***************************************************************************)
(* The monitor of virtual 8086 mode: v86_monitor executes the instructions *)
(* that 16-bit code may not execute itself, on the frame of the general    *)
(* protection fault, with a virtual interrupt flag kept in the thread.     *)
(*                                                                         *)
(* The 16-bit code is a BIOS that nests properly: it executes POPF and     *)
(* IRET only on what PUSHF and INT have left, with the same operand size,  *)
(* and leaves by INT 3 with the stack it started with.  Memory is counted  *)
(* in units of 16 bits.                                                    *)
(***************************************************************************)
EXTENDS Integers, Sequences

CONSTANTS SegSize,    \* 2^15, the units of a segment
          Start,      \* sp when 16-bit code is entered
          IpSize,     \* 2^16
          ivt,        \* for each interrupt number but 3, [seg, off]
          Segs, Arith,       \* segments of code, values of the other flags
          MaxFrames   \* bound on nesting

ASSUME MonitorAssumption ==
    /\ SegSize \in Nat /\ Start \in 0 .. SegSize - 1 /\ IpSize \in Nat \ {0}
    /\ 4 * MaxFrames <= SegSize /\ MaxFrames \in Nat
    /\ \A n \in DOMAIN ivt : ivt[n] \in [seg : Segs, off : 0 .. IpSize - 1]

VARIABLES
    mode,        \* "v86", "kernel" in v86_exit and v86_enter, or "panic"
    cs, eip, esp, eflags,       \* the frame: locals->irq_regs
    v86_if,      \* thread->flags.v86_if
    mem,         \* the stack segment, and the unit that follows it
    frames       \* history: what is on the stack, and how deep it lies

regs == <<cs, eip, esp, eflags>>
monitorVars == <<mode, regs, v86_if, mem, frames>>

EFlags == [arith : Arith, if : BOOLEAN, vm : BOOLEAN]

\* The lower and the upper half of the flags.
Low(e) == [arith |-> e.arith, if |-> e.if]
High(e) == [vm |-> e.vm]

MonitorInit ==
    /\ mode = "kernel" /\ esp = Start /\ v86_if = FALSE /\ frames = <<>>
    /\ cs \in Segs /\ eip = 0
    /\ eflags \in [arith : Arith, if : {TRUE}, vm : {FALSE}]
    /\ mem = [u \in 0 .. SegSize |-> 0]

-----------------------------------------------------------------------------

\* Mutant: sp does not wrap.
PushSp_Wide(sp, vs) == sp - Len(vs)

\* v86_push of the units vs (one, or two with the lower half first): sp wraps at
\* 16 bits, but the upper half of a 32-bit value does not.
PushSp(sp, vs) == (sp - Len(vs)) % SegSize
PushMem(m, sp, vs) ==
    [u \in DOMAIN m |-> IF u - PushSp(sp, vs) + 1 \in DOMAIN vs
                        THEN vs[u - PushSp(sp, vs) + 1] ELSE m[u]]

\* v86_pop of n units: the value and the new sp.
Popped(sp, n) == [k \in 1 .. n |-> mem[sp + k - 1]]
PopSp(sp, n) == (sp + n) % SegSize

\* What has been popped is forgotten: nested code never reads it again.
Forget(units) == [u \in DOMAIN mem |-> IF u \in units THEN 0 ELSE mem[u]]

\* v86_get_ip_byte, n times.
Skip(n) == (eip + n) % IpSize

\* The flags that PUSHF and INT store.
VirtualFlags == [arith |-> eflags.arith, if |-> v86_if, vm |-> TRUE]

\* Mutant: the bits 0x20002 are not added.
LoadedFlags_Raw(vs) ==
    [arith |-> vs[1].arith, if |-> vs[1].if, vm |-> Len(vs) = 2 /\ vs[2].vm]

\* The flags that POPF and IRET load: bit 17 (VM) is always set.
LoadedFlags(vs) == [arith |-> vs[1].arith, if |-> vs[1].if, vm |-> TRUE]

\* A value of n units, and the prefix 0x66 of 32-bit operands.
Sizes == {1, 2}
Prefix(n) == n - 1

\* The units in use below the stack the 16-bit code was entered with.
Depth == IF frames = <<>> THEN 0 ELSE frames[1].depth + frames[1].size

Units(e, n) == IF n = 1 THEN <<Low(e)>> ELSE <<Low(e), High(e)>>

-----------------------------------------------------------------------------

\* v86_call_generic_int and _enter_v86: VM = 1, IOPL = 0, IF = 1.
Enter ==
    /\ mode = "kernel" /\ mode' = "v86"
    /\ cs' \in Segs /\ eip' = 0 /\ esp' = Start
    /\ eflags' = [eflags EXCEPT !.if = TRUE, !.vm = TRUE]
    /\ UNCHANGED <<v86_if, mem, frames>>

\* An instruction that needs no monitor; it may change the other flags.
Unprivileged ==
    /\ mode = "v86"
    /\ \E x \in Arith : eflags' = [eflags EXCEPT !.arith = x]
    /\ eip' = Skip(1)
    /\ UNCHANGED <<mode, cs, esp, v86_if, mem, frames>>

\* PUSHF
Pushf(n) ==
    /\ mode = "v86" /\ Len(frames) < MaxFrames
    /\ eip' = Skip(1 + Prefix(n))
    /\ esp' = PushSp(esp, Units(VirtualFlags, n))
    /\ mem' = PushMem(mem, esp, Units(VirtualFlags, n))
    /\ frames' = <<[kind |-> "flags", size |-> n, depth |-> Depth, if |-> v86_if,
                    arith |-> eflags.arith]>> \o frames
    /\ UNCHANGED <<mode, cs, eflags, v86_if>>

\* POPF
Popf(n) ==
    /\ mode = "v86" /\ frames # <<>> /\ frames[1].kind = "flags" /\ frames[1].size = n
    /\ eip' = Skip(1 + Prefix(n))
    /\ esp' = PopSp(esp, n)
    /\ eflags' = LoadedFlags(Popped(esp, n))
    /\ v86_if' = eflags'.if
    /\ mem' = Forget(esp .. esp + n - 1)
    /\ frames' = Tail(frames)
    /\ UNCHANGED <<mode, cs>>

\* Mutant: the return address is pushed before INT has been stepped over.
IntFrame_Ip(n) == <<Skip(1 + Prefix(n)), 0>>

\* The return address that INT n pushes.
IntFrame(n) == <<Skip(2 + Prefix(n)), 0>>

\* INT n: 16 bits of flags, 16 bits of cs, 32 bits of eip, whatever the prefix.
Interrupt(v, n) ==
    LET sp1 == PushSp(esp, <<0>>)
        sp2 == PushSp(sp1, <<0>>)
        m1 == PushMem(mem, esp, <<Low(VirtualFlags)>>)
        m2 == PushMem(m1, sp1, <<cs>>)
    IN
    /\ mode = "v86" /\ Len(frames) < MaxFrames
    /\ mem' = PushMem(m2, sp2, IntFrame(n))
    /\ esp' = PushSp(sp2, IntFrame(n))
    /\ cs' = ivt[v].seg /\ eip' = ivt[v].off
    /\ frames' = <<[kind |-> "int", size |-> 4, depth |-> Depth, if |-> v86_if,
                    arith |-> eflags.arith, cs |-> cs, eip |-> Skip(2 + Prefix(n))]>> \o frames
    /\ UNCHANGED <<mode, eflags, v86_if>>

\* The size of eip on the stack.
IpUnits == 2

\* IRET
Iret ==
    LET sp1 == PopSp(esp, IpUnits)
        sp2 == PopSp(sp1, 1)
    IN
    /\ mode = "v86" /\ frames # <<>> /\ frames[1].kind = "int"
    /\ eip' = Popped(esp, IpUnits)[1]
    /\ cs' = Popped(sp1, 1)[1]
    /\ eflags' = LoadedFlags(Popped(sp2, 1))
    /\ esp' = PopSp(sp2, 1)
    /\ v86_if' = eflags'.if
    /\ mem' = Forget((esp .. esp + IpUnits - 1) \cup {sp1, sp2})
    /\ frames' = Tail(frames)
    /\ UNCHANGED mode

\* CLI and STI change the virtual flag only.
SetIf(b) ==
    /\ mode = "v86"
    /\ v86_if' = b
    /\ eip' = Skip(1)
    /\ UNCHANGED <<mode, cs, esp, eflags, mem, frames>>

\* Mutant: the flags of the 16-bit code stay.
ExitFlags_Keep == [eflags EXCEPT !.vm = FALSE]

\* eflags = 0x202
ExitFlags == [eflags EXCEPT !.if = TRUE, !.vm = FALSE]

\* INT 3: the frame returns to _exit_v86 in the kernel, which gets esp.
Exit ==
    /\ mode = "v86" /\ frames = <<>>
    /\ mode' = "kernel"
    /\ eflags' = ExitFlags
    /\ UNCHANGED <<cs, eip, esp, v86_if, mem, frames>>

\* Any other instruction that faults.
Unhandled ==
    /\ mode = "v86" /\ mode' = "panic"
    /\ UNCHANGED <<regs, v86_if, mem, frames>>

MonitorNext ==
    \/ Enter \/ Unprivileged \/ Iret \/ Exit \/ Unhandled
    \/ \E n \in Sizes : Pushf(n) \/ Popf(n) \/ \E v \in DOMAIN ivt : Interrupt(v, n)
    \/ \E b \in BOOLEAN : SetIf(b)

MonitorSpec == MonitorInit /\ [][MonitorNext]_monitorVars

-----------------------------------------------------------------------------
(* Properties.                                                             *)

\* Segment offsets stay within 16 bits.
MonitorTypeOK ==
    /\ mode \in {"v86", "kernel", "panic"}
    /\ cs \in Segs /\ eip \in 0 .. IpSize - 1 /\ esp \in 0 .. SegSize - 1
    /\ eflags \in EFlags /\ v86_if \in BOOLEAN
    /\ DOMAIN mem = 0 .. SegSize /\ Len(frames) <= MaxFrames

\* 16-bit code runs with the VM flag set, whatever it loads into the flags, so
\* that the end of the interrupt returns to virtual 8086 mode.
StaysVirtual == mode = "v86" => eflags.vm

\* v86_exit runs in the kernel with interrupts enabled, whatever the 16-bit code
\* left, and finds the registers that were pushed for it.
KernelContext == mode = "kernel" => eflags.if /\ ~eflags.vm /\ esp = Start

\* IRET resumes the code that executed INT right behind it, and together with
\* POPF restores the flags it found, the virtual interrupt flag included, also
\* when the stack wraps around the end of the segment.
Resumes ==
    [][Len(frames') < Len(frames) =>
          LET top == frames[1] IN
          /\ v86_if' = top.if /\ eflags'.arith = top.arith
          /\ top.kind = "int" => cs' = top.cs /\ eip' = top.eip]_monitorVars

-----------------------------------------------------------------------------
(* The inductive invariant.                                                *)

\* The unit that lies at a depth: the stack wraps around the segment once.
Loc(d) == IF d <= Start THEN Start - d ELSE Start - d + SegSize

Frames ==
    [kind : {"flags"}, size : Sizes, depth : Nat, if : BOOLEAN, arith : Arith]
    \cup [kind : {"int"}, size : {4}, depth : Nat, if : BOOLEAN, arith : Arith,
          cs : Segs, eip : 0 .. IpSize - 1]

\* What POPF and IRET will read of a frame is in memory m.
Stored(m, f) ==
    LET flags == [arith |-> f.arith, if |-> f.if] IN
    IF f.kind = "int"
    THEN /\ m[Loc(f.depth + 4)] = f.eip
         /\ m[Loc(f.depth + 2)] = f.cs
         /\ m[Loc(f.depth + 1)] = flags
    ELSE m[Loc(f.depth + f.size)] = flags

\* The frames lie one below the other, without overlap, down to sp.
StackOK ==
    /\ frames \in Seq(Frames) /\ esp = Loc(Depth)
    /\ \A k \in 1 .. Len(frames) :
           /\ frames[k].depth + frames[k].size <= 4 * (Len(frames) - k + 1)
           /\ frames[k].depth = IF k = Len(frames) THEN 0
                                ELSE frames[k + 1].depth + frames[k + 1].size
           /\ \A j \in 1 .. k - 1 : frames[k].depth + frames[k].size <= frames[j].depth
           /\ Stored(mem, frames[k])

MonitorInv ==
    /\ MonitorTypeOK /\ StaysVirtual /\ KernelContext /\ StackOK
    /\ mode = "kernel" => frames = <<>>
=============================================================================
