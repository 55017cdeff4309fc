-------------------------------- MODULE V86Calls --------------------------------
(***************************************************************************)
(* The queue of calls into 16-bit code.  kernel_thread, through the VESA   *)
(* driver, builds a v86_call_t on its stack and passes it to v86_call; the *)
(* thread of v86_enter serves the queue.  The two threads run on different *)
(* cores or preempt each other, and share the list and the call without a  *)
(* lock, so every access to them is a step of its own.                     *)
(*                                                                         *)
(* When v86_call has returned, the memory of the call is the stack of some *)
(* other function, and the next call may lie at the same address.          *)
(***************************************************************************)
EXTENDS Integers

CONSTANTS Addrs,        \* where a v86_call_t may lie on the caller's stack
          head,         \* v86_call_list.head
          NULL,
          IntNums, Regs \* interrupt numbers and register contents

Nodes == Addrs \cup {head}
Requests == [int_num : IntNums, regs : Regs]

\* External: what the interrupt of the BIOS leaves in the registers.
Answer(request) == [answer |-> request]

Contents == Regs \cup {Answer(r) : r \in Requests} \cup {NULL}

ASSUME AddrAssumption == head \notin Addrs /\ NULL \notin Addrs \cup {head}

VARIABLES
    next, prev,       \* the links of the nodes
    type, int_num, ctx,                          \* the other fields of the calls
    pc, call, tail, request,                     \* kernel_thread in v86_call
    vpc, p, size, vcall,                         \* the thread of v86_enter
    code, stack,      \* the patched interrupt number and the 16-bit stack
    depth             \* C functions on the kernel stack of that thread

links == <<next, prev>>
fields == <<type, int_num, ctx>>
caller == <<pc, call, tail, request>>
server == <<vpc, p, size, vcall, code, stack, depth>>
vars == <<links, fields, caller, server>>

\* After v86_init, with the server thread at the start of v86_enter.
Init ==
    /\ next = [n \in Nodes |-> IF n = head THEN head ELSE NULL]
    /\ prev = [n \in Nodes |-> IF n = head THEN head ELSE NULL]
    /\ type = [a \in Addrs |-> NULL] /\ int_num = [a \in Addrs |-> NULL]
    /\ ctx = [a \in Addrs |-> NULL]
    /\ pc = "ready" /\ call = NULL /\ tail = NULL /\ request = NULL
    /\ vpc = "size" /\ p = NULL /\ size = 0 /\ vcall = NULL
    /\ code = NULL /\ stack = NULL /\ depth = 1

-----------------------------------------------------------------------------
(* The caller: v86_call and the list_add_tail in it.                       *)

Goto(here, there) == pc = here /\ pc' = there

\* The initialiser of the call, and INIT_LIST_HEAD.
Build(a, r) ==
    /\ Goto("ready", "tail")
    /\ call' = a /\ request' = r
    /\ type' = [type EXCEPT ![a] = "GENERIC_INT"]
    /\ int_num' = [int_num EXCEPT ![a] = r.int_num]
    /\ ctx' = [ctx EXCEPT ![a] = r.regs]
    /\ next' = [next EXCEPT ![a] = a]
    /\ prev' = [prev EXCEPT ![a] = a]
    /\ UNCHANGED <<tail, server>>

\* The arguments of __list_add.
ReadTail ==
    /\ Goto("tail", "add1")
    /\ tail' = prev[head]
    /\ UNCHANGED <<links, fields, call, request, server>>

\* next->prev = new
Add1 ==
    /\ Goto("add1", "add2")
    /\ prev' = [prev EXCEPT ![head] = call]
    /\ UNCHANGED <<next, fields, call, tail, request, server>>

\* new->next = next
Add2 ==
    /\ Goto("add2", "add3")
    /\ next' = [next EXCEPT ![call] = head]
    /\ UNCHANGED <<prev, fields, call, tail, request, server>>

\* new->prev = prev
Add3 ==
    /\ Goto("add3", "add4")
    /\ prev' = [prev EXCEPT ![call] = tail]
    /\ UNCHANGED <<next, fields, call, tail, request, server>>

\* prev->next = new
Add4 ==
    /\ Goto("add4", "spin")
    /\ next' = [next EXCEPT ![tail] = call]
    /\ UNCHANGED <<prev, fields, call, tail, request, server>>

\* The loop of v86_call ends, and its caller looks at the answer; then the
\* memory of the call is used for something else.
Return ==
    /\ Goto("spin", "ready") /\ type[call] = "COMPLETE"
    /\ type' = [type EXCEPT ![call] = NULL]
    /\ int_num' = [int_num EXCEPT ![call] = NULL]
    /\ ctx' = [ctx EXCEPT ![call] = NULL]
    /\ next' = [next EXCEPT ![call] = NULL]
    /\ prev' = [prev EXCEPT ![call] = NULL]
    /\ call' = NULL /\ tail' = NULL /\ request' = NULL
    /\ UNCHANGED server

CallerNext ==
    \/ \E a \in Addrs, r \in Requests : Build(a, r)
    \/ ReadTail \/ Add1 \/ Add2 \/ Add3 \/ Add4 \/ Return

-----------------------------------------------------------------------------
(* The server: v86_enter, the 16-bit code and v86_exit.                    *)

VGoto(here, there) == vpc = here /\ vpc' = there

\* list_size: the first node, ...
SizeStart ==
    /\ VGoto("size", "walk")
    /\ p' = next[head] /\ size' = 0
    /\ UNCHANGED <<links, fields, caller, vcall, code, stack, depth>>

\* ... and the loop over the others.
SizeStep ==
    /\ vpc = "walk"
    /\ IF p # head
       THEN p' = next[p] /\ size' = size + 1 /\ UNCHANGED vpc
       ELSE /\ vpc' = IF size = 0 THEN "size" ELSE "take"
            /\ UNCHANGED <<p, size>>
    /\ UNCHANGED <<links, fields, caller, vcall, code, stack, depth>>

\* v86_call_next, and ctx.sp: the 16-bit stack always starts at v86_stack.
Take ==
    /\ VGoto("take", "switch")
    /\ vcall' = next[head]
    /\ UNCHANGED <<links, fields, caller, p, size, code, stack, depth>>

\* The switch; a call of another type stays in the queue.
Switch ==
    /\ vpc = "switch"
    /\ vpc' = IF type[vcall] = "GENERIC_INT" THEN "patch" ELSE "size"
    /\ UNCHANGED <<links, fields, caller, p, size, vcall, code, stack, depth>>

\* v86_call_generic_int: the interrupt number, ...
Patch ==
    /\ VGoto("patch", "copyin")
    /\ code' = int_num[vcall]
    /\ depth' = depth + 1
    /\ UNCHANGED <<links, fields, caller, p, size, vcall, stack>>

\* Mutant: the registers are not copied.
CopyIn_Forgets ==
    /\ VGoto("copyin", "bios")
    /\ UNCHANGED <<links, fields, caller, p, size, vcall, code, stack, depth>>

\* ... the registers, and _enter_v86.
CopyIn ==
    /\ VGoto("copyin", "bios")
    /\ stack' = ctx[vcall]
    /\ UNCHANGED <<links, fields, caller, p, size, vcall, code, depth>>

\* The code at v86_generic_int up to INT 3, at which the monitor calls v86_exit.
\* The interrupt starts a new kernel stack: nothing returns to v86_enter.
Bios ==
    /\ VGoto("bios", "next")
    /\ stack' = Answer([int_num |-> code, regs |-> stack])
    /\ depth' = 1
    /\ UNCHANGED <<links, fields, caller, p, size, vcall, code>>

\* v86_exit: v86_call_next, ...
ExitNext ==
    /\ VGoto("next", "del1")
    /\ vcall' = next[head]
    /\ UNCHANGED <<links, fields, caller, p, size, code, stack, depth>>

\* ... list_del: next->prev = prev, ...
Del1 ==
    /\ VGoto("del1", "del2")
    /\ prev' = [prev EXCEPT ![next[vcall]] = prev[vcall]]
    /\ UNCHANGED <<next, fields, caller, p, size, vcall, code, stack, depth>>

\* Mutant: the answer is announced before the call leaves the list.
Del2_Complete ==
    /\ VGoto("del2", "del3")
    /\ next' = [next EXCEPT ![prev[vcall]] = next[vcall]]
    /\ type' = [type EXCEPT ![vcall] = "COMPLETE"]
    /\ UNCHANGED <<prev, int_num, ctx, caller, p, size, vcall, code, stack, depth>>

\* ... prev->next = next, ...
Del2 ==
    /\ VGoto("del2", "del3")
    /\ next' = [next EXCEPT ![prev[vcall]] = next[vcall]]
    /\ UNCHANGED <<prev, fields, caller, p, size, vcall, code, stack, depth>>

\* ... and the links of the call, ...
Del3 ==
    /\ VGoto("del3", "copyout")
    /\ next' = [next EXCEPT ![vcall] = NULL] /\ prev' = [prev EXCEPT ![vcall] = NULL]
    /\ UNCHANGED <<fields, caller, p, size, vcall, code, stack, depth>>

\* ... the answer, ...
CopyOut ==
    /\ VGoto("copyout", "complete")
    /\ ctx' = [ctx EXCEPT ![vcall] = stack]
    /\ UNCHANGED <<links, type, int_num, caller, p, size, vcall, code, stack, depth>>

\* ... and the type; v86_exit goes on in v86_enter.
Complete ==
    /\ VGoto("complete", "size")
    /\ type' = [type EXCEPT ![vcall] = "COMPLETE"]
    /\ depth' = depth + 1
    /\ UNCHANGED <<links, int_num, ctx, caller, p, size, vcall, code, stack>>

ServerNext ==
    \/ SizeStart \/ SizeStep \/ Take \/ Switch \/ Patch \/ CopyIn \/ Bios
    \/ ExitNext \/ Del1 \/ Del2 \/ Del3 \/ CopyOut \/ Complete

Next == CallerNext \/ ServerNext

\* Both threads are scheduled again and again.  Whether a new call is built is
\* up to the caller.
Spec ==
    /\ Init /\ [][Next]_vars
    /\ WF_vars(ServerNext)
    /\ WF_vars(ReadTail \/ Add1 \/ Add2 \/ Add3 \/ Add4 \/ Return)

-----------------------------------------------------------------------------
(* Properties.                                                             *)

\* The kernel stack of the server does not grow from call to call, although
\* v86_exit never returns.
TypeOK ==
    /\ next \in [Nodes -> Nodes \cup {NULL}] /\ prev \in [Nodes -> Nodes \cup {NULL}]
    /\ type \in [Addrs -> {"GENERIC_INT", "COMPLETE", NULL}]
    /\ int_num \in [Addrs -> IntNums \cup {NULL}] /\ ctx \in [Addrs -> Contents]
    /\ pc \in {"ready", "tail", "add1", "add2", "add3", "add4", "spin"}
    /\ call \in Addrs \cup {NULL} /\ tail \in Nodes \cup {NULL}
    /\ request \in Requests \cup {NULL}
    /\ vpc \in {"size", "walk", "take", "switch", "patch", "copyin", "bios", "next", "del1",
               "del2", "del3", "copyout", "complete"}
    /\ p \in Nodes \cup {NULL} /\ size \in 0 .. 1 /\ vcall \in Nodes \cup {NULL}
    /\ code \in IntNums \cup {NULL} /\ stack \in Contents
    /\ depth \in 1 .. 3

\* The server has hold of the call in these places.
Holding == vpc \in {"switch", "patch", "copyin", "bios", "del1", "del2", "del3", "copyout", "complete"}

\* The server touches a call only while v86_call waits for it: never while the
\* links are half made, and never after v86_call has returned and its stack is
\* used for something else.
NoDanglingCall ==
    /\ vpc = "walk" => p = head \/ (pc = "spin" /\ p = call)
    /\ vpc \in {"take", "next"} => pc = "spin" /\ next[head] = call
    /\ Holding => pc = "spin" /\ vcall = call /\ type[call] = "GENERIC_INT"

\* The list between the steps of list_add_tail and list_del.  A call is in the
\* list while v86_call waits and the server has not reached del2.
LinksOK ==
    /\ next[head] = IF pc = "spin" /\ type[call] = "GENERIC_INT"
                       /\ vpc \notin {"del3", "copyout", "complete"}
                    THEN call ELSE head
    /\ prev[head] = IF \/ pc \in {"add2", "add3", "add4"}
                       \/ /\ pc = "spin" /\ type[call] = "GENERIC_INT"
                          /\ vpc \notin {"del2", "del3", "copyout", "complete"}
                    THEN call ELSE head
    /\ pc # "ready" => call \in Addrs /\ request \in Requests
    /\ pc \notin {"ready", "tail"} => tail = head
    /\ pc \in {"add3", "add4"} => next[call] = head
    /\ pc = "add4" => prev[call] = head
    /\ pc = "spin" /\ type[call] = "GENERIC_INT" /\ vpc \notin {"copyout", "complete"} =>
           next[call] = head /\ prev[call] = head
    /\ pc \notin {"ready", "spin"} => type[call] = "GENERIC_INT"
    /\ pc = "spin" => type[call] \in {"GENERIC_INT", "COMPLETE"}

\* What the server has counted is in the list.
CountOK ==
    vpc = "walk" => \/ p = head /\ (size = 1 => pc = "spin" /\ type[call] = "GENERIC_INT")
                    \/ p = call /\ size = 0 /\ pc = "spin" /\ type[call] = "GENERIC_INT"

\* Where the request and the answer are.
DataOK ==
    /\ (pc # "ready" /\ type[call] = "GENERIC_INT") =>
           /\ int_num[call] = request.int_num
           /\ vpc # "complete" => ctx[call] = request.regs
    /\ vpc \in {"copyin", "bios"} => code = request.int_num
    /\ vpc = "bios" => stack = request.regs
    /\ vpc \in {"next", "del1", "del2", "del3", "copyout", "complete"} => stack = Answer(request)
    /\ vpc = "complete" => ctx[call] = Answer(request)
    /\ (pc = "spin" /\ type[call] = "COMPLETE") => ctx[call] = Answer(request)

\* The kernel stack at each place.
DepthOK ==
    depth <= IF vpc \in {"copyin", "bios"} THEN 3
             ELSE IF vpc \in {"size", "walk", "take", "switch", "patch"} THEN 2 ELSE 1

\* At every step of list_add_tail in v86_call and of list_del in v86_exit the links are
\* as far made as the step says, what v86_enter has counted is in the list, and request
\* and answer are where the next step looks for them (inductive).
QueueInv == TypeOK /\ NoDanglingCall /\ LinksOK /\ CountOK /\ DataOK /\ DepthOK

\* The state of the promise of V86Rpc.
phase == IF pc # "spin" THEN "idle"
         ELSE IF type[call] = "COMPLETE" THEN "answered" ELSE "asked"

asked == IF phase = "idle" THEN NULL ELSE request
result == IF phase = "answered" THEN ctx[call] ELSE NULL

Rpc == INSTANCE V86Rpc WITH request <- asked

\* The queue keeps the promise: one answer to each request, and it is the answer
\* to that request, whatever the address of the call was used for before.
ImplementsRpc == Rpc!Spec
=============================================================================
