------------------------------ MODULE V86Proofs ------------------------------
(***************************************************************************)
(* The queue of V86Calls keeps its links and data consistent, and keeps    *)
(* the promise of V86Rpc, for all addresses, interrupt numbers and         *)
(* register contents.  Code under the monitor of V86Monitor finds on its   *)
(* stack what PUSHF and INT have left there, for every size of the         *)
(* segment, place of the stack and depth of nesting that fits into it.     *)
(***************************************************************************)
EXTENDS V86Calls, V86Monitor, TLAPS

USE ZenonT(30)

-----------------------------------------------------------------------------
(* The queue.                                                              *)

\* v86_call initialises a call that no list holds yet.
LEMMA BuildInv ==
    ASSUME QueueInv, AddrAssumption, NEW a \in Addrs, NEW r \in Requests, Build(a, r)
    PROVE  QueueInv'
<1>1. TypeOK'
    BY SMTT(30) DEF Build, Goto, server, QueueInv, TypeOK, Nodes, Requests, Contents
<1>2. NoDanglingCall'
    BY DEF Build, Goto, server, QueueInv, NoDanglingCall, Holding
<1>3. LinksOK'
    BY SMTT(30) DEF Build, Goto, server, QueueInv, TypeOK, LinksOK
<1>4. CountOK'
    BY DEF Build, Goto, server, QueueInv, CountOK
<1>5. DataOK'
    BY DEF Build, Goto, server, QueueInv, TypeOK, NoDanglingCall, Holding, DataOK
<1>6. DepthOK'
    BY DEF Build, Goto, server, QueueInv, DepthOK
<1> QED
    BY <1>1, <1>2, <1>3, <1>4, <1>5, <1>6 DEF QueueInv

\* list_add_tail in v86_call reads the tail; the list is empty, so it is the
\* head.
LEMMA ReadTailInv ==
    ASSUME QueueInv, AddrAssumption, ReadTail
    PROVE  QueueInv'
<1>1. TypeOK'
    BY SMTT(30) DEF ReadTail, Goto, links, fields, server, QueueInv, TypeOK, Nodes
<1>2. NoDanglingCall'
    BY DEF ReadTail, Goto, links, fields, server, QueueInv, NoDanglingCall, Holding
<1>3. LinksOK'
    BY DEF ReadTail, Goto, links, fields, server, QueueInv, LinksOK
<1>4. CountOK'
    BY DEF ReadTail, Goto, links, fields, server, QueueInv, CountOK
<1>5. DataOK'
    BY DEF ReadTail, Goto, links, fields, server, QueueInv, DataOK
<1>6. DepthOK'
    BY DEF ReadTail, Goto, links, fields, server, QueueInv, DepthOK
<1> QED
    BY <1>1, <1>2, <1>3, <1>4, <1>5, <1>6 DEF QueueInv

\* __list_add makes head->prev name the call, which nobody follows yet.
LEMMA Add1Inv ==
    ASSUME QueueInv, AddrAssumption, Add1
    PROVE  QueueInv'
<1>1. TypeOK'
    BY SMTT(30) DEF Add1, Goto, fields, server, QueueInv, TypeOK, Nodes
<1>2. NoDanglingCall'
    BY DEF Add1, Goto, fields, server, QueueInv, NoDanglingCall, Holding
<1>3. LinksOK'
    BY SMTT(30) DEF Add1, Goto, fields, server, QueueInv, TypeOK, LinksOK
<1>4. CountOK'
    BY DEF Add1, Goto, fields, server, QueueInv, CountOK
<1>5. DataOK'
    BY DEF Add1, Goto, fields, server, QueueInv, DataOK
<1>6. DepthOK'
    BY DEF Add1, Goto, fields, server, QueueInv, DepthOK
<1> QED
    BY <1>1, <1>2, <1>3, <1>4, <1>5, <1>6, SMTT(30) DEF QueueInv

\* __list_add completes the forward link of the call, still unreachable from the
\* head.
LEMMA Add2Inv ==
    ASSUME QueueInv, AddrAssumption, Add2
    PROVE  QueueInv'
<1>1. TypeOK'
    BY SMTT(30) DEF Add2, Goto, fields, server, QueueInv, TypeOK, LinksOK
<1>2. NoDanglingCall'
    BY DEF Add2, Goto, fields, server, QueueInv, NoDanglingCall, Holding
<1>3. LinksOK'
    BY SMTT(30) DEF Add2, Goto, fields, server, QueueInv, TypeOK, LinksOK
<1>4. CountOK'
    BY DEF Add2, Goto, fields, server, QueueInv, CountOK
<1>5. DataOK'
    BY DEF Add2, Goto, fields, server, QueueInv, DataOK
<1>6. DepthOK'
    BY DEF Add2, Goto, fields, server, QueueInv, DepthOK
<1> QED
    BY <1>1, <1>2, <1>3, <1>4, <1>5, <1>6, SMTT(30) DEF QueueInv

\* __list_add completes the backward link of the call.
LEMMA Add3Inv ==
    ASSUME QueueInv, AddrAssumption, Add3
    PROVE  QueueInv'
<1>1. TypeOK'
    BY SMTT(30) DEF Add3, Goto, fields, server, QueueInv, TypeOK, LinksOK
<1>2. NoDanglingCall'
    BY DEF Add3, Goto, fields, server, QueueInv, NoDanglingCall, Holding
<1>3. LinksOK'
    BY SMTT(30) DEF Add3, Goto, fields, server, QueueInv, TypeOK, LinksOK
<1>4. CountOK'
    BY DEF Add3, Goto, fields, server, QueueInv, CountOK
<1>5. DataOK'
    BY DEF Add3, Goto, fields, server, QueueInv, DataOK
<1>6. DepthOK'
    BY DEF Add3, Goto, fields, server, QueueInv, DepthOK
<1> QED
    BY <1>1, <1>2, <1>3, <1>4, <1>5, <1>6, SMTT(30) DEF QueueInv

\* __list_add publishes the call: from here on v86_enter may find it, complete.
LEMMA Add4Inv ==
    ASSUME QueueInv, AddrAssumption, Add4
    PROVE  QueueInv'
<1>1. TypeOK'
    BY SMTT(30) DEF Add4, Goto, fields, server, QueueInv, TypeOK, LinksOK
<1>2. NoDanglingCall'
    BY DEF Add4, Goto, fields, server, QueueInv, NoDanglingCall, Holding
<1>3. LinksOK'
    BY SMTT(30) DEF Add4, Goto, fields, server, QueueInv, TypeOK, NoDanglingCall, Holding, LinksOK
<1>4. CountOK'
    BY DEF Add4, Goto, fields, server, QueueInv, CountOK
<1>5. DataOK'
    BY DEF Add4, Goto, fields, server, QueueInv, LinksOK, DataOK
<1>6. DepthOK'
    BY DEF Add4, Goto, fields, server, QueueInv, DepthOK
<1> QED
    BY <1>1, <1>2, <1>3, <1>4, <1>5, <1>6, SMTT(30) DEF QueueInv

\* v86_call returns once the type is COMPLETE, when the server has let go of the
\* call.
LEMMA ReturnInv ==
    ASSUME QueueInv, AddrAssumption, Return
    PROVE  QueueInv'
<1>1. TypeOK'
    BY DEF Return, Goto, server, QueueInv, TypeOK, NoDanglingCall, Holding, Contents
<1>2. NoDanglingCall'
    BY DEF Return, Goto, server, QueueInv, NoDanglingCall, Holding, LinksOK, CountOK
<1>3. LinksOK'
    BY SMTT(30) DEF Return, Goto, server, QueueInv, LinksOK
<1>4. CountOK'
    BY DEF Return, Goto, server, QueueInv, CountOK
<1>5. DataOK'
    BY DEF Return, Goto, server, QueueInv, NoDanglingCall, Holding, LinksOK, DataOK
<1>6. DepthOK'
    BY DEF Return, Goto, server, QueueInv, DepthOK
<1> QED
    BY <1>1, <1>2, <1>3, <1>4, <1>5, <1>6, SMTT(30) DEF QueueInv

\* list_size in v86_enter reads the first node.
LEMMA SizeStartInv ==
    ASSUME QueueInv, AddrAssumption, SizeStart
    PROVE  QueueInv'
<1>1. TypeOK'
    BY SMTT(30) DEF SizeStart, VGoto, links, fields, caller, QueueInv, TypeOK, Nodes
<1>2. NoDanglingCall'
    BY DEF SizeStart, VGoto, links, fields, caller, QueueInv, NoDanglingCall, Holding, LinksOK
<1>3. LinksOK'
    BY DEF SizeStart, VGoto, links, fields, caller, QueueInv, LinksOK
<1>4. CountOK'
    BY SMTT(30) DEF SizeStart, VGoto, links, fields, caller, QueueInv, LinksOK, CountOK
<1>5. DataOK'
    BY DEF SizeStart, VGoto, links, fields, caller, QueueInv, DataOK
<1>6. DepthOK'
    BY DEF SizeStart, VGoto, links, fields, caller, QueueInv, DepthOK
<1> QED
    BY <1>1, <1>2, <1>3, <1>4, <1>5, <1>6, SMTT(30) DEF QueueInv

\* list_size counts a node or ends; one call at most is in the list.
LEMMA SizeStepInv ==
    ASSUME QueueInv, AddrAssumption, SizeStep
    PROVE  QueueInv'
<1>1. TypeOK'
    BY SMTT(30) DEF SizeStep, links, fields, caller, QueueInv, TypeOK, LinksOK, CountOK, Nodes
<1>2. NoDanglingCall'
    BY SMTT(30) DEF SizeStep, links, fields, caller, QueueInv, TypeOK, NoDanglingCall, Holding,
           LinksOK, CountOK, Nodes
<1>3. LinksOK'
    BY DEF SizeStep, links, fields, caller, QueueInv, LinksOK
<1>4. CountOK'
    BY DEF SizeStep, links, fields, caller, QueueInv, LinksOK, CountOK
<1>5. DataOK'
    BY DEF SizeStep, links, fields, caller, QueueInv, DataOK
<1>6. DepthOK'
    BY DEF SizeStep, links, fields, caller, QueueInv, DepthOK
<1> QED
    BY <1>1, <1>2, <1>3, <1>4, <1>5, <1>6, SMTT(30) DEF QueueInv

\* v86_call_next: the list was not empty when counted, and only the server
\* shortens it.
LEMMA TakeInv ==
    ASSUME QueueInv, AddrAssumption, Take
    PROVE  QueueInv'
<1>1. TypeOK'
    BY DEF Take, VGoto, links, fields, caller, QueueInv, TypeOK, NoDanglingCall, Holding,
           LinksOK
<1>2. NoDanglingCall'
    BY DEF Take, VGoto, links, fields, caller, QueueInv, NoDanglingCall, Holding, LinksOK
<1>3. LinksOK'
    BY DEF Take, VGoto, links, fields, caller, QueueInv, LinksOK
<1>4. CountOK'
    BY DEF Take, VGoto, links, fields, caller, QueueInv, CountOK
<1>5. DataOK'
    BY DEF Take, VGoto, links, fields, caller, QueueInv, DataOK
<1>6. DepthOK'
    BY DEF Take, VGoto, links, fields, caller, QueueInv, DepthOK
<1> QED
    BY <1>1, <1>2, <1>3, <1>4, <1>5, <1>6, SMTT(30) DEF QueueInv

\* The switch of v86_enter sees a GENERIC_INT.
LEMMA SwitchInv ==
    ASSUME QueueInv, AddrAssumption, Switch
    PROVE  QueueInv'
<1>1. TypeOK'
    BY DEF Switch, links, fields, caller, QueueInv, TypeOK, LinksOK
<1>2. NoDanglingCall'
    BY DEF Switch, links, fields, caller, QueueInv, NoDanglingCall, Holding
<1>3. LinksOK'
    BY DEF Switch, links, fields, caller, QueueInv, LinksOK
<1>4. CountOK'
    BY DEF Switch, links, fields, caller, QueueInv, CountOK
<1>5. DataOK'
    BY DEF Switch, links, fields, caller, QueueInv, DataOK
<1>6. DepthOK'
    BY DEF Switch, links, fields, caller, QueueInv, DepthOK
<1> QED
    BY <1>1, <1>2, <1>3, <1>4, <1>5, <1>6, SMTT(30) DEF QueueInv

\* v86_call_generic_int writes the interrupt number of the call that waits.
LEMMA PatchInv ==
    ASSUME QueueInv, AddrAssumption, Patch
    PROVE  QueueInv'
<1>1. TypeOK'
    BY SMTT(30) DEF Patch, VGoto, links, fields, caller, QueueInv, TypeOK, NoDanglingCall, Holding,
           LinksOK, DepthOK, Nodes
<1>2. NoDanglingCall'
    BY DEF Patch, VGoto, links, fields, caller, QueueInv, NoDanglingCall, Holding
<1>3. LinksOK'
    BY DEF Patch, VGoto, links, fields, caller, QueueInv, LinksOK
<1>4. CountOK'
    BY DEF Patch, VGoto, links, fields, caller, QueueInv, CountOK
<1>5. DataOK'
    BY DEF Patch, VGoto, links, fields, caller, QueueInv, NoDanglingCall, Holding, DataOK
<1>6. DepthOK'
    BY SMTT(30) DEF Patch, VGoto, links, fields, caller, QueueInv, TypeOK, NoDanglingCall, Holding,
           LinksOK, DepthOK
<1> QED
    BY <1>1, <1>2, <1>3, <1>4, <1>5, <1>6, SMTT(30) DEF QueueInv

\* v86_call_generic_int copies the registers of the call that waits.
LEMMA CopyInInv ==
    ASSUME QueueInv, AddrAssumption, CopyIn
    PROVE  QueueInv'
<1>1. TypeOK'
    BY DEF CopyIn, VGoto, links, fields, caller, QueueInv, TypeOK, NoDanglingCall, Holding,
           LinksOK
<1>2. NoDanglingCall'
    BY DEF CopyIn, VGoto, links, fields, caller, QueueInv, NoDanglingCall, Holding
<1>3. LinksOK'
    BY DEF CopyIn, VGoto, links, fields, caller, QueueInv, LinksOK
<1>4. CountOK'
    BY DEF CopyIn, VGoto, links, fields, caller, QueueInv, CountOK
<1>5. DataOK'
    BY DEF CopyIn, VGoto, links, fields, caller, QueueInv, NoDanglingCall, Holding, DataOK
<1>6. DepthOK'
    BY DEF CopyIn, VGoto, links, fields, caller, QueueInv, DepthOK
<1> QED
    BY <1>1, <1>2, <1>3, <1>4, <1>5, <1>6, SMTT(30) DEF QueueInv

\* The interrupt turns the registers of the request into its answer.
LEMMA BiosInv ==
    ASSUME QueueInv, AddrAssumption, Bios
    PROVE  QueueInv'
<1>1. TypeOK'
    BY SMTT(30) DEF Bios, VGoto, links, fields, caller, QueueInv, TypeOK, NoDanglingCall, Holding,
           LinksOK, CountOK, DataOK, Nodes, Requests, Contents
<1>2. NoDanglingCall'
    BY DEF Bios, VGoto, links, fields, caller, QueueInv, NoDanglingCall, Holding, LinksOK
<1>3. LinksOK'
    BY DEF Bios, VGoto, links, fields, caller, QueueInv, LinksOK
<1>4. CountOK'
    BY DEF Bios, VGoto, links, fields, caller, QueueInv, CountOK
<1>5. DataOK'
    BY DEF Bios, VGoto, links, fields, caller, QueueInv, NoDanglingCall, Holding, LinksOK,
           DataOK, Requests
<1>6. DepthOK'
    BY SMTT(30) DEF Bios, VGoto, links, fields, caller, QueueInv, TypeOK, NoDanglingCall, Holding,
           LinksOK, DepthOK, Nodes
<1> QED
    BY <1>1, <1>2, <1>3, <1>4, <1>5, <1>6, SMTT(30) DEF QueueInv

\* v86_exit looks the call up again and finds the same one.
LEMMA ExitNextInv ==
    ASSUME QueueInv, AddrAssumption, ExitNext
    PROVE  QueueInv'
<1>1. TypeOK'
    BY DEF ExitNext, VGoto, links, fields, caller, QueueInv, TypeOK, NoDanglingCall,
           Holding, LinksOK
<1>2. NoDanglingCall'
    BY DEF ExitNext, VGoto, links, fields, caller, QueueInv, NoDanglingCall, Holding, LinksOK
<1>3. LinksOK'
    BY DEF ExitNext, VGoto, links, fields, caller, QueueInv, LinksOK
<1>4. CountOK'
    BY DEF ExitNext, VGoto, links, fields, caller, QueueInv, CountOK
<1>5. DataOK'
    BY DEF ExitNext, VGoto, links, fields, caller, QueueInv, DataOK
<1>6. DepthOK'
    BY DEF ExitNext, VGoto, links, fields, caller, QueueInv, DepthOK
<1> QED
    BY <1>1, <1>2, <1>3, <1>4, <1>5, <1>6, SMTT(30) DEF QueueInv

\* list_del of v86_exit unlinks the call backwards.
LEMMA Del1Inv ==
    ASSUME QueueInv, AddrAssumption, Del1
    PROVE  QueueInv'
<1>1. TypeOK'
    BY DEF Del1, VGoto, fields, caller, QueueInv, TypeOK, NoDanglingCall, Holding, LinksOK
<1>2. NoDanglingCall'
    BY DEF Del1, VGoto, fields, caller, QueueInv, NoDanglingCall, Holding
<1>3. LinksOK'
    BY DEF Del1, VGoto, fields, caller, QueueInv, TypeOK, NoDanglingCall, Holding, LinksOK,
           Nodes
<1>4. CountOK'
    BY DEF Del1, VGoto, fields, caller, QueueInv, CountOK
<1>5. DataOK'
    BY DEF Del1, VGoto, fields, caller, QueueInv, DataOK
<1>6. DepthOK'
    BY DEF Del1, VGoto, fields, caller, QueueInv, DepthOK
<1> QED
    BY <1>1, <1>2, <1>3, <1>4, <1>5, <1>6, SMTT(30) DEF QueueInv

\* list_del of v86_exit unlinks the call forwards: the list is empty again.
LEMMA Del2Inv ==
    ASSUME QueueInv, AddrAssumption, Del2
    PROVE  QueueInv'
<1>1. TypeOK'
    BY DEF Del2, VGoto, fields, caller, QueueInv, TypeOK, NoDanglingCall, Holding, LinksOK
<1>2. NoDanglingCall'
    BY DEF Del2, VGoto, fields, caller, QueueInv, NoDanglingCall, Holding
<1>3. LinksOK'
    BY DEF Del2, VGoto, fields, caller, QueueInv, TypeOK, NoDanglingCall, Holding, LinksOK,
           Nodes
<1>4. CountOK'
    BY DEF Del2, VGoto, fields, caller, QueueInv, CountOK
<1>5. DataOK'
    BY DEF Del2, VGoto, fields, caller, QueueInv, DataOK
<1>6. DepthOK'
    BY DEF Del2, VGoto, fields, caller, QueueInv, DepthOK
<1> QED
    BY <1>1, <1>2, <1>3, <1>4, <1>5, <1>6, SMTT(30) DEF QueueInv

\* list_del of v86_exit clears the links of the call, which v86_call does not
\* read.
LEMMA Del3Inv ==
    ASSUME QueueInv, AddrAssumption, Del3
    PROVE  QueueInv'
<1>1. TypeOK'
    BY DEF Del3, VGoto, fields, caller, QueueInv, TypeOK, NoDanglingCall, Holding
<1>2. NoDanglingCall'
    BY DEF Del3, VGoto, fields, caller, QueueInv, NoDanglingCall, Holding
<1>3. LinksOK'
    BY SMTT(30) DEF Del3, VGoto, fields, caller, QueueInv, TypeOK, NoDanglingCall, Holding, LinksOK
<1>4. CountOK'
    BY DEF Del3, VGoto, fields, caller, QueueInv, CountOK
<1>5. DataOK'
    BY DEF Del3, VGoto, fields, caller, QueueInv, DataOK
<1>6. DepthOK'
    BY DEF Del3, VGoto, fields, caller, QueueInv, DepthOK
<1> QED
    BY <1>1, <1>2, <1>3, <1>4, <1>5, <1>6, SMTT(30) DEF QueueInv

\* v86_exit copies the answer before it announces it.
LEMMA CopyOutInv ==
    ASSUME QueueInv, AddrAssumption, CopyOut
    PROVE  QueueInv'
<1>1. TypeOK'
    BY DEF CopyOut, VGoto, links, caller, QueueInv, TypeOK, NoDanglingCall, Holding
<1>2. NoDanglingCall'
    BY DEF CopyOut, VGoto, links, caller, QueueInv, NoDanglingCall, Holding
<1>3. LinksOK'
    BY DEF CopyOut, VGoto, links, caller, QueueInv, LinksOK
<1>4. CountOK'
    BY DEF CopyOut, VGoto, links, caller, QueueInv, CountOK
<1>5. DataOK'
    BY DEF CopyOut, VGoto, links, caller, QueueInv, TypeOK, NoDanglingCall, Holding,
           LinksOK, DataOK
<1>6. DepthOK'
    BY DEF CopyOut, VGoto, links, caller, QueueInv, DepthOK
<1> QED
    BY <1>1, <1>2, <1>3, <1>4, <1>5, <1>6, SMTT(30) DEF QueueInv

\* v86_exit announces the answer and does not touch the call again.
LEMMA CompleteInv ==
    ASSUME QueueInv, AddrAssumption, Complete
    PROVE  QueueInv'
<1>1. TypeOK'
    BY SMTT(30) DEF Complete, VGoto, links, caller, QueueInv, TypeOK, NoDanglingCall, Holding,
           LinksOK, DepthOK, Nodes
<1>2. NoDanglingCall'
    BY DEF Complete, VGoto, links, caller, QueueInv, NoDanglingCall, Holding
<1>3. LinksOK'
    BY DEF Complete, VGoto, links, caller, QueueInv, TypeOK, NoDanglingCall, Holding, LinksOK
<1>4. CountOK'
    BY DEF Complete, VGoto, links, caller, QueueInv, CountOK
<1>5. DataOK'
    BY DEF Complete, VGoto, links, caller, QueueInv, TypeOK, NoDanglingCall, Holding,
           LinksOK, DataOK
<1>6. DepthOK'
    BY SMTT(30) DEF Complete, VGoto, links, caller, QueueInv, TypeOK, NoDanglingCall, Holding,
           LinksOK, CountOK, DepthOK
<1> QED
    BY <1>1, <1>2, <1>3, <1>4, <1>5, <1>6, SMTT(30) DEF QueueInv

\* The list is empty when v86_init has run.
LEMMA InitInv ==
    ASSUME AddrAssumption, Init
    PROVE  QueueInv
<1>1. TypeOK
    BY SMTT(30) DEF AddrAssumption, Init, TypeOK, Nodes, Contents
<1>2. NoDanglingCall /\ LinksOK /\ CountOK /\ DataOK /\ DepthOK
    BY SMTT(30) DEF AddrAssumption, Init, NoDanglingCall, Holding, LinksOK, CountOK, DataOK, DepthOK,
           Nodes
<1> QED
    BY <1>1, <1>2 DEF QueueInv

\* A step that changes nothing keeps the invariant.
LEMMA StutterInv ==
    ASSUME QueueInv, UNCHANGED vars
    PROVE  QueueInv'
BY SMTT(30) DEF vars, links, fields, caller, server, QueueInv, TypeOK, NoDanglingCall, Holding,
       LinksOK, CountOK, DataOK, DepthOK

\* The links, the data and the kernel stack of the queue are consistent at every
\* step of v86_call, v86_enter and v86_exit.
THEOREM QueueInvariant == Spec => []QueueInv
<1>1. Init => QueueInv
    BY AddrAssumption, InitInv
<1>2. QueueInv /\ [Next]_vars => QueueInv'
    <2> SUFFICES ASSUME QueueInv, [Next]_vars PROVE QueueInv'
        OBVIOUS
    <2>1. ASSUME NEW a \in Addrs, NEW r \in Requests, Build(a, r) PROVE QueueInv'
        BY <2>1, AddrAssumption, BuildInv
    <2>2. CASE ReadTail \/ Add1 \/ Add2 \/ Add3 \/ Add4 \/ Return
        BY <2>2, AddrAssumption, ReadTailInv, Add1Inv, Add2Inv, Add3Inv, Add4Inv, ReturnInv
    <2>3. CASE SizeStart \/ SizeStep \/ Take \/ Switch \/ Patch \/ CopyIn \/ Bios
        BY <2>3, AddrAssumption, SizeStartInv, SizeStepInv, TakeInv, SwitchInv, PatchInv,
               CopyInInv, BiosInv
    <2>4. CASE ExitNext \/ Del1 \/ Del2 \/ Del3 \/ CopyOut \/ Complete
        BY <2>4, AddrAssumption, ExitNextInv, Del1Inv, Del2Inv, Del3Inv, CopyOutInv, CompleteInv, SMTT(30)
    <2>5. CASE UNCHANGED vars
        BY <2>5, StutterInv
    <2> QED
        BY <2>1, <2>2, <2>3, <2>4, <2>5 DEF Next, CallerNext, ServerNext
<1> QED
    BY <1>1, <1>2, PTL DEF Spec

\* The server touches a call only while v86_call waits for it.
THEOREM NoDanglingCalls == Spec => []NoDanglingCall
<1>1. QueueInv => NoDanglingCall
    BY DEF QueueInv
<1> QED
    BY <1>1, QueueInvariant, PTL

\* Where v86_call stands in V86Rpc is told by pc and by the type of the call.
LEMMA PhaseFacts ==
    /\ pc # "spin" => phase = "idle" /\ asked = NULL /\ result = NULL
    /\ pc = "spin" /\ type[call] = "COMPLETE" =>
           phase = "answered" /\ asked = request /\ result = ctx[call]
    /\ pc = "spin" /\ type[call] # "COMPLETE" =>
           phase = "asked" /\ asked = request /\ result = NULL
BY DEF phase, asked, result

\* The same after a step.
LEMMA PhaseFactsNext ==
    /\ pc' # "spin" => phase' = "idle" /\ asked' = NULL /\ result' = NULL
    /\ pc' = "spin" /\ (type[call])' = "COMPLETE" =>
           phase' = "answered" /\ asked' = request' /\ result' = (ctx[call])'
    /\ pc' = "spin" /\ (type[call])' # "COMPLETE" =>
           phase' = "asked" /\ asked' = request' /\ result' = NULL
BY DEF phase, asked, result

\* v86_call asks when list_add_tail links the call to the list.
LEMMA Add4Asks ==
    ASSUME QueueInv, Add4
    PROVE  Rpc!Ask(request) /\ request \in Requests
<1>1. pc = "add4" /\ pc' = "spin" /\ request \in Requests /\ type[call] = "GENERIC_INT"
      /\ request' = request /\ (type[call])' = type[call]
    BY DEF QueueInv, LinksOK, Add4, Goto, fields
<1> QED
    BY <1>1, PhaseFacts, PhaseFactsNext DEF Rpc!Ask

\* v86_exit answers when it sets the type of the call.
LEMMA CompleteServes ==
    ASSUME QueueInv, Complete
    PROVE  Rpc!Serve
<1>1. pc = "spin" /\ vcall = call /\ type[call] = "GENERIC_INT" /\ ctx[call] = Answer(request)
    BY DEF QueueInv, NoDanglingCall, Holding, DataOK, Complete, VGoto
<1>2. call \in Addrs /\ type \in [Addrs -> {"GENERIC_INT", "COMPLETE", NULL}]
    BY <1>1 DEF QueueInv, LinksOK, TypeOK
<1>3. (type[call])' = "COMPLETE" /\ pc' = "spin" /\ request' = request
      /\ (ctx[call])' = ctx[call]
    BY <1>1, <1>2 DEF Complete, caller
<1> QED
    BY <1>1, <1>3, PhaseFacts, PhaseFactsNext DEF Rpc!Serve

\* The loop of v86_call ends when it sees the answer.
LEMMA ReturnReturns ==
    ASSUME Return
    PROVE  Rpc!Return
<1>1. pc = "spin" /\ type[call] = "COMPLETE" /\ pc' = "ready"
    BY DEF Return, Goto
<1> QED
    BY <1>1, PhaseFacts, PhaseFactsNext DEF Rpc!Return

\* The caller's other steps are not visible: it is still preparing the call.
LEMMA PreparingStutters ==
    ASSUME NEW a \in Addrs, NEW r \in Requests,
           Build(a, r) \/ ReadTail \/ Add1 \/ Add2 \/ Add3
    PROVE  UNCHANGED Rpc!vars
<1>1. pc # "spin" /\ pc' # "spin"
    BY DEF Build, ReadTail, Add1, Add2, Add3, Goto
<1> QED
    BY <1>1, PhaseFacts, PhaseFactsNext DEF Rpc!vars

\* The server's other steps are not visible: type and, while the caller could
\* see it, ctx stay as they are.
LEMMA ServingStutters ==
    ASSUME QueueInv,
           \/ SizeStart \/ SizeStep \/ Take \/ Switch \/ Patch \/ CopyIn \/ Bios
           \/ ExitNext \/ Del1 \/ Del2 \/ Del3 \/ CopyOut
    PROVE  UNCHANGED Rpc!vars
<1>1. pc' = pc /\ call' = call /\ request' = request /\ type' = type
    BY DEF SizeStart, SizeStep, Take, Switch, Patch, CopyIn, Bios, ExitNext, Del1, Del2, Del3,
           CopyOut, caller, fields
<1>2. CASE CopyOut
    <2>1. pc = "spin" /\ type[call] = "GENERIC_INT"
        BY <1>2 DEF QueueInv, NoDanglingCall, Holding, CopyOut, VGoto
    <2> QED
        BY <1>1, <2>1, PhaseFacts, PhaseFactsNext DEF Rpc!vars
<1>3. CASE ctx' = ctx
    BY <1>1, <1>3, PhaseFacts, PhaseFactsNext DEF Rpc!vars
<1> QED
    BY <1>2, <1>3 DEF SizeStart, SizeStep, Take, Switch, Patch, CopyIn, Bios, ExitNext, Del1,
                      Del2, Del3, fields

\* The queue of calls implements V86Rpc, up to fairness: each request is answered
\* once, and with its own answer.
THEOREM QueueImplementsRpc == Spec => Rpc!Init /\ [][Rpc!Next]_(Rpc!vars)
<1>1. Init => Rpc!Init
    BY PhaseFacts DEF Init, Rpc!Init
<1>2. QueueInv /\ [Next]_vars => [Rpc!Next]_(Rpc!vars)
    <2> SUFFICES ASSUME QueueInv, [Next]_vars PROVE Rpc!Next \/ UNCHANGED Rpc!vars
        OBVIOUS
    <2>1. CASE Add4
        BY <2>1, Add4Asks DEF Rpc!Next
    <2>2. CASE Complete
        BY <2>2, CompleteServes DEF Rpc!Next
    <2>3. CASE Return
        BY <2>3, ReturnReturns DEF Rpc!Next
    <2>4. ASSUME NEW a \in Addrs, NEW r \in Requests,
                 Build(a, r) \/ ReadTail \/ Add1 \/ Add2 \/ Add3
          PROVE  UNCHANGED Rpc!vars
        BY <2>4, PreparingStutters
    <2>5. CASE ReadTail \/ Add1 \/ Add2 \/ Add3
        <3>1. PICK a \in Addrs, r \in Requests : a = call /\ r = request
            BY <2>5 DEF QueueInv, LinksOK, ReadTail, Add1, Add2, Add3, Goto
        <3> QED
            BY <2>5, <3>1, PreparingStutters
    <2>6. CASE UNCHANGED vars
        BY <2>6 DEF vars, caller, fields, Rpc!vars, phase, asked, result
    <2> QED
        BY <2>1, <2>2, <2>3, <2>4, <2>5, <2>6, ServingStutters DEF Next, CallerNext, ServerNext
<1> QED
    BY <1>1, <1>2, QueueInvariant, PTL DEF Spec

-----------------------------------------------------------------------------
(* The stack pointer.                                                      *)

\* sp counts down, and wraps at the beginning of the segment.
LEMMA Wrap ==
    ASSUME NEW a \in Int, -SegSize <= a, a < 2 * SegSize
    PROVE  a % SegSize = IF a < 0 THEN a + SegSize ELSE IF a < SegSize THEN a ELSE a - SegSize
<1>1. SegSize \in Nat /\ SegSize > 0
  BY MonitorAssumption, SMTT(30)
<1>2. CASE a < 0
  BY <1>1, <1>2, SMTT(30)
<1>3. CASE a >= 0 /\ a < SegSize
  BY <1>1, <1>3, SMTT(30)
<1>4. CASE a >= SegSize
  BY <1>1, <1>4, SMTT(30)
<1> QED
  BY <1>1, <1>2, <1>3, <1>4, SMTT(30)

\* Depths in a segment have units of their own, all within the segment.
LEMMA Locations ==
    /\ SegSize \in Nat /\ SegSize > 0 /\ Start \in 0 .. SegSize - 1
    /\ \A d \in 0 .. SegSize : Loc(d) \in 0 .. SegSize - 1
    /\ \A d, e \in 1 .. SegSize : Loc(d) = Loc(e) => d = e
    /\ Loc(0) = Start
  BY MonitorAssumption, SMTT(30) DEF Loc

\* A push of n units goes n deeper, a pop of n units goes n up.
LEMMA Moves ==
    ASSUME NEW d \in Nat, NEW n \in 1 .. 2, d + n <= SegSize
    PROVE  /\ (Loc(d) - n) % SegSize = Loc(d + n)
           /\ PopSp(Loc(d + n), n) = Loc(d)
<1>1. SegSize \in Nat /\ SegSize > 0 /\ Start \in 0 .. SegSize - 1
  BY Locations
<1>2. (Loc(d) - n) % SegSize = Loc(d + n)
  <2>1. Loc(d) - n \in Int /\ -SegSize <= Loc(d) - n /\ Loc(d) - n < 2 * SegSize
    BY <1>1, SMTT(30) DEF Loc
  <2> QED
    BY <1>1, <2>1, Wrap, SMTT(30) DEF Loc
<1>3. PopSp(Loc(d + n), n) = Loc(d)
  <2>1. Loc(d + n) + n \in Int /\ -SegSize <= Loc(d + n) + n /\ Loc(d + n) + n < 2 * SegSize
    BY <1>1, SMTT(30) DEF Loc
  <2> QED
    BY <1>1, <2>1, Wrap, SMTT(30) DEF Loc, PopSp
<1> QED
  BY <1>2, <1>3

\* The second unit of a value is the one above the first, or, at the end of the
\* segment, the unit that follows it.
LEMMA Upper ==
    ASSUME NEW d \in Nat, d + 2 <= SegSize
    PROVE  Loc(d + 2) + 1 = Loc(d + 1) \/ Loc(d + 2) + 1 = SegSize
  BY Locations, SMTT(30) DEF Loc

-----------------------------------------------------------------------------
(* Memory.                                                                 *)

\* What a push leaves in memory m.
LEMMA Push ==
    ASSUME NEW m, DOMAIN m = 0 .. SegSize, NEW vs, Len(vs) \in 1 .. 2, DOMAIN vs = 1 .. Len(vs),
           NEW d \in Nat, d + Len(vs) <= SegSize
    PROVE  /\ PushSp(Loc(d), vs) = Loc(d + Len(vs))
           /\ DOMAIN PushMem(m, Loc(d), vs) = 0 .. SegSize
           /\ PushMem(m, Loc(d), vs)[Loc(d + Len(vs))] = vs[1]
           /\ \A e \in 1 .. SegSize :
                 e <= d \/ e > d + Len(vs) => PushMem(m, Loc(d), vs)[Loc(e)] = m[Loc(e)]
<1>r. PICK r : r = PushMem(m, Loc(d), vs)
  OBVIOUS
<1>0. PICK n \in 1 .. 2 : n = Len(vs)
  OBVIOUS
<1>1. PushSp(Loc(d), vs) = Loc(d + n)
  BY <1>0, Moves DEF PushSp
<1>2. SegSize \in Nat /\ d + n \in 1 .. SegSize /\ d + 1 \in 1 .. SegSize
  <2>1. SegSize \in Nat
    BY Locations
  <2> QED
    BY <1>0, <2>1, SMTT(30)
<1>3. PICK lo \in 0 .. SegSize - 1 : lo = Loc(d + n)
  BY <1>2, Locations, SMTT(30)
<1>4. r = [u \in 0 .. SegSize |-> IF u - lo + 1 \in 1 .. n THEN vs[u - lo + 1] ELSE m[u]]
  BY <1>r, <1>0, <1>1, <1>3 DEF PushMem
<1>5. DOMAIN r = 0 .. SegSize
  BY <1>4
<1>6. r[lo] = vs[1]
  <2>1. lo - lo + 1 = 1 /\ 1 \in 1 .. n /\ lo \in 0 .. SegSize
    BY <1>2, SMTT(30)
  <2> QED
    BY <1>4, <2>1
<1>7. ASSUME NEW e \in 1 .. SegSize, e <= d \/ e > d + n
      PROVE  r[Loc(e)] = m[Loc(e)]
  <2>1. PICK q \in 0 .. SegSize - 1 : q = Loc(e)
    BY <1>2, Locations, SMTT(30)
  <2>2. e # d + n /\ e # d + 1
    BY <1>7, SMTT(30)
  <2>3. q # lo /\ q # Loc(d + 1)
    BY <1>2, <1>3, <2>1, <2>2, Locations
  <2>4. n = 2 => lo + 1 = Loc(d + 1) \/ lo + 1 = SegSize
    BY <1>2, <1>3, Upper, SMTT(30)
  <2>5. n = 2 => q # lo + 1
    BY <1>2, <2>1, <2>3, <2>4, SMTT(30)
  <2>6. q - lo + 1 \notin 1 .. n /\ q \in 0 .. SegSize
    BY <1>2, <2>3, <2>5, SMTT(30)
  <2> QED
    BY <1>4, <2>1, <2>6
<1> QED
  BY <1>r, <1>0, <1>1, <1>3, <1>5, <1>6, <1>7

\* The values that are pushed.
LEMMA Values ==
    ASSUME NEW x, NEW y
    PROVE  /\ Len(<<x>>) = 1 /\ DOMAIN <<x>> = 1 .. 1 /\ <<x>>[1] = x
           /\ Len(<<x, y>>) = 2 /\ DOMAIN <<x, y>> = 1 .. 2 /\ <<x, y>>[1] = x
  BY SMTT(30)

\* A push of the units vs at depth d turns memory m into r and goes to depth e.
Pushes(m, d, vs, r, e) ==
    /\ DOMAIN m = 0 .. SegSize /\ Len(vs) \in 1 .. 2 /\ DOMAIN vs = 1 .. Len(vs)
    /\ d \in Nat /\ e = d + Len(vs) /\ e <= SegSize /\ r = PushMem(m, Loc(d), vs)

\* What has changed then.
Pushed(m, d, vs, r, e) ==
    /\ PushSp(Loc(d), vs) = Loc(e) /\ DOMAIN r = 0 .. SegSize /\ r[Loc(e)] = vs[1]
    /\ \A b \in 1 .. d : r[Loc(b)] = m[Loc(b)]

\* Push in these terms.
LEMMA PushTo ==
    ASSUME NEW m, NEW d, NEW vs, NEW r, NEW e, Pushes(m, d, vs, r, e)
    PROVE  Pushed(m, d, vs, r, e)
<1>1. /\ DOMAIN m = 0 .. SegSize /\ Len(vs) \in 1 .. 2 /\ DOMAIN vs = 1 .. Len(vs) /\ d \in Nat
      /\ d + Len(vs) <= SegSize
  BY DEF Pushes
<1>2. /\ PushSp(Loc(d), vs) = Loc(d + Len(vs))
      /\ DOMAIN PushMem(m, Loc(d), vs) = 0 .. SegSize
      /\ PushMem(m, Loc(d), vs)[Loc(d + Len(vs))] = vs[1]
      /\ \A b \in 1 .. SegSize :
            b <= d \/ b > d + Len(vs) => PushMem(m, Loc(d), vs)[Loc(b)] = m[Loc(b)]
  BY <1>1, Push
<1>3. \A b \in 1 .. d : b \in 1 .. SegSize /\ b <= d
  BY <1>1, Locations, SMTT(30)
<1>4. r = PushMem(m, Loc(d), vs) /\ e = d + Len(vs)
  BY DEF Pushes
<1> QED
  BY <1>2, <1>3, <1>4 DEF Pushed

\* Forgetting the units of a value that was popped leaves what lies above it.
LEMMA Forgets ==
    ASSUME DOMAIN mem = 0 .. SegSize, NEW units, NEW d \in Nat, d <= SegSize,
           \A e \in 1 .. d : Loc(e) \notin units
    PROVE  /\ DOMAIN Forget(units) = 0 .. SegSize
           /\ \A e \in 1 .. d : Forget(units)[Loc(e)] = mem[Loc(e)]
<1>1. \A e \in 1 .. d : Loc(e) \in 0 .. SegSize
  BY Locations, SMTT(30)
<1> QED
  BY <1>1 DEF Forget

-----------------------------------------------------------------------------
(* The frames.                                                             *)

\* The fields of a frame.
LEMMA FrameFields ==
    ASSUME NEW f \in Frames
    PROVE  /\ f.depth \in Nat /\ f.size \in 1 .. 4 /\ f.kind \in {"flags", "int"}
           /\ f.if \in BOOLEAN /\ f.arith \in Arith
           /\ f.kind = "flags" => f.size \in Sizes
           /\ f.kind = "int" => f.size = 4 /\ f.cs \in Segs /\ f.eip \in 0 .. IpSize - 1
<1>1. CASE f \in [kind : {"flags"}, size : Sizes, depth : Nat, if : BOOLEAN, arith : Arith]
  BY <1>1, SMTT(30) DEF Sizes
<1>2. CASE f \in [kind : {"int"}, size : {4}, depth : Nat, if : BOOLEAN, arith : Arith,
                  cs : Segs, eip : 0 .. IpSize - 1]
  BY <1>2, SMTT(30)
<1> QED
  BY <1>1, <1>2 DEF Frames

\* A frame in a part of memory that does not change stays stored.
LEMMA StoredStays ==
    ASSUME NEW f \in Frames, NEW d \in Nat, f.depth + f.size <= d, NEW m, NEW n,
           \A e \in 1 .. d : n[Loc(e)] = m[Loc(e)], Stored(m, f)
    PROVE  Stored(n, f)
<1>1. /\ f.depth \in Nat /\ f.size \in 1 .. 4 /\ f.kind \in {"flags", "int"}
      /\ f.kind = "int" => f.size = 4
  BY FrameFields
<1>2. CASE f.kind = "int"
  <2>1. f.depth + 4 \in 1 .. d /\ f.depth + 2 \in 1 .. d /\ f.depth + 1 \in 1 .. d
    BY <1>1, <1>2, SMTT(30)
  <2> QED
    BY <1>2, <2>1 DEF Stored
<1>3. CASE f.kind # "int"
  <2>1. f.depth + f.size \in 1 .. d
    BY <1>1, SMTT(30)
  <2> QED
    BY <1>3, <2>1 DEF Stored
<1> QED
  BY <1>2, <1>3

\* How deep the stack is.
LEMMA DepthBound ==
    ASSUME MonitorTypeOK, StackOK
    PROVE  /\ Depth \in Nat /\ Depth <= 4 * Len(frames)
           /\ \A k \in 1 .. Len(frames) : frames[k] \in Frames /\ frames[k].depth + frames[k].size <= Depth
           /\ Len(frames) \in Nat /\ Len(frames) <= MaxFrames /\ 4 * MaxFrames <= SegSize
           /\ MaxFrames \in Nat /\ SegSize \in Nat
<1>1. /\ Len(frames) \in Nat /\ Len(frames) <= MaxFrames /\ 4 * MaxFrames <= SegSize
      /\ MaxFrames \in Nat /\ SegSize \in Nat /\ frames \in Seq(Frames)
  BY MonitorAssumption, SMTT(30) DEF MonitorTypeOK, StackOK
<1>2. \A k \in 1 .. Len(frames) : frames[k] \in Frames
  BY <1>1, SMTT(30)
<1>3. \A k \in 1 .. Len(frames) : frames[k].depth \in Nat /\ frames[k].size \in 1 .. 4
  BY <1>2, FrameFields
<1>4. CASE frames = <<>>
  <2>1. Len(frames) = 0 /\ Depth = 0
    BY <1>4 DEF Depth
  <2> QED
    BY <1>1, <2>1, SMTT(30)
<1>5. CASE frames # <<>>
  <2>1. 1 \in 1 .. Len(frames) /\ Depth = frames[1].depth + frames[1].size
    BY <1>1, <1>5, SMTT(30) DEF Depth
  <2>2. Depth \in Nat /\ frames[1].depth <= Depth
    BY <1>3, <2>1, SMTT(30)
  <2>3. Depth <= 4 * (Len(frames) - 1 + 1)
    BY <2>1 DEF StackOK
  <2>4. ASSUME NEW k \in 1 .. Len(frames) PROVE frames[k].depth + frames[k].size <= Depth
    <3>1. CASE k = 1
      BY <2>1, <2>2, <3>1, SMTT(30)
    <3>2. CASE k # 1
      <4>1. 1 \in 1 .. k - 1
        BY <1>1, <3>2, SMTT(30)
      <4>2. frames[k].depth + frames[k].size <= frames[1].depth
        BY <4>1 DEF StackOK
      <4>3. frames[k].depth \in Nat /\ frames[k].size \in 1 .. 4 /\ frames[1].depth \in Nat
        BY <1>3, <2>1
      <4> QED
        BY <2>2, <4>2, <4>3, SMTT(30)
    <3> QED
      BY <3>1, <3>2
  <2> QED
    BY <1>1, <1>2, <2>2, <2>3, <2>4, SMTT(30)
<1> QED
  BY <1>4, <1>5

\* A frame is pushed.
LEMMA StackPush ==
    ASSUME MonitorTypeOK, StackOK, Len(frames) < MaxFrames,
           NEW f \in Frames, f.depth = Depth, frames' = <<f>> \o frames,
           esp' = Loc(Depth + f.size), Stored(mem', f),
           \A e \in 1 .. Depth : mem'[Loc(e)] = mem[Loc(e)]
    PROVE  StackOK'
<1> DEFINE L == Len(frames)
<1>1. /\ Depth \in Nat /\ Depth <= 4 * L /\ L \in Nat
      /\ \A k \in 1 .. L : frames[k] \in Frames /\ frames[k].depth + frames[k].size <= Depth
  BY DepthBound
<1>2. frames \in Seq(Frames) /\ f.size \in 1 .. 4
  BY FrameFields DEF StackOK
<1>3. /\ frames' \in Seq(Frames) /\ Len(frames') = L + 1 /\ frames'[1] = f /\ frames' # <<>>
      /\ \A k \in 2 .. L + 1 : frames'[k] = frames[k - 1]
  <2>1. <<f>> \in Seq(Frames) /\ Len(<<f>>) = 1 /\ <<f>>[1] = f
    BY SMTT(30)
  <2> QED
    BY <1>2, <2>1, SMTT(30)
<1>4. Depth' = Depth + f.size
  BY <1>3 DEF Depth
<1>5. ASSUME NEW k \in 2 .. L + 1
      PROVE  /\ frames'[k].depth + frames'[k].size <= 4 * (L + 1 - k + 1)
             /\ frames'[k].depth = IF k = L + 1 THEN 0
                                   ELSE frames'[k + 1].depth + frames'[k + 1].size
             /\ \A j \in 1 .. k - 1 : frames'[k].depth + frames'[k].size <= frames'[j].depth
             /\ Stored(mem', frames'[k])
  <2>1. k - 1 \in 1 .. L /\ k \in Int
    BY <1>1, SMTT(30)
  <2>2. frames'[k] = frames[k - 1] /\ frames[k - 1] \in Frames
    BY <1>1, <1>3, <2>1
  <2>3. frames[k - 1].depth + frames[k - 1].size <= 4 * (L - (k - 1) + 1)
    BY <2>1 DEF StackOK
  <2>4. frames[k - 1].depth = IF k - 1 = L THEN 0 ELSE frames[k].depth + frames[k].size
    <3>1. (k - 1) + 1 = k
      BY <2>1, SMTT(30)
    <3> QED
      BY <2>1, <3>1 DEF StackOK
  <2>5. k # L + 1 => frames'[k + 1] = frames[k]
    <3>1. k # L + 1 => k + 1 \in 2 .. L + 1 /\ (k + 1) - 1 = k
      BY <1>1, SMTT(30)
    <3> QED
      BY <1>3, <3>1
  <2>6. ASSUME NEW j \in 1 .. k - 1
        PROVE  frames[k - 1].depth + frames[k - 1].size <= frames'[j].depth
    <3>1. CASE j = 1
      BY <1>1, <1>3, <2>1, <3>1
    <3>2. CASE j # 1
      <4>1. j \in 2 .. L + 1 /\ j - 1 \in 1 .. (k - 1) - 1
        BY <1>1, <3>2, SMTT(30)
      <4>2. frames'[j] = frames[j - 1]
        BY <1>3, <4>1
      <4> QED
        BY <2>1, <4>1, <4>2 DEF StackOK
    <3> QED
      BY <3>1, <3>2
  <2>7. Stored(mem, frames[k - 1])
    BY <2>1 DEF StackOK
  <2>8. Stored(mem', frames[k - 1])
    BY <1>1, <2>1, <2>2, <2>7, StoredStays
  <2>9. k - 1 = L <=> k = L + 1
    BY <1>1, SMTT(30)
  <2>10. L - (k - 1) + 1 = L + 1 - k + 1
    BY <1>1, SMTT(30)
  <2> QED
    BY <2>2, <2>3, <2>4, <2>5, <2>6, <2>8, <2>9, <2>10
<1>6. /\ f.depth + f.size <= 4 * (L + 1 - 1 + 1)
      /\ f.depth = IF 1 = L + 1 THEN 0 ELSE frames'[2].depth + frames'[2].size
  <2>1. f.depth + f.size <= 4 * (L + 1 - 1 + 1)
    BY <1>1, <1>2, SMTT(30)
  <2>2. CASE L = 0
    BY <1>2, <2>2, SMTT(30) DEF Depth
  <2>3. CASE L # 0
    <3>1. frames # <<>> /\ frames'[2] = frames[1]
      BY <1>1, <1>2, <1>3, <2>3, SMTT(30)
    <3>2. f.depth = frames'[2].depth + frames'[2].size
      BY <3>1 DEF Depth
    <3>3. 1 # L + 1
      BY <1>1, <2>3, SMTT(30)
    <3> QED
      BY <2>1, <3>2, <3>3
  <2> QED
    BY <2>1, <2>2, <2>3
<1>7. ASSUME NEW k \in 1 .. L + 1
      PROVE  /\ frames'[k].depth + frames'[k].size <= 4 * (L + 1 - k + 1)
             /\ frames'[k].depth = IF k = L + 1 THEN 0
                                   ELSE frames'[k + 1].depth + frames'[k + 1].size
             /\ \A j \in 1 .. k - 1 : frames'[k].depth + frames'[k].size <= frames'[j].depth
             /\ Stored(mem', frames'[k])
  <2>1. CASE k = 1
    <3>1. 1 .. k - 1 = {} /\ k + 1 = 2
      BY <2>1, SMTT(30)
    <3> QED
      BY <1>3, <1>6, <2>1, <3>1
  <2>2. CASE k # 1
    <3>1. k \in 2 .. L + 1
      BY <1>1, <2>2, SMTT(30)
    <3> QED
      BY <1>5, <3>1
  <2> QED
    BY <2>1, <2>2
<1> QED
  BY <1>3, <1>4, <1>7, SMTT(30) DEF StackOK

\* A frame is popped.
LEMMA StackPop ==
    ASSUME MonitorTypeOK, StackOK, frames # <<>>, frames' = Tail(frames), esp' = Loc(frames[1].depth),
           \A e \in 1 .. frames[1].depth : mem'[Loc(e)] = mem[Loc(e)]
    PROVE  StackOK'
<1> DEFINE L == Len(frames)
           D == frames[1].depth
<1>1. L \in Nat /\ frames \in Seq(Frames) /\ L > 0
  BY DepthBound, SMTT(30) DEF StackOK
<1>2. \A k \in 1 .. L : frames[k] \in Frames
  BY DepthBound
<1>3. /\ frames' \in Seq(Frames) /\ Len(frames') = L - 1
      /\ \A k \in 1 .. L - 1 : frames'[k] = frames[k + 1]
  BY <1>1, SMTT(30)
<1>4. D \in Nat
  <2>1. 1 \in 1 .. L
    BY <1>1, SMTT(30)
  <2> QED
    BY <1>2, <2>1, FrameFields
<1>5. Depth' = D
  <2>1. D = IF 1 = L THEN 0 ELSE frames[2].depth + frames[2].size
    <3>1. 1 \in 1 .. L /\ 1 + 1 = 2
      BY <1>1, SMTT(30)
    <3> QED
      BY <3>1 DEF StackOK
  <2>2. CASE L = 1
    <3>1. frames' = <<>>
      BY <1>3, <2>2, SMTT(30)
    <3> QED
      BY <2>1, <2>2, <3>1 DEF Depth
  <2>3. CASE L # 1
    <3>1. \A i \in Nat : i > 0 /\ i # 1 => 1 \in 1 .. i - 1 /\ i - 1 # 0
      BY SMTT(30)
    <3>2. 1 \in 1 .. L - 1 /\ L - 1 # 0
      BY <1>1, <2>3, <3>1
    <3>3. 1 + 1 = 2
      BY SMTT(30)
    <3>4. frames'[1] = frames[2] /\ frames' # <<>>
      BY <1>3, <3>2, <3>3
    <3> QED
      BY <2>1, <2>3, <3>4 DEF Depth
  <2> QED
    BY <2>2, <2>3
<1>6. ASSUME NEW k \in 1 .. L - 1
      PROVE  /\ frames'[k].depth + frames'[k].size <= 4 * (L - 1 - k + 1)
             /\ frames'[k].depth = IF k = L - 1 THEN 0
                                   ELSE frames'[k + 1].depth + frames'[k + 1].size
             /\ \A j \in 1 .. k - 1 : frames'[k].depth + frames'[k].size <= frames'[j].depth
             /\ Stored(mem', frames'[k])
  <2>1. k + 1 \in 1 .. L /\ 1 \in 1 .. (k + 1) - 1
    BY <1>1, SMTT(30)
  <2>2. frames'[k] = frames[k + 1] /\ frames[k + 1] \in Frames
    BY <1>2, <1>3, <2>1
  <2>3. frames[k + 1].depth + frames[k + 1].size <= 4 * (L - (k + 1) + 1)
    BY <2>1 DEF StackOK
  <2>4. frames[k + 1].depth = IF k + 1 = L THEN 0
                              ELSE frames[(k + 1) + 1].depth + frames[(k + 1) + 1].size
    BY <2>1 DEF StackOK
  <2>5. k # L - 1 => frames'[k + 1] = frames[(k + 1) + 1]
    <3>1. k # L - 1 => k + 1 \in 1 .. L - 1
      BY <1>1, SMTT(30)
    <3> QED
      BY <1>3, <3>1
  <2>6. ASSUME NEW j \in 1 .. k - 1
        PROVE  frames[k + 1].depth + frames[k + 1].size <= frames'[j].depth
    <3>1. j \in 1 .. L - 1 /\ j + 1 \in 1 .. (k + 1) - 1
      BY <1>1, SMTT(30)
    <3>2. frames'[j] = frames[j + 1]
      BY <1>3, <3>1
    <3> QED
      BY <2>1, <3>1, <3>2 DEF StackOK
  <2>7. Stored(mem, frames[k + 1]) /\ frames[k + 1].depth + frames[k + 1].size <= D
    BY <2>1 DEF StackOK
  <2>8. Stored(mem', frames[k + 1])
    BY <1>4, <2>2, <2>7, StoredStays
  <2>9. k + 1 = L <=> k = L - 1
    BY <1>1, SMTT(30)
  <2>10. L - (k + 1) + 1 = L - 1 - k + 1
    BY <1>1, SMTT(30)
  <2> QED
    BY <2>2, <2>3, <2>4, <2>5, <2>6, <2>8, <2>9, <2>10
<1> QED
  BY <1>3, <1>5, <1>6 DEF StackOK

\* Steps that leave the stack alone.
LEMMA StackSame ==
    ASSUME StackOK, UNCHANGED <<esp, mem, frames>>
    PROVE  StackOK'
  BY DEF StackOK, Depth

-----------------------------------------------------------------------------
(* The steps.                                                              *)

\* The instruction pointer stays within its segment.
LEMMA SkipType == \A n \in Nat : MonitorTypeOK => Skip(n) \in 0 .. IpSize - 1
<1> SUFFICES ASSUME NEW n \in Nat, MonitorTypeOK PROVE Skip(n) \in 0 .. IpSize - 1
  OBVIOUS
<1>1. eip + n \in Nat /\ IpSize \in Nat /\ IpSize > 0
  BY MonitorAssumption, SMTT(30) DEF MonitorTypeOK
<1>2. (eip + n) % IpSize \in 0 .. IpSize - 1
  BY <1>1, SMTT(30)
<1> QED
  BY <1>2 DEF Skip

\* PUSHF stores the virtual flags.
LEMMA PushfInv ==
    ASSUME MonitorInv, NEW n \in Sizes, Pushf(n)
    PROVE  MonitorInv'
<1> DEFINE f == [kind |-> "flags", size |-> n, depth |-> Depth, if |-> v86_if,
                 arith |-> eflags.arith]
<1>1. MonitorTypeOK /\ StackOK /\ StaysVirtual /\ mode = "v86" /\ Len(frames) < MaxFrames
  BY DEF MonitorInv, Pushf
<1>2. /\ Depth \in Nat /\ Depth <= 4 * Len(frames) /\ Len(frames) \in Nat
      /\ 4 * MaxFrames <= SegSize /\ MaxFrames \in Nat /\ SegSize \in Nat /\ frames \in Seq(Frames)
  BY <1>1, DepthBound DEF StackOK
<1>3. n \in 1 .. 2 /\ Depth + n <= SegSize /\ Depth + 2 <= SegSize
  BY <1>1, <1>2, SMTT(30) DEF Sizes
<1>4. eflags.arith \in Arith /\ v86_if \in BOOLEAN /\ eflags.vm /\ DOMAIN mem = 0 .. SegSize
  BY <1>1 DEF MonitorTypeOK, EFlags, StaysVirtual
<1>5. f \in Frames /\ f.depth = Depth /\ f.size = n /\ f.kind = "flags" /\ f.if = v86_if
      /\ f.arith = eflags.arith
  BY <1>2, <1>4 DEF Frames
<1>6. Low(VirtualFlags) = [arith |-> f.arith, if |-> f.if]
  BY DEF Low, VirtualFlags
<1>7. esp = Loc(Depth) /\ esp' = PushSp(esp, Units(VirtualFlags, n))
      /\ mem' = PushMem(mem, esp, Units(VirtualFlags, n))
      /\ frames' = <<f>> \o frames /\ eip' = Skip(1 + Prefix(n))
      /\ UNCHANGED <<mode, cs, eflags, v86_if>>
  BY <1>1 DEF StackOK, Pushf
<1> HIDE DEF f
<1>8. /\ esp' = Loc(Depth + n) /\ DOMAIN mem' = 0 .. SegSize
      /\ mem'[Loc(Depth + n)] = Low(VirtualFlags)
      /\ \A e \in 1 .. Depth : mem'[Loc(e)] = mem[Loc(e)]
  <2>1. \A e \in 1 .. Depth : e \in 1 .. SegSize /\ e <= Depth
    BY <1>2, <1>3, SMTT(30)
  <2>2. PICK vs : vs = Units(VirtualFlags, n)
    OBVIOUS
  <2>3. Len(vs) = n /\ DOMAIN vs = 1 .. n /\ vs[1] = Low(VirtualFlags)
    <3>1. CASE n = 1
      BY <2>2, <3>1, Values DEF Units
    <3>2. CASE n = 2
      BY <2>2, <3>2, Values DEF Units
    <3> QED
      BY <3>1, <3>2 DEF Sizes
  <2>4. esp' = PushSp(Loc(Depth), vs) /\ mem' = PushMem(mem, Loc(Depth), vs)
    BY <1>7, <2>2
  <2>5. /\ esp' = Loc(Depth + n) /\ DOMAIN mem' = 0 .. SegSize /\ mem'[Loc(Depth + n)] = vs[1]
        /\ \A e \in 1 .. SegSize : e <= Depth \/ e > Depth + n => mem'[Loc(e)] = mem[Loc(e)]
    <3>1. Len(vs) \in 1 .. 2 /\ DOMAIN vs = 1 .. Len(vs) /\ Depth + Len(vs) <= SegSize
      BY <1>3, <2>3
    <3>2. /\ PushSp(Loc(Depth), vs) = Loc(Depth + Len(vs))
          /\ DOMAIN PushMem(mem, Loc(Depth), vs) = 0 .. SegSize
          /\ PushMem(mem, Loc(Depth), vs)[Loc(Depth + Len(vs))] = vs[1]
          /\ \A e \in 1 .. SegSize : e <= Depth \/ e > Depth + Len(vs)
                => PushMem(mem, Loc(Depth), vs)[Loc(e)] = mem[Loc(e)]
      BY <1>2, <1>4, <3>1, Push
    <3> QED
      BY <2>3, <2>4, <3>2
  <2> QED
    BY <2>1, <2>3, <2>5
<1>9. Stored(mem', f)
  BY <1>5, <1>6, <1>8 DEF Stored
<1>10. StackOK'
  BY <1>1, <1>5, <1>7, <1>8, <1>9, StackPush
<1>11. Len(frames') <= MaxFrames
  BY <1>1, <1>2, <1>5, <1>7, SMTT(30)
<1>12. eip' \in 0 .. IpSize - 1 /\ esp' \in 0 .. SegSize - 1
  <2>1. 1 + Prefix(n) \in Nat
    BY <1>3, SMTT(30) DEF Prefix
  <2>2. Depth + n \in 0 .. SegSize
    BY <1>2, <1>3, SMTT(30)
  <2> QED
    BY <1>1, <1>7, <1>8, <2>1, <2>2, SkipType, Locations
<1>13. MonitorTypeOK'
  BY <1>1, <1>7, <1>8, <1>11, <1>12 DEF MonitorTypeOK
<1>14. StaysVirtual' /\ KernelContext' /\ mode' # "kernel"
  BY <1>1, <1>4, <1>7 DEF StaysVirtual, KernelContext
<1> QED
  BY <1>10, <1>13, <1>14 DEF MonitorInv

\* INT pushes the flags, cs and the address behind it.
LEMMA InterruptInv ==
    ASSUME MonitorInv, NEW n \in Sizes, NEW v \in DOMAIN ivt, Interrupt(v, n)
    PROVE  MonitorInv'
<1> DEFINE ip == Skip(2 + Prefix(n))
           f == [kind |-> "int", size |-> 4, depth |-> Depth, if |-> v86_if,
                 arith |-> eflags.arith, cs |-> cs, eip |-> ip]
           flags == Low(VirtualFlags)
<1>1. MonitorTypeOK /\ StackOK /\ StaysVirtual /\ mode = "v86" /\ Len(frames) < MaxFrames
  BY DEF MonitorInv, Interrupt
<1>2. /\ Depth \in Nat /\ Depth <= 4 * Len(frames) /\ Len(frames) \in Nat
      /\ 4 * MaxFrames <= SegSize /\ MaxFrames \in Nat /\ SegSize \in Nat /\ frames \in Seq(Frames)
  BY <1>1, DepthBound DEF StackOK
<1>3. Depth + 4 <= SegSize
  BY <1>1, <1>2, SMTT(30)
<1>4. /\ eflags.arith \in Arith /\ v86_if \in BOOLEAN /\ eflags.vm /\ DOMAIN mem = 0 .. SegSize
      /\ cs \in Segs
  BY <1>1 DEF MonitorTypeOK, EFlags, StaysVirtual
<1>5. ip \in 0 .. IpSize - 1
  <2>1. 2 + Prefix(n) \in Nat
    BY SMTT(30) DEF Prefix, Sizes
  <2> QED
    BY <1>1, <2>1, SkipType
<1>6. /\ f \in Frames /\ f.depth = Depth /\ f.size = 4 /\ f.kind = "int" /\ f.if = v86_if
      /\ f.arith = eflags.arith /\ f.cs = cs /\ f.eip = ip
  BY <1>2, <1>4, <1>5 DEF Frames
<1>7. flags = [arith |-> f.arith, if |-> f.if]
  BY DEF Low, VirtualFlags
<1> HIDE DEF f, ip, flags
<1>8. PICK xs, ys, zs : xs = <<flags>> /\ ys = <<cs>> /\ zs = <<ip, 0>>
  OBVIOUS
<1>9. /\ Len(xs) = 1 /\ DOMAIN xs = 1 .. 1 /\ xs[1] = flags
      /\ Len(ys) = 1 /\ DOMAIN ys = 1 .. 1 /\ ys[1] = cs
      /\ Len(zs) = 2 /\ DOMAIN zs = 1 .. 2 /\ zs[1] = ip
  BY <1>8, Values
<1>10. PICK d1, d2, d3 \in Nat : /\ d1 = Depth + 1 /\ d2 = Depth + 2 /\ d3 = Depth + 4
  BY <1>2, SMTT(30)
<1>11. PICK m1, m2, m3 : /\ m1 = PushMem(mem, Loc(Depth), xs)
                         /\ m2 = PushMem(m1, Loc(d1), ys)
                         /\ m3 = PushMem(m2, Loc(d2), zs)
  OBVIOUS
<1>12. /\ PushSp(Loc(Depth), xs) = Loc(d1) /\ PushSp(Loc(d1), ys) = Loc(d2)
       /\ PushSp(Loc(d2), zs) = Loc(d3) /\ DOMAIN m3 = 0 .. SegSize
       /\ m3[Loc(d1)] = xs[1] /\ m3[Loc(d2)] = ys[1] /\ m3[Loc(d3)] = zs[1]
       /\ \A e \in 1 .. Depth : m3[Loc(e)] = mem[Loc(e)]
  <2>1. /\ d1 = Depth + Len(xs) /\ d2 = d1 + Len(ys) /\ d3 = d2 + Len(zs)
        /\ d1 <= SegSize /\ d2 <= SegSize /\ d3 <= SegSize /\ d1 > Depth /\ d2 > d1
    BY <1>2, <1>3, <1>9, <1>10, SMTT(30)
  <2>2. Pushes(mem, Depth, xs, m1, d1)
    BY <1>2, <1>4, <1>9, <1>11, <2>1, SMTT(30) DEF Pushes
  <2>3. Pushed(mem, Depth, xs, m1, d1)
    BY <2>2, PushTo
  <2>4. Pushes(m1, d1, ys, m2, d2)
    BY <1>9, <1>10, <1>11, <2>1, <2>3, SMTT(30) DEF Pushes, Pushed
  <2>5. Pushed(m1, d1, ys, m2, d2)
    BY <2>4, PushTo
  <2>6. Pushes(m2, d2, zs, m3, d3)
    BY <1>9, <1>10, <1>11, <2>1, <2>5, SMTT(30) DEF Pushes, Pushed
  <2>7. Pushed(m2, d2, zs, m3, d3)
    BY <2>6, PushTo
  <2>8. /\ m3[Loc(d1)] = xs[1] /\ m3[Loc(d2)] = ys[1]
        /\ \A e \in 1 .. Depth : m3[Loc(e)] = mem[Loc(e)]
    <3>1. d1 \in 1 .. d1 /\ d1 \in 1 .. d2 /\ d2 \in 1 .. d2
          /\ \A e \in 1 .. Depth : e \in 1 .. d1 /\ e \in 1 .. d2
      BY <1>2, <1>10, <2>1, SMTT(30)
    <3> QED
      BY <2>3, <2>5, <2>7, <3>1 DEF Pushed
  <2> QED
    BY <2>3, <2>5, <2>7, <2>8 DEF Pushed
<1>13. /\ DOMAIN m3 = 0 .. SegSize /\ m3[Loc(Depth + 1)] = flags
       /\ m3[Loc(Depth + 2)] = cs /\ m3[Loc(Depth + 4)] = ip
  BY <1>9, <1>10, <1>12
<1>14. /\ mem' = m3 /\ esp' = Loc(Depth + 4) /\ frames' = <<f>> \o frames
       /\ cs' = ivt[v].seg /\ eip' = ivt[v].off /\ UNCHANGED <<mode, eflags, v86_if>>
  <2>1. esp = Loc(Depth)
    BY <1>1 DEF StackOK
  <2>2. PushSp(esp, <<0>>) = Loc(d1) /\ PushSp(Loc(d1), <<0>>) = Loc(d2)
    <3>1. Len(<<0>>) = Len(xs) /\ Len(<<0>>) = Len(ys)
      BY <1>9
    <3> QED
      BY <1>12, <2>1, <3>1 DEF PushSp
  <2>3. mem' = m3 /\ esp' = Loc(d3)
    BY <1>8, <1>11, <1>12, <2>1, <2>2 DEF Interrupt, IntFrame, ip, flags
  <2> QED
    BY <1>10, <2>3 DEF Interrupt, f, ip
<1>15. Stored(mem', f) /\ StackOK'
  <2>1. Stored(mem', f)
    BY <1>6, <1>7, <1>13, <1>14 DEF Stored
  <2> QED
    BY <1>1, <1>6, <1>12, <1>14, <2>1, StackPush
<1>16. Len(frames') <= MaxFrames
  BY <1>1, <1>2, <1>6, <1>14, SMTT(30)
<1>17. eip' \in 0 .. IpSize - 1 /\ esp' \in 0 .. SegSize - 1 /\ cs' \in Segs
  <2>1. Depth + 4 \in 0 .. SegSize
    BY <1>2, <1>3, SMTT(30)
  <2>2. ivt[v] \in [seg : Segs, off : 0 .. IpSize - 1]
    BY MonitorAssumption
  <2> QED
    BY <1>14, <2>1, <2>2, Locations
<1>18. MonitorTypeOK'
  BY <1>1, <1>13, <1>14, <1>16, <1>17 DEF MonitorTypeOK
<1>19. StaysVirtual' /\ KernelContext' /\ mode' # "kernel"
  BY <1>1, <1>4, <1>14 DEF StaysVirtual, KernelContext
<1> QED
  BY <1>15, <1>18, <1>19 DEF MonitorInv

\* The frame on top of the stack is at sp.
LEMMA Top ==
    ASSUME MonitorTypeOK, StackOK, frames # <<>>
    PROVE  /\ frames[1] \in Frames /\ Stored(mem, frames[1])
           /\ esp = Loc(frames[1].depth + frames[1].size)
           /\ frames[1].depth \in Nat /\ frames[1].size \in 1 .. 4
           /\ frames[1].depth + frames[1].size <= SegSize /\ SegSize \in Nat
<1>1. Len(frames) \in Nat /\ Len(frames) > 0
  BY DepthBound, SMTT(30) DEF StackOK
<1>2. 1 \in 1 .. Len(frames)
  BY <1>1, SMTT(30)
<1>3. frames[1] \in Frames /\ Stored(mem, frames[1])
  BY <1>2, DepthBound DEF StackOK
<1>4. Depth = frames[1].depth + frames[1].size
  BY DEF Depth
<1>5. frames[1].depth \in Nat /\ frames[1].size \in 1 .. 4
  BY <1>3, FrameFields
<1>6. Depth <= SegSize /\ SegSize \in Nat
  BY DepthBound, SMTT(30)
<1> QED
  BY <1>3, <1>4, <1>5, <1>6 DEF StackOK

\* The parts of the invariant that POPF and IRET restore in the same way.
LEMMA PopInv ==
    ASSUME MonitorInv, mode = "v86", frames # <<>>, frames' = Tail(frames), UNCHANGED mode,
           esp' = Loc(frames[1].depth), DOMAIN mem' = 0 .. SegSize,
           \A e \in 1 .. frames[1].depth : mem'[Loc(e)] = mem[Loc(e)],
           eip' \in 0 .. IpSize - 1, cs' \in Segs,
           eflags' = [arith |-> frames[1].arith, if |-> frames[1].if, vm |-> TRUE],
           v86_if' = eflags'.if
    PROVE  MonitorInv'
<1>1. MonitorTypeOK /\ StackOK
  BY DEF MonitorInv
<1>2. StackOK'
  BY <1>1, StackPop
<1>3. frames[1] \in Frames /\ frames[1].depth \in 0 .. SegSize
  BY <1>1, Top, SMTT(30)
<1>4. frames[1].arith \in Arith /\ frames[1].if \in BOOLEAN
  BY <1>3, FrameFields
<1>5. eflags' \in EFlags /\ v86_if' \in BOOLEAN /\ eflags'.vm
  BY <1>4 DEF EFlags
<1>6. esp' \in 0 .. SegSize - 1
  BY <1>3, Locations
<1>7. Len(frames') <= MaxFrames
  <2>1. frames \in Seq(Frames) /\ Len(frames) \in Nat /\ Len(frames) <= MaxFrames /\ MaxFrames \in Nat
    BY <1>1, DepthBound DEF StackOK
  <2> QED
    BY <2>1, SMTT(30)
<1>8. MonitorTypeOK'
  BY <1>1, <1>5, <1>6, <1>7 DEF MonitorTypeOK
<1>9. StaysVirtual' /\ KernelContext' /\ mode' # "kernel"
  BY <1>5 DEF StaysVirtual, KernelContext
<1> QED
  BY <1>2, <1>8, <1>9 DEF MonitorInv

\* POPF loads the flags that PUSHF has stored.
LEMMA PopfInv ==
    ASSUME MonitorInv, NEW n \in Sizes, Popf(n)
    PROVE  /\ MonitorInv' /\ frames[1].kind = "flags"
           /\ v86_if' = frames[1].if /\ eflags'.arith = frames[1].arith
<1> DEFINE f == frames[1]
           d == f.depth
<1>1. MonitorTypeOK /\ StackOK /\ mode = "v86" /\ frames # <<>> /\ f.kind = "flags" /\ f.size = n
  BY DEF MonitorInv, Popf
<1>2. /\ f \in Frames /\ Stored(mem, f) /\ esp = Loc(d + n) /\ d \in Nat
      /\ d + n <= SegSize /\ SegSize \in Nat
  BY <1>1, Top
<1>3. /\ eip' = Skip(1 + Prefix(n)) /\ esp' = PopSp(esp, n) /\ eflags' = LoadedFlags(Popped(esp, n))
      /\ v86_if' = eflags'.if /\ mem' = Forget(esp .. esp + n - 1) /\ frames' = Tail(frames)
      /\ UNCHANGED <<mode, cs>>
  BY DEF Popf
<1>4. n \in 1 .. 2
  BY SMTT(30) DEF Sizes
<1> HIDE DEF d
<1>5. mem[esp] = [arith |-> f.arith, if |-> f.if]
  BY <1>1, <1>2 DEF Stored, d
<1>6. d + n \in 1 .. SegSize /\ esp \in 0 .. SegSize - 1
  <2>1. d + n \in 1 .. SegSize
    BY <1>2, <1>4, SMTT(30)
  <2> QED
    BY <1>2, <2>1, Locations, SMTT(30)
<1>7. eflags' = [arith |-> f.arith, if |-> f.if, vm |-> TRUE]
  <2>1. Popped(esp, n)[1] = mem[esp + 1 - 1]
    BY <1>4, SMTT(30) DEF Popped
  <2>2. esp + 1 - 1 = esp
    BY <1>2, <1>6, SMTT(30)
  <2>3. Popped(esp, n)[1].arith = f.arith /\ Popped(esp, n)[1].if = f.if
    BY <1>5, <2>1, <2>2, SMTT(30)
  <2> QED
    BY <1>3, <2>3 DEF LoadedFlags
<1>8. esp' = Loc(d)
  BY <1>2, <1>3, <1>4, Moves
<1>9. ASSUME NEW e \in 1 .. d PROVE Loc(e) \notin esp .. esp + n - 1
  <2>1. e \in 1 .. SegSize /\ e # d + n
    BY <1>2, <1>4, SMTT(30)
  <2>2. PICK q \in 0 .. SegSize - 1 : q = Loc(e)
    BY <1>2, <2>1, Locations, SMTT(30)
  <2>3. q # esp
    BY <1>2, <1>6, <2>1, <2>2, Locations
  <2>4. CASE n = 1
    BY <1>2, <1>6, <2>2, <2>3, <2>4, SMTT(30)
  <2>5. CASE n = 2
    <3>1. esp + 1 = Loc(d + 1) \/ esp + 1 = SegSize
      BY <1>2, <2>5, Upper
    <3>2. e # d + 1 /\ d + 1 \in 1 .. SegSize
      BY <1>2, <1>4, SMTT(30)
    <3>3. q # Loc(d + 1)
      BY <2>1, <2>2, <3>2, Locations
    <3>4. q # esp + 1
      BY <1>2, <2>2, <3>1, <3>3, SMTT(30)
    <3> QED
      BY <1>2, <1>6, <2>2, <2>3, <2>5, <3>4, SMTT(30)
  <2> QED
    BY <1>4, <2>4, <2>5, SMTT(30)
<1>10. DOMAIN mem' = 0 .. SegSize /\ \A e \in 1 .. d : mem'[Loc(e)] = mem[Loc(e)]
  <2>1. DOMAIN mem = 0 .. SegSize /\ d <= SegSize
    BY <1>1, <1>2, <1>4, SMTT(30) DEF MonitorTypeOK
  <2> QED
    BY <1>2, <1>3, <1>9, <2>1, Forgets
<1>11. eip' \in 0 .. IpSize - 1 /\ cs' \in Segs
  <2>1. 1 + Prefix(n) \in Nat
    BY <1>4, SMTT(30) DEF Prefix
  <2> QED
    BY <1>1, <1>3, <2>1, SkipType DEF MonitorTypeOK
<1>12. MonitorInv'
  BY <1>1, <1>3, <1>7, <1>8, <1>10, <1>11, PopInv DEF d
<1> QED
  BY <1>1, <1>3, <1>7, <1>12, SMTT(30)

\* IRET loads what INT has stored.
LEMMA IretInv ==
    ASSUME MonitorInv, Iret
    PROVE  /\ MonitorInv' /\ frames[1].kind = "int"
           /\ v86_if' = frames[1].if /\ eflags'.arith = frames[1].arith
           /\ cs' = frames[1].cs /\ eip' = frames[1].eip
<1> DEFINE f == frames[1]
           d == f.depth
           flags == [arith |-> f.arith, if |-> f.if]
           units == (esp .. esp + IpUnits - 1) \cup {Loc(d + 2), Loc(d + 1)}
<1>1. MonitorTypeOK /\ StackOK /\ mode = "v86" /\ frames # <<>> /\ f.kind = "int"
  BY DEF MonitorInv, Iret
<1>2. /\ f \in Frames /\ Stored(mem, f) /\ esp = Loc(d + f.size) /\ d \in Nat
      /\ d + f.size <= SegSize /\ SegSize \in Nat
  BY <1>1, Top
<1>3. f.size = 4 /\ f.cs \in Segs /\ f.eip \in 0 .. IpSize - 1
  BY <1>1, <1>2, FrameFields
<1>4. esp = Loc(d + 4) /\ d + 4 <= SegSize
  BY <1>2, <1>3
<1> HIDE DEF d
<1>5. PopSp(Loc(d + 4), 2) = Loc(d + 2) /\ PopSp(Loc(d + 2), 1) = Loc(d + 1)
      /\ PopSp(Loc(d + 1), 1) = Loc(d)
  <2>1. d + 2 \in Nat /\ (d + 2) + 2 <= SegSize /\ (d + 2) + 2 = d + 4
    BY <1>2, <1>4, SMTT(30)
  <2>2. d + 1 \in Nat /\ (d + 1) + 1 <= SegSize /\ (d + 1) + 1 = d + 2
    BY <1>2, <1>4, SMTT(30)
  <2>3. d \in Nat /\ d + 1 <= SegSize
    BY <1>2, <1>4, SMTT(30)
  <2>4. PopSp(Loc((d + 2) + 2), 2) = Loc(d + 2)
    BY <2>1, Moves, SMTT(30)
  <2>5. PopSp(Loc((d + 1) + 1), 1) = Loc(d + 1)
    BY <2>2, Moves, SMTT(30)
  <2>6. PopSp(Loc(d + 1), 1) = Loc(d)
    BY <2>3, Moves, SMTT(30)
  <2> QED
    BY <2>1, <2>2, <2>4, <2>5, <2>6
<1>6. /\ eip' = Popped(esp, 2)[1] /\ cs' = Popped(Loc(d + 2), 1)[1]
      /\ eflags' = LoadedFlags(Popped(Loc(d + 1), 1)) /\ esp' = Loc(d)
      /\ v86_if' = eflags'.if /\ mem' = Forget(units) /\ frames' = Tail(frames) /\ mode' = mode
  BY <1>4, <1>5 DEF Iret, IpUnits
<1>7. /\ d + 4 \in 1 .. SegSize /\ d + 2 \in 1 .. SegSize /\ d + 1 \in 1 .. SegSize
      /\ esp \in 0 .. SegSize - 1 /\ Loc(d + 2) \in 0 .. SegSize - 1
      /\ Loc(d + 1) \in 0 .. SegSize - 1
  <2>1. d + 4 \in 1 .. SegSize /\ d + 2 \in 1 .. SegSize /\ d + 1 \in 1 .. SegSize
    BY <1>2, <1>4, SMTT(30)
  <2>2. \A e \in 1 .. SegSize : Loc(e) \in 0 .. SegSize - 1
    BY <1>2, Locations, SMTT(30)
  <2> QED
    BY <1>4, <2>1, <2>2
<1>8. mem[esp] = f.eip /\ mem[Loc(d + 2)] = f.cs /\ mem[Loc(d + 1)] = flags
  BY <1>1, <1>2, <1>4 DEF Stored, d
<1>9. ASSUME NEW sp \in 0 .. SegSize - 1, NEW n \in 1 .. 2 PROVE Popped(sp, n)[1] = mem[sp]
  <2>1. Popped(sp, n)[1] = mem[sp + 1 - 1]
    BY SMTT(30) DEF Popped
  <2>2. sp + 1 - 1 = sp
    BY <1>2, SMTT(30)
  <2> QED
    BY <2>1, <2>2
<1>10. eip' = f.eip /\ cs' = f.cs
  BY <1>6, <1>7, <1>8, <1>9, SMTT(30)
<1>11. eflags' = [arith |-> f.arith, if |-> f.if, vm |-> TRUE]
  <2>1. Popped(Loc(d + 1), 1)[1] = flags
    BY <1>7, <1>8, <1>9, SMTT(30)
  <2>2. Popped(Loc(d + 1), 1)[1].arith = f.arith /\ Popped(Loc(d + 1), 1)[1].if = f.if
    BY <2>1, SMTT(30)
  <2> QED
    BY <1>6, <2>2 DEF LoadedFlags
<1>12. ASSUME NEW e \in 1 .. d PROVE Loc(e) \notin units
  <2>1. /\ e \in 1 .. SegSize /\ e # d + 4 /\ e # d + 3 /\ e # d + 2 /\ e # d + 1
        /\ d + 3 \in 1 .. SegSize
    BY <1>2, <1>4, SMTT(30)
  <2>2. PICK q \in 0 .. SegSize - 1 : q = Loc(e)
    BY <1>2, <2>1, Locations, SMTT(30)
  <2>3. q # esp /\ q # Loc(d + 3) /\ q # Loc(d + 2) /\ q # Loc(d + 1)
    BY <1>4, <1>7, <2>1, <2>2, Locations
  <2>4. esp + 1 = Loc(d + 3) \/ esp + 1 = SegSize
    <3>1. d + 2 \in Nat /\ (d + 2) + 2 <= SegSize /\ (d + 2) + 2 = d + 4 /\ (d + 2) + 1 = d + 3
      BY <1>2, <1>4, SMTT(30)
    <3>2. Loc((d + 2) + 2) + 1 = Loc((d + 2) + 1) \/ Loc((d + 2) + 2) + 1 = SegSize
      BY <3>1, Upper
    <3> QED
      BY <1>4, <3>1, <3>2
  <2>5. q # esp + 1
    BY <1>2, <2>2, <2>3, <2>4, SMTT(30)
  <2>6. q \notin esp .. esp + IpUnits - 1
    BY <1>2, <1>7, <2>2, <2>3, <2>5, SMTT(30) DEF IpUnits
  <2> QED
    BY <2>2, <2>3, <2>6
<1>13. DOMAIN mem' = 0 .. SegSize /\ \A e \in 1 .. d : mem'[Loc(e)] = mem[Loc(e)]
  <2>1. DOMAIN mem = 0 .. SegSize /\ d <= SegSize
    BY <1>1, <1>2, <1>4, SMTT(30) DEF MonitorTypeOK
  <2> HIDE DEF units
  <2> QED
    BY <1>2, <1>6, <1>12, <2>1, Forgets
<1>14. MonitorInv'
  BY <1>1, <1>3, <1>6, <1>10, <1>11, <1>13, PopInv DEF d
<1> QED
  BY <1>1, <1>6, <1>10, <1>11, <1>14, SMTT(30)

\* Entering and leaving virtual 8086 mode, and the steps that touch no stack.
LEMMA OtherInv ==
    ASSUME MonitorInv,
           \/ Enter \/ Unprivileged \/ Exit \/ Unhandled \/ (\E b \in BOOLEAN : SetIf(b))
           \/ UNCHANGED monitorVars
    PROVE  MonitorInv' /\ frames' = frames
<1>1. /\ MonitorTypeOK /\ StackOK /\ StaysVirtual /\ KernelContext /\ SegSize \in Nat /\ Start \in 0 .. SegSize - 1
      /\ (mode = "kernel" => frames = <<>>)
  BY MonitorAssumption DEF MonitorInv
<1>2. esp = Loc(Depth) /\ (frames = <<>> => esp = Start)
  <2>1. frames = <<>> => Depth = 0
    BY DEF Depth
  <2> QED
    BY <1>1, <2>1, Locations DEF StackOK
<1>3. Skip(1) \in 0 .. IpSize - 1 /\ 0 \in 0 .. IpSize - 1
  BY <1>1, SkipType, MonitorAssumption, SMTT(30)
<1>4. CASE Enter
  <2>1. /\ mode = "kernel" /\ mode' = "v86" /\ cs' \in Segs /\ eip' = 0 /\ esp' = Start
        /\ eflags' = [eflags EXCEPT !.if = TRUE, !.vm = TRUE] /\ UNCHANGED <<v86_if, mem, frames>>
    BY <1>4 DEF Enter
  <2>2. esp' = esp
    BY <1>1, <1>2, <2>1
  <2>3. eflags' \in EFlags /\ eflags'.vm
    BY <1>1, <2>1 DEF MonitorTypeOK, EFlags
  <2>4. MonitorTypeOK'
    BY <1>1, <1>3, <2>1, <2>2, <2>3 DEF MonitorTypeOK
  <2>5. StackOK'
    BY <1>1, <2>1, <2>2, StackSame
  <2> QED
    BY <2>1, <2>3, <2>4, <2>5 DEF MonitorInv, StaysVirtual, KernelContext
<1>5. CASE Unprivileged
  <2>1. PICK x \in Arith : eflags' = [eflags EXCEPT !.arith = x]
    BY <1>5 DEF Unprivileged
  <2>2. mode = "v86" /\ eip' = Skip(1) /\ UNCHANGED <<mode, cs, esp, v86_if, mem, frames>>
    BY <1>5 DEF Unprivileged
  <2>3. eflags' \in EFlags /\ eflags'.vm = eflags.vm
    BY <1>1, <2>1 DEF MonitorTypeOK, EFlags
  <2>4. MonitorTypeOK'
    BY <1>1, <1>3, <2>2, <2>3 DEF MonitorTypeOK
  <2>5. StackOK'
    BY <1>1, <2>2, StackSame
  <2> QED
    BY <1>1, <2>2, <2>3, <2>4, <2>5 DEF MonitorInv, StaysVirtual, KernelContext
<1>6. CASE Exit
  <2>1. /\ frames = <<>> /\ mode' = "kernel" /\ eflags' = [eflags EXCEPT !.if = TRUE, !.vm = FALSE]
        /\ UNCHANGED <<cs, eip, esp, v86_if, mem, frames>>
    BY <1>6 DEF Exit, ExitFlags
  <2>2. eflags' \in EFlags /\ ~eflags'.vm /\ eflags'.if
    BY <1>1, <2>1 DEF MonitorTypeOK, EFlags
  <2>3. MonitorTypeOK'
    BY <1>1, <2>1, <2>2 DEF MonitorTypeOK
  <2>4. StackOK'
    BY <1>1, <2>1, StackSame
  <2> QED
    BY <1>2, <2>1, <2>2, <2>3, <2>4 DEF MonitorInv, StaysVirtual, KernelContext
<1>7. CASE Unhandled
  <2>1. mode' = "panic" /\ UNCHANGED <<cs, eip, esp, eflags, v86_if, mem, frames>>
    BY <1>7 DEF Unhandled, regs
  <2>2. MonitorTypeOK'
    BY <1>1, <2>1 DEF MonitorTypeOK
  <2>3. StackOK'
    BY <1>1, <2>1, StackSame
  <2> QED
    BY <2>1, <2>2, <2>3 DEF MonitorInv, StaysVirtual, KernelContext
<1>8. CASE \E b \in BOOLEAN : SetIf(b)
  <2>1. v86_if' \in BOOLEAN /\ eip' = Skip(1) /\ UNCHANGED <<mode, cs, esp, eflags, mem, frames>>
    BY <1>8 DEF SetIf
  <2>2. MonitorTypeOK'
    BY <1>1, <1>3, <2>1 DEF MonitorTypeOK
  <2>3. StackOK'
    BY <1>1, <2>1, StackSame
  <2> QED
    BY <1>1, <2>1, <2>2, <2>3 DEF MonitorInv, StaysVirtual, KernelContext
<1>9. CASE UNCHANGED monitorVars
  <2>1. UNCHANGED <<mode, cs, eip, esp, eflags, v86_if, mem, frames>>
    BY <1>9 DEF monitorVars, regs
  <2>2. MonitorTypeOK'
    BY <1>1, <2>1 DEF MonitorTypeOK
  <2>3. StackOK'
    BY <1>1, <2>1, StackSame
  <2> QED
    BY <1>1, <2>1, <2>2, <2>3 DEF MonitorInv, StaysVirtual, KernelContext
<1> QED
  BY <1>4, <1>5, <1>6, <1>7, <1>8, <1>9

\* The kernel starts with an empty stack.
LEMMA MonitorInitInv == MonitorInit => MonitorInv
<1> SUFFICES ASSUME MonitorInit PROVE MonitorInv
  OBVIOUS
<1>1. frames = <<>> /\ Len(frames) = 0 /\ frames \in Seq(Frames) /\ esp = Loc(0) /\ Depth = 0
  BY Locations, SMTT(30) DEF MonitorInit, Depth
<1>2. eflags \in EFlags /\ eflags.if /\ ~eflags.vm
  BY DEF MonitorInit, EFlags
<1>3. MonitorTypeOK
  <2>1. Start \in 0 .. SegSize - 1 /\ 0 \in 0 .. IpSize - 1 /\ 0 <= MaxFrames
    BY MonitorAssumption, SMTT(30)
  <2>2. DOMAIN mem = 0 .. SegSize /\ v86_if \in BOOLEAN
    BY DEF MonitorInit
  <2> QED
    BY <1>1, <1>2, <2>1, <2>2 DEF MonitorInit, MonitorTypeOK
<1>4. StackOK
  BY <1>1, SMTT(30) DEF StackOK
<1>5. StaysVirtual /\ KernelContext
  BY <1>2 DEF MonitorInit, StaysVirtual, KernelContext
<1> QED
  BY <1>1, <1>3, <1>4, <1>5 DEF MonitorInv

\* The invariant is inductive, and only POPF and IRET take frames off the stack.
LEMMA NextInv ==
    ASSUME MonitorInv, [MonitorNext]_monitorVars
    PROVE  /\ MonitorInv'
           /\ Len(frames') < Len(frames) =>
                  /\ v86_if' = frames[1].if /\ eflags'.arith = frames[1].arith
                  /\ frames[1].kind = "int" => cs' = frames[1].cs /\ eip' = frames[1].eip
<1>1. Len(frames) \in Nat /\ frames \in Seq(Frames)
  BY DepthBound DEF MonitorInv, StackOK
<1>2. CASE \E n \in Sizes : Pushf(n) \/ \E v \in DOMAIN ivt : Interrupt(v, n)
  <2>1. MonitorInv'
    BY <1>2, PushfInv, InterruptInv
  <2>2. PICK f : frames' = <<f>> \o frames
    BY <1>2 DEF Pushf, Interrupt
  <2>3. Len(frames') = Len(frames) + 1
    <3>1. <<f>> \in Seq({f}) /\ Len(<<f>>) = 1
      BY SMTT(30)
    <3> QED
      BY <1>1, <2>2, <3>1, SMTT(30)
  <2> QED
    BY <1>1, <2>1, <2>3, SMTT(30)
<1>3. CASE \E n \in Sizes : Popf(n)
  BY <1>3, PopfInv
<1>4. CASE Iret
  BY <1>4, IretInv
<1>5. CASE \/ Enter \/ Unprivileged \/ Exit \/ Unhandled \/ (\E b \in BOOLEAN : SetIf(b))
           \/ UNCHANGED monitorVars
  BY <1>1, <1>5, OtherInv, SMTT(30)
<1> QED
  BY <1>2, <1>3, <1>4, <1>5 DEF MonitorNext

\* The monitor keeps its invariant, for every segment, stack and nesting.
THEOREM MonitorInvariant == MonitorSpec => []MonitorInv
<1>1. MonitorInv /\ [MonitorNext]_monitorVars => MonitorInv'
  BY NextInv
<1> QED
  BY <1>1, MonitorInitInv, PTL DEF MonitorSpec

\* Segment offsets stay within 16 bits, whatever is pushed and popped.
THEOREM OffsetsInSegment == MonitorSpec => []MonitorTypeOK
<1>1. MonitorInv => MonitorTypeOK
  BY DEF MonitorInv
<1> QED
  BY <1>1, MonitorInvariant, PTL

\* 16-bit code always runs with the VM flag set, whatever flags it loads.
THEOREM AlwaysVirtual == MonitorSpec => []StaysVirtual
<1>1. MonitorInv => StaysVirtual
  BY DEF MonitorInv
<1> QED
  BY <1>1, MonitorInvariant, PTL

\* v86_exit gets back the stack it prepared, with interrupts enabled.
THEOREM ExitsToKernel == MonitorSpec => []KernelContext
<1>1. MonitorInv => KernelContext
  BY DEF MonitorInv
<1> QED
  BY <1>1, MonitorInvariant, PTL

\* IRET and POPF restore what INT and PUSHF found, at any depth that fits into
\* the segment and wherever in it the stack lies: also when a frame, or a 32-bit
\* value, straddles the end of the segment.
THEOREM ResumesWhereInterrupted == MonitorSpec => Resumes
<1>1. MonitorInv /\ [MonitorNext]_monitorVars =>
          [Len(frames') < Len(frames) =>
              LET top == frames[1] IN
              /\ v86_if' = top.if /\ eflags'.arith = top.arith
              /\ top.kind = "int" => cs' = top.cs /\ eip' = top.eip]_monitorVars
  BY NextInv
<1> QED
  BY <1>1, MonitorInvariant, PTL DEF MonitorSpec, Resumes
=============================================================================
