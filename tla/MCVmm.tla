--------------------------------- MODULE MCVmm ---------------------------------
(***************************************************************************)
(* The virtual memory manager with two cores, tables of five entries and   *)
(* the calls of the kernel: the page at zero, unmapped by smp_launch and   *)
(* mapped with the megabyte behind it by v86_init; a heap; a range across  *)
(* two tables; translations.                                               *)
(***************************************************************************)
EXTENDS Vmm

MCCalls ==
    {[kind |-> "map",   virt |-> 0, phys |-> 0,  count |-> 2],
     [kind |-> "unmap", virt |-> 0, phys |-> 0,  count |-> 1],
     [kind |-> "map",   virt |-> 9, phys |-> 20, count |-> 2],
     [kind |-> "remap", virt |-> 9, phys |-> 30, count |-> 1],
     [kind |-> "unmap", virt |-> 9, phys |-> 0,  count |-> 2],
     [kind |-> "query", virt |-> 9, phys |-> 0,  count |-> 1]}
=============================================================================
