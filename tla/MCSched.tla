------------------------------- MODULE MCSched -------------------------------
(***************************************************************************)
(* Instances of Sched for TLC: the processes that kmain and kernel_thread  *)
(* create, with at most two test threads.                                  *)
(***************************************************************************)
EXTENDS SchedProperties, SequencesExt

CONSTANTS k, v, a, b   \* the kernel, v86 and test threads

MCThreadsOf == [p \in Procs |-> CASE p = kernel_proc -> <<k>>
                                  [] p = v86_proc -> <<v>>
                                  [] p = "test" -> SetToSeq({a, b} \cap Threads)
                                  [] p = "test0" -> <<a>>
                                  [] p = "test1" -> <<b>>]

MCNoTests == <<>>
MCTests == <<"test">>

\* Two test processes of one thread each, as kernel_thread creates them.
MCTwoTests == <<"test0", "test1">>

\* The calls kernel.c makes: the v86 thread spins, a test thread exits.
MCKernelCalls == [t \in Threads |-> CASE t = k -> {"spawn", "sleep", "exit"}
                                      [] t = v -> {}
                                      [] OTHER -> {"exit"}]

\* Threads that give up the processor, and a test thread that touches an
\* unmapped page.
MCFaultYieldCalls == [t \in Threads |-> CASE t = k -> {"spawn", "yield", "exit"}
                                          [] t = v -> {}
                                          [] OTHER -> {"yield", "exit", "fault"}]

\* A test thread that touches an unmapped page.
MCFaultCalls == [t \in Threads |-> CASE t = k -> {"spawn", "exit"}
                                     [] t = v -> {}
                                     [] OTHER -> {"fault"}]
=============================================================================
