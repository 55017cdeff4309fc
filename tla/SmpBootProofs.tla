---------------------------- MODULE SmpBootProofs ----------------------------
(***************************************************************************)
(* The launch of the application processors is exclusive and its reports   *)
(* and its count are right for every number and order of cores, provided   *)
(* that no core is slower than the waits of smp_launch_cpus.  The count is *)
(* never too low, however slow the cores are.                              *)
(***************************************************************************)
EXTENDS SmpBoot, FiniteSetTheorems, TLAPS

\* The cores are the entries of the MADT, each once.
LEMMA Cpus ==
    /\ madt_cpu \in Seq(CPUs) /\ DOMAIN madt_cpu = 1 .. Len(madt_cpu) /\ Len(madt_cpu) \in Nat
    /\ \A k \in DOMAIN madt_cpu : madt_cpu[k] \in CPUs
    /\ \A j, k \in DOMAIN madt_cpu : madt_cpu[j] = madt_cpu[k] => j = k
    /\ BSP \in CPUs /\ APs \subseteq CPUs /\ BSP \notin APs /\ NULL \notin CPUs
BY CpuAssumption DEF IsInjective, CPUs, APs

\* The preparation of the block happens before any core is started.
LEMMA PrepareInv ==
    ASSUME LaunchInv, Prepare
    PROVE  LaunchInv'
<1>1. TypeOK'
    <2>1. filled' \in BOOLEAN /\ mapped' \in BOOLEAN
        BY Zenon DEF Prepare
    <2> QED
        BY <2>1 DEF Prepare, Goto, LaunchInv, TypeOK
<1>2. NoneWild'
    BY Cpus DEF Prepare, Goto, LaunchInv, TypeOK, NoneWild
<1>3. OneActive'
    BY Cpus DEF Prepare, Goto, cpu, LaunchInv, TypeOK, OneActive, Active, Trying, StatusOK,
                StatusAt
<1>4. StatusOK'
    BY Cpus DEF Prepare, Goto, cpu, LaunchInv, TypeOK, OneActive, Active, Trying, StatusOK,
                StatusAt
<1>5. ReportsOK'
    BY Cpus DEF Prepare, Goto, cpu, LaunchInv, TypeOK, ReportsOK, Up, StatusOK, Trying, StatusAt
<1>6. TssOK'
    BY Cpus DEF Prepare, Goto, LaunchInv, TypeOK, TssOK, OwnTss
<1> QED
    BY <1>1, <1>2, <1>3, <1>4, <1>5, <1>6 DEF LaunchInv

\* Choosing the next core of the MADT starts no core.
LEMMA NextCpuInv ==
    ASSUME LaunchInv, NextCpu
    PROVE  LaunchInv'
<1>1. TypeOK'
    BY Cpus DEF NextCpu, info, cpu, LaunchInv, TypeOK
<1>2. NoneWild'
    BY Cpus DEF NextCpu, info, LaunchInv, TypeOK, NoneWild
<1>3. OneActive'
    BY Cpus DEF NextCpu, info, cpu, LaunchInv, TypeOK, OneActive, Active, Trying, StatusOK,
                StatusAt
<1>4. StatusOK'
    <2>1. CASE cpu # BSP /\ cpu \in Usable
        <3>1. id' = id /\ id \in DOMAIN madt_cpu /\ cpu \in APs
            BY <2>1, Cpus DEF NextCpu, cpu, APs
        <3> QED
            BY <2>1, <3>1 DEF NextCpu, info, cpu, LaunchInv, StatusOK, Trying
    <2>2. CASE ~(cpu # BSP /\ cpu \in Usable)
        BY <2>2 DEF NextCpu, info, cpu, LaunchInv, StatusOK, Trying
    <2> QED
        BY <2>1, <2>2
<1>5. ReportsOK'
    BY Cpus DEF NextCpu, info, cpu, LaunchInv, TypeOK, ReportsOK, Up, StatusOK, Trying, StatusAt
<1>6. TssOK'
    BY Cpus DEF NextCpu, info, LaunchInv, TypeOK, TssOK, OwnTss
<1> QED
    BY <1>1, <1>2, <1>3, <1>4, <1>5, <1>6 DEF LaunchInv

\* The block is cleared while no core reads it: the previous one is past status 3.
LEMMA ClearInv ==
    ASSUME LaunchInv, Clear
    PROVE  LaunchInv'
<1>1. TypeOK'
    <2>1. filled' \in BOOLEAN
        BY Zenon DEF Clear
    <2> QED
        BY <2>1 DEF Clear, Goto, LaunchInv, TypeOK
<1>2. NoneWild'
    BY Cpus DEF Clear, Goto, LaunchInv, TypeOK, NoneWild
<1>3. OneActive'
    BY Cpus DEF Clear, Goto, cpu, LaunchInv, TypeOK, OneActive, Active, Trying, StatusOK, StatusAt
<1>4. StatusOK'
    BY Cpus DEF Clear, Goto, cpu, LaunchInv, TypeOK, OneActive, Active, Trying, StatusOK, StatusAt
<1>5. ReportsOK'
    BY Cpus DEF Clear, Goto, cpu, LaunchInv, TypeOK, ReportsOK, Up, StatusOK, Trying, StatusAt
<1>6. TssOK'
    BY Cpus DEF Clear, Goto, LaunchInv, TypeOK, TssOK, OwnTss
<1> QED
    BY <1>1, <1>2, <1>3, <1>4, <1>5, <1>6 DEF LaunchInv

\* The block is filled while no core reads it.
LEMMA FillInv ==
    ASSUME LaunchInv, Fill
    PROVE  LaunchInv'
<1>1. TypeOK'
    BY Cpus DEF Fill, Goto, cpu, LaunchInv, TypeOK
<1>2. NoneWild'
    BY Cpus DEF Fill, Goto, LaunchInv, TypeOK, NoneWild
<1>3. OneActive'
    BY Cpus DEF Fill, Goto, cpu, LaunchInv, TypeOK, OneActive, Active, Trying, StatusOK, StatusAt
<1>4. StatusOK'
    BY Cpus DEF Fill, Goto, cpu, LaunchInv, TypeOK, OneActive, Active, Trying, StatusOK, StatusAt
<1>5. ReportsOK'
    BY Cpus DEF Fill, Goto, cpu, LaunchInv, TypeOK, ReportsOK, Up, StatusOK, Trying, StatusAt
<1>6. TssOK'
    BY Cpus DEF Fill, Goto, LaunchInv, TypeOK, TssOK, OwnTss
<1> QED
    BY <1>1, <1>2, <1>3, <1>4, <1>5, <1>6 DEF LaunchInv

\* INIT resets a core that has not been started, or that did not answer.
LEMMA SendInitInv ==
    ASSUME LaunchInv, SendInit
    PROVE  LaunchInv'
<1>1. TypeOK'
    <2>1. ap' \in [CPUs -> {"wait", "sipi", "real", "loaded", "count", "entry", "ltr",
                          "conf", "ready", "sched", "wild"}]
        BY ZenonT(30) DEF SendInit, LaunchInv, TypeOK
    <2>2. since' \in [CPUs -> 0 .. 5]
        BY DEF SendInit, Sleep, Phase
    <2> QED
        BY <2>1, <2>2 DEF SendInit, Goto, info, LaunchInv, TypeOK
<1>2. NoneWild'
    BY Cpus DEF SendInit, Goto, info, cpu, LaunchInv, TypeOK, NoneWild
<1>3. OneActive'
    BY Cpus DEF SendInit, Goto, info, Sleep, Phase, cpu, LaunchInv, TypeOK, OneActive, Active,
                Trying, StatusOK, StatusAt
<1>4. StatusOK'
    BY Cpus DEF SendInit, Goto, info, Sleep, Phase, cpu, LaunchInv, TypeOK, OneActive, Active,
                Trying, StatusOK, StatusAt
<1>5. ReportsOK'
    BY Cpus DEF SendInit, Goto, info, cpu, LaunchInv, TypeOK, ReportsOK, Up, StatusOK, Trying,
                StatusAt
<1>6. TssOK'
    BY Cpus DEF SendInit, Goto, info, cpu, LaunchInv, TypeOK, TssOK, OwnTss
<1> QED
    BY <1>1, <1>2, <1>3, <1>4, <1>5, <1>6 DEF LaunchInv

\* After the wait for INIT the previous core has left the boot stack, so that the core
\* started here is the only active one.
LEMMA SendSipiInv ==
    ASSUME LaunchInv, late = {}, SendSipi
    PROVE  LaunchInv'
<1>1. TypeOK'
    BY Cpus DEF SendSipi, Goto, info, Sleep, Phase, cpu, LaunchInv, TypeOK
<1>2. NoneWild'
    BY Cpus DEF SendSipi, Goto, info, cpu, LaunchInv, TypeOK, NoneWild
<1>3. OneActive'
    BY Cpus DEF SendSipi, Goto, info, Sleep, Slept, Phase, cpu, LaunchInv, TypeOK, OneActive,
                Active, Trying, StatusOK, StatusAt
<1>4. StatusOK'
    BY Cpus DEF SendSipi, Goto, info, Sleep, Slept, Phase, cpu, LaunchInv, TypeOK, OneActive,
                Active, Trying, StatusOK, StatusAt
<1>5. ReportsOK'
    BY Cpus DEF SendSipi, Goto, info, cpu, LaunchInv, TypeOK, ReportsOK, Up, StatusOK, Trying,
                StatusAt
<1>6. TssOK'
    BY Cpus DEF SendSipi, Goto, info, cpu, LaunchInv, TypeOK, TssOK, OwnTss
<1> QED
    BY <1>1, <1>2, <1>3, <1>4, <1>5, <1>6 DEF LaunchInv

\* After the wait the core has written status 1 or was never started: a retry or the next
\* core finds no active one.
LEMMA CheckStatusInv ==
    ASSUME LaunchInv, late = {}, CheckStatus
    PROVE  LaunchInv'
<1>1. TypeOK'
    BY Cpus DEF CheckStatus, info, Phase, cpu, LaunchInv, TypeOK, StatusOK
<1>2. NoneWild'
    BY Cpus DEF CheckStatus, info, LaunchInv, TypeOK, NoneWild
<1>3. OneActive'
    BY Cpus DEF CheckStatus, info, Slept, Phase, cpu, LaunchInv, TypeOK, OneActive, Active,
                Trying, StatusOK, StatusAt
<1>4. StatusOK'
    BY Cpus DEF CheckStatus, info, Slept, Phase, cpu, LaunchInv, TypeOK, OneActive, Active,
                Trying, StatusOK, StatusAt
<1>5. ReportsOK'
    BY Cpus DEF CheckStatus, info, cpu, LaunchInv, TypeOK, ReportsOK, Up, StatusOK, Trying,
                StatusAt
<1>6. TssOK'
    BY Cpus DEF CheckStatus, info, LaunchInv, TypeOK, TssOK, OwnTss
<1> QED
    BY <1>1, <1>2, <1>3, <1>4, <1>5, <1>6 DEF LaunchInv

\* The check for status 1 starts a wait and touches no core.
LEMMA CheckStuckInv ==
    ASSUME LaunchInv, CheckStuck
    PROVE  LaunchInv'
<1>1. TypeOK'
    BY Cpus DEF CheckStuck, info, Sleep, Phase, cpu, LaunchInv, TypeOK
<1>2. NoneWild'
    BY Cpus DEF CheckStuck, info, LaunchInv, TypeOK, NoneWild
<1>3. OneActive'
    BY Cpus DEF CheckStuck, info, Sleep, Phase, cpu, LaunchInv, TypeOK, OneActive, Active, Trying,
                StatusOK, StatusAt
<1>4. StatusOK'
    BY Cpus DEF CheckStuck, info, Sleep, Phase, cpu, LaunchInv, TypeOK, OneActive, Active, Trying,
                StatusOK, StatusAt
<1>5. ReportsOK'
    BY Cpus DEF CheckStuck, info, cpu, LaunchInv, TypeOK, ReportsOK, Up, StatusOK, Trying,
                StatusAt
<1>6. TssOK'
    BY Cpus DEF CheckStuck, info, LaunchInv, TypeOK, TssOK, OwnTss
<1> QED
    BY <1>1, <1>2, <1>3, <1>4, <1>5, <1>6 DEF LaunchInv

\* After the wait for status 1 the status is at least 2.
LEMMA CheckConfiguringInv ==
    ASSUME LaunchInv, late = {}, CheckConfiguring
    PROVE  LaunchInv'
<1>1. TypeOK'
    BY Cpus DEF CheckConfiguring, info, Sleep, Phase, cpu, LaunchInv, TypeOK
<1>2. NoneWild'
    BY Cpus DEF CheckConfiguring, info, LaunchInv, TypeOK, NoneWild
<1>3. OneActive'
    BY Cpus DEF CheckConfiguring, info, Sleep, Slept, Phase, cpu, LaunchInv, TypeOK, OneActive,
                Active, Trying, StatusOK, StatusAt
<1>4. StatusOK'
    BY Cpus DEF CheckConfiguring, info, Sleep, Slept, Phase, cpu, LaunchInv, TypeOK, OneActive,
                Active, Trying, StatusOK, StatusAt
<1>5. ReportsOK'
    BY Cpus DEF CheckConfiguring, info, cpu, LaunchInv, TypeOK, ReportsOK, Up, StatusOK, Trying,
                StatusAt
<1>6. TssOK'
    BY Cpus DEF CheckConfiguring, info, LaunchInv, TypeOK, TssOK, OwnTss
<1> QED
    BY <1>1, <1>2, <1>3, <1>4, <1>5, <1>6 DEF LaunchInv

\* After the wait for status 2 the status is 3, and it is the status of the core reported.
LEMMA ReportInv ==
    ASSUME LaunchInv, late = {}, Report
    PROVE  LaunchInv'
<1>0. status = 3 /\ cpu \in APs /\ Up(cpu) /\ id \in DOMAIN madt_cpu
    BY Cpus DEF Report, Slept, Phase, LaunchInv, TypeOK, NoneWild, StatusOK, StatusAt, Trying, Up
<1>1. TypeOK'
    BY Cpus DEF Report, info, Phase, cpu, LaunchInv, TypeOK, StatusOK
<1>2. NoneWild'
    BY Cpus DEF Report, info, LaunchInv, TypeOK, NoneWild
<1>3. OneActive'
    BY <1>0, Cpus DEF Report, info, cpu, LaunchInv, TypeOK, OneActive, Active, Trying, Up
<1>4. StatusOK'
    BY Cpus DEF Report, info, Slept, Phase, cpu, LaunchInv, TypeOK, OneActive, Active, Trying,
                StatusOK, StatusAt
<1>5. ReportsOK'
    <2>1. \E k \in 1 .. id' - 1 : madt_cpu[k] = cpu
        BY <1>0, Cpus DEF Report, cpu, LaunchInv, TypeOK
    <2>2. report'[cpu] = "booted" /\ \A c \in APs \ {cpu} : report'[c] = report[c]
        BY <1>0, Cpus DEF Report, LaunchInv, TypeOK
    <2>3. \A c \in APs, k \in 1 .. id - 1 : madt_cpu[k] = c => k \in 1 .. id' - 1
        BY DEF Report, LaunchInv, TypeOK
    <2> QED
        BY <1>0, <2>1, <2>2, <2>3 DEF Report, LaunchInv, ReportsOK, Up
<1>6. TssOK'
    BY Cpus DEF Report, info, LaunchInv, TypeOK, TssOK, OwnTss
<1> QED
    BY <1>1, <1>2, <1>3, <1>4, <1>5, <1>6 DEF LaunchInv

\* The block is unmapped when no core needs it.
LEMMA FinishInv ==
    ASSUME LaunchInv, Finish
    PROVE  LaunchInv'
<1>1. TypeOK'
    BY Cpus, ZenonT(30) DEF Finish, info, cpu, LaunchInv, TypeOK
<1>2. NoneWild'
    BY Cpus DEF Finish, info, LaunchInv, TypeOK, NoneWild
<1>3. OneActive'
    BY Cpus DEF Finish, info, cpu, LaunchInv, TypeOK, OneActive, Active, Trying, StatusOK,
                StatusAt
<1>4. StatusOK'
    BY Cpus DEF Finish, info, cpu, LaunchInv, TypeOK, OneActive, Active, Trying, StatusOK,
                StatusAt
<1>5. ReportsOK'
    BY Cpus DEF Finish, info, cpu, LaunchInv, TypeOK, ReportsOK, Up, StatusOK, Trying, StatusAt
<1>6. TssOK'
    BY Cpus DEF Finish, info, LaunchInv, TypeOK, TssOK, OwnTss
<1> QED
    BY <1>1, <1>2, <1>3, <1>4, <1>5, <1>6 DEF LaunchInv

\* Low memory is mapped again.
LEMMA StartV86Inv ==
    ASSUME LaunchInv, StartV86
    PROVE  LaunchInv'
<1>1. TypeOK'
    BY Cpus DEF StartV86, Goto, info, cpu, LaunchInv, TypeOK
<1>2. NoneWild'
    BY Cpus DEF StartV86, Goto, info, LaunchInv, TypeOK, NoneWild
<1>3. OneActive'
    BY Cpus DEF StartV86, Goto, info, cpu, LaunchInv, TypeOK, OneActive, Active, Trying, StatusOK,
                StatusAt
<1>4. StatusOK'
    BY Cpus DEF StartV86, Goto, info, cpu, LaunchInv, TypeOK, OneActive, Active, Trying, StatusOK,
                StatusAt
<1>5. ReportsOK'
    BY Cpus DEF StartV86, Goto, info, cpu, LaunchInv, TypeOK, ReportsOK, Up, StatusOK, Trying,
                StatusAt
<1>6. TssOK'
    BY Cpus DEF StartV86, Goto, info, LaunchInv, TypeOK, TssOK, OwnTss
<1> QED
    BY <1>1, <1>2, <1>3, <1>4, <1>5, <1>6 DEF LaunchInv

\* The trampoline announces the core that is being tried.
LEMMA ApStartInv ==
    ASSUME LaunchInv, NEW c \in APs, ApStart(c)
    PROVE  LaunchInv'
<1>1. TypeOK'
    BY Cpus DEF ApStart, ApGoto, bsp, LaunchInv, TypeOK
<1>2. NoneWild'
    BY Cpus DEF ApStart, ApGoto, bsp, LaunchInv, TypeOK, NoneWild
<1>3. OneActive'
    BY Cpus DEF ApStart, ApGoto, bsp, cpu, LaunchInv, TypeOK, OneActive, Active, Trying, StatusOK
<1>4. StatusOK'
    BY Cpus DEF ApStart, ApGoto, bsp, cpu, LaunchInv, TypeOK, OneActive, Active, Trying, StatusOK,
                StatusAt
<1>5. ReportsOK'
    BY Cpus DEF ApStart, ApGoto, bsp, LaunchInv, TypeOK, ReportsOK, Up
<1>6. TssOK'
    BY Cpus DEF ApStart, ApGoto, bsp, LaunchInv, TypeOK, TssOK, OwnTss
<1> QED
    BY <1>1, <1>2, <1>3, <1>4, <1>5, <1>6 DEF LaunchInv

\* The trampoline finds the block filled and mapped.
LEMMA ApLoadInv ==
    ASSUME LaunchInv, NEW c \in APs, ApLoad(c)
    PROVE  LaunchInv'
<1>1. TypeOK'
    BY Cpus DEF ApLoad, ApGoto, bsp, info, LaunchInv, TypeOK
<1>2. NoneWild'
    BY Cpus DEF ApLoad, ApGoto, bsp, info, LaunchInv, TypeOK, NoneWild, OneActive, Active, Trying,
                StatusOK
<1>3. OneActive'
    BY Cpus DEF ApLoad, ApGoto, bsp, info, cpu, LaunchInv, TypeOK, OneActive, Active, Trying,
                StatusOK
<1>4. StatusOK'
    BY Cpus DEF ApLoad, ApGoto, bsp, info, cpu, LaunchInv, TypeOK, OneActive, Active, Trying,
                StatusOK, StatusAt
<1>5. ReportsOK'
    BY Cpus DEF ApLoad, ApGoto, bsp, info, LaunchInv, TypeOK, ReportsOK, Up
<1>6. TssOK'
    BY Cpus DEF ApLoad, ApGoto, bsp, info, LaunchInv, TypeOK, TssOK, OwnTss
<1> QED
    BY <1>1, <1>2, <1>3, <1>4, <1>5, <1>6 DEF LaunchInv

\* smp_loaded finds the block mapped.
LEMMA ApConfigureInv ==
    ASSUME LaunchInv, NEW c \in APs, ApConfigure(c)
    PROVE  LaunchInv'
<1>1. TypeOK'
    BY Cpus DEF ApConfigure, ApGoto, bsp, LaunchInv, TypeOK
<1>2. NoneWild'
    BY Cpus, SMTT(30) DEF ApConfigure, ApGoto, bsp, LaunchInv, TypeOK, NoneWild, OneActive, Active, Trying,
                StatusOK
<1>3. OneActive'
    BY Cpus, SMTT(30) DEF ApConfigure, ApGoto, bsp, cpu, LaunchInv, TypeOK, OneActive, Active, Trying,
                StatusOK
<1>4. StatusOK'
    BY Cpus DEF ApConfigure, ApGoto, bsp, cpu, LaunchInv, TypeOK, OneActive, Active, Trying,
                StatusOK, StatusAt
<1>5. ReportsOK'
    BY Cpus DEF ApConfigure, ApGoto, bsp, LaunchInv, TypeOK, ReportsOK, Up
<1>6. TssOK'
    BY Cpus, SMTT(30) DEF ApConfigure, ApGoto, bsp, LaunchInv, TypeOK, TssOK, OwnTss
<1> QED
    BY <1>1, <1>2, <1>3, <1>4, <1>5, <1>6 DEF LaunchInv

\* The count of the booted cores stays a byte.
LEMMA ApCountInv ==
    ASSUME LaunchInv, NEW c \in APs, ApCount(c)
    PROVE  LaunchInv'
<1>1. TypeOK'
    <2>1. \A n \in 0 .. 255 : (n + 1) % 256 \in 0 .. 255
        OBVIOUS
    <2>2. smp_boot_counter' \in 0 .. 255
        BY <2>1 DEF ApCount, LaunchInv, TypeOK
    <2> QED
        BY <2>2, Cpus DEF ApCount, ApGoto, bsp, info, LaunchInv, TypeOK
<1>2. NoneWild'
    BY Cpus, SMTT(30) DEF ApCount, ApGoto, bsp, info, LaunchInv, TypeOK, NoneWild
<1>3. OneActive'
    BY Cpus, SMTT(30) DEF ApCount, ApGoto, bsp, info, cpu, LaunchInv, TypeOK, OneActive, Active, Trying,
                StatusOK
<1>4. StatusOK'
    BY Cpus DEF ApCount, ApGoto, bsp, info, cpu, LaunchInv, TypeOK, OneActive, Active, Trying,
                StatusOK, StatusAt
<1>5. ReportsOK'
    BY Cpus DEF ApCount, ApGoto, bsp, info, LaunchInv, TypeOK, ReportsOK, Up
<1>6. TssOK'
    BY Cpus DEF ApCount, ApGoto, bsp, info, LaunchInv, TypeOK, TssOK, OwnTss
<1> QED
    BY <1>1, <1>2, <1>3, <1>4, <1>5, <1>6 DEF LaunchInv

\* No other core is between writing and loading the TSS descriptor.
LEMMA ApSetTssInv ==
    ASSUME LaunchInv, NEW c \in APs, ApSetTss(c)
    PROVE  LaunchInv'
<1>1. TypeOK'
    BY Cpus DEF ApSetTss, ApGoto, bsp, info, LaunchInv, TypeOK
<1>2. NoneWild'
    BY Cpus, SMTT(30) DEF ApSetTss, ApGoto, bsp, info, LaunchInv, TypeOK, NoneWild
<1>3. OneActive'
    BY Cpus, SMTT(30) DEF ApSetTss, ApGoto, bsp, info, cpu, LaunchInv, TypeOK, OneActive, Active, Trying,
                StatusOK
<1>4. StatusOK'
    BY Cpus DEF ApSetTss, ApGoto, bsp, info, cpu, LaunchInv, TypeOK, OneActive, Active, Trying,
                StatusOK, StatusAt
<1>5. ReportsOK'
    BY Cpus DEF ApSetTss, ApGoto, bsp, info, LaunchInv, TypeOK, ReportsOK, Up
<1>6. TssOK'
    BY Cpus, SMTT(30) DEF ApSetTss, ApGoto, bsp, info, LaunchInv, TypeOK, TssOK, OwnTss, OneActive, Active,
                Trying
<1> QED
    BY <1>1, <1>2, <1>3, <1>4, <1>5, <1>6 DEF LaunchInv

\* The descriptor still names the core that wrote it.
LEMMA ApLoadTssInv ==
    ASSUME LaunchInv, NEW c \in APs, ApLoadTss(c)
    PROVE  LaunchInv'
<1>1. TypeOK'
    BY Cpus DEF ApLoadTss, ApGoto, bsp, info, LaunchInv, TypeOK
<1>2. NoneWild'
    BY Cpus, SMTT(30) DEF ApLoadTss, ApGoto, bsp, info, LaunchInv, TypeOK, NoneWild
<1>3. OneActive'
    BY Cpus, SMTT(30) DEF ApLoadTss, ApGoto, bsp, info, cpu, LaunchInv, TypeOK, OneActive, Active, Trying,
                StatusOK
<1>4. StatusOK'
    BY Cpus DEF ApLoadTss, ApGoto, bsp, info, cpu, LaunchInv, TypeOK, OneActive, Active, Trying,
                StatusOK, StatusAt
<1>5. ReportsOK'
    BY Cpus DEF ApLoadTss, ApGoto, bsp, info, LaunchInv, TypeOK, ReportsOK, Up
<1>6. TssOK'
    BY Cpus DEF ApLoadTss, ApGoto, bsp, info, LaunchInv, TypeOK, TssOK, OwnTss, OneActive, Active,
                Trying
<1> QED
    BY <1>1, <1>2, <1>3, <1>4, <1>5, <1>6 DEF LaunchInv

\* smp_entry_point finds the block mapped.
LEMMA ApReadyInv ==
    ASSUME LaunchInv, NEW c \in APs, ApReady(c)
    PROVE  LaunchInv'
<1>1. TypeOK'
    BY Cpus DEF ApReady, ApGoto, bsp, LaunchInv, TypeOK
<1>2. NoneWild'
    BY Cpus, SMTT(30) DEF ApReady, ApGoto, bsp, LaunchInv, TypeOK, NoneWild, OneActive, Active, Trying,
                StatusOK
<1>3. OneActive'
    BY Cpus, SMTT(30) DEF ApReady, ApGoto, bsp, cpu, LaunchInv, TypeOK, OneActive, Active, Trying, StatusOK
<1>4. StatusOK'
    BY Cpus DEF ApReady, ApGoto, bsp, cpu, LaunchInv, TypeOK, OneActive, Active, Trying, StatusOK,
                StatusAt
<1>5. ReportsOK'
    BY Cpus DEF ApReady, ApGoto, bsp, LaunchInv, TypeOK, ReportsOK, Up
<1>6. TssOK'
    BY Cpus DEF ApReady, ApGoto, bsp, LaunchInv, TypeOK, TssOK, OwnTss
<1> QED
    BY <1>1, <1>2, <1>3, <1>4, <1>5, <1>6 DEF LaunchInv

\* The yield takes the core off the boot stack.
LEMMA ApLeaveInv ==
    ASSUME LaunchInv, NEW c \in APs, ApLeave(c)
    PROVE  LaunchInv'
<1>1. TypeOK'
    BY Cpus DEF ApLeave, ApGoto, bsp, info, LaunchInv, TypeOK
<1>2. NoneWild'
    BY Cpus, SMTT(30) DEF ApLeave, ApGoto, bsp, info, LaunchInv, TypeOK, NoneWild
<1>3. OneActive'
    BY Cpus, SMTT(30) DEF ApLeave, ApGoto, bsp, info, cpu, LaunchInv, TypeOK, OneActive, Active, Trying,
                StatusOK
<1>4. StatusOK'
    BY Cpus DEF ApLeave, ApGoto, bsp, info, cpu, LaunchInv, TypeOK, OneActive, Active, Trying,
                StatusOK, StatusAt
<1>5. ReportsOK'
    BY Cpus DEF ApLeave, ApGoto, bsp, info, LaunchInv, TypeOK, ReportsOK, Up
<1>6. TssOK'
    BY Cpus DEF ApLeave, ApGoto, bsp, info, LaunchInv, TypeOK, TssOK, OwnTss
<1> QED
    BY <1>1, <1>2, <1>3, <1>4, <1>5, <1>6 DEF LaunchInv

\* Before smp_launch_cpus only the BSP runs.
LEMMA InitInv == ASSUME Init PROVE LaunchInv
<1>1. TypeOK
    <2>1. filled \in BOOLEAN /\ mapped \in BOOLEAN
        BY Zenon DEF Init
    <2> QED
        BY <2>1, Cpus DEF Init, TypeOK
<1>2. NoneWild
    BY Cpus DEF Init, NoneWild
<1>3. OneActive /\ ReportsOK
    BY Cpus DEF Init, OneActive, Active, Trying, ReportsOK
<1>4. StatusOK
    BY DEF Init, StatusOK, Trying
<1>5. TssOK
    BY Cpus DEF Init, TssOK, OwnTss
<1> QED
    BY <1>1, <1>2, <1>3, <1>4, <1>5 DEF LaunchInv

\* Nothing else changes the invariant.
LEMMA StutterInv == ASSUME LaunchInv, UNCHANGED vars PROVE LaunchInv'
BY DEF vars, LaunchInv, TypeOK, NoneWild, OneActive, Active, Trying, StatusOK, StatusAt, cpu,
       ReportsOK, Up, TssOK, OwnTss

\* The cores that keep up with the waits do so for ever.
LEMMA LateForGood == ASSUME [Next]_vars PROVE late' = late
BY Zenon DEF Next, vars, bsp, BspNext, Prepare, NextCpu, Clear, Fill, SendInit, SendSipi,
       CheckStatus, CheckStuck, CheckConfiguring, Report, Finish, StartV86, ApNext, ApStart,
       ApLoad, ApConfigure, ApCount, ApSetTss, ApLoadTss, ApReady, ApLeave

\* If no core is slower than the waits of smp_launch_cpus, at most one AP is between its
\* start-up interrupt and the scheduler while another is tried, and the status byte is its own.
THEOREM LaunchInvariant == Spec => []PunctualLaunch
<1>1. ASSUME late = {}, LaunchInv, [Next]_vars PROVE LaunchInv'
    <2>1. CASE BspNext
        BY <1>1, <2>1, PrepareInv, NextCpuInv, ClearInv, FillInv, SendInitInv, SendSipiInv,
           CheckStatusInv, CheckStuckInv, CheckConfiguringInv, ReportInv, FinishInv, StartV86Inv
           DEF BspNext
    <2>2. ASSUME NEW c \in APs, ApNext(c) PROVE LaunchInv'
        BY <1>1, <2>2, ApStartInv, ApLoadInv, ApConfigureInv, ApCountInv, ApSetTssInv,
           ApLoadTssInv, ApReadyInv, ApLeaveInv DEF ApNext
    <2> QED
        BY <1>1, <2>1, <2>2, StutterInv DEF Next
<1>2. Init => PunctualLaunch
    BY InitInv DEF PunctualLaunch
<1>3. PunctualLaunch /\ [Next]_vars => PunctualLaunch'
    BY <1>1, LateForGood DEF PunctualLaunch, Punctual
<1> QED
    BY <1>2, <1>3, PTL DEF Spec

\* The stack at 0xA000 has one user at a time, however many cores the MADT lists.
THEOREM BootStackExclusive == Spec => []OneOnBootStack
<1>1. PunctualLaunch => OneOnBootStack
    BY DEF PunctualLaunch, LaunchInv, OneActive, Active, OneOnBootStack, OnBootStack
<1> QED
    BY <1>1, LaunchInvariant, PTL

\* smp_launch_cpus prints the truth about every core.
THEOREM ReportsAreTrue == Spec => []TrueReports
<1>1. PunctualLaunch => TrueReports
    BY Cpus DEF PunctualLaunch, LaunchInv, TypeOK, ReportsOK, TrueReports
<1> QED
    BY <1>1, LaunchInvariant, PTL

\* Every core loads its own TSS, and none reads the block while it is cleared or unmapped.
THEOREM ConfigurationIsOwn == Spec => [](Punctual => OwnTss /\ NoneWild)
<1>1. PunctualLaunch => (Punctual => OwnTss /\ NoneWild)
    BY DEF PunctualLaunch, LaunchInv, TssOK
<1> QED
    BY <1>1, LaunchInvariant, PTL

-----------------------------------------------------------------------------
(* The number of cores that smp_launch_cpus returns.                       *)

\* The MADT lists finitely many cores.
LEMMA FinitelyMany ==
    /\ IsFiniteSet(APs) /\ Cardinality(APs) \in Nat /\ Cardinality(APs) + 1 <= Len(madt_cpu)
<1>1. /\ IsFiniteSet(1 .. Len(madt_cpu)) /\ Len(madt_cpu) \in Nat
      /\ Cardinality(1 .. Len(madt_cpu)) = Len(madt_cpu)
    <2>1. PICK n \in Nat : n = Len(madt_cpu)
        BY Cpus, ZenonT(30)
    <2>2. IsFiniteSet(1 .. n) /\ Cardinality(1 .. n) = IF 1 > n THEN 0 ELSE n - 1 + 1
        BY FS_Interval
    <2> QED
        BY <2>1, <2>2, SMTT(30)
<1>2. madt_cpu \in Surjection(1 .. Len(madt_cpu), CPUs)
    BY Cpus DEF Surjection, CPUs, Range
<1>3. IsFiniteSet(CPUs) /\ Cardinality(CPUs) <= Len(madt_cpu)
    BY <1>1, <1>2, FS_Surjection
<1>4. Cardinality(CPUs) \in Nat
    BY <1>3, FS_CardinalityType
<1>5. IsFiniteSet(APs) /\ Cardinality(APs) = Cardinality(CPUs) - 1
    BY <1>3, Cpus, FS_RemoveElement DEF APs
<1>6. Cardinality(APs) \in Nat
    BY <1>5, FS_CardinalityType
<1> QED
    BY <1>1, <1>3, <1>4, <1>5, <1>6

\* How many cores are at some control points.
LEMMA AtSize ==
    ASSUME NEW P
    PROVE  /\ IsFiniteSet(At(P)) /\ Cardinality(At(P)) \in Nat
           /\ Cardinality(At(P)) <= Cardinality(APs)
<1>1. At(P) \in SUBSET APs
    BY DEF At
<1>2. IsFiniteSet(At(P)) /\ Cardinality(At(P)) <= Cardinality(APs)
    BY <1>1, FinitelyMany, FS_Subset
<1> QED
    BY <1>2, FS_CardinalityType

\* When core c goes to q it enters or leaves the set.
LEMMA AtStep ==
    ASSUME NEW P, NEW c \in APs, NEW q, DOMAIN ap = CPUs, ap' = [ap EXCEPT ![c] = q]
    PROVE  Cardinality(At(P))' = Cardinality(At(P)) + (IF q \in P THEN 1 ELSE 0)
                                                    - (IF ap[c] \in P THEN 1 ELSE 0)
<1>1. At(P)' = IF q \in P THEN At(P) \cup {c} ELSE At(P) \ {c}
    BY Cpus DEF At
<1>2. c \in At(P) <=> ap[c] \in P
    BY DEF At
<1>3. IsFiniteSet(At(P)) /\ Cardinality(At(P)) \in Nat
    BY AtSize
<1>4. CASE q \in P
    <2>1. Cardinality(At(P) \cup {c}) =
              IF c \in At(P) THEN Cardinality(At(P)) ELSE Cardinality(At(P)) + 1
        BY <1>3, FS_AddElement, ZenonT(30)
    <2>2. Cardinality(At(P))' = Cardinality(At(P) \cup {c})
        BY <1>1, <1>4
    <2> QED
        BY <1>2, <1>3, <1>4, <2>1, <2>2
<1>5. CASE q \notin P
    <2>1. Cardinality(At(P) \ {c}) =
              IF c \in At(P) THEN Cardinality(At(P)) - 1 ELSE Cardinality(At(P))
        BY <1>3, FS_RemoveElement, ZenonT(30)
    <2>2. Cardinality(At(P))' = Cardinality(At(P) \ {c})
        BY <1>1, <1>5
    <2> QED
        BY <1>2, <1>3, <1>5, <2>1, <2>2
<1> QED
    BY <1>4, <1>5

\* What a step of smp_launch_cpus changes, whether or not the cores keep up with its waits:
\* only INIT and a start-up interrupt touch a core, and each of the latter is a try.
BspChanges ==
    /\ TypeOK' /\ TriesAp' /\ UNCHANGED smp_boot_counter
    /\ \/ UNCHANGED ap /\ Tries' >= Tries
       \/ cpu \in APs /\ ap' = [ap EXCEPT ![cpu] = "wait"] /\ Tries' = Tries
       \/ cpu \in APs /\ ap' = [ap EXCEPT ![cpu] = "sipi"] /\ Tries' = Tries + 1

\* Every step of smp_launch_cpus is such a change.
LEMMA BspStep == ASSUME TypeOK, TriesAp, BspNext PROVE BspChanges
<1>0. id \in Nat /\ try \in Nat /\ Len(madt_cpu) \in Nat /\ DOMAIN madt_cpu = 1 .. Len(madt_cpu)
    BY Cpus DEF TypeOK
<1>1. CASE Prepare
    <2>1. TypeOK'
        <3>1. filled' \in BOOLEAN /\ mapped' \in BOOLEAN
            BY <1>1, Zenon DEF Prepare
        <3> QED
            BY <1>1, <3>1 DEF Prepare, Goto, TypeOK
    <2>2. TriesAp'
        BY <1>1, Cpus DEF Prepare, Goto, cpu, TypeOK, TriesAp, APs
    <2>3. UNCHANGED smp_boot_counter
        BY <1>1 DEF Prepare, Goto
    <2>4. UNCHANGED ap /\ Tries' >= Tries
        BY <1>0, <1>1, SMTT(30) DEF Prepare, Goto, Tries, Trying, TypeOK
    <2> QED
        BY <2>1, <2>2, <2>3, <2>4 DEF BspChanges
<1>2. CASE NextCpu
    <2>1. TypeOK'
        BY <1>2, Cpus DEF NextCpu, info, cpu, TypeOK, TriesAp
    <2>2. TriesAp'
        BY <1>2, Cpus DEF NextCpu, info, cpu, TypeOK, TriesAp, APs
    <2>3. UNCHANGED smp_boot_counter
        BY <1>2 DEF NextCpu, info
    <2>4. UNCHANGED ap /\ Tries' >= Tries
        BY <1>0, <1>2 DEF NextCpu, info, Tries, Trying, TypeOK
    <2> QED
        BY <2>1, <2>2, <2>3, <2>4 DEF BspChanges
<1>3. CASE Clear
    <2>1. TypeOK'
        <3>1. filled' \in BOOLEAN
            BY <1>3, Zenon DEF Clear
        <3> QED
            BY <1>3, <3>1 DEF Clear, Goto, TypeOK
    <2>2. TriesAp'
        BY <1>3, Cpus DEF Clear, Goto, cpu, TypeOK, TriesAp, APs
    <2>3. UNCHANGED smp_boot_counter
        BY <1>3 DEF Clear, Goto
    <2>4. UNCHANGED ap /\ Tries' >= Tries
        BY <1>0, <1>3 DEF Clear, Goto, Tries, Trying, TypeOK
    <2> QED
        BY <2>1, <2>2, <2>3, <2>4 DEF BspChanges
<1>4. CASE Fill
    <2>1. TypeOK'
        BY <1>4, Cpus DEF Fill, Goto, cpu, TypeOK, TriesAp
    <2>2. TriesAp'
        BY <1>4, Cpus DEF Fill, Goto, cpu, TypeOK, TriesAp, APs
    <2>3. UNCHANGED smp_boot_counter
        BY <1>4 DEF Fill, Goto
    <2>4. UNCHANGED ap /\ Tries' >= Tries
        BY <1>0, <1>4 DEF Fill, Goto, Tries, Trying, TypeOK
    <2> QED
        BY <2>1, <2>2, <2>3, <2>4 DEF BspChanges
<1>5. CASE SendInit
    <2>1. TypeOK'
        BY <1>5, Cpus DEF SendInit, Goto, info, Sleep, Phase, cpu, TypeOK, TriesAp
    <2>2. TriesAp'
        BY <1>5, Cpus DEF SendInit, Goto, info, Sleep, Phase, cpu, TypeOK, TriesAp, APs
    <2>3. UNCHANGED smp_boot_counter
        BY <1>5 DEF SendInit, Goto, info, Sleep, Phase
    <2>4. cpu \in APs /\ ap' = [ap EXCEPT ![cpu] = "wait"] /\ Tries' = Tries
        BY <1>0, <1>5 DEF SendInit, Goto, info, Sleep, Phase, Tries, Trying, TriesAp
    <2> QED
        BY <2>1, <2>2, <2>3, <2>4 DEF BspChanges
<1>6. CASE SendSipi
    <2>1. TypeOK'
        BY <1>6, Cpus DEF SendSipi, Goto, info, Sleep, Phase, cpu, TypeOK, TriesAp
    <2>2. TriesAp'
        BY <1>6, Cpus DEF SendSipi, Goto, info, Sleep, Phase, cpu, TypeOK, TriesAp, APs
    <2>3. UNCHANGED smp_boot_counter
        BY <1>6 DEF SendSipi, Goto, info, Sleep, Phase
    <2>4. cpu \in APs /\ Tries' = Tries + 1
        BY <1>0, <1>6 DEF SendSipi, Goto, info, Sleep, Phase, Tries, Trying, TriesAp
    <2>5. ap' = [ap EXCEPT ![cpu] = "sipi"] \/ UNCHANGED ap
        BY <1>6 DEF SendSipi
    <2>6. Tries \in Int
        BY <1>0 DEF Tries
    <2> QED
        BY <2>1, <2>2, <2>3, <2>4, <2>5, <2>6 DEF BspChanges
<1>7. CASE CheckStatus
    <2>1. TypeOK'
        BY <1>7, Cpus DEF CheckStatus, info, cpu, TypeOK, TriesAp
    <2>2. TriesAp'
        BY <1>7, Cpus DEF CheckStatus, info, cpu, TypeOK, TriesAp, APs
    <2>3. UNCHANGED smp_boot_counter
        BY <1>7 DEF CheckStatus, info
    <2>4. UNCHANGED ap /\ Tries' >= Tries
        BY <1>0, <1>7 DEF CheckStatus, info, Tries, Trying, TypeOK
    <2> QED
        BY <2>1, <2>2, <2>3, <2>4 DEF BspChanges
<1>8. CASE CheckStuck
    <2>1. TypeOK'
        BY <1>8, Cpus DEF CheckStuck, info, Sleep, Phase, cpu, TypeOK, TriesAp
    <2>2. TriesAp'
        BY <1>8, Cpus DEF CheckStuck, info, Sleep, Phase, cpu, TypeOK, TriesAp, APs
    <2>3. UNCHANGED smp_boot_counter
        BY <1>8 DEF CheckStuck, info, Sleep, Phase
    <2>4. UNCHANGED ap /\ Tries' >= Tries
        BY <1>0, <1>8 DEF CheckStuck, info, Sleep, Phase, Tries, Trying, TypeOK
    <2> QED
        BY <2>1, <2>2, <2>3, <2>4 DEF BspChanges
<1>9. CASE CheckConfiguring
    <2>1. TypeOK'
        BY <1>9, Cpus DEF CheckConfiguring, info, Sleep, Phase, cpu, TypeOK, TriesAp
    <2>2. TriesAp'
        BY <1>9, Cpus DEF CheckConfiguring, info, Sleep, Phase, cpu, TypeOK, TriesAp, APs
    <2>3. UNCHANGED smp_boot_counter
        BY <1>9 DEF CheckConfiguring, info, Sleep, Phase
    <2>4. UNCHANGED ap /\ Tries' >= Tries
        BY <1>0, <1>9 DEF CheckConfiguring, info, Sleep, Phase, Tries, Trying, TypeOK
    <2> QED
        BY <2>1, <2>2, <2>3, <2>4 DEF BspChanges
<1>10. CASE Report
    <2>1. TypeOK'
        BY <1>10, Cpus DEF Report, info, cpu, TypeOK, TriesAp
    <2>2. TriesAp'
        BY <1>10, Cpus DEF Report, info, cpu, TypeOK, TriesAp, APs
    <2>3. UNCHANGED smp_boot_counter
        BY <1>10 DEF Report, info
    <2>4. UNCHANGED ap /\ Tries' >= Tries
        BY <1>0, <1>10 DEF Report, info, Tries, Trying, TypeOK
    <2> QED
        BY <2>1, <2>2, <2>3, <2>4 DEF BspChanges
<1>11. CASE Finish
    <2>1. TypeOK'
        BY <1>11, Cpus, ZenonT(30) DEF Finish, info, cpu, TypeOK, TriesAp
    <2>2. TriesAp'
        BY <1>11, Cpus DEF Finish, info, cpu, TypeOK, TriesAp, APs
    <2>3. UNCHANGED smp_boot_counter
        BY <1>11 DEF Finish, info
    <2>4. UNCHANGED ap /\ Tries' >= Tries
        BY <1>0, <1>11 DEF Finish, info, Tries, Trying, TypeOK
    <2> QED
        BY <2>1, <2>2, <2>3, <2>4 DEF BspChanges
<1>12. CASE StartV86
    <2>1. TypeOK'
        BY <1>12, Cpus DEF StartV86, Goto, info, cpu, TypeOK, TriesAp
    <2>2. TriesAp'
        BY <1>12, Cpus DEF StartV86, Goto, info, cpu, TypeOK, TriesAp, APs
    <2>3. UNCHANGED smp_boot_counter
        BY <1>12 DEF StartV86, Goto, info
    <2>4. UNCHANGED ap /\ Tries' >= Tries
        BY <1>0, <1>12 DEF StartV86, Goto, info, Tries, Trying, TypeOK
    <2> QED
        BY <2>1, <2>2, <2>3, <2>4 DEF BspChanges
<1> QED
    BY <1>1, <1>2, <1>3, <1>4, <1>5, <1>6, <1>7, <1>8, <1>9, <1>10, <1>11, <1>12 DEF BspNext

\* What a step of core c changes: it goes from here to there.
ApChanges(c, here, there) ==
    /\ ap[c] = here /\ ap' = [ap EXCEPT ![c] = there] /\ TypeOK'
    /\ UNCHANGED <<bsp>>
    /\ smp_boot_counter' = IF here = "count" THEN (smp_boot_counter + 1) % 256
                                             ELSE smp_boot_counter

\* The count is the only way to be counted, and the start-up interrupt the only way to it.
Way(here, there) ==
    /\ there \in Counted => here \in Counted \cup {"count"}
    /\ there \in Coming => here \in Coming \ {"count"}
    /\ here \in Counted => there \in Counted \cup {"wild"}
    /\ here = "count" => there = "entry"
    /\ here # "wait" /\ there # "wait"

\* Every step of an AP is such a change.
LEMMA ApStep ==
    ASSUME TypeOK, NEW c \in APs, ApNext(c)
    PROVE  \E here, there : ApChanges(c, here, there) /\ Way(here, there)
<1>1. CASE ApStart(c)
    <2>3. TypeOK'
        BY <1>1, Cpus DEF ApStart, ApGoto, bsp, TypeOK
    <2>4. ApChanges(c, "sipi", "real")
        BY <1>1, <2>3 DEF ApChanges, ApStart, ApGoto
    <2>5. Way("sipi", "real")
        BY DEF Way, Counted, Coming
    <2> QED
        BY <2>4, <2>5
<1>2. CASE ApLoad(c)
    <2>3. TypeOK'
        BY <1>2, Cpus DEF ApLoad, ApGoto, bsp, info, TypeOK
    <2>4. ApChanges(c, "real", IF filled /\ mapped THEN "loaded" ELSE "wild")
        BY <1>2, <2>3 DEF ApChanges, ApLoad, ApGoto, info
    <2>5. Way("real", IF filled /\ mapped THEN "loaded" ELSE "wild")
        BY DEF Way, Counted, Coming
    <2> QED
        BY <2>4, <2>5
<1>3. CASE ApConfigure(c)
    <2>3. TypeOK'
        BY <1>3, Cpus DEF ApConfigure, ApGoto, bsp, TypeOK
    <2>4. ApChanges(c, "loaded", IF mapped THEN "count" ELSE "wild")
        BY <1>3, <2>3 DEF ApChanges, ApConfigure, ApGoto
    <2>5. Way("loaded", IF mapped THEN "count" ELSE "wild")
        BY DEF Way, Counted, Coming
    <2> QED
        BY <2>4, <2>5
<1>4. CASE ApCount(c)
    <2>1. \A n \in 0 .. 255 : (n + 1) % 256 \in 0 .. 255
        OBVIOUS
    <2>2. smp_boot_counter' \in 0 .. 255
        BY <1>4, <2>1, SMTT(30) DEF ApCount, TypeOK
    <2>3. TypeOK'
        BY <1>4, <2>2, Cpus DEF ApCount, ApGoto, bsp, info, TypeOK
    <2>4. ApChanges(c, "count", "entry")
        BY <1>4, <2>3 DEF ApChanges, ApCount, ApGoto, info
    <2>5. Way("count", "entry")
        BY DEF Way, Counted, Coming
    <2> QED
        BY <2>4, <2>5
<1>5. CASE ApSetTss(c)
    <2>3. TypeOK'
        BY <1>5, Cpus DEF ApSetTss, ApGoto, bsp, info, TypeOK
    <2>4. ApChanges(c, "entry", "ltr")
        BY <1>5, <2>3 DEF ApChanges, ApSetTss, ApGoto, info
    <2>5. Way("entry", "ltr")
        BY DEF Way, Counted, Coming
    <2> QED
        BY <2>4, <2>5
<1>6. CASE ApLoadTss(c)
    <2>3. TypeOK'
        BY <1>6, Cpus DEF ApLoadTss, ApGoto, bsp, info, TypeOK
    <2>4. ApChanges(c, "ltr", "conf")
        BY <1>6, <2>3 DEF ApChanges, ApLoadTss, ApGoto, info
    <2>5. Way("ltr", "conf")
        BY DEF Way, Counted, Coming
    <2> QED
        BY <2>4, <2>5
<1>7. CASE ApReady(c)
    <2>3. TypeOK'
        BY <1>7, Cpus DEF ApReady, ApGoto, bsp, TypeOK
    <2>4. ApChanges(c, "conf", IF mapped THEN "ready" ELSE "wild")
        BY <1>7, <2>3 DEF ApChanges, ApReady, ApGoto
    <2>5. Way("conf", IF mapped THEN "ready" ELSE "wild")
        BY DEF Way, Counted, Coming
    <2> QED
        BY <2>4, <2>5
<1>8. CASE ApLeave(c)
    <2>3. TypeOK'
        BY <1>8, Cpus DEF ApLeave, ApGoto, bsp, info, TypeOK
    <2>4. ApChanges(c, "ready", "sched")
        BY <1>8, <2>3 DEF ApChanges, ApLeave, ApGoto, info
    <2>5. Way("ready", "sched")
        BY DEF Way, Counted, Coming
    <2> QED
        BY <2>4, <2>5
<1> QED
    BY <1>1, <1>2, <1>3, <1>4, <1>5, <1>6, <1>7, <1>8 DEF ApNext

\* The tries end.
LEMMA TriesBound ==
    ASSUME TypeOK, TriesAp
    PROVE  Tries \in Nat /\ Tries <= 2 * Len(madt_cpu)
<1>1. id \in 1 .. Len(madt_cpu) + 1 /\ try \in 0 .. 1 /\ Len(madt_cpu) \in Nat
    BY Cpus DEF TypeOK
<1>2. CASE pc \in {"map", "next", "done", "v86"}
    BY <1>1, <1>2 DEF Tries, Trying
<1>3. CASE pc \notin {"map", "next", "done", "v86"}
    <2>1. id <= Len(madt_cpu)
        BY <1>3, Cpus DEF TriesAp
    <2> QED
        BY <1>1, <2>1 DEF Tries
<1> QED
    BY <1>2, <1>3

\* Neither a core that waits nor one that has gone wild is counted or will be.
LEMMA CountBsp == ASSUME CountInv, BspNext PROVE CountInv'
<1>1. BspChanges /\ TypeOK
    BY BspStep DEF CountInv
<1>2. DOMAIN ap = CPUs /\ smp_boot_counter \in Int /\ Tries \in Int
    BY <1>1, TriesBound DEF CountInv, TypeOK
<1>3. Cardinality(At(Counted)) \in Nat /\ Cardinality(At(Coming)) \in Nat
    BY AtSize
<1>4. /\ "wait" \notin Counted /\ "wait" \notin Coming
      /\ "sipi" \notin Counted /\ "sipi" \in Coming
    BY DEF Counted, Coming
<1>5. CASE UNCHANGED ap /\ Tries' >= Tries
    <2>1. UNCHANGED <<At(Counted), At(Coming)>>
        BY <1>5 DEF At
    <2>2. Tries' \in Int
        <3>1. id' \in Nat /\ try' \in Nat
            BY <1>1, Cpus DEF BspChanges, TypeOK
        <3> QED
            BY <3>1 DEF Tries
    <2> QED
        BY <1>1, <1>2, <1>3, <1>5, <2>1, <2>2 DEF CountInv, BspChanges
<1>6. CASE cpu \in APs /\ ap' = [ap EXCEPT ![cpu] = "wait"] /\ Tries' = Tries
    <2>1. /\ Cardinality(At(Counted))' <= Cardinality(At(Counted))
          /\ Cardinality(At(Coming))' <= Cardinality(At(Coming))
          /\ Cardinality(At(Counted))' \in Int /\ Cardinality(At(Coming))' \in Int
        <3>1. Cardinality(At(Counted))' = Cardinality(At(Counted))
                  + (IF "wait" \in Counted THEN 1 ELSE 0) - (IF ap[cpu] \in Counted THEN 1 ELSE 0)
            BY <1>2, <1>6, AtStep, ZenonT(30)
        <3>2. Cardinality(At(Coming))' = Cardinality(At(Coming))
                  + (IF "wait" \in Coming THEN 1 ELSE 0) - (IF ap[cpu] \in Coming THEN 1 ELSE 0)
            BY <1>2, <1>6, AtStep, Zenon
        <3> QED
            BY <1>3, <1>4, <3>1, <3>2
    <2> QED
        BY <1>1, <1>2, <1>3, <1>6, <2>1 DEF CountInv, BspChanges
<1>7. CASE cpu \in APs /\ ap' = [ap EXCEPT ![cpu] = "sipi"] /\ Tries' = Tries + 1
    <2>1. /\ Cardinality(At(Counted))' <= Cardinality(At(Counted))
          /\ Cardinality(At(Coming))' <= Cardinality(At(Coming)) + 1
          /\ Cardinality(At(Counted))' \in Int /\ Cardinality(At(Coming))' \in Int
        <3>1. Cardinality(At(Counted))' = Cardinality(At(Counted))
                  + (IF "sipi" \in Counted THEN 1 ELSE 0) - (IF ap[cpu] \in Counted THEN 1 ELSE 0)
            BY <1>2, <1>7, AtStep, ZenonT(30)
        <3>2. Cardinality(At(Coming))' = Cardinality(At(Coming))
                  + (IF "sipi" \in Coming THEN 1 ELSE 0) - (IF ap[cpu] \in Coming THEN 1 ELSE 0)
            BY <1>2, <1>7, AtStep, Zenon
        <3> QED
            BY <1>3, <1>4, <3>1, <3>2
    <2> QED
        BY <1>1, <1>2, <1>3, <1>7, <2>1 DEF CountInv, BspChanges
<1> QED
    BY <1>1, <1>5, <1>6, <1>7 DEF BspChanges

\* A core is counted once for each time it is started.
LEMMA CountAp ==
    ASSUME Len(madt_cpu) <= 127, CountInv, NEW c \in APs, ApNext(c)
    PROVE  CountInv'
<1>1. PICK here, there : ApChanges(c, here, there) /\ Way(here, there)
    BY ApStep DEF CountInv
<1>2. /\ DOMAIN ap = CPUs /\ smp_boot_counter \in 0 .. 255 /\ Tries \in Nat
      /\ Tries <= 2 * Len(madt_cpu) /\ Len(madt_cpu) \in Nat
    BY TriesBound, Cpus DEF CountInv, TypeOK
<1>3. /\ Cardinality(At(Counted)) \in Nat /\ Cardinality(At(Coming)) \in Nat
      /\ IsFiniteSet(At(Coming))
    BY AtSize
<1>4. /\ TypeOK' /\ TriesAp' /\ Tries' = Tries /\ ap[c] = here /\ ap' = [ap EXCEPT ![c] = there]
    BY <1>1, Zenon DEF ApChanges, bsp, Tries, Trying, TriesAp, cpu, CountInv
<1>5. /\ Cardinality(At(Counted))' = Cardinality(At(Counted))
             + (IF there \in Counted THEN 1 ELSE 0) - (IF here \in Counted THEN 1 ELSE 0)
      /\ Cardinality(At(Coming))' = Cardinality(At(Coming))
             + (IF there \in Coming THEN 1 ELSE 0) - (IF here \in Coming THEN 1 ELSE 0)
    BY <1>2, <1>4, AtStep, ZenonT(30)
<1>6. CASE here = "count"
    <2>1. /\ there \in Counted /\ here \notin Counted /\ there \notin Coming /\ here \in Coming
        BY <1>1, <1>6 DEF Way, Counted, Coming
    <2>2. Cardinality(At(Coming)) # 0
        BY <1>3, <1>4, <2>1, FS_EmptySet DEF At
    <2>3. smp_boot_counter < 255
        BY <1>2, <1>3, <2>2 DEF CountInv
    <2>4. smp_boot_counter' = smp_boot_counter + 1
        <3>1. \A n \in 0 .. 254 : (n + 1) % 256 = n + 1
            OBVIOUS
        <3> QED
            BY <1>1, <1>2, <1>6, <2>3, <3>1 DEF ApChanges
    <2> QED
        BY <1>2, <1>3, <1>4, <1>5, <2>1, <2>4, SMTT(30) DEF CountInv
<1>7. CASE here # "count"
    <2>1. /\ smp_boot_counter' = smp_boot_counter
          /\ there \in Counted => here \in Counted
          /\ there \in Coming => here \in Coming
        BY <1>1, <1>7 DEF ApChanges, Way
    <2>2. /\ Cardinality(At(Counted))' <= Cardinality(At(Counted))
          /\ Cardinality(At(Coming))' <= Cardinality(At(Coming))
          /\ Cardinality(At(Counted))' \in Int /\ Cardinality(At(Coming))' \in Int
        BY <1>3, <1>5, <2>1
    <2> QED
        BY <1>2, <1>3, <1>4, <2>1, <2>2 DEF CountInv
<1> QED
    BY <1>6, <1>7

\* At first no core is started or counted.
LEMMA CountInit == ASSUME Init PROVE CountInv
<1>1. TypeOK /\ TriesAp
    BY InitInv DEF LaunchInv, StatusOK, TriesAp
<1>2. At(Counted) = {} /\ At(Coming) = {}
    BY Cpus DEF Init, At, Counted, Coming
<1>3. Tries = 0 /\ smp_boot_counter = 1
    BY DEF Init, Tries, Trying
<1> QED
    BY <1>1, <1>2, <1>3, FS_EmptySet DEF CountInv

\* A MADT of at most 127 cores cannot make the byte overflow, and then no core that
\* runs is missing from the count, however late the cores are.
THEOREM CountsEveryCore == Len(madt_cpu) <= 127 => (Spec => []NeverUndercounts)
<1> SUFFICES ASSUME Len(madt_cpu) <= 127
             PROVE  Spec => []NeverUndercounts
    OBVIOUS
<1>1. CountInv /\ [Next]_vars => CountInv'
    <2>1. ASSUME CountInv, UNCHANGED vars PROVE CountInv'
        BY <2>1, Zenon DEF vars, CountInv, TypeOK, TriesAp, cpu, At, Tries, Trying
    <2> QED
        BY <2>1, CountBsp, CountAp DEF Next
<1>2. CountInv => NeverUndercounts
    <2> SUFFICES ASSUME CountInv PROVE NeverUndercounts
        OBVIOUS
    <2>1. {c \in APs : Up(c)} \in SUBSET At(Counted)
        BY DEF Up, At, Counted
    <2>2. /\ IsFiniteSet(At(Counted)) /\ Cardinality(At(Counted)) \in Nat
        BY AtSize
    <2>3. /\ Cardinality({c \in APs : Up(c)}) <= Cardinality(At(Counted))
          /\ Cardinality({c \in APs : Up(c)}) \in Nat
        BY <2>1, <2>2, FS_Subset, FS_CardinalityType
    <2> QED
        BY <2>2, <2>3 DEF CountInv, NeverUndercounts, TypeOK
<1> QED
    BY <1>1, <1>2, CountInit, PTL DEF Spec

\* A core that is not in the set leaves room for itself.
LEMMA AtLess ==
    ASSUME NEW P, NEW c \in APs, ap[c] \notin P
    PROVE  Cardinality(At(P)) + 1 <= Cardinality(APs)
<1>1. At(P) \in SUBSET (APs \ {c})
    BY DEF At
<1>2. IsFiniteSet(APs \ {c}) /\ Cardinality(APs \ {c}) = Cardinality(APs) - 1
    BY FinitelyMany, FS_RemoveElement
<1>3. Cardinality(At(P)) <= Cardinality(APs \ {c})
    BY <1>1, <1>2, FS_Subset
<1> QED
    BY <1>2, <1>3, AtSize, FinitelyMany

\* INIT and the start-up interrupt go to a core that waits.
LEMMA ExactBsp ==
    ASSUME late = {}, LaunchInv, ExactInv, BspNext
    PROVE  ExactInv'
<1>0. id \in Nat /\ ap \in [CPUs -> {"wait", "sipi", "real", "loaded", "count", "entry", "ltr",
                                     "conf", "ready", "sched", "wild"}]
    BY Cpus, SMTT(30) DEF LaunchInv, TypeOK
<1>1. ASSUME UNCHANGED ap,
             id' = id + 1 \/ (id' = id /\ (Trying' \/ ~Trying \/ ap[cpu] = "wait"))
      PROVE  UntriedWait'
    <2> SUFFICES ASSUME NEW k \in DOMAIN madt_cpu, madt_cpu[k] \in APs,
                        k > id' \/ (k = id' /\ ~Trying')
                 PROVE  ap[madt_cpu[k]] = "wait"
        BY <1>1 DEF UntriedWait
    <2>1. k > id \/ (k = id /\ ~Trying) \/ (k = id /\ ap[cpu] = "wait")
        BY <1>0, <1>1, Cpus
    <2> QED
        BY <2>1 DEF ExactInv, UntriedWait, cpu
<1>2. SendInit \/ SendSipi => UntriedWait' /\ cpu \in APs /\ ap[cpu] = "wait"
    <2> SUFFICES ASSUME SendInit \/ SendSipi
                 PROVE  UntriedWait' /\ cpu \in APs /\ ap[cpu] = "wait"
        OBVIOUS
    <2>1. /\ id \in DOMAIN madt_cpu /\ cpu \in APs /\ ~Trying /\ id' = id
          /\ (pc' = "initwait" \/ Trying') /\ (SendInit => ap' = [ap EXCEPT ![cpu] = "wait"])
          /\ (SendSipi => Trying' /\ (ap' = [ap EXCEPT ![cpu] = "sipi"] \/ ap' = ap))
        BY DEF SendInit, SendSipi, Goto, Trying, LaunchInv, StatusOK
    <2>2. ap[cpu] = "wait"
        BY <2>1 DEF ExactInv, UntriedWait, cpu
    <2>3. ASSUME NEW k \in DOMAIN madt_cpu, madt_cpu[k] \in APs, k > id \/ (k = id /\ ~Trying')
          PROVE  ap'[madt_cpu[k]] = "wait"
        <3>1. madt_cpu[k] \in CPUs /\ ap[madt_cpu[k]] = "wait" /\ (k # id => madt_cpu[k] # cpu)
            BY <2>1, <2>3, Cpus DEF ExactInv, UntriedWait, cpu
        <3>2. SendSipi => k # id
            BY <1>0, <2>1, <2>3
        <3> QED
            BY <1>0, <2>1, <3>1, <3>2
    <2> QED
        BY <2>1, <2>2, <2>3 DEF UntriedWait
<1>3. SendInit \/ SendSipi
      \/ /\ UNCHANGED ap
         /\ id' = id + 1 \/ (id' = id /\ (Trying' \/ ~Trying \/ ap[cpu] = "wait"))
    <2>1. CASE CheckStatus
        <3>1. cpu \in APs /\ status = StatusAt(ap[cpu]) /\ (since[cpu] = 1 \/ ap[cpu] = "wait")
            BY <2>1 DEF CheckStatus, LaunchInv, StatusOK, Trying
        <3>2. status = 0 => ap[cpu] = "wait"
            BY <1>0, <2>1, <3>1, Cpus DEF CheckStatus, Slept, StatusAt, Phase
        <3> QED
            BY <2>1, <3>2 DEF CheckStatus, Trying
    <2>2. CASE Prepare \/ NextCpu \/ Clear \/ Fill \/ Finish \/ StartV86
        BY <2>2, Zenon DEF Prepare, NextCpu, Clear, Fill, Finish, StartV86, Goto, Trying
    <2>3. CASE CheckStuck \/ CheckConfiguring \/ Report
        BY <2>3, Zenon DEF CheckStuck, CheckConfiguring, Report, Trying
    <2> QED
        BY <2>1, <2>2, <2>3 DEF BspNext
<1>4. UntriedWait'
    BY <1>1, <1>2, <1>3, Zenon
<1>5. Cardinality(At(Counted))' = Cardinality(At(Counted))
    <2>1. CASE UNCHANGED ap
        BY <2>1 DEF At
    <2>2. ASSUME SendInit \/ SendSipi, ~UNCHANGED ap
          PROVE  Cardinality(At(Counted))' = Cardinality(At(Counted))
        <3>1. PICK q \in {"wait", "sipi"} : ap' = [ap EXCEPT ![cpu] = q]
            BY <2>2 DEF SendInit, SendSipi
        <3>2. q \notin Counted /\ ap[cpu] \notin Counted /\ cpu \in APs
            BY <1>2, <2>2 DEF Counted
        <3>3. Cardinality(At(Counted))' = Cardinality(At(Counted))
                  + (IF q \in Counted THEN 1 ELSE 0) - (IF ap[cpu] \in Counted THEN 1 ELSE 0)
            BY <1>0, <3>1, <3>2, AtStep, ZenonT(30)
        <3>4. Cardinality(At(Counted)) \in Nat
            BY AtSize
        <3> QED
            BY <3>2, <3>3, <3>4
    <2>3. UNCHANGED ap \/ SendInit \/ SendSipi
        BY <1>3, Zenon
    <2> QED
        BY <2>1, <2>2, <2>3
<1>6. UNCHANGED smp_boot_counter
    BY BspStep DEF LaunchInv, StatusOK, TriesAp, BspChanges
<1> QED
    BY <1>4, <1>5, <1>6 DEF ExactInv

\* Each core that gets to the count adds one.
LEMMA ExactAp ==
    ASSUME Len(madt_cpu) <= 255, LaunchInv, LaunchInv', ExactInv, NEW c \in APs, ApNext(c)
    PROVE  ExactInv'
<1>1. PICK here, there : ApChanges(c, here, there) /\ Way(here, there)
    BY ApStep, SMTT(30) DEF LaunchInv
<1>2. /\ DOMAIN ap = CPUs /\ c \in CPUs /\ Len(madt_cpu) \in Nat
      /\ Cardinality(APs) + 1 <= Len(madt_cpu) /\ Cardinality(APs) \in Nat
      /\ Cardinality(At(Counted)) \in Nat
    BY Cpus, AtSize, FinitelyMany DEF LaunchInv, TypeOK
<1>3. /\ ap[c] = here /\ ap' = [ap EXCEPT ![c] = there] /\ UNCHANGED <<pc, id>>
      /\ here # "wait"
    BY <1>1 DEF ApChanges, bsp, Way
<1>4. UntriedWait'
    BY <1>2, <1>3, Cpus DEF UntriedWait, ExactInv, Trying
<1>5. Cardinality(At(Counted))' = Cardinality(At(Counted))
          + (IF there \in Counted THEN 1 ELSE 0) - (IF here \in Counted THEN 1 ELSE 0)
    BY <1>2, <1>3, AtStep, ZenonT(30)
<1>6. CASE here = "count"
    <2>1. there \in Counted /\ here \notin Counted
        BY <1>1, <1>6 DEF Way, Counted
    <2>2. Cardinality(At(Counted)) + 1 <= Cardinality(APs)
        BY <1>3, <2>1, AtLess
    <2>3. smp_boot_counter = 1 + Cardinality(At(Counted)) /\ smp_boot_counter \in 0 .. 254
        <3>1. \A a, n, l \in Nat : a + 1 <= n /\ n + 1 <= l /\ l <= 255 => 1 + a \in 0 .. 254
            OBVIOUS
        <3>2. 1 + Cardinality(At(Counted)) \in 0 .. 254
            BY <1>2, <2>2, <3>1, Zenon
        <3> QED
            BY <3>2 DEF ExactInv
    <2>4. \A n \in 0 .. 254 : (n + 1) % 256 = n + 1
        OBVIOUS
    <2>5. smp_boot_counter' = smp_boot_counter + 1
        BY <1>1, <1>6, <2>3, <2>4, ZenonT(30) DEF ApChanges
    <2> QED
        BY <1>2, <1>4, <1>5, <2>1, <2>3, <2>5 DEF ExactInv
<1>7. CASE here # "count"
    <2>1. there # "wild"
        BY <1>2, <1>3 DEF LaunchInv, NoneWild
    <2>2. /\ smp_boot_counter' = smp_boot_counter
          /\ there \in Counted <=> here \in Counted
        BY <1>1, <1>7, <2>1 DEF ApChanges, Way
    <2> QED
        BY <1>2, <1>4, <1>5, <2>2 DEF ExactInv
<1> QED
    BY <1>6, <1>7

\* Of at most 255 cores that keep up with the waits smp_launch_cpus returns how many run:
\* a core is counted once although it may be started twice.
THEOREM CountsExactly == Len(madt_cpu) <= 255 => (Spec => []ExactCount)
<1> SUFFICES ASSUME Len(madt_cpu) <= 255
             PROVE  Spec => []ExactCount
    OBVIOUS
<1> DEFINE Counts == Punctual => ExactInv
<1>1. Init => Counts
    <2>1. ASSUME Init PROVE ExactInv
        <3>1. At(Counted) = {} /\ smp_boot_counter = 1
            BY <2>1, Cpus DEF Init, At, Counted
        <3>2. UntriedWait
            BY <2>1, Cpus DEF Init, UntriedWait, APs
        <3> QED
            BY <3>1, <3>2, FS_EmptySet DEF ExactInv
    <2> QED
        BY <2>1
<1>2. PunctualLaunch /\ PunctualLaunch' /\ Counts /\ [Next]_vars => Counts'
    <2>1. ASSUME ExactInv, UNCHANGED vars PROVE ExactInv'
        BY <2>1, Zenon DEF vars, ExactInv, UntriedWait, At, Trying
    <2>2. ASSUME late = {}, LaunchInv, LaunchInv', ExactInv, [Next]_vars PROVE ExactInv'
        BY <2>1, <2>2, ExactBsp, ExactAp DEF Next
    <2> QED
        BY <2>2, LateForGood DEF PunctualLaunch, Punctual
<1>3. PunctualLaunch /\ Counts => ExactCount
    <2> SUFFICES ASSUME Punctual, LaunchInv, ExactInv, pc \in {"done", "v86"}
                 PROVE  smp_boot_counter = 1 + Cardinality({c \in APs : Up(c)})
        BY DEF PunctualLaunch, ExactCount
    <2>1. At(Counted) = {c \in APs : Up(c)}
        BY DEF LaunchInv, OneActive, Active, Trying, At, Counted, Up
    <2> QED
        BY <2>1 DEF ExactInv
<1> QED
    BY <1>1, <1>2, <1>3, LaunchInvariant, PTL DEF Spec
=============================================================================
