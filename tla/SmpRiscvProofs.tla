--------------------------- MODULE SmpRiscvProofs ---------------------------
(***************************************************************************)
(* Proofs about SmpRiscv for every number of CPUs, either base hart and    *)
(* any initial wake flags.  SpHandoff is not inductive by itself: a step   *)
(* of SecondaryGo loads whatever riscv_cpu_sp holds.  It holds because a   *)
(* waiting secondary sees RV_WAKE_GO only while CPU 0 is in arch_start_cpu *)
(* for that very CPU (GoInv), and from the moment CPU 0 publishes a stack  *)
(* until it starts the next CPU the slot holds the stack of the CPU being  *)
(* started (SlotInv).                                                      *)
(***************************************************************************)
EXTENDS SmpRiscv, TLAPS

USE NumCpusAssumption, RvBaseCpuAssumption, SocMpfsAssumption

\* Between arch_start_cpu's store to riscv_cpu_sp (line 81) and the next
\* call, the slot holds the stack of the CPU being started.
SlotInv == ppc # "start" => cpuSp = cur

\* A secondary that waits and reads RV_WAKE_GO was released by CPU 0's
\* arch_start_cpu for it, which now waits for its RV_WAKE_DONE.
GoInv ==
    \A c \in Secondaries :
        spc[c] = "wfi" /\ wake[HartOf(c)] = "GO" => c = cur /\ ppc = "waitDone"

\* The inductive invariant.
IInv == TypeOK /\ SlotInv /\ GoInv /\ SpHandoff

\* Distinct CPUs have distinct harts, and every CPU's hart is a hart.
LEMMA HartOfInj ==
    ASSUME NEW c \in Cpus, NEW d \in Cpus
    PROVE  /\ HartOf(c) \in Harts
           /\ HartOf(c) = HartOf(d) => c = d
BY DEF HartOf, Cpus, Harts

\* arch_curr_cpu maps the hart of a CPU back to that CPU.
LEMMA CurrCpuOfHart ==
    ASSUME NEW h \in ZephyrHarts
    PROVE  /\ arch_curr_cpu(h) \in Cpus
           /\ HartOf(arch_curr_cpu(h)) = h
<1>1. PICK c \in Cpus : h = HartOf(c)
    BY DEF ZephyrHarts
<1>2. arch_curr_cpu(h) = c
    BY <1>1, RvBaseCpuAssumption, SocMpfsAssumption DEF HartOf, arch_curr_cpu, Cpus
<1>3. QED
    BY <1>1, <1>2

LEMMA InitIInv == Init => IInv
<1> SUFFICES ASSUME Init PROVE IInv
    OBVIOUS
<1>1. wake \in [Harts -> FlagVals]
    BY InitFlagsAssumption DEF Init, FlagVals
<1>2. cur \in Secondaries /\ cpuSp \in Secondaries \cup {NoSp}
    BY DEF Init, Secondaries
<1>3. spRead \in [Secondaries -> Secondaries \cup {NoSp}]
    BY DEF Init
<1>4. TypeOK
    BY <1>1, <1>2, <1>3 DEF Init, TypeOK
<1>5. SlotInv /\ GoInv /\ SpHandoff
    BY DEF Init, SlotInv, GoInv, SpHandoff
<1>6. QED
    BY <1>4, <1>5 DEF IInv

LEMMA NextIInv == IInv /\ [Next]_vars => IInv'
<1> SUFFICES ASSUME IInv, [Next]_vars PROVE IInv'
    OBVIOUS
<1> USE DEF IInv
<1>1. CASE arch_start_cpu_begin
    BY <1>1 DEF arch_start_cpu_begin, TypeOK, SlotInv, GoInv, SpHandoff
<1>2. CASE arch_start_cpu_go
    <2>1. HartOf(cur) \in Harts
        BY HartOfInj DEF TypeOK, Secondaries, Cpus
    <2>2. TypeOK'
        BY <1>2, <2>1 DEF arch_start_cpu_go, TypeOK, FlagVals
    <2>3. GoInv'
        <3> SUFFICES ASSUME NEW c \in Secondaries, spc'[c] = "wfi",
                            wake'[HartOf(c)] = "GO"
                     PROVE  c = cur' /\ ppc' = "waitDone"
            BY DEF GoInv
        <3>1. CASE c = cur
            BY <1>2, <3>1 DEF arch_start_cpu_go
        <3>2. CASE c # cur
            <4>1. HartOf(c) # HartOf(cur)
                BY <3>2, HartOfInj DEF TypeOK, Secondaries, Cpus
            <4>2. wake[HartOf(c)] = "GO" /\ spc[c] = "wfi"
                BY <1>2, <4>1 DEF arch_start_cpu_go
            <4>3. ppc = "waitDone"
                BY <4>2 DEF GoInv
            <4>4. QED
                BY <1>2, <4>3 DEF arch_start_cpu_go
        <3>3. QED
            BY <3>1, <3>2
    <2>4. QED
        BY <1>2, <2>2, <2>3 DEF arch_start_cpu_go, SlotInv, SpHandoff
<1>3. CASE arch_start_cpu_nudge
    <2>1. HartOf(cur) \in Harts
        BY HartOfInj DEF TypeOK, Secondaries, Cpus
    <2>2. QED
        BY <1>3, <2>1 DEF arch_start_cpu_nudge, TypeOK, SlotInv, GoInv, SpHandoff
<1>4. CASE arch_start_cpu_end
    <2>1. HartOf(cur) \in Harts
        BY HartOfInj DEF TypeOK, Secondaries, Cpus
    <2>2. TypeOK'
        <3>1. z_smp_init_next(cur) # 0 => z_smp_init_next(cur) \in Secondaries
            BY DEF z_smp_init_next, TypeOK, Secondaries
        <3>2. QED
            BY <1>4, <2>1, <3>1 DEF arch_start_cpu_end, TypeOK
    <2>3. GoInv'
        <3> SUFFICES ASSUME NEW c \in Secondaries, spc'[c] = "wfi",
                            wake'[HartOf(c)] = "GO"
                     PROVE  FALSE
            BY DEF GoInv
        <3>1. c = cur
            BY <1>4 DEF arch_start_cpu_end, GoInv
        <3>2. wake[HartOf(cur)] = "DONE"
            BY <1>4 DEF arch_start_cpu_end, StartedAck
        <3>3. QED
            BY <1>4, <3>1, <3>2 DEF arch_start_cpu_end
    <2>4. QED
        BY <1>4, <2>2, <2>3 DEF arch_start_cpu_end, SlotInv, SpHandoff
<1>5. ASSUME NEW c \in Secondaries, SecondaryWait(c) PROVE IInv'
    <2>1. HartOf(c) \in Harts
        BY HartOfInj DEF Secondaries, Cpus
    <2>2. TypeOK'
        BY <1>5, <2>1 DEF SecondaryWait, TypeOK, FlagVals
    <2>3. GoInv'
        <3> SUFFICES ASSUME NEW d \in Secondaries, spc'[d] = "wfi",
                            wake'[HartOf(d)] = "GO"
                     PROVE  d = cur' /\ ppc' = "waitDone"
            BY DEF GoInv
        <3>1. d # c
            BY <1>5, <2>1 DEF SecondaryWait, TypeOK
        <3>2. HartOf(d) # HartOf(c)
            BY <3>1, HartOfInj DEF Secondaries, Cpus
        <3>3. QED
            BY <1>5, <3>1, <3>2 DEF SecondaryWait, GoInv
    <2>4. QED
        BY <1>5, <2>2, <2>3 DEF SecondaryWait, SlotInv, SpHandoff
<1>6. ASSUME NEW c \in Secondaries, SecondaryGo(c) PROVE IInv'
    <2>1. c = cur /\ ppc = "waitDone" /\ cpuSp = c
        BY <1>6 DEF SecondaryGo, GoInv, SlotInv
    <2>2. TypeOK'
        BY <1>6, <2>1 DEF SecondaryGo, TypeOK
    <2>3. SpHandoff'
        BY <1>6, <2>1 DEF SecondaryGo, SpHandoff, TypeOK
    <2>4. GoInv'
        BY <1>6 DEF SecondaryGo, GoInv, TypeOK
    <2>5. QED
        BY <1>6, <2>2, <2>3, <2>4 DEF SecondaryGo, SlotInv
<1>7. ASSUME NEW c \in Secondaries, SecondaryDone(c) PROVE IInv'
    <2>1. HartOf(c) \in Harts
        BY HartOfInj DEF Secondaries, Cpus
    <2>2. TypeOK'
        BY <1>7, <2>1 DEF SecondaryDone, TypeOK, FlagVals
    <2>3. GoInv'
        <3> SUFFICES ASSUME NEW d \in Secondaries, spc'[d] = "wfi",
                            wake'[HartOf(d)] = "GO"
                     PROVE  d = cur' /\ ppc' = "waitDone"
            BY DEF GoInv
        <3>1. d # c
            BY <1>7, <2>1 DEF SecondaryDone, TypeOK
        <3>2. HartOf(d) # HartOf(c)
            BY <3>1, HartOfInj DEF Secondaries, Cpus
        <3>3. QED
            BY <1>7, <3>1, <3>2 DEF SecondaryDone, GoInv
    <2>4. QED
        BY <1>7, <2>2, <2>3 DEF SecondaryDone, SlotInv, SpHandoff
<1>8. ASSUME NEW c \in Secondaries, z_riscv_secondary_cpu_init(c) PROVE IInv'
    BY <1>8 DEF z_riscv_secondary_cpu_init, TypeOK, SlotInv, GoInv, SpHandoff
<1>9. ASSUME NEW h \in ZephyrHarts, arch_sched_ipi(h) PROVE IInv'
    BY <1>9 DEF arch_sched_ipi, TypeOK, SlotInv, GoInv, SpHandoff
<1>10. ASSUME NEW h \in ZephyrHarts, sched_ipi_handler_clear(h) PROVE IInv'
    <2>1. arch_curr_cpu(h) \in Cpus /\ HartOf(arch_curr_cpu(h)) = h
        BY CurrCpuOfHart
    <2>2. h \in Harts
        BY <2>1, HartOfInj
    <2>3. QED
        BY <1>10, <2>1, <2>2 DEF sched_ipi_handler_clear, TypeOK, SlotInv, GoInv, SpHandoff
<1>11. ASSUME NEW h \in ZephyrHarts, sched_ipi_handler_sched(h) PROVE IInv'
    <2>1. arch_curr_cpu(h) \in Cpus
        BY CurrCpuOfHart
    <2>2. QED
        BY <1>11, <2>1 DEF sched_ipi_handler_sched, TypeOK, SlotInv, GoInv, SpHandoff
<1>12. CASE UNCHANGED vars
    BY <1>12 DEF vars, TypeOK, SlotInv, GoInv, SpHandoff
<1>13. QED
    BY <1>1, <1>2, <1>3, <1>4, <1>5, <1>6, <1>7, <1>8, <1>9, <1>10, <1>11, <1>12
    DEF Next

\* Every secondary CPU starts on its own stack, for every number of CPUs,
\* either CONFIG_RV_BASE_CPU and whatever the __noinit wake flags hold at
\* reset: arch_start_cpu's wait for RV_WAKE_DONE keeps the next call from
\* overwriting riscv_cpu_sp before the released CPU has loaded it.
THEOREM StackHandoff == Spec => []SpHandoff
<1>1. Init => IInv
    BY InitIInv
<1>2. IInv /\ [Next]_vars => IInv'
    BY NextIInv
<1>3. IInv => SpHandoff
    BY DEF IInv
<1>4. QED
    BY <1>1, <1>2, <1>3, PTL DEF Spec

\* Every reachable state of the start-up and IPI model is well typed (TypeOK),
\* for every number of CPUs, either SoC and any wake flags at reset: the hart
\* arithmetic of get_hart_msip and arch_curr_cpu stays within the harts and
\* CPUs, whether or not arch_sched_ipi runs during start-up.
THEOREM TypeCorrect == Spec => []TypeOK
<1>1. IInv => TypeOK
    BY DEF IInv
<1>2. QED
    BY <1>1, InitIInv, NextIInv, PTL DEF Spec


(***************************************************************************)
(* No lost IPI.  With IPIs only after start-up (IpiDuringStart FALSE),     *)
(* NoLostIpi is inductive once strengthened by QuietInv: no IPI is pending *)
(* before CPU 0 has returned from its last arch_start_cpu, so the MSIP     *)
(* clear at line 98 never meets one.                                       *)
(***************************************************************************)

\* Nothing is pending while CPUs are still being started.
QuietInv == ppc # "finished" => \A c \in Cpus : ~pending[c]

IpiInv == IInv /\ QuietInv /\ NoLostIpi

LEMMA InitIpiInv == Init => IpiInv
BY InitIInv DEF Init, IpiInv, QuietInv, NoLostIpi

LEMMA NextIpiInv ==
    ASSUME ~IpiDuringStart
    PROVE  IpiInv /\ [Next]_vars => IpiInv'
<1> SUFFICES ASSUME IpiInv, [Next]_vars PROVE IpiInv'
    OBVIOUS
<1>0. IInv'
    BY NextIInv DEF IpiInv
<1> USE DEF IpiInv, IInv
<1> DEFINE Ipi(c) == pending[c] => msip[HartOf(c)] \/ hclr[c]
<1>1. CASE arch_start_cpu_begin
    BY <1>0, <1>1 DEF arch_start_cpu_begin, QuietInv, NoLostIpi
<1>2. CASE arch_start_cpu_go
    <2>1. \A c \in Cpus : ~pending'[c]
        BY <1>2 DEF arch_start_cpu_go, QuietInv
    <2>2. QED
        BY <1>0, <1>2, <2>1 DEF arch_start_cpu_go, QuietInv, NoLostIpi
<1>3. CASE arch_start_cpu_nudge
    <2>1. \A c \in Cpus : ~pending'[c]
        BY <1>3 DEF arch_start_cpu_nudge, QuietInv
    <2>2. QED
        BY <1>0, <1>3, <2>1 DEF arch_start_cpu_nudge, QuietInv, NoLostIpi
<1>4. CASE arch_start_cpu_end
    <2>1. \A c \in Cpus : ~pending'[c]
        BY <1>4 DEF arch_start_cpu_end, QuietInv
    <2>2. QuietInv'
        BY <2>1 DEF QuietInv
    <2>3. QED
        BY <1>0, <2>1, <2>2 DEF NoLostIpi
<1>5. ASSUME NEW c \in Secondaries,
             SecondaryWait(c) \/ SecondaryGo(c) \/ SecondaryDone(c)
             \/ z_riscv_secondary_cpu_init(c)
      PROVE  IpiInv'
    BY <1>0, <1>5 DEF SecondaryWait, SecondaryGo, SecondaryDone,
                      z_riscv_secondary_cpu_init, QuietInv, NoLostIpi
<1>6. ASSUME NEW h \in ZephyrHarts, arch_sched_ipi(h) PROVE IpiInv'
    <2> DEFINE id == arch_curr_cpu(h)
               targets == {i \in Cpus : i # id}
    <2>1. ppc = "finished"
        BY <1>6 DEF arch_sched_ipi
    <2>2. QuietInv'
        BY <1>6, <2>1 DEF arch_sched_ipi, QuietInv
    <2>3. ASSUME NEW c \in Cpus PROVE Ipi(c)'
        <3>1. CASE c \in targets
            <4>1. HartOf(c) \in Harts
                BY HartOfInj
            <4>2. msip'[HartOf(c)]
                BY <1>6, <3>1, <4>1 DEF arch_sched_ipi
            <4>3. QED
                BY <4>2
        <3>2. CASE c \notin targets
            <4>1. c = id /\ id \in Cpus
                BY <3>2, CurrCpuOfHart
            <4>2. \A i \in targets : HartOf(c) # HartOf(i)
                BY <4>1, HartOfInj
            <4>3. HartOf(c) \in Harts
                BY HartOfInj
            <4>4. msip'[HartOf(c)] = msip[HartOf(c)] /\ pending'[c] = pending[c]
                BY <1>6, <3>2, <4>2, <4>3 DEF arch_sched_ipi
            <4>5. QED
                BY <1>6, <4>4 DEF arch_sched_ipi, NoLostIpi
        <3>3. QED
            BY <3>1, <3>2
    <2>4. QED
        BY <1>0, <2>2, <2>3 DEF NoLostIpi
<1>7. ASSUME NEW h \in ZephyrHarts, sched_ipi_handler_clear(h) PROVE IpiInv'
    <2> DEFINE id == arch_curr_cpu(h)
    <2>1. id \in Cpus /\ HartOf(id) = h /\ h \in Harts
        BY CurrCpuOfHart, HartOfInj
    <2>2. ASSUME NEW c \in Cpus PROVE Ipi(c)'
        <3>1. CASE c = id
            BY <1>7, <2>1, <3>1 DEF sched_ipi_handler_clear, TypeOK
        <3>2. CASE c # id
            <4>1. HartOf(c) # h /\ HartOf(c) \in Harts
                BY <2>1, <3>2, HartOfInj
            <4>2. QED
                BY <1>7, <2>1, <3>2, <4>1 DEF sched_ipi_handler_clear, TypeOK, NoLostIpi
        <3>3. QED
            BY <3>1, <3>2
    <2>3. QED
        BY <1>0, <1>7, <2>2 DEF sched_ipi_handler_clear, QuietInv, NoLostIpi
<1>8. ASSUME NEW h \in ZephyrHarts, sched_ipi_handler_sched(h) PROVE IpiInv'
    <2> DEFINE id == arch_curr_cpu(h)
    <2>1. id \in Cpus
        BY CurrCpuOfHart
    <2>2. QuietInv'
        BY <1>8, <2>1 DEF sched_ipi_handler_sched, QuietInv, TypeOK
    <2>3. ASSUME NEW c \in Cpus PROVE Ipi(c)'
        BY <1>8, <2>1 DEF sched_ipi_handler_sched, TypeOK, NoLostIpi
    <2>4. QED
        BY <1>0, <2>2, <2>3 DEF NoLostIpi
<1>9. CASE UNCHANGED vars
    BY <1>0, <1>9 DEF vars, QuietInv, NoLostIpi
<1>10. QED
    BY <1>1, <1>2, <1>3, <1>4, <1>5, <1>6, <1>7, <1>8, <1>9 DEF Next

\* No scheduler IPI is lost, for every number of CPUs and either SoC, when
\* no CPU calls arch_sched_ipi before z_smp_init has started every CPU:
\* sched_ipi_handler clears its MSIP before z_sched_ipi, and
\* arch_start_cpu's final clear meets no pending IPI.  (With IPIs during
\* start-up the clear at line 98 can erase one and the property fails.)
THEOREM IpiSafe ==
    ASSUME ~IpiDuringStart
    PROVE  Spec => []NoLostIpi
<1>1. Init => IpiInv
    BY InitIpiInv
<1>2. IpiInv /\ [Next]_vars => IpiInv'
    BY NextIpiInv
<1>3. IpiInv => NoLostIpi
    BY DEF IpiInv
<1>4. QED
    BY <1>1, <1>2, <1>3, PTL DEF Spec

=============================================================================
