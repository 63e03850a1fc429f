------------------------------ MODULE SmpRiscv ------------------------------
(***************************************************************************)
(* RISC-V SMP bring-up and scheduler IPIs (arch/riscv/core/smp.c, with     *)
(* arch_curr_cpu of arch_inlines.h).                                      *)
(*                                                                         *)
(* CPU 0 runs arch_start_cpu for each secondary CPU in turn.  For CPU c it *)
(* publishes the stack in the single slot riscv_cpu_sp, waits until the    *)
(* secondary's wake flag reads RV_WAKE_WAIT, writes RV_WAKE_GO and raises  *)
(* the secondary's machine soft interrupt (MSIP), nudges it again while it *)
(* waits for RV_WAKE_DONE, and finally clears the MSIP.  The secondary's   *)
(* reset path is assembly outside this repository; it is modelled by the   *)
(* protocol those flags implement: write WAIT, wait for GO, load the stack *)
(* from riscv_cpu_sp, write DONE, then run z_riscv_secondary_cpu_init,     *)
(* which enables the soft interrupt and enters the scheduler.              *)
(*                                                                         *)
(* Once online, a CPU may call arch_sched_ipi, which raises the MSIP of    *)
(* every other CPU; sched_ipi_handler clears its own MSIP, then runs       *)
(* z_sched_ipi.  CPU c is hart c + CONFIG_RV_BASE_CPU (hart 0 is the E51   *)
(* monitor core on PolarFire SoC).                                         *)
(***************************************************************************)
EXTENDS Naturals

CONSTANTS
    NumCpus,         \* CONFIG_MP_MAX_NUM_CPUS
    RvBaseCpu,       \* CONFIG_RV_BASE_CPU
    SocMpfs,         \* CONFIG_SOC_MPFS
    InitFlags,       \* values hart_wake_flags (__noinit) may hold at reset
    IpiDuringStart   \* whether online CPUs call arch_sched_ipi while CPUs are still being started

ASSUME NumCpusAssumption == NumCpus \in Nat /\ NumCpus >= 2
ASSUME SocMpfsAssumption == SocMpfs \in BOOLEAN
\* smp.c, lines 39-41: CONFIG_RV_BASE_CPU is 1 on a system with a monitor
\* hart (the E51 of PolarFire SoC) and 0 otherwise.
ASSUME RvBaseCpuAssumption == RvBaseCpu = IF SocMpfs THEN 1 ELSE 0
ASSUME InitFlagsAssumption == InitFlags # {} /\ InitFlags \subseteq {"WAIT", "GO", "DONE", "OTHER"}
ASSUME IpiDuringStartAssumption == IpiDuringStart \in BOOLEAN

Cpus == 0 .. NumCpus - 1
Secondaries == 1 .. NumCpus - 1
Harts == 0 .. NumCpus - 1 + RvBaseCpu
FlagVals == {"WAIT", "GO", "DONE", "OTHER"}
NoSp == 0            \* riscv_cpu_sp before any secondary stack (CPU 0 starts no stack)

VARIABLES
    wake,     \* hart_wake_flags, indexed by hart
    msip,     \* the MSIP register of each hart
    cpuSp,    \* riscv_cpu_sp: the CPU whose stack it points to
    ppc,      \* CPU 0 in arch_start_cpu: "start", "waitWait", "waitDone", or "finished"
    cur,      \* the cpu_num CPU 0 is starting
    spc,      \* each secondary: "reset", "wfi", "sp", "init", or "online"
    spRead,   \* the stack each secondary loaded from riscv_cpu_sp
    hclr,     \* sched_ipi_handler has cleared the MSIP and not yet run z_sched_ipi
    pending   \* an IPI was raised for the CPU after its last z_sched_ipi began

vars == <<wake, msip, cpuSp, ppc, cur, spc, spRead, hclr, pending>>

\* get_hart_msip(cpu_num + CONFIG_RV_BASE_CPU): the hart of a CPU.
HartOf(c) == c + RvBaseCpu

\* arch_curr_cpu: _kernel.cpus[mhartid - 1] on PolarFire SoC, and
\* _kernel.cpus[mhartid] elsewhere.
arch_curr_cpu(h) == IF SocMpfs THEN h - 1 ELSE h

Online(c) == c \in {0} \cup {s \in Secondaries : spc[s] = "online"}

Init ==
    /\ wake \in [Harts -> InitFlags]
    /\ msip = [h \in Harts |-> FALSE]
    /\ cpuSp = NoSp
    /\ ppc = "start"
    /\ cur = 1
    /\ spc = [c \in Secondaries |-> "reset"]
    /\ spRead = [c \in Secondaries |-> NoSp]
    /\ hclr = [c \in Cpus |-> FALSE]
    /\ pending = [c \in Cpus |-> FALSE]

(***************************************************************************)
(* CPU 0: arch_start_cpu(cur), called by z_smp_init for each secondary.    *)
(***************************************************************************)

\* Lines 73-81: record the start function and publish the stack.
arch_start_cpu_begin ==
    /\ ppc = "start"
    /\ cpuSp' = cur
    /\ ppc' = "waitWait"
    /\ UNCHANGED <<wake, msip, cur, spc, spRead, hclr, pending>>

\* The flag value the first loop waits for.
WakeReady(c) == wake[HartOf(c)] = "WAIT"

arch_start_cpu_go_nogo ==
    /\ ppc = "waitWait"
    /\ WakeReady(cur)
    /\ msip' = [msip EXCEPT ![HartOf(cur)] = TRUE]
    /\ ppc' = "waitDone"
    /\ UNCHANGED <<wake, cpuSp, cur, spc, spRead, hclr, pending>>

\* Lines 84-89: once the flag reads WAIT, write GO and raise the MSIP.
arch_start_cpu_go ==
    /\ ppc = "waitWait"
    /\ WakeReady(cur)
    /\ wake' = [wake EXCEPT ![HartOf(cur)] = "GO"]
    /\ msip' = [msip EXCEPT ![HartOf(cur)] = TRUE]
    /\ ppc' = "waitDone"
    /\ UNCHANGED <<cpuSp, cur, spc, spRead, hclr, pending>>

\* Lines 91-95: while the flag is not DONE, raise the MSIP again now and then.
arch_start_cpu_nudge ==
    /\ ppc = "waitDone"
    /\ wake[HartOf(cur)] # "DONE"
    /\ msip' = [msip EXCEPT ![HartOf(cur)] = TRUE]
    /\ UNCHANGED <<wake, cpuSp, ppc, cur, spc, spRead, hclr, pending>>

\* The flag value the second loop waits for.
StartedAck_go(c) == wake[HartOf(c)] # "WAIT"
StartedAck(c) == wake[HartOf(c)] = "DONE"

\* z_smp_init's loop over the CPUs: the CPU started after c, if any.
z_smp_init_next_le(c) == IF c + 1 <= NumCpus THEN c + 1 ELSE 0
z_smp_init_next(c) == IF c + 1 < NumCpus THEN c + 1 ELSE 0

\* Lines 91-98: once the flag reads DONE, clear the MSIP and return; then
\* z_smp_init starts the next CPU.
arch_start_cpu_end ==
    /\ ppc = "waitDone"
    /\ StartedAck(cur)
    /\ msip' = [msip EXCEPT ![HartOf(cur)] = FALSE]
    /\ IF z_smp_init_next(cur) = 0
       THEN ppc' = "finished" /\ cur' = cur
       ELSE ppc' = "start" /\ cur' = z_smp_init_next(cur)
    /\ UNCHANGED <<wake, cpuSp, spc, spRead, hclr, pending>>

(***************************************************************************)
(* A secondary CPU c: the reset path, then z_riscv_secondary_cpu_init.     *)
(***************************************************************************)

\* Announce that the hart waits.
SecondaryWait(c) ==
    /\ spc[c] = "reset"
    /\ wake' = [wake EXCEPT ![HartOf(c)] = "WAIT"]
    /\ spc' = [spc EXCEPT ![c] = "wfi"]
    /\ UNCHANGED <<msip, cpuSp, ppc, cur, spRead, hclr, pending>>

\* Woken with GO: load the stack from riscv_cpu_sp.
SecondaryGo(c) ==
    /\ spc[c] = "wfi"
    /\ wake[HartOf(c)] = "GO"
    /\ spRead' = [spRead EXCEPT ![c] = cpuSp]
    /\ spc' = [spc EXCEPT ![c] = "sp"]
    /\ UNCHANGED <<wake, msip, cpuSp, ppc, cur, hclr, pending>>

\* Tell CPU 0 the stack has been taken.
SecondaryDone(c) ==
    /\ spc[c] = "sp"
    /\ wake' = [wake EXCEPT ![HartOf(c)] = "DONE"]
    /\ spc' = [spc EXCEPT ![c] = "init"]
    /\ UNCHANGED <<msip, cpuSp, ppc, cur, spRead, hclr, pending>>

\* Lines 101-116: enable the soft interrupt and enter the scheduler.
z_riscv_secondary_cpu_init(c) ==
    /\ spc[c] = "init"
    /\ spc' = [spc EXCEPT ![c] = "online"]
    /\ UNCHANGED <<wake, msip, cpuSp, ppc, cur, spRead, hclr, pending>>

(***************************************************************************)
(* Scheduler IPIs, on the hart h of an online CPU.                         *)
(***************************************************************************)

\* Lines 128-147: raise the MSIP of every other CPU.
arch_sched_ipi(h) ==
    LET id == arch_curr_cpu(h)
        targets == {i \in Cpus : i # id}
    IN /\ Online(id)
       /\ IpiDuringStart \/ ppc = "finished"
       /\ msip' = [x \in Harts |-> IF \E i \in targets : x = HartOf(i) THEN TRUE ELSE msip[x]]
       /\ pending' = [i \in Cpus |-> IF i \in targets THEN TRUE ELSE pending[i]]
       /\ UNCHANGED <<wake, cpuSp, ppc, cur, spc, spRead, hclr>>

\* Lines 149-154: the soft interrupt taken; the handler clears its MSIP.
sched_ipi_handler_clear_nobase(h) ==
    LET id == arch_curr_cpu(h)
    IN /\ Online(id)
       /\ msip[h]
       /\ ~hclr[id]
       /\ msip' = [msip EXCEPT ![id] = FALSE]
       /\ hclr' = [hclr EXCEPT ![id] = TRUE]
       /\ UNCHANGED <<wake, cpuSp, ppc, cur, spc, spRead, pending>>
sched_ipi_handler_clear(h) ==
    LET id == arch_curr_cpu(h)
    IN /\ Online(id)
       /\ msip[h]
       /\ ~hclr[id]
       /\ msip' = [msip EXCEPT ![HartOf(id)] = FALSE]
       /\ hclr' = [hclr EXCEPT ![id] = TRUE]
       /\ UNCHANGED <<wake, cpuSp, ppc, cur, spc, spRead, pending>>

\* Line 156: z_sched_ipi handles every IPI raised before it.
sched_ipi_handler_sched(h) ==
    LET id == arch_curr_cpu(h)
    IN /\ hclr[id]
       /\ hclr' = [hclr EXCEPT ![id] = FALSE]
       /\ pending' = [pending EXCEPT ![id] = FALSE]
       /\ UNCHANGED <<wake, msip, cpuSp, ppc, cur, spc, spRead>>

ZephyrHarts == {HartOf(c) : c \in Cpus}

Next ==
    \/ arch_start_cpu_begin
    \/ arch_start_cpu_go
    \/ arch_start_cpu_nudge
    \/ arch_start_cpu_end
    \/ \E c \in Secondaries :
          \/ SecondaryWait(c)
          \/ SecondaryGo(c)
          \/ SecondaryDone(c)
          \/ z_riscv_secondary_cpu_init(c)
    \/ \E h \in ZephyrHarts :
          \/ arch_sched_ipi(h)
          \/ sched_ipi_handler_clear(h)
          \/ sched_ipi_handler_sched(h)

(***************************************************************************)
(* Every hart runs: each step that stays enabled is eventually taken, and  *)
(* a pending soft interrupt is eventually taken by an online CPU.          *)
(***************************************************************************)
Fairness ==
    /\ WF_vars(arch_start_cpu_begin)
    /\ WF_vars(arch_start_cpu_go)
    /\ WF_vars(arch_start_cpu_end)
    /\ \A c \in Secondaries :
          /\ WF_vars(SecondaryWait(c))
          /\ WF_vars(SecondaryGo(c))
          /\ WF_vars(SecondaryDone(c))
          /\ WF_vars(z_riscv_secondary_cpu_init(c))
    /\ \A h \in ZephyrHarts :
          /\ WF_vars(sched_ipi_handler_clear(h))
          /\ WF_vars(sched_ipi_handler_sched(h))

Spec == Init /\ [][Next]_vars /\ Fairness

(***************************************************************************)
(* Properties                                                              *)
(***************************************************************************)

\* Type invariant.
TypeOK ==
    /\ wake \in [Harts -> FlagVals]
    /\ msip \in [Harts -> BOOLEAN]
    /\ cpuSp \in Secondaries \cup {NoSp}
    /\ ppc \in {"start", "waitWait", "waitDone", "finished"}
    /\ cur \in Secondaries
    /\ spc \in [Secondaries -> {"reset", "wfi", "sp", "init", "online"}]
    /\ spRead \in [Secondaries -> Secondaries \cup {NoSp}]
    /\ hclr \in [Cpus -> BOOLEAN]
    /\ pending \in [Cpus -> BOOLEAN]

\* Every secondary runs on its own stack: the single slot riscv_cpu_sp,
\* overwritten by each arch_start_cpu, is never overwritten before the CPU
\* it was meant for has loaded it (the wait for RV_WAKE_DONE).
SpHandoff ==
    \A c \in Secondaries : spRead[c] \in {NoSp, c}

\* No scheduler IPI is lost: an IPI raised for a CPU that its z_sched_ipi
\* has not yet handled is still signalled in its MSIP, or its handler has
\* cleared the MSIP and is about to run z_sched_ipi.
NoLostIpi ==
    \A c \in Cpus : pending[c] => msip[HartOf(c)] \/ hclr[c]

\* Start-up completes: every secondary CPU eventually comes online and
\* CPU 0 returns from its last arch_start_cpu.
AllOnline ==
    <>(ppc = "finished" /\ \A c \in Secondaries : spc[c] = "online")

=============================================================================
