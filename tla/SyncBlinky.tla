----------------------------- MODULE SyncBlinky -----------------------------
(***************************************************************************)
(* The synchronization_blinky application (main.c).  Thread A, started at  *)
(* boot, initialises the GPIO block, creates thread B without starting it, *)
(* restricts B's CPU mask, starts B, and then both threads run helloLoop:  *)
(* take their own semaphore, drive the LEDs with their own value, print a  *)
(* greeting naming the CPU they run on, sleep, and give the other thread's *)
(* semaphore.  threadA_sem starts available and threadB_sem not; both have *)
(* limit 1, so k_sem_give on a full semaphore leaves it full.              *)
(*                                                                         *)
(* The kernel decides on which CPU a thread resumes: any CPU of its mask.  *)
(* Sleeping and busy waiting are steps that only take time.                *)
(***************************************************************************)
EXTENDS Naturals

CONSTANTS
    NumCpus,        \* CONFIG_MP_MAX_NUM_CPUS (1 without CONFIG_SMP)
    SchedCpuMask    \* CONFIG_SCHED_CPU_MASK

ASSUME NumCpusAssumption == NumCpus \in Nat \ {0}
ASSUME SchedCpuMaskAssumption == SchedCpuMask \in BOOLEAN

Threads == {"A", "B"}
Cpus == 0 .. NumCpus - 1
Pcs == {"init", "start", "unstarted", "take", "leds", "hello", "give"}

\* The led_val each thread passes to helloLoop, and MSS_GPIO's reset value.
LedVal == [A |-> "0x00000000", B |-> "0xffffffff"]
GpioReset == "reset"

\* helloLoop's other_sem: the semaphore each thread gives.
Other_self(t) == IF t = "A" THEN "B" ELSE "B"
Other(t) == IF t = "A" THEN "B" ELSE "A"

VARIABLES
    pc,       \* where each thread is
    sem,      \* the counts of threadA_sem and threadB_sem
    gpio,     \* the GPIO2_LO output register
    cfgd,     \* the GPIO2_LO pins configured as outputs
    mask,     \* the CPU mask of each thread
    cpu       \* the CPU each thread reports (arch_curr_cpu()->id)

vars == <<pc, sem, gpio, cfgd, mask, cpu>>

\* K_SEM_DEFINE(threadA_sem, 1, 1), K_SEM_DEFINE(threadB_sem, 0, 1).
SemInit_both == [A |-> 1, B |-> 1]
SemInit == [A |-> 1, B |-> 0]

\* K_THREAD_DEFINE(thread_a, ...) starts A; B is not created yet.
Init ==
    /\ pc = [A |-> "init", B |-> "unstarted"]
    /\ sem = SemInit
    /\ gpio = GpioReset
    /\ cfgd = {}
    /\ mask = [t \in Threads |-> Cpus]
    /\ cpu = [t \in Threads |-> 0]

\* The pins threadA configures as outputs: 16 to 19, then 26, 27 and 28.
LedPins == (16 .. 19) \cup {26, 27, 28}

\* threadA up to k_thread_start: MSS_GPIO_init, the MSS_GPIO_config loop,
\* k_thread_create with K_FOREVER, k_thread_name_set and, with
\* CONFIG_SCHED_CPU_MASK, CPU 1 disabled and CPU 0 enabled in B's mask.
threadA_init ==
    /\ pc["A"] = "init"
    /\ gpio' = GpioReset
    /\ cfgd' = LedPins
    /\ mask' = IF SchedCpuMask
               THEN [mask EXCEPT !["B"] = (@ \ {1}) \cup {0}]
               ELSE mask
    /\ pc' = [pc EXCEPT !["A"] = "start"]
    /\ UNCHANGED <<sem, cpu>>

\* k_thread_start(&threadB_data), then A enters helloLoop.
threadA_start ==
    /\ pc["A"] = "start"
    /\ pc' = [pc EXCEPT !["A"] = "take", !["B"] = "take"]
    /\ UNCHANGED <<sem, gpio, cfgd, mask, cpu>>

\* CPU c runs on hart c + CONFIG_RV_BASE_CPU; hart 0 is the E51 monitor core.
RvBaseCpu == 1

\* arch_curr_cpu: _kernel.cpus[hart_id - 1] on PolarFire SoC, and
\* _kernel.cpus[hart_id] on other SoCs.
arch_curr_cpu_nobase(h) == h
arch_curr_cpu(h) == h - 1

\* k_sem_take(my_sem, K_FOREVER): block until the count is positive, take
\* it, and resume on some CPU of the thread's mask.
k_sem_take(t) ==
    /\ pc[t] = "take"
    /\ sem[t] > 0
    /\ sem' = [sem EXCEPT ![t] = @ - 1]
    /\ \E c \in mask[t] : cpu' = [cpu EXCEPT ![t] = arch_curr_cpu(c + RvBaseCpu)]
    /\ pc' = [pc EXCEPT ![t] = "leds"]
    /\ UNCHANGED <<gpio, cfgd, mask>>

\* MSS_GPIO_set_outputs(GPIO2_LO, led_val).
MSS_GPIO_set_outputs(t) ==
    /\ pc[t] = "leds"
    /\ gpio' = LedVal[t]
    /\ pc' = [pc EXCEPT ![t] = "hello"]
    /\ UNCHANGED <<sem, cfgd, mask, cpu>>

\* printk of the greeting, then k_busy_wait and k_msleep.
hello(t) ==
    /\ pc[t] = "hello"
    /\ pc' = [pc EXCEPT ![t] = "give"]
    /\ UNCHANGED <<sem, gpio, cfgd, mask, cpu>>

\* k_sem_give(other_sem): the count grows up to the limit 1.
k_sem_give(t) ==
    /\ pc[t] = "give"
    /\ sem' = [sem EXCEPT ![Other(t)] = IF @ < 1 THEN @ + 1 ELSE @]
    /\ pc' = [pc EXCEPT ![t] = "take"]
    /\ UNCHANGED <<gpio, cfgd, mask, cpu>>

\* One step of helloLoop by thread t.
helloLoop(t) ==
    \/ k_sem_take(t)
    \/ MSS_GPIO_set_outputs(t)
    \/ hello(t)
    \/ k_sem_give(t)

Next ==
    \/ threadA_init
    \/ threadA_start
    \/ \E t \in Threads : helloLoop(t)

\* Both threads have priority 7 and block in k_msleep and k_sem_take, so
\* the scheduler runs each ready thread eventually.
Fairness ==
    /\ WF_vars(threadA_init)
    /\ WF_vars(threadA_start)
    /\ \A t \in Threads : WF_vars(helloLoop(t))

Spec == Init /\ [][Next]_vars /\ Fairness

(***************************************************************************)
(* Properties                                                              *)
(***************************************************************************)

\* Type invariant.
TypeOK ==
    /\ pc \in [Threads -> Pcs]
    /\ sem \in [Threads -> 0 .. 1]
    /\ gpio \in {GpioReset} \cup {LedVal[t] : t \in Threads}
    /\ cfgd \in {{}, LedPins}
    /\ mask \in [Threads -> SUBSET Cpus]
    /\ cpu \in [Threads -> Cpus]

\* The thread whose turn it is holds a semaphore token.
HoldsTurn(t) == pc[t] \in {"leds", "hello", "give"}

\* From the moment a thread has set the LEDs until it gives the other
\* thread's semaphore, the LEDs show its own value: the two semaphores pass
\* one turn back and forth, so the other thread never writes GPIO2_LO while
\* this one greets.
LedsShowTurn ==
    \A t \in Threads : pc[t] \in {"hello", "give"} => gpio = LedVal[t]

\* The threads take turns for ever: each of them greets infinitely often.
Alternation ==
    \A t \in Threads : []<>(pc[t] = "hello")

\* Exactly one turn exists: it is a count of one of the two semaphores or
\* held by the thread between its k_sem_take and its k_sem_give.
TokenInv ==
    sem["A"] + sem["B"] + (IF HoldsTurn("A") THEN 1 ELSE 0)
                        + (IF HoldsTurn("B") THEN 1 ELSE 0) = 1

=============================================================================
