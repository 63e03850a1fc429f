-------------------------- MODULE SyncBlinkyProofs --------------------------
(***************************************************************************)
(* Proofs about SyncBlinky for every number of CPUs.  LedsShowTurn is not  *)
(* inductive by itself: a step of MSS_GPIO_set_outputs by the other thread *)
(* would break it.  It holds because the two semaphores and the two        *)
(* threads' critical sections share a single turn (TokenInv), so only the  *)
(* thread that holds the turn can write the LEDs.                          *)
(***************************************************************************)
EXTENDS SyncBlinky, TLAPS

USE NumCpusAssumption, SchedCpuMaskAssumption

\* Thread B is not running before thread A starts it.
StartInv == pc["A"] \in {"init", "start"} => pc["B"] = "unstarted"

\* The inductive invariant.
IInv == TypeOK /\ TokenInv /\ LedsShowTurn /\ StartInv

LEMMA InitIInv == Init => IInv
<1> SUFFICES ASSUME Init PROVE IInv
    OBVIOUS
<1>1. pc \in [Threads -> Pcs]
    BY DEF Init, Threads, Pcs
<1>2. sem \in [Threads -> 0 .. 1]
    BY DEF Init, SemInit, Threads
<1>3. gpio \in {GpioReset} \cup {LedVal[t] : t \in Threads}
    BY DEF Init
<1>4. cfgd \in {{}, LedPins} /\ mask \in [Threads -> SUBSET Cpus]
    BY DEF Init
<1>5. cpu \in [Threads -> Cpus]
    BY DEF Init, Cpus
<1>6. TokenInv /\ LedsShowTurn /\ StartInv
    BY DEF Init, TokenInv, LedsShowTurn, HoldsTurn, SemInit, Threads, StartInv
<1>7. QED
    BY <1>1, <1>2, <1>3, <1>4, <1>5, <1>6 DEF IInv, TypeOK

\* With one turn, the thread that holds it is the only one.
LEMMA OneHolder ==
    ASSUME TypeOK, TokenInv, NEW t \in Threads, HoldsTurn(t)
    PROVE  /\ ~HoldsTurn(Other(t))
           /\ sem["A"] = 0 /\ sem["B"] = 0
BY DEF TypeOK, TokenInv, HoldsTurn, Other, Threads

LEMMA NextIInv == IInv /\ [Next]_vars => IInv'
<1> SUFFICES ASSUME IInv, [Next]_vars PROVE IInv'
    OBVIOUS
<1> USE DEF IInv
<1>1. CASE threadA_init
    <2>1. mask' \in [Threads -> SUBSET Cpus]
        <3>1. (mask["B"] \ {1}) \cup {0} \in SUBSET Cpus
            BY DEF TypeOK, Threads, Cpus
        <3>2. QED
            BY <1>1, <3>1 DEF threadA_init, TypeOK, Threads
    <2>2. QED
        BY <1>1, <2>1 DEF threadA_init, TypeOK, TokenInv, LedsShowTurn, HoldsTurn,
                          StartInv, GpioReset, Threads, Pcs
<1>2. CASE threadA_start
    BY <1>2 DEF threadA_start, TypeOK, TokenInv, LedsShowTurn, HoldsTurn,
               StartInv, Threads, Pcs
<1>3. ASSUME NEW t \in Threads, k_sem_take(t) PROVE IInv'
    <2>1. ~HoldsTurn(t) /\ ~HoldsTurn(Other(t))
        BY <1>3 DEF k_sem_take, TypeOK, TokenInv, HoldsTurn, Other, Threads
    <2>2. PICK c \in mask[t] : cpu' = [cpu EXCEPT ![t] = arch_curr_cpu(c + RvBaseCpu)]
        BY <1>3 DEF k_sem_take
    <2>3. c \in Cpus
        BY <2>2 DEF TypeOK
    <2>4. TypeOK'
        <3>1. arch_curr_cpu(c + RvBaseCpu) \in Cpus
            BY <2>3 DEF arch_curr_cpu, RvBaseCpu, Cpus
        <3>2. cpu' \in [Threads -> Cpus]
            BY <2>2, <3>1 DEF TypeOK
        <3>3. sem' \in [Threads -> 0 .. 1]
            BY <1>3 DEF k_sem_take, TypeOK
        <3>4. pc' \in [Threads -> Pcs]
            BY <1>3 DEF k_sem_take, TypeOK, Pcs
        <3>5. QED
            BY <1>3, <3>2, <3>3, <3>4 DEF k_sem_take, TypeOK
    <2>5. TokenInv'
        BY <1>3, <2>1 DEF k_sem_take, TypeOK, TokenInv, HoldsTurn, Other, Threads
    <2>6. LedsShowTurn' /\ StartInv'
        BY <1>3 DEF k_sem_take, TypeOK, LedsShowTurn, StartInv, Threads
    <2>7. QED
        BY <2>4, <2>5, <2>6
<1>4. ASSUME NEW t \in Threads, MSS_GPIO_set_outputs(t) PROVE IInv'
    <2>1. ~HoldsTurn(Other(t))
        BY <1>4, OneHolder DEF MSS_GPIO_set_outputs, HoldsTurn
    <2>2. QED
        BY <1>4, <2>1 DEF MSS_GPIO_set_outputs, TypeOK, TokenInv, LedsShowTurn,
                          HoldsTurn, Other, LedVal, GpioReset, StartInv, Threads, Pcs
<1>5. ASSUME NEW t \in Threads, hello(t) PROVE IInv'
    BY <1>5 DEF hello, TypeOK, TokenInv, LedsShowTurn, HoldsTurn, StartInv, Threads, Pcs
<1>6. ASSUME NEW t \in Threads, k_sem_give(t) PROVE IInv'
    <2>1. sem["A"] = 0 /\ sem["B"] = 0 /\ ~HoldsTurn(Other(t))
        BY <1>6, OneHolder DEF k_sem_give, HoldsTurn
    <2>2. QED
        BY <1>6, <2>1 DEF k_sem_give, TypeOK, TokenInv, LedsShowTurn, HoldsTurn,
                          Other, StartInv, Threads, Pcs
<1>7. CASE UNCHANGED vars
    BY <1>7 DEF vars, TypeOK, TokenInv, LedsShowTurn, HoldsTurn, StartInv
<1>8. QED
    BY <1>1, <1>2, <1>3, <1>4, <1>5, <1>6, <1>7 DEF Next, helloLoop

\* The LEDs show the value of the thread that greets, in every behaviour of
\* the application and for every number of CPUs: helloLoop's semaphore
\* hand-off keeps the other thread from writing GPIO2_LO during a turn.
THEOREM LedsSafe == Spec => []LedsShowTurn
<1>1. Init => IInv
    BY InitIInv
<1>2. IInv /\ [Next]_vars => IInv'
    BY NextIInv
<1>3. IInv => LedsShowTurn
    BY DEF IInv
<1>4. QED
    BY <1>1, <1>2, <1>3, PTL DEF Spec

\* Every reachable state of the blinky model is well typed (TypeOK) for
\* every number of CPUs and either CPU-mask setting: each semaphore count
\* stays 0 or 1, and k_thread_cpu_mask_enable and arch_curr_cpu keep every
\* thread on an existing CPU.
THEOREM TypeCorrect == Spec => []TypeOK
<1>1. IInv => TypeOK
    BY DEF IInv
<1>2. QED
    BY <1>1, InitIInv, NextIInv, PTL DEF Spec

=============================================================================
