---------------------------- MODULE BusySimProofs ----------------------------
(***************************************************************************)
(* Proofs about the busy simulator model of busy_sim.c, for every size of  *)
(* the ring buffer.                                                         *)
(***************************************************************************)
EXTENDS BusySim, TLAPS

USE BufSizeAssumption, EntropyAssumption

\* With an entropy driver that does not fail, a claim of rnd_rbuf is either
\* finished by the handler that made it or there is none: the handler
\* resubmits only when it got no space, so it never leaves claimed bytes
\* behind for the next claim to start after.
ClaimInv ==
    /\ workRunning => claimed = workLen
    /\ ~workRunning => claimed = 0 /\ workLen = 0

\* The inductive invariant for FreshPublished.
FreshInv == TypeOK /\ ClaimInv /\ FreshPublished

-----------------------------------------------------------------------------
(***************************************************************************)
(* Type correctness.                                                       *)
(***************************************************************************)

\* A position reduced modulo the buffer size is a position of rnd_buf.
LEMMA ModPos ==
    ASSUME NEW x \in Nat
    PROVE  x % BufSize \in Pos
BY DEF Pos

\* ring_buf_put_claim grants no more than the free space.
LEMMA ClaimRange ==
    ASSUME TypeOK
    PROVE  ring_buf_put_claim(ClaimReq) \in 0 .. BufSize - (fin + claimed)
<1>1. PutHeadPos \in Pos
  BY ModPos DEF TypeOK, PutHeadPos, Pos
<1> QED
  BY <1>1 DEF ring_buf_put_claim, MinOf, ClaimReq, TypeOK, Pos

\* The alarm callback takes no more bytes than are published.
LEMMA AlarmRange ==
    ASSUME TypeOK
    PROVE  LET idle   == get_timeout(fin)
               active == get_timeout(fin - idle.len)
           IN  idle.len + active.len \in 0 .. fin
BY DEF get_timeout, MinOf, RandLen, TypeOK

\* The Boolean and control conjuncts of TypeOK, and the data conjuncts.
TypeFlags ==
    /\ workQueued \in BOOLEAN
    /\ workRunning \in BOOLEAN
    /\ workCanceling \in BOOLEAN
    /\ counterOn \in BOOLEAN
    /\ ctl \in {"running", "stopping", "stopped"}

TypeData ==
    /\ rbuf \in [Pos -> ByteStates]
    /\ getPos \in Pos
    /\ fin \in 0 .. BufSize
    /\ claimed \in 0 .. BufSize
    /\ fin + claimed <= BufSize
    /\ workLen \in 0 .. claimed

LEMMA TypeSplit == TypeOK <=> TypeFlags /\ TypeData
BY Zenon DEF TypeOK, TypeFlags, TypeData

LEMMA InitTypeOK == Init => TypeOK
<1> SUFFICES ASSUME Init PROVE TypeFlags /\ TypeData
  BY TypeSplit
<1>1. TypeFlags
  BY Zenon DEF Init, TypeFlags
<1>2. TypeData
  BY DEF Init, TypeData, Pos, ByteStates
<1> QED
  BY <1>1, <1>2

\* Every step keeps the flags well typed.
LEMMA NextTypeFlags == TypeFlags /\ [Next]_vars => TypeFlags'
<1> SUFFICES ASSUME TypeFlags, [Next]_vars PROVE TypeFlags'
  OBVIOUS
<1>1. CASE rng_pool_work_handler_claim
  BY <1>1, Zenon DEF rng_pool_work_handler_claim, TypeFlags
<1>2. CASE rng_pool_work_handler_finish
  BY <1>2, Zenon DEF rng_pool_work_handler_finish, WorkReturns, TypeFlags
<1>3. CASE rng_pool_work_handler_retry
  BY <1>3, Zenon DEF rng_pool_work_handler_retry, WorkReturns, k_work_submit, TypeFlags
<1>4. CASE counter_alarm_callback
  BY <1>4, Zenon DEF counter_alarm_callback, k_work_submit, TypeFlags
<1>5. CASE busy_sim_start
  BY <1>5, Zenon DEF busy_sim_start, k_work_submit, TypeFlags
<1>6. CASE busy_sim_stop_cancel
  BY <1>6, Zenon DEF busy_sim_stop_cancel, TypeFlags
<1>7. CASE busy_sim_stop_counter
  BY <1>7, Zenon DEF busy_sim_stop_counter, TypeFlags
<1>8. CASE UNCHANGED vars
  BY <1>8, Zenon DEF vars, TypeFlags
<1> QED
  BY <1>1, <1>2, <1>3, <1>4, <1>5, <1>6, <1>7, <1>8 DEF Next

\* Every step keeps the ring buffer's indices and bytes well typed.
LEMMA NextTypeData == TypeOK /\ [Next]_vars => TypeData'
<1> SUFFICES ASSUME TypeOK, [Next]_vars PROVE TypeData'
  OBVIOUS
<1>0. TypeData
  BY TypeSplit
<1> USE <1>0
<1>1. CASE rng_pool_work_handler_claim
  <2>1. ring_buf_put_claim(ClaimReq) \in 0 .. BufSize - (fin + claimed)
    BY ClaimRange
  <2> QED
    BY <1>1, <2>1 DEF rng_pool_work_handler_claim, TypeData
<1>2. CASE rng_pool_work_handler_finish
  BY <1>2 DEF rng_pool_work_handler_finish, WorkReturns, PutFinishLen, TypeData, ByteStates
<1>3. CASE rng_pool_work_handler_retry
  BY <1>3 DEF rng_pool_work_handler_retry, WorkReturns, TypeData
<1>4. CASE counter_alarm_callback
  <2> DEFINE idle   == get_timeout(fin)
             active == get_timeout(fin - idle.len)
             n      == idle.len + active.len
  <2>1. n \in 0 .. fin
    BY AlarmRange
  <2>2. (getPos + n) % BufSize \in Pos
    <3>1. getPos + n \in Nat
      BY <2>1 DEF TypeData, Pos
    <3> QED
      BY <3>1, ModPos
  <2> QED
    BY <1>4, <2>1, <2>2 DEF counter_alarm_callback, TypeData, ByteStates, n, idle, active
<1>5. CASE busy_sim_start \/ busy_sim_stop_cancel \/ busy_sim_stop_counter
  BY <1>5 DEF busy_sim_start, busy_sim_stop_cancel, busy_sim_stop_counter, TypeData
<1>6. CASE UNCHANGED vars
  BY <1>6 DEF vars, TypeData
<1> QED
  BY <1>1, <1>2, <1>3, <1>4, <1>5, <1>6 DEF Next

LEMMA NextTypeOK == TypeOK /\ [Next]_vars => TypeOK'
<1> SUFFICES ASSUME TypeOK, [Next]_vars PROVE TypeFlags' /\ TypeData'
  BY TypeSplit, Zenon DEF TypeOK, TypeFlags, TypeData
<1> QED
  BY TypeSplit, NextTypeFlags, NextTypeData

\* Every reachable state of the busy simulator is well typed (TypeOK) for
\* every buffer size, whether or not the entropy driver fails: the claim
\* never grants more than the free space of rnd_rbuf, the alarm callback
\* never takes more than is published, and a claim abandoned by a failed
\* handler still counts against the free space.
THEOREM TypeCorrect == Spec => []TypeOK
BY InitTypeOK, NextTypeOK, PTL DEF Spec

-----------------------------------------------------------------------------
(***************************************************************************)
(* Fresh entropy.  Indices into rnd_buf stay below twice its size, so      *)
(* each reduction modulo BufSize subtracts it at most once.                *)
(***************************************************************************)

\* Two offsets below the buffer size from the same position land on
\* distinct bytes.
LEMMA ModInj ==
    ASSUME NEW g \in Pos, NEW i \in 0 .. BufSize - 1, NEW j \in 0 .. BufSize - 1,
           (g + i) % BufSize = (g + j) % BufSize
    PROVE  i = j
BY DEF Pos

\* The bytes rng_pool_work_handler fills: the w claimed bytes after f
\* published ones from position g are the span that ends at put_head.
LEMMA SpanHit ==
    ASSUME NEW g \in Pos, NEW f \in Nat, NEW w \in Nat, f + w <= BufSize,
           NEW i \in f .. f + w - 1
    PROVE  (g + i) % BufSize \in Span((((g + f + w) % BufSize) + BufSize - w) % BufSize, w)
<1>1. PICK h \in 0 .. BufSize - 1 :
        /\ h = (g + f + w) % BufSize
        /\ h = IF g + f + w < BufSize THEN g + f + w ELSE g + f + w - BufSize
  BY DEF Pos
<1>2. PICK st \in 0 .. BufSize - 1 :
        /\ st = (h + BufSize - w) % BufSize
        /\ st = IF h + BufSize - w < BufSize THEN h + BufSize - w ELSE h - w
  BY <1>1
<1>3. st = (g + f) % BufSize
  <2>1. CASE g + f + w < BufSize
    BY <1>1, <1>2, <2>1 DEF Pos
  <2>2. CASE g + f + w >= BufSize
    BY <1>1, <1>2, <2>2 DEF Pos
  <2> QED
    BY <2>1, <2>2 DEF Pos
<1>4. (st + (i - f)) % BufSize = (g + i) % BufSize
  <2>1. CASE g + f < BufSize
    <3>1. st = g + f
      BY <1>3, <2>1 DEF Pos
    <3> QED
      BY <3>1 DEF Pos
  <2>2. CASE g + f >= BufSize
    <3>1. st = g + f - BufSize
      BY <1>3, <2>2 DEF Pos
    <3>2. (g + i) % BufSize = g + i - BufSize
      BY <2>2 DEF Pos
    <3>3. (st + (i - f)) % BufSize = g + i - BufSize
      BY <3>1 DEF Pos
    <3> QED
      BY <3>2, <3>3
  <2> QED
    BY <2>1, <2>2 DEF Pos
<1>5. i - f \in 0 .. w - 1
  OBVIOUS
<1> QED
  BY <1>1, <1>2, <1>4, <1>5 DEF Span

\* The bytes the alarm callback leaves published: after it takes n bytes
\* from position g, the i-th byte from the new position is the (n + i)-th
\* from g, and no byte it took.
LEMMA AlarmShift ==
    ASSUME NEW g \in Pos, NEW n \in Nat, NEW i \in Nat, n + i <= BufSize - 1
    PROVE  /\ (((g + n) % BufSize) + i) % BufSize = (g + (n + i)) % BufSize
           /\ (g + (n + i)) % BufSize \notin Span(g, n)
<1>1. (g + n) % BufSize = IF g + n < BufSize THEN g + n ELSE g + n - BufSize
  BY DEF Pos
<1>2. (((g + n) % BufSize) + i) % BufSize = (g + (n + i)) % BufSize
  <2>1. CASE g + n < BufSize
    BY <1>1, <2>1 DEF Pos
  <2>2. CASE g + n >= BufSize
    <3>1. ((g + n) % BufSize) + i = g + n + i - BufSize
      BY <1>1, <2>2 DEF Pos
    <3>2. (g + n + i - BufSize) % BufSize = g + n + i - BufSize
      BY <2>2 DEF Pos
    <3>3. (g + (n + i)) % BufSize = g + n + i - BufSize
      BY <2>2 DEF Pos
    <3> QED
      BY <3>1, <3>2, <3>3
  <2> QED
    BY <2>1, <2>2 DEF Pos
<1>3. \A j \in 0 .. n - 1 : (g + j) % BufSize # (g + (n + i)) % BufSize
  BY ModInj
<1> QED
  BY <1>2, <1>3 DEF Span

LEMMA InitFreshInv == Init => FreshInv
BY InitTypeOK DEF Init, FreshInv, ClaimInv, FreshPublished

\* With an entropy driver that does not fail, every step preserves FreshInv.
LEMMA NextFreshInv ==
    ASSUME ~EntropyMayFail, FreshInv, [Next]_vars
    PROVE  FreshInv'
<1>1. TypeOK /\ TypeData /\ ClaimInv /\ FreshPublished
  BY TypeSplit DEF FreshInv
<1> USE <1>1
<1>2. TypeOK'
  BY NextTypeOK
<1>3. ClaimInv'
  <2>1. CASE rng_pool_work_handler_claim
    <3>1. ~workRunning /\ workRunning'
      BY <2>1, Zenon DEF rng_pool_work_handler_claim
    <3>2. claimed = 0
      BY <3>1 DEF ClaimInv
    <3>3. claimed' = workLen'
      BY <2>1, <3>2, ClaimRange DEF rng_pool_work_handler_claim
    <3> QED
      BY <3>1, <3>3, Zenon DEF ClaimInv
  <2>2. CASE rng_pool_work_handler_finish
    BY <2>2 DEF rng_pool_work_handler_finish, WorkReturns, ClaimInv
  <2>3. CASE rng_pool_work_handler_retry
    <3>1. workRunning /\ workLen = 0
      BY <2>3 DEF rng_pool_work_handler_retry
    <3> QED
      BY <2>3, <3>1 DEF rng_pool_work_handler_retry, WorkReturns, ClaimInv
  <2>4. CASE ~rng_pool_work_handler_claim /\ ~rng_pool_work_handler_finish
             /\ ~rng_pool_work_handler_retry
    <3>1. UNCHANGED <<workRunning, claimed, workLen>>
      BY <2>4 DEF Next, counter_alarm_callback, busy_sim_start, busy_sim_stop_cancel,
                  busy_sim_stop_counter, vars
    <3> QED
      BY <3>1 DEF ClaimInv
  <2> QED
    BY <2>1, <2>2, <2>3, <2>4
<1>4. FreshPublished'
  <2>1. CASE rng_pool_work_handler_finish
    <3>1. claimed = workLen
      BY <2>1 DEF rng_pool_work_handler_finish, ClaimInv
    <3> SUFFICES ASSUME NEW i \in 0 .. fin' - 1
                 PROVE  rbuf'[(getPos' + i) % BufSize] = "fresh"
      BY DEF FreshPublished
    <3>2. fin' = fin + workLen /\ getPos' = getPos
      BY <2>1 DEF rng_pool_work_handler_finish, PutFinishLen
    <3>3. (getPos + i) % BufSize \in Pos
      BY <3>2, ModPos DEF TypeData, Pos
    <3>4. CASE i < fin
      BY <2>1, <3>2, <3>3, <3>4 DEF rng_pool_work_handler_finish, FreshPublished, TypeData
    <3>5. CASE i >= fin
      <4>1. (getPos + i) % BufSize
              \in Span((((getPos + fin + workLen) % BufSize) + BufSize - workLen) % BufSize, workLen)
        BY <3>2, <3>5, SpanHit DEF TypeData
      <4> QED
        BY <2>1, <3>1, <3>2, <3>3, <4>1 DEF rng_pool_work_handler_finish, PutHeadPos
    <3> QED
      BY <3>4, <3>5 DEF TypeData
  <2>2. CASE counter_alarm_callback
    <3> DEFINE idle   == get_timeout(fin)
               active == get_timeout(fin - idle.len)
               n      == idle.len + active.len
    <3>1. n \in 0 .. fin
      BY AlarmRange
    <3>2. /\ rbuf' = [p \in Pos |-> IF p \in Span(getPos, n) THEN "stale" ELSE rbuf[p]]
          /\ getPos' = (getPos + n) % BufSize
          /\ fin' = fin - n
      BY <2>2 DEF counter_alarm_callback, n, idle, active
    <3> SUFFICES ASSUME NEW i \in 0 .. fin' - 1
                 PROVE  rbuf'[(getPos' + i) % BufSize] = "fresh"
      BY DEF FreshPublished
    <3>3. n + i \in 0 .. fin - 1
      BY <3>1, <3>2 DEF TypeData
    <3>4. /\ (((getPos + n) % BufSize) + i) % BufSize = (getPos + (n + i)) % BufSize
          /\ (getPos + (n + i)) % BufSize \notin Span(getPos, n)
      BY <3>1, <3>3, AlarmShift DEF TypeData
    <3>5. (getPos + (n + i)) % BufSize \in Pos
      <4>1. getPos + (n + i) \in Nat
        BY <3>3 DEF TypeData, Pos
      <4> QED
        BY <4>1, ModPos
    <3>6. rbuf[(getPos + (n + i)) % BufSize] = "fresh"
      BY <3>3 DEF FreshPublished
    <3> QED
      BY <3>2, <3>4, <3>5, <3>6
  <2>3. CASE ~rng_pool_work_handler_finish /\ ~counter_alarm_callback
    <3>1. UNCHANGED <<rbuf, getPos, fin>>
      BY <2>3 DEF Next, rng_pool_work_handler_claim, rng_pool_work_handler_retry,
                  busy_sim_start, busy_sim_stop_cancel, busy_sim_stop_counter, vars
    <3> QED
      BY <3>1 DEF FreshPublished
  <2> QED
    BY <2>1, <2>2, <2>3
<1> QED
  BY <1>2, <1>3, <1>4 DEF FreshInv

\* With an entropy driver that does not fail, every byte get_timeout reads
\* from rnd_rbuf is fresh entropy (FreshPublished), for every buffer size:
\* rng_pool_work_handler publishes from put_tail exactly the bytes it had
\* entropy_get_entropy fill from put_head, because no earlier claim is left
\* unfinished between them, and counter_alarm_callback consumes what it
\* reads.  When the driver may fail the property does not hold: the next
\* successful handler publishes the bytes of the claim a failed one left
\* behind (TLC finds this with a 4-byte buffer; the busysim_wedge finding).
THEOREM FreshSafe ==
    ASSUME ~EntropyMayFail
    PROVE  Spec => []FreshPublished
<1>1. FreshInv => FreshPublished
  BY DEF FreshInv
<1>2. FreshInv /\ [Next]_vars => FreshInv'
  BY NextFreshInv
<1> QED
  BY <1>1, <1>2, InitFreshInv, PTL DEF Spec

=============================================================================
