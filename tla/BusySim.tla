------------------------------- MODULE BusySim -------------------------------
(***************************************************************************)
(* The busy simulator of the Zephyr test suite (busy_sim.c).  A counter    *)
(* alarm fires periodically; its callback (an ISR) burns CPU for a random  *)
(* time and re-arms the alarm.  The random numbers come from a ring buffer *)
(* that a work item, run by the system work queue thread, refills from the *)
(* entropy driver.  A test thread starts and stops the simulator.          *)
(*                                                                         *)
(* Three actors interleave: the test thread (busy_sim_start, and           *)
(* busy_sim_stop in its two calls), the work queue thread running          *)
(* rng_pool_work_handler (the ring buffer claim, then the entropy call and *)
(* the finish or the resubmission), and the alarm ISR                      *)
(* counter_alarm_callback, which is atomic with respect to both threads.   *)
(*                                                                         *)
(* The timeout arithmetic is abstracted away: what matters is how many     *)
(* bytes each get_timeout takes and whether it resubmits the work.  The    *)
(* ring buffer is modelled by its indices and, per byte, whether it holds  *)
(* fresh entropy or a stale value; the work item by the flags that         *)
(* k_work_submit and k_work_cancel act on.                                 *)
(***************************************************************************)
EXTENDS Naturals

CONSTANTS
    BufSize,         \* BUFFER_SIZE: size of rnd_buf in bytes
    EntropyMayFail   \* whether entropy_get_entropy may return an error

ASSUME BufSizeAssumption == BufSize \in Nat /\ BufSize >= 2
ASSUME EntropyAssumption == EntropyMayFail \in BOOLEAN

VARIABLES
    rbuf,           \* each byte of rnd_buf: "fresh" entropy or "stale"
    getPos,         \* get_tail of rnd_rbuf, modulo BufSize
    fin,            \* put_tail - get_tail: bytes published to the reader
    claimed,        \* put_head - put_tail: bytes claimed but not finished
    workQueued,     \* K_WORK_QUEUED of data->work
    workRunning,    \* K_WORK_RUNNING of data->work
    workCanceling,  \* K_WORK_CANCELING of data->work
    workLen,        \* the local len of the running rng_pool_work_handler
    counterOn,      \* whether the counter runs, so that the alarm fires
    ctl             \* the test thread: "stopped", "running", or "stopping"
                    \* between k_work_cancel and counter_stop

vars == <<rbuf, getPos, fin, claimed, workQueued, workRunning, workCanceling,
          workLen, counterOn, ctl>>

Pos == 0 .. BufSize - 1
ByteStates == {"fresh", "stale"}
RandLen == 2                        \* sizeof(rand_val)
MinOf(a, b) == IF a <= b THEN a ELSE b

\* The len requested from ring_buf_put_claim by the work handler.
ClaimReq == BufSize - 1

\* Positions of put_tail and put_head in rnd_buf.
PutTailPos == (getPos + fin) % BufSize
PutHeadPos == (getPos + fin + claimed) % BufSize

\* The n positions of rnd_buf starting at position p.
Span(p, n) == {(p + i) % BufSize : i \in 0 .. n - 1}

(***************************************************************************)
(* The contracts of the kernel services the simulator uses.               *)
(***************************************************************************)

\* ring_buf_put_claim grants at most the free space and at most the space
\* before the end of rnd_buf.  Space claimed stays claimed until
\* ring_buf_put_finish, which publishes its argument and releases the rest.
ring_buf_put_claim(req) ==
    MinOf(MinOf(req, BufSize - (fin + claimed)), BufSize - PutHeadPos)

\* k_work_submit queues the item unless it is being cancelled, in which case
\* it returns -EBUSY and leaves it alone.  Submitting a queued item is a no-op.
k_work_submit == workQueued' = (workQueued \/ ~workCanceling)

\* Returning from a handler: the work queue clears RUNNING, which completes a
\* pending cancellation.
WorkReturns == workRunning' = FALSE /\ workCanceling' = FALSE /\ workLen' = 0

(***************************************************************************)
(* The simulator.                                                          *)
(***************************************************************************)

\* busy_sim_init: the work item initialised, the ring buffer empty (its
\* static storage zero, so no byte holds entropy), the counter stopped.
Init ==
    /\ rbuf = [p \in Pos |-> "stale"]
    /\ getPos = 0
    /\ fin = 0
    /\ claimed = 0
    /\ workQueued = FALSE
    /\ workRunning = FALSE
    /\ workCanceling = FALSE
    /\ workLen = 0
    /\ counterOn = FALSE
    /\ ctl = "stopped"

\* get_timeout reading from a buffer that publishes avail bytes: ring_buf_get
\* takes at most sizeof(rand_val) bytes; a short read submits the work.
get_timeout_nosubmit(avail) ==
    [len |-> MinOf(RandLen, avail), submit |-> FALSE]
get_timeout(avail) ==
    [len |-> MinOf(RandLen, avail), submit |-> avail < RandLen]

\* rng_pool_work_handler up to the claim: the work queue thread takes the
\* item off the queue and the handler claims space in rnd_rbuf.
rng_pool_work_handler_claim ==
    /\ workQueued
    /\ ~workRunning
    /\ workQueued' = FALSE
    /\ workRunning' = TRUE
    /\ workLen' = ring_buf_put_claim(ClaimReq)
    /\ claimed' = claimed + ring_buf_put_claim(ClaimReq)
    /\ UNCHANGED <<rbuf, getPos, fin, workCanceling, counterOn, ctl>>

\* The len passed to ring_buf_put_finish.
PutFinishLen_req == ClaimReq
PutFinishLen == workLen

rng_pool_work_handler_finish_short ==
    /\ workRunning
    /\ workLen > 0
    /\ rbuf' = [p \in Pos |->
                  IF p \in Span((PutHeadPos + BufSize - workLen) % BufSize, workLen - 1)
                  THEN "fresh" ELSE rbuf[p]]
    /\ fin' = fin + PutFinishLen
    /\ claimed' = 0
    /\ WorkReturns
    /\ UNCHANGED <<getPos, workQueued, counterOn, ctl>>

\* The rest of the handler when the claim got space and the entropy driver
\* filled it: the claimed bytes hold fresh entropy, ring_buf_put_finish
\* publishes len bytes from put_tail, and the handler returns.
rng_pool_work_handler_finish ==
    /\ workRunning
    /\ workLen > 0
    /\ rbuf' = [p \in Pos |->
                  IF p \in Span((PutHeadPos + BufSize - workLen) % BufSize, workLen)
                  THEN "fresh" ELSE rbuf[p]]
    /\ fin' = fin + PutFinishLen
    /\ claimed' = 0
    /\ WorkReturns
    /\ UNCHANGED <<getPos, workQueued, counterOn, ctl>>

\* The rest of the handler when the claim got no space or the entropy driver
\* failed: the handler resubmits the work and returns, the claim unfinished.
rng_pool_work_handler_retry ==
    /\ workRunning
    /\ workLen = 0 \/ EntropyMayFail
    /\ k_work_submit
    /\ WorkReturns
    /\ UNCHANGED <<rbuf, getPos, fin, claimed, counterOn, ctl>>

\* The alarm ISR: get_timeout(true) for the next alarm, get_timeout(false)
\* for the busy wait, then the alarm is set again.  Bytes read are stale.
counter_alarm_callback ==
    /\ counterOn
    /\ LET idle   == get_timeout(fin)
           active == get_timeout(fin - idle.len)
           n      == idle.len + active.len
       IN /\ rbuf' = [p \in Pos |-> IF p \in Span(getPos, n) THEN "stale" ELSE rbuf[p]]
          /\ getPos' = (getPos + n) % BufSize
          /\ fin' = fin - n
          /\ IF idle.submit \/ active.submit THEN k_work_submit
                                             ELSE UNCHANGED workQueued
    /\ UNCHANGED <<claimed, workRunning, workCanceling, workLen, counterOn, ctl>>

\* busy_sim_start: submit the work, set the alarm and start the counter.
busy_sim_start ==
    /\ ctl = "stopped"
    /\ k_work_submit
    /\ counterOn' = TRUE
    /\ ctl' = "running"
    /\ UNCHANGED <<rbuf, getPos, fin, claimed, workRunning, workCanceling, workLen>>

\* busy_sim_stop, first call: k_work_cancel takes the item off the queue and,
\* if its handler is running, marks it as being cancelled.
busy_sim_stop_cancel ==
    /\ ctl = "running"
    /\ workQueued' = FALSE
    /\ workCanceling' = (workCanceling \/ workRunning)
    /\ ctl' = "stopping"
    /\ UNCHANGED <<rbuf, getPos, fin, claimed, workRunning, workLen, counterOn>>

\* busy_sim_stop, second call: counter_stop.
busy_sim_stop_counter ==
    /\ ctl = "stopping"
    /\ counterOn' = FALSE
    /\ ctl' = "stopped"
    /\ UNCHANGED <<rbuf, getPos, fin, claimed, workQueued, workRunning,
                   workCanceling, workLen>>

Next ==
    \/ rng_pool_work_handler_claim
    \/ rng_pool_work_handler_finish
    \/ rng_pool_work_handler_retry
    \/ counter_alarm_callback
    \/ busy_sim_start
    \/ busy_sim_stop_cancel
    \/ busy_sim_stop_counter

(***************************************************************************)
(* Fairness.  The counter hardware fires the alarm while it runs, and the  *)
(* work queue thread runs what is queued and lets a handler return.  The   *)
(* entropy driver may fail, but not for ever: a handler that has space to  *)
(* fill infinitely often eventually fills it.  The test thread is not fair: *)
(* it may keep the simulator running or stopped for ever.                  *)
(***************************************************************************)
Fairness ==
    /\ WF_vars(counter_alarm_callback)
    /\ WF_vars(rng_pool_work_handler_claim)
    /\ WF_vars(rng_pool_work_handler_finish \/ rng_pool_work_handler_retry)
    /\ SF_vars(rng_pool_work_handler_finish)

Spec == Init /\ [][Next]_vars /\ Fairness

(***************************************************************************)
(* Properties                                                              *)
(***************************************************************************)

\* Type invariant: the ring buffer's published and claimed bytes fit in it.
TypeOK ==
    /\ rbuf \in [Pos -> ByteStates]
    /\ getPos \in Pos
    /\ fin \in 0 .. BufSize
    /\ claimed \in 0 .. BufSize
    /\ fin + claimed <= BufSize
    /\ workQueued \in BOOLEAN
    /\ workRunning \in BOOLEAN
    /\ workCanceling \in BOOLEAN
    /\ workLen \in 0 .. claimed
    /\ counterOn \in BOOLEAN
    /\ ctl \in {"running", "stopping", "stopped"}

\* While the simulator runs, a ring buffer too short for the next rand_val is
\* eventually refilled: the alarm callback's resubmission of
\* rng_pool_work_handler, and the handler's own retries, lead to a finished
\* refill (or the test stops the simulator).
RefillProgress ==
    (ctl = "running" /\ fin < RandLen) ~> (fin >= RandLen \/ ctl # "running")

\* Every byte the ring buffer publishes to get_timeout was written by the
\* entropy driver and not read before: rng_pool_work_handler publishes only
\* what entropy_get_entropy filled.
FreshPublished ==
    \A i \in 0 .. fin - 1 : rbuf[(getPos + i) % BufSize] = "fresh"

\* The k_work_submit of busy_sim_start never fails, which the assertion
\* after it (err >= 0) requires: a start never finds the work item still
\* being cancelled by the previous busy_sim_stop.
StartSubmitOk ==
    [][busy_sim_start => ~workCanceling]_vars

=============================================================================
