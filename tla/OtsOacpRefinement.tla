------------------------- MODULE OtsOacpRefinement -------------------------
(***************************************************************************)
(* OtsOacp, with a conforming client, implements ObjectTransfer under the  *)
(* refinement mapping Transfer of OtsOacp, for every allocation, SDU size  *)
(* and size_t width.  The step mapping needs more than SizeBoundInv: the   *)
(* channel's receive callback never runs during a Read, since a conforming *)
(* client sends data only for an accepted Write (NoWriterDuringRead).  The *)
(* invariant also carries WriteCoversProgress, which the step mapping does *)
(* not need but CoversSafe states.                                         *)
(***************************************************************************)
EXTENDS OtsOacpProofs

USE AllocAssumption, MaxSduAssumption, SizeModAssumption, MaxIndAssumption,
    FlagsAssumption, ClientOpsAssumption

\* No Write data is on its way while the object is being read: the client
\* sends data only after its Write was accepted, and a Read is accepted
\* only while the client awaits nothing.
NoWriterDuringRead ==
    (cPhase = "writing" \/ (indQueue # <<>> /\ Head(indQueue) = WriteAccepted))
        => objState # "READ_OP"

\* The invariant the step mapping rests on.
RefInv == SizeBoundInv /\ WriteCoversProgress /\ NoWriterDuringRead

\* The size_t arithmetic of oacp_write_proc_cb, exactly: when the received
\* count rl is within the declared length ol, the range lies inside the
\* allocation and the sink accepted acc bytes, no sum wraps.
LEMMA WriteExact ==
    ASSUME NEW off \in Params, NEW rl \in 0..(SizeMod - 1), NEW ol \in Params,
           off + ol <= Alloc, rl <= ol,
           NEW len \in 0..(ol - rl), NEW rc \in {-1} \cup 0..len
    PROVE  LET acc == IF rc < 0 THEN 0 ELSE rc
           IN  /\ acc \in 0..(ol - rl)
               /\ (rl + acc) % SizeMod = rl + acc
               /\ (((off + rl) % SizeMod) + acc) % SizeMod = off + rl + acc
<1> DEFINE acc == IF rc < 0 THEN 0 ELSE rc
<1>1. acc \in 0..(ol - rl)
  <2>1. CASE rc = -1
    BY <2>1 DEF Params, acc
  <2>2. CASE rc \in 0..len
    BY <2>2 DEF Params, acc
  <2> QED
    BY <2>1, <2>2
<1>2. /\ rl + acc \in 0..(SizeMod - 1)
      /\ off + rl \in 0..(SizeMod - 1)
      /\ off + rl + acc \in 0..(SizeMod - 1)
  <2>1. acc \in Nat /\ rl + acc <= ol
    BY <1>1 DEF Params
  <2>2. Alloc < SizeMod
    OBVIOUS
  <2> QED
    BY <2>1, <2>2 DEF Params
<1>3. /\ (rl + acc) % SizeMod = rl + acc
      /\ (off + rl) % SizeMod = off + rl
      /\ (off + rl + acc) % SizeMod = off + rl + acc
  BY <1>2, ModSmall
<1> QED
  BY <1>1, <1>3

\* Init establishes the invariant.
LEMMA InitRefInv == Init => RefInv
BY InitSizeBound DEF Init, RefInv, WriteCoversProgress, NoWriterDuringRead

\* oacp_read_proc_cb only ever releases the object.
LEMMA ReadCbState ==
    ASSUME NEW busy, oacp_read_proc_cb(busy)
    PROVE  objState' \in {objState, "IDLE"}
<1>1. CASE sentLen >= opLen
  BY <1>1 DEF oacp_read_proc_cb
<1>2. CASE ~(sentLen >= opLen)
  <2>1. PICK len \in ReadResults(ReadRequest) :
          IF len < 0
          THEN objState' = "IDLE"
          ELSE \/ UNCHANGED objState
               \/ objState' = "IDLE"
    BY <1>2 DEF oacp_read_proc_cb
  <2> QED
    BY <2>1
<1> QED
  BY <1>1, <1>2

\* oacp_write_proc_cb with a bound sink, for an SDU of a conforming client
\* while the received count is within the declared length: the sink takes
\* acc bytes of what is left (none when it fails), the count grows by acc,
\* the size covers the end of the bytes written, and the object stays in
\* its state only when the declared length is not complete; it is released
\* otherwise, or when the sink's short or failed write takes the channel
\* down (fail).
LEMMA WriteCbExact ==
    ASSUME TypeFlags, TypeData, SizeBoundRest, recvLen <= opLen, NEW n \in 1..MaxSdu,
           CurObjSelected, HasWriteCb, oacp_write_proc_cb(n)
    PROVE  \E acc \in 0..(opLen - recvLen), fail \in BOOLEAN :
              /\ recvLen' = recvLen + acc
              /\ sizeCur' = SizeAfterWrite(opOffset + recvLen + acc)
              /\ objState' = IF fail \/ recvLen + acc = opLen THEN "IDLE" ELSE objState
<1>1. opOffset + opLen <= Alloc
  BY DEF SizeBoundRest
<1>2. PICK rc \in SinkResults(WriteChunkLen(n)) : WriteSink(n, rc)
  BY DEF oacp_write_proc_cb
<1>3. WriteChunkLen(n) \in 0..(opLen - recvLen)
  BY ChunkLenRange DEF WriteChunkLen, TypeData
<1>4. rc \in {-1} \cup 0..WriteChunkLen(n)
  BY <1>3, SinkRange
<1> DEFINE acc == IF rc < 0 THEN 0 ELSE rc
           st == IF rc < 0 \/ (recvLen + acc) % SizeMod = opLen THEN "IDLE" ELSE objState
<1>5. /\ acc \in 0..(opLen - recvLen)
      /\ (recvLen + acc) % SizeMod = recvLen + acc
      /\ (((opOffset + recvLen) % SizeMod) + acc) % SizeMod = opOffset + recvLen + acc
  BY <1>1, <1>3, <1>4, WriteExact DEF TypeData
<1>6. /\ recvLen' = (recvLen + acc) % SizeMod
      /\ sizeCur' = SizeAfterWrite((((opOffset + recvLen) % SizeMod) + acc) % SizeMod)
      /\ RecvDone(st) \/ RecvFailed(st)
  BY <1>2 DEF WriteSink, acc, st
<1>7. objState' \in {st, "IDLE"}
  BY <1>6, RecvState
<1>8. objState' # "IDLE" => objState' = objState /\ recvLen + acc # opLen
  BY <1>5, <1>7 DEF st
<1> QED
  <2>1. objState' = IF objState' = "IDLE" \/ recvLen + acc = opLen THEN "IDLE" ELSE objState
    BY <1>8
  <2> QED
    BY <1>5, <1>6, <2>1

\* The conjuncts RefInv adds to SizeBoundInv.
RefRest == WriteCoversProgress /\ NoWriterDuringRead

\* An accepted Write starts at an offset inside the object, on an Idle
\* object; an accepted Read runs on an Idle object.
LEMMA AcceptIdle ==
    ASSUME TypeData, NEW off \in Params, NEW len, NEW mode
    PROVE  /\ oacp_write_proc_validate(off, len, mode) = "SUCCESS"
                 => off <= sizeCur /\ objState = "IDLE"
           /\ oacp_read_proc_validate(off, len) = "SUCCESS" => objState = "IDLE"
BY DEF oacp_write_proc_validate, oacp_read_proc_validate, TypeData, Params

\* For a conforming client, bt_gatt_ots_oacp_write preserves RefRest.
LEMMA WriteRefRest ==
    ASSUME ConformingClient, TypeData, SizeBoundRest, RefRest, bt_gatt_ots_oacp_write
    PROVE  RefRest'
<1>1. cPhase = "idle"
  BY Zenon DEF bt_gatt_ots_oacp_write, ClientGuard
<1>2. indQueue = <<>> /\ UNCHANGED sizeCur
  BY <1>1 DEF SizeBoundRest, bt_gatt_ots_oacp_write
<1>3. PICK op \in ClientOps, off \in Params, len \in Params,
           mode \in SUBSET ModeBits, exactLen \in BOOLEAN, queued \in IndicateOutcomes :
           LET res == OacpStatus(op, off, len, mode) IN
           /\ IF res = "SUCCESS" /\ op = "READ" THEN ReadAccept(off, len)
              ELSE IF res = "SUCCESS" THEN WriteAccept(off, len)
              ELSE UNCHANGED <<objState, opOffset, opLen, sentLen, recvLen, rxDone, closedCb>>
           /\ oacp_ind_send(op, res, queued)
  BY DEF bt_gatt_ots_oacp_write
<1> DEFINE res == OacpStatus(op, off, len, mode)
<1>4. cPhase' = "await"
  BY DEF bt_gatt_ots_oacp_write
<1>5. indQueue' = IF queued THEN <<[op |-> op, res |-> res]>> ELSE <<>>
  <2>1. queued \in BOOLEAN
    BY DEF IndicateOutcomes
  <2> QED
    BY <1>2, <1>3, <2>1 DEF oacp_ind_send
<1>6. (indQueue' # <<>> /\ Head(indQueue') = WriteAccepted) => res = "SUCCESS" /\ op = "WRITE"
  BY <1>5 DEF WriteAccepted
<1>7. CASE res = "SUCCESS" /\ op = "READ"
  BY <1>3, <1>4, <1>6, <1>7 DEF ReadAccept, RefRest, WriteCoversProgress, NoWriterDuringRead
<1>8. CASE res = "SUCCESS" /\ op # "READ"
  <2>1. oacp_write_proc_validate(off, len, mode) = "SUCCESS"
    BY <1>8, StatusSuccess
  <2>2. off <= sizeCur
    BY <2>1, AcceptIdle
  <2> QED
    BY <1>2, <1>3, <1>8, <2>2 DEF WriteAccept, RefRest, WriteCoversProgress,
                                  NoWriterDuringRead, Params
<1>9. CASE res # "SUCCESS"
  BY <1>2, <1>3, <1>4, <1>6, <1>9 DEF RefRest, WriteCoversProgress, NoWriterDuringRead
<1> QED
  BY <1>7, <1>8, <1>9

\* For a conforming client every step preserves RefInv.
LEMMA NextRefInv ==
    ASSUME ConformingClient, RefInv, [Next]_vars
    PROVE  RefInv'
<1>1. TypeOK /\ TypeFlags /\ TypeData /\ SizeBoundRest /\ RefRest
  BY SizeBoundSplit, TypeSplit DEF RefInv, RefRest
<1>2. SizeBoundInv'
  BY NextSizeBound DEF RefInv
<1>3. RefRest'
  <2> USE <1>1
  <2>1. CASE bt_gatt_ots_oacp_write
    BY <2>1, WriteRefRest
  <2>2. CASE oacp_ind_cb
    <3>1. indQueue' = <<>>
      BY <2>2 DEF oacp_ind_cb, SizeBoundRest, TypeData
    <3>2. cPhase' = "writing" => Head(indQueue) = WriteAccepted /\ indQueue # <<>>
      <4>1. indQueue # <<>> /\ Head(indQueue) \in Response
        BY <2>2 DEF oacp_ind_cb, TypeData
      <4>2. cPhase' = "writing" => Head(indQueue).op = "WRITE" /\ Head(indQueue).res = "SUCCESS"
        BY <2>2 DEF oacp_ind_cb, ClientOnResponse
      <4> QED
        BY <4>1, <4>2 DEF Response, WriteAccepted
    <3>3. objState' \in {objState, "IDLE"}
      <4>1. CASE CurObjSelected /\ objState = "READ_OP" /\ (DirListObj \/ HasReadCb)
        BY <2>2, <4>1, ReadCbState DEF oacp_ind_cb, oacp_read_proc_execute
      <4>2. CASE ~(CurObjSelected /\ objState = "READ_OP" /\ (DirListObj \/ HasReadCb))
        BY <2>2, <4>2 DEF oacp_ind_cb, oacp_read_proc_execute
      <4> QED
        BY <4>1, <4>2
    <3>4. UNCHANGED <<opOffset, opLen, recvLen, sizeCur>>
      BY <2>2 DEF oacp_ind_cb
    <3> QED
      BY <3>1, <3>2, <3>3, <3>4 DEF RefRest, WriteCoversProgress, NoWriterDuringRead
  <2>3. CASE L2capSent
    <3>1. cPhase' = "writing" => cPhase = "writing"
      BY <2>3 DEF L2capSent, ClientReceives, cliVars
    <3>2. objState' \in {objState, "IDLE"}
      BY <2>3, ReadCbState DEF L2capSent
    <3>3. UNCHANGED <<opOffset, opLen, recvLen, sizeCur, indQueue>>
      BY <2>3 DEF L2capSent
    <3> QED
      BY <3>1, <3>2, <3>3 DEF RefRest, WriteCoversProgress, NoWriterDuringRead
  <2>4. CASE L2capRecv
    <3>1. cPhase = "writing"
      BY <2>4, Zenon DEF L2capRecv, ClientGuard
    <3>2. indQueue = <<>> /\ recvLen <= opLen /\ objState # "READ_OP"
      BY <3>1 DEF SizeBoundRest, RefRest, NoWriterDuringRead
    <3>3. UNCHANGED <<opOffset, opLen, indQueue>> /\ objState' \in {objState, "IDLE"}
      BY <2>4, RecvStep
    <3>4. PICK n \in 1..MaxSdu :
            IF rxDone = "oacp_write_proc_cb"
            THEN oacp_write_proc_cb(n)
            ELSE UNCHANGED <<recvLen, sizeCur>>
      BY <2>4, RecvStep
    <3>5. /\ objState' \in {objState, "IDLE"}
          /\ objState' = "WRITE_OP" => opOffset + recvLen' <= sizeCur' /\ recvLen' <= opLen
      <4>1. CASE rxDone = "oacp_write_proc_cb" /\ CurObjSelected /\ HasWriteCb
        <5>1. PICK acc \in 0..(opLen - recvLen), fail \in BOOLEAN :
                /\ recvLen' = recvLen + acc
                /\ sizeCur' = SizeAfterWrite(opOffset + recvLen + acc)
                /\ objState' = IF fail \/ recvLen + acc = opLen THEN "IDLE" ELSE objState
          BY <3>2, <3>4, <4>1, WriteCbExact
        <5> QED
          BY <5>1 DEF SizeAfterWrite, TypeData, Params
      <4>2. CASE rxDone = "oacp_write_proc_cb" /\ ~(CurObjSelected /\ HasWriteCb)
        <5>1. UNCHANGED <<recvLen, sizeCur>>
          BY <3>4, <4>2, WriteCbState
        <5> QED
          BY <3>3, <5>1, <1>1 DEF RefRest, WriteCoversProgress
      <4>3. CASE rxDone # "oacp_write_proc_cb"
        BY <3>3, <3>4, <4>3, <1>1 DEF RefRest, WriteCoversProgress
      <4> QED
        BY <4>1, <4>2, <4>3
    <3> QED
      BY <3>2, <3>3, <3>5 DEF RefRest, WriteCoversProgress, NoWriterDuringRead
  <2>5. CASE L2capConnected
    BY <2>5 DEF L2capConnected, srvVars, cliVars, RefRest, WriteCoversProgress,
               NoWriterDuringRead
  <2>6. CASE L2capDisconnected
    <3>1. objState' \in {objState, "IDLE"}
      BY <2>6, ChannelDownState DEF L2capDisconnected
    <3> QED
      BY <2>6, <3>1 DEF L2capDisconnected, cliVars, RefRest, WriteCoversProgress,
                        NoWriterDuringRead
  <2>7. CASE ClientSeesClose
    BY <2>7 DEF ClientSeesClose, srvVars, RefRest, WriteCoversProgress, NoWriterDuringRead
  <2>8. CASE bt_gatt_ots_oacp_cfg_changed
    BY <2>8 DEF bt_gatt_ots_oacp_cfg_changed, cliVars, RefRest, WriteCoversProgress,
               NoWriterDuringRead
  <2>9. CASE UNCHANGED vars
    BY <2>9 DEF vars, srvVars, cliVars, RefRest, WriteCoversProgress, NoWriterDuringRead
  <2> QED
    BY <2>1, <2>2, <2>3, <2>4, <2>5, <2>6, <2>7, <2>8, <2>9 DEF Next
<1> QED
  BY <1>2, <1>3 DEF RefInv, RefRest

-----------------------------------------------------------------------------
(***************************************************************************)
(* The step mapping.                                                       *)
(***************************************************************************)

\* A step that returns the object to Idle and leaves its size alone is the
\* abstract Release, or a stutter when the object was Idle already.
LEMMA IdleStep ==
    ASSUME objState' = "IDLE", UNCHANGED sizeCur
    PROVE  [Transfer!Next]_Transfer!vars
<1>1. CASE objState = "IDLE"
  BY <1>1 DEF Transfer!vars, AbsOff, AbsLen, AbsDone
<1>2. CASE objState # "IDLE"
  <2>1. Transfer!Release
    BY <1>2 DEF Transfer!Release, Transfer!Released, AbsOff, AbsLen, AbsDone
  <2> QED
    BY <2>1 DEF Transfer!Next
<1> QED
  BY <1>1, <1>2

\* A step that leaves the object, its procedure's parameters and the
\* progress counter of its state alone is an abstract stutter.
LEMMA KeepStep ==
    ASSUME UNCHANGED <<objState, opOffset, opLen, sizeCur>>,
           objState = "READ_OP" => UNCHANGED sentLen,
           objState = "WRITE_OP" => UNCHANGED recvLen
    PROVE  UNCHANGED Transfer!vars
BY DEF Transfer!vars, AbsOff, AbsLen, AbsDone

\* bt_gatt_ots_oacp_write maps to StartRead, StartWrite or a stutter.
LEMMA WriteStep ==
    ASSUME TypeData, bt_gatt_ots_oacp_write
    PROVE  [Transfer!Next]_Transfer!vars
<1>1. UNCHANGED sizeCur
  BY DEF bt_gatt_ots_oacp_write
<1>2. PICK op \in ClientOps, off \in Params, len \in Params,
           mode \in SUBSET ModeBits, exactLen \in BOOLEAN, queued \in IndicateOutcomes :
           LET res == OacpStatus(op, off, len, mode) IN
           IF res = "SUCCESS" /\ op = "READ" THEN ReadAccept(off, len)
           ELSE IF res = "SUCCESS" THEN WriteAccept(off, len)
           ELSE UNCHANGED <<objState, opOffset, opLen, sentLen, recvLen, rxDone, closedCb>>
  BY DEF bt_gatt_ots_oacp_write
<1> DEFINE res == OacpStatus(op, off, len, mode)
<1>3. CASE res = "SUCCESS" /\ op = "READ"
  <2>1. oacp_read_proc_validate(off, len) = "SUCCESS"
    BY <1>3, StatusSuccess
  <2>2. objState = "IDLE" /\ off + len <= sizeCur
    BY <2>1, AcceptIdle, ReadAcceptRange
  <2>3. Transfer!StartRead(off, len)
    BY <1>1, <1>2, <1>3, <2>2 DEF Transfer!StartRead, ReadAccept, AbsOff, AbsLen, AbsDone
  <2> QED
    BY <2>3 DEF Transfer!Next, Params
<1>4. CASE res = "SUCCESS" /\ op # "READ"
  <2>1. oacp_write_proc_validate(off, len, mode) = "SUCCESS"
    BY <1>4, StatusSuccess
  <2>2. objState = "IDLE" /\ off <= sizeCur /\ off + len <= Alloc
    BY <2>1, AcceptIdle, WriteAcceptRange
  <2>3. Transfer!StartWrite(off, len)
    BY <1>1, <1>2, <1>4, <2>2 DEF Transfer!StartWrite, WriteAccept, AbsOff, AbsLen, AbsDone
  <2> QED
    BY <2>3 DEF Transfer!Next, Params
<1>5. CASE res # "SUCCESS"
  BY <1>1, <1>2, <1>5, KeepStep
<1> QED
  BY <1>3, <1>4, <1>5

\* oacp_read_proc_cb maps to Sent, Release or a stutter: during a Read a
\* chunk handed to the channel is progress within the requested length;
\* run from a stale tx_done in another state it touches only sent_len,
\* which the mapping does not read there.
LEMMA ReadCbStep ==
    ASSUME TypeData, NEW busy, oacp_read_proc_cb(busy),
           UNCHANGED <<opOffset, opLen, recvLen, sizeCur>>
    PROVE  [Transfer!Next]_Transfer!vars
<1>1. CASE sentLen >= opLen
  BY <1>1, IdleStep DEF oacp_read_proc_cb
<1>2. CASE ~(sentLen >= opLen)
  <2>1. PICK len \in ReadResults(ReadRequest) :
          IF len < 0
          THEN objState' = "IDLE"
          ELSE IF chanOpen /\ ~busy
               THEN sentLen' = sentLen + len /\ UNCHANGED objState
               ELSE objState' = "IDLE"
    BY <1>2 DEF oacp_read_proc_cb
  <2>2. CASE len < 0 \/ ~(chanOpen /\ ~busy)
    BY <2>1, <2>2, IdleStep
  <2>3. CASE ~(len < 0) /\ chanOpen /\ ~busy
    <3>1. sentLen' = sentLen + len /\ UNCHANGED objState
      BY <2>1, <2>3
    <3>2. CASE objState = "READ_OP" /\ len # 0
      <4>1. len \in 1..(opLen - sentLen)
        BY <2>3, <3>2 DEF ReadResults, ReadRequest
      <4>2. sentLen + len \in 0..Alloc /\ sentLen < sentLen + len /\ sentLen + len <= opLen
        BY <1>2, <4>1 DEF TypeData, Params
      <4>3. Transfer!Sent(sentLen + len)
        BY <3>1, <3>2, <4>2 DEF Transfer!Sent, AbsOff, AbsLen, AbsDone
      <4> QED
        BY <4>2, <4>3 DEF Transfer!Next
    <3>3. CASE objState = "READ_OP" /\ len = 0
      <4>1. UNCHANGED sentLen
        BY <3>1, <3>3 DEF TypeData, Params
      <4> QED
        BY <3>1, <4>1, KeepStep
    <3>4. CASE objState # "READ_OP"
      BY <3>1, <3>4, KeepStep
    <3> QED
      BY <3>2, <3>3, <3>4
  <2> QED
    BY <2>2, <2>3
<1> QED
  BY <1>1, <1>2

\* oacp_write_proc_cb with a bound sink maps, during a Write, to Received
\* (ending the Write when the length is complete or the channel went
\* down), and on an Idle object, whose receive callback stayed bound, to
\* LateWrite or a stutter.
LEMMA WriteCbStep ==
    ASSUME TypeFlags, TypeData, SizeBoundRest, recvLen <= opLen,
           objState # "READ_OP", NEW n \in 1..MaxSdu,
           CurObjSelected, HasWriteCb, oacp_write_proc_cb(n),
           UNCHANGED <<opOffset, opLen, sentLen>>
    PROVE  [Transfer!Next]_Transfer!vars
<1>1. PICK acc \in 0..(opLen - recvLen), fail \in BOOLEAN :
        /\ recvLen' = recvLen + acc
        /\ sizeCur' = SizeAfterWrite(opOffset + recvLen + acc)
        /\ objState' = IF fail \/ recvLen + acc = opLen THEN "IDLE" ELSE objState
  BY WriteCbExact
<1> DEFINE d == recvLen + acc
<1>2. d \in 0..Alloc /\ opOffset + d <= Alloc /\ recvLen <= d /\ d <= opLen
  BY DEF SizeBoundRest, TypeData, Params, d
<1>3. CASE objState = "WRITE_OP"
  <2>1. sizeCur' = Transfer!Larger(sizeCur, opOffset + d)
    BY <1>1 DEF SizeAfterWrite, Transfer!Larger, d, TypeData, Params
  <2>2. Transfer!Received(d, fail)
    <3>1. CASE d = opLen \/ fail
      BY <1>1, <1>2, <1>3, <2>1, <3>1 DEF Transfer!Received, Transfer!Released,
                                        AbsOff, AbsLen, AbsDone, d
    <3>2. CASE ~(d = opLen \/ fail)
      BY <1>1, <1>2, <1>3, <2>1, <3>2 DEF Transfer!Received, AbsOff, AbsLen, AbsDone, d
    <3> QED
      BY <3>1, <3>2
  <2> QED
    BY <1>2, <2>2 DEF Transfer!Next
<1>4. CASE objState = "IDLE"
  <2>1. objState' = "IDLE"
    BY <1>1, <1>4
  <2>2. CASE opOffset + d > sizeCur
    <3>1. Transfer!LateWrite(opOffset + d)
      BY <1>1, <1>2, <1>4, <2>1, <2>2 DEF Transfer!LateWrite, SizeAfterWrite, AbsOff,
                                    AbsLen, AbsDone, d, TypeData, Params
    <3>2. opOffset + d \in 0..Alloc
      BY <1>2 DEF TypeData, Params
    <3> QED
      BY <3>1, <3>2 DEF Transfer!Next
  <2>3. CASE ~(opOffset + d > sizeCur)
    BY <1>1, <1>4, <2>1, <2>3 DEF Transfer!vars, SizeAfterWrite, AbsOff, AbsLen,
                                  AbsDone, d, TypeData, Params
  <2> QED
    BY <2>2, <2>3
<1> QED
  BY <1>3, <1>4 DEF TypeData, ObjStates

\* For a conforming client every step of OtsOacp is a step of
\* ObjectTransfer or leaves its variables alone.
LEMMA RefStep ==
    ASSUME ConformingClient, RefInv, [Next]_vars
    PROVE  [Transfer!Next]_Transfer!vars
<1>1. TypeFlags /\ TypeData /\ SizeBoundRest /\ NoWriterDuringRead
  BY SizeBoundSplit, TypeSplit DEF RefInv
<1> USE <1>1
<1>2. CASE bt_gatt_ots_oacp_write
  BY <1>2, WriteStep
<1>3. CASE oacp_ind_cb
  <2>1. UNCHANGED <<opOffset, opLen, recvLen, sizeCur>>
    BY <1>3 DEF oacp_ind_cb
  <2>2. CASE CurObjSelected /\ objState = "READ_OP" /\ (DirListObj \/ HasReadCb)
    BY <1>3, <2>1, <2>2, ReadCbStep DEF oacp_ind_cb, oacp_read_proc_execute
  <2>3. CASE CurObjSelected /\ objState = "READ_OP" /\ ~(DirListObj \/ HasReadCb)
    BY <1>3, <2>1, <2>3, IdleStep DEF oacp_ind_cb, oacp_read_proc_execute
  <2>4. CASE ~(CurObjSelected /\ objState = "READ_OP")
    BY <1>3, <2>1, <2>4, KeepStep DEF oacp_ind_cb
  <2> QED
    BY <2>2, <2>3, <2>4
<1>4. CASE L2capSent
  <2>1. UNCHANGED <<opOffset, opLen, recvLen, sizeCur>>
    BY <1>4 DEF L2capSent
  <2>2. CASE txDone = "oacp_read_proc_cb"
    BY <1>4, <2>1, <2>2, ReadCbStep DEF L2capSent
  <2>3. CASE txDone # "oacp_read_proc_cb"
    BY <1>4, <2>1, <2>3, KeepStep DEF L2capSent
  <2> QED
    BY <2>2, <2>3
<1>5. CASE L2capRecv
  <2>1. cPhase = "writing"
    BY <1>5, Zenon DEF L2capRecv, ClientGuard
  <2>2. recvLen <= opLen /\ objState # "READ_OP"
    BY <2>1 DEF SizeBoundRest, NoWriterDuringRead
  <2>3. UNCHANGED <<opOffset, opLen, sentLen>>
    BY <1>5, RecvStep
  <2>4. PICK n \in 1..MaxSdu :
          IF rxDone = "oacp_write_proc_cb"
          THEN oacp_write_proc_cb(n)
          ELSE /\ UNCHANGED <<recvLen, sizeCur>>
               /\ RecvDone(objState)
    BY <1>5, RecvStep
  <2>5. CASE rxDone = "oacp_write_proc_cb" /\ CurObjSelected /\ HasWriteCb
    BY <2>2, <2>3, <2>4, <2>5, WriteCbStep
  <2>6. CASE rxDone = "oacp_write_proc_cb" /\ CurObjSelected /\ ~HasWriteCb
    <3>1. objState' = "IDLE" /\ UNCHANGED sizeCur
      BY <2>4, <2>6, WriteCbState
    <3> QED
      BY <3>1, IdleStep
  <2>7. CASE rxDone = "oacp_write_proc_cb" /\ ~CurObjSelected
    <3>1. UNCHANGED <<objState, recvLen, sizeCur>>
      BY <2>4, <2>7, WriteCbState
    <3> QED
      BY <2>3, <3>1, KeepStep
  <2>8. CASE rxDone # "oacp_write_proc_cb"
    <3>1. UNCHANGED <<objState, recvLen, sizeCur>>
      BY <2>4, <2>8 DEF RecvDone
    <3> QED
      BY <2>3, <3>1, KeepStep
  <2> QED
    BY <2>5, <2>6, <2>7, <2>8
<1>6. CASE L2capConnected
  BY <1>6, KeepStep DEF L2capConnected, srvVars
<1>7. CASE L2capDisconnected
  <2>1. objState' \in {objState, "IDLE"}
    BY <1>7, ChannelDownState DEF L2capDisconnected
  <2>2. UNCHANGED <<opOffset, opLen, sentLen, recvLen, sizeCur>>
    BY <1>7 DEF L2capDisconnected
  <2>3. CASE objState' = "IDLE"
    BY <2>2, <2>3, IdleStep
  <2>4. CASE objState' = objState
    BY <2>2, <2>4, KeepStep
  <2> QED
    BY <2>1, <2>3, <2>4
<1>8. CASE ClientSeesClose
  BY <1>8, KeepStep DEF ClientSeesClose, srvVars
<1>9. CASE bt_gatt_ots_oacp_cfg_changed
  BY <1>9, KeepStep DEF bt_gatt_ots_oacp_cfg_changed
<1>10. CASE UNCHANGED vars
  BY <1>10, KeepStep DEF vars, srvVars
<1> QED
  BY <1>2, <1>3, <1>4, <1>5, <1>6, <1>7, <1>8, <1>9, <1>10 DEF Next

\* The OACP code implements the object-transfer contract (ImplementsTransfer)
\* for every allocation, SDU size and size_t width, as long as the client
\* runs one procedure at a time and sends only the data of an accepted
\* Write: every handler of ots_oacp.c, every callback of the channel and
\* every indication confirmation either starts a procedure the validation
\* allows on an Idle object, makes progress within the requested range,
\* extends the object within its allocation, releases it, or changes
\* nothing the contract can see.
THEOREM Refinement ==
    ASSUME ConformingClient
    PROVE  Spec => ImplementsTransfer
<1>1. Init => Transfer!Init
  BY DEF Init, Transfer!Init, AbsOff, AbsLen, AbsDone
<1>2. RefInv /\ [Next]_vars => [Transfer!Next]_Transfer!vars
  BY RefStep
<1>3. RefInv /\ [Next]_vars => RefInv'
  BY NextRefInv
<1> QED
  BY <1>1, <1>2, <1>3, InitRefInv, PTL DEF Spec, ImplementsTransfer, Transfer!Spec

\* With a conforming client, while a Write runs the object's size covers
\* every byte received (WriteCoversProgress), for every value of the
\* constants: the size extension at the end of oacp_write_proc_cb keeps up
\* with recv_len, and no other handler moves either.
THEOREM CoversSafe ==
    ASSUME ConformingClient
    PROVE  Spec => []WriteCoversProgress
<1>1. RefInv => WriteCoversProgress
  BY DEF RefInv
<1>2. RefInv /\ [Next]_vars => RefInv'
  BY NextRefInv
<1> QED
  BY <1>1, <1>2, InitRefInv, PTL DEF Spec

-----------------------------------------------------------------------------
(***************************************************************************)
(* A Read stays inside the object.                                         *)
(***************************************************************************)

\* oacp_read_proc_cb never starts a Read, and a Read it continues has sent
\* no more than was requested: a chunk is asked for only up to what is left.
LEMMA ReadCbSent ==
    ASSUME TypeData, NEW busy, oacp_read_proc_cb(busy), objState' = "READ_OP"
    PROVE  objState = "READ_OP" /\ (sentLen' = sentLen \/ sentLen' <= opLen)
<1>1. objState' \in {objState, "IDLE"}
  BY ReadCbState
<1>2. ~(sentLen >= opLen)
  BY DEF oacp_read_proc_cb
<1>3. PICK len \in ReadResults(ReadRequest) :
        IF len < 0
        THEN objState' = "IDLE"
        ELSE IF chanOpen /\ ~busy
             THEN sentLen' = sentLen + len
             ELSE UNCHANGED sentLen
  BY <1>2 DEF oacp_read_proc_cb
<1>4. ~(len < 0) => len \in 0..(opLen - sentLen)
  BY DEF ReadResults, ReadRequest
<1> QED
  BY <1>1, <1>3, <1>4 DEF TypeData, Params

\* For a conforming client every step preserves ReadWithinObject, given
\* RefInv.
LEMMA NextReadWithin ==
    ASSUME ConformingClient, RefInv, ReadWithinObject, [Next]_vars
    PROVE  ReadWithinObject'
<1>1. TypeFlags /\ TypeData /\ SizeBoundRest /\ NoWriterDuringRead
  BY SizeBoundSplit, TypeSplit DEF RefInv
<1> USE <1>1
<1> SUFFICES ASSUME objState' = "READ_OP"
             PROVE  opOffset' + opLen' <= sizeCur' /\ sentLen' <= opLen'
  BY DEF ReadWithinObject
<1>2. CASE bt_gatt_ots_oacp_write
  <2>1. UNCHANGED sizeCur
    BY <1>2 DEF bt_gatt_ots_oacp_write
  <2>2. PICK op \in ClientOps, off \in Params, len \in Params,
             mode \in SUBSET ModeBits, exactLen \in BOOLEAN, queued \in IndicateOutcomes :
             LET res == OacpStatus(op, off, len, mode) IN
             IF res = "SUCCESS" /\ op = "READ" THEN ReadAccept(off, len)
             ELSE IF res = "SUCCESS" THEN WriteAccept(off, len)
             ELSE UNCHANGED <<objState, opOffset, opLen, sentLen, recvLen, rxDone, closedCb>>
    BY <1>2 DEF bt_gatt_ots_oacp_write
  <2> DEFINE res == OacpStatus(op, off, len, mode)
  <2>3. CASE res = "SUCCESS" /\ op = "READ"
    <3>1. off + len <= sizeCur
      BY <2>3, StatusSuccess, ReadAcceptRange
    <3> QED
      BY <2>1, <2>2, <2>3, <3>1 DEF ReadAccept, Params
  <2>4. CASE res = "SUCCESS" /\ op # "READ"
    BY <2>2, <2>4 DEF WriteAccept
  <2>5. CASE res # "SUCCESS"
    BY <2>1, <2>2, <2>5 DEF ReadWithinObject
  <2> QED
    BY <2>3, <2>4, <2>5
<1>3. CASE oacp_ind_cb
  <2>1. UNCHANGED <<opOffset, opLen, sizeCur>>
    BY <1>3 DEF oacp_ind_cb
  <2>2. objState = "READ_OP" /\ (sentLen' = sentLen \/ sentLen' <= opLen)
    <3>1. CASE CurObjSelected /\ objState = "READ_OP" /\ (DirListObj \/ HasReadCb)
      BY <1>3, <3>1, ReadCbSent DEF oacp_ind_cb, oacp_read_proc_execute
    <3>2. CASE ~(CurObjSelected /\ objState = "READ_OP" /\ (DirListObj \/ HasReadCb))
      BY <1>3, <3>2 DEF oacp_ind_cb, oacp_read_proc_execute
    <3> QED
      BY <3>1, <3>2
  <2> QED
    BY <2>1, <2>2 DEF ReadWithinObject
<1>4. CASE L2capSent
  <2>1. UNCHANGED <<opOffset, opLen, sizeCur>>
    BY <1>4 DEF L2capSent
  <2>2. objState = "READ_OP" /\ (sentLen' = sentLen \/ sentLen' <= opLen)
    <3>1. CASE txDone = "oacp_read_proc_cb"
      BY <1>4, <3>1, ReadCbSent DEF L2capSent
    <3>2. CASE txDone # "oacp_read_proc_cb"
      BY <1>4, <3>2 DEF L2capSent
    <3> QED
      BY <3>1, <3>2
  <2> QED
    BY <2>1, <2>2 DEF ReadWithinObject
<1>5. CASE L2capRecv
  <2>1. cPhase = "writing"
    BY <1>5, Zenon DEF L2capRecv, ClientGuard
  <2>2. objState # "READ_OP"
    BY <2>1 DEF NoWriterDuringRead
  <2>3. objState' \in {objState, "IDLE"}
    BY <1>5, RecvStep
  <2> QED
    BY <2>2, <2>3
<1>6. CASE L2capDisconnected
  <2>1. objState' \in {objState, "IDLE"}
    BY <1>6, ChannelDownState DEF L2capDisconnected
  <2> QED
    BY <1>6, <2>1 DEF L2capDisconnected, ReadWithinObject
<1>7. CASE L2capConnected \/ ClientSeesClose \/ bt_gatt_ots_oacp_cfg_changed
                         \/ UNCHANGED vars
  BY <1>7 DEF L2capConnected, ClientSeesClose, bt_gatt_ots_oacp_cfg_changed, vars,
              srvVars, ReadWithinObject
<1> QED
  BY <1>2, <1>3, <1>4, <1>5, <1>6, <1>7 DEF Next

\* With a conforming client, while a Read runs the range it was accepted
\* for lies inside the object and no more than the requested length has
\* been handed to the channel (ReadWithinObject), for every value of the
\* constants: oacp_read_proc_validate checks the range against size.cur,
\* oacp_read_proc_cb asks only for what is left, and no Write data can
\* change the size during the Read.
THEOREM ReadSafe ==
    ASSUME ConformingClient
    PROVE  Spec => []ReadWithinObject
<1>1. Init => RefInv /\ ReadWithinObject
  BY InitRefInv DEF Init, ReadWithinObject
<1>2. RefInv /\ ReadWithinObject /\ [Next]_vars => RefInv' /\ ReadWithinObject'
  BY NextRefInv, NextReadWithin
<1> QED
  BY <1>1, <1>2, PTL DEF Spec

=============================================================================
