------------------------- MODULE OtsOacpWriteProofs -------------------------
(***************************************************************************)
(* A Write the client has finished sending is not left holding the object *)
(* (WriteEndsWithData), for every allocation, SDU size and size_t width.   *)
(* The argument follows the client through its procedure: while the object *)
(* is in the Write state the channel is open and bound to this file, the   *)
(* client awaits the Write's response or sends exactly what is left of the *)
(* declared length, and its last SDU completes the Write in               *)
(* oacp_write_proc_cb; a short or failed write of the sink takes the       *)
(* channel down, and the closed callback releases the object.  A client    *)
(* that took its response and stopped therefore only ever leaves a Write   *)
(* of length 0 behind.                                                     *)
(***************************************************************************)
EXTENDS OtsOacpRefinement

USE AllocAssumption, MaxSduAssumption, SizeModAssumption, MaxIndAssumption,
    FlagsAssumption, ClientOpsAssumption

\* Where the client is while the object is in the Write state.
WriteClientInv ==
    objState = "WRITE_OP" =>
        /\ CurObjSelected /\ chanOpen
        /\ closedCb = "oacp_l2cap_closed" /\ rxDone = "oacp_write_proc_cb"
        /\ cPhase = "idle" => opLen = 0
        /\ cPhase = "writing" => cLeft = opLen - recvLen
        /\ cPhase = "reading" => opLen = 0
        /\ indQueue # <<>> /\ Head(indQueue) = WriteAccepted
              => cLeft = opLen /\ recvLen = 0
        /\ cPhase = "await" /\ opLen # 0
              => indQueue = <<>> \/ Head(indQueue) = WriteAccepted

\* The conjuncts of WriteClientInv, for a step into the Write state.
WriteClientRest ==
    /\ CurObjSelected /\ chanOpen
    /\ closedCb = "oacp_l2cap_closed" /\ rxDone = "oacp_write_proc_cb"
    /\ cPhase = "idle" => opLen = 0
    /\ cPhase = "writing" => cLeft = opLen - recvLen
    /\ cPhase = "reading" => opLen = 0
    /\ indQueue # <<>> /\ Head(indQueue) = WriteAccepted
          => cLeft = opLen /\ recvLen = 0
    /\ cPhase = "await" /\ opLen # 0
          => indQueue = <<>> \/ Head(indQueue) = WriteAccepted

\* A step that leaves the object, the channel and the client alone, and
\* the received count when the object is in the Write state, keeps the
\* invariant.
LEMMA KeepWriteClient ==
    ASSUME WriteClientInv,
           UNCHANGED <<objState, chanOpen, closedCb, rxDone, opLen, recvLen, indQueue,
                       cPhase, cLeft>>
    PROVE  WriteClientInv'
BY DEF WriteClientInv

\* bt_gatt_ots_oacp_write, for a conforming client: an accepted Write
\* leaves the client awaiting its response on an open channel; a refused
\* command finds a Write of length 0 at most.
LEMMA WriteCmdClient ==
    ASSUME ConformingClient, TypeData, SizeBoundRest, WriteClientInv,
           bt_gatt_ots_oacp_write, objState' = "WRITE_OP"
    PROVE  WriteClientRest'
<1>1. cPhase = "idle" /\ indQueue = <<>>
  <2>1. cPhase = "idle"
    BY Zenon DEF bt_gatt_ots_oacp_write, ClientGuard
  <2> QED
    BY <2>1 DEF SizeBoundRest
<1>2. PICK op \in ClientOps, off \in Params, len \in Params,
           mode \in SUBSET ModeBits, exactLen \in BOOLEAN, queued \in IndicateOutcomes :
           LET res == OacpStatus(op, off, len, mode) IN
           /\ IF res = "SUCCESS" /\ op = "READ" THEN ReadAccept(off, len)
              ELSE IF res = "SUCCESS" THEN WriteAccept(off, len)
              ELSE UNCHANGED <<objState, opOffset, opLen, sentLen, recvLen, rxDone, closedCb>>
           /\ oacp_ind_send(op, res, queued)
           /\ cPhase' = "await"
           /\ cLeft' = len
  BY DEF bt_gatt_ots_oacp_write
<1> DEFINE res == OacpStatus(op, off, len, mode)
<1>3. UNCHANGED chanOpen
  BY DEF bt_gatt_ots_oacp_write
<1>4. indQueue' = IF queued THEN <<[op |-> op, res |-> res]>> ELSE <<>>
  <2>1. queued \in BOOLEAN
    BY DEF IndicateOutcomes
  <2> QED
    BY <1>1, <1>2, <2>1 DEF oacp_ind_send
<1>5. CASE res = "SUCCESS" /\ op = "READ"
  BY <1>2, <1>5 DEF ReadAccept
<1>6. CASE res = "SUCCESS" /\ op # "READ"
  <2>1. op = "WRITE" /\ oacp_write_proc_validate(off, len, mode) = "SUCCESS"
    BY <1>6, StatusSuccess
  <2>2. CurObjSelected /\ chanOpen
    BY <2>1 DEF oacp_write_proc_validate
  <2>3. /\ closedCb' = "oacp_l2cap_closed" /\ rxDone' = "oacp_write_proc_cb"
        /\ opLen' = len /\ recvLen' = 0
    BY <1>2, <1>6 DEF WriteAccept
  <2>4. indQueue' = <<>> \/ Head(indQueue') = WriteAccepted
    BY <1>4, <1>6, <2>1 DEF WriteAccepted
  <2> QED
    BY <1>2, <1>3, <2>2, <2>3, <2>4 DEF WriteClientRest
<1>7. CASE res # "SUCCESS"
  <2>1. objState = "WRITE_OP" /\ UNCHANGED <<opLen, recvLen, rxDone, closedCb>>
    BY <1>2, <1>7
  <2>2. opLen = 0 /\ CurObjSelected /\ chanOpen
        /\ closedCb = "oacp_l2cap_closed" /\ rxDone = "oacp_write_proc_cb"
    BY <1>1, <2>1 DEF WriteClientInv
  <2>3. ~(indQueue' # <<>> /\ Head(indQueue') = WriteAccepted)
    BY <1>4, <1>7 DEF WriteAccepted
  <2> QED
    BY <1>2, <1>3, <2>1, <2>2, <2>3 DEF WriteClientRest
<1> QED
  BY <1>5, <1>6, <1>7

\* oacp_ind_cb, for a conforming client: the response the client takes
\* while the object is in the Write state is the Write's own acceptance,
\* which sends it writing exactly the declared length, or the object
\* holds a Write of length 0.
LEMMA IndCbClient ==
    ASSUME TypeData, SizeBoundRest, WriteClientInv, oacp_ind_cb, objState' = "WRITE_OP"
    PROVE  WriteClientRest'
<1>1. objState = "WRITE_OP" /\ CurObjSelected
  <2>1. CASE ~CurObjSelected
    BY <2>1 DEF oacp_ind_cb, WriteClientInv
  <2>2. CASE CurObjSelected /\ objState = "READ_OP"
    <3>1. objState' \in {"READ_OP", "IDLE"}
      <4>1. CASE DirListObj \/ HasReadCb
        BY <2>2, <4>1, ReadCbState DEF oacp_ind_cb, oacp_read_proc_execute
      <4>2. CASE ~(DirListObj \/ HasReadCb)
        BY <2>2, <4>2 DEF oacp_ind_cb, oacp_read_proc_execute
      <4> QED
        BY <4>1, <4>2
    <3> QED
      BY <3>1
  <2>3. CASE CurObjSelected /\ objState # "READ_OP"
    BY <2>3 DEF oacp_ind_cb
  <2> QED
    BY <2>1, <2>2, <2>3
<1>2. UNCHANGED <<chanOpen, closedCb, rxDone, opLen, recvLen, cLeft>>
  BY <1>1 DEF oacp_ind_cb, ClientOnResponse
<1>3. indQueue # <<>> /\ indQueue' = <<>> /\ cPhase = "await"
  BY DEF oacp_ind_cb, SizeBoundRest, TypeData
<1> DEFINE r == Head(indQueue)
<1>4. cPhase' = IF r.res = "SUCCESS" /\ cLeft > 0 /\ r.op = "READ" THEN "reading"
                ELSE IF r.res = "SUCCESS" /\ cLeft > 0 /\ r.op = "WRITE" THEN "writing"
                ELSE "idle"
  BY DEF oacp_ind_cb, ClientOnResponse
<1>5. r \in Response
  BY <1>3 DEF TypeData
<1>6. CASE r = WriteAccepted
  <2>1. cLeft = opLen /\ recvLen = 0
    BY <1>1, <1>3, <1>6 DEF WriteClientInv
  <2>2. cPhase' \in {"writing", "idle"} /\ (cPhase' = "idle" => cLeft = 0)
    BY <1>4, <1>6 DEF WriteAccepted, r, TypeData, Params
  <2> QED
    BY <1>1, <1>2, <1>3, <2>1, <2>2 DEF WriteClientInv, WriteClientRest, TypeData, Params
<1>7. CASE r # WriteAccepted
  <2>1. opLen = 0
    BY <1>1, <1>3, <1>7 DEF WriteClientInv
  <2>2. cPhase' # "writing"
    BY <1>4, <1>5, <1>7 DEF Response, WriteAccepted
  <2> QED
    BY <1>1, <1>2, <1>3, <2>1, <2>2 DEF WriteClientInv, WriteClientRest
<1> QED
  BY <1>6, <1>7

\* oacp_read_proc_cb, run from a stale tx_done, leaves the object in its
\* state only by sending a chunk on the open channel, which it leaves
\* open and bound.
LEMMA ReadCbKeeps ==
    ASSUME NEW busy, oacp_read_proc_cb(busy), objState' # "IDLE"
    PROVE  UNCHANGED <<objState, chanOpen, rxDone>>
<1>1. ~(sentLen >= opLen)
  BY DEF oacp_read_proc_cb
<1>2. PICK len \in ReadResults(ReadRequest) :
        IF len < 0
        THEN objState' = "IDLE"
        ELSE /\ IF chanOpen /\ ~busy
                THEN UNCHANGED objState
                ELSE objState' = "IDLE"
             /\ UNCHANGED <<chanOpen, rxDone>>
  BY <1>1 DEF oacp_read_proc_cb
<1> QED
  BY <1>2

\* Taking the channel down while the closed callback is bound and an
\* object is selected releases the object (oacp_l2cap_closed).
LEMMA ChannelDownReleases ==
    ASSUME NEW st, ChannelDown(st), closedCb = "oacp_l2cap_closed", CurObjSelected
    PROVE  objState' = "IDLE"
BY DEF ChannelDown, oacp_l2cap_closed

\* The channel's sent callback: a stale tx_done that leaves the Write in
\* place changes neither the channel nor the client's Write.
LEMMA SentClient ==
    ASSUME TypeData, SizeBoundRest, WriteClientInv, L2capSent, objState' = "WRITE_OP"
    PROVE  WriteClientRest'
<1>1. UNCHANGED <<objState, chanOpen, rxDone>>
  <2>1. CASE txDone = "oacp_read_proc_cb"
    BY <2>1, ReadCbKeeps DEF L2capSent
  <2>2. CASE txDone # "oacp_read_proc_cb"
    BY <2>2 DEF L2capSent
  <2> QED
    BY <2>1, <2>2
<1>2. UNCHANGED <<closedCb, opLen, recvLen, indQueue>>
  BY DEF L2capSent
<1>3. \/ UNCHANGED <<cPhase, cLeft>>
      \/ cPhase = "reading" /\ cPhase' \in {"idle", "reading"}
  BY DEF L2capSent, ClientReceives, cliVars
<1>4. indQueue # <<>> => cPhase = "await"
  BY DEF SizeBoundRest
<1> QED
  BY <1>1, <1>2, <1>3, <1>4 DEF WriteClientInv, WriteClientRest

\* The channel's receive callback, for a conforming client: an SDU that
\* leaves the object in the Write state was taken whole by the sink and
\* was not the last, so the client still writes exactly what is left.
LEMMA RecvClient ==
    ASSUME ConformingClient, TypeFlags, TypeData, SizeBoundRest, WriteClientInv,
           L2capRecv, objState' = "WRITE_OP"
    PROVE  WriteClientRest'
<1>1. cPhase = "writing" /\ indQueue = <<>> /\ recvLen <= opLen
  <2>1. cPhase = "writing"
    BY Zenon DEF L2capRecv, ClientGuard
  <2> QED
    BY <2>1 DEF SizeBoundRest
<1>2. /\ objState' \in {objState, "IDLE"}
      /\ UNCHANGED <<opLen, closedCb, indQueue>>
  BY RecvStep
<1>3. /\ objState = "WRITE_OP"
      /\ CurObjSelected /\ chanOpen
      /\ closedCb = "oacp_l2cap_closed" /\ rxDone = "oacp_write_proc_cb"
      /\ cLeft = opLen - recvLen
  BY <1>1, <1>2 DEF WriteClientInv
<1>4. PICK n \in 1..MaxSdu : ClientSends(n) /\ oacp_write_proc_cb(n)
  BY <1>3, RecvStep
<1>5. HasWriteCb
  BY <1>3, <1>4, WriteCbState
<1>6. PICK rc \in SinkResults(WriteChunkLen(n)) : WriteSink(n, rc)
  BY <1>3, <1>4, <1>5 DEF oacp_write_proc_cb
<1> DEFINE len == WriteChunkLen(n)
           acc == IF rc < 0 THEN 0 ELSE rc
           st == IF rc < 0 \/ (recvLen + acc) % SizeMod = opLen THEN "IDLE" ELSE objState
<1>7. /\ recvLen' = (recvLen + acc) % SizeMod
      /\ IF rc = len THEN RecvDone(st) ELSE RecvFailed(st)
  BY <1>6 DEF WriteSink, len, acc, st
<1>8. rc = len /\ RecvDone(st)
  <2>1. CASE rc # len
    <3>1. ChannelDown(st)
      BY <1>7, <2>1 DEF RecvFailed
    <3> QED
      BY <1>3, <3>1, ChannelDownReleases
  <2> QED
    BY <1>7, <2>1
<1>9. st = "WRITE_OP" /\ UNCHANGED <<chanOpen, rxDone>>
  BY <1>8 DEF RecvDone
<1>10. len \in 0..(opLen - recvLen)
  BY <1>1 , ChunkLenRange DEF WriteChunkLen, len, TypeData
<1>11. acc = len /\ recvLen + len # opLen
  <2>1. rc = -1 \/ rc \in 0..len
    BY <1>10, SinkRange DEF len
  <2>2. ~(rc < 0) /\ acc = len
    BY <1>8, <1>9, <2>1 DEF st, acc
  <2>3. recvLen + len \in 0..(SizeMod - 1)
    BY <1>1, <1>10 DEF TypeData, Params
  <2>4. (recvLen + len) % SizeMod = recvLen + len
    BY <2>3, ModSmall
  <2>5. st = IF (recvLen + len) % SizeMod = opLen THEN "IDLE" ELSE objState
    BY <2>2 DEF st
  <2> QED
    BY <1>9, <2>2, <2>4, <2>5
<1>12. len = n /\ recvLen + n < opLen
  <2>1. (recvLen + n) % SizeMod = recvLen + n
    <3>1. recvLen + n \in 0..(SizeMod - 1)
      BY <1>1 DEF TypeData, Params
    <3> QED
      BY <3>1, ModSmall
  <2>2. ~(recvLen + n > opLen)
    <3>1. CASE recvLen + n > opLen
      <4>1. len = (opLen - recvLen) % SizeMod
        BY <2>1, <3>1 DEF len, WriteChunkLen
      <4>2. (opLen - recvLen) % SizeMod = opLen - recvLen
        BY <1>1, ModSmall DEF TypeData, Params
      <4> QED
        BY <1>11, <4>1, <4>2, <3>1 DEF TypeData, Params
    <3> QED
      BY <3>1
  <2>3. len = n
    BY <2>1, <2>2 DEF len, WriteChunkLen
  <2> QED
    BY <1>10, <1>11, <2>3 DEF TypeData, Params
<1>13. recvLen' = recvLen + n /\ cPhase' = "writing" /\ cLeft' = cLeft - n
  <2>1. recvLen' = recvLen + n
    <3>1. recvLen' = (recvLen + len) % SizeMod
      BY <1>7, <1>11
    <3>2. (recvLen + n) % SizeMod = recvLen + n
      <4>1. recvLen + n \in 0..(SizeMod - 1)
        BY <1>1 DEF TypeData, Params
      <4> QED
        BY <4>1, ModSmall
    <3> QED
      BY <1>12, <3>1, <3>2
  <2>2. ~(n >= cLeft)
    BY <1>3, <1>12 DEF TypeData, Params
  <2> QED
    BY <1>1, <1>4, <2>1, <2>2 DEF ClientSends
<1>14. /\ CurObjSelected /\ chanOpen'
       /\ closedCb' = "oacp_l2cap_closed" /\ rxDone' = "oacp_write_proc_cb"
       /\ indQueue' = <<>> /\ opLen' = opLen
  BY <1>1, <1>2, <1>3, <1>9
<1>15. cLeft' = opLen' - recvLen'
  BY <1>3, <1>13, <1>14 DEF TypeData, Params
<1> QED
  BY <1>13, <1>14, <1>15, Zenon DEF WriteClientRest

\* For a conforming client every step preserves WriteClientInv, given
\* RefInv.
LEMMA NextWriteClient ==
    ASSUME ConformingClient, RefInv, WriteClientInv, [Next]_vars
    PROVE  WriteClientInv'
<1>1. TypeFlags /\ TypeData /\ SizeBoundRest
  BY SizeBoundSplit, TypeSplit DEF RefInv
<1> USE <1>1
<1> SUFFICES ASSUME objState' = "WRITE_OP" PROVE WriteClientRest'
  BY Zenon DEF WriteClientInv, WriteClientRest
<1>2. CASE bt_gatt_ots_oacp_write
  BY <1>2, WriteCmdClient
<1>3. CASE oacp_ind_cb
  BY <1>3, IndCbClient
<1>4. CASE L2capSent
  BY <1>4, SentClient
<1>5. CASE L2capRecv
  BY <1>5, RecvClient
<1>6. CASE L2capConnected \/ ClientSeesClose
  <2>1. ~chanOpen /\ UNCHANGED objState
    BY <1>6 DEF L2capConnected, ClientSeesClose, srvVars
  <2> QED
    BY <2>1 DEF WriteClientInv
<1>7. CASE L2capDisconnected
  <2>1. ChannelDown(objState) /\ objState' \in {objState, "IDLE"}
    BY <1>7, ChannelDownState DEF L2capDisconnected
  <2>2. CASE objState = "WRITE_OP"
    BY <2>1, <2>2, ChannelDownReleases DEF WriteClientInv
  <2> QED
    BY <2>1, <2>2
<1>8. CASE bt_gatt_ots_oacp_cfg_changed \/ UNCHANGED vars
  <2>1. UNCHANGED <<objState, chanOpen, closedCb, rxDone, opLen, recvLen, indQueue,
                    cPhase, cLeft>>
    BY <1>8 DEF bt_gatt_ots_oacp_cfg_changed, vars, srvVars, chanVars, cliVars
  <2> QED
    BY <2>1, KeepWriteClient, Zenon DEF WriteClientInv, WriteClientRest
<1> QED
  BY <1>2, <1>3, <1>4, <1>5, <1>6, <1>7, <1>8 DEF Next

\* With a conforming client, a Write is never left holding the object
\* once the client has taken its response and sent what it declared
\* (WriteEndsWithData), for every value of the constants: the last SDU
\* completes the Write in oacp_write_proc_cb, and a short or failed write
\* of the sink ends it by taking the channel down, whose closed callback
\* oacp_l2cap_closed releases the object.
THEOREM WriteEnds ==
    ASSUME ConformingClient
    PROVE  Spec => []WriteEndsWithData
<1>1. Init => RefInv /\ WriteClientInv
  BY InitRefInv DEF Init, WriteClientInv
<1>2. RefInv /\ WriteClientInv /\ [Next]_vars => RefInv' /\ WriteClientInv'
  BY NextRefInv, NextWriteClient
<1>3. WriteClientInv => WriteEndsWithData
  BY DEF WriteClientInv, WriteEndsWithData
<1> QED
  BY <1>1, <1>2, <1>3, PTL DEF Spec

=============================================================================
