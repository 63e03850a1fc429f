--------------------------- MODULE OtsOacpProofs ---------------------------
(***************************************************************************)
(* Proofs about the OACP model of ots_oacp.c, for every value of the       *)
(* constants that satisfies the assumptions of module OtsOacp.             *)
(***************************************************************************)
EXTENDS OtsOacp, TLAPS

USE AllocAssumption, MaxSduAssumption, SizeModAssumption, MaxIndAssumption,
    FlagsAssumption, ClientOpsAssumption

\* Every validation path of bt_gatt_ots_oacp_write ends in one of the
\* result codes of enum bt_gatt_ots_oacp_res_code, so the indicated
\* response is well formed.
LEMMA StatusType ==
    ASSUME NEW op, NEW off, NEW len, NEW mode
    PROVE  OacpStatus(op, off, len, mode) \in ResCodes
BY DEF OacpStatus, oacp_command_decode, oacp_proc_validate,
       oacp_read_proc_validate, oacp_write_proc_validate, ResCodes

\* The type invariant in two parts: the flags, which Zenon handles, and
\* the data, which the SMT solver handles.
TypeFlags ==
    /\ indEnabled \in BOOLEAN
    /\ chanOpen \in BOOLEAN
    /\ txBusy \in BOOLEAN
    /\ fault \in BOOLEAN

TypeData ==
    /\ objState \in ObjStates
    /\ opOffset \in Params
    /\ opLen \in Params
    /\ sentLen \in Params
    /\ recvLen \in 0..(SizeMod - 1)
    /\ sizeCur \in 0..(SizeMod - 1)
    /\ txChunk \in Params
    /\ rxDone \in {NULL, "oacp_write_proc_cb"}
    /\ txDone \in {NULL, "oacp_read_proc_cb"}
    /\ closedCb \in {NULL, "oacp_l2cap_closed"}
    /\ indQueue \in Seq(Response)
    /\ Len(indQueue) <= MaxInd
    /\ cPhase \in {"idle", "await", "reading", "writing"}
    /\ cLeft \in Params

LEMMA TypeSplit == TypeOK <=> TypeFlags /\ TypeData
BY Zenon DEF TypeOK, TypeFlags, TypeData

\* What a step may do to the channel: open or close it, and unbind the
\* callbacks.
ChanStep ==
    /\ chanOpen' \in BOOLEAN
    /\ txBusy' \in BOOLEAN
    /\ rxDone' \in {rxDone, NULL}
    /\ txDone' \in {txDone, NULL}

\* Taking the channel down leaves the object in the state it was in or
\* releases it, and at most unbinds the callbacks; without a selected
\* object the closed callback returns at once.
LEMMA ChannelDownState ==
    ASSUME NEW st, ChannelDown(st)
    PROVE  /\ objState' \in {st, "IDLE"}
           /\ ~CurObjSelected => objState' = st
           /\ ChanStep
BY Zenon DEF ChannelDown, oacp_l2cap_closed, ChanStep

\* Whatever the L2CAP layer does with rx_done's result, the object stays in
\* the state it was left in or is released.
LEMMA RecvState ==
    ASSUME TypeFlags, NEW st, RecvDone(st) \/ RecvFailed(st)
    PROVE  /\ objState' \in {st, "IDLE"}
           /\ ~CurObjSelected => objState' = st
           /\ ChanStep
<1>1. CASE RecvDone(st)
  BY <1>1, Zenon DEF RecvDone, ChanStep, TypeFlags
<1>2. CASE RecvFailed(st)
  BY <1>2, ChannelDownState DEF RecvFailed
<1> QED
  BY <1>1, <1>2

\* The sink branch of oacp_write_proc_cb leaves the object in its state or
\* releases it.
LEMMA WriteSinkState ==
    ASSUME TypeFlags, NEW n, NEW rc, WriteSink(n, rc)
    PROVE  objState' \in {objState, "IDLE"} /\ ChanStep
<1> DEFINE st == IF rc < 0 \/ (recvLen + (IF rc < 0 THEN 0 ELSE rc)) % SizeMod = opLen
                 THEN "IDLE" ELSE objState
<1>1. RecvDone(st) \/ RecvFailed(st)
  BY DEF WriteSink, st
<1>2. objState' \in {st, "IDLE"} /\ ChanStep
  BY <1>1, RecvState
<1> QED
  BY <1>2 DEF st

\* oacp_write_proc_cb leaves the object in its state or releases it; without
\* an object or a sink it moves neither the count nor the size, and
\* without an object it leaves the state alone.
LEMMA WriteCbState ==
    ASSUME TypeFlags, NEW n, oacp_write_proc_cb(n)
    PROVE  /\ objState' \in {objState, "IDLE"}
           /\ ChanStep
           /\ ~(CurObjSelected /\ HasWriteCb) => UNCHANGED <<recvLen, sizeCur>>
           /\ ~CurObjSelected => UNCHANGED objState
           /\ CurObjSelected /\ ~HasWriteCb => objState' = "IDLE"
<1>1. CASE ~CurObjSelected
  <2>1. RecvFailed(objState) /\ UNCHANGED <<recvLen, sizeCur>>
    BY <1>1 DEF oacp_write_proc_cb
  <2> QED
    BY <1>1, <2>1, RecvState
<1>2. CASE CurObjSelected /\ ~HasWriteCb
  <2>1. RecvFailed("IDLE") /\ UNCHANGED <<recvLen, sizeCur>>
    BY <1>2 DEF oacp_write_proc_cb
  <2>2. objState' \in {"IDLE", "IDLE"} /\ ChanStep
    BY <2>1, RecvState
  <2> QED
    BY <1>2, <2>1, <2>2
<1>3. CASE CurObjSelected /\ HasWriteCb
  <2>1. PICK rc \in SinkResults(WriteChunkLen(n)) : WriteSink(n, rc)
    BY <1>3 DEF oacp_write_proc_cb
  <2> QED
    BY <1>3, <2>1, WriteSinkState
<1> QED
  BY <1>1, <1>2, <1>3

\* The channel's receive callback leaves the object in its state or
\* releases it, and touches neither the procedure's parameters nor the
\* queue.
LEMMA RecvStep ==
    ASSUME TypeFlags, L2capRecv
    PROVE  /\ objState' \in {objState, "IDLE"}
           /\ ChanStep
           /\ UNCHANGED <<indEnabled, opOffset, opLen, sentLen, txChunk, closedCb,
                          indQueue, fault>>
           /\ \E n \in 1..MaxSdu :
                 /\ ClientSends(n)
                 /\ IF rxDone = "oacp_write_proc_cb"
                    THEN oacp_write_proc_cb(n)
                    ELSE /\ UNCHANGED <<recvLen, sizeCur>>
                         /\ RecvDone(objState)
<1>1. PICK n \in 1..MaxSdu :
        /\ ClientSends(n)
        /\ IF rxDone = "oacp_write_proc_cb"
           THEN oacp_write_proc_cb(n)
           ELSE /\ UNCHANGED <<recvLen, sizeCur>>
                /\ RecvDone(objState)
  BY DEF L2capRecv
<1>2. objState' \in {objState, "IDLE"} /\ ChanStep
  <2>1. CASE rxDone = "oacp_write_proc_cb"
    BY <1>1, <2>1, WriteCbState
  <2>2. CASE rxDone # "oacp_write_proc_cb"
    <3>1. RecvDone(objState)
      BY <1>1, <2>2
    <3> QED
      BY <3>1, RecvState
  <2> QED
    BY <2>1, <2>2
<1> QED
  BY <1>1, <1>2 DEF L2capRecv

\* Init establishes the type invariant.
LEMMA InitTypeOK == Init => TypeOK
<1> SUFFICES ASSUME Init PROVE TypeFlags /\ TypeData
  BY TypeSplit
<1>1. TypeFlags
  BY Zenon DEF Init, TypeFlags
<1>2. TypeData
  BY DEF Init, TypeData, Params, ObjStates, NULL
<1> QED
  BY <1>1, <1>2

\* bt_gatt_ots_oacp_write keeps the data within its types.
LEMMA WriteTypeData ==
    ASSUME TypeFlags, TypeData, bt_gatt_ots_oacp_write
    PROVE  TypeData'
<1> USE DEF TypeData
<1>1. PICK op \in ClientOps, off \in Params, len \in Params,
           mode \in SUBSET ModeBits, exactLen \in BOOLEAN, queued \in IndicateOutcomes :
           LET res == OacpStatus(op, off, len, mode) IN
           /\ oacp_command_len_verify(op, exactLen)
           /\ IF res = "SUCCESS" /\ op = "READ" THEN ReadAccept(off, len)
              ELSE IF res = "SUCCESS" THEN WriteAccept(off, len)
              ELSE UNCHANGED <<objState, opOffset, opLen, sentLen, recvLen, rxDone, closedCb>>
           /\ oacp_ind_send(op, res, queued)
           /\ cPhase' = "await"
           /\ cLeft' = len
  BY DEF bt_gatt_ots_oacp_write
<1>2. [op |-> op, res |-> OacpStatus(op, off, len, mode)] \in Response
  BY StatusType DEF Response, OacpOps
<1>3. /\ Len(indQueue) < MaxInd
      /\ UNCHANGED <<sizeCur, txChunk, txDone>>
  BY DEF bt_gatt_ots_oacp_write
<1>4. queued \in BOOLEAN
  BY DEF IndicateOutcomes
<1>5. indQueue' \in Seq(Response) /\ Len(indQueue') <= MaxInd
  <2>1. CASE queued
    BY <1>1, <1>2, <1>3, <2>1 DEF oacp_ind_send
  <2>2. CASE ~queued
    BY <1>1, <1>3, <2>2 DEF oacp_ind_send
  <2> QED
    BY <1>4, <2>1, <2>2
<1>6. /\ objState' \in ObjStates
      /\ opOffset' \in Params /\ opLen' \in Params /\ sentLen' \in Params
      /\ recvLen' \in 0..(SizeMod - 1)
      /\ rxDone' \in {NULL, "oacp_write_proc_cb"}
      /\ closedCb' \in {NULL, "oacp_l2cap_closed"}
  <2>1. CASE OacpStatus(op, off, len, mode) = "SUCCESS" /\ op = "READ"
    BY <1>1, <2>1 DEF ReadAccept, Params, ObjStates, NULL
  <2>2. CASE OacpStatus(op, off, len, mode) = "SUCCESS" /\ op # "READ"
    BY <1>1, <2>2 DEF WriteAccept, Params, ObjStates, NULL
  <2>3. CASE OacpStatus(op, off, len, mode) # "SUCCESS"
    BY <1>1, <2>3
  <2> QED
    BY <2>1, <2>2, <2>3
<1> QED
  BY <1>1, <1>3, <1>5, <1>6 DEF Params

\* oacp_write_proc_cb keeps the received count and the current size within
\* size_t.
LEMMA WriteCbData ==
    ASSUME TypeData, NEW n, oacp_write_proc_cb(n)
    PROVE  recvLen' \in 0..(SizeMod - 1) /\ sizeCur' \in 0..(SizeMod - 1)
<1>1. CASE ~(CurObjSelected /\ HasWriteCb)
  BY <1>1, Zenon DEF oacp_write_proc_cb, TypeData
<1>2. CASE CurObjSelected /\ HasWriteCb
  <2>1. PICK rc \in SinkResults(WriteChunkLen(n)) : WriteSink(n, rc)
    BY <1>2 DEF oacp_write_proc_cb
  <2>2. rc \in Int
    BY SizeModAssumption DEF SinkResults
  <2>3. /\ recvLen' = (recvLen + (IF rc < 0 THEN 0 ELSE rc)) % SizeMod
        /\ sizeCur' = SizeAfterWrite((((opOffset + recvLen) % SizeMod)
                                      + (IF rc < 0 THEN 0 ELSE rc)) % SizeMod)
    BY <2>1 DEF WriteSink
  <2>4. /\ recvLen \in Int /\ opOffset \in Int /\ sizeCur \in 0..(SizeMod - 1)
    BY DEF TypeData, Params
  <2> HIDE DEF SinkResults
  <2> QED
    BY <2>2, <2>3, <2>4, SizeModAssumption DEF SizeAfterWrite
<1> QED
  BY <1>1, <1>2

\* Every step preserves the type invariant.
LEMMA NextTypeOK == TypeOK /\ [Next]_vars => TypeOK'
<1> SUFFICES ASSUME TypeFlags, TypeData, [Next]_vars PROVE TypeFlags' /\ TypeData'
  BY Zenon DEF TypeOK, TypeFlags, TypeData
<1>1. TypeFlags'
  <2> USE DEF TypeFlags
  <2>1. CASE bt_gatt_ots_oacp_write
    BY <2>1, Zenon DEF bt_gatt_ots_oacp_write
  <2>2. CASE oacp_ind_cb
    BY <2>2, Zenon DEF oacp_ind_cb, oacp_read_proc_execute, oacp_read_proc_cb
  <2>3. CASE L2capSent
    BY <2>3, Zenon DEF L2capSent, oacp_read_proc_cb
  <2>4. CASE L2capRecv
    BY <2>4, RecvStep, Zenon DEF ChanStep
  <2>5. CASE L2capConnected
    BY <2>5, Zenon DEF L2capConnected, srvVars
  <2>6. CASE L2capDisconnected
    BY <2>6, ChannelDownState, Zenon DEF L2capDisconnected, ChanStep
  <2>7. CASE ClientSeesClose
    BY <2>7, Zenon DEF ClientSeesClose, srvVars, chanVars
  <2>8. CASE bt_gatt_ots_oacp_cfg_changed
    BY <2>8, Zenon DEF bt_gatt_ots_oacp_cfg_changed, chanVars
  <2>9. CASE UNCHANGED vars
    BY <2>9, Zenon DEF vars, srvVars, chanVars
  <2> QED
    BY <2>1, <2>2, <2>3, <2>4, <2>5, <2>6, <2>7, <2>8, <2>9 DEF Next
<1>2. TypeData'
  <2> USE DEF TypeData
  <2>1. CASE bt_gatt_ots_oacp_write
    BY <2>1, WriteTypeData
  <2>2. CASE oacp_ind_cb
    BY <2>2 DEF oacp_ind_cb, ClientOnResponse, oacp_read_proc_execute,
       oacp_read_proc_cb, ReadResults, ReadRequest, Params, ObjStates, NULL
  <2>3. CASE L2capSent
    BY <2>3 DEF L2capSent, ClientReceives, cliVars, oacp_read_proc_cb, ReadResults,
       ReadRequest, Params, ObjStates, NULL
  <2>4. CASE L2capRecv
    <3>1. objState' \in {objState, "IDLE"} /\ ChanStep
      BY <2>4, RecvStep
    <3>2. UNCHANGED <<opOffset, opLen, sentLen, txChunk, closedCb, indQueue>>
      BY <2>4, RecvStep
    <3>3. PICK n \in 1..MaxSdu :
            /\ ClientSends(n)
            /\ IF rxDone = "oacp_write_proc_cb"
               THEN oacp_write_proc_cb(n)
               ELSE /\ UNCHANGED <<recvLen, sizeCur>>
                    /\ RecvDone(objState)
      BY <2>4, RecvStep
    <3>4. recvLen' \in 0..(SizeMod - 1) /\ sizeCur' \in 0..(SizeMod - 1)
      <4>1. CASE rxDone = "oacp_write_proc_cb"
        BY <3>3, <4>1, WriteCbData
      <4>2. CASE rxDone # "oacp_write_proc_cb"
        BY <3>3, <4>2
      <4> QED
        BY <4>1, <4>2
    <3>5. cPhase' \in {"idle", "await", "reading", "writing"} /\ cLeft' \in Params
      BY <3>3 DEF ClientSends, cliVars, Params
    <3> QED
      BY <3>1, <3>2, <3>4, <3>5 DEF ChanStep, ObjStates, NULL
  <2>5. CASE L2capConnected
    BY <2>5 DEF L2capConnected, srvVars, cliVars
  <2>6. CASE L2capDisconnected
    <3>1. objState' \in {objState, "IDLE"} /\ ChanStep
      BY <2>6, ChannelDownState DEF L2capDisconnected
    <3> QED
      BY <2>6, <3>1 DEF L2capDisconnected, cliVars, ChanStep, ObjStates, NULL
  <2>7. CASE ClientSeesClose
    BY <2>7 DEF ClientSeesClose, srvVars, chanVars, Params
  <2>8. CASE bt_gatt_ots_oacp_cfg_changed
    BY <2>8 DEF bt_gatt_ots_oacp_cfg_changed, chanVars, cliVars
  <2>9. CASE UNCHANGED vars
    BY <2>9 DEF vars, srvVars, chanVars, cliVars
  <2> QED
    BY <2>1, <2>2, <2>3, <2>4, <2>5, <2>6, <2>7, <2>8, <2>9 DEF Next
<1> QED
  BY <1>1, <1>2

\* Type correctness: every handler of ots_oacp.c and every event of its
\* collaborators keeps each variable within its type; in particular the
\* size_t arithmetic of oacp_write_proc_cb stays modulo SizeMod, the read
\* engine never hands the channel more than the remaining length, and the
\* GATT queue holds at most MaxInd well-formed responses.
THEOREM TypeCorrect == Spec => []TypeOK
BY InitTypeOK, NextTypeOK, PTL DEF Spec

-----------------------------------------------------------------------------
(***************************************************************************)
(* The object stays within its allocation.                                 *)
(***************************************************************************)

\* An accepted Read lies inside the object's current size.
LEMMA ReadAcceptRange ==
    ASSUME TypeData, NEW off \in Params, NEW len \in Params,
           oacp_read_proc_validate(off, len) = "SUCCESS"
    PROVE  off + len <= sizeCur
BY DEF oacp_read_proc_validate, TypeData, Params

\* An accepted Write lies inside the object's allocation.
LEMMA WriteAcceptRange ==
    ASSUME TypeData, NEW off \in Params, NEW len \in Params, NEW mode,
           oacp_write_proc_validate(off, len, mode) = "SUCCESS"
    PROVE  off + len <= Alloc
BY DEF oacp_write_proc_validate, TypeData, Params

\* A command indicated with "SUCCESS" is a Read or a Write that its
\* validation accepted.
LEMMA StatusSuccess ==
    ASSUME NEW op, NEW off, NEW len, NEW mode,
           OacpStatus(op, off, len, mode) = "SUCCESS"
    PROVE  \/ op = "READ" /\ oacp_read_proc_validate(off, len) = "SUCCESS"
           \/ op = "WRITE" /\ oacp_write_proc_validate(off, len, mode) = "SUCCESS"
BY DEF OacpStatus, oacp_command_decode, oacp_proc_validate

\* Reduction modulo SizeMod leaves a value below SizeMod alone.
LEMMA ModSmall ==
    ASSUME NEW x \in 0..(SizeMod - 1)
    PROVE  x % SizeMod = x
BY SizeModAssumption

\* The conjuncts of SizeBoundInv beyond the type invariant.
SizeBoundRest ==
    /\ SizeWithinAlloc
    /\ opOffset + opLen <= Alloc
    /\ Len(indQueue) <= 1
    /\ cPhase # "await" => indQueue = <<>>
    /\ (cPhase = "writing" \/ (indQueue # <<>> /\ Head(indQueue) = WriteAccepted))
          => recvLen <= opLen

LEMMA SizeBoundSplit == SizeBoundInv <=> TypeOK /\ SizeBoundRest
BY Zenon DEF SizeBoundInv, SizeBoundRest

\* The data sink reports an error or accepts at most what it was given.
LEMMA SinkRange ==
    ASSUME NEW len \in Nat, NEW rc \in SinkResults(len)
    PROVE  rc = -1 \/ rc \in 0..len
BY MaxSduAssumption DEF SinkResults

\* The length oacp_write_proc_cb forwards never runs past the declared
\* length when the received count rl is within the declared length ol.
LEMMA ChunkLenRange ==
    ASSUME NEW rl \in 0..(SizeMod - 1), NEW ol \in Params, rl <= ol, NEW n \in 1..MaxSdu
    PROVE  (IF (rl + n) % SizeMod > ol THEN (ol - rl) % SizeMod ELSE n) \in 0..(ol - rl)
<1>1. (ol - rl) % SizeMod = ol - rl
  BY ModSmall DEF Params
<1>2. (rl + n) % SizeMod = rl + n
  <2>1. rl + n \in 0..(SizeMod - 1)
    BY SizeModAssumption DEF Params
  <2> QED
    BY <2>1, ModSmall
<1> QED
  BY <1>1, <1>2 DEF Params

\* The size_t arithmetic of oacp_write_proc_cb for a forwarded length len
\* within the rest of the declared length ol, when the received count rl
\* is within ol and the range lies inside the allocation: the count stays
\* within the length and the end of what the sink wrote stays inside the
\* allocation.
LEMMA WriteArith ==
    ASSUME NEW off \in Params, NEW rl \in 0..(SizeMod - 1), NEW ol \in Params,
           NEW sc \in Int, off + ol <= Alloc, rl <= ol, sc <= Alloc,
           NEW len \in 0..(ol - rl), NEW rc \in {-1} \cup 0..len
    PROVE  LET acc == IF rc < 0 THEN 0 ELSE rc
               end == (((off + rl) % SizeMod) + acc) % SizeMod
           IN  /\ (rl + acc) % SizeMod <= ol
               /\ (IF end > sc THEN end ELSE sc) <= Alloc
<1> DEFINE acc == IF rc < 0 THEN 0 ELSE rc
<1>1. acc \in 0..(ol - rl)
  <2>1. rc = -1 \/ rc \in 0..len
    OBVIOUS
  <2>2. CASE rc = -1
    BY <2>2 DEF Params, acc
  <2>3. CASE rc \in 0..len
    BY <2>3 DEF Params, acc
  <2> QED
    BY <2>1, <2>2, <2>3
<1>2. /\ rl + acc \in 0..(SizeMod - 1)
      /\ off + rl \in 0..(SizeMod - 1)
      /\ off + rl + acc \in 0..(SizeMod - 1)
  <2>1. acc \in Nat /\ rl + acc <= ol
    BY <1>1 DEF Params
  <2>2. Alloc < SizeMod
    OBVIOUS
  <2> QED
    BY <2>1, <2>2 DEF Params
<1>3. /\ (rl + acc) % SizeMod = rl + acc
      /\ (off + rl) % SizeMod = off + rl
      /\ (off + rl + acc) % SizeMod = off + rl + acc
  BY <1>2, ModSmall
<1>4. (((off + rl) % SizeMod) + acc) % SizeMod = off + rl + acc
  BY <1>3
<1>5. (rl + acc) % SizeMod <= ol
  BY <1>1, <1>3 DEF Params
<1>6. LET end == (((off + rl) % SizeMod) + acc) % SizeMod
      IN (IF end > sc THEN end ELSE sc) <= Alloc
  BY <1>2, <1>4 DEF Params
<1> QED
  BY <1>5, <1>6 DEF acc

\* oacp_write_proc_cb, run for a conforming client's SDU while the
\* received count is within the declared length, writes inside the
\* declared range and keeps the count within the length.
LEMMA WriteCbBound ==
    ASSUME TypeData, SizeBoundRest, recvLen <= opLen, NEW n \in 1..MaxSdu,
           oacp_write_proc_cb(n)
    PROVE  recvLen' <= opLen /\ sizeCur' <= Alloc
<1>1. opOffset + opLen <= Alloc /\ sizeCur <= Alloc
  BY DEF SizeBoundRest, SizeWithinAlloc
<1>2. CASE ~CurObjSelected \/ ~HasWriteCb
  BY <1>1, <1>2, Zenon DEF oacp_write_proc_cb
<1>3. CASE CurObjSelected /\ HasWriteCb
  <2>1. PICK rc \in SinkResults(WriteChunkLen(n)) :
           LET acc == IF rc < 0 THEN 0 ELSE rc
               recv == (recvLen + acc) % SizeMod
           IN /\ recvLen' = recv
              /\ sizeCur' = SizeAfterWrite((((opOffset + recvLen) % SizeMod) + acc) % SizeMod)
    <3>1. PICK rc \in SinkResults(WriteChunkLen(n)) : WriteSink(n, rc)
      BY <1>3 DEF oacp_write_proc_cb
    <3> QED
      BY <3>1 DEF WriteSink
  <2> QED
    <3>1. WriteChunkLen(n) \in 0..(opLen - recvLen)
      BY ChunkLenRange DEF WriteChunkLen, TypeData
    <3>2. rc \in {-1} \cup 0..WriteChunkLen(n)
      BY <3>1, SinkRange
    <3> QED
      BY <1>1, <2>1, <3>1, <3>2, WriteArith DEF SizeAfterWrite, TypeData
<1> QED
  BY <1>2, <1>3

\* Init establishes the strengthened invariant.
LEMMA InitSizeBound == Init => SizeBoundInv
<1> SUFFICES ASSUME Init PROVE TypeOK /\ SizeBoundRest
  BY SizeBoundSplit
<1>1. TypeOK
  BY InitTypeOK
<1>2. SizeBoundRest
  BY DEF Init, SizeBoundRest, SizeWithinAlloc
<1> QED
  BY <1>1, <1>2

\* For a conforming client, bt_gatt_ots_oacp_write preserves the
\* strengthened invariant: the client writes only with no response
\* outstanding, and an accepted range lies inside the object.
LEMMA WriteSizeBound ==
    ASSUME ConformingClient, TypeData, SizeBoundRest, bt_gatt_ots_oacp_write
    PROVE  SizeBoundRest'
<1>1. cPhase = "idle"
  BY Zenon DEF bt_gatt_ots_oacp_write, ClientGuard
<1>2. indQueue = <<>> /\ sizeCur <= Alloc /\ UNCHANGED sizeCur
  BY <1>1 DEF SizeBoundRest, SizeWithinAlloc, bt_gatt_ots_oacp_write
<1>3. PICK op \in ClientOps, off \in Params, len \in Params,
           mode \in SUBSET ModeBits, exactLen \in BOOLEAN, queued \in IndicateOutcomes :
           LET res == OacpStatus(op, off, len, mode) IN
           /\ oacp_command_len_verify(op, exactLen)
           /\ IF res = "SUCCESS" /\ op = "READ" THEN ReadAccept(off, len)
              ELSE IF res = "SUCCESS" THEN WriteAccept(off, len)
              ELSE UNCHANGED <<objState, opOffset, opLen, sentLen, recvLen, rxDone, closedCb>>
           /\ oacp_ind_send(op, res, queued)
           /\ cPhase' = "await"
           /\ cLeft' = len
  BY DEF bt_gatt_ots_oacp_write
<1> DEFINE res == OacpStatus(op, off, len, mode)
<1>4. queued \in BOOLEAN
  BY DEF IndicateOutcomes
<1>5. indQueue' = IF queued THEN <<[op |-> op, res |-> res]>> ELSE <<>>
  BY <1>2, <1>3, <1>4 DEF oacp_ind_send
<1>6. opOffset' + opLen' <= Alloc
  <2>1. CASE res = "SUCCESS" /\ op = "READ"
    <3>1. oacp_read_proc_validate(off, len) = "SUCCESS"
      BY <2>1, StatusSuccess
    <3>2. off + len <= sizeCur
      BY <3>1, ReadAcceptRange
    <3>3. opOffset' = off /\ opLen' = len
      BY <1>3, <2>1 DEF ReadAccept, res
    <3> QED
      BY <1>2, <3>2, <3>3 DEF Params, TypeData
  <2>2. CASE res = "SUCCESS" /\ op # "READ"
    <3>1. oacp_write_proc_validate(off, len, mode) = "SUCCESS"
      BY <2>2, StatusSuccess
    <3> QED
      BY <1>3, <2>2, <3>1, WriteAcceptRange DEF WriteAccept
  <2>3. CASE res # "SUCCESS"
    BY <1>3, <2>3 DEF SizeBoundRest
  <2> QED
    BY <2>1, <2>2, <2>3
<1>7. (indQueue' # <<>> /\ Head(indQueue') = WriteAccepted) => recvLen' <= opLen'
  <2> SUFFICES ASSUME indQueue' # <<>>, Head(indQueue') = WriteAccepted
               PROVE  recvLen' <= opLen'
    OBVIOUS
  <2>1. res = "SUCCESS" /\ op = "WRITE"
    BY <1>4, <1>5 DEF WriteAccepted
  <2> QED
    BY <1>3, <2>1 DEF WriteAccept, Params
<1> QED
  BY <1>2, <1>3, <1>4, <1>5, <1>6, <1>7 DEF SizeBoundRest, SizeWithinAlloc

\* For a conforming client every step preserves the strengthened invariant.
LEMMA NextSizeBound ==
    ASSUME ConformingClient, SizeBoundInv, [Next]_vars
    PROVE  SizeBoundInv'
<1>1. TypeOK /\ TypeData /\ SizeBoundRest
  BY SizeBoundSplit, TypeSplit
<1>2. TypeOK'
  BY <1>1, NextTypeOK
<1>3. SizeBoundRest'
  <2> USE <1>1
  <2>1. CASE bt_gatt_ots_oacp_write
    BY <2>1, WriteSizeBound
  <2>2. CASE oacp_ind_cb
    <3>1. indQueue # <<>> /\ indQueue' = Tail(indQueue)
      BY <2>2 DEF oacp_ind_cb
    <3>2. indQueue' = <<>>
      BY <3>1 DEF SizeBoundRest, TypeData
    <3>3. UNCHANGED <<opOffset, opLen, recvLen, sizeCur>>
      BY <2>2 DEF oacp_ind_cb
    <3>4. cPhase' = "writing" => Head(indQueue) = WriteAccepted
      <4>1. Head(indQueue) \in Response
        BY <3>1 DEF TypeData
      <4>2. cPhase' = "writing" => Head(indQueue).op = "WRITE" /\ Head(indQueue).res = "SUCCESS"
        BY <2>2 DEF oacp_ind_cb, ClientOnResponse
      <4> QED
        BY <4>1, <4>2 DEF Response, WriteAccepted
    <3> QED
      BY <3>1, <3>2, <3>3, <3>4 DEF SizeBoundRest, SizeWithinAlloc
  <2>3. CASE L2capSent
    <3>1. /\ cPhase' = "writing" => cPhase = "writing"
          /\ cPhase' # "await" => cPhase # "await"
      BY <2>3 DEF L2capSent, ClientReceives, cliVars
    <3>2. UNCHANGED <<opOffset, opLen, recvLen, sizeCur, indQueue>>
      BY <2>3 DEF L2capSent
    <3> QED
      BY <3>1, <3>2 DEF SizeBoundRest, SizeWithinAlloc
  <2>4. CASE L2capRecv
    <3>1. cPhase = "writing"
      BY <2>4, Zenon DEF L2capRecv, ClientGuard
    <3>2. indQueue = <<>> /\ recvLen <= opLen
      BY <3>1 DEF SizeBoundRest
    <3>3. UNCHANGED <<opOffset, opLen, indQueue>>
      BY <2>4 DEF L2capRecv
    <3>4. PICK n \in 1..MaxSdu :
            IF rxDone = "oacp_write_proc_cb"
            THEN oacp_write_proc_cb(n)
            ELSE UNCHANGED <<recvLen, sizeCur>>
      BY <2>4 DEF L2capRecv
    <3>5. recvLen' <= opLen /\ sizeCur' <= Alloc
      <4>1. CASE rxDone = "oacp_write_proc_cb"
        BY <3>2, <3>4, <4>1, WriteCbBound
      <4>2. CASE rxDone # "oacp_write_proc_cb"
        BY <3>2, <3>4, <4>2 DEF SizeBoundRest, SizeWithinAlloc
      <4> QED
        BY <4>1, <4>2
    <3> QED
      BY <3>2, <3>3, <3>5 DEF SizeBoundRest, SizeWithinAlloc
  <2>5. CASE L2capConnected
    BY <2>5 DEF L2capConnected, srvVars, cliVars, SizeBoundRest, SizeWithinAlloc
  <2>6. CASE L2capDisconnected
    BY <2>6 DEF L2capDisconnected, cliVars, SizeBoundRest, SizeWithinAlloc
  <2>7. CASE ClientSeesClose
    BY <2>7 DEF ClientSeesClose, srvVars, SizeBoundRest, SizeWithinAlloc
  <2>8. CASE bt_gatt_ots_oacp_cfg_changed
    BY <2>8 DEF bt_gatt_ots_oacp_cfg_changed, cliVars, SizeBoundRest, SizeWithinAlloc
  <2>9. CASE UNCHANGED vars
    BY <2>9 DEF vars, srvVars, cliVars, SizeBoundRest, SizeWithinAlloc
  <2> QED
    BY <2>1, <2>2, <2>3, <2>4, <2>5, <2>6, <2>7, <2>8, <2>9 DEF Next
<1> QED
  BY <1>2, <1>3, Zenon DEF SizeBoundInv, SizeBoundRest

\* The object never grows past its allocation (SizeWithinAlloc) for any
\* allocation, SDU size and size_t width, as long as the client runs one
\* procedure at a time and sends only the data of an accepted Write: the
\* "append is not supported" check of oacp_write_proc_validate and the cut
\* of oacp_write_proc_cb keep every byte the sink is given inside
\* metadata.size.alloc.
THEOREM SizeSafe ==
    ASSUME ConformingClient
    PROVE  Spec => []SizeWithinAlloc
<1>1. SizeBoundInv => SizeWithinAlloc
  BY DEF SizeBoundInv
<1>2. SizeBoundInv /\ [Next]_vars => SizeBoundInv'
  BY NextSizeBound
<1> QED
  BY InitSizeBound, <1>1, <1>2, PTL DEF Spec
=============================================================================
