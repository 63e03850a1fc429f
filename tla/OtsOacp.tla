------------------------------ MODULE OtsOacp ------------------------------
(***************************************************************************)
(* The Object Action Control Point (OACP) of the Bluetooth Object Transfer *)
(* Service, src/subsys/bluetooth/services/ots/ots_oacp.c, together with    *)
(* the collaborators whose callbacks drive it: the GATT indication queue   *)
(* (oacp_ind_cb runs when the client confirms an indication), the L2CAP    *)
(* connection-oriented channel (tx_done, rx_done and closed callbacks) and *)
(* a client.  All handlers run on the Bluetooth stack's single dispatch    *)
(* context, so each handler is one atomic step; the interleaving that      *)
(* matters is the order in which the stack delivers writes, indication    *)
(* confirmations and channel events.                                       *)
(*                                                                         *)
(* Data is abstracted to lengths: an object is its current size and its    *)
(* allocated size, a chunk is its length.                                  *)
(***************************************************************************)
EXTENDS Integers, Sequences

CONSTANTS
    Alloc,            \* cur_obj->metadata.size.alloc
    SizeMod,          \* 2^w: the uint32/size_t arithmetic of oacp_write_proc_cb wraps modulo SizeMod
    MaxSdu,           \* bound: the longest L2CAP SDU the client sends
    MaxInd,           \* bound: indications queued at the GATT layer
    ObjProps,         \* properties of the current object, a subset of {"read", "write", "patch"}
    FeatPatch,        \* BT_OTS_OACP_GET_FEAT_PATCH(ots->features.oacp)
    WriteSupport,     \* CONFIG_BT_OTS_OACP_WRITE_SUPPORT
    CurObjSelected,   \* ots->cur_obj != NULL
    DirListObj,       \* CONFIG_BT_OTS_DIR_LIST_OBJ and cur_obj->id == OTS_OBJ_ID_DIR_LIST
    HasReadCb,        \* ots->cb->obj_read != NULL
    HasWriteCb,       \* ots->cb->obj_write != NULL
    IndicateMayFail,  \* bt_gatt_indicate may fail; oacp_ind_send's result is ignored
    ConformingClient, \* the client runs one procedure at a time and sends what it declared
    ClientOps         \* the opcodes the client writes to the control point

ASSUME AllocAssumption == Alloc \in Nat
ASSUME MaxSduAssumption == MaxSdu \in Nat \ {0}
ASSUME SizeModAssumption == SizeMod \in Nat /\ SizeMod > 2 * (Alloc + MaxSdu)
ASSUME MaxIndAssumption == MaxInd \in Nat \ {0}
ASSUME FlagsAssumption ==
    {FeatPatch, WriteSupport, CurObjSelected, DirListObj, HasReadCb,
     HasWriteCb, IndicateMayFail, ConformingClient} \subseteq BOOLEAN

\* enum bt_gatt_ots_oacp_proc_type; UNKNOWN stands for every other byte value.
OacpOps == {"CREATE", "DELETE", "CHECKSUM_CALC", "EXECUTE", "READ", "WRITE",
            "ABORT", "UNKNOWN"}

ASSUME ClientOpsAssumption == ClientOps \subseteq OacpOps /\ ObjProps \subseteq {"read", "write", "patch"}

\* enum bt_gatt_ots_oacp_res_code, the codes this file produces.
ResCodes == {"SUCCESS", "OPCODE_NOT_SUP", "INV_PARAM", "INV_OBJ",
             "CHAN_UNAVAIL", "OBJ_LOCKED", "NOT_PERMITTED"}

\* enum bt_gatt_ots_object_state_type.
ObjStates == {"IDLE", "READ_OP", "WRITE_OP"}

\* Bits of the Write procedure's mode byte the code tests.
ModeBits == {"TRUNC", "RFU"}

\* Offsets and lengths the client puts in a command.
Params == 0..Alloc

\* The callback pointers of struct bt_gatt_ots_l2cap.
NULL == "NULL"

VARIABLES
    indEnabled,   \* ots->oacp_ind.is_enabled
    objState,     \* cur_obj->state.type
    opOffset,     \* state.read_op/write_op.oacp_params.offset (same place in the union)
    opLen,        \* state.read_op/write_op.oacp_params.len (same place in the union)
    sentLen,      \* state.read_op.sent_len
    recvLen,      \* state.write_op.recv_len
    sizeCur,      \* cur_obj->metadata.size.cur
    chanOpen,     \* bt_gatt_ots_l2cap_is_open(&ots->l2cap, conn)
    txBusy,       \* an SDU handed to bt_gatt_ots_l2cap_send is not yet sent
    txChunk,      \* the length of that SDU
    rxDone,       \* ots->l2cap.rx_done
    txDone,       \* ots->l2cap.tx_done
    closedCb,     \* ots->l2cap.closed
    indQueue,     \* OACP responses queued by bt_gatt_indicate, not yet confirmed
    fault,        \* a NULL cur_obj was dereferenced
    cPhase,       \* the client: "idle", "await" (a response), "reading", "writing"
    cLeft         \* the client: bytes of its procedure still to receive or send

srvVars == <<indEnabled, objState, opOffset, opLen, sentLen, recvLen, sizeCur>>
chanVars == <<chanOpen, txBusy, txChunk, rxDone, txDone, closedCb>>
cliVars == <<cPhase, cLeft>>
vars == <<srvVars, chanVars, indQueue, fault, cliVars>>

Response == [op : OacpOps, res : ResCodes]

TypeOK ==
    /\ indEnabled \in BOOLEAN
    /\ objState \in ObjStates
    /\ opOffset \in Params
    /\ opLen \in Params
    /\ sentLen \in Params
    /\ recvLen \in 0..(SizeMod - 1)
    /\ sizeCur \in 0..(SizeMod - 1)
    /\ chanOpen \in BOOLEAN
    /\ txBusy \in BOOLEAN
    /\ txChunk \in Params
    /\ rxDone \in {NULL, "oacp_write_proc_cb"}
    /\ txDone \in {NULL, "oacp_read_proc_cb"}
    /\ closedCb \in {NULL, "oacp_l2cap_closed"}
    /\ indQueue \in Seq(Response)
    /\ Len(indQueue) <= MaxInd
    /\ fault \in BOOLEAN
    /\ cPhase \in {"idle", "await", "reading", "writing"}
    /\ cLeft \in Params

Init ==
    /\ indEnabled \in BOOLEAN
    /\ objState = "IDLE"
    /\ opOffset = 0
    /\ opLen = 0
    /\ sentLen = 0
    /\ recvLen = 0
    /\ sizeCur \in 0..Alloc
    /\ chanOpen = FALSE
    /\ txBusy = FALSE
    /\ txChunk = 0
    /\ rxDone = NULL
    /\ txDone = NULL
    /\ closedCb = NULL
    /\ indQueue = <<>>
    /\ fault = FALSE
    /\ cPhase = "idle"
    /\ cLeft = 0

-----------------------------------------------------------------------------
(***************************************************************************)
(* Codec and validation.                                                   *)
(***************************************************************************)

\* oacp_command_decode: only Read, and Write when compiled in, decode.
oacp_command_decode(op) ==
    IF op = "READ" \/ (op = "WRITE" /\ WriteSupport)
    THEN "SUCCESS" ELSE "OPCODE_NOT_SUP"

\* oacp_command_len_verify: exactLen says whether the wire length equals the
\* opcode's reference length; an unknown opcode passes whatever its length.
oacp_command_len_verify(op, exactLen) == op = "UNKNOWN" \/ exactLen

\* Each validation below returns the code of the first check that fails,
\* in the order of the code's early returns, and "SUCCESS" when none does.

\* Fault variant: the range check compares with the allocated size.
oacp_read_proc_validate_alloc(off, len) ==
    IF ~CurObjSelected THEN "INV_OBJ"
    ELSE IF "read" \notin ObjProps THEN "NOT_PERMITTED"
    ELSE IF ~chanOpen THEN "CHAN_UNAVAIL"
    ELSE IF off + len > Alloc THEN "INV_PARAM"
    ELSE IF objState # "IDLE" THEN "OBJ_LOCKED"
    ELSE "SUCCESS"

\* oacp_read_proc_validate.
oacp_read_proc_validate(off, len) ==
    IF ~CurObjSelected THEN "INV_OBJ"
    ELSE IF "read" \notin ObjProps THEN "NOT_PERMITTED"
    ELSE IF ~chanOpen THEN "CHAN_UNAVAIL"
    ELSE IF off + len > sizeCur THEN "INV_PARAM"
    ELSE IF objState # "IDLE" THEN "OBJ_LOCKED"
    ELSE "SUCCESS"

\* Fault variant: the "append is not supported" check is missing.
oacp_write_proc_validate_noalloc(off, len, mode) ==
    IF ~CurObjSelected THEN "INV_OBJ"
    ELSE IF "write" \notin ObjProps THEN "NOT_PERMITTED"
    ELSE IF off < sizeCur /\ ~FeatPatch THEN "NOT_PERMITTED"
    ELSE IF off < sizeCur /\ "patch" \notin ObjProps THEN "NOT_PERMITTED"
    ELSE IF "TRUNC" \in mode THEN "NOT_PERMITTED"
    ELSE IF ~chanOpen THEN "CHAN_UNAVAIL"
    ELSE IF "RFU" \in mode THEN "INV_PARAM"
    ELSE IF off > sizeCur THEN "INV_PARAM"
    ELSE IF objState # "IDLE" THEN "OBJ_LOCKED"
    ELSE "SUCCESS"

\* oacp_write_proc_validate.
oacp_write_proc_validate(off, len, mode) ==
    IF ~CurObjSelected THEN "INV_OBJ"
    ELSE IF "write" \notin ObjProps THEN "NOT_PERMITTED"
    ELSE IF off < sizeCur /\ ~FeatPatch THEN "NOT_PERMITTED"
    ELSE IF off < sizeCur /\ "patch" \notin ObjProps THEN "NOT_PERMITTED"
    ELSE IF "TRUNC" \in mode THEN "NOT_PERMITTED"
    ELSE IF ~chanOpen THEN "CHAN_UNAVAIL"
    ELSE IF "RFU" \in mode THEN "INV_PARAM"
    ELSE IF off > sizeCur THEN "INV_PARAM"
    ELSE IF off + len > Alloc THEN "INV_PARAM"
    ELSE IF objState # "IDLE" THEN "OBJ_LOCKED"
    ELSE "SUCCESS"

\* oacp_proc_validate: dispatch on the opcode of a decoded command.
oacp_proc_validate(op, off, len, mode) ==
    CASE op = "READ" -> oacp_read_proc_validate(off, len)
      [] op = "WRITE" /\ WriteSupport -> oacp_write_proc_validate(off, len, mode)
      [] OTHER -> "OPCODE_NOT_SUP"

\* The result indicated for a command that passed the length check.
OacpStatus(op, off, len, mode) ==
    IF oacp_command_decode(op) = "SUCCESS"
    THEN oacp_proc_validate(op, off, len, mode)
    ELSE oacp_command_decode(op)

-----------------------------------------------------------------------------
(***************************************************************************)
(* The client.  A conforming client writes a command only when it has no   *)
(* procedure running, and sends on the channel only while it is writing    *)
(* the data of an accepted Write (its last SDU may run past the declared   *)
(* length).  Otherwise it may write and send at any time.                  *)
(***************************************************************************)

ClientGuard(cond) == ~ConformingClient \/ cond

\* The client takes in the response to its procedure.
ClientOnResponse(r) ==
    /\ cPhase' = IF r.res = "SUCCESS" /\ cLeft > 0 /\ r.op = "READ" THEN "reading"
                 ELSE IF r.res = "SUCCESS" /\ cLeft > 0 /\ r.op = "WRITE" THEN "writing"
                 ELSE "idle"
    /\ UNCHANGED cLeft

\* The client takes in an SDU of n bytes of a Read.
ClientReceives(n) ==
    IF cPhase = "reading"
    THEN /\ cLeft' = IF n >= cLeft THEN 0 ELSE cLeft - n
         /\ cPhase' = IF n >= cLeft THEN "idle" ELSE "reading"
    ELSE UNCHANGED cliVars

\* The client sends an SDU of n bytes of a Write.
ClientSends(n) ==
    IF cPhase = "writing"
    THEN /\ cLeft' = IF n >= cLeft THEN 0 ELSE cLeft - n
         /\ cPhase' = IF n >= cLeft THEN "idle" ELSE "writing"
    ELSE UNCHANGED cliVars

-----------------------------------------------------------------------------
(***************************************************************************)
(* The handlers.                                                           *)
(***************************************************************************)

\* Outcomes of bt_gatt_indicate.
IndicateOutcomes == IF IndicateMayFail THEN BOOLEAN ELSE {TRUE}

\* oacp_ind_send: queue the response; when bt_gatt_indicate fails the
\* response is lost and nothing else happens.
oacp_ind_send(op, res, queued) ==
    indQueue' = IF queued THEN Append(indQueue, [op |-> op, res |-> res])
                ELSE indQueue

ReadAccept_keep(off, len) ==
    /\ objState' = "READ_OP"
    /\ opOffset' = off
    /\ opLen' = len
    /\ UNCHANGED <<sentLen, recvLen, rxDone, closedCb>>

\* The state change of an accepted Read (oacp_read_proc_validate).
ReadAccept(off, len) ==
    /\ objState' = "READ_OP"
    /\ sentLen' = 0
    /\ opOffset' = off
    /\ opLen' = len
    /\ UNCHANGED <<recvLen, rxDone, closedCb>>

\* The state change of an accepted Write (oacp_write_proc_validate): the
\* channel's receive and close callbacks are bound to this file.  The
\* union that holds sent_len and recv_len is declared in a header that is
\* not in the repository, so sent_len is kept as it was; the mapping and
\* the properties read it only during a Read.
WriteAccept(off, len) ==
    /\ rxDone' = "oacp_write_proc_cb"
    /\ closedCb' = "oacp_l2cap_closed"
    /\ objState' = "WRITE_OP"
    /\ recvLen' = 0
    /\ opOffset' = off
    /\ opLen' = len
    /\ UNCHANGED sentLen

\* bt_gatt_ots_oacp_write: the client writes a command to the control point.
\* A write refused with an ATT error (indications disabled, non-zero
\* attribute offset, wrong length) changes nothing and is a stutter step;
\* every other write is answered by an indication.  The guard on MaxInd is
\* the model's bound on the GATT layer's queue, not a check of the code.
bt_gatt_ots_oacp_write ==
    /\ ClientGuard(cPhase = "idle")
    /\ Len(indQueue) < MaxInd
    /\ indEnabled
    /\ \E op \in ClientOps, off \in Params, len \in Params,
          mode \in SUBSET ModeBits, exactLen \in BOOLEAN, queued \in IndicateOutcomes :
          LET res == OacpStatus(op, off, len, mode) IN
          /\ oacp_command_len_verify(op, exactLen)
          /\ IF res = "SUCCESS" /\ op = "READ" THEN ReadAccept(off, len)
             ELSE IF res = "SUCCESS" THEN WriteAccept(off, len)
             ELSE UNCHANGED <<objState, opOffset, opLen, sentLen, recvLen, rxDone, closedCb>>
          /\ oacp_ind_send(op, res, queued)
          /\ cPhase' = "await"
          /\ cLeft' = len
    /\ UNCHANGED <<indEnabled, sizeCur, chanOpen, txBusy, txChunk, txDone, fault>>

\* What the object's data source returns when asked for req bytes: an
\* error, or up to req bytes (0 sends an empty SDU and asks again).
ReadResults(req) == {-1} \cup 0..req

\* Fault variant: the chunk asked for is the whole length, not what is left.
ReadRequest_whole == opLen

\* The number of bytes oacp_read_proc_cb asks the data source for.
ReadRequest == opLen - sentLen

\* oacp_read_proc_cb; busy says whether an SDU handed to
\* bt_gatt_ots_l2cap_send is still being sent, in which case a new send
\* fails (the channel has one transmit buffer).
oacp_read_proc_cb(busy) ==
    IF sentLen >= opLen
    THEN /\ objState' = "IDLE"
         /\ txBusy' = busy
         /\ UNCHANGED <<sentLen, txChunk, txDone, chanOpen, rxDone>>
    ELSE \E len \in ReadResults(ReadRequest) :
         IF len < 0
         THEN \* bt_gatt_ots_l2cap_disconnect: the channel goes down and
              \* its closed callback, when bound, runs.
              /\ objState' = "IDLE"
              /\ chanOpen' = FALSE
              /\ txBusy' = FALSE
              /\ IF chanOpen /\ closedCb = "oacp_l2cap_closed"
                 THEN rxDone' = NULL /\ txDone' = NULL
                 ELSE UNCHANGED <<rxDone, txDone>>
              /\ UNCHANGED <<sentLen, txChunk>>
         ELSE /\ txDone' = "oacp_read_proc_cb"
              /\ IF chanOpen /\ ~busy
                 THEN /\ sentLen' = sentLen + len
                      /\ txBusy' = TRUE
                      /\ txChunk' = len
                      /\ UNCHANGED objState
                 ELSE /\ objState' = "IDLE"
                      /\ txBusy' = busy
                      /\ UNCHANGED <<sentLen, txChunk>>
              /\ UNCHANGED <<chanOpen, rxDone>>

\* oacp_read_proc_execute.
oacp_read_proc_execute(busy) ==
    IF DirListObj \/ HasReadCb
    THEN oacp_read_proc_cb(busy)
    ELSE /\ objState' = "IDLE"
         /\ UNCHANGED <<sentLen, txBusy, txChunk, txDone, chanOpen, rxDone>>

\* oacp_ind_cb: the client confirms the oldest queued indication.  The
\* callback dispatches on the object's current state, whatever the
\* response was, and reads ots->cur_obj without checking it.
oacp_ind_cb ==
    /\ indQueue # <<>>
    /\ indQueue' = Tail(indQueue)
    /\ ClientOnResponse(Head(indQueue))
    /\ IF ~CurObjSelected
       THEN /\ fault' = TRUE
            /\ UNCHANGED <<objState, sentLen, txBusy, txChunk, txDone, chanOpen, rxDone>>
       ELSE /\ UNCHANGED fault
            /\ IF objState = "READ_OP"
               THEN oacp_read_proc_execute(txBusy)
               ELSE UNCHANGED <<objState, sentLen, txBusy, txChunk, txDone, chanOpen, rxDone>>
    /\ UNCHANGED <<indEnabled, opOffset, opLen, recvLen, sizeCur, closedCb>>

\* The channel's sent callback: the SDU is out, tx_done runs.
L2capSent ==
    /\ txBusy
    /\ ClientReceives(txChunk)
    /\ IF txDone = "oacp_read_proc_cb"
       THEN oacp_read_proc_cb(FALSE)
       ELSE /\ txBusy' = FALSE
            /\ UNCHANGED <<objState, sentLen, txChunk, txDone, chanOpen, rxDone>>
    /\ UNCHANGED <<indEnabled, opOffset, opLen, recvLen, sizeCur, closedCb, indQueue, fault>>

\* Fault variant: the cut keeps one byte less than the declared length.
WriteChunkLen_short(n) ==
    IF (recvLen + n) % SizeMod > opLen THEN (opLen - recvLen - 1) % SizeMod ELSE n

\* The length oacp_write_proc_cb forwards of an SDU of n bytes: the excess
\* over the declared length is cut, in size_t arithmetic.
WriteChunkLen(n) ==
    IF (recvLen + n) % SizeMod > opLen THEN (opLen - recvLen) % SizeMod ELSE n

\* What the object's data sink returns for len bytes: an error, a short
\* write or all of them.
SinkResults(len) == {-1, len} \cup 0..(IF len < MaxSdu THEN len ELSE MaxSdu)

\* Fault variant: the current size is not extended.
SizeAfterWrite_fixed(end) == sizeCur

\* The current size after bytes were written up to end.
SizeAfterWrite(end) == IF end > sizeCur THEN end ELSE sizeCur

\* oacp_l2cap_closed, run when the object is in state st.
oacp_l2cap_closed(st) ==
    IF CurObjSelected
    THEN /\ objState' = "IDLE"
         /\ rxDone' = NULL
         /\ txDone' = NULL
    ELSE /\ objState' = st
         /\ UNCHANGED <<rxDone, txDone>>

\* The channel goes down while the object is in state st: an SDU being sent
\* is lost and the closed callback, when bound, runs.
ChannelDown(st) ==
    /\ chanOpen' = FALSE
    /\ txBusy' = FALSE
    /\ IF closedCb = "oacp_l2cap_closed"
       THEN oacp_l2cap_closed(st)
       ELSE /\ objState' = st
            /\ UNCHANGED <<rxDone, txDone>>

\* rx_done has returned rc < 0 for the object left in state st: the L2CAP
\* layer disconnects the channel on every error but -EINPROGRESS.
RecvFailed(st) == ChannelDown(st)

\* rx_done has returned rc >= 0: the channel stays up.
RecvDone(st) ==
    /\ objState' = st
    /\ UNCHANGED <<chanOpen, txBusy, rxDone, txDone>>

\* The rest of oacp_write_proc_cb for an SDU of n bytes once the sink has
\* returned rc for the forwarded length: the count and the size advance
\* by what the sink accepted, and a sink error or a short write (-EIO)
\* is returned to the L2CAP layer.
WriteSink(n, rc) ==
    LET len == WriteChunkLen(n)
        offset == (opOffset + recvLen) % SizeMod
        acc == IF rc < 0 THEN 0 ELSE rc
        recv == (recvLen + acc) % SizeMod
        st == IF rc < 0 \/ recv = opLen THEN "IDLE" ELSE objState
    IN /\ recvLen' = recv
       /\ sizeCur' = SizeAfterWrite((offset + acc) % SizeMod)
       /\ IF rc = len THEN RecvDone(st) ELSE RecvFailed(st)

\* oacp_write_proc_cb for an SDU of n bytes, with what the L2CAP layer does
\* with its result: -ENODEV without an object or a sink, the sink's error,
\* or -EIO for a short write, all disconnect the channel.
oacp_write_proc_cb(n) ==
    IF ~CurObjSelected
    THEN /\ UNCHANGED <<recvLen, sizeCur>>
         /\ RecvFailed(objState)
    ELSE IF ~HasWriteCb
    THEN /\ UNCHANGED <<recvLen, sizeCur>>
         /\ RecvFailed("IDLE")
    ELSE \E rc \in SinkResults(WriteChunkLen(n)) : WriteSink(n, rc)

\* The channel's receive callback for an SDU of n bytes from the client.
L2capRecv ==
    /\ chanOpen
    /\ ClientGuard(cPhase = "writing")
    /\ \E n \in 1..MaxSdu :
          /\ ClientSends(n)
          /\ IF rxDone = "oacp_write_proc_cb"
             THEN oacp_write_proc_cb(n)
             ELSE /\ UNCHANGED <<recvLen, sizeCur>>
                  /\ RecvDone(objState)
    /\ UNCHANGED <<indEnabled, opOffset, opLen, sentLen, txChunk, closedCb, indQueue, fault>>

\* The client opens the object channel; a conforming client has taken in
\* the loss of the previous one first.
L2capConnected ==
    /\ ~chanOpen
    /\ ClientGuard(cPhase \notin {"reading", "writing"})
    /\ chanOpen' = TRUE
    /\ UNCHANGED <<srvVars, txBusy, txChunk, rxDone, txDone, closedCb, indQueue, fault, cliVars>>

\* The channel goes down (the client or the link closes it).
L2capDisconnected ==
    /\ chanOpen
    /\ ChannelDown(objState)
    /\ UNCHANGED <<indEnabled, opOffset, opLen, sentLen, recvLen, sizeCur,
                   txChunk, closedCb, indQueue, fault, cliVars>>

\* The client gives up its transfer when it sees the channel down.
ClientSeesClose ==
    /\ cPhase \in {"reading", "writing"}
    /\ ~chanOpen
    /\ cPhase' = "idle"
    /\ cLeft' = 0
    /\ UNCHANGED <<srvVars, chanVars, indQueue, fault>>

\* bt_gatt_ots_oacp_cfg_changed: the client writes the CCC descriptor.
bt_gatt_ots_oacp_cfg_changed ==
    /\ ClientGuard(cPhase = "idle")
    /\ \E indicate \in BOOLEAN : indEnabled' = indicate
    /\ UNCHANGED <<objState, opOffset, opLen, sentLen, recvLen, sizeCur,
                   chanVars, indQueue, fault, cliVars>>

\* After a fault (a NULL dereference) the CPU stops handling events.
Next ==
    \/ ~fault /\ bt_gatt_ots_oacp_write
    \/ ~fault /\ oacp_ind_cb
    \/ ~fault /\ L2capSent
    \/ ~fault /\ L2capRecv
    \/ ~fault /\ L2capConnected
    \/ ~fault /\ L2capDisconnected
    \/ ~fault /\ ClientSeesClose
    \/ ~fault /\ bt_gatt_ots_oacp_cfg_changed

(***************************************************************************)
(* The Bluetooth stack delivers every pending event: a queued indication   *)
(* is eventually confirmed (ATT requires the client to confirm it), an SDU *)
(* handed to the channel is eventually sent, a conforming client sends the *)
(* data it declared and notices a closed channel.  Commands, connections,  *)
(* disconnections and CCC writes are the client's choice and not fair.     *)
(***************************************************************************)
Fairness ==
    /\ WF_vars(~fault /\ oacp_ind_cb)
    /\ WF_vars(~fault /\ L2capSent)
    /\ WF_vars(~fault /\ L2capRecv)
    /\ WF_vars(~fault /\ ClientSeesClose)

Spec == Init /\ [][Next]_vars /\ Fairness

-----------------------------------------------------------------------------
(***************************************************************************)
(* Properties.                                                             *)
(***************************************************************************)

\* The object never grows past its allocation: the Write validation's
\* "append is not supported" check, together with oacp_write_proc_cb cutting
\* the excess of an SDU, keeps every byte the sink is given inside
\* metadata.size.alloc.
SizeWithinAlloc == sizeCur <= Alloc

\* The inductive form of SizeWithinAlloc for a conforming client: the
\* range of the last accepted procedure lies inside the allocation, the
\* client has at most the one response of its last command outstanding
\* (none once it no longer awaits it), and from the moment a Write is
\* accepted until the client stops sending its data the received count
\* stays within the declared length, so that oacp_write_proc_cb's cut
\* keeps every byte inside the range.
WriteAccepted == [op |-> "WRITE", res |-> "SUCCESS"]

SizeBoundInv ==
    /\ TypeOK
    /\ SizeWithinAlloc
    /\ opOffset + opLen <= Alloc
    /\ Len(indQueue) <= 1
    /\ cPhase # "await" => indQueue = <<>>
    /\ (cPhase = "writing" \/ (indQueue # <<>> /\ Head(indQueue) = WriteAccepted))
          => recvLen <= opLen

\* While a Read runs, the range it was accepted for lies inside the object
\* and no more than the requested length has been handed to the channel,
\* however the data source splits it into chunks.
ReadWithinObject ==
    objState = "READ_OP" => opOffset + opLen <= sizeCur /\ sentLen <= opLen

\* While a Write runs, the bytes received stay within the declared length
\* and the object's current size covers everything written so far (the
\* size extension at the end of oacp_write_proc_cb).
WriteCoversProgress ==
    objState = "WRITE_OP" => recvLen <= opLen /\ opOffset + recvLen <= sizeCur

\* A client that starts a procedure only when its previous one has ended
\* (it took in the response, received or sent the declared data, or saw
\* the channel close) is never refused with OBJ_LOCKED: every procedure
\* returns the object to Idle by the time the client may consider it over
\* (spec section 4.4: closing the channel during a Read or Write forces
\* the object to Idle; OBJ_LOCKED is for a command written before the
\* previous transfer completed).
NoSpuriousLock == \A i \in 1..Len(indQueue) : indQueue[i].res # "OBJ_LOCKED"

\* Chunks of a Read are on the channel only while the object is in the
\* Read state: the read engine never runs for an object that is Idle or
\* being written, so at most one transfer uses the channel.
ReadQuiescentWhenIdle == txBusy => objState = "READ_OP"

\* Whenever the write callback is bound, any SDU it receives is forwarded
\* to the sink with at most its own length (the excess is dropped, never
\* more than the SDU is handed over).
ForwardWithinSdu ==
    rxDone = "oacp_write_proc_cb" => \A n \in 1..MaxSdu : WriteChunkLen(n) <= n

\* Once a client has sent all the data of a Write that declared some, the
\* object is no longer in the Write state: oacp_write_proc_cb's cut of the
\* last SDU makes recv_len reach the declared length exactly, and a short
\* or failed sink write ends the procedure through its error and the
\* disconnect it causes.  (A Write declaring no data is the exception,
\* run oacp_write_stuck.)
WriteEndsWithData ==
    objState = "WRITE_OP" /\ cPhase = "idle" => opLen = 0

\* An accepted Write ends: the object in the Write state eventually returns
\* to Idle, when the declared length has been received, the sink failed or
\* the channel closed (spec section 3: the state reverts to Idle on
\* completion, error or channel closure).
WriteReleased == objState = "WRITE_OP" ~> objState = "IDLE"

\* The refinement mapping: the abstract object is the current object, and
\* the running procedure's parameters and progress are read from the
\* union of the object state that belongs to its type.
AbsOff == IF objState = "IDLE" THEN 0 ELSE opOffset
AbsLen == IF objState = "IDLE" THEN 0 ELSE opLen
AbsDone == IF objState = "READ_OP" THEN sentLen
           ELSE IF objState = "WRITE_OP" THEN recvLen ELSE 0

Transfer == INSTANCE ObjectTransfer WITH
    st <- objState, off <- AbsOff, len <- AbsLen, done <- AbsDone, size <- sizeCur

\* OACP implements the object transfer of spec section 3: every step of the
\* handlers is a step of ObjectTransfer or leaves the abstract object
\* alone, so procedures start only from Idle within their ranges, progress
\* only grows, and the object changes only by the bytes written.
ImplementsTransfer == Transfer!Spec

\* The indication callback never dereferences a NULL current object.
NoNullCurObjDeref == ~fault
=============================================================================
