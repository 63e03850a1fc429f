--------------------------- MODULE ObjectTransfer ---------------------------
(***************************************************************************)
(* What the Object Action Control Point promises about one object, with    *)
(* its data abstracted to lengths: at most one procedure runs on it at a   *)
(* time and a new one starts only when it is Idle; a Read is accepted only *)
(* for a range inside the object, and its progress only grows, up to the   *)
(* requested length, while the object does not change; a Write is accepted *)
(* only for an offset inside the object and a range inside the allocation, *)
(* its progress only grows, and the object grows only to cover the bytes   *)
(* received; any procedure may end at any time (completion, an error of    *)
(* the data source or sink, a closed channel), a Write possibly in the     *)
(* same step as its last bytes arrive.                                     *)
(*                                                                         *)
(* One step is there because the OACP code takes it: after a Write has     *)
(* ended, the channel's receive callback stays bound, so an SDU that still *)
(* arrives extends the object, though never past its allocation.           *)
(***************************************************************************)
EXTENDS Naturals

CONSTANT Alloc      \* the object's allocated size

VARIABLES
    st,     \* "IDLE", "READ_OP" or "WRITE_OP"
    off,    \* the running procedure's offset (0 when Idle)
    len,    \* the running procedure's length (0 when Idle)
    done,   \* the bytes the running procedure has sent or received
    size    \* the object's current size

vars == <<st, off, len, done, size>>

Larger(a, b) == IF a >= b THEN a ELSE b

Init ==
    /\ st = "IDLE"
    /\ off = 0
    /\ len = 0
    /\ done = 0
    /\ size \in 0 .. Alloc

\* The object is released; a procedure leaves no trace.
Released == st' = "IDLE" /\ off' = 0 /\ len' = 0 /\ done' = 0

StartRead(o, l) ==
    /\ st = "IDLE"
    /\ o + l <= size
    /\ st' = "READ_OP" /\ off' = o /\ len' = l /\ done' = 0
    /\ UNCHANGED size

StartWrite(o, l) ==
    /\ st = "IDLE"
    /\ o <= size
    /\ o + l <= Alloc
    /\ st' = "WRITE_OP" /\ off' = o /\ len' = l /\ done' = 0
    /\ UNCHANGED size

\* More of the Read has been handed to the channel.
Sent(d) ==
    /\ st = "READ_OP"
    /\ done < d /\ d <= len
    /\ done' = d
    /\ UNCHANGED <<st, off, len, size>>

\* The Write has received d bytes in all; the object covers them, and the
\* Write ends when d is the declared length or when the transfer failed
\* (a short write of the sink ends it after its bytes are counted).
Received(d, failed) ==
    /\ st = "WRITE_OP"
    /\ done <= d /\ d <= len
    /\ size' = Larger(size, off + d)
    /\ IF d = len \/ failed THEN Released ELSE done' = d /\ UNCHANGED <<st, off, len>>

\* The running procedure ends.
Release ==
    /\ st # "IDLE"
    /\ Released
    /\ UNCHANGED size

\* An SDU arriving after its Write ended extends the object.
LateWrite(e) ==
    /\ st = "IDLE"
    /\ size < e /\ e <= Alloc
    /\ size' = e
    /\ UNCHANGED <<st, off, len, done>>

Next ==
    \/ \E o, l \in 0 .. Alloc : StartRead(o, l) \/ StartWrite(o, l)
    \/ \E d \in 0 .. Alloc : Sent(d) \/ \E failed \in BOOLEAN : Received(d, failed)
    \/ Release
    \/ \E e \in 0 .. Alloc : LateWrite(e)

Spec == Init /\ [][Next]_vars

=============================================================================
