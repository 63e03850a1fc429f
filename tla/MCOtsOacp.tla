----------------------------- MODULE MCOtsOacp -----------------------------
(***************************************************************************)
(* Model-checking instance of OtsOacp: an object of allocation 3, SDUs of  *)
(* up to 2 bytes, so that a transfer takes several chunks, an SDU can run  *)
(* past the declared length and a write can both patch and append.         *)
(***************************************************************************)
EXTENDS OtsOacp

MCAlloc == 3
MCSizeMod == 16
MCMaxSdu == 2
MCObjProps == {"read", "write", "patch"}
MCClientOps == {"READ", "WRITE", "DELETE", "UNKNOWN"}
MCReadOps == {"READ", "UNKNOWN"}
=============================================================================
