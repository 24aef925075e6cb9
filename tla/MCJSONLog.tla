----------------------------- MODULE MCJSONLog -----------------------------
(* Small instances of JSONLog.                                              *)
EXTENDS JSONLog

CONSTANTS m1, m2, m3, m4

NoDedup == <<>>
DedupThree == <<m1, m2, m3>>
=============================================================================
