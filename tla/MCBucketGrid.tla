----------------------------- MODULE MCBucketGrid -----------------------------
(* Values of the constants of BucketGrid for TLC.                          *)
EXTENDS BucketGrid, TLC

CONSTANTS f1, f2, f3, today, older

MCInitial == <<f1, f2>>
MCLabelOf == [f \in Files |-> IF f = f1 THEN older ELSE today]
=============================================================================
