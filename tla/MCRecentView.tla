----------------------------- MODULE MCRecentView -----------------------------
(* Values of the constants of RecentView for TLC.                          *)
EXTENDS RecentView, TLC

CONSTANTS b1, b2, b3

MCInitial == <<b1, b2>>
=============================================================================
