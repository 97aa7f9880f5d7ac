----------------------------- MODULE MCPromptForm -----------------------------
(* Values of the constants of PromptForm for TLC.                          *)
EXTENDS PromptForm, TLC

CONSTANTS p1, p2, u1, t1, d1, a1

MCSymmetry == Permutations({p1, p2})
=============================================================================
