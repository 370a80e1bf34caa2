------------------------- MODULE MCBrightnessDimming ------------------------
(***************************************************************************)
(* BrightnessDimming for TLC, with interchangeable calling threads.        *)
(***************************************************************************)
EXTENDS BrightnessDimming, TLC

CallerSymmetry == Permutations(Callers)
=============================================================================
