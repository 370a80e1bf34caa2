--------------------------- MODULE MCDisplayPower ---------------------------
(***************************************************************************)
(* DisplayPower for TLC.  IPC threads are interchangeable: no definition   *)
(* and no invariant singles one out.                                       *)
(***************************************************************************)
EXTENDS DisplayPower, TLC

CallerSymmetry == Permutations(Callers)
=============================================================================
