--------------------------- MODULE MCBaseService ---------------------------
(* Model values for BaseService.                                            *)
EXTENDS BaseService, TLC

Symmetry == Permutations(Start) \cup Permutations(Stop)

(* Bound: starts that overlap are looked at without a revoke, and a revoke  *)
(* that made two stops cross without a second one.                          *)
OneTroubleAtATime ==
  /\ overlapped => ~crossed /\ ~revoking
  /\ crossed => ~revoking
=============================================================================
