------------------------- MODULE MCRefreshRotation -------------------------
(***************************************************************************)
(* Instance of RefreshRotation for TLC.                                    *)
(***************************************************************************)
EXTENDS RefreshRotation, TLC

Symmetry == Permutations(Users) \cup Permutations(Calls)
============================================================================
