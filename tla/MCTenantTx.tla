----------------------------- MODULE MCTenantTx -----------------------------
(***************************************************************************)
(* Instance of TenantTx for TLC.  No symmetry: the run checks liveness.    *)
(***************************************************************************)
EXTENDS TenantTx
=============================================================================
