---------------------------- MODULE MCAuditChain ----------------------------
(***************************************************************************)
(* Instance of AuditChain for TLC: snapshots that are plain JSON, and      *)
(* snapshots that contain a Date.                                          *)
(***************************************************************************)
EXTENDS AuditChain

JsonSnapshots == {[kind |-> "json", val |-> "v"]}
DateSnapshots == {[kind |-> "date", val |-> "v"]}
=============================================================================
