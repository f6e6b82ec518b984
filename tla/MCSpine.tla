------------------------------ MODULE MCSpine ------------------------------
(***************************************************************************)
(* Instance of Spine for TLC: one call of each kind.                       *)
(***************************************************************************)
EXTENDS Spine, TLC

Post(token, verdict, header) ==
  [route |-> "create", token |-> token, verdict |-> verdict, header |-> header]

Get(route) ==
  [route |-> route, token |-> "missing", verdict |-> "pass", header |-> "absent"]

MCCalls ==
  {Post("signed", "pass", h) : h \in {"absent", "malformed", "uuid"}}
    \cup {Post(t, "pass", "uuid") : t \in {"missing", "misshapen"}}
    \cup {Post("signed", v, "uuid") : v \in {"INVALID_TOKEN", "FORBIDDEN", "NOT_FOUND"}}
    \cup {Get(route) : route \in {"live", "ready", "none"}}
============================================================================
