-------------------------- MODULE MCJobIdempotency --------------------------
(***************************************************************************)
(* Instance of JobIdempotency for TLC.  Two jobs that differ in the tenant *)
(* only, and a third, of another queue and the other tenant, whose key is  *)
(* the key of the first.                                                   *)
(***************************************************************************)
EXTENDS JobIdempotency

JobTokens == {"job", ":", "q", "t1", "t2", "a"}
JobQueues == {<<"q">>, <<"q", ":", "t1">>}
JobNames  == {<<"a">>, <<"t2", ":", "a">>}
JobIds    == {<<"a">>}

JobOf(queue, tenant, entity) ==
  [queue |-> queue, tenantId |-> tenant, entity |-> entity, entityId |-> <<"a">>,
   operation |-> <<"a">>]

\* The last one reads as the first: job:q:t1:t2:a:a:a.
FirstJob  == JobOf(<<"q">>, "t1", <<"t2", ":", "a">>)
SecondJob == JobOf(<<"q">>, "t2", <<"t2", ":", "a">>)
Namesake  == JobOf(<<"q", ":", "t1">>, "t2", <<"a">>)
ThreeJobs == {FirstJob, SecondJob, Namesake}

\* Deliveries are interchangeable: three of the first job, or two and one other.
ThreeDeliveries == {<<FirstJob, FirstJob, last>> : last \in ThreeJobs}

\* One job, delivered twice.
OneJob        == {FirstJob}
TwoDeliveries == {<<FirstJob, FirstJob>>}
============================================================================
