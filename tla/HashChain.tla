----------------------------- MODULE HashChain -----------------------------
(***************************************************************************)
(* The pure part of the audit log: the hash of an entry and the verifier   *)
(* that walks a tenant's chain (audit/hash-chain).                         *)
(*                                                                         *)
(* sha256 over the canonical JSON of an entry is an injective constructor: *)
(* Digest wraps what was hashed.  A snapshot is what the caller passes as  *)
(* before/after state: plain JSON, or a value that contains an object      *)
(* whose toJSON() is not its own properties, such as a Date.               *)
(***************************************************************************)
EXTENDS Integers, Sequences, FiniteSets

CONSTANT Values   \* payloads a snapshot may carry

Snapshot    == [kind : {"json", "date"}, val : Values]
EmptyObject == [kind |-> "json", val |-> "{}"]

\* GENESIS_PREV_HASH.  A digest is a pair, so no entry hashes to it.
Genesis == << >>

Digest(x) == <<"sha256", x>>

\* sortDeep rebuilds an object from its own enumerable properties: a Date has none.
Canonical(s) == IF s.kind = "date" THEN EmptyObject ELSE s

\* What JSON.stringify puts into the jsonb column: a Date as its ISO string.
ToJson(s) == [kind |-> "json", val |-> s.val]

\* The hash of the fields of an entry, position and predecessor included.
EntryHash(position, prevHash, tenant, event, state) ==
  Digest(<<position, prevHash, tenant, event, Canonical(state)>>)

RowHash(row) == EntryHash(row.position, row.prevHash, row.tenant, row.event, row.state)

----------------------------------------------------------------------------
\* The i-th row when rows are listed by position.
RowAt(rows, i) ==
  CHOOSE row \in rows : Cardinality({q \in rows : q.position <= row.position}) = i

\* Mutant: newest first.
ByPosition_Newest(rows) ==
  [i \in 1..Cardinality(rows) |-> RowAt(rows, Cardinality(rows) + 1 - i)]

\* findMany(orderBy position asc)
ByPosition(rows) == [i \in 1..Cardinality(rows) |-> RowAt(rows, i)]

\* expectedPrevHash and the verdict of the loop body on the i-th row.
ExpectedPrev(chain, i) == IF i = 1 THEN Genesis ELSE chain[i - 1].entryHash

\* Mutant: the link to the predecessor is not compared.
Check_NoLink(chain, i) ==
  IF chain[i].position # i THEN "position-gap"
  ELSE IF RowHash(chain[i]) # chain[i].entryHash THEN "entry-hash-mismatch" ELSE "ok"

Check(chain, i) ==
  CASE chain[i].position # i                        -> "position-gap"
    [] /\ chain[i].position = i
       /\ chain[i].prevHash # ExpectedPrev(chain, i) -> "prev-hash-mismatch"
    [] /\ chain[i].position = i
       /\ chain[i].prevHash = ExpectedPrev(chain, i)
       /\ RowHash(chain[i]) # chain[i].entryHash     -> "entry-hash-mismatch"
    [] OTHER                                         -> "ok"

\* verifyChain: the first row that fails, and why.
VerifyChain(chain) ==
  LET bad   == {i \in DOMAIN chain : Check(chain, i) # "ok"}
      first == CHOOSE i \in bad : \A j \in bad : i <= j
  IN  IF bad = {} THEN [ok |-> TRUE]
      ELSE [ok |-> FALSE, position |-> chain[first].position, reason |-> Check(chain, first)]

Intact(chain) == VerifyChain(chain).ok
============================================================================
