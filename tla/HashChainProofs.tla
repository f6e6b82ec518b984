-------------------------- MODULE HashChainProofs --------------------------
(***************************************************************************)
(* Proofs about HashChain for chains of every length and snapshots of      *)
(* every kind: what the verifier accepts, which row it reports, and what   *)
(* the hash of the last entry says about all the entries before it.        *)
(*                                                                         *)
(* Arguments that go along a chain take the least position at which the    *)
(* claim fails (LeastNumber), which cannot be there.                       *)
(***************************************************************************)
EXTENDS HashChain, FiniteSetTheorems, SequenceTheorems, WellFoundedInduction, TLAPS

\* A set of numbers has a least one.
LEMMA LeastNumber ==
  ASSUME NEW T, T \subseteq Nat, T # {}
  PROVE  \E m \in T : \A k \in T : m <= k
<1> DEFINE R == OpToRel(<, Nat)
<1>1. IsWellFoundedOn(R, Nat)
  BY NatLessThanWellFounded
<1>2. \A x, y \in Nat : x < y => <<x, y>> \in R
  BY DEF OpToRel
<1> HIDE DEF R
<1>3. PICK m \in T : \A k \in T : <<k, m>> \notin R
  BY <1>1, WFMin
<1>4. \A k \in T : ~(k < m)
  BY <1>2, <1>3
<1> QED BY <1>3, <1>4

----------------------------------------------------------------------------
\* The rows at positions 1..n, one each, linked from the genesis.
ChainUpTo(rows, n) ==
  /\ \A row \in rows : row.position \in 1..n
  /\ \A i \in 1..n : \E row \in rows : row.position = i
  /\ \A row, q \in rows : row.position = q.position => row = q
  /\ \A row \in rows : row.position = 1 => row.prevHash = Genesis
  /\ \A row, q \in rows : row.position = q.position + 1 => row.prevHash = q.entryHash

IsChain(rows) == \E n \in Nat : ChainUpTo(rows, n)

\* In a chain of n rows the row at position i is the i-th by position.
LEMMA Ranking ==
  ASSUME NEW rows, NEW n \in Nat, ChainUpTo(rows, n)
  PROVE  /\ \A i \in 1..n : RowAt(rows, i) \in rows /\ RowAt(rows, i).position = i
         /\ IsFiniteSet(rows) /\ Cardinality(rows) = n
<1> DEFINE UpTo(i) == {q \in rows : q.position <= i}
           At(i)   == CHOOSE row \in rows : row.position = i
<1>1. \A i \in 1..n : At(i) \in rows /\ At(i).position = i
  BY DEF ChainUpTo
<1>2. ASSUME NEW i \in 0..n PROVE IsFiniteSet(UpTo(i)) /\ Cardinality(UpTo(i)) = i
  <2> DEFINE f == [j \in 1..i |-> At(j)]
  <2>1. f \in [1..i -> UpTo(i)]
    BY <1>1
  <2>2. \A j, k \in 1..i : f[j] = f[k] => j = k
    BY <1>1
  <2>3. \A row \in UpTo(i) : \E j \in 1..i : f[j] = row
    <3> SUFFICES ASSUME NEW row \in UpTo(i) PROVE f[row.position] = row /\ row.position \in 1..i
      OBVIOUS
    <3>1. row.position \in 1..i
      BY DEF ChainUpTo
    <3>2. At(row.position) \in rows /\ At(row.position).position = row.position
      BY <3>1, <1>1
    <3> QED BY <3>1, <3>2 DEF ChainUpTo
  <2> HIDE DEF f
  <2>4. f \in Bijection(1..i, UpTo(i))
    BY <2>1, <2>2, <2>3 DEF Bijection, Injection, Surjection, IsInjective
  <2>5. ExistsBijection(1..i, UpTo(i))
    BY <2>4 DEF ExistsBijection
  <2>6. IsFiniteSet(1..i) /\ Cardinality(1..i) = i
    BY FS_Interval
  <2> HIDE DEF UpTo
  <2> QED BY <2>5, <2>6, FS_Bijection
<1>3. ASSUME NEW i \in 1..n
      PROVE  RowAt(rows, i) \in rows /\ RowAt(rows, i).position = i
  <2> DEFINE Rank(row) == Cardinality(UpTo(row.position))
  <2>1. \A row \in rows : row.position \in 0..n
    BY DEF ChainUpTo
  <2> HIDE DEF UpTo
  <2>2. \A row \in rows : Rank(row) = row.position
    BY <2>1, <1>2
  <2>3. At(i) \in rows /\ Rank(At(i)) = i
    BY <1>1, <2>2
  <2>4. RowAt(rows, i) = CHOOSE row \in rows : Rank(row) = i
    BY DEF RowAt, UpTo
  <2> QED BY <2>2, <2>3, <2>4
<1>4. IsFiniteSet(rows) /\ Cardinality(rows) = n
  <2>1. UpTo(n) = rows
    BY DEF ChainUpTo
  <2> QED BY <1>2, <2>1
<1> QED BY <1>3, <1>4

\* The verifier accepts a chain whose rows are correctly hashed.
LEMMA VerifierAccepts ==
  ASSUME NEW rows, IsChain(rows), \A row \in rows : row.entryHash = RowHash(row)
  PROVE  Intact(ByPosition(rows))
<1>1. PICK n \in Nat : ChainUpTo(rows, n)
  BY DEF IsChain
<1> DEFINE chain == ByPosition(rows)
<1>2. DOMAIN chain = 1..n /\ \A i \in 1..n : chain[i] \in rows /\ chain[i].position = i
  BY <1>1, Ranking DEF ByPosition
<1> HIDE DEF chain
<1>3. \A i \in 1..n : Check(chain, i) = "ok"
  <2> SUFFICES ASSUME NEW i \in 1..n PROVE Check(chain, i) = "ok"
    OBVIOUS
  <2>1. chain[i] \in rows /\ chain[i].position = i
    BY <1>2
  <2>2. chain[i].prevHash = ExpectedPrev(chain, i)
    <3>1. CASE i = 1
      BY <3>1, <2>1, <1>1 DEF ExpectedPrev, ChainUpTo
    <3>2. CASE i # 1
      <4>1. i - 1 \in 1..n
        BY <3>2
      <4>2. chain[i - 1] \in rows /\ chain[i - 1].position = i - 1
        BY <4>1, <1>2
      <4>3. chain[i].position = chain[i - 1].position + 1
        BY <2>1, <4>2
      <4> QED BY <3>2, <2>1, <4>2, <4>3, <1>1 DEF ExpectedPrev, ChainUpTo
    <3> QED BY <3>1, <3>2
  <2>3. RowHash(chain[i]) = chain[i].entryHash
    BY <2>1
  <2> QED BY <2>1, <2>2, <2>3 DEF Check
<1>4. {i \in DOMAIN chain : Check(chain, i) # "ok"} = {}
  BY <1>2, <1>3
<1>5. VerifyChain(chain) = [ok |-> TRUE]
  BY <1>4 DEF VerifyChain
<1> QED BY <1>5 DEF Intact, chain

----------------------------------------------------------------------------
\* The verifier rejects a chain with one row that is wrong.
LEMMA VerifierRejects ==
  ASSUME NEW chain, NEW i \in DOMAIN chain,
         \/ chain[i].position # i
         \/ chain[i].prevHash # ExpectedPrev(chain, i)
         \/ RowHash(chain[i]) # chain[i].entryHash
  PROVE  ~ Intact(chain)
<1>1. Check(chain, i) # "ok"
  <2>1. CASE chain[i].position # i
    <3>1. Check(chain, i) = "position-gap"
      BY <2>1 DEF Check
    <3> QED BY <3>1
  <2>2. CASE chain[i].position = i /\ chain[i].prevHash # ExpectedPrev(chain, i)
    <3>1. Check(chain, i) = "prev-hash-mismatch"
      BY <2>2 DEF Check
    <3> QED BY <3>1
  <2>3. CASE /\ chain[i].position = i /\ chain[i].prevHash = ExpectedPrev(chain, i)
             /\ RowHash(chain[i]) # chain[i].entryHash
    <3>1. Check(chain, i) = "entry-hash-mismatch"
      BY <2>3 DEF Check
    <3> QED BY <3>1
  <2> QED BY <2>1, <2>2, <2>3
<1>2. {j \in DOMAIN chain : Check(chain, j) # "ok"} # {}
  BY <1>1
<1>3. VerifyChain(chain).ok = FALSE
  BY <1>2 DEF VerifyChain
<1> QED BY <1>3 DEF Intact


\* Row i of a chain is the i-th entry, follows the entry before it, and carries the
\* hash of its own fields.
Sound(chain, i) ==
  /\ chain[i].position = i
  /\ chain[i].prevHash = ExpectedPrev(chain, i)
  /\ RowHash(chain[i]) = chain[i].entryHash

LEMMA CheckIsSound ==
  ASSUME NEW chain, NEW i
  PROVE  Check(chain, i) = "ok" <=> Sound(chain, i)
<1>1. CASE chain[i].position # i
  <2>1. Check(chain, i) = "position-gap"
    BY <1>1 DEF Check
  <2> QED BY <1>1, <2>1 DEF Sound
<1>2. CASE chain[i].position = i /\ chain[i].prevHash # ExpectedPrev(chain, i)
  <2>1. Check(chain, i) = "prev-hash-mismatch"
    BY <1>2 DEF Check
  <2> QED BY <1>2, <2>1 DEF Sound
<1>3. CASE /\ chain[i].position = i /\ chain[i].prevHash = ExpectedPrev(chain, i)
           /\ RowHash(chain[i]) # chain[i].entryHash
  <2>1. Check(chain, i) = "entry-hash-mismatch"
    BY <1>3 DEF Check
  <2> QED BY <1>3, <2>1 DEF Sound
<1>4. CASE Sound(chain, i)
  BY <1>4 DEF Sound, Check
<1> QED BY <1>1, <1>2, <1>3, <1>4 DEF Sound

\* verifyChain() accepts exactly the chains all of whose rows are sound.
THEOREM VerifierIsExact ==
  ASSUME NEW n \in Nat, NEW chain, DOMAIN chain = 1..n
  PROVE  Intact(chain) <=> \A i \in 1..n : Sound(chain, i)
<1> DEFINE bad == {i \in DOMAIN chain : Check(chain, i) # "ok"}
<1>1. bad = {} <=> \A i \in 1..n : Sound(chain, i)
  BY CheckIsSound
<1>2. bad = {} => VerifyChain(chain).ok = TRUE
  BY DEF VerifyChain
<1>3. bad # {} => VerifyChain(chain).ok = FALSE
  BY DEF VerifyChain
<1> QED BY <1>1, <1>2, <1>3 DEF Intact

\* The row that verifyChain() reports is the first unsound one: those before it are
\* an intact chain.
THEOREM VerdictIsFirst ==
  ASSUME NEW n \in Nat, NEW chain, DOMAIN chain = 1..n, ~Intact(chain)
  PROVE  \E i \in 1..n :
           /\ ~Sound(chain, i) /\ \A j \in 1..(i - 1) : Sound(chain, j)
           /\ VerifyChain(chain).reason = Check(chain, i)
           /\ VerifyChain(chain).position = chain[i].position
<1> DEFINE bad == {i \in DOMAIN chain : Check(chain, i) # "ok"}
           first == CHOOSE i \in bad : \A j \in bad : i <= j
<1>1. bad \subseteq Nat /\ bad # {}
  BY VerifierIsExact, CheckIsSound
<1>2. VerifyChain(chain) =
        [ok |-> FALSE, position |-> chain[first].position, reason |-> Check(chain, first)]
  BY <1>1 DEF VerifyChain
<1>3. first \in bad /\ \A j \in bad : first <= j
  <2> HIDE DEF bad
  <2> QED BY <1>1, LeastNumber
<1>4. first \in 1..n /\ ~Sound(chain, first)
  BY <1>3, CheckIsSound
<1> HIDE DEF first
<1>5. \A j \in 1..(first - 1) : Sound(chain, j)
  <2> SUFFICES ASSUME NEW j \in 1..(first - 1) PROVE Sound(chain, j)
    OBVIOUS
  <2>1. j \in 1..n /\ ~(first <= j)
    BY <1>4
  <2> QED BY <1>3, <2>1, CheckIsSound
<1> QED BY <1>2, <1>4, <1>5

\* Every beginning of an intact chain is intact: that the last entries are missing is
\* not for the verifier to see.
THEOREM PrefixVerifies ==
  ASSUME NEW n \in Nat, NEW chain, DOMAIN chain = 1..n, Intact(chain), NEW k \in 0..n
  PROVE  Intact([i \in 1..k |-> chain[i]])
<1> DEFINE prefix == [i \in 1..k |-> chain[i]]
<1>1. \A i \in 1..k : Sound(prefix, i)
  <2> SUFFICES ASSUME NEW i \in 1..k PROVE Sound(prefix, i)
    OBVIOUS
  <2>1. i \in 1..n /\ Sound(chain, i)
    BY VerifierIsExact
  <2>2. prefix[i] = chain[i] /\ (i # 1 => prefix[i - 1] = chain[i - 1])
    OBVIOUS
  <2> HIDE DEF prefix
  <2> QED BY <2>1, <2>2 DEF Sound, ExpectedPrev
<1>2. k \in Nat /\ DOMAIN prefix = 1..k
  OBVIOUS
<1> HIDE DEF prefix
<1>3. Intact(prefix)
  BY <1>1, <1>2, VerifierIsExact
<1> QED BY <1>3 DEF prefix

----------------------------------------------------------------------------
\* The hash tells entries apart by everything that is hashed.
LEMMA HashInjective ==
  ASSUME NEW p, NEW q, NEW h, NEW k, NEW t, NEW u, NEW e, NEW f, NEW r, NEW s,
         EntryHash(p, h, t, e, r) = EntryHash(q, k, u, f, s)
  PROVE  p = q /\ h = k /\ t = u /\ e = f /\ Canonical(r) = Canonical(s)
BY DEF EntryHash, Digest

\* Two rows say the same: all their fields agree, of the snapshot what is hashed.
SameEntry(row, q) ==
  /\ row.position = q.position /\ row.prevHash = q.prevHash /\ row.entryHash = q.entryHash
  /\ row.tenant = q.tenant /\ row.event = q.event /\ Canonical(row.state) = Canonical(q.state)

\* Two chains that verify and end in the same entry hash have the same history: one
\* who knows the last hash need not have kept anything else to notice any change,
\* a chain that was rewritten from some entry on and rehashed included.
THEOREM HeadPinsHistory ==
  ASSUME NEW n \in Nat, NEW m \in Nat, NEW a, NEW b, DOMAIN a = 1..n, DOMAIN b = 1..m,
         Intact(a), Intact(b), n > 0, m > 0, a[n].entryHash = b[m].entryHash
  PROVE  n = m /\ \A i \in 1..n : SameEntry(a[i], b[i])
<1>1. (\A i \in 1..n : Sound(a, i)) /\ (\A i \in 1..m : Sound(b, i))
  BY VerifierIsExact
<1>2. ASSUME NEW i \in 1..n, NEW j \in 1..m, a[i].entryHash = b[j].entryHash
      PROVE  i = j /\ SameEntry(a[i], b[j])
  <2>1. RowHash(a[i]) = RowHash(b[j]) /\ a[i].position = i /\ b[j].position = j
    BY <1>1, <1>2 DEF Sound
  <2>2. /\ a[i].position = b[j].position /\ a[i].prevHash = b[j].prevHash
        /\ a[i].tenant = b[j].tenant /\ a[i].event = b[j].event
        /\ Canonical(a[i].state) = Canonical(b[j].state)
    BY <2>1, HashInjective DEF RowHash
  <2> QED BY <1>2, <2>1, <2>2 DEF SameEntry
<1>3. n = m /\ SameEntry(a[n], b[n])
  BY <1>2
<1> DEFINE Differ == {k \in Nat : k < n /\ ~SameEntry(a[n - k], b[n - k])}
<1>4. Differ = {}
  <2> SUFFICES ASSUME Differ # {} PROVE FALSE
    OBVIOUS
  <2>1. PICK k \in Differ : \A l \in Differ : k <= l
    <3>1. Differ \subseteq Nat
      OBVIOUS
    <3> HIDE DEF Differ
    <3> QED BY <3>1, LeastNumber
  <2>2. k \in Nat /\ k < n /\ ~SameEntry(a[n - k], b[n - k]) /\ k # 0
    BY <1>3, <2>1
  <2> DEFINE i == n - k
  <2>3. i \in 1..n /\ i + 1 \in 1..n /\ i + 1 # 1 /\ (i + 1) - 1 = i
    BY <2>2
  <2>4. SameEntry(a[i + 1], b[i + 1])
    <3>1. k - 1 \in Nat /\ k - 1 < n /\ n - (k - 1) = i + 1 /\ ~(k <= k - 1)
      BY <2>2
    <3> QED BY <2>1, <3>1
  <2> HIDE DEF i
  <2>5. a[i + 1].prevHash = a[i].entryHash /\ b[i + 1].prevHash = b[i].entryHash
    BY <1>1, <1>3, <2>3 DEF Sound, ExpectedPrev
  <2>6. SameEntry(a[i], b[i])
    BY <1>2, <1>3, <2>3, <2>4, <2>5 DEF SameEntry
  <2> QED BY <2>2, <2>6 DEF i
<1>5. ASSUME NEW i \in 1..n PROVE SameEntry(a[i], b[i])
  <2>1. n - i \in Nat /\ n - i < n /\ n - (n - i) = i
    OBVIOUS
  <2> QED BY <1>4, <2>1
<1> QED BY <1>3, <1>5
=============================================================================
