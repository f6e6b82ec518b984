------------------------ MODULE JobIdempotencyProofs ------------------------
(***************************************************************************)
(* Proofs about JobKey and JobIdempotency for every set of jobs and        *)
(* deliveries and every pair of TTLs.                                      *)
(*                                                                         *)
(* A key is read back field by field, up to the first colon of what is     *)
(* left (SplitAtColon).                                                    *)
(* The windows of deliveries with one key do not overlap, because a key    *)
(* outlives every window it was set for (Windows); and a delivery inside   *)
(* the critical section holds its lease until that expires (Leases).  The  *)
(* queue is bounded by the deliveries that have ended (Queued).            *)
(***************************************************************************)
EXTENDS JobIdempotency, FiniteSetTheorems, SequenceTheorems, TLAPS

\* Strings and joining, kept folded so that the provers use what the lemmas
\* below say of them and nothing else.
Text(T) == Seq(T)
Cat(s, t) == s \o t

LEMMA CatText ==
  ASSUME NEW T, NEW s \in Text(T), NEW t \in Text(T)
  PROVE  Cat(s, t) \in Text(T)
BY DEF Cat, Text

LEMMA CatParts ==
  ASSUME NEW T, NEW s \in Text(T), NEW t \in Text(T)
  PROVE  /\ Len(s) \in Nat /\ Len(t) \in Nat /\ Len(Cat(s, t)) = Len(s) + Len(t)
         /\ \A i \in 1 .. Len(s) : Cat(s, t)[i] = s[i]
         /\ \A i \in 1 .. Len(t) : Cat(s, t)[Len(s) + i] = t[i]
<1>1. Len(s) \in Nat /\ Len(t) \in Nat /\ Len(Cat(s, t)) = Len(s) + Len(t)
  BY DEF Cat, Text
<1>2. \A i \in 1 .. Len(s) : Cat(s, t)[i] = s[i]
  BY DEF Cat, Text
<1>3. \A i \in 1 .. Len(t) : Cat(s, t)[Len(s) + i] = t[i]
  BY DEF Cat, Text
<1> QED BY <1>1, <1>2, <1>3

LEMMA CatRegroups ==
  ASSUME NEW T, NEW s \in Text(T), NEW t \in Text(T), NEW u \in Text(T)
  PROVE  Cat(Cat(s, t), u) = Cat(s, Cat(t, u))
BY ConcatAssociative DEF Cat, Text

NoColon(s) == \A i \in 1 .. Len(s) : s[i] # ":"

LEMMA ColonOrNone ==
  ASSUME NEW s \in Text(Tokens)
  PROVE  HasColon(s) <=> ~ NoColon(s)
<1>1. DOMAIN s = 1 .. Len(s)
  BY DEF Text
<1> QED BY <1>1 DEF HasColon, NoColon

\* A field, a colon, and the rest.
Field(s, t) == Cat(s, Cat(Colon, t))

LEMMA FieldParts ==
  ASSUME NEW T, ":" \in T, NEW s \in Text(T), NEW t \in Text(T)
  PROVE  /\ Field(s, t) \in Text(T)
         /\ Len(Field(s, t)) = Len(s) + 1 + Len(t)
         /\ \A i \in 1 .. Len(s) : Field(s, t)[i] = s[i]
         /\ Field(s, t)[Len(s) + 1] = ":"
         /\ \A i \in 1 .. Len(t) : Field(s, t)[Len(s) + 1 + i] = t[i]
<1>1. Colon \in Text(T) /\ Len(Colon) = 1 /\ Colon[1] = ":" /\ Len(s) \in Nat /\ Len(t) \in Nat
  BY DEF Colon, Text
<1>2. PICK z : z = Cat(Colon, t)
  OBVIOUS
<1>3. z \in Text(T)
  BY <1>1, <1>2, CatText
<1>4. /\ Len(z) = Len(Colon) + Len(t) /\ \A i \in 1 .. Len(Colon) : z[i] = Colon[i]
      /\ \A i \in 1 .. Len(t) : z[Len(Colon) + i] = t[i]
  <2>1. /\ Len(Cat(Colon, t)) = Len(Colon) + Len(t)
        /\ \A i \in 1 .. Len(Colon) : Cat(Colon, t)[i] = Colon[i]
        /\ \A i \in 1 .. Len(t) : Cat(Colon, t)[Len(Colon) + i] = t[i]
    <3>1. Colon \in Text(T)
      BY <1>1
    <3>2. Len(Cat(Colon, t)) = Len(Colon) + Len(t)
      BY <3>1, CatParts
    <3>3. \A i \in 1 .. Len(Colon) : Cat(Colon, t)[i] = Colon[i]
      BY <3>1, CatParts
    <3>4. \A i \in 1 .. Len(t) : Cat(Colon, t)[Len(Colon) + i] = t[i]
      BY <3>1, CatParts
    <3> QED BY <3>2, <3>3, <3>4
  <2> QED BY <2>1, <1>2, Zenon
<1>5. Len(z) = 1 + Len(t) /\ z[1] = ":" /\ \A i \in 1 .. Len(t) : z[1 + i] = t[i]
  BY <1>1, <1>4
<1>6. PICK w : w = Cat(s, z)
  OBVIOUS
<1>7. w \in Text(T)
  BY <1>3, <1>6, CatText
<1>8. /\ Len(w) = Len(s) + Len(z) /\ \A i \in 1 .. Len(s) : w[i] = s[i]
      /\ \A i \in 1 .. Len(z) : w[Len(s) + i] = z[i]
  BY <1>3, <1>6, CatParts
<1>9. 1 \in 1 .. Len(z) /\ \A i \in 1 .. Len(t) : 1 + i \in 1 .. Len(z) /\ Len(s) + (1 + i) = Len(s) + 1 + i
  BY <1>1, <1>5
<1>10. /\ Len(w) = Len(s) + 1 + Len(t) /\ w[Len(s) + 1] = ":"
       /\ \A i \in 1 .. Len(t) : w[Len(s) + 1 + i] = t[i]
  BY <1>1, <1>5, <1>8, <1>9
<1>11. w = Field(s, t)
  BY <1>2, <1>6 DEF Field
<1> QED BY <1>7, <1>8, <1>10, <1>11

\* What stands before the first colon, and what after it.
LEMMA SplitAtColon ==
  ASSUME NEW T, ":" \in T, NEW s \in Text(T), NEW t \in Text(T), NEW u \in Text(T), NEW v \in Text(T),
         NoColon(s), NoColon(u)
  PROVE  Field(s, t) = Field(u, v) => s = u /\ t = v
<1> DEFINE n == Len(s)
           m == Len(u)
<1>1. n \in Nat /\ m \in Nat
  BY DEF Text
<1>2. /\ Len(Field(s, t)) = Len(s) + 1 + Len(t)
      /\ \A i \in 1 .. Len(s) : Field(s, t)[i] = s[i]
      /\ Field(s, t)[Len(s) + 1] = ":"
      /\ \A i \in 1 .. Len(t) : Field(s, t)[Len(s) + 1 + i] = t[i]
  <2>1. Len(Field(s, t)) = Len(s) + 1 + Len(t)
    BY FieldParts
  <2>2. \A i \in 1 .. Len(s) : Field(s, t)[i] = s[i]
    BY FieldParts
  <2>3. Field(s, t)[Len(s) + 1] = ":"
    BY FieldParts
  <2>4. \A i \in 1 .. Len(t) : Field(s, t)[Len(s) + 1 + i] = t[i]
    BY FieldParts
  <2> QED BY <2>1, <2>2, <2>3, <2>4
<1>3. /\ Len(Field(u, v)) = Len(u) + 1 + Len(v)
      /\ \A i \in 1 .. Len(u) : Field(u, v)[i] = u[i]
      /\ Field(u, v)[Len(u) + 1] = ":"
      /\ \A i \in 1 .. Len(v) : Field(u, v)[Len(u) + 1 + i] = v[i]
  <2>1. Len(Field(u, v)) = Len(u) + 1 + Len(v)
    BY FieldParts
  <2>2. \A i \in 1 .. Len(u) : Field(u, v)[i] = u[i]
    BY FieldParts
  <2>3. Field(u, v)[Len(u) + 1] = ":"
    BY FieldParts
  <2>4. \A i \in 1 .. Len(v) : Field(u, v)[Len(u) + 1 + i] = v[i]
    BY FieldParts
  <2> QED BY <2>1, <2>2, <2>3, <2>4
<1> SUFFICES ASSUME Field(s, t) = Field(u, v) PROVE s = u /\ t = v
  OBVIOUS
<1>4. ~ n < m
  <2> SUFFICES ASSUME n < m PROVE FALSE
    OBVIOUS
  <2>1. n + 1 \in 1 .. m
    BY <1>1
  <2> QED BY <2>1, <1>2, <1>3 DEF NoColon
<1>5. ~ m < n
  <2> SUFFICES ASSUME m < n PROVE FALSE
    OBVIOUS
  <2>1. m + 1 \in 1 .. n
    BY <1>1
  <2> QED BY <2>1, <1>2, <1>3 DEF NoColon
<1>6. n = m
  BY <1>1, <1>4, <1>5
<1>7. s = u
  BY <1>2, <1>3, <1>6, SeqEqual DEF Text
<1>8. Len(t) = Len(v)
  <2>1. Len(t) \in Nat /\ Len(v) \in Nat
    BY DEF Text
  <2> QED BY <2>1, <1>1, <1>2, <1>3, <1>6
<1>9. t = v
  BY <1>2, <1>3, <1>6, <1>8, SeqEqual DEF Text
<1> QED BY <1>7, <1>9

LEMMA FirstOfField ==
  ASSUME NEW T, ":" \in T, NEW x, <<x>> \in Text(T), NEW t \in Text(T)
  PROVE  Field(<<x>>, t)[1] = x
<1>1. \A i \in 1 .. Len(<<x>>) : Field(<<x>>, t)[i] = <<x>>[i]
  BY FieldParts
<1>2. Len(<<x>>) = 1 /\ <<x>>[1] = x
  OBVIOUS
<1> QED BY <1>1, <1>2

\* The key, read from the left.
LEMMA KeyFromTheLeft ==
  ASSUME NEW c \in Context
  PROVE  \E f, e, d, b \in Text(Tokens) :
           /\ BuildJobDedupeKey(c) = Field(<<"job">>, b)
           /\ b = Field(c.queue, d)
           /\ d = Field(<<c.tenantId>>, e)
           /\ e = Field(c.entity, f)
           /\ f = Field(c.entityId, c.operation)
<1> DEFINE f1 == Cat(Colon, c.operation)
           f  == Cat(c.entityId, f1)
           e1 == Cat(Colon, f)
           e  == Cat(c.entity, e1)
           d1 == Cat(Colon, e)
           d  == Cat(<<c.tenantId>>, d1)
           b1 == Cat(Colon, d)
           b  == Cat(c.queue, b1)
           k1 == Cat(Colon, b)
           p1 == Cat(<<"job">>, Colon)
           p2 == Cat(p1, c.queue)
           p3 == Cat(p2, Colon)
           p4 == Cat(p3, <<c.tenantId>>)
           p5 == Cat(p4, Colon)
           p6 == Cat(p5, c.entity)
           p7 == Cat(p6, Colon)
           p8 == Cat(p7, c.entityId)
           p9 == Cat(p8, Colon)
<1>1. /\ c.queue \in Text(Tokens) /\ c.entity \in Text(Tokens) /\ c.entityId \in Text(Tokens)
      /\ c.operation \in Text(Tokens) /\ <<c.tenantId>> \in Text(Tokens) /\ <<"job">> \in Text(Tokens)
      /\ Colon \in Text(Tokens)
  BY TokenAssumption, FieldAssumption DEF Context, Colon, Text
<1>2. BuildJobDedupeKey(c) = Cat(p9, c.operation)
  BY DEF BuildJobDedupeKey, Cat
<1> HIDE DEF f1, f, e1, e, d1, d, b1, b, k1, p1, p2, p3, p4, p5, p6, p7, p8, p9
<1>q. c.queue \in Text(Tokens)
  BY <1>1
<1>en. c.entity \in Text(Tokens)
  BY <1>1
<1>id. c.entityId \in Text(Tokens)
  BY <1>1
<1>op. c.operation \in Text(Tokens)
  BY <1>1
<1>te. <<c.tenantId>> \in Text(Tokens)
  BY <1>1
<1>jo. <<"job">> \in Text(Tokens)
  BY <1>1
<1>co. Colon \in Text(Tokens)
  BY <1>1
<1>f1. f1 \in Text(Tokens)
  BY <1>co, <1>op, CatText DEF f1
<1>f. f \in Text(Tokens)
  BY <1>id, <1>f1, CatText DEF f
<1>e1. e1 \in Text(Tokens)
  BY <1>co, <1>f, CatText DEF e1
<1>e. e \in Text(Tokens)
  BY <1>en, <1>e1, CatText DEF e
<1>d1. d1 \in Text(Tokens)
  BY <1>co, <1>e, CatText DEF d1
<1>d. d \in Text(Tokens)
  BY <1>te, <1>d1, CatText DEF d
<1>b1. b1 \in Text(Tokens)
  BY <1>co, <1>d, CatText DEF b1
<1>b. b \in Text(Tokens)
  BY <1>q, <1>b1, CatText DEF b
<1>k1. k1 \in Text(Tokens)
  BY <1>co, <1>b, CatText DEF k1
<1>p1. p1 \in Text(Tokens)
  BY <1>jo, <1>co, CatText DEF p1
<1>p2. p2 \in Text(Tokens)
  BY <1>p1, <1>q, CatText DEF p2
<1>p3. p3 \in Text(Tokens)
  BY <1>p2, <1>co, CatText DEF p3
<1>p4. p4 \in Text(Tokens)
  BY <1>p3, <1>te, CatText DEF p4
<1>p5. p5 \in Text(Tokens)
  BY <1>p4, <1>co, CatText DEF p5
<1>p6. p6 \in Text(Tokens)
  BY <1>p5, <1>en, CatText DEF p6
<1>p7. p7 \in Text(Tokens)
  BY <1>p6, <1>co, CatText DEF p7
<1>p8. p8 \in Text(Tokens)
  BY <1>p7, <1>id, CatText DEF p8
<1>p9. p9 \in Text(Tokens)
  BY <1>p8, <1>co, CatText DEF p9
<1>6. Cat(p9, c.operation) = Cat(p8, f1)
  BY <1>p8, <1>co, <1>op, CatRegroups DEF p9, f1
<1>7. Cat(p8, f1) = Cat(p7, f)
  BY <1>p7, <1>id, <1>f1, CatRegroups DEF p8, f
<1>8. Cat(p7, f) = Cat(p6, e1)
  BY <1>p6, <1>co, <1>f, CatRegroups DEF p7, e1
<1>9. Cat(p6, e1) = Cat(p5, e)
  BY <1>p5, <1>en, <1>e1, CatRegroups DEF p6, e
<1>10. Cat(p5, e) = Cat(p4, d1)
  BY <1>p4, <1>co, <1>e, CatRegroups DEF p5, d1
<1>11. Cat(p4, d1) = Cat(p3, d)
  BY <1>p3, <1>te, <1>d1, CatRegroups DEF p4, d
<1>12. Cat(p3, d) = Cat(p2, b1)
  BY <1>p2, <1>co, <1>d, CatRegroups DEF p3, b1
<1>13. Cat(p2, b1) = Cat(p1, b)
  BY <1>p1, <1>q, <1>b1, CatRegroups DEF p2, b
<1>14. Cat(p1, b) = Cat(<<"job">>, k1)
  BY <1>jo, <1>co, <1>b, CatRegroups DEF p1, k1
<1>15. BuildJobDedupeKey(c) = Cat(<<"job">>, k1)
  BY <1>2, <1>6, <1>7, <1>8, <1>9, <1>10, <1>11, <1>12, <1>13, <1>14
<1>16. /\ BuildJobDedupeKey(c) = Field(<<"job">>, b) /\ b = Field(c.queue, d)
       /\ d = Field(<<c.tenantId>>, e) /\ e = Field(c.entity, f)
       /\ f = Field(c.entityId, c.operation)
  BY <1>15 DEF f1, f, e1, e, d1, d, b1, b, k1, Field
<1> QED BY <1>f, <1>e, <1>d, <1>b, <1>16

\* Two tenants never share a key, and neither do two queues, if the names of their
\* queues have no colon, whatever colons entities, entity ids and operations contain.
THEOREM NamespacesApart ==
  ASSUME NEW a \in Context, NEW c \in Context, ~ HasColon(a.queue), ~ HasColon(c.queue),
         BuildJobDedupeKey(a) = BuildJobDedupeKey(c)
  PROVE  a.queue = c.queue /\ a.tenantId = c.tenantId
<1>1. PICK ae, ad, ab \in Text(Tokens) :
        /\ BuildJobDedupeKey(a) = Field(<<"job">>, ab)
        /\ ab = Field(a.queue, ad) /\ ad = Field(<<a.tenantId>>, ae)
  BY KeyFromTheLeft
<1>2. PICK ce, cd, cb \in Text(Tokens) :
        /\ BuildJobDedupeKey(c) = Field(<<"job">>, cb)
        /\ cb = Field(c.queue, cd) /\ cd = Field(<<c.tenantId>>, ce)
  BY KeyFromTheLeft
<1>q. a.queue \in Text(Tokens) /\ c.queue \in Text(Tokens)
  BY FieldAssumption DEF Context, Text
<1>3. NoColon(a.queue) /\ NoColon(c.queue)
  BY <1>q, ColonOrNone
<1>t. <<a.tenantId>> \in Text(Tokens) /\ <<c.tenantId>> \in Text(Tokens) /\ ":" \in Tokens
  BY TokenAssumption DEF Context, Text
<1>4. <<"job">> \in Text(Tokens) /\ NoColon(<<"job">>)
  BY TokenAssumption DEF NoColon, Text
<1>5. ab = cb
  BY <1>1, <1>2, <1>4, <1>t, SplitAtColon
<1>6. a.queue = c.queue /\ ad = cd
  <2>1. Field(a.queue, ad) = Field(c.queue, cd)
    BY <1>1, <1>2, <1>5
  <2> QED BY <2>1, <1>q, <1>3, <1>t, SplitAtColon
<1>7. ad[1] = a.tenantId
  BY <1>1, <1>t, FirstOfField
<1>8. cd[1] = c.tenantId
  BY <1>2, <1>t, FirstOfField
<1> QED BY <1>6, <1>7, <1>8

LEMMA SameContext ==
  ASSUME NEW b \in Context, NEW c \in Context, b.queue = c.queue, b.tenantId = c.tenantId,
         b.entity = c.entity, b.entityId = c.entityId, b.operation = c.operation
  PROVE  b = c
BY DEF Context

\* As long as neither queue nor entity nor entity id contains a colon (the operation
\* may), jobs that differ in any field have different keys.
THEOREM KeysDistinct ==
  ASSUME NEW a \in Context, NEW c \in Context,
         ~ HasColon(a.queue), ~ HasColon(a.entity), ~ HasColon(a.entityId),
         ~ HasColon(c.queue), ~ HasColon(c.entity), ~ HasColon(c.entityId),
         BuildJobDedupeKey(a) = BuildJobDedupeKey(c)
  PROVE  a = c
<1>1. ":" \in Tokens
  BY TokenAssumption
<1>2. PICK af, ae, ad, ab \in Text(Tokens) :
           /\ BuildJobDedupeKey(a) = Field(<<"job">>, ab)
           /\ ab = Field(a.queue, ad)
           /\ ad = Field(<<a.tenantId>>, ae)
           /\ ae = Field(a.entity, af)
           /\ af = Field(a.entityId, a.operation)
  BY KeyFromTheLeft
<1>3. PICK cf, ce, cd, cb \in Text(Tokens) :
           /\ BuildJobDedupeKey(c) = Field(<<"job">>, cb)
           /\ cb = Field(c.queue, cd)
           /\ cd = Field(<<c.tenantId>>, ce)
           /\ ce = Field(c.entity, cf)
           /\ cf = Field(c.entityId, c.operation)
  BY KeyFromTheLeft
<1>4. /\ a.queue \in Text(Tokens) /\ a.entity \in Text(Tokens) /\ a.entityId \in Text(Tokens)
      /\ a.operation \in Text(Tokens) /\ a.tenantId \in Tenants
      /\ c.queue \in Text(Tokens) /\ c.entity \in Text(Tokens) /\ c.entityId \in Text(Tokens)
      /\ c.operation \in Text(Tokens) /\ c.tenantId \in Tenants
  BY FieldAssumption DEF Context, Text
<1>n. /\ NoColon(a.queue) /\ NoColon(a.entity) /\ NoColon(a.entityId)
      /\ NoColon(c.queue) /\ NoColon(c.entity) /\ NoColon(c.entityId)
  BY <1>4, ColonOrNone
<1> DEFINE jo == <<"job">>
           at == <<a.tenantId>>
           ct == <<c.tenantId>>
<1>5. jo \in Text(Tokens) /\ at \in Text(Tokens) /\ ct \in Text(Tokens) /\ NoColon(jo) /\ NoColon(at) /\ NoColon(ct)
  BY <1>4, TokenAssumption DEF NoColon, Text
<1>6. at = ct => a.tenantId = c.tenantId
  OBVIOUS
<1>7. Field(jo, ab) = Field(jo, cb) /\ ad = Field(at, ae) /\ cd = Field(ct, ce)
  BY <1>2, <1>3
<1> HIDE DEF jo, at, ct
<1>8. ab = cb
  BY <1>1, <1>5, <1>7, SplitAtColon
<1>9. Field(a.queue, ad) = Field(c.queue, cd)
  BY <1>2, <1>3, <1>8
<1>10. a.queue = c.queue /\ ad = cd
  BY <1>1, <1>4, <1>n, <1>9, SplitAtColon
<1>11. Field(at, ae) = Field(ct, ce)
  BY <1>7, <1>10
<1>12. at = ct /\ ae = ce
  BY <1>1, <1>5, <1>11, SplitAtColon
<1>13. Field(a.entity, af) = Field(c.entity, cf)
  BY <1>2, <1>3, <1>12
<1>14. a.entity = c.entity /\ af = cf
  BY <1>1, <1>4, <1>n, <1>13, SplitAtColon
<1>15. Field(a.entityId, a.operation) = Field(c.entityId, c.operation)
  BY <1>2, <1>3, <1>14
<1>16. a.entityId = c.entityId /\ a.operation = c.operation
  BY <1>1, <1>4, <1>n, <1>15, SplitAtColon
<1>17. a.tenantId = c.tenantId
  BY <1>6, <1>12
<1> QED BY <1>10, <1>14, <1>16, <1>17, SameContext

\* What the fields of two different jobs must be like for their keys to be equal: a
\* colon in a queue name, or in an entity or entity id of one queue and tenant.
THEOREM CollisionsNeedAColon ==
  ASSUME NEW b \in Context, NEW c \in Context, BuildJobDedupeKey(b) = BuildJobDedupeKey(c)
  PROVE  b = c \/ Confusable(b, c)
<1> SUFFICES ASSUME b # c, ~ HasColon(b.queue), ~ HasColon(c.queue)
             PROVE  Confusable(b, c)
  BY DEF Confusable
<1>1. b.queue = c.queue /\ b.tenantId = c.tenantId
  BY NamespacesApart
<1>2. \E s \in {b.entity, c.entity, b.entityId, c.entityId} : HasColon(s)
  BY KeysDistinct
<1> QED BY <1>1, <1>2 DEF Confusable
LEMMA FieldRegroups ==
  ASSUME NEW T, ":" \in T, NEW s \in Text(T), NEW t \in Text(T), NEW u \in Text(T)
  PROVE  Field(Field(s, t), u) = Field(s, Field(t, u))
<1> DEFINE ct == Cat(Colon, t)
           cu == Cat(Colon, u)
<1>1. Colon \in Text(T)
  BY DEF Colon, Text
<1>2. ct \in Text(T) /\ cu \in Text(T)
  BY <1>1, CatText
<1>3. Cat(Cat(s, ct), cu) = Cat(s, Cat(ct, cu))
  BY <1>2, CatRegroups
<1>4. Cat(ct, cu) = Cat(Colon, Cat(t, cu))
  BY <1>1, <1>2, CatRegroups
<1> QED BY <1>3, <1>4 DEF Field

\* The schema accepts jobs that have one key: what the one has as its tenant and as
\* the beginning of its entity, the other has as the end of its queue and its tenant.
THEOREM NamesakesCollide ==
  ASSUME NEW b \in Context, NEW c \in Context,
         c.queue = b.queue \o Colon \o <<b.tenantId>>,
         b.entity = <<c.tenantId>> \o Colon \o c.entity,
         b.entityId = c.entityId, b.operation = c.operation
  PROVE  BuildJobDedupeKey(b) = BuildJobDedupeKey(c)
<1>1. ":" \in Tokens
  BY TokenAssumption
<1>2. PICK bf, be, bd, bb \in Text(Tokens) :
        /\ BuildJobDedupeKey(b) = Field(<<"job">>, bb)
        /\ bb = Field(b.queue, bd)
        /\ bd = Field(<<b.tenantId>>, be)
        /\ be = Field(b.entity, bf)
        /\ bf = Field(b.entityId, b.operation)
  BY KeyFromTheLeft, Zenon
<1>3. PICK cf, ce, cd, cb \in Text(Tokens) :
        /\ BuildJobDedupeKey(c) = Field(<<"job">>, cb)
        /\ cb = Field(c.queue, cd)
        /\ cd = Field(<<c.tenantId>>, ce)
        /\ ce = Field(c.entity, cf)
        /\ cf = Field(c.entityId, c.operation)
  BY KeyFromTheLeft, Zenon
<1>4. b.queue \in Text(Tokens) /\ c.entity \in Text(Tokens)
  BY FieldAssumption DEF Context, Text
<1> DEFINE q  == b.queue
           tb == <<b.tenantId>>
           tc == <<c.tenantId>>
           e  == c.entity
<1>5. tb \in Text(Tokens) /\ tc \in Text(Tokens) /\ Colon \in Text(Tokens)
  <2>1. b.tenantId \in Tokens /\ c.tenantId \in Tokens
    BY TokenAssumption DEF Context
  <2> QED BY <2>1, <1>1 DEF Colon, Text
<1>6. c.queue = Cat(Cat(q, Colon), tb) /\ b.entity = Cat(Cat(tc, Colon), e)
  BY DEF Cat
<1>7. /\ bb = Field(q, bd) /\ bd = Field(tb, be) /\ be = Field(b.entity, bf)
      /\ cb = Field(c.queue, cd) /\ cd = Field(tc, ce) /\ ce = Field(e, cf)
  BY <1>2, <1>3
<1>8. bf = cf
  BY <1>2, <1>3
<1>9. q \in Text(Tokens) /\ e \in Text(Tokens)
  BY <1>4
<1> HIDE DEF q, tb, tc, e
<1>10. Cat(Cat(q, Colon), tb) = Field(q, tb)
  BY <1>5, <1>9, CatRegroups DEF Field
<1>11. Cat(Cat(tc, Colon), e) = Field(tc, e)
  BY <1>5, <1>9, CatRegroups DEF Field
<1>12. Field(Field(tc, e), bf) = Field(tc, Field(e, bf))
  BY <1>1, <1>5, <1>9, FieldRegroups
<1>13. be = cd
  BY <1>6, <1>7, <1>8, <1>11, <1>12
<1>14. Field(Field(q, tb), cd) = Field(q, Field(tb, cd))
  BY <1>1, <1>5, <1>9, FieldRegroups
<1>15. bb = cb
  BY <1>6, <1>7, <1>10, <1>13, <1>14
<1> QED BY <1>2, <1>3, <1>15
----------------------------------------------------------------------------
\* The types the arguments need: those of all variables but queued.
Types ==
  /\ job \in [Deliveries -> Jobs]
  /\ dedupe \in [Keys -> Nat] /\ lease \in [Keys -> Nat] /\ now \in Nat
  /\ holder \in [Keys -> Deliveries \cup {None}]
  /\ pc \in [Deliveries -> States]
  /\ claimUntil \in [Deliveries -> Nat]
  /\ leaseUntil \in [Deliveries -> Nat]

\* A key is set as long as any window it was set for; windows do not overlap.
Windows ==
  /\ \A d \in Deliveries : claimUntil[d] <= dedupe[Key(d)]
  /\ \A d, e \in Deliveries : d # e /\ Key(d) = Key(e) =>
       claimUntil[d] <= now \/ claimUntil[e] <= now

\* The lease of a delivery in the critical section is its own until it expires.
Leases ==
  \A d \in Deliveries : pc[d] = "critical" /\ now < leaseUntil[d] =>
    holder[Key(d)] = d /\ lease[Key(d)] = leaseUntil[d]

Guarded == Types /\ Windows /\ Leases
----------------------------------------------------------------------------
LEMMA KeyOfDelivery == Types => \A d \in Deliveries : Key(d) \in Keys
  BY DEF Types, Key, Keys

LEMMA InitGuarded == Init => Guarded
<1> SUFFICES ASSUME Init PROVE Guarded
  OBVIOUS
<1>1. Types
  BY JobAssumption DEF Init, Types, States, Running, Inside
<1>2. Windows /\ Leases
  BY <1>1, KeyOfDelivery DEF Init, Windows, Leases
<1> QED BY <1>1, <1>2 DEF Guarded

\* Layer 1 sets a key only when all windows it was set for are over.
LEMMA Layer1Step ==
  ASSUME Guarded, NEW d \in Deliveries, Layer1(d)
  PROVE  Guarded'
<1> USE DEF Guarded
<1>1. \A e \in Deliveries : Key(e) \in Keys /\ Key(e)' = Key(e)
  BY KeyOfDelivery DEF Layer1, Key
<1>2. /\ UNCHANGED <<job, holder, lease, leaseUntil, now>>
      /\ pc' \in [Deliveries -> States] /\ pc'[d] # "critical"
      /\ \A e \in Deliveries \ {d} : pc'[e] = pc[e]
  BY DEF Layer1, Return, Move, Types, States, Running
<1>3. Leases'
  BY <1>1, <1>2 DEF Leases
<1>4. CASE Fresh(d)
  <2>1. /\ dedupe' = [dedupe EXCEPT ![Key(d)] = now + DedupeTTL]
        /\ claimUntil' = [claimUntil EXCEPT ![d] = now + DedupeTTL]
        /\ now >= dedupe[Key(d)]
    BY <1>4 DEF Layer1, Fresh
  <2>2. now + DedupeTTL \in Nat /\ now + DedupeTTL >= now
    BY TimeAssumption DEF Types
  <2>3. Types'
    BY <1>1, <1>2, <2>1, <2>2 DEF Types
  <2>4. \A e \in Deliveries \ {d} : Key(e) = Key(d) => claimUntil[e] <= now
    BY <1>1, <2>1 DEF Types, Windows
  <2>5. \A e \in Deliveries : claimUntil'[e] <= dedupe'[Key(e)]
    BY <1>1, <2>1, <2>2, <2>4 DEF Types, Windows
  <2>6. Windows'
    BY <1>1, <1>2, <2>1, <2>4, <2>5 DEF Types, Windows
  <2> QED BY <2>3, <2>6, <1>3
<1>5. CASE ~ Fresh(d)
  <2>1. UNCHANGED <<dedupe, claimUntil>>
    BY <1>5 DEF Layer1
  <2> QED BY <2>1, <1>1, <1>2, <1>3 DEF Types, Windows
<1> QED BY <1>4, <1>5

\* Layer 2 grants no lease while the holder of another one is inside with it.
LEMMA Layer2Step ==
  ASSUME Guarded, NEW d \in Deliveries, Layer2(d)
  PROVE  Guarded'
<1> USE DEF Guarded
<1>1. \A e \in Deliveries : Key(e) \in Keys /\ Key(e)' = Key(e)
  BY KeyOfDelivery DEF Layer2, Key
<1>2. /\ UNCHANGED <<job, dedupe, claimUntil, now>>
      /\ pc' \in [Deliveries -> States]
      /\ \A e \in Deliveries \ {d} : pc'[e] = pc[e]
  BY DEF Layer2, Return, Move, Types, States, Running, Inside
<1>3. Windows'
  BY <1>1, <1>2 DEF Windows
<1>4. CASE Granted(d)
  <2>1. /\ holder' = [holder EXCEPT ![Key(d)] = d]
        /\ lease' = [lease EXCEPT ![Key(d)] = now + LockTTL]
        /\ leaseUntil' = [leaseUntil EXCEPT ![d] = now + LockTTL]
        /\ holder[Key(d)] = None \/ now >= lease[Key(d)]
    BY <1>4 DEF Layer2, Granted
  <2>2. now + LockTTL \in Nat
    BY TimeAssumption DEF Types
  <2>3. Types'
    BY <1>1, <1>2, <2>1, <2>2 DEF Types
  <2>4. \A e \in Deliveries \ {d} :
          Key(e) = Key(d) /\ pc[e] = "critical" => leaseUntil[e] <= now
    BY <1>1, <2>1, NoneAssumption DEF Types, Leases
  <2>5. Leases'
    BY <1>1, <1>2, <2>1, <2>4 DEF Types, Leases
  <2> QED BY <2>3, <2>5, <1>3
<1>5. CASE ~ Granted(d)
  <2>1. UNCHANGED <<holder, lease, leaseUntil>> /\ pc'[d] = "done"
    BY <1>5 DEF Layer2, Return, Move, Types
  <2> QED BY <2>1, <1>1, <1>2, <1>3 DEF Types, Leases
<1> QED BY <1>4, <1>5

\* A release frees no lease but its own.
LEMMA ReleaseStep ==
  ASSUME Guarded, NEW d \in Deliveries, Release(d)
  PROVE  Guarded'
<1> USE DEF Guarded
<1>1. \A e \in Deliveries : Key(e) \in Keys /\ Key(e)' = Key(e)
  BY KeyOfDelivery DEF Release, Key
<1>2. /\ UNCHANGED <<job, dedupe, lease, claimUntil, leaseUntil, now>>
      /\ pc' = [pc EXCEPT ![d] = "done"]
      /\ holder' = [holder EXCEPT ![Key(d)] = IF @ = d THEN None ELSE @]
  BY DEF Release, Return, Move
<1>3. Types'
  BY <1>1, <1>2 DEF Types, States
<1> QED BY <1>1, <1>2, <1>3 DEF Types, Windows, Leases

LEMMA GuardedStep == Guarded /\ [Next]_vars => Guarded'
<1> SUFFICES ASSUME Guarded, [Next]_vars PROVE Guarded'
  OBVIOUS
<1>1. \A e \in Deliveries : Key(e) \in Keys
  BY KeyOfDelivery DEF Guarded
\* Steps that leave both layers alone, and bring nobody inside.
<1>2. ASSUME UNCHANGED <<job, dedupe, holder, lease, claimUntil, leaseUntil, now>>,
             pc' \in [Deliveries -> States],
             \A d \in Deliveries : pc'[d] = "critical" => pc[d] = "critical"
      PROVE  Guarded'
  BY <1>2 DEF Guarded, Types, Windows, Leases, Key
<1>3. CASE UNCHANGED vars
  BY <1>2, <1>3 DEF vars, Guarded, Types
<1>4. CASE Tick
  <2>1. /\ now' = now + 1
        /\ UNCHANGED <<job, dedupe, holder, lease, pc, claimUntil, leaseUntil>>
    BY <1>4 DEF Tick
  <2> QED BY <2>1, <1>1 DEF Guarded, Types, Windows, Leases, Key
<1>5. ASSUME NEW d \in Deliveries,
             \/ Deliver(d) \/ Duplicate(d) \/ Crash(d)
             \/ CriticalSection(d) \/ CriticalSectionThrows(d)
      PROVE  Guarded'
  BY <1>2, <1>5 DEF Deliver, Duplicate, Crash, CriticalSection, CriticalSectionThrows, Return,
                    Move, Guarded, Types, States, Running, Inside
<1> QED BY <1>3, <1>4, <1>5, Layer1Step, Layer2Step, ReleaseStep DEF Next, Run

LEMMA SpecGuarded == Spec => []Guarded
  BY InitGuarded, GuardedStep, PTL DEF Spec

\* Two deliveries are inside the critical section together only if a dedupe key
\* and a lease of theirs have both expired.
THEOREM OverlapSafe == Spec => []OverlapNeedsBothExpired
<1>1. Guarded => OverlapNeedsBothExpired
  <2> SUFFICES ASSUME Guarded, NEW d \in Deliveries, NEW e \in Siblings(d),
                      pc[d] = "critical", pc[e] = "critical"
               PROVE  /\ \E x \in {d, e} : claimUntil[x] <= now
                      /\ \E x \in {d, e} : leaseUntil[x] <= now
    BY DEF OverlapNeedsBothExpired
  <2>1. e \in Deliveries /\ d # e /\ Key(d) = Key(e)
    BY DEF Siblings, Key
  <2>2. claimUntil[d] <= now \/ claimUntil[e] <= now
    BY <2>1 DEF Guarded, Windows
  <2>3. leaseUntil[d] <= now \/ leaseUntil[e] <= now
    BY <2>1 DEF Guarded, Leases, Types
  <2> QED BY <2>2, <2>3
<1> QED BY <1>1, SpecGuarded, PTL

\* At most one delivery of a job starts inside its window.
THEOREM StartSafe == Spec => OneStartPerWindow
<1>1. ASSUME Guarded PROVE [\A d \in Deliveries :
         pc[d] = "L2" /\ pc'[d] = "critical" /\ now < claimUntil[d] =>
           \A e \in Siblings(d) : claimUntil[e] <= now]_vars
  BY <1>1 DEF Guarded, Types, Windows, Siblings, Key
<1> QED BY <1>1, SpecGuarded, PTL DEF OneStartPerWindow
----------------------------------------------------------------------------
\* What deliveries have left behind, by where they are and how they ended.
Traces ==
  \A d \in Deliveries :
    /\ pc[d] \in {"idle", "L1"} => claimUntil[d] = 0
    /\ pc[d] \in {"idle", "L1", "L2"} => leaseUntil[d] = 0
    /\ pc[d] \in {"idle", "L1", "L2", "critical"} => outcome[d] = "none"
    /\ pc[d] = "release" => outcome[d] \in {"executed", "failed"}
    /\ pc[d] = "done" => outcome[d] # "none"
    /\ outcome[d] = "executed" => written[job[d]] # None
    /\ outcome[d] = "deduplicated" => claimUntil[d] = 0
    /\ outcome[d] \in {"deduplicated", "contended"} => leaseUntil[d] = 0

\* Every key, lease and contention is of somebody's making.
Makers ==
  /\ \A k \in Keys : dedupe[k] > 0 =>
       \E d \in Deliveries : Key(d) = k /\ claimUntil[d] = dedupe[k]
  /\ \A k \in Keys : holder[k] # None =>
       Key(holder[k]) = k /\ lease[k] = leaseUntil[holder[k]]
  /\ \A d \in Deliveries : outcome[d] = "contended" =>
       \E e \in Deliveries \ {d} : Key(e) = Key(d) /\ leaseUntil[e] > 0

OutcomeTypes ==
  /\ outcome \in [Deliveries -> Outcomes]
  /\ written \in [Jobs -> Deliveries \cup {None}]

Accounted == Types /\ OutcomeTypes /\ Traces /\ Makers

LEMMA InitAccounted == Init => Accounted
<1> SUFFICES ASSUME Init PROVE Accounted
  OBVIOUS
<1>1. Types
  BY InitGuarded DEF Guarded
<1>2. OutcomeTypes
  BY DEF Init, OutcomeTypes, Outcomes
<1>3. Traces /\ Makers
  BY <1>1, KeyOfDelivery DEF Init, Traces, Makers
<1> QED BY <1>1, <1>2, <1>3 DEF Accounted

\* One step per action; Types is preserved as part of Guarded.
LEMMA AccountedStep == Guarded /\ Accounted /\ [Next]_vars => Accounted'
<1> SUFFICES ASSUME Guarded, Accounted, [Next]_vars PROVE Accounted'
  OBVIOUS
<1>1. Types'
  BY GuardedStep DEF Guarded
<1>2. \A e \in Deliveries : Key(e) \in Keys /\ job[e] \in Jobs
  BY KeyOfDelivery DEF Accounted, Types
<1>3. CASE UNCHANGED vars
  BY <1>1, <1>3 DEF vars, Accounted, OutcomeTypes, Traces, Makers, Key
<1>4. CASE Tick
  BY <1>1, <1>4 DEF Tick, Accounted, OutcomeTypes, Traces, Makers, Key
<1>5. ASSUME NEW d \in Deliveries, Deliver(d) \/ Duplicate(d) PROVE Accounted'
  <2>1. UNCHANGED <<job, dedupe, holder, lease, outcome, claimUntil, leaseUntil, written, now>>
    BY <1>5 DEF Deliver, Duplicate
  <2>2. Traces'
    BY <1>5, <2>1 DEF Deliver, Duplicate, Move, Accounted, Types, Traces
  <2> QED BY <1>1, <2>1, <2>2 DEF Accounted, OutcomeTypes, Makers, Key
<1>6. ASSUME NEW d \in Deliveries, Layer1(d) PROVE Accounted'
  <2>1. UNCHANGED <<job, holder, lease, leaseUntil, written, now>> /\ pc[d] = "L1"
    BY <1>6 DEF Layer1
  <2>2. CASE Fresh(d)
    <3>1. /\ dedupe' = [dedupe EXCEPT ![Key(d)] = now + DedupeTTL]
          /\ claimUntil' = [claimUntil EXCEPT ![d] = now + DedupeTTL]
          /\ pc' = [pc EXCEPT ![d] = "L2"] /\ outcome' = outcome
      BY <1>6, <2>2 DEF Layer1, Move
    <3>2. Traces'
      BY <2>1, <3>1 DEF Accounted, Types, Traces
    <3>3. \A k \in Keys : dedupe'[k] > 0 =>
            \E e \in Deliveries : Key(e)' = k /\ claimUntil'[e] = dedupe'[k]
      <4> SUFFICES ASSUME NEW k \in Keys, dedupe'[k] > 0
                   PROVE  \E e \in Deliveries : Key(e)' = k /\ claimUntil'[e] = dedupe'[k]
        OBVIOUS
      <4>1. CASE k = Key(d)
        BY <4>1, <2>1, <3>1, <1>2 DEF Accounted, Types, Key
      <4>2. CASE k # Key(d)
        <5>1. dedupe'[k] = dedupe[k]
          BY <4>2, <3>1 DEF Accounted, Types
        <5>2. PICK e \in Deliveries : Key(e) = k /\ claimUntil[e] = dedupe[k]
          BY <5>1 DEF Accounted, Makers
        <5>3. e # d
          BY <5>2, <4>2
        <5>4. claimUntil'[e] = claimUntil[e] /\ Key(e)' = Key(e)
          BY <5>3, <3>1, <2>1 DEF Accounted, Types, Key
        <5> QED BY <5>1, <5>2, <5>4
      <4> QED BY <4>1, <4>2
    <3>4. Makers'
      BY <2>1, <3>1, <3>3 DEF Accounted, Makers, Key, Keys
    <3> QED BY <1>1, <2>1, <3>1, <3>2, <3>4 DEF Accounted, OutcomeTypes
  <2>3. CASE ~ Fresh(d)
    <3>1. /\ UNCHANGED <<dedupe, claimUntil>>
          /\ pc' = [pc EXCEPT ![d] = "done"] /\ outcome' = [outcome EXCEPT ![d] = "deduplicated"]
      BY <1>6, <2>3 DEF Layer1, Return, Move
    <3>2. Traces' /\ OutcomeTypes'
      BY <2>1, <3>1 DEF Accounted, Types, OutcomeTypes, Outcomes, Traces
    <3>3. Makers'
      BY <2>1, <3>1 DEF Accounted, OutcomeTypes, Makers, Key
    <3> QED BY <1>1, <3>2, <3>3 DEF Accounted
  <2> QED BY <2>2, <2>3
<1>7. ASSUME NEW d \in Deliveries, Layer2(d) PROVE Accounted'
  <2>1. UNCHANGED <<job, dedupe, claimUntil, written, now>> /\ pc[d] = "L2"
    BY <1>7 DEF Layer2
  <2>2. leaseUntil[d] = 0 /\ now \in Nat
    BY <2>1 DEF Accounted, Traces, Types
  <2>3. \A k \in Keys : holder[k] # None => holder[k] \in Deliveries
    BY DEF Accounted, Types
  <2>4. CASE Granted(d)
    <3>1. /\ holder' = [holder EXCEPT ![Key(d)] = d]
          /\ lease' = [lease EXCEPT ![Key(d)] = now + LockTTL]
          /\ leaseUntil' = [leaseUntil EXCEPT ![d] = now + LockTTL]
          /\ pc' = [pc EXCEPT ![d] = "critical"] /\ outcome' = outcome
      BY <1>7, <2>4 DEF Layer2, Move
    <3>2. Traces'
      BY <2>1, <3>1 DEF Accounted, Types, Traces
    <3>3. \A e \in Deliveries \ {d} : leaseUntil'[e] = leaseUntil[e]
      BY <3>1 DEF Accounted, Types
    <3>4. \A k \in Keys : holder'[k] # None =>
            Key(holder[k])' = k /\ lease'[k] = leaseUntil'[holder'[k]]
      <4> SUFFICES ASSUME NEW k \in Keys, holder'[k] # None
                   PROVE  Key(holder[k])' = k /\ lease'[k] = leaseUntil'[holder'[k]]
        OBVIOUS
      <4>1. CASE k = Key(d)
        BY <4>1, <2>1, <3>1, <1>2 DEF Accounted, Types, Key
      <4>2. CASE k # Key(d)
        <5>1. holder'[k] = holder[k] /\ lease'[k] = lease[k]
          BY <4>2, <3>1 DEF Accounted, Types
        <5>2. Key(holder[k]) = k /\ lease[k] = leaseUntil[holder[k]]
          BY <5>1 DEF Accounted, Makers
        <5>3. holder[k] \in Deliveries \ {d}
          BY <5>1, <5>2, <4>2, <2>3
        <5> QED BY <5>1, <5>2, <5>3, <3>3, <2>1 DEF Key
      <4> QED BY <4>1, <4>2
    <3>5. \A e \in Deliveries : leaseUntil[e] > 0 => leaseUntil'[e] > 0
      BY <3>1, <3>3, <2>2
    <3>6. Makers'
      BY <2>1, <3>1, <3>4, <3>5 DEF Accounted, Makers, Key, Keys
    <3> QED BY <1>1, <2>1, <3>1, <3>2, <3>6 DEF Accounted, OutcomeTypes
  <2>5. CASE ~ Granted(d)
    <3>1. /\ UNCHANGED <<holder, lease, leaseUntil>>
          /\ pc' = [pc EXCEPT ![d] = "done"] /\ outcome' = [outcome EXCEPT ![d] = "contended"]
      BY <1>7, <2>5 DEF Layer2, Return, Move
    <3>2. Traces' /\ OutcomeTypes'
      BY <2>1, <3>1 DEF Accounted, Types, OutcomeTypes, Outcomes, Traces
    <3>3. holder[Key(d)] # None /\ now < lease[Key(d)]
      BY <2>5, <1>2, <2>2 DEF Granted, Accounted, Types
    <3>4. \E e \in Deliveries \ {d} : Key(e) = Key(d) /\ leaseUntil[e] > 0
      <4>1. Key(holder[Key(d)]) = Key(d) /\ leaseUntil[holder[Key(d)]] = lease[Key(d)]
        BY <3>3, <1>2 DEF Accounted, Makers
      <4>2. leaseUntil[holder[Key(d)]] > 0 /\ holder[Key(d)] \in Deliveries
        BY <4>1, <3>3, <2>2, <2>3, <1>2 DEF Accounted, Types
      <4> QED BY <4>1, <4>2, <2>2
    <3>5. Makers'
      BY <2>1, <3>1, <3>4 DEF Accounted, OutcomeTypes, Makers, Key
    <3> QED BY <1>1, <3>2, <3>5 DEF Accounted
  <2> QED BY <2>4, <2>5
<1>8. ASSUME NEW d \in Deliveries,
             CriticalSection(d) \/ CriticalSectionThrows(d) \/ Release(d) \/ Crash(d)
      PROVE  Accounted'
  <2>1. /\ UNCHANGED <<job, dedupe, lease, claimUntil, leaseUntil, now>>
        /\ \A k \in Keys : holder'[k] \in {holder[k], None}
        /\ \A e \in Deliveries \ {d} : pc'[e] = pc[e] /\ outcome'[e] = outcome[e]
        /\ outcome'[d] \in {"executed", "failed", "crashed"}
        /\ pc'[d] \in {"release", "done"}
        /\ pc'[d] = "release" => outcome'[d] # "crashed"
    BY <1>8 DEF CriticalSection, CriticalSectionThrows, Release, Crash, Return, Move, Accounted,
                Types, OutcomeTypes, Traces
  <2>2. /\ written' \in [Jobs -> Deliveries \cup {None}]
        /\ \A c \in Jobs : written[c] # None => written'[c] # None
        /\ outcome'[d] = "executed" => written'[job[d]] # None
    BY <1>8, <1>2, NoneAssumption
       DEF CriticalSection, CriticalSectionThrows, Release, Crash, Layer3, Return, Accounted,
           Types, OutcomeTypes, Traces
  <2>3. OutcomeTypes'
    BY <1>8, <2>2 DEF CriticalSection, CriticalSectionThrows, Release, Crash, Return, Accounted,
                      OutcomeTypes, Outcomes
  <2>4. Traces'
    BY <2>1, <2>2, <1>2 DEF Accounted, Traces
  <2>5. Makers'
    BY <2>1 DEF Accounted, Makers, Key, Keys
  <2> QED BY <1>1, <2>3, <2>4, <2>5 DEF Accounted
<1> QED BY <1>3, <1>4, <1>5, <1>6, <1>7, <1>8 DEF Next, Run

LEMMA SpecAccounted == Spec => [](Guarded /\ Accounted)
<1>1. Init => Guarded /\ Accounted
  BY InitGuarded, InitAccounted
<1>2. Guarded /\ Accounted /\ [Next]_vars => (Guarded /\ Accounted)'
  BY GuardedStep, AccountedStep
<1> QED BY <1>1, <1>2, PTL DEF Spec

\* Deliveries with one key are rivals.
LEMMA SameKeyRivals ==
  ASSUME Types, NEW d \in Deliveries, NEW e \in Deliveries \ {d}, Key(e) = Key(d)
  PROVE  e \in Rivals(d)
<1>1. job[d] \in Context /\ job[e] \in Context
  BY JobAssumption DEF Types
<1>2. BuildJobDedupeKey(job[e]) = BuildJobDedupeKey(job[d])
  BY DEF Key
<1>3. job[e] = job[d] \/ Confusable(job[e], job[d])
  BY <1>1, <1>2, CollisionsNeedAColon
<1> QED BY <1>3 DEF Rivals

\* A delivery that is dropped finds the window of another one with its key open.
LEMMA DropStep ==
  ASSUME Accounted, [Next]_vars, NEW d \in Deliveries, Ends(d, "deduplicated")
  PROVE  pc[d] = "L1" /\ \E e \in Deliveries \ {d} : Key(e) = Key(d) /\ now < claimUntil[e]
<1>1. Layer1(d) /\ ~ Fresh(d)
  <2>1. ASSUME NEW e \in Deliveries, Layer1(e) PROVE e = d /\ ~ Fresh(e)
    BY <2>1 DEF Ends, Layer1, Return, Accounted, OutcomeTypes
  <2>2. \A e \in Deliveries : ~ Layer2(e) /\ ~ CriticalSection(e) /\ ~ CriticalSectionThrows(e)
                              /\ ~ Release(e) /\ ~ Crash(e)
    BY DEF Ends, Layer2, CriticalSection, CriticalSectionThrows, Release, Crash, Return,
           Accounted, OutcomeTypes, Traces
  <2>3. outcome' # outcome
    BY DEF Ends
  <2> QED BY <2>1, <2>2, <2>3 DEF Next, Run, Tick, Deliver, Duplicate, vars
<1>2. pc[d] = "L1" /\ claimUntil[d] = 0
  BY <1>1 DEF Layer1, Accounted, Traces
<1>3. Key(d) \in Keys /\ now \in Nat /\ dedupe[Key(d)] \in Nat
  BY KeyOfDelivery DEF Accounted, Types
<1>4. now < dedupe[Key(d)]
  BY <1>1, <1>3 DEF Fresh
<1>5. PICK e \in Deliveries : Key(e) = Key(d) /\ claimUntil[e] = dedupe[Key(d)]
  BY <1>3, <1>4 DEF Accounted, Makers
<1>6. e # d
  BY <1>2, <1>3, <1>4, <1>5
<1> QED BY <1>2, <1>4, <1>5, <1>6

\* A delivery that is contended finds the lease of another one with its key valid.
LEMMA ContendStep ==
  ASSUME Accounted, [Next]_vars, NEW d \in Deliveries, Ends(d, "contended")
  PROVE  \E e \in Deliveries \ {d} : Key(e) = Key(d) /\ now < leaseUntil[e]
<1>1. Layer2(d) /\ ~ Granted(d)
  <2>1. ASSUME NEW e \in Deliveries, Layer2(e) PROVE e = d /\ ~ Granted(e)
    BY <2>1 DEF Ends, Layer2, Return, Accounted, OutcomeTypes
  <2>2. \A e \in Deliveries : ~ Layer1(e) /\ ~ CriticalSection(e) /\ ~ CriticalSectionThrows(e)
                              /\ ~ Release(e) /\ ~ Crash(e)
    BY DEF Ends, Layer1, CriticalSection, CriticalSectionThrows, Release, Crash, Return,
           Accounted, OutcomeTypes, Traces
  <2>3. outcome' # outcome
    BY DEF Ends
  <2> QED BY <2>1, <2>2, <2>3 DEF Next, Run, Tick, Deliver, Duplicate, vars
<1>2. leaseUntil[d] = 0
  BY <1>1 DEF Layer2, Accounted, Traces
<1>3. Key(d) \in Keys /\ now \in Nat /\ lease[Key(d)] \in Nat
  BY KeyOfDelivery DEF Accounted, Types
<1> DEFINE e == holder[Key(d)]
<1>4. e # None /\ now < lease[Key(d)]
  BY <1>1, <1>3 DEF Granted
<1>5. e \in Deliveries /\ Key(e) = Key(d) /\ leaseUntil[e] = lease[Key(d)]
  BY <1>3, <1>4 DEF Accounted, Makers, Types
<1> HIDE DEF e
<1>6. e # d
  BY <1>2, <1>3, <1>4, <1>5
<1> QED BY <1>4, <1>5, <1>6

\* A delivery is refused only for a live key or lease of its own job, or of one that
\* colons in their fields make look like it.
THEOREM RefusalSafe == Spec => RefusedByItsOwnJob
<1>1. ASSUME Accounted, [Next]_vars, NEW d \in Deliveries, Ends(d, "deduplicated")
      PROVE  \E e \in Rivals(d) : now < claimUntil[e]
  <2>1. PICK e \in Deliveries \ {d} : Key(e) = Key(d) /\ now < claimUntil[e]
    BY <1>1, DropStep
  <2> QED BY <2>1, <1>1, SameKeyRivals DEF Accounted
<1>2. ASSUME Accounted, [Next]_vars, NEW d \in Deliveries, Ends(d, "contended")
      PROVE  \E e \in Rivals(d) : now < leaseUntil[e]
  <2>1. PICK e \in Deliveries \ {d} : Key(e) = Key(d) /\ now < leaseUntil[e]
    BY <1>2, ContendStep
  <2> QED BY <2>1, <1>2, SameKeyRivals DEF Accounted
<1>3. ASSUME Accounted, [Next]_vars
      PROVE  \A d \in Deliveries :
               /\ Ends(d, "deduplicated") => \E e \in Rivals(d) : now < claimUntil[e]
               /\ Ends(d, "contended")    => \E e \in Rivals(d) : now < leaseUntil[e]
  BY <1>3, <1>1, <1>2
<1> QED BY <1>3, SpecAccounted, PTL DEF Spec, RefusedByItsOwnJob

\* A delivery is dropped as a duplicate only while another one of its job owns
\* the work, after an attempt failed, or if another job has its key.
THEOREM DropSafe == Spec => DroppedWhileOwned
<1>1. ASSUME Accounted, [Next]_vars, NEW d \in Deliveries, Ends(d, "deduplicated"),
             ~ SharesKey(d)
      PROVE  OwnedElsewhere(d) \/ SomeAttemptFailed(d)
  <2>1. PICK e \in Deliveries \ {d} : Key(e) = Key(d) /\ now < claimUntil[e]
    BY <1>1, DropStep
  <2>2. pc[d] = "L1" /\ leaseUntil[d] = 0
    BY <1>1, DropStep DEF Accounted, Traces
  <2>3. e \in Siblings(d) /\ e \in Deliveries /\ job[e] = job[d] /\ claimUntil[e] > 0
    BY <2>1, <1>1 DEF SharesKey, Siblings, Accounted, Types
  <2>4. CASE pc[e] # "done"
    <3>1. pc[e] \in {"L2", "critical", "release"}
      BY <2>3, <2>4, <1>1 DEF Accounted, Traces, Types, States, Running, Inside
    <3> QED BY <3>1, <2>3 DEF OwnedElsewhere
  <2>5. CASE pc[e] = "done" /\ outcome[e] # "contended"
    <3>1. outcome[e] \in {"executed", "failed", "crashed"}
      BY <2>3, <2>5, <1>1 DEF Accounted, Traces, OutcomeTypes, Outcomes
    <3>2. outcome[e] = "executed" => written[job[d]] # None
      BY <2>3, <1>1 DEF Accounted, Traces
    <3> QED BY <2>3, <3>1, <3>2 DEF OwnedElsewhere, SomeAttemptFailed
\* e was contended: whoever had the lease owns the work, has done it, or failed.
  <2>6. CASE pc[e] = "done" /\ outcome[e] = "contended"
    <3>1. PICK f \in Deliveries : Key(f) = Key(e) /\ leaseUntil[f] > 0
      BY <2>3, <2>6, <1>1 DEF Accounted, Makers
    <3>2. f # d /\ job[f] = job[d]
      BY <3>1, <2>1, <2>2, <1>1 DEF SharesKey, Accounted, Types
    <3>3. pc[f] \in {"critical", "release"} \/ outcome[f] \in {"executed", "failed", "crashed"}
      BY <3>1, <1>1 DEF Accounted, Traces, Types, States, Running, Inside, OutcomeTypes, Outcomes
    <3>4. outcome[f] = "executed" => written[job[d]] # None
      BY <3>2, <1>1 DEF Accounted, Traces
    <3> QED BY <3>2, <3>3, <3>4 DEF OwnedElsewhere, SomeAttemptFailed, Siblings
  <2> QED BY <2>4, <2>5, <2>6
<1>2. ASSUME Accounted, [Next]_vars
      PROVE  \A d \in Deliveries :
               Ends(d, "deduplicated") =>
                 OwnedElsewhere(d) \/ SomeAttemptFailed(d) \/ SharesKey(d)
  BY <1>1, <1>2
<1> QED BY <1>2, SpecAccounted, PTL DEF Spec, DroppedWhileOwned
----------------------------------------------------------------------------
\* A delivery puts its message back only as it ends, and one is put back beside
\* it only when none waits: the queue holds at most one more than have ended.
Ended == {d \in Deliveries : pc[d] = "done"}

Queued ==
  /\ queued \in [Jobs -> Nat]
  /\ \A c \in Jobs : queued[c] <= 1 + Cardinality(Ended)

LEMMA EndedGrows ==
  ASSUME NEW d \in Deliveries, Types, pc[d] # "done", pc' = [pc EXCEPT ![d] = "done"]
  PROVE  Cardinality(Ended)' = Cardinality(Ended) + 1
<1>1. Ended' = Ended \cup {d} /\ d \notin Ended
  BY DEF Types, Ended
<1>2. IsFiniteSet(Ended)
  BY FiniteAssumption, FS_Subset DEF Ended
<1>3. Cardinality(Ended \cup {d}) = Cardinality(Ended) + 1
  BY <1>1, <1>2, FS_AddElement
<1>4. Cardinality(Ended)' = Cardinality(Ended')
  OBVIOUS
<1> HIDE DEF Ended
<1> QED BY <1>1, <1>3, <1>4

LEMMA EndedIsCounted ==
  /\ Cardinality(Ended) \in Nat
  /\ Cardinality(Ended) \in 0..Cardinality(Deliveries)
<1>1. Ended \subseteq Deliveries
  BY DEF Ended
<1>2. IsFiniteSet(Ended) /\ Cardinality(Ended) <= Cardinality(Deliveries)
  BY <1>1, FiniteAssumption, FS_Subset
<1> QED BY <1>2, FiniteAssumption, FS_CardinalityType

\* A return ends a delivery, and puts back at most one message.
LEMMA ReturnQueued ==
  ASSUME Types, Queued, NEW d \in Deliveries, pc[d] # "done", NEW result, Return(d, result),
         job' = job
  PROVE  Queued'
<1>1. Cardinality(Ended)' = Cardinality(Ended) + 1
  BY EndedGrows DEF Return, Move
<1>2. Cardinality(Ended) \in Nat
  BY EndedIsCounted
<1>3. queued' = queued \/ queued' = [queued EXCEPT ![job[d]] = @ + 1]
  BY DEF Return
<1>4. queued' \in [Jobs -> Nat]
  BY <1>3 DEF Queued, Types
<1>5. ASSUME NEW c \in Jobs PROVE queued'[c] <= 1 + Cardinality(Ended)'
  <2>1. queued'[c] <= queued[c] + 1
    BY <1>3 DEF Queued, Types
  <2>2. queued[c] <= 1 + Cardinality(Ended) /\ queued[c] \in Nat /\ queued'[c] \in Nat
    BY <1>4 DEF Queued
  <2> HIDE DEF Ended
  <2> QED BY <2>1, <2>2, <1>1, <1>2
<1> QED BY <1>4, <1>5 DEF Queued

\* Steps that end nobody and put nothing into the queue.
LEMMA QueuedStays ==
  ASSUME Types, Queued, UNCHANGED queued,
         \A d \in Deliveries : pc'[d] = "done" <=> pc[d] = "done"
  PROVE  Queued'
<1>1. Ended' = Ended
  BY DEF Ended
<1>2. Cardinality(Ended)' = Cardinality(Ended)
  BY <1>1
<1> QED BY <1>2 DEF Queued

LEMMA QueuedStep == Types /\ OutcomeTypes /\ Queued /\ [Next]_vars => Queued'
<1> SUFFICES ASSUME Types, OutcomeTypes, Queued, [Next]_vars PROVE Queued'
  OBVIOUS
<1>1. CASE UNCHANGED vars \/ Tick
  BY <1>1, QueuedStays DEF vars, Tick
<1>2. ASSUME NEW d \in Deliveries, Deliver(d) PROVE Queued'
  <2>1. /\ queued' = [queued EXCEPT ![job[d]] = @ - 1] /\ queued[job[d]] > 0
        /\ pc' = [pc EXCEPT ![d] = "L1"] /\ pc[d] = "idle"
    BY <1>2 DEF Deliver, Move
  <2>2. Ended' = Ended
    BY <2>1 DEF Types, Ended
  <2>3. Cardinality(Ended)' = Cardinality(Ended) /\ Cardinality(Ended) \in Nat
    BY <2>2, EndedIsCounted
  <2>4. queued' \in [Jobs -> Nat]
    BY <2>1 DEF Queued, Types
  <2>5. \A c \in Jobs : queued'[c] <= queued[c] /\ queued[c] \in Nat /\ queued'[c] \in Nat
    BY <2>1, <2>4 DEF Queued, Types
  <2> HIDE DEF Ended
  <2> QED BY <2>3, <2>4, <2>5 DEF Queued
<1>3. ASSUME NEW d \in Deliveries, Duplicate(d) PROVE Queued'
  <2>1. queued' = [queued EXCEPT ![job[d]] = 1] /\ queued[job[d]] = 0 /\ pc' = pc
    BY <1>3 DEF Duplicate
  <2>2. Ended' = Ended
    BY <2>1 DEF Ended
  <2>3. Cardinality(Ended)' = Cardinality(Ended) /\ Cardinality(Ended) \in Nat
    BY <2>2, EndedIsCounted
  <2>4. queued' \in [Jobs -> Nat] /\ \A c \in Jobs : queued'[c] = 1 \/ queued'[c] = queued[c]
    BY <2>1 DEF Queued, Types
  <2> HIDE DEF Ended
  <2> QED BY <2>3, <2>4 DEF Queued
<1>4. ASSUME NEW d \in Deliveries, Layer1(d) PROVE Queued'
  <2>1. CASE Fresh(d)
    <3>1. queued' = queued /\ pc' = [pc EXCEPT ![d] = "L2"] /\ pc[d] = "L1"
      BY <1>4, <2>1 DEF Layer1, Move
    <3> QED BY <3>1, QueuedStays DEF Types
  <2>2. CASE ~ Fresh(d)
    <3>1. Return(d, "deduplicated") /\ job' = job /\ pc[d] = "L1"
      BY <1>4, <2>2 DEF Layer1
    <3> QED BY <3>1, ReturnQueued
  <2> QED BY <2>1, <2>2
<1>5. ASSUME NEW d \in Deliveries, Layer2(d) PROVE Queued'
  <2>1. CASE Granted(d)
    <3>1. queued' = queued /\ pc' = [pc EXCEPT ![d] = "critical"] /\ pc[d] = "L2"
      BY <1>5, <2>1 DEF Layer2, Move
    <3> QED BY <3>1, QueuedStays DEF Types
  <2>2. CASE ~ Granted(d)
    <3>1. Return(d, "contended") /\ job' = job /\ pc[d] = "L2"
      BY <1>5, <2>2 DEF Layer2
    <3> QED BY <3>1, ReturnQueued
  <2> QED BY <2>1, <2>2
<1>6. ASSUME NEW d \in Deliveries, CriticalSection(d) \/ CriticalSectionThrows(d) PROVE Queued'
  <2>1. queued' = queued /\ pc' = [pc EXCEPT ![d] = "release"] /\ pc[d] = "critical"
    BY <1>6 DEF CriticalSection, CriticalSectionThrows, Move
  <2> QED BY <2>1, QueuedStays DEF Types
<1>7. ASSUME NEW d \in Deliveries, Release(d) PROVE Queued'
  <2>1. Return(d, outcome[d]) /\ job' = job /\ pc[d] = "release"
    BY <1>7 DEF Release
  <2> QED BY <2>1, ReturnQueued
<1>8. ASSUME NEW d \in Deliveries, Crash(d) PROVE Queued'
  <2>1. Return(d, "crashed") /\ job' = job /\ pc[d] # "done"
    BY <1>8 DEF Crash, Running, Inside
  <2> QED BY <2>1, ReturnQueued
<1> QED BY <1>1, <1>2, <1>3, <1>4, <1>5, <1>6, <1>7, <1>8 DEF Next, Run

\* The variables keep their types; in particular the queue stays bounded, however
\* often deliveries fail, contend, crash or are duplicated.
THEOREM JobTypes == Spec => []TypeOK
<1>1. Init => Queued
  <2> SUFFICES ASSUME Init PROVE Queued
    OBVIOUS
  <2>1. Cardinality(Ended) \in Nat
    BY EndedIsCounted
  <2>2. queued \in [Jobs -> Nat] /\ \A c \in Jobs : queued[c] = 1
    BY DEF Init
  <2> HIDE DEF Ended
  <2> QED BY <2>1, <2>2 DEF Queued
<1>2. Accounted /\ Queued /\ [Next]_vars => Queued'
  BY QueuedStep DEF Accounted
<1>3. Accounted /\ Queued => TypeOK
  <2> SUFFICES ASSUME Accounted, Queued PROVE TypeOK
    OBVIOUS
  <2>1. Cardinality(Ended) \in 0..Cardinality(Deliveries) /\ Cardinality(Deliveries) \in Nat
    BY EndedIsCounted, FiniteAssumption, FS_CardinalityType
  <2> HIDE DEF Ended
  <2>2. \A c \in Jobs : queued[c] \in 0..(1 + Cardinality(Deliveries))
    BY <2>1 DEF Queued
  <2>3. queued \in [Jobs -> 0..(1 + Cardinality(Deliveries))]
    BY <2>2 DEF Queued
  <2> QED BY <2>3 DEF TypeOK, Accounted, Types, OutcomeTypes
<1> QED BY <1>1, <1>2, <1>3, SpecAccounted, PTL DEF Spec
=============================================================================
