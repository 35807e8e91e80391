--------------------------- MODULE FseventsProofs ---------------------------
EXTENDS FseventsInvariant, FiniteSetTheorems, TLAPS

(* Contains is an order.                                                      *)
LEMMA ContainsRefl == \A p \in Seq(STRING) : Contains(p, p)
  BY DEF Contains

LEMMA ContainsTrans ==
    ASSUME NEW p \in Seq(STRING), NEW q \in Seq(STRING), NEW r \in Seq(STRING),
           Contains(p, q), Contains(q, r)
    PROVE  Contains(p, r)
  BY DEF Contains

-----------------------------------------------------------------------------
(* The plans.                                                                 *)

(* What is left of a plan whose first op is done.                             *)
LEMMA RestOfPlan ==
    ASSUME NEW S, NEW p \in Seq(S), p # <<>>
    PROVE  /\ Tail(p) \in Seq(S) /\ Len(Tail(p)) = Len(p) - 1 /\ Len(p) \in Nat /\ Len(p) >= 1
           /\ \A i \in 1 .. Len(p) - 1 : Tail(p)[i] = p[i + 1]
           /\ Head(p) = p[1] /\ Head(p) \in S
  OBVIOUS

(* Two stops of a plan are of two streams.                                    *)
LEMMA StopsDiffer ==
    ASSUME NEW p \in Seq(Ops), Distinct(p), NEW i \in 1 .. Len(p), NEW j \in 1 .. Len(p),
           p[i].op = p[j].op, p[i].stream = p[j].stream
    PROVE  i = j
<1>1. p[i] \in Ops /\ p[j] \in Ops
  OBVIOUS
<1>2. p[i] = p[j]
  BY <1>1 DEF Ops
<1> QED
  BY <1>2 DEF Distinct

LEMMA StopsOfRest ==
    ASSUME NEW p \in Seq(Ops), p # <<>>, Distinct(p)
    PROVE  /\ Distinct(Tail(p))
           /\ Head(p).op = "stop" =>
                /\ Head(p).stream \in StopsIn(p)
                /\ StopsIn(Tail(p)) = StopsIn(p) \ {Head(p).stream}
           /\ Head(p).op # "stop" => StopsIn(Tail(p)) = StopsIn(p)
<1> DEFINE t == Tail(p)
<1>1. /\ Len(t) = Len(p) - 1 /\ Len(p) \in Nat /\ Len(p) >= 1
      /\ \A i \in 1 .. Len(p) - 1 : t[i] = p[i + 1]
      /\ Head(p) = p[1]
  BY RestOfPlan
<1> HIDE DEF t
<1>2. Distinct(t)
  BY <1>1 DEF Distinct
<1>3. ASSUME NEW s \in StopsIn(t)
      PROVE  s \in StopsIn(p) /\ (Head(p).op = "stop" => s # Head(p).stream)
  <2>1. PICK i \in 1 .. Len(t) : t[i].op = "stop" /\ t[i].stream = s
    BY DEF StopsIn
  <2>2. i + 1 \in 1 .. Len(p) /\ 1 \in 1 .. Len(p) /\ p[i + 1] = t[i] /\ i + 1 # 1
    BY <1>1
  <2>3. s \in StopsIn(p)
    BY <2>1, <2>2 DEF StopsIn
  <2> QED
    BY <2>1, <2>2, <2>3, <1>1, StopsDiffer
<1>4. ASSUME NEW s \in StopsIn(p), Head(p).op = "stop" => s # Head(p).stream
      PROVE  s \in StopsIn(t)
  <2>1. PICK i \in 1 .. Len(p) : p[i].op = "stop" /\ p[i].stream = s
    BY DEF StopsIn
  <2>2. i # 1
    BY <2>1, <1>1, <1>4
  <2>3. i - 1 \in 1 .. Len(t) /\ t[i - 1] = p[i]
    BY <2>2, <1>1
  <2> QED
    BY <2>1, <2>3 DEF StopsIn
<1>5. Head(p).op = "stop" => Head(p).stream \in StopsIn(p)
  <2>1. 1 \in 1 .. Len(p)
    BY <1>1
  <2> QED
    BY <2>1, <1>1 DEF StopsIn
<1> QED
  BY <1>2, <1>3, <1>4, <1>5 DEF t

LEMMA RestOfAdd ==
    ASSUME NEW p \in Seq(Ops), p # <<>>, NEW d, AddsTo(p, d), Head(p).op # "commit"
    PROVE  Tail(p) # <<>> /\ AddsTo(Tail(p), d) /\ Head(Tail(p)).op # "start"
<1> DEFINE t == Tail(p)
<1>1. /\ Len(t) = Len(p) - 1 /\ Len(p) \in Nat /\ Len(p) >= 1
      /\ \A i \in 1 .. Len(p) - 1 : t[i] = p[i + 1]
      /\ Head(p) = p[1] /\ t \in Seq(Ops)
  BY RestOfPlan
<1> HIDE DEF t
<1>2. Len(p) # 1
  BY <1>1 DEF AddsTo, Op
<1>3. t # <<>> /\ t[Len(t)] = p[Len(p)] /\ Head(t) = t[1]
  BY <1>1, <1>2
<1>4. ASSUME NEW i \in 1 .. Len(t) - 1 PROVE t[i].op = "stop" /\ t[i].stream \in Below(d)
  <2>1. i + 1 \in 1 .. Len(p) - 1 /\ i + 1 # 1 /\ t[i] = p[i + 1]
    BY <1>1
  <2> QED
    BY <2>1 DEF AddsTo
<1>5. Head(t).op # "start"
  <2>1. CASE Len(t) = 1
    BY <2>1, <1>3 DEF AddsTo, Op
  <2>2. CASE Len(t) # 1
    BY <2>2, <1>3, <1>4, <1>1
  <2> QED
    BY <2>1, <2>2
<1> QED
  BY <1>3, <1>4, <1>5 DEF AddsTo, t

LEMMA RestOfClose ==
    ASSUME NEW p \in Seq(Ops), p # <<>>, Closes(p)
    PROVE  /\ Head(p).op \in {"stop", "down"}
           /\ Head(p).op = "stop" => Tail(p) # <<>> /\ Closes(Tail(p))
           /\ Head(p).op = "down" => StopsIn(p) = {}
<1> DEFINE t == Tail(p)
<1>1. /\ Len(t) = Len(p) - 1 /\ Len(p) \in Nat /\ Len(p) >= 1
      /\ \A i \in 1 .. Len(p) - 1 : t[i] = p[i + 1]
      /\ Head(p) = p[1] /\ t \in Seq(Ops)
  BY RestOfPlan
<1> HIDE DEF t
<1>2. CASE Len(p) = 1
  BY <1>1, <1>2 DEF Closes, StopsIn
<1>3. CASE Len(p) # 1
  <2>1. Head(p).op = "stop"
    BY <1>1, <1>3 DEF Closes
  <2>2. t # <<>> /\ t[Len(t)] = p[Len(p)]
    BY <1>1, <1>3
  <2>3. \A i \in 1 .. Len(t) - 1 : t[i].op = "stop"
    BY <1>1 DEF Closes
  <2> QED
    BY <2>1, <2>2, <2>3 DEF Closes, t
<1> QED
  BY <1>2, <1>3

(* A finite set is listed with every element once.                            *)
LEMMA Listing ==
    ASSUME NEW D, IsFiniteSet(D)
    PROVE  /\ Cardinality(D) \in Nat
           /\ OrderOf(D) \in [1 .. Cardinality(D) -> D]
           /\ \A i, j \in 1 .. Cardinality(D) : OrderOf(D)[i] = OrderOf(D)[j] => i = j
           /\ \A x \in D : \E i \in 1 .. Cardinality(D) : OrderOf(D)[i] = x
<1> DEFINE n == Cardinality(D)
<1>1. n \in Nat /\ ExistsBijection(1 .. n, D)
  BY FS_CardinalityType
<1>2. OrderOf(D) \in Bijection(1 .. n, D)
  BY <1>1, Zenon DEF ExistsBijection, OrderOf
<1>3. /\ OrderOf(D) \in [1 .. n -> D] /\ IsInjective(OrderOf(D))
      /\ \A x \in D : \E i \in 1 .. n : OrderOf(D)[i] = x
  BY <1>2, Zenon DEF Bijection, Injection, Surjection
<1>4. \A i, j \in 1 .. n : OrderOf(D)[i] = OrderOf(D)[j] => i = j
  BY <1>3 DEF IsInjective
<1> QED
  BY <1>1, <1>3, <1>4

LEMMA StopsListing ==
    ASSUME NEW D, IsFiniteSet(D), D \subseteq Streams
    PROVE  /\ Stops(D) \in Seq(Ops)
           /\ \A i \in 1 .. Len(Stops(D)) : Stops(D)[i].op = "stop" /\ Stops(D)[i].stream \in D
           /\ Distinct(Stops(D))
           /\ StopsIn(Stops(D)) = D
<1> DEFINE n == Cardinality(D)
           f == OrderOf(D)
           p == Stops(D)
<1>1. n \in Nat /\ f \in [1 .. n -> D]
      /\ (\A i, j \in 1 .. n : f[i] = f[j] => i = j)
      /\ (\A x \in D : \E i \in 1 .. n : f[i] = x)
  BY Listing
<1>2. p = [i \in 1 .. n |-> [op |-> "stop", stream |-> f[i]]]
  BY DEF Stops, Op, OrderOf
<1> HIDE DEF n, f, p
<1>3. \A i \in 1 .. n : p[i] = [op |-> "stop", stream |-> f[i]]
  BY <1>2
<1>4. \A i \in 1 .. n : p[i].op = "stop" /\ p[i].stream = f[i] /\ p[i] \in Ops /\ f[i] \in D
  <2> SUFFICES ASSUME NEW i \in 1 .. n
               PROVE  p[i].op = "stop" /\ p[i].stream = f[i] /\ p[i] \in Ops /\ f[i] \in D
    OBVIOUS
  <2>1. p[i] = [op |-> "stop", stream |-> f[i]] /\ f[i] \in D
    BY <1>1, <1>3, Zenon
  <2> QED
    BY <2>1 DEF Ops
<1>5. p \in Seq(Ops) /\ Len(p) = n
  <2>1. p \in [1 .. n -> Ops]
    BY <1>2, <1>4
  <2> QED
    BY <2>1, <1>1
<1>6. Distinct(p)
  BY <1>1, <1>4, <1>5 DEF Distinct
<1>7. StopsIn(p) = D
  BY <1>1, <1>4, <1>5 DEF StopsIn
<1> QED
  BY <1>4, <1>5, <1>6, <1>7 DEF p

(* A plan of stops, with an op that is no stop after it, and with one before. *)
LEMMA Ending ==
    ASSUME NEW p \in Seq(Ops), NEW o \in Ops, o.op # "stop", Distinct(p),
           \A i \in 1 .. Len(p) : p[i] # o
    PROVE  /\ p \o <<o>> \in Seq(Ops) /\ Distinct(p \o <<o>>)
           /\ StopsIn(p \o <<o>>) = StopsIn(p)
           /\ Len(p \o <<o>>) = Len(p) + 1 /\ (p \o <<o>>)[Len(p) + 1] = o
           /\ \A i \in 1 .. Len(p) : (p \o <<o>>)[i] = p[i]
<1> DEFINE r == p \o <<o>>
<1>1. /\ r \in Seq(Ops) /\ Len(p) \in Nat /\ Len(r) = Len(p) + 1 /\ r[Len(p) + 1] = o
      /\ \A i \in 1 .. Len(p) : r[i] = p[i]
  OBVIOUS
<1> HIDE DEF r
<1>2. \A i \in 1 .. Len(r) : i \in 1 .. Len(p) \/ i = Len(p) + 1
  BY <1>1
<1>2a. Len(p) + 1 \notin 1 .. Len(p) /\ \A i \in 1 .. Len(p) : i \in 1 .. Len(r)
  BY <1>1
<1>3. Distinct(r)
  BY <1>1, <1>2, <1>2a DEF Distinct
<1>4. StopsIn(r) = StopsIn(p)
  BY <1>1, <1>2, <1>2a DEF StopsIn
<1> QED
  BY <1>1, <1>3, <1>4 DEF r

LEMMA Beginning ==
    ASSUME NEW p \in Seq(Ops), NEW o \in Ops, Distinct(p), \A i \in 1 .. Len(p) : p[i] # o
    PROVE  /\ <<o>> \o p \in Seq(Ops) /\ Distinct(<<o>> \o p)
           /\ StopsIn(<<o>> \o p) = IF o.op = "stop" THEN StopsIn(p) \union {o.stream}
                                    ELSE StopsIn(p)
           /\ Len(<<o>> \o p) = Len(p) + 1 /\ (<<o>> \o p)[1] = o
           /\ \A i \in 2 .. Len(p) + 1 : (<<o>> \o p)[i] = p[i - 1]
           /\ Head(<<o>> \o p) = o
<1> DEFINE r == <<o>> \o p
<1>1. /\ r \in Seq(Ops) /\ Len(p) \in Nat /\ Len(r) = Len(p) + 1 /\ r[1] = o
      /\ \A i \in 2 .. Len(p) + 1 : r[i] = p[i - 1]
      /\ Head(r) = o
  OBVIOUS
<1> HIDE DEF r
<1>2. \A i \in 1 .. Len(r) : i = 1 \/ (i - 1 \in 1 .. Len(p) /\ r[i] = p[i - 1])
  BY <1>1
<1>3. ASSUME NEW i \in 1 .. Len(r), NEW j \in 1 .. Len(r), r[i] = r[j]
      PROVE  i = j
  <2>1. CASE i = 1
    BY <2>1, <1>1, <1>2, <1>3
  <2>2. CASE j = 1
    BY <2>2, <1>1, <1>2, <1>3
  <2>3. CASE i # 1 /\ j # 1
    <3>1. p[i - 1] = p[j - 1] /\ i - 1 \in 1 .. Len(p) /\ j - 1 \in 1 .. Len(p)
      BY <2>3, <1>2, <1>3
    <3>2. i - 1 = j - 1
      BY <3>1, Zenon DEF Distinct
    <3> QED
      BY <3>2
  <2> QED
    BY <2>1, <2>2, <2>3
<1>4. ASSUME NEW s \in StopsIn(r)
      PROVE  s \in StopsIn(p) \/ (o.op = "stop" /\ s = o.stream)
  <2>1. PICK i \in 1 .. Len(r) : r[i].op = "stop" /\ r[i].stream = s
    BY DEF StopsIn
  <2> QED
    BY <2>1, <1>1, <1>2 DEF StopsIn
<1>5. ASSUME NEW s \in StopsIn(p)
      PROVE  s \in StopsIn(r)
  <2>1. PICK i \in 1 .. Len(p) : p[i].op = "stop" /\ p[i].stream = s
    BY DEF StopsIn
  <2>2. i + 1 \in 1 .. Len(r) /\ r[i + 1] = p[i]
    BY <1>1
  <2> QED
    BY <2>1, <2>2 DEF StopsIn
<1>6. 1 \in 1 .. Len(r)
  BY <1>1
<1>7. o.op = "stop" => o.stream \in StopsIn(r)
  BY <1>1, <1>6 DEF StopsIn
<1> QED
  BY <1>1, <1>3, <1>4, <1>5, <1>7 DEF r, Distinct

LEMMA TwoFirst ==
    ASSUME NEW S, NEW a \in S, NEW b \in S, NEW m \in Seq(S)
    PROVE  <<a, b>> \o m = <<a>> \o (<<b>> \o m)
<1> DEFINE x == <<a, b>> \o m
           y == <<b>> \o m
           z == <<a>> \o y
<1>1. /\ x \in Seq(S) /\ Len(x) = Len(m) + 2 /\ x[1] = a /\ x[2] = b
      /\ \A i \in 3 .. Len(m) + 2 : x[i] = m[i - 2]
  OBVIOUS
<1>2. /\ y \in Seq(S) /\ Len(y) = Len(m) + 1 /\ y[1] = b
      /\ \A i \in 2 .. Len(m) + 1 : y[i] = m[i - 1]
  OBVIOUS
<1>3. Len(m) \in Nat
  OBVIOUS
<1> HIDE DEF x, y
<1>4. /\ z \in Seq(S) /\ Len(z) = Len(y) + 1 /\ z[1] = a
      /\ \A i \in 2 .. Len(y) + 1 : z[i] = y[i - 1]
  BY <1>2
<1> HIDE DEF z
<1>5. ASSUME NEW i \in 1 .. Len(m) + 2 PROVE x[i] = z[i]
  <2>1. CASE i = 1
    BY <2>1, <1>1, <1>4
  <2>2. CASE i = 2
    BY <2>2, <1>1, <1>2, <1>3, <1>4
  <2>3. CASE i > 2
    BY <2>3, <1>1, <1>2, <1>3, <1>4
  <2> QED
    BY <2>1, <2>2, <2>3
<1>6. x = z
  BY <1>1, <1>2, <1>3, <1>4, <1>5
<1> QED
  BY <1>6 DEF x, y, z

LEMMA AddPlanFacts ==
    ASSUME NEW d \in Dirs, trie \subseteq Dirs, IsFiniteSet(trie)
    PROVE  /\ AddPlan(d) \in Seq(Ops) /\ AddPlan(d) # <<>> /\ Distinct(AddPlan(d))
           /\ AddsTo(AddPlan(d), d) /\ Head(AddPlan(d)) = Op("start", d)
           /\ StopsIn(AddPlan(d)) = Below(d)
<1> DEFINE a == Op("start", d)
           z == Op("commit", d)
           m == Stops(Below(d))
           am == <<a>> \o m
<1>1. IsFiniteSet(Below(d)) /\ Below(d) \subseteq Streams
  BY FS_Subset DEF Below, Streams
<1>2. a \in Ops /\ z \in Ops /\ a.op = "start" /\ z.op = "commit"
  BY DEF Op, Ops, Streams
<1>3. /\ m \in Seq(Ops) /\ Distinct(m) /\ StopsIn(m) = Below(d)
      /\ \A i \in 1 .. Len(m) : m[i].op = "stop" /\ m[i].stream \in Below(d)
  BY <1>1, StopsListing
<1>4. AddPlan(d) = am \o <<z>>
  BY DEF AddPlan
<1> HIDE DEF a, z, m
<1>5. \A i \in 1 .. Len(m) : m[i] # a
  BY <1>2, <1>3
<1>6. /\ am \in Seq(Ops) /\ Distinct(am) /\ StopsIn(am) = Below(d)
      /\ Len(am) = Len(m) + 1 /\ am[1] = a
      /\ \A i \in 2 .. Len(m) + 1 : am[i] = m[i - 1]
      /\ Head(am) = a
  BY <1>2, <1>3, <1>5, Beginning
<1> HIDE DEF am
<1>7. Len(m) \in Nat
  BY <1>3
<1>8. \A i \in 1 .. Len(am) : (i = 1 /\ am[i] = a) \/ (am[i].op = "stop" /\ am[i].stream \in Below(d))
  <2>1. ASSUME NEW i \in 1 .. Len(am), i # 1
        PROVE  am[i].op = "stop" /\ am[i].stream \in Below(d)
    <3>1. i - 1 \in 1 .. Len(m) /\ am[i] = m[i - 1]
      BY <2>1, <1>6, <1>7
    <3> QED
      BY <3>1, <1>3
  <2> QED
    BY <2>1, <1>6, Zenon
<1>9. \A i \in 1 .. Len(am) : am[i] # z
  BY <1>2, <1>8
<1> DEFINE r == am \o <<z>>
<1>10. /\ r \in Seq(Ops) /\ Distinct(r) /\ StopsIn(r) = Below(d)
       /\ Len(r) = Len(am) + 1 /\ r[Len(am) + 1] = z
       /\ \A i \in 1 .. Len(am) : r[i] = am[i]
  BY <1>2, <1>6, <1>9, Ending
<1> HIDE DEF r
<1>11. r # <<>> /\ Head(r) = r[1] /\ r[1] = am[1]
  BY <1>6, <1>7, <1>10
<1>12. AddsTo(r, d)
  BY <1>6, <1>7, <1>8, <1>10 DEF AddsTo, a, z
<1> QED
  BY <1>4, <1>6, <1>10, <1>11, <1>12 DEF r, a

LEMMA ClosePlanFacts ==
    ASSUME trie \subseteq Dirs, IsFiniteSet(trie)
    PROVE  /\ ClosePlan \in Seq(Ops) /\ ClosePlan # <<>> /\ Distinct(ClosePlan)
           /\ Closes(ClosePlan) /\ StopsIn(ClosePlan) = {Source, Sync} \union trie
<1> DEFINE a == Op("stop", Source)
           b == Op("stop", Sync)
           z == Op("down", Sync)
           m == Stops(trie)
           bm == <<b>> \o m
           abm == <<a>> \o bm
<1>1. trie \subseteq Streams
  BY DEF Streams
<1>2. /\ a \in Ops /\ b \in Ops /\ z \in Ops /\ a.op = "stop" /\ b.op = "stop" /\ z.op = "down"
      /\ a.stream = Source /\ b.stream = Sync /\ a # b
      /\ Source \notin trie /\ Sync \notin trie
  BY FseventsAssumption DEF Op, Ops, Streams, Source, Sync
<1>3. /\ m \in Seq(Ops) /\ Distinct(m) /\ StopsIn(m) = trie
      /\ \A i \in 1 .. Len(m) : m[i].op = "stop" /\ m[i].stream \in trie
  BY <1>1, StopsListing
<1>4. ClosePlan = (<<a, b>> \o m) \o <<z>>
  BY DEF ClosePlan
<1> HIDE DEF a, b, z, m
<1>5. \A i \in 1 .. Len(m) : m[i] # a /\ m[i] # b
  BY <1>2, <1>3
<1>6. /\ bm \in Seq(Ops) /\ Distinct(bm) /\ StopsIn(bm) = trie \union {Sync}
      /\ Len(bm) = Len(m) + 1 /\ bm[1] = b
      /\ \A i \in 2 .. Len(m) + 1 : bm[i] = m[i - 1]
  BY <1>2, <1>3, <1>5, Beginning
<1>6a. <<a, b>> \o m = abm
  BY <1>2, <1>3, TwoFirst
<1> HIDE DEF bm
<1>7. Len(m) \in Nat
  BY <1>3
<1>8. \A i \in 1 .. Len(bm) : bm[i].op = "stop" /\ bm[i] # a
  BY <1>2, <1>3, <1>5, <1>6, <1>7
<1>9. /\ abm \in Seq(Ops) /\ Distinct(abm) /\ StopsIn(abm) = trie \union {Sync} \union {Source}
      /\ Len(abm) = Len(bm) + 1 /\ abm[1] = a
      /\ \A i \in 2 .. Len(bm) + 1 : abm[i] = bm[i - 1]
  <2>1. \A i \in 1 .. Len(bm) : bm[i] # a
    BY <1>8
  <2>2. /\ abm \in Seq(Ops) /\ Distinct(abm)
        /\ StopsIn(abm) = IF a.op = "stop" THEN StopsIn(bm) \union {a.stream} ELSE StopsIn(bm)
        /\ Len(abm) = Len(bm) + 1 /\ abm[1] = a
        /\ \A i \in 2 .. Len(bm) + 1 : abm[i] = bm[i - 1]
    BY <1>2, <1>6, <2>1, Beginning, Zenon
  <2> QED
    BY <2>2, <1>2, <1>6
<1> HIDE DEF abm
<1>10. \A i \in 1 .. Len(abm) : abm[i].op = "stop" /\ abm[i] # z
  BY <1>2, <1>6, <1>7, <1>8, <1>9
<1> DEFINE r == abm \o <<z>>
<1>11. /\ r \in Seq(Ops) /\ Distinct(r) /\ StopsIn(r) = trie \union {Sync} \union {Source}
       /\ Len(r) = Len(abm) + 1 /\ r[Len(abm) + 1] = z
       /\ \A i \in 1 .. Len(abm) : r[i] = abm[i]
  BY <1>2, <1>9, <1>10, Ending
<1> HIDE DEF r
<1>12. r # <<>> /\ Closes(r)
  BY <1>2, <1>6, <1>7, <1>9, <1>10, <1>11 DEF Closes
<1> QED
  BY <1>4, <1>6a, <1>11, <1>12 DEF r

-----------------------------------------------------------------------------
(* What the steps have in common.                                             *)

(* The states of the streams are all that the invariant says of them.         *)
LEMMA SameStates ==
    ASSUME \A s \in Streams : stream'[s].state = stream[s].state
    PROVE  Started' = Started
  BY Zenon DEF Started

LEMMA OneState ==
    ASSUME NEW s \in Streams, \A r \in Streams \ {s} : stream'[r].state = stream[r].state
    PROVE  /\ stream'[s].state = "started" => Started' = Started \union {s}
           /\ stream'[s].state # "started" => Started' = Started \ {s}
  BY DEF Started

(* A step that leaves the plans, the places of the threads, the trie, the     *)
(* queue and the states of the streams alone.                                 *)
LEMMA CoreStays ==
    ASSUME Core, UNCHANGED <<plan, pc, trie, asked>>,
           dq' = dq,
           \A s \in Streams : stream'[s].state = stream[s].state
    PROVE  Core'
<1>0. Started' = Started
  BY SameStates
<1>1. \A p, d : AddsTo(p, d)' <=> AddsTo(p, d)
  BY Zenon DEF AddsTo, Below
<1>2. MainPlan' /\ AtHead("main")' /\ AtHead("watcher")' /\ Covered' /\ QueueEnds'
  BY <1>1, Zenon DEF Core, MainPlan, AtHead, Covered, QueueEnds
<1>3. MainStarted'
  <2>1. ToStop' = ToStop /\ \A d : Below(d)' = Below(d)
    BY Zenon DEF ToStop, Below
  <2> QED
    BY <1>0, <1>1, <2>1, Zenon DEF Core, MainStarted, Adds
<1>4. WatcherPlan' /\ Counted'
  BY <1>0, Zenon DEF Core, WatcherPlan, Creation, Counted, Counting
<1>5. StartingStreams'
  BY Zenon DEF Core, StartingStreams, StartedBy
<1> QED
  BY <1>2, <1>3, <1>4, <1>5, Zenon DEF Core

(* The record of one stream changes.                                          *)
LEMMA StreamRecord ==
    ASSUME stream \in [Streams -> StreamRecords], NEW s \in Streams, NEW r \in StreamRecords,
           stream' = [stream EXCEPT ![s] = r]
    PROVE  /\ stream' \in [Streams -> StreamRecords]
           /\ stream'[s] = r /\ \A x \in Streams \ {s} : stream'[x] = stream[x]
  BY Zenon

(* After the creation and before a shutdown, the streams of the workspace run *)
(* and those of the trie, or one that replaces them.                          *)
LEMMA WorkspaceWatched ==
    ASSUME FInv, pc.main \notin {"off", "create", "failed", "down"},
           ~(plan.main # <<>> /\ Closes(plan.main))
    PROVE  Source \in Started /\ Sync \in Started
<1>1. CASE pc.main = "idle"
  BY <1>1, Zenon DEF FInv, Core, MainStarted
<1>2. CASE pc.main # "idle"
  <2>1. pc.main \notin AtRest
    BY <1>2 DEF AtRest
  <2>2. plan.main # <<>>
    BY <2>1, Zenon DEF FInv, Core, MainPlan
  <2>3. PICK d \in Dirs : AddsTo(plan.main, d)
    BY <2>2, Zenon DEF FInv, Core, MainPlan
  <2>4. \/ Started = {Source, Sync} \union trie
        \/ Started = {Source, Sync} \union (trie \ Below(d)) \union {d} \union ToStop
    BY <2>2, <2>3, Zenon DEF FInv, Core, MainStarted, Adds
  <2> QED
    BY <2>4
<1> QED
  BY <1>1, <1>2

-----------------------------------------------------------------------------
(* The system and the collector.                                              *)

LEMMA OccurPreserves ==
    ASSUME FInv, NEW s \in Streams, NEW flags \in EventFlags, Occur(s, flags)
    PROVE  FInv'
<1> DEFINE e == [id |-> history.events + 1, flags |-> flags]
           r == [stream[s] EXCEPT !.held = Append(@, e)]
<1>1. /\ stream \in [Streams -> StreamRecords] /\ history.events \in Nat
      /\ history.of \in [Streams -> Seq(FsEvents)]
  BY DEF FInv, FTypes, Histories
<1>2. e \in FsEvents /\ e.id \in Nat
  BY <1>1 DEF FsEvents
<1>3. /\ stream' = [stream EXCEPT ![s] = r] 
      /\ history' = [of |-> [history.of EXCEPT ![s] = Append(@, e)], events |-> e.id]
      /\ UNCHANGED <<dq, plan, pc, cb, trie, asked>>
  BY Zenon DEF Occur
<1>4. stream[s] \in StreamRecords
  BY <1>1
<1> HIDE DEF e
<1>5. r \in StreamRecords /\ r.state = stream[s].state
  BY <1>2, <1>4 DEF StreamRecords
<1> HIDE DEF r
<1>6. stream' \in [Streams -> StreamRecords] /\ \A x \in Streams : stream'[x].state = stream[x].state
  BY <1>1, <1>3, <1>5, StreamRecord, Zenon
<1>7. Core'
  BY <1>3, <1>6, CoreStays, Zenon DEF FInv
<1>8. FTypes'
  <2>1. Append(history.of[s], e) \in Seq(FsEvents)
    BY <1>1, <1>2
  <2>2. history' \in Histories
    BY <1>1, <1>2, <1>3, <2>1, Zenon DEF Histories
  <2> QED
    BY <1>3, <1>6, <2>2, Zenon DEF FInv, FTypes
<1> QED
  BY <1>7, <1>8 DEF FInv

LEMMA CallPreserves ==
    ASSUME FInv, NEW s \in Streams, NEW n \in 1 .. MaxEvents, Call(s, n)
    PROVE  FInv'
<1> DEFINE r == [stream[s] EXCEPT !.held = SubSeq(@, n + 1, Len(@))]
<1>1. stream \in [Streams -> StreamRecords]
  BY Zenon DEF FInv, FTypes
<1>2. stream[s] \in StreamRecords
  BY <1>1
<1>3. /\ stream' = [stream EXCEPT ![s] = r] /\ n <= Len(stream[s].held)
      /\ cb' = [pc |-> "called", stream |-> s, dq |-> FALSE, events |-> SubSeq(stream[s].held, 1, n)]
      /\ UNCHANGED <<dq, plan, pc, trie, asked, history>>
  BY Zenon DEF Call
<1>4. stream[s].held \in Seq(FsEvents) /\ n \in Nat
  BY <1>2, FseventsAssumption DEF StreamRecords
<1>5. /\ SubSeq(stream[s].held, 1, n) \in Seq(FsEvents)
      /\ SubSeq(stream[s].held, n + 1, Len(stream[s].held)) \in Seq(FsEvents)
  BY <1>3, <1>4
<1>6. r \in StreamRecords /\ r.state = stream[s].state
  BY <1>2, <1>5 DEF StreamRecords
<1> HIDE DEF r
<1>7. stream' \in [Streams -> StreamRecords] /\ \A x \in Streams : stream'[x].state = stream[x].state
  BY <1>1, <1>3, <1>6, StreamRecord, Zenon
<1>8. Core'
  BY <1>3, <1>7, CoreStays, Zenon DEF FInv
<1>9. cb' \in [pc : {"idle", "called", "running"}, stream : Streams, dq : BOOLEAN,
               events : Seq(FsEvents)]
  BY <1>3, <1>5
<1>10. FTypes'
  BY <1>3, <1>7, <1>9, Zenon DEF FInv, FTypes
<1> QED
  BY <1>8, <1>10 DEF FInv

LEMMA CallbackPreserves ==
    ASSUME FInv, Enter \/ Deliver
    PROVE  FInv'
<1>1. UNCHANGED <<stream, dq, plan, pc, trie, asked, history>>
  BY Zenon DEF Enter, Deliver
<1>2. Core'
  BY <1>1, CoreStays, Zenon DEF FInv
<1>3. cb' \in [pc : {"idle", "called", "running"}, stream : Streams, dq : BOOLEAN,
               events : Seq(FsEvents)]
  <2>1. cb \in [pc : {"idle", "called", "running"}, stream : Streams, dq : BOOLEAN,
                events : Seq(FsEvents)] /\ stream \in [Streams -> StreamRecords]
    BY Zenon DEF FInv, FTypes
  <2>2. CASE Enter
    <3>1. cb.stream \in Streams
      BY <2>1
    <3>2. stream[cb.stream].dq \in BOOLEAN
      BY <2>1, <3>1 DEF StreamRecords
    <3> QED
      BY <2>1, <2>2, <3>2 DEF Enter
  <2>3. CASE Deliver
    BY <2>3 DEF Deliver, NoCallback, Streams
  <2> QED
    BY <2>2, <2>3
<1>4. FTypes'
  BY <1>1, <1>3, Zenon DEF FInv, FTypes
<1> QED
  BY <1>2, <1>4 DEF FInv

-----------------------------------------------------------------------------
(* The watcher thread waits, wakes up and stops the queue.                    *)

LEMMA WatcherMoves ==
    ASSUME Core, UNCHANGED <<stream, plan, trie, asked>>, pc'["main"] = pc["main"],
           \/ pc'["watcher"] = pc["watcher"]
           \/ pc["watcher"] \in WaitingPcs /\ pc'["watcher"] \in WaitingPcs /\ pc["main"] # "failed",
           dq'.streams = dq.streams, QueueEnds'
    PROVE  Core'
<1>0. Started' = Started
  BY Zenon DEF Started
<1>1. \A p, d : AddsTo(p, d)' <=> AddsTo(p, d)
  BY Zenon DEF AddsTo, Below
<1>2. MainPlan' /\ AtHead("main")' /\ Covered'
  BY <1>1, Zenon DEF Core, MainPlan, AtHead, Covered
<1>3. MainStarted'
  <2>1. ToStop' = ToStop /\ \A d : Below(d)' = Below(d)
    BY Zenon DEF ToStop, Below
  <2> QED
    BY <1>0, <1>1, <2>1, Zenon DEF Core, MainStarted, Adds
<1>4. WaitingPcs \intersect (CreatingPcs \union {"off", "start_stream", "stop_lock"}) = {}
  BY DEF WaitingPcs, CreatingPcs, StartPcs, StopPcs, EndPcs
<1>4a. WaitingPcs \intersect (StartPcs \union StopPcs) = {}
  BY DEF WaitingPcs, StartPcs, StopPcs, EndPcs
<1>5. AtHead("watcher")'
  BY <1>4a, Zenon DEF Core, AtHead
<1>6. Counted'
  BY <1>0, <1>4, Zenon DEF Core, Counted, Counting
<1>7. StartingStreams'
  BY <1>4a, Zenon DEF Core, StartingStreams, StartedBy
<1>8. WatcherPlan'
  <2>1. CASE pc'["watcher"] = pc["watcher"]
    BY <2>1, <1>0, Zenon DEF Core, WatcherPlan, Creation
  <2>2. CASE pc["watcher"] \in WaitingPcs /\ pc'["watcher"] \in WaitingPcs /\ pc["main"] # "failed"
    BY <2>2, <1>0, <1>4, Zenon DEF Core, WatcherPlan, Creation
  <2> QED
    BY <2>1, <2>2
<1> QED
  BY <1>2, <1>3, <1>5, <1>6, <1>7, <1>8, Zenon DEF Core

LEMMA CheckQueuePreserves ==
    ASSUME FInv, CheckQueue
    PROVE  FInv'
<1>1. /\ pc["watcher"] = "check" /\ pc["main"] \in MainPcs /\ pc["main"] # "failed"
      /\ pc \in [main : MainPcs, watcher : WatcherPcs]
  BY Zenon DEF FInv, FTypes, Core, WatcherPlan, Creation, CheckQueue
<1>2. /\ pc' = [pc EXCEPT !["watcher"] = IF MustWait THEN "waiting" ELSE "returned"]
      /\ UNCHANGED <<stream, dq, plan, cb, trie, asked, history>>
  BY Zenon DEF CheckQueue, Goto
<1>3. /\ pc'["main"] = pc["main"] /\ pc'["watcher"] = IF MustWait THEN "waiting" ELSE "returned"
      /\ pc' \in [main : MainPcs, watcher : WatcherPcs]
  BY <1>1, <1>2 DEF WatcherPcs, WaitingPcs, EndPcs
<1>4. QueueEnds'
  <2>1. CASE MustWait
    BY <1>1, <1>2, <1>3, <2>1 DEF FInv, Core, QueueEnds, EndPcs
  <2>2. CASE ~MustWait
    <3>1. dq.streams \in Int /\ (dq.exn \/ ~(dq.streams > 0))
      BY <2>2 DEF MustWait, FInv, FTypes, QueueRecords
    <3>2. Counting("main") \in {0, 1} /\ Counting("watcher") \in {0, 1} /\ Cardinality(Started) \in Nat
      BY FS_CardinalityType DEF FInv, Core, Counted, Counting
    <3>3. ~dq.exn => dq.streams = 0 /\ Cardinality(Started) = 0
      BY <3>1, <3>2 DEF FInv, Core, Counted
    <3>4. ~dq.exn => Started = {}
      BY <3>3, FS_EmptySet DEF FInv, Core, Counted
    <3>5. ~dq.exn => pc.main = "down" \/ (plan.main # <<>> /\ Closes(plan.main))
      <4>1. pc.main \notin {"off", "create", "failed"}
        BY <1>1 DEF FInv, Core, WatcherPlan, Creation, CreatingPcs, StartPcs, StopPcs
      <4> QED
        BY <3>4, <4>1, WorkspaceWatched, Zenon
    <3> QED
      BY <1>1, <1>2, <1>3, <2>2, <3>3, <3>5 DEF FInv, Core, QueueEnds, EndPcs
  <2> QED
    BY <2>1, <2>2
<1>5. Core'
  BY <1>1, <1>2, <1>3, <1>4, WatcherMoves DEF FInv, WaitingPcs, EndPcs
<1>6. FTypes'
  BY <1>2, <1>3, Zenon DEF FInv, FTypes
<1> QED
  BY <1>5, <1>6 DEF FInv

LEMMA StopQueuePreserves ==
    ASSUME FInv, StopQueue
    PROVE  FInv'
<1> DEFINE at == IF dq.exn THEN "report" ELSE "ended"
<1>1. /\ pc["watcher"] = "returned" /\ pc["main"] \in MainPcs
      /\ pc["main"] \notin {"off", "create", "failed"}
      /\ pc \in [main : MainPcs, watcher : WatcherPcs]
  BY DEF FInv, FTypes, Core, WatcherPlan, Creation, StopQueue, CreatingPcs, StartPcs, StopPcs
<1>2. /\ pc' = [pc EXCEPT !["watcher"] = at] /\ dq' = [dq EXCEPT !.state = "stopped"]
      /\ UNCHANGED <<stream, plan, cb, trie, asked, history>>
  BY Zenon DEF StopQueue, Goto
<1>3. /\ pc'["main"] = pc["main"] /\ pc'["watcher"] = at
      /\ pc' \in [main : MainPcs, watcher : WatcherPcs] /\ at \in {"report", "ended"}
  BY <1>1, <1>2 DEF WatcherPcs, WaitingPcs, EndPcs
<1>4. /\ dq' \in QueueRecords
      /\ dq'.streams = dq.streams /\ dq'.exn = dq.exn /\ dq'.state = "stopped"
  BY <1>2 DEF FInv, FTypes, QueueRecords
<1> HIDE DEF at
<1>5. QueueEnds'
  BY <1>1, <1>2, <1>3, <1>4 DEF FInv, Core, QueueEnds, EndPcs
<1>6. Core'
  BY <1>1, <1>2, <1>3, <1>4, <1>5, WatcherMoves DEF FInv, WaitingPcs, EndPcs
<1>7. FTypes'
  BY <1>2, <1>3, <1>4, Zenon DEF FInv, FTypes
<1> QED
  BY <1>6, <1>7 DEF FInv

LEMMA ReportExnPreserves ==
    ASSUME FInv, ReportExn
    PROVE  FInv'
<1>1. /\ pc["watcher"] = "report" /\ pc["main"] \in MainPcs
      /\ pc["main"] # "failed" /\ pc \in [main : MainPcs, watcher : WatcherPcs]
  BY DEF FInv, FTypes, Core, WatcherPlan, Creation, ReportExn
<1>2. /\ pc' = [pc EXCEPT !["watcher"] = "ended"]
      /\ UNCHANGED <<stream, dq, plan, cb, trie, asked, history>>
  BY Zenon DEF ReportExn, Goto
<1>3. /\ pc'["main"] = pc["main"] /\ pc'["watcher"] = "ended"
      /\ pc' \in [main : MainPcs, watcher : WatcherPcs]
  BY <1>1, <1>2 DEF WatcherPcs, WaitingPcs, EndPcs
<1>4. QueueEnds'
  BY <1>1, <1>2, <1>3 DEF FInv, Core, QueueEnds, EndPcs
<1>5. Core'
  BY <1>1, <1>2, <1>3, <1>4, WatcherMoves DEF FInv, WaitingPcs, EndPcs
<1>6. FTypes'
  BY <1>2, <1>3, Zenon DEF FInv, FTypes
<1> QED
  BY <1>5, <1>6 DEF FInv

LEMMA FinalizePreserves ==
    ASSUME FInv, Finalize
    PROVE  FInv'
<1>1. /\ dq.state = "stopped" /\ dq' = [dq EXCEPT !.alive = FALSE]
      /\ UNCHANGED <<stream, plan, pc, cb, trie, asked, history>>
  BY Zenon DEF Finalize
<1>2. /\ dq' \in QueueRecords
      /\ dq'.streams = dq.streams /\ dq'.exn = dq.exn /\ dq'.state = "stopped"
  BY <1>1 DEF FInv, FTypes, QueueRecords
<1>3. QueueEnds'
  BY <1>1, <1>2, Zenon DEF FInv, Core, QueueEnds
<1>4. Core'
  BY <1>1, <1>2, <1>3, WatcherMoves, Zenon DEF FInv
<1>5. FTypes'
  BY <1>1, <1>2, Zenon DEF FInv, FTypes
<1> QED
  BY <1>4, <1>5 DEF FInv

(* Broadcast changes the place of the watcher thread only if it waits.        *)
LEMMA Broadcasts ==
    ASSUME NEW at \in [main : MainPcs, watcher : WatcherPcs]
    PROVE  /\ Broadcast(at) \in [main : MainPcs, watcher : WatcherPcs]
           /\ Broadcast(at)["main"] = at["main"]
           /\ \/ Broadcast(at)["watcher"] = at["watcher"]
              \/ at["watcher"] = "waiting" /\ Broadcast(at)["watcher"] = "check"
  BY DEF Broadcast, WatcherPcs, WaitingPcs

LEMMA RaisesPreserves ==
    ASSUME FInv, Raises
    PROVE  FInv'
<1>1. /\ dq' = [dq EXCEPT !.exn = TRUE] /\ pc' = Broadcast(pc) /\ cb' = NoCallback
      /\ UNCHANGED <<stream, plan, trie, asked, history>>
  BY Zenon DEF Raises
<1>2. /\ dq' \in QueueRecords
      /\ dq'.streams = dq.streams /\ dq'.exn /\ dq'.state = dq.state /\ dq'.alive = dq.alive
  BY <1>1 DEF FInv, FTypes, QueueRecords
<1>3. /\ pc' \in [main : MainPcs, watcher : WatcherPcs] /\ pc'["main"] = pc["main"]
      /\ \/ pc'["watcher"] = pc["watcher"]
         \/ pc["watcher"] = "waiting" /\ pc'["watcher"] = "check"
  BY <1>1, Broadcasts, Zenon DEF FInv, FTypes
<1>4. QueueEnds'
  BY <1>1, <1>2, <1>3, Zenon DEF FInv, Core, QueueEnds
<1>5. pc["watcher"] = "waiting" => pc["main"] # "failed"
  BY Zenon DEF FInv, Core, WatcherPlan, Creation
<1>6. Core'
  BY <1>1, <1>2, <1>3, <1>4, <1>5, WatcherMoves DEF FInv, WaitingPcs
<1>7. cb' \in [pc : {"idle", "called", "running"}, stream : Streams, dq : BOOLEAN,
               events : Seq(FsEvents)]
  BY <1>1 DEF NoCallback, Streams
<1>8. FTypes'
  BY <1>1, <1>2, <1>3, <1>7, Zenon DEF FInv, FTypes
<1> QED
  BY <1>6, <1>8 DEF FInv

-----------------------------------------------------------------------------
(* The main thread, while the watcher thread waits.                           *)

LEMMA MainWorks ==
    ASSUME FInv, plan["main"] # <<>> \/ pc["main"] = "idle"
    PROVE  /\ pc["main"] \notin {"off", "create", "failed", "down"} /\ pc["watcher"] \in WaitingPcs
           /\ pc["main"] # "idle" => pc["main"] \in {"next"} \union StartPcs \union StopPcs
           /\ plan["main"] \in Seq(Ops) /\ pc \in [main : MainPcs, watcher : WatcherPcs]
           /\ Counting("watcher") = 0 /\ \A s : ~StartedBy("watcher", s)
<1>1. /\ plan["main"] \in Seq(Ops) /\ pc \in [main : MainPcs, watcher : WatcherPcs]
      /\ pc["main"] \in MainPcs /\ pc["watcher"] \in WatcherPcs
  BY DEF FInv, FTypes
<1>2. pc["main"] \in {"idle", "next"} \union StartPcs \union StopPcs
  BY <1>1 DEF FInv, Core, MainPlan, MainPcs, AtRest
<1>3. pc["main"] \notin {"off", "create", "failed", "down"}
  BY <1>2 DEF StartPcs, StopPcs
<1>4. pc["watcher"] \in WaitingPcs
  BY <1>1, <1>3 DEF FInv, Core, WatcherPlan, Creation, WatcherPcs
<1> QED
  BY <1>1, <1>2, <1>3, <1>4
     DEF Counting, StartedBy, WaitingPcs, EndPcs, StartPcs, StopPcs

LEMMA WatcherStays ==
    ASSUME pc'["watcher"] \in WaitingPcs, pc'["main"] \notin {"off", "create", "failed"}
    PROVE  /\ WatcherPlan' /\ AtHead("watcher")' /\ Counting("watcher")' = 0
           /\ \A s : ~StartedBy("watcher", s)'
<1>1. pc'["watcher"] \notin {"off"} \union CreatingPcs \union StartPcs \union StopPcs
  BY DEF WaitingPcs, EndPcs, CreatingPcs, StartPcs, StopPcs
<1> QED
  BY <1>1 DEF WatcherPlan, Creation, AtHead, Counting, StartedBy, StartPcs, StopPcs

(* Before a shutdown, the queue is stopped only after an exception.           *)
LEMMA QueueOpen ==
    ASSUME FInv, plan["main"] # <<>> \/ pc["main"] = "idle",
           ~(plan["main"] # <<>> /\ Closes(plan["main"]))
    PROVE  ~dq.exn => pc["watcher"] \notin EndPcs
<1>1. pc["main"] \notin {"off", "create", "failed", "down"}
  BY MainWorks, Zenon
<1> QED
  BY <1>1, Zenon DEF FInv, Core, QueueEnds

LEMMA QueueStaysOpen ==
    ASSUME FInv, plan["main"] # <<>> \/ pc["main"] = "idle",
           ~(plan["main"] # <<>> /\ Closes(plan["main"])),
           dq'.exn = dq.exn, dq'.state = dq.state, dq'.alive = dq.alive,
           \/ pc'["watcher"] = pc["watcher"]
           \/ pc["watcher"] = "waiting" /\ pc'["watcher"] = "check",
           pc'["main"] \notin {"off", "create", "failed"}
    PROVE  QueueEnds'
<1>1. ~dq.exn => pc["watcher"] \notin EndPcs
  BY QueueOpen
<1>2. QueueEnds
  BY DEF FInv, Core
<1>3. "check" \notin EndPcs
  BY DEF EndPcs
<1> QED
  BY <1>1, <1>2, <1>3, Zenon DEF QueueEnds

(* A plan is for one directory.                                               *)
LEMMA AddsOnce ==
    ASSUME NEW p, NEW d, NEW e, AddsTo(p, d), AddsTo(p, e)
    PROVE  d = e
<1>1. Op("commit", d) = Op("commit", e)
  BY Zenon DEF AddsTo
<1> QED
  BY <1>1 DEF Op

LEMMA NotTheLast == \A n \in Nat : n >= 1 /\ n # 1 => 1 \in 1 .. n - 1
  OBVIOUS

LEMMA AddsHead ==
    ASSUME NEW p \in Seq(Ops), p # <<>>, NEW d, AddsTo(p, d), Head(p).op = "start"
    PROVE  Head(p) = Op("start", d)
<1>1. Head(p) = p[1] /\ p[1].op = "start"
  BY RestOfPlan
<1>2. Len(p) \in Nat /\ Len(p) >= 1
  BY RestOfPlan
<1>3. Len(p) # 1
  BY <1>1 DEF AddsTo, Op
<1>4. 1 \in 1 .. Len(p) - 1
  BY <1>2, <1>3, NotTheLast, Zenon
<1> QED
  BY <1>1, <1>4 DEF AddsTo

LEMMA StartsAdd ==
    ASSUME FInv, plan["main"] # <<>>, Head(plan["main"]).op = "start"
    PROVE  /\ ~Closes(plan["main"])
           /\ \E d \in Dirs :
                /\ AddsTo(plan["main"], d) /\ ~ \E l \in trie : Contains(l, d)
                /\ Head(plan["main"]) = Op("start", d)
                /\ Started = {Source, Sync} \union trie /\ StopsIn(plan["main"]) = Below(d)
                /\ d \notin Started
<1> DEFINE p == plan["main"]
<1>1. p \in Seq(Ops)
  BY MainWorks
<1>2. ~Closes(p)
  BY <1>1, RestOfClose
<1>3. PICK d \in Dirs : AddsTo(p, d) /\ ~ \E l \in trie : Contains(l, d)
  BY <1>2, Zenon DEF FInv, Core, MainPlan
<1>4. Head(p) = Op("start", d)
  BY <1>1, <1>3, AddsHead
<1>5. Started = {Source, Sync} \union trie /\ StopsIn(p) = Below(d)
  BY <1>3, Zenon DEF FInv, Core, MainStarted, Adds
<1>6. d \notin trie
  <2>1. d \in Seq(STRING)
    BY FseventsAssumption
  <2> QED
    BY <1>3, <2>1, ContainsRefl
<1>7. d \notin Started
  BY <1>5, <1>6, FseventsAssumption
<1> QED
  BY <1>2, <1>3, <1>4, <1>5, <1>7

(* A step of the main thread keeps the invariant if it keeps its own part.    *)
LEMMA MainMoves ==
    ASSUME pc'["watcher"] \in WaitingPcs, pc'["main"] \notin {"off", "create", "failed"},
           MainPlan', AtHead("main")', MainStarted', Covered', QueueEnds',
           \A s \in Streams : stream'[s].state = "starting" <=> StartedBy("main", s)',
           IsFiniteSet(Started'), dq'.streams = Cardinality(Started') + Counting("main")'
    PROVE  Core'
<1>1. /\ WatcherPlan' /\ AtHead("watcher")' /\ Counting("watcher")' = 0
      /\ \A s : ~StartedBy("watcher", s)'
  BY WatcherStays, Zenon
<1>2. StartingStreams'
  BY <1>1, Zenon DEF StartingStreams
<1>3. Counted'
  <2>1. Cardinality(Started') \in Nat /\ Counting("main")' \in {0, 1}
    BY FS_CardinalityType, Zenon DEF Counting
  <2> QED
    BY <1>1, <2>1 DEF Counted
<1> QED
  BY <1>1, <1>2, <1>3, Zenon DEF Core

(* What the invariant says of the main thread.                                *)
LEMMA MainState ==
    ASSUME FInv, plan["main"] # <<>> \/ pc["main"] = "idle"
    PROVE  /\ \A s \in Streams : stream[s].state = "starting" <=> StartedBy("main", s)
           /\ IsFiniteSet(Started) /\ Cardinality(Started) \in Nat
           /\ dq.streams = Cardinality(Started) + Counting("main") /\ Counting("main") \in {0, 1}
<1>1. Counting("watcher") = 0 /\ \A s : ~StartedBy("watcher", s)
  BY MainWorks
<1>2. Counting("main") \in {0, 1}
  BY DEF Counting
<1>3. IsFiniteSet(Started) /\ Cardinality(Started) \in Nat
  BY FS_CardinalityType DEF FInv, Core, Counted
<1>4. dq.streams = Cardinality(Started) + Counting("main")
  BY <1>1, <1>2, <1>3 DEF FInv, Core, Counted
<1> QED
  BY <1>1, <1>2, <1>3, <1>4, Zenon DEF FInv, Core, StartingStreams

(* The main thread starts a stream.                                           *)
LEMMA StartMain ==
    ASSUME FInv, Start("main")
    PROVE  FInv'
<1> DEFINE d == Subject("main")
           r == [stream[d] EXCEPT !.dq = TRUE, !.state = "starting"]
<1>1. /\ pc["main"] = "next" /\ plan["main"] # <<>> /\ Head(plan["main"]).op = "start"
      /\ stream' = [stream EXCEPT ![d].dq = TRUE, ![d].state = "starting"]
      /\ pc' = [pc EXCEPT !["main"] = "start_lock"]
      /\ UNCHANGED <<dq, plan, cb, trie, asked, history>>
  BY Zenon DEF Start, Doing, Goto
<1>2. /\ ~Closes(plan["main"]) /\ d \in Dirs /\ d \notin Started
      /\ pc["watcher"] \in WaitingPcs /\ pc \in [main : MainPcs, watcher : WatcherPcs]
  <2>1. PICK e \in Dirs : Head(plan["main"]) = Op("start", e) /\ e \notin Started
    BY <1>1, StartsAdd
  <2>2. d = e
    BY <2>1 DEF Subject, Op
  <2> QED
    BY <1>1, <2>1, <2>2, StartsAdd, MainWorks
<1>3. /\ pc'["main"] = "start_lock" /\ pc'["watcher"] = pc["watcher"]
      /\ pc' \in [main : MainPcs, watcher : WatcherPcs]
  BY <1>1, <1>2 DEF MainPcs, StartPcs
<1>4. /\ d \in Streams /\ stream \in [Streams -> StreamRecords] /\ stream[d] \in StreamRecords
  BY <1>2 DEF FInv, FTypes, Streams
<1>5. stream' = [stream EXCEPT ![d] = r]
  BY <1>1, <1>4 DEF StreamRecords
<1>6. r \in StreamRecords /\ r.state = "starting"
  BY <1>4 DEF StreamRecords
<1> HIDE DEF r, d
<1>7. /\ stream' \in [Streams -> StreamRecords] /\ stream'[d].state = "starting"
      /\ \A x \in Streams \ {d} : stream'[x] = stream[x]
  BY <1>4, <1>5, <1>6, StreamRecord, Zenon
<1>8. Started' = Started
  <2>1. Started' = Started \ {d}
    BY <1>4, <1>7, OneState, Zenon
  <2> QED
    BY <2>1, <1>2
<1>9. MainPlan' /\ AtHead("main")' /\ Covered'
  BY <1>1, <1>3, Zenon DEF FInv, Core, MainPlan, AtHead, Covered, AddsTo, Below, AtRest, StartPcs, StopPcs
<1>10. MainStarted'
  <2>1. ToStop' = ToStop
    BY <1>1, <1>3 DEF ToStop, StopPcs
  <2> QED
    BY <1>1, <1>2, <1>3, <1>8, <2>1, Zenon DEF FInv, Core, MainStarted, Adds, AddsTo, Below
<1>11. QueueEnds'
  BY <1>1, <1>2, <1>3, QueueStaysOpen
<1>12. \A s \in Streams : stream'[s].state = "starting" <=> StartedBy("main", s)'
  <2>1. \A s : StartedBy("main", s)' <=> s = d
    BY <1>1, <1>3 DEF StartedBy, StartPcs, d, Subject
  <2>2. \A s \in Streams : stream[s].state # "starting"
    <3>1. \A s : ~StartedBy("main", s)
      BY <1>1 DEF StartedBy, StartPcs
    <3> QED
      BY <1>1, <3>1, MainState
  <2> QED
    BY <1>7, <2>1, <2>2, Zenon
<1>13. dq'.streams = Cardinality(Started') + Counting("main")'
  BY <1>1, <1>3, <1>8, MainState DEF Counting
<1>14. Core'
  BY <1>1, <1>2, <1>3, <1>8, <1>9, <1>10, <1>11, <1>12, <1>13, MainMoves, MainState
<1>15. FTypes'
  BY <1>1, <1>3, <1>7, Zenon DEF FInv, FTypes
<1> QED
  BY <1>14, <1>15 DEF FInv

(* The number of streams of the queue changes.                                *)
LEMMA QueueCount ==
    ASSUME dq \in QueueRecords, NEW n \in Int, dq' = [dq EXCEPT !.streams = n]
    PROVE  /\ dq' \in QueueRecords /\ dq'.streams = n
           /\ dq'.exn = dq.exn /\ dq'.state = dq.state /\ dq'.alive = dq.alive
  BY Zenon DEF QueueRecords

LEMMA StartLockMain ==
    ASSUME FInv, StartLock("main")
    PROVE  FInv'
<1>1. /\ pc["main"] = "start_lock" /\ plan["main"] # <<>> /\ Head(plan["main"]).op = "start"
      /\ dq' = [dq EXCEPT !.streams = @ + 1]
      /\ pc' = [pc EXCEPT !["main"] = "start_stream"]
      /\ UNCHANGED <<stream, plan, cb, trie, asked, history>>
  BY Zenon DEF StartLock, Doing, Goto
<1>2. /\ ~Closes(plan["main"])
      /\ pc["watcher"] \in WaitingPcs /\ pc \in [main : MainPcs, watcher : WatcherPcs]
  BY <1>1, StartsAdd, MainWorks
<1>3. /\ pc'["main"] = "start_stream" /\ pc'["watcher"] = pc["watcher"]
      /\ pc' \in [main : MainPcs, watcher : WatcherPcs]
  BY <1>1, <1>2 DEF MainPcs, StartPcs
<1>4. /\ dq' \in QueueRecords /\ dq'.streams = dq.streams + 1
      /\ dq'.exn = dq.exn /\ dq'.state = dq.state /\ dq'.alive = dq.alive
  <2>1. dq \in QueueRecords
    BY Zenon DEF FInv, FTypes
  <2>2. dq.streams \in Int
    BY <2>1 DEF QueueRecords
  <2> QED
    BY <1>1, <2>1, <2>2, QueueCount
<1>5. Started' = Started
  BY <1>1, Zenon DEF Started
<1>6. MainPlan' /\ AtHead("main")' /\ Covered'
  BY <1>1, <1>3, Zenon DEF FInv, Core, MainPlan, AtHead, Covered, AddsTo, Below, AtRest, StartPcs, StopPcs
<1>7. MainStarted'
  <2>1. ToStop' = ToStop
    BY <1>1, <1>3 DEF ToStop, StopPcs
  <2> QED
    BY <1>1, <1>2, <1>3, <1>5, <2>1, Zenon DEF FInv, Core, MainStarted, Adds, AddsTo, Below
<1>8. QueueEnds'
  BY <1>1, <1>2, <1>3, <1>4, QueueStaysOpen
<1>9. \A s \in Streams : stream'[s].state = "starting" <=> StartedBy("main", s)'
  <2>1. \A s : StartedBy("main", s)' <=> StartedBy("main", s)
    BY <1>1, <1>3 DEF StartedBy, StartPcs
  <2> QED
    BY <1>1, <2>1, MainState, Zenon
<1>10. dq'.streams = Cardinality(Started') + Counting("main")'
  BY <1>1, <1>3, <1>4, <1>5, MainState DEF Counting
<1>11. Core'
  BY <1>1, <1>2, <1>3, <1>5, <1>6, <1>7, <1>8, <1>9, <1>10, MainMoves, MainState
<1>12. FTypes'
  BY <1>1, <1>3, <1>4, Zenon DEF FInv, FTypes
<1> QED
  BY <1>11, <1>12 DEF FInv

(* The stream has started.                                                    *)
LEMMA StartStreamMain ==
    ASSUME FInv, StartStream("main")
    PROVE  FInv'
<1> DEFINE r == [stream[Subject("main")] EXCEPT !.state = "started"]
<1>1. /\ pc["main"] = "start_stream" /\ plan["main"] # <<>> /\ Head(plan["main"]).op = "start"
      /\ stream' = [stream EXCEPT ![Subject("main")].state = "started"]
      /\ pc' = [pc EXCEPT !["main"] = "next"] /\ plan' = [plan EXCEPT !["main"] = Tail(@)]
      /\ UNCHANGED <<dq, cb, trie, asked, history>>
  BY Zenon DEF StartStream, Doing, StepDone, Goto
<1>2. /\ ~Closes(plan["main"])
      /\ pc["watcher"] \in WaitingPcs /\ pc \in [main : MainPcs, watcher : WatcherPcs]
      /\ plan["main"] \in Seq(Ops) /\ plan \in [main : Seq(Ops), watcher : Seq(Ops)]
  BY <1>1, StartsAdd, MainWorks DEF FInv, FTypes
<1>3. PICK d \in Dirs :
        /\ AddsTo(plan["main"], d) /\ ~ \E l \in trie : Contains(l, d)
        /\ Head(plan["main"]) = Op("start", d)
        /\ Started = {Source, Sync} \union trie /\ StopsIn(plan["main"]) = Below(d)
        /\ d \notin Started
  BY <1>1, StartsAdd
<1>4. Subject("main") = d
  BY <1>3 DEF Subject, Op
<1>5. /\ pc'["main"] = "next" /\ pc'["watcher"] = pc["watcher"]
      /\ pc' \in [main : MainPcs, watcher : WatcherPcs]
  BY <1>1, <1>2 DEF MainPcs
<1>6. /\ d \in Streams /\ stream \in [Streams -> StreamRecords] /\ stream[d] \in StreamRecords
  BY DEF FInv, FTypes, Streams
<1>7. stream' = [stream EXCEPT ![d] = r]
  BY <1>1, <1>4, <1>6 DEF StreamRecords
<1>8. r \in StreamRecords /\ r.state = "started"
  BY <1>4, <1>6 DEF StreamRecords
<1> HIDE DEF r
<1>9. /\ stream' \in [Streams -> StreamRecords] /\ stream'[d].state = "started"
      /\ \A x \in Streams \ {d} : stream'[x] = stream[x]
  BY <1>6, <1>7, <1>8, StreamRecord, Zenon
<1>10. Started' = Started \union {d}
  BY <1>6, <1>9, OneState, Zenon
<1>11. /\ plan' \in [main : Seq(Ops), watcher : Seq(Ops)] /\ plan'["main"] = Tail(plan["main"])
       /\ Tail(plan["main"]) \in Seq(Ops)
  BY <1>1, <1>2, RestOfPlan
<1>12. /\ Tail(plan["main"]) # <<>> /\ AddsTo(Tail(plan["main"]), d)
       /\ Head(Tail(plan["main"])).op # "start" /\ Distinct(Tail(plan["main"]))
       /\ StopsIn(Tail(plan["main"])) = Below(d)
  <2>1. Head(plan["main"]).op # "commit" /\ Head(plan["main"]).op # "stop"
    BY <1>1
  <2>2. Distinct(plan["main"])
    BY Zenon DEF FInv, Core, MainPlan
  <2>3. StopsIn(Tail(plan["main"])) = StopsIn(plan["main"]) /\ Distinct(Tail(plan["main"]))
    BY <1>1, <1>2, <2>1, <2>2, StopsOfRest, Zenon
  <2> QED
    BY <1>1, <1>2, <1>3, <2>1, <2>3, RestOfAdd, Zenon
<1>13. MainPlan' /\ AtHead("main")' /\ Covered'
  BY <1>1, <1>3, <1>5, <1>11, <1>12
     DEF FInv, Core, MainPlan, AtHead, Covered, AddsTo, Below, AtRest, StartPcs, StopPcs
<1>14. MainStarted'
  <2>1. ToStop' = Below(d)
    BY <1>5, <1>11, <1>12 DEF ToStop, StopPcs
  <2>2. ~Closes(Tail(plan["main"]))
    BY <1>11, <1>12 DEF AddsTo, Closes, Op
  <2>3. Started' = {Source, Sync} \union (trie \ Below(d)) \union {d} \union Below(d)
    BY <1>3, <1>10 DEF Below
  <2>4. ASSUME NEW e \in Dirs, AddsTo(plan["main"], e)' PROVE e = d
    <3>1. plan'["main"][Len(plan'["main"])] = Op("commit", e)
      BY <2>4, Zenon DEF AddsTo
    <3>2. plan'["main"][Len(plan'["main"])] = Op("commit", d)
      BY <1>11, <1>12, Zenon DEF AddsTo
    <3> QED
      BY <3>1, <3>2 DEF Op
  <2>5. Adds'
    <3>1. Head(plan'["main"]).op # "start" /\ Below(d)' = Below(d) /\ trie' = trie
      BY <1>1, <1>11, <1>12, Zenon DEF Below
    <3> QED
      BY <2>1, <2>3, <2>4, <3>1, Zenon DEF Adds
  <2> QED
    BY <1>5, <1>11, <2>2, <2>5 DEF MainStarted
<1>15. QueueEnds'
  BY <1>1, <1>2, <1>5, QueueStaysOpen
<1>16. \A s \in Streams : stream'[s].state = "starting" <=> StartedBy("main", s)'
  <2>1. \A s : ~StartedBy("main", s)' /\ (StartedBy("main", s) <=> s = d)
    BY <1>1, <1>4, <1>5 DEF StartedBy, StartPcs, Subject
  <2> QED
    BY <1>1, <1>6, <1>9, <2>1, MainState
<1>17. IsFiniteSet(Started') /\ dq'.streams = Cardinality(Started') + Counting("main")'
  <2>1. IsFiniteSet(Started') /\ Cardinality(Started') = Cardinality(Started) + 1
    BY <1>1, <1>3, <1>10, MainState, FS_AddElement
  <2> QED
    BY <1>1, <1>5, <2>1, MainState DEF Counting
<1>18. Core'
  BY <1>1, <1>2, <1>5, <1>13, <1>14, <1>15, <1>16, <1>17, MainMoves
<1>19. FTypes'
  BY <1>1, <1>5, <1>9, <1>11, Zenon DEF FInv, FTypes
<1> QED
  BY <1>18, <1>19 DEF FInv

(* Broadcasts, when the count of streams says so.                             *)
LEMMA Wakes ==
    ASSUME NEW at \in [main : MainPcs, watcher : WatcherPcs]
    PROVE  /\ Woken(at) \in [main : MainPcs, watcher : WatcherPcs]
           /\ Woken(at)["main"] = at["main"]
           /\ \/ Woken(at)["watcher"] = at["watcher"]
              \/ at["watcher"] = "waiting" /\ Woken(at)["watcher"] = "check"
  BY Broadcasts, Zenon DEF Woken

(* The plan is given up, or done.                                             *)
LEMMA NothingLeft ==
    ASSUME plan \in [main : Seq(Ops), watcher : Seq(Ops)], plan' = [plan EXCEPT !["main"] = <<>>]
    PROVE  plan' \in [main : Seq(Ops), watcher : Seq(Ops)] /\ plan'["main"] = <<>>
<1>1. <<>> \in Seq(Ops)
  OBVIOUS
<1> QED
  BY <1>1, Zenon

(* The start fails, or is refused: nothing was changed.                       *)
LEMMA StartFailsMain ==
    ASSUME FInv, StartFails("main") \/ StartRefused("main")
    PROVE  FInv'
<1>1. /\ plan["main"] # <<>> /\ Head(plan["main"]).op = "start"
      /\ plan' = [plan EXCEPT !["main"] = <<>>]
      /\ UNCHANGED <<cb, trie, asked, history>>
  BY Zenon DEF StartFails, StartRefused, Doing
<1>2. /\ ~Closes(plan["main"])
      /\ pc["watcher"] \in WaitingPcs /\ pc \in [main : MainPcs, watcher : WatcherPcs]
      /\ plan \in [main : Seq(Ops), watcher : Seq(Ops)]
      /\ stream \in [Streams -> StreamRecords] /\ dq \in QueueRecords
  <2>1. /\ plan \in [main : Seq(Ops), watcher : Seq(Ops)]
        /\ stream \in [Streams -> StreamRecords] /\ dq \in QueueRecords
    BY Zenon DEF FInv, FTypes
  <2> QED
    BY <1>1, <2>1, StartsAdd, MainWorks, Zenon
<1>3. PICK d \in Dirs :
        /\ Head(plan["main"]) = Op("start", d) /\ d \notin Started
        /\ Started = {Source, Sync} \union trie
  BY <1>1, StartsAdd
<1>4. Subject("main") = d /\ d \in Streams
  BY <1>3 DEF Subject, Op, Streams
<1>5. plan' \in [main : Seq(Ops), watcher : Seq(Ops)] /\ plan'["main"] = <<>>
  BY <1>1, <1>2, NothingLeft, Zenon
<1>6. /\ pc'["main"] = "idle" /\ pc' \in [main : MainPcs, watcher : WatcherPcs]
      /\ \/ pc'["watcher"] = pc["watcher"]
         \/ pc["watcher"] = "waiting" /\ pc'["watcher"] = "check"
  <2> DEFINE at == [pc EXCEPT !["main"] = "idle"]
  <2>1. /\ at \in [main : MainPcs, watcher : WatcherPcs] /\ at["main"] = "idle"
        /\ at["watcher"] = pc["watcher"]
    BY <1>2 DEF MainPcs, AtRest
  <2>2. pc' = at \/ pc' = Woken(at)
    BY Zenon DEF StartFails, StartRefused, Goto
  <2> QED
    BY <2>1, <2>2, Wakes, Zenon
<1>7. /\ dq' \in QueueRecords /\ dq'.streams = Cardinality(Started)
      /\ dq'.exn = dq.exn /\ dq'.state = dq.state /\ dq'.alive = dq.alive
  <2>1. dq.streams = Cardinality(Started) + Counting("main") /\ Cardinality(Started) \in Nat
        /\ dq.streams \in Int
    BY <1>1, <1>2, MainState DEF QueueRecords
  <2>2. CASE StartFails("main")
    <3>1. Counting("main") = 1 /\ dq' = [dq EXCEPT !.streams = dq.streams - 1]
      BY <2>2, Zenon DEF StartFails, Doing, Counting, Uncounted
    <3>2. dq.streams - 1 = Cardinality(Started) /\ dq.streams - 1 \in Int
      BY <2>1, <3>1
    <3> QED
      BY <1>2, <3>1, <3>2, QueueCount
  <2>3. CASE StartRefused("main")
    <3>1. Counting("main") = 0 /\ dq' = dq
      BY <2>3 DEF StartRefused, Doing, Counting
    <3> QED
      BY <1>2, <2>1, <3>1
  <2> QED
    BY <2>2, <2>3
<1>8. /\ stream' \in [Streams -> StreamRecords] /\ stream'[d].state \notin {"started", "starting"}
      /\ \A x \in Streams \ {d} : stream'[x] = stream[x] /\ stream[x].state # "starting"
  <2>1. \A x \in Streams \ {d} : stream[x].state # "starting"
    BY <1>1, <1>4, MainState DEF StartedBy, Subject
  <2>2. CASE StartFails("main")
    <3> DEFINE r == [stream[d] EXCEPT !.state = "idle", !.dq = FALSE]
    <3>1. stream[d] \in StreamRecords
      BY <1>2, <1>4
    <3>2. stream' = [stream EXCEPT ![d] = r]
      BY <1>2, <1>4, <2>2, <3>1 DEF StartFails, StreamRecords
    <3>3. r \in StreamRecords /\ r.state = "idle"
      BY <3>1 DEF StreamRecords
    <3> HIDE DEF r
    <3> QED
      BY <1>2, <1>4, <2>1, <3>2, <3>3, StreamRecord
  <2>3. CASE StartRefused("main")
    <3>1. stream' = stream /\ ~StartedBy("main", d)
      BY <2>3 DEF StartRefused, Doing, StartedBy, StartPcs
    <3>2. stream[d].state # "starting" /\ stream[d].state # "started"
      BY <1>1, <1>3, <1>4, <3>1, MainState DEF Started
    <3> QED
      BY <1>2, <2>1, <3>1, <3>2
  <2> QED
    BY <2>2, <2>3
<1>9. Started' = Started
  <2>1. Started' = Started \ {d}
    BY <1>4, <1>8, OneState
  <2> QED
    BY <2>1, <1>3
<1>10. MainPlan' /\ AtHead("main")' /\ Covered'
  BY <1>1, <1>5, <1>6 DEF FInv, Core, MainPlan, AtHead, Covered, AtRest, StartPcs, StopPcs, Distinct
<1>11. MainStarted'
  BY <1>1, <1>3, <1>5, <1>6, <1>9 DEF MainStarted, Adds
<1>12. QueueEnds'
  BY <1>1, <1>2, <1>6, <1>7, QueueStaysOpen
<1>13. \A s \in Streams : stream'[s].state = "starting" <=> StartedBy("main", s)'
  <2>1. \A s : ~StartedBy("main", s)'
    BY <1>6 DEF StartedBy, StartPcs
  <2> QED
    BY <1>4, <1>8, <2>1
<1>14. dq'.streams = Cardinality(Started') + Counting("main")' /\ IsFiniteSet(Started')
  BY <1>1, <1>6, <1>7, <1>9, MainState DEF Counting
<1>15. pc'["watcher"] \in WaitingPcs
  BY <1>2, <1>6 DEF WaitingPcs
<1>16. Core'
  BY <1>6, <1>10, <1>11, <1>12, <1>13, <1>14, <1>15, MainMoves
<1>17. FTypes'
  BY <1>1, <1>5, <1>6, <1>7, <1>8, Zenon DEF FInv, FTypes
<1> QED
  BY <1>16, <1>17 DEF FInv

-----------------------------------------------------------------------------
(* The main thread stops a stream.                                            *)

LEMMA NotBoth ==
    ASSUME NEW p, NEW d, AddsTo(p, d)
    PROVE  ~Closes(p)
<1>1. p[Len(p)].op = "commit"
  BY DEF AddsTo, Op
<1> QED
  BY <1>1 DEF Closes

LEMMA AddStarted ==
    ASSUME NEW d \in Dirs, plan'["main"] # <<>>, AddsTo(plan["main"], d)',
           Head(plan'["main"]).op # "start", pc'["main"] \notin {"idle", "off", "down", "failed"},
           Started' = {Source, Sync} \union (trie' \ Below(d)') \union {d} \union ToStop'
    PROVE  MainStarted'
<1>1. ASSUME NEW e \in Dirs, AddsTo(plan["main"], e)' PROVE e = d
  <2>1. /\ plan'["main"][Len(plan'["main"])] = Op("commit", e)
        /\ plan'["main"][Len(plan'["main"])] = Op("commit", d)
    BY <1>1, Zenon DEF AddsTo
  <2> QED
    BY <2>1 DEF Op
<1>2. ~Closes(plan["main"])'
  <2>1. plan'["main"][Len(plan'["main"])] = Op("commit", d)
    BY Zenon DEF AddsTo
  <2>2. plan'["main"][Len(plan'["main"])].op # "down"
    BY <2>1 DEF Op
  <2> QED
    BY <2>2, Zenon DEF Closes
<1>3. Adds'
  BY <1>1, Zenon DEF Adds
<1> QED
  BY <1>2, <1>3, Zenon DEF MainStarted

LEMMA CloseStarted ==
    ASSUME plan'["main"] # <<>>, Closes(plan["main"])',
           pc'["main"] \notin {"idle", "off", "down", "failed"}, Started' = ToStop'
    PROVE  MainStarted'
<1>1. ASSUME NEW e \in Dirs PROVE ~AddsTo(plan["main"], e)'
  <2>1. AddsTo(plan["main"], e)' => plan'["main"][Len(plan'["main"])] = Op("commit", e)
    BY Zenon DEF AddsTo
  <2>2. plan'["main"][Len(plan'["main"])].op = "down"
    BY Zenon DEF Closes
  <2> QED
    BY <2>1, <2>2 DEF Op
<1>2. Adds'
  BY <1>1, Zenon DEF Adds
<1> QED
  BY <1>2, Zenon DEF MainStarted

LEMMA AddStops ==
    ASSUME NEW p \in Seq(Ops), p # <<>>, NEW d, AddsTo(p, d), Head(p).op = "stop"
    PROVE  Head(p).stream \in Below(d)
<1>1. Head(p) = p[1] /\ p[1].op = "stop"
  BY RestOfPlan
<1>2. Len(p) \in Nat /\ Len(p) >= 1
  BY RestOfPlan
<1>3. Len(p) # 1
  BY <1>1 DEF AddsTo, Op
<1>4. 1 \in 1 .. Len(p) - 1
  BY <1>2, <1>3, NotTheLast, Zenon
<1> QED
  BY <1>1, <1>4 DEF AddsTo, Op

LEMMA StopsHead ==
    ASSUME FInv, plan["main"] # <<>>, Head(plan["main"]).op = "stop"
    PROVE  /\ Subject("main") \in Streams /\ Subject("main") \in StopsIn(plan["main"])
           /\ Tail(plan["main"]) \in Seq(Ops) /\ Tail(plan["main"]) # <<>>
           /\ Distinct(Tail(plan["main"]))
           /\ StopsIn(Tail(plan["main"])) = StopsIn(plan["main"]) \ {Subject("main")}
           /\ \/ Closes(plan["main"]) /\ Closes(Tail(plan["main"])) /\ Started = ToStop
              \/ \E d \in Dirs :
                   /\ AddsTo(plan["main"], d) /\ AddsTo(Tail(plan["main"]), d)
                   /\ Head(Tail(plan["main"])).op # "start"
                   /\ ~ \E l \in trie : Contains(l, d)
                   /\ Started = {Source, Sync} \union (trie \ Below(d)) \union {d} \union ToStop
                   /\ Subject("main") \notin {Source, Sync} \union (trie \ Below(d)) \union {d}
<1> DEFINE p == plan["main"]
           s == Head(p).stream
<1>1. p \in Seq(Ops) /\ Distinct(p) /\ Tail(p) \in Seq(Ops) /\ Head(p) \in Ops /\ s \in Streams
  <2>1. p \in Seq(Ops) /\ Distinct(p)
    BY MainWorks, Zenon DEF FInv, Core, MainPlan
  <2>2. Tail(p) \in Seq(Ops) /\ Head(p) \in Ops
    BY <2>1, RestOfPlan, Zenon
  <2> QED
    BY <2>1, <2>2, Zenon DEF Ops
<1>2. Subject("main") = s
  BY DEF Subject
<1>3. s \in StopsIn(p) /\ Distinct(Tail(p)) /\ StopsIn(Tail(p)) = StopsIn(p) \ {s}
  BY <1>1, StopsOfRest, Zenon
<1>4. CASE Closes(p)
  <2>1. Tail(p) # <<>> /\ Closes(Tail(p))
    BY <1>1, <1>4, RestOfClose, Zenon
  <2>2. Started = ToStop
    BY <1>4, Zenon DEF FInv, Core, MainStarted
  <2> QED
    BY <1>1, <1>2, <1>3, <1>4, <2>1, <2>2, Zenon
<1>5. CASE ~Closes(p)
  <2>1. PICK d \in Dirs : AddsTo(p, d) /\ ~ \E l \in trie : Contains(l, d)
    BY <1>5, Zenon DEF FInv, Core, MainPlan
  <2>2. Tail(p) # <<>> /\ AddsTo(Tail(p), d) /\ Head(Tail(p)).op # "start"
    BY <1>1, <2>1, RestOfAdd
  <2>3. Started = {Source, Sync} \union (trie \ Below(d)) \union {d} \union ToStop
    BY <2>1 DEF FInv, Core, MainStarted, Adds
  <2>4. s \in Below(d)
    BY <1>1, <2>1, AddStops
  <2>5. s \in trie /\ s # d /\ trie \subseteq Dirs
    <3>1. d \notin trie
      BY <2>1, ContainsRefl, FseventsAssumption
    <3> QED
      BY <2>4, <3>1 DEF Below, FInv, FTypes
  <2>6. s \notin {Source, Sync} \union (trie \ Below(d)) \union {d}
    BY <2>4, <2>5, FseventsAssumption
  <2> QED
    BY <1>1, <1>2, <1>3, <2>1, <2>2, <2>3, <2>6, Zenon
<1> QED
  BY <1>4, <1>5

(* While a stream is counted, the queue is stopped only after an exception.   *)
LEMMA BusyStays ==
    ASSUME FInv, plan["main"] # <<>>, dq.streams # 0,
           dq'.exn = dq.exn, dq'.state = dq.state, dq'.alive = dq.alive,
           \/ pc'["watcher"] = pc["watcher"]
           \/ pc["watcher"] = "waiting" /\ pc'["watcher"] = "check",
           pc'["main"] \notin {"off", "create", "failed"}
    PROVE  QueueEnds'
<1>1. QueueEnds /\ pc["main"] # "failed"
  BY MainWorks DEF FInv, Core
<1>2. ~dq.exn => pc["watcher"] \notin EndPcs
  BY <1>1, Zenon DEF QueueEnds
<1>3. "check" \notin EndPcs
  BY DEF EndPcs
<1> QED
  BY <1>1, <1>2, <1>3, Zenon DEF QueueEnds

LEMMA StopMain ==
    ASSUME FInv, Stop("main")
    PROVE  FInv'
<1> DEFINE s == Subject("main")
           r == [stream[s] EXCEPT !.state = "stopped", !.held = <<>>]
<1>1. /\ pc["main"] = "next" /\ plan["main"] # <<>> /\ Head(plan["main"]).op = "stop"
      /\ stream' = [stream EXCEPT ![s].state = "stopped", ![s].held = <<>>]
      /\ pc' = [pc EXCEPT !["main"] = "stop_lock"] 
      /\ history' = [history EXCEPT !.of[s] = <<>>]
      /\ UNCHANGED <<dq, plan, cb, trie, asked>>
  BY Zenon DEF Stop, Doing, Goto
<1>2. /\ pc["watcher"] \in WaitingPcs /\ pc \in [main : MainPcs, watcher : WatcherPcs]
      /\ s \in Streams /\ s \in StopsIn(plan["main"])
  BY <1>1, StopsHead, MainWorks, Zenon
<1>3. /\ pc'["main"] = "stop_lock" /\ pc'["watcher"] = pc["watcher"]
      /\ pc' \in [main : MainPcs, watcher : WatcherPcs]
  BY <1>1, <1>2 DEF MainPcs, StopPcs
<1>4. stream \in [Streams -> StreamRecords] /\ stream[s] \in StreamRecords
  BY <1>2 DEF FInv, FTypes
<1>5. stream' = [stream EXCEPT ![s] = r]
  BY <1>1, <1>2, <1>4 DEF StreamRecords
<1>6. r \in StreamRecords /\ r.state = "stopped"
  <2>1. <<>> \in Seq(FsEvents)
    OBVIOUS
  <2> QED
    BY <1>4, <2>1, Zenon DEF StreamRecords
<1> HIDE DEF r
<1>7. /\ stream' \in [Streams -> StreamRecords] /\ stream'[s].state = "stopped"
      /\ \A x \in Streams \ {s} : stream'[x] = stream[x]
  BY <1>2, <1>4, <1>5, <1>6, StreamRecord, Zenon
<1>8. Started' = Started \ {s}
  <2>1. stream'[s].state # "started" /\ \A x \in Streams \ {s} : stream'[x].state = stream[x].state
    BY <1>7
  <2> QED
    BY <1>2, <2>1, OneState, Zenon
<1>9. ToStop = StopsIn(plan["main"]) /\ ToStop' = StopsIn(plan["main"]) \ {s}
  BY <1>1, <1>3 DEF ToStop, StopPcs, Subject
<1>10. s \in Started
  BY <1>1, <1>2, <1>9, StopsHead, Zenon
<1>11. MainPlan' /\ AtHead("main")' /\ Covered'
  BY <1>1, <1>3, Zenon DEF FInv, Core, MainPlan, AtHead, Covered, AddsTo, Below, AtRest, StartPcs, StopPcs
<1>12. MainStarted'
  <2>0. pc'["main"] \notin {"idle", "off", "down", "failed"}
    BY <1>3
  <2>1. CASE Closes(plan["main"]) /\ Started = ToStop
    <3>1. Started' = ToStop'
      BY <1>8, <1>9, <2>1
    <3> QED
      BY <1>1, <2>0, <2>1, <3>1, CloseStarted, Zenon DEF Closes
  <2>2. ASSUME NEW d \in Dirs, AddsTo(plan["main"], d),
               Started = {Source, Sync} \union (trie \ Below(d)) \union {d} \union ToStop,
               s \notin {Source, Sync} \union (trie \ Below(d)) \union {d}
        PROVE  MainStarted'
    <3>1. AddsTo(plan["main"], d)' /\ Below(d)' = Below(d)
      BY <1>1, <2>2, Zenon DEF AddsTo, Below
    <3>2. Started' = {Source, Sync} \union (trie' \ Below(d)') \union {d} \union ToStop'
      BY <1>1, <1>8, <1>9, <2>2, <3>1
    <3>3. Head(plan'["main"]).op # "start" /\ plan'["main"] # <<>>
      BY <1>1
    <3> QED
      BY <2>0, <3>1, <3>2, <3>3, AddStarted, Zenon
  <2> QED
    BY <1>1, <2>1, <2>2, StopsHead, Zenon
<1>13. /\ IsFiniteSet(Started') /\ dq'.streams = Cardinality(Started') + Counting("main")'
       /\ dq.streams # 0
  <2>1. /\ IsFiniteSet(Started') /\ Cardinality(Started') = Cardinality(Started) - 1
        /\ Cardinality(Started') \in Nat
    BY <1>1, <1>8, <1>10, MainState, FS_RemoveElement, FS_CardinalityType
  <2> QED
    BY <1>1, <1>3, <2>1, MainState DEF Counting
<1>14. QueueEnds'
  BY <1>1, <1>3, <1>13, BusyStays
<1>15. \A x \in Streams : stream'[x].state = "starting" <=> StartedBy("main", x)'
  <2>1. \A x : ~StartedBy("main", x)' /\ ~StartedBy("main", x)
    BY <1>1, <1>3 DEF StartedBy, StartPcs
  <2> QED
    BY <1>1, <1>2, <1>7, <2>1, MainState
<1>16. Core'
  BY <1>2, <1>3, <1>11, <1>12, <1>13, <1>14, <1>15, MainMoves
<1>17. FTypes'
  <2>1. history' \in Histories
    <3>1. history \in Histories /\ <<>> \in Seq(FsEvents)
      BY DEF FInv, FTypes
    <3> QED
      BY <1>1, <1>2, <3>1, Zenon DEF Histories
  <2> QED
    BY <1>1, <1>3, <1>7, <2>1, Zenon DEF FInv, FTypes
<1> QED
  BY <1>16, <1>17 DEF FInv

LEMMA StopLockMain ==
    ASSUME FInv, StopLock("main")
    PROVE  FInv'
<1> DEFINE at == [pc EXCEPT !["main"] = "stop_end"]
<1>1. /\ pc["main"] = "stop_lock" /\ plan["main"] # <<>> /\ Head(plan["main"]).op = "stop"
      /\ dq' = [dq EXCEPT !.streams = dq.streams - 1] /\ pc' = Woken(at)
      /\ UNCHANGED <<stream, plan, cb, trie, asked, history>>
  BY Zenon DEF StopLock, Doing
<1>2. pc["watcher"] \in WaitingPcs /\ pc \in [main : MainPcs, watcher : WatcherPcs]
  BY <1>1, MainWorks, Zenon
<1>3. /\ pc'["main"] = "stop_end" /\ pc' \in [main : MainPcs, watcher : WatcherPcs]
      /\ \/ pc'["watcher"] = pc["watcher"]
         \/ pc["watcher"] = "waiting" /\ pc'["watcher"] = "check"
  <2>1. /\ at \in [main : MainPcs, watcher : WatcherPcs] /\ at["main"] = "stop_end"
        /\ at["watcher"] = pc["watcher"]
    BY <1>2 DEF MainPcs, StopPcs
  <2> QED
    BY <1>1, <2>1, Wakes, Zenon
<1>4. Started' = Started
  BY <1>1, Zenon DEF Started
<1>5. /\ dq' \in QueueRecords /\ dq'.streams = Cardinality(Started) /\ dq.streams # 0
      /\ dq'.exn = dq.exn /\ dq'.state = dq.state /\ dq'.alive = dq.alive
  <2>1. dq \in QueueRecords
    BY Zenon DEF FInv, FTypes
  <2>2. /\ dq.streams = Cardinality(Started) + 1 /\ Cardinality(Started) \in Nat
    BY <1>1, MainState DEF Counting
  <2>3. dq.streams - 1 \in Int /\ dq.streams - 1 = Cardinality(Started) /\ dq.streams # 0
    BY <2>2
  <2> QED
    BY <1>1, <2>1, <2>3, QueueCount, Zenon
<1>6. MainPlan' /\ AtHead("main")' /\ Covered'
  BY <1>1, <1>3, Zenon DEF FInv, Core, MainPlan, AtHead, Covered, AddsTo, Below, AtRest, StartPcs, StopPcs
<1>7. MainStarted'
  <2>1. ToStop' = ToStop
    BY <1>1, <1>3 DEF ToStop, StopPcs
  <2> QED
    BY <1>1, <1>3, <1>4, <2>1, Zenon DEF FInv, Core, MainStarted, Adds, AddsTo, Below, Closes
<1>8. QueueEnds'
  BY <1>1, <1>3, <1>5, BusyStays
<1>9. \A x \in Streams : stream'[x].state = "starting" <=> StartedBy("main", x)'
  <2>1. \A x : ~StartedBy("main", x)' /\ ~StartedBy("main", x)
    BY <1>1, <1>3 DEF StartedBy, StartPcs
  <2> QED
    BY <1>1, <2>1, MainState
<1>10. IsFiniteSet(Started') /\ dq'.streams = Cardinality(Started') + Counting("main")'
  BY <1>1, <1>3, <1>4, <1>5, MainState DEF Counting
<1>11. pc'["watcher"] \in WaitingPcs
  BY <1>2, <1>3 DEF WaitingPcs
<1>12. Core'
  BY <1>3, <1>6, <1>7, <1>8, <1>9, <1>10, <1>11, MainMoves
<1>13. FTypes'
  BY <1>1, <1>3, <1>5, Zenon DEF FInv, FTypes
<1> QED
  BY <1>12, <1>13 DEF FInv

LEMMA StopEndMain ==
    ASSUME FInv, StopEnd("main")
    PROVE  FInv'
<1> DEFINE s == Subject("main")
           p == plan["main"]
           r == [stream[s] EXCEPT !.dq = FALSE]
<1>1. /\ pc["main"] = "stop_end" /\ p # <<>> /\ Head(p).op = "stop"
      /\ stream' = [stream EXCEPT ![s].dq = FALSE]
      /\ pc' = [pc EXCEPT !["main"] = "next"] /\ plan' = [plan EXCEPT !["main"] = Tail(@)]
      /\ UNCHANGED <<dq, cb, trie, asked, history>>
  BY Zenon DEF StopEnd, Doing, StepDone, Goto
<1>2. /\ pc["watcher"] \in WaitingPcs /\ pc \in [main : MainPcs, watcher : WatcherPcs]
      /\ s \in Streams /\ Tail(p) \in Seq(Ops) /\ Tail(p) # <<>> /\ Distinct(Tail(p))
      /\ StopsIn(Tail(p)) = StopsIn(p) \ {s}
      /\ plan \in [main : Seq(Ops), watcher : Seq(Ops)]
  BY <1>1, StopsHead, MainWorks, Zenon DEF FInv, FTypes
<1>3. /\ pc'["main"] = "next" /\ pc'["watcher"] = pc["watcher"]
      /\ pc' \in [main : MainPcs, watcher : WatcherPcs]
  BY <1>1, <1>2 DEF MainPcs
<1>4. stream \in [Streams -> StreamRecords] /\ stream[s] \in StreamRecords
  BY <1>2 DEF FInv, FTypes
<1>5. r \in StreamRecords /\ r.state = stream[s].state
  BY <1>4 DEF StreamRecords
<1>6. /\ stream' \in [Streams -> StreamRecords]
      /\ \A x \in Streams : stream'[x].state = stream[x].state
  <2> HIDE DEF r
  <2>1. stream' = [stream EXCEPT ![s] = r]
    BY <1>1 DEF r
  <2> QED
    BY <1>2, <1>4, <1>5, <2>1, StreamRecord, Zenon
<1>7. Started' = Started
  BY <1>6, SameStates, Zenon
<1>8. plan' \in [main : Seq(Ops), watcher : Seq(Ops)] /\ plan'["main"] = Tail(p)
  BY <1>1, <1>2
<1>9. ToStop' = ToStop
  <2>1. ToStop = StopsIn(p) \ {s} /\ ToStop' = StopsIn(Tail(p))
    BY <1>1, <1>3, <1>8 DEF ToStop, StopPcs, Subject
  <2> QED
    BY <1>2, <2>1
<1>10. /\ MainPlan' /\ MainStarted'
       /\ Closes(p) => Closes(plan["main"])'
  <2>0. /\ pc'["main"] \notin {"idle", "off", "down", "failed"} /\ pc'["main"] \notin AtRest
        /\ plan'["main"] # <<>> /\ Distinct(plan["main"])'
    BY <1>2, <1>3, <1>8 DEF AtRest, Distinct
  <2>1. CASE Closes(p) /\ Closes(Tail(p)) /\ Started = ToStop
    <3>1. Closes(plan["main"])'
      BY <1>8, <2>1, Zenon DEF Closes
    <3>2. MainStarted'
      BY <1>7, <1>9, <2>0, <2>1, <3>1, CloseStarted, Zenon
    <3> QED
      BY <2>0, <3>1, <3>2, Zenon DEF MainPlan
  <2>2. ASSUME NEW d \in Dirs, AddsTo(p, d), AddsTo(Tail(p), d),
               Head(Tail(p)).op # "start", ~ \E l \in trie : Contains(l, d),
               Started = {Source, Sync} \union (trie \ Below(d)) \union {d} \union ToStop
        PROVE  MainPlan' /\ MainStarted' /\ ~Closes(p)
    <3>1. AddsTo(plan["main"], d)' /\ Below(d)' = Below(d) /\ trie' = trie
      BY <1>1, <1>8, <2>2, Zenon DEF AddsTo, Below
    <3>2. MainStarted'
      BY <1>7, <1>8, <1>9, <2>0, <2>2, <3>1, AddStarted, Zenon
    <3> QED
      BY <2>0, <2>2, <3>1, <3>2, NotBoth, Zenon DEF MainPlan
  <2> QED
    BY <1>1, <2>1, <2>2, StopsHead, Zenon
<1>11. AtHead("main")' /\ Covered'
  BY <1>1, <1>3 DEF FInv, Core, AtHead, Covered, StartPcs, StopPcs
<1>12. QueueEnds'
  BY <1>1, <1>2, <1>3, <1>8, <1>10, Zenon DEF FInv, Core, QueueEnds
<1>13. \A x \in Streams : stream'[x].state = "starting" <=> StartedBy("main", x)'
  <2>1. \A x : ~StartedBy("main", x)' /\ ~StartedBy("main", x)
    BY <1>1, <1>3 DEF StartedBy, StartPcs
  <2> QED
    BY <1>1, <1>6, <2>1, MainState
<1>14. IsFiniteSet(Started') /\ dq'.streams = Cardinality(Started') + Counting("main")'
  BY <1>1, <1>3, <1>7, MainState DEF Counting
<1>15. Core'
  BY <1>2, <1>3, <1>10, <1>11, <1>12, <1>13, <1>14, MainMoves
<1>16. FTypes'
  BY <1>1, <1>3, <1>6, <1>8, Zenon DEF FInv, FTypes
<1> QED
  BY <1>15, <1>16 DEF FInv

(* The main thread is idle: what the streams are then.                        *)
LEMMA IdleState ==
    ASSUME FInv, pc["main"] = "idle"
    PROVE  /\ Started = {Source, Sync} \union trie /\ trie \subseteq Dirs /\ IsFiniteSet(trie)
           /\ plan["main"] = <<>> /\ plan \in [main : Seq(Ops), watcher : Seq(Ops)]
           /\ dq.streams = Cardinality(Started) /\ dq.streams # 0
           /\ \A s \in Streams : stream[s].state # "starting"
<1>1. Started = {Source, Sync} \union trie
  BY Zenon DEF FInv, Core, MainStarted
<1>2. trie \subseteq Dirs /\ plan \in [main : Seq(Ops), watcher : Seq(Ops)]
  BY Zenon DEF FInv, FTypes
<1>3. IsFiniteSet(Started) /\ Cardinality(Started) \in Nat /\ dq.streams = Cardinality(Started)
  BY MainState DEF Counting
<1>4. IsFiniteSet(trie)
  BY <1>1, <1>3, FS_Subset
<1>5. dq.streams # 0
  <2>1. Started # {}
    BY <1>1
  <2> QED
    BY <1>3, <2>1, FS_EmptySet
<1>6. plan["main"] = <<>>
  BY DEF FInv, Core, MainPlan, AtRest
<1>7. \A s \in Streams : stream[s].state # "starting"
  BY MainState DEF StartedBy, StartPcs
<1> QED
  BY <1>1, <1>2, <1>3, <1>4, <1>5, <1>6, <1>7

(* A new plan of the main thread.                                             *)
LEMMA NewPlan ==
    ASSUME plan \in [main : Seq(Ops), watcher : Seq(Ops)], NEW p \in Seq(Ops),
           plan' = [plan EXCEPT !["main"] = p]
    PROVE  plan' \in [main : Seq(Ops), watcher : Seq(Ops)] /\ plan'["main"] = p
  BY Zenon

LEMMA AddWatchPreserves ==
    ASSUME FInv, NEW d \in Dirs, AddWatch(d)
    PROVE  FInv'
<1>1. pc["main"] = "idle" /\ UNCHANGED <<stream, dq, cb, trie, history>>
  BY Zenon DEF AddWatch
<1>2. /\ Started = {Source, Sync} \union trie /\ trie \subseteq Dirs /\ IsFiniteSet(trie)
      /\ plan["main"] = <<>> /\ plan \in [main : Seq(Ops), watcher : Seq(Ops)]
      /\ dq.streams = Cardinality(Started) /\ dq.streams # 0
      /\ \A s \in Streams : stream[s].state # "starting"
  BY <1>1, IdleState, Zenon
<1>3. CASE \E l \in trie : Contains(l, d)
  <2>1. asked' = asked \union {d} /\ UNCHANGED <<plan, pc>>
    BY <1>3, Zenon DEF AddWatch
  <2>2. Covered'
    BY <1>1, <1>3, <2>1 DEF FInv, Core, Covered
  <2>3. Started' = Started
    BY <1>1, Zenon DEF Started
  <2>4. pc["watcher"] \in WaitingPcs
    BY <1>1, MainWorks, Zenon
  <2>5. MainPlan' /\ AtHead("main")' /\ QueueEnds'
    BY <1>1, <2>1, Zenon DEF FInv, Core, MainPlan, AtHead, AddsTo, Below, QueueEnds
  <2>6. MainStarted'
    BY <1>1, <1>2, <2>1, <2>3 DEF MainStarted, Adds
  <2>7. \A s \in Streams : stream'[s].state = "starting" <=> StartedBy("main", s)'
    BY <1>1, <1>2, <2>1 DEF StartedBy, StartPcs
  <2>8. IsFiniteSet(Started') /\ dq'.streams = Cardinality(Started') + Counting("main")'
    BY <1>1, <2>1, <2>3, MainState DEF Counting
  <2>9. Core'
    BY <1>1, <2>1, <2>2, <2>4, <2>5, <2>6, <2>7, <2>8, MainMoves
  <2>10. asked' \subseteq Dirs
    BY <2>1 DEF FInv, FTypes
  <2>11. FTypes'
    BY <1>1, <2>1, <2>10, Zenon DEF FInv, FTypes
  <2> QED
    BY <2>9, <2>11 DEF FInv
<1>4. CASE ~ \E l \in trie : Contains(l, d)
  <2>1. /\ plan' = [plan EXCEPT !["main"] = AddPlan(d)] /\ asked' = asked
        /\ pc' = [pc EXCEPT !["main"] = "next"]
    BY <1>4, Zenon DEF AddWatch, Goto
  <2>2. /\ AddPlan(d) \in Seq(Ops) /\ AddPlan(d) # <<>> /\ Distinct(AddPlan(d))
        /\ AddsTo(AddPlan(d), d) /\ Head(AddPlan(d)) = Op("start", d)
        /\ StopsIn(AddPlan(d)) = Below(d)
    BY <1>2, AddPlanFacts, Zenon
  <2>3. plan' \in [main : Seq(Ops), watcher : Seq(Ops)] /\ plan'["main"] = AddPlan(d)
    BY <1>2, <2>1, <2>2, NewPlan, Zenon
  <2>4. pc["watcher"] \in WaitingPcs /\ pc \in [main : MainPcs, watcher : WatcherPcs]
    BY <1>1, MainWorks, Zenon
  <2>5. /\ pc'["main"] = "next" /\ pc'["watcher"] = pc["watcher"]
        /\ pc' \in [main : MainPcs, watcher : WatcherPcs]
    BY <2>1, <2>4 DEF MainPcs
  <2>6. Started' = Started
    BY <1>1, Zenon DEF Started
  <2>7. MainPlan'
    <3>1. AddsTo(plan["main"], d)'
      BY <1>1, <2>2, <2>3, Zenon DEF AddsTo, Below
    <3>2. ~ \E l \in trie' : Contains(l, d)
      BY <1>1, <1>4, Zenon
    <3>3. plan'["main"] # <<>> /\ pc'["main"] \notin AtRest /\ Distinct(plan["main"])'
      BY <2>2, <2>3, <2>5 DEF AtRest, Distinct
    <3> QED
      BY <3>1, <3>2, <3>3, Zenon DEF MainPlan
  <2>8. MainStarted'
    <3>1. ASSUME NEW e \in Dirs, AddsTo(plan["main"], e)' PROVE e = d
      <4>1. /\ plan'["main"][Len(plan'["main"])] = Op("commit", e)
            /\ plan'["main"][Len(plan'["main"])] = Op("commit", d)
        BY <2>2, <2>3, <3>1, Zenon DEF AddsTo
      <4> QED
        BY <4>1 DEF Op
    <3>2. StopsIn(plan["main"])' = Below(d)' /\ Head(plan'["main"]).op = "start"
      <4>1. Below(d)' = Below(d) /\ StopsIn(plan["main"])' = StopsIn(AddPlan(d))
        BY <1>1, <2>3, Zenon DEF Below, StopsIn
      <4> QED
        BY <2>2, <2>3, <4>1 DEF Op
    <3>3. Started' = {Source, Sync} \union trie'
      BY <1>1, <1>2, <2>6, Zenon
    <3>4. Adds'
      BY <3>1, <3>2, <3>3, Zenon DEF Adds
    <3>5. ~Closes(plan["main"])'
      <4>1. ~Closes(AddPlan(d))
        BY <2>2, NotBoth, Zenon
      <4> QED
        BY <2>3, <4>1, Zenon DEF Closes
    <3> QED
      BY <2>5, <3>4, <3>5 DEF MainStarted
  <2>9. AtHead("main")' /\ Covered'
    BY <1>1, <2>1, <2>5 DEF FInv, Core, AtHead, Covered, StartPcs, StopPcs
  <2>10. QueueEnds'
    <3>1. ~(plan["main"] # <<>> /\ Closes(plan["main"]))
      BY <1>2
    <3> QED
      BY <1>1, <2>5, <3>1, QueueStaysOpen
  <2>11. \A s \in Streams : stream'[s].state = "starting" <=> StartedBy("main", s)'
    BY <1>1, <1>2, <2>5 DEF StartedBy, StartPcs
  <2>12. IsFiniteSet(Started') /\ dq'.streams = Cardinality(Started') + Counting("main")'
    BY <1>1, <2>5, <2>6, MainState DEF Counting
  <2>13. Core'
    BY <2>4, <2>5, <2>7, <2>8, <2>9, <2>10, <2>11, <2>12, MainMoves
  <2>14. FTypes'
    BY <1>1, <2>1, <2>3, <2>5, Zenon DEF FInv, FTypes
  <2> QED
    BY <2>13, <2>14 DEF FInv
<1> QED
  BY <1>3, <1>4

LEMMA ShutdownPreserves ==
    ASSUME FInv, Shutdown
    PROVE  FInv'
<1>1. /\ pc["main"] = "idle" /\ UNCHANGED <<stream, dq, cb, trie, asked, history>>
      /\ plan' = [plan EXCEPT !["main"] = ClosePlan] /\ pc' = [pc EXCEPT !["main"] = "next"]
  BY Zenon DEF Shutdown, ClosePlan, Goto
<1>2. /\ Started = {Source, Sync} \union trie /\ trie \subseteq Dirs /\ IsFiniteSet(trie)
      /\ plan["main"] = <<>> /\ plan \in [main : Seq(Ops), watcher : Seq(Ops)]
      /\ dq.streams = Cardinality(Started) /\ dq.streams # 0
      /\ \A s \in Streams : stream[s].state # "starting"
  BY <1>1, IdleState, Zenon
<1>3. /\ ClosePlan \in Seq(Ops) /\ ClosePlan # <<>> /\ Distinct(ClosePlan)
      /\ Closes(ClosePlan) /\ StopsIn(ClosePlan) = {Source, Sync} \union trie
  BY <1>2, ClosePlanFacts, Zenon
<1>4. plan' \in [main : Seq(Ops), watcher : Seq(Ops)] /\ plan'["main"] = ClosePlan
  BY <1>1, <1>2, <1>3, NewPlan, Zenon
<1>5. pc["watcher"] \in WaitingPcs /\ pc \in [main : MainPcs, watcher : WatcherPcs]
  BY <1>1, MainWorks, Zenon
<1>6. /\ pc'["main"] = "next" /\ pc'["watcher"] = pc["watcher"]
      /\ pc' \in [main : MainPcs, watcher : WatcherPcs]
  BY <1>1, <1>5 DEF MainPcs
<1>7. Started' = Started
  BY <1>1, Zenon DEF Started
<1>8. Closes(plan["main"])' /\ ToStop' = Started'
  <2>1. ToStop' = StopsIn(ClosePlan)
    BY <1>4, <1>6 DEF ToStop, StopPcs
  <2> QED
    BY <1>2, <1>3, <1>4, <1>7, <2>1, Zenon DEF Closes
<1>9. MainPlan' /\ AtHead("main")' /\ Covered'
  <2>1. plan'["main"] # <<>> /\ pc'["main"] \notin AtRest /\ Distinct(plan["main"])'
    BY <1>3, <1>4, <1>6 DEF AtRest, Distinct
  <2>2. AtHead("main")' /\ Covered'
    BY <1>1, <1>6 DEF FInv, Core, AtHead, Covered, StartPcs, StopPcs
  <2> QED
    BY <1>8, <2>1, <2>2, Zenon DEF MainPlan
<1>10. MainStarted'
  BY <1>3, <1>4, <1>6, <1>8, CloseStarted
<1>11. QueueEnds'
  <2>1. ~(plan["main"] # <<>> /\ Closes(plan["main"]))
    BY <1>2
  <2> QED
    BY <1>1, <1>6, <2>1, QueueStaysOpen
<1>12. \A s \in Streams : stream'[s].state = "starting" <=> StartedBy("main", s)'
  BY <1>1, <1>2, <1>6 DEF StartedBy, StartPcs
<1>13. IsFiniteSet(Started') /\ dq'.streams = Cardinality(Started') + Counting("main")'
  BY <1>1, <1>6, <1>7, MainState DEF Counting
<1>14. Core'
  BY <1>5, <1>6, <1>9, <1>10, <1>11, <1>12, <1>13, MainMoves
<1>15. FTypes'
  BY <1>1, <1>4, <1>6, Zenon DEF FInv, FTypes
<1> QED
  BY <1>14, <1>15 DEF FInv

(* The commit is the last of a plan.                                          *)
LEMMA LastOfAdd ==
    ASSUME NEW p \in Seq(Ops), p # <<>>, NEW d, AddsTo(p, d), Head(p).op \notin {"start", "stop"}
    PROVE  Head(p) = Op("commit", d) /\ StopsIn(p) = {}
<1>1. Head(p) = p[1] /\ p[1].op \notin {"start", "stop"}
  BY RestOfPlan
<1>2. Len(p) \in Nat /\ Len(p) >= 1
  BY RestOfPlan
<1>3. 1 \notin 1 .. Len(p) - 1
  BY <1>1 DEF AddsTo, Op
<1>4. Len(p) = 1
  BY <1>2, <1>3, NotTheLast, Zenon
<1>5. p[1] = Op("commit", d)
  BY <1>4, Zenon DEF AddsTo
<1>6. StopsIn(p) = {}
  BY <1>1, <1>4 DEF StopsIn
<1> QED
  BY <1>1, <1>5, <1>6

LEMMA CommitPreserves ==
    ASSUME FInv, Commit
    PROVE  FInv'
<1> DEFINE p == plan["main"]
<1>1. /\ pc["main"] = "next" /\ p # <<>> /\ Head(p).op = "commit"
      /\ trie' = (trie \ Below(Subject("main"))) \union {Subject("main")}
      /\ asked' = asked \union {Subject("main")}
      /\ pc' = [pc EXCEPT !["main"] = "idle"] /\ plan' = [plan EXCEPT !["main"] = <<>>]
      /\ UNCHANGED <<stream, dq, cb, history>>
  BY Zenon DEF Commit, Doing, Goto
<1>2. /\ pc["watcher"] \in WaitingPcs /\ pc \in [main : MainPcs, watcher : WatcherPcs]
      /\ p \in Seq(Ops)
  BY <1>1, MainWorks, Zenon
<1>3. ~Closes(p)
  BY <1>1, <1>2, RestOfClose
<1>4. PICK d \in Dirs : AddsTo(p, d)
  BY <1>1, <1>3, Zenon DEF FInv, Core, MainPlan
<1>5. Subject("main") = d /\ StopsIn(p) = {}
  BY <1>1, <1>2, <1>4, LastOfAdd DEF Subject, Op
<1>6. Started = {Source, Sync} \union (trie \ Below(d)) \union {d}
  <2>1. ToStop = {}
    BY <1>1, <1>5 DEF ToStop, StopPcs
  <2>2. Started = {Source, Sync} \union (trie \ Below(d)) \union {d} \union ToStop
    BY <1>1, <1>4 DEF FInv, Core, MainStarted, Adds
  <2> QED
    BY <2>1, <2>2
<1>7. /\ pc'["main"] = "idle" /\ pc'["watcher"] = pc["watcher"]
      /\ pc' \in [main : MainPcs, watcher : WatcherPcs]
  BY <1>1, <1>2 DEF MainPcs, AtRest
<1>8. plan' \in [main : Seq(Ops), watcher : Seq(Ops)] /\ plan'["main"] = <<>>
  BY <1>1, NothingLeft, Zenon DEF FInv, FTypes
<1>9. Started' = Started
  BY <1>1, Zenon DEF Started
<1>10. /\ trie' = (trie \ Below(d)) \union {d} /\ asked' = asked \union {d}
       /\ trie' \subseteq Dirs /\ asked' \subseteq Dirs /\ trie \subseteq Dirs /\ asked \subseteq Dirs
  BY <1>1, <1>5 DEF FInv, FTypes
<1>11. Covered'
  <2> SUFFICES ASSUME NEW e \in asked' PROVE \E l \in trie' : Contains(l, e)
    BY Zenon DEF Covered
  <2>1. CASE e = d
    BY <1>10, <2>1, ContainsRefl, FseventsAssumption
  <2>2. CASE e # d
    <3>1. PICK l \in trie : Contains(l, e)
      BY <1>10, <2>2 DEF FInv, Core, Covered
    <3>2. CASE l \in Below(d)
      <4>1. Contains(d, l)
        BY <3>2 DEF Below
      <4>2. d \in Seq(STRING) /\ l \in Seq(STRING) /\ e \in Seq(STRING)
        BY <1>10, FseventsAssumption
      <4>3. Contains(d, e)
        BY <3>1, <4>1, <4>2, ContainsTrans, Zenon
      <4> QED
        BY <1>10, <4>3
    <3>3. CASE l \notin Below(d)
      BY <1>10, <3>1, <3>3
    <3> QED
      BY <3>2, <3>3
  <2> QED
    BY <2>1, <2>2
<1>12. MainPlan' /\ AtHead("main")'
  BY <1>7, <1>8 DEF MainPlan, AtHead, AtRest, StartPcs, StopPcs, Distinct
<1>13. MainStarted'
  <2>1. Started' = {Source, Sync} \union trie'
    BY <1>6, <1>9, <1>10
  <2> QED
    BY <1>7, <1>8, <2>1 DEF MainStarted, Adds
<1>14. QueueEnds'
  BY <1>1, <1>3, <1>7, QueueStaysOpen
<1>15. \A s \in Streams : stream'[s].state = "starting" <=> StartedBy("main", s)'
  <2>1. \A x : ~StartedBy("main", x)' /\ ~StartedBy("main", x)
    BY <1>1, <1>7 DEF StartedBy, StartPcs
  <2> QED
    BY <1>1, <2>1, MainState
<1>16. IsFiniteSet(Started') /\ dq'.streams = Cardinality(Started') + Counting("main")'
  BY <1>1, <1>7, <1>9, MainState DEF Counting
<1>17. Core'
  BY <1>2, <1>7, <1>11, <1>12, <1>13, <1>14, <1>15, <1>16, MainMoves
<1>18. FTypes'
  BY <1>1, <1>7, <1>8, <1>10, Zenon DEF FInv, FTypes
<1> QED
  BY <1>17, <1>18 DEF FInv

LEMMA DownPreserves ==
    ASSUME FInv, Down
    PROVE  FInv'
<1> DEFINE p == plan["main"]
<1>1. /\ pc["main"] = "next" /\ p # <<>> /\ Head(p).op = "down"
      /\ pc' = [pc EXCEPT !["main"] = "down"] /\ plan' = [plan EXCEPT !["main"] = <<>>]
      /\ UNCHANGED <<stream, dq, cb, trie, asked, history>>
  BY Zenon DEF Down, Doing, Goto
<1>2. /\ pc["watcher"] \in WaitingPcs /\ pc \in [main : MainPcs, watcher : WatcherPcs]
      /\ p \in Seq(Ops)
  BY <1>1, MainWorks, Zenon
<1>3. Closes(p)
  <2>1. ASSUME NEW d \in Dirs PROVE ~AddsTo(p, d)
    BY <1>1, <1>2, LastOfAdd DEF Op
  <2> QED
    BY <1>1, <2>1, Zenon DEF FInv, Core, MainPlan
<1>4. Started = {}
  <2>1. StopsIn(p) = {}
    BY <1>1, <1>2, <1>3, RestOfClose
  <2>2. ToStop = {}
    BY <1>1, <2>1 DEF ToStop, StopPcs
  <2> QED
    BY <1>1, <1>3, <2>2, Zenon DEF FInv, Core, MainStarted
<1>5. /\ pc'["main"] = "down" /\ pc'["watcher"] = pc["watcher"]
      /\ pc' \in [main : MainPcs, watcher : WatcherPcs]
  BY <1>1, <1>2 DEF MainPcs, AtRest
<1>6. plan' \in [main : Seq(Ops), watcher : Seq(Ops)] /\ plan'["main"] = <<>>
  BY <1>1, NothingLeft, Zenon DEF FInv, FTypes
<1>7. Started' = Started
  BY <1>1, Zenon DEF Started
<1>8. MainPlan' /\ AtHead("main")' /\ Covered'
  BY <1>1, <1>5, <1>6 DEF MainPlan, AtHead, AtRest, StartPcs, StopPcs, Distinct, FInv, Core, Covered
<1>9. MainStarted'
  BY <1>4, <1>5, <1>6, <1>7 DEF MainStarted, Adds
<1>10. QueueEnds'
  BY <1>1, <1>5 DEF FInv, Core, QueueEnds
<1>11. \A s \in Streams : stream'[s].state = "starting" <=> StartedBy("main", s)'
  <2>1. \A x : ~StartedBy("main", x)' /\ ~StartedBy("main", x)
    BY <1>1, <1>5 DEF StartedBy, StartPcs
  <2> QED
    BY <1>1, <2>1, MainState
<1>12. IsFiniteSet(Started') /\ dq'.streams = Cardinality(Started') + Counting("main")'
  BY <1>1, <1>5, <1>7, MainState DEF Counting
<1>13. Core'
  BY <1>2, <1>5, <1>8, <1>9, <1>10, <1>11, <1>12, MainMoves
<1>14. FTypes'
  BY <1>1, <1>5, <1>6, Zenon DEF FInv, FTypes
<1> QED
  BY <1>13, <1>14 DEF FInv

-----------------------------------------------------------------------------
(* The watcher thread creates the watcher, while the main thread waits.       *)

LEMMA CreatingState ==
    ASSUME FInv, pc["watcher"] \in CreatingPcs
    PROVE  /\ pc["main"] = "create" /\ plan["main"] = <<>> /\ trie = {} /\ asked = {}
           /\ dq.alive /\ dq.state # "stopped"
           /\ pc \in [main : MainPcs, watcher : WatcherPcs]
           /\ plan \in [main : Seq(Ops), watcher : Seq(Ops)]
           /\ \A s \in Streams : stream[s].state = "starting" <=> StartedBy("watcher", s)
           /\ IsFiniteSet(Started) /\ Cardinality(Started) \in Nat
           /\ dq.streams = Cardinality(Started) + Counting("watcher")
<1>1. pc["main"] = "create" /\ trie = {} /\ asked = {}
  BY Zenon DEF FInv, Core, WatcherPlan, Creation
<1>2. /\ plan \in [main : Seq(Ops), watcher : Seq(Ops)]
      /\ pc \in [main : MainPcs, watcher : WatcherPcs]
  BY Zenon DEF FInv, FTypes
<1>3. plan["main"] = <<>>
  BY <1>1 DEF FInv, Core, MainPlan, AtRest
<1>4. dq.alive /\ dq.state # "stopped"
  BY <1>1, Zenon DEF FInv, Core, QueueEnds
<1>5. Counting("main") = 0 /\ \A s : ~StartedBy("main", s)
  BY <1>1 DEF Counting, StartedBy, StartPcs
<1>6. \A s \in Streams : stream[s].state = "starting" <=> StartedBy("watcher", s)
  BY <1>5, Zenon DEF FInv, Core, StartingStreams
<1>7. IsFiniteSet(Started) /\ Cardinality(Started) \in Nat
  BY FS_CardinalityType DEF FInv, Core, Counted
<1>8. dq.streams = Cardinality(Started) + Counting("watcher")
  <2>1. Counting("watcher") \in {0, 1}
    BY DEF Counting
  <2> QED
    BY <1>5, <1>7, <2>1 DEF FInv, Core, Counted
<1> QED
  BY <1>1, <1>2, <1>3, <1>4, <1>6, <1>7, <1>8

LEMMA CreatingMoves ==
    ASSUME pc'["main"] = "create", plan'["main"] = <<>>, trie' = {}, asked' = {},
           pc'["watcher"] \in CreatingPcs, Creation', AtHead("watcher")',
           dq'.alive, dq'.state # "stopped",
           \A s \in Streams : stream'[s].state = "starting" <=> StartedBy("watcher", s)',
           IsFiniteSet(Started'), dq'.streams = Cardinality(Started') + Counting("watcher")'
    PROVE  Core'
<1>1. pc'["main"] \in AtRest /\ pc'["main"] \notin StartPcs \union StopPcs
  BY DEF AtRest, StartPcs, StopPcs
<1>2. pc'["watcher"] # "off" /\ pc'["watcher"] \notin EndPcs
  BY DEF CreatingPcs, StartPcs, StopPcs, EndPcs
<1>3. MainPlan' /\ AtHead("main")' /\ Covered'
  BY <1>1 DEF MainPlan, AtHead, Covered, Distinct
<1>4. MainStarted'
  BY DEF MainStarted, Adds
<1>5. WatcherPlan'
  BY <1>2 DEF WatcherPlan, Creation
<1>6. QueueEnds'
  BY <1>2 DEF QueueEnds
<1>7. Counting("main")' = 0 /\ \A s : ~StartedBy("main", s)'
  BY DEF Counting, StartedBy, StartPcs
<1>8. StartingStreams'
  BY <1>7, Zenon DEF StartingStreams
<1>9. Counted'
  <2>1. Cardinality(Started') \in Nat /\ Counting("watcher")' \in {0, 1}
    BY FS_CardinalityType, Zenon DEF Counting
  <2> QED
    BY <1>7, <2>1 DEF Counted
<1> QED
  BY <1>3, <1>4, <1>5, <1>6, <1>8, <1>9, Zenon DEF Core

LEMMA TwoStreams ==
    Source \in Streams /\ Sync \in Streams /\ Source # Sync
  BY DEF Streams, Source, Sync

LEMMA CreationStarts ==
    ASSUME FInv, pc["watcher"] \in CreatingPcs, plan["watcher"] # <<>>,
           Head(plan["watcher"]).op = "start"
    PROVE  \/ /\ plan["watcher"] = <<Op("start", Source), Op("start", Sync)>> /\ Started = {}
              /\ Subject("watcher") = Source /\ Tail(plan["watcher"]) = <<Op("start", Sync)>>
           \/ /\ plan["watcher"] = <<Op("start", Sync)>> /\ Started = {Source}
              /\ Subject("watcher") = Sync /\ Tail(plan["watcher"]) = <<>>
<1>1. Creation
  BY CreatingState, Zenon DEF FInv, Core, WatcherPlan, Creation
<1>2. CASE plan["watcher"] = <<Op("start", Source), Op("start", Sync)>> /\ Started = {}
  BY <1>2 DEF Op, Subject
<1>3. CASE plan["watcher"] = <<Op("start", Sync)>> /\ Started = {Source}
  BY <1>3 DEF Op, Subject
<1>4. CASE /\ plan["watcher"] = <<Op("stop", Source), Op("error", Sync)>>
           /\ Started = IF pc["watcher"] \in StopPcs THEN {} ELSE {Source}
  BY <1>4 DEF Op, Subject
<1>5. CASE plan["watcher"] = <<Op("error", Sync)>>
  BY <1>5 DEF Op
<1> QED
  BY <1>1, <1>2, <1>3, <1>4, <1>5, Zenon DEF Creation

LEMMA CreationStops ==
    ASSUME FInv, pc["watcher"] \in CreatingPcs, plan["watcher"] # <<>>,
           Head(plan["watcher"]).op = "stop"
    PROVE  /\ plan["watcher"] = <<Op("stop", Source), Op("error", Sync)>>
           /\ Started = IF pc["watcher"] \in StopPcs THEN {} ELSE {Source}
           /\ Subject("watcher") = Source /\ Tail(plan["watcher"]) = <<Op("error", Sync)>>
<1>1. Creation
  BY CreatingState, Zenon DEF FInv, Core, WatcherPlan, Creation
<1>2. CASE plan["watcher"] = <<Op("start", Source), Op("start", Sync)>> /\ Started = {}
  BY <1>2 DEF Op, Subject
<1>3. CASE plan["watcher"] = <<Op("start", Sync)>> /\ Started = {Source}
  BY <1>3 DEF Op, Subject
<1>4. CASE /\ plan["watcher"] = <<Op("stop", Source), Op("error", Sync)>>
           /\ Started = IF pc["watcher"] \in StopPcs THEN {} ELSE {Source}
  BY <1>4 DEF Op, Subject
<1>5. CASE plan["watcher"] = <<Op("error", Sync)>>
  BY <1>5 DEF Op
<1> QED
  BY <1>1, <1>2, <1>3, <1>4, <1>5, Zenon DEF Creation

(* The thread starts the stream of its subject.                               *)
LEMMA StartWatcher ==
    ASSUME FInv, Start("watcher")
    PROVE  FInv'
<1> DEFINE s == Subject("watcher")
           r == [stream[s] EXCEPT !.dq = TRUE, !.state = "starting"]
<1>1. /\ pc["watcher"] = "next" /\ plan["watcher"] # <<>> /\ Head(plan["watcher"]).op = "start"
      /\ stream' = [stream EXCEPT ![s].dq = TRUE, ![s].state = "starting"]
      /\ pc' = [pc EXCEPT !["watcher"] = "start_lock"]
      /\ UNCHANGED <<dq, plan, cb, trie, asked, history>>
  BY Zenon DEF Start, Doing, Goto
<1>2. pc["watcher"] \in CreatingPcs /\ pc["watcher"] \notin StopPcs
  BY <1>1 DEF CreatingPcs, StopPcs
<1>3. s \in Streams /\ s \notin Started
  BY <1>1, <1>2, CreationStarts, TwoStreams
<1>4. /\ pc'["watcher"] = "start_lock" /\ pc'["main"] = pc["main"]
      /\ pc' \in [main : MainPcs, watcher : WatcherPcs]
  BY <1>1, <1>2, CreatingState DEF WatcherPcs, CreatingPcs, StartPcs
<1>5. stream \in [Streams -> StreamRecords] /\ stream[s] \in StreamRecords
  BY <1>3 DEF FInv, FTypes
<1>6. stream' = [stream EXCEPT ![s] = r]
  BY <1>1, <1>3, <1>5 DEF StreamRecords
<1>7. r \in StreamRecords /\ r.state = "starting"
  BY <1>5 DEF StreamRecords
<1> HIDE DEF r
<1>8. /\ stream' \in [Streams -> StreamRecords] /\ stream'[s].state = "starting"
      /\ \A x \in Streams \ {s} : stream'[x] = stream[x]
  BY <1>3, <1>5, <1>6, <1>7, StreamRecord, Zenon
<1>9. Started' = Started
  <2>1. Started' = Started \ {s}
    BY <1>3, <1>8, OneState
  <2> QED
    BY <2>1, <1>3
<1>10. Creation'
  BY <1>1, <1>2, <1>9, CreationStarts, Zenon DEF Creation
<1>11. AtHead("watcher")' /\ pc'["watcher"] \in CreatingPcs
  BY <1>1, <1>4 DEF AtHead, StopPcs, CreatingPcs, StartPcs
<1>12. \A x \in Streams : stream'[x].state = "starting" <=> StartedBy("watcher", x)'
  <2>1. \A x : (StartedBy("watcher", x)' <=> x = s) /\ ~StartedBy("watcher", x)
    BY <1>1, <1>4 DEF StartedBy, StartPcs, Subject
  <2> QED
    BY <1>2, <1>3, <1>8, <2>1, CreatingState
<1>13. IsFiniteSet(Started') /\ dq'.streams = Cardinality(Started') + Counting("watcher")'
  BY <1>1, <1>2, <1>4, <1>9, CreatingState DEF Counting
<1>14. Core'
  BY <1>1, <1>2, <1>4, <1>10, <1>11, <1>12, <1>13, CreatingState, CreatingMoves
<1>15. FTypes'
  BY <1>1, <1>4, <1>8, Zenon DEF FInv, FTypes
<1> QED
  BY <1>14, <1>15 DEF FInv

LEMMA StartLockWatcher ==
    ASSUME FInv, StartLock("watcher")
    PROVE  FInv'
<1>1. /\ pc["watcher"] = "start_lock" /\ plan["watcher"] # <<>>
      /\ Head(plan["watcher"]).op = "start"
      /\ dq' = [dq EXCEPT !.streams = dq.streams + 1]
      /\ pc' = [pc EXCEPT !["watcher"] = "start_stream"]
      /\ UNCHANGED <<stream, plan, cb, trie, asked, history>>
  BY Zenon DEF StartLock, Doing, Goto
<1>2. pc["watcher"] \in CreatingPcs /\ pc["watcher"] \notin StopPcs
  BY <1>1 DEF CreatingPcs, StopPcs, StartPcs
<1>3. /\ pc'["watcher"] = "start_stream" /\ pc'["main"] = pc["main"]
      /\ pc' \in [main : MainPcs, watcher : WatcherPcs]
  BY <1>1, <1>2, CreatingState DEF WatcherPcs, CreatingPcs, StartPcs
<1>4. Started' = Started
  BY <1>1, Zenon DEF Started
<1>5. /\ dq' \in QueueRecords /\ dq'.streams = dq.streams + 1
      /\ dq'.exn = dq.exn /\ dq'.state = dq.state /\ dq'.alive = dq.alive
  <2>1. dq \in QueueRecords
    BY Zenon DEF FInv, FTypes
  <2>2. dq.streams + 1 \in Int
    BY <2>1 DEF QueueRecords
  <2> QED
    BY <1>1, <2>1, <2>2, QueueCount
<1>6. Creation'
  BY <1>1, <1>2, <1>4, CreationStarts, Zenon DEF Creation
<1>7. AtHead("watcher")' /\ pc'["watcher"] \in CreatingPcs
  BY <1>1, <1>3 DEF AtHead, StopPcs, CreatingPcs, StartPcs
<1>8. \A x \in Streams : stream'[x].state = "starting" <=> StartedBy("watcher", x)'
  <2>1. \A x : StartedBy("watcher", x)' <=> StartedBy("watcher", x)
    BY <1>1, <1>3 DEF StartedBy, StartPcs
  <2> QED
    BY <1>1, <1>2, <2>1, CreatingState
<1>9. IsFiniteSet(Started') /\ dq'.streams = Cardinality(Started') + Counting("watcher")'
  BY <1>1, <1>2, <1>3, <1>4, <1>5, CreatingState DEF Counting
<1>10. Core'
  BY <1>1, <1>2, <1>3, <1>5, <1>6, <1>7, <1>8, <1>9, CreatingState, CreatingMoves
<1>11. FTypes'
  BY <1>1, <1>3, <1>5, Zenon DEF FInv, FTypes
<1> QED
  BY <1>10, <1>11 DEF FInv

LEMMA StartStreamWatcher ==
    ASSUME FInv, StartStream("watcher")
    PROVE  FInv'
<1> DEFINE s == Subject("watcher")
           r == [stream[s] EXCEPT !.state = "started"]
<1>1. /\ pc["watcher"] = "start_stream" /\ plan["watcher"] # <<>>
      /\ Head(plan["watcher"]).op = "start"
      /\ stream' = [stream EXCEPT ![s].state = "started"]
      /\ pc' = [pc EXCEPT !["watcher"] = "next"]
      /\ plan' = [plan EXCEPT !["watcher"] = Tail(plan["watcher"])]
      /\ UNCHANGED <<dq, cb, trie, asked, history>>
  BY Zenon DEF StartStream, Doing, StepDone, Goto
<1>2. pc["watcher"] \in CreatingPcs /\ pc["watcher"] \notin StopPcs
  BY <1>1 DEF CreatingPcs, StopPcs, StartPcs
<1>3. s \in Streams /\ s \notin Started
  BY <1>1, <1>2, CreationStarts, TwoStreams
<1>4. /\ pc'["watcher"] = "next" /\ pc'["main"] = pc["main"]
      /\ pc' \in [main : MainPcs, watcher : WatcherPcs]
  BY <1>1, <1>2, CreatingState DEF WatcherPcs, CreatingPcs
<1>5. stream \in [Streams -> StreamRecords] /\ stream[s] \in StreamRecords
  BY <1>3 DEF FInv, FTypes
<1>6. stream' = [stream EXCEPT ![s] = r]
  BY <1>1, <1>3, <1>5 DEF StreamRecords
<1>7. r \in StreamRecords /\ r.state = "started"
  BY <1>5 DEF StreamRecords
<1> HIDE DEF r
<1>8. /\ stream' \in [Streams -> StreamRecords] /\ stream'[s].state = "started"
      /\ \A x \in Streams \ {s} : stream'[x] = stream[x]
  BY <1>3, <1>5, <1>6, <1>7, StreamRecord, Zenon
<1>9. Started' = Started \union {s}
  BY <1>3, <1>8, OneState
<1>10. /\ plan' \in [main : Seq(Ops), watcher : Seq(Ops)]
       /\ plan'["watcher"] = Tail(plan["watcher"]) /\ plan'["main"] = plan["main"]
  <2>1. plan \in [main : Seq(Ops), watcher : Seq(Ops)] /\ Tail(plan["watcher"]) \in Seq(Ops)
    BY <1>1, <1>2, CreatingState, RestOfPlan
  <2> QED
    BY <1>1, <2>1
<1>11. Creation'
  <2>1. CASE /\ Started = {} /\ s = Source /\ Tail(plan["watcher"]) = <<Op("start", Sync)>>
    BY <1>9, <1>10, <2>1 DEF Creation
  <2>2. CASE /\ Started = {Source} /\ s = Sync /\ Tail(plan["watcher"]) = <<>>
    BY <1>9, <1>10, <2>2 DEF Creation
  <2> QED
    BY <1>1, <1>2, <2>1, <2>2, CreationStarts, Zenon
<1>12. AtHead("watcher")' /\ pc'["watcher"] \in CreatingPcs
  BY <1>4 DEF AtHead, StopPcs, CreatingPcs, StartPcs
<1>13. \A x \in Streams : stream'[x].state = "starting" <=> StartedBy("watcher", x)'
  <2>1. \A x : ~StartedBy("watcher", x)' /\ (StartedBy("watcher", x) <=> x = s)
    BY <1>1, <1>4 DEF StartedBy, StartPcs, Subject
  <2> QED
    BY <1>2, <1>3, <1>8, <2>1, CreatingState
<1>14. IsFiniteSet(Started') /\ dq'.streams = Cardinality(Started') + Counting("watcher")'
  <2>1. IsFiniteSet(Started') /\ Cardinality(Started') = Cardinality(Started) + 1
    BY <1>2, <1>3, <1>9, CreatingState, FS_AddElement
  <2> QED
    BY <1>1, <1>2, <1>4, <2>1, CreatingState DEF Counting
<1>15. Core'
  BY <1>1, <1>2, <1>4, <1>10, <1>11, <1>12, <1>13, <1>14, CreatingState, CreatingMoves
<1>16. FTypes'
  BY <1>1, <1>4, <1>8, <1>10, Zenon DEF FInv, FTypes
<1> QED
  BY <1>15, <1>16 DEF FInv

LEMMA StartFailsWatcher ==
    ASSUME FInv, StartFails("watcher")
    PROVE  FInv'
<1> DEFINE s == Subject("watcher")
           p == IF s = Sync THEN <<Op("stop", Source), Op("error", Sync)>> ELSE <<Op("error", Sync)>>
           r == [stream[s] EXCEPT !.state = "idle", !.dq = FALSE]
           at == [pc EXCEPT !["watcher"] = "next"]
<1>1. /\ pc["watcher"] = "start_stream" /\ plan["watcher"] # <<>>
      /\ Head(plan["watcher"]).op = "start"
      /\ stream' = [stream EXCEPT ![s].state = "idle", ![s].dq = FALSE]
      /\ dq' = [dq EXCEPT !.streams = dq.streams - 1] /\ pc' = Woken(at)
      /\ plan' = [plan EXCEPT !["watcher"] = p]
      /\ UNCHANGED <<cb, trie, asked, history>>
  BY DEF StartFails, Doing, Uncounted
<1>2. pc["watcher"] \in CreatingPcs /\ pc["watcher"] \notin StopPcs
  BY <1>1 DEF CreatingPcs, StopPcs, StartPcs
<1>3. s \in Streams /\ s \notin Started
  BY <1>1, <1>2, CreationStarts, TwoStreams
<1>4. /\ pc'["watcher"] = "next" /\ pc'["main"] = pc["main"]
      /\ pc' \in [main : MainPcs, watcher : WatcherPcs]
  <2>1. /\ at \in [main : MainPcs, watcher : WatcherPcs] /\ at["watcher"] = "next"
        /\ at["main"] = pc["main"]
    BY <1>2, CreatingState DEF WatcherPcs, CreatingPcs
  <2> QED
    BY <1>1, <2>1, Wakes
<1>5. stream \in [Streams -> StreamRecords] /\ stream[s] \in StreamRecords
  BY <1>3 DEF FInv, FTypes
<1>6. stream' = [stream EXCEPT ![s] = r]
  BY <1>1, <1>3, <1>5 DEF StreamRecords
<1>7. r \in StreamRecords /\ r.state = "idle"
  BY <1>5 DEF StreamRecords
<1> HIDE DEF r
<1>8. /\ stream' \in [Streams -> StreamRecords] /\ stream'[s].state = "idle"
      /\ \A x \in Streams \ {s} : stream'[x] = stream[x]
  BY <1>3, <1>5, <1>6, <1>7, StreamRecord, Zenon
<1>9. Started' = Started
  <2>1. Started' = Started \ {s}
    BY <1>3, <1>8, OneState
  <2> QED
    BY <2>1, <1>3
<1>10. /\ plan' \in [main : Seq(Ops), watcher : Seq(Ops)]
       /\ plan'["watcher"] = p /\ plan'["main"] = plan["main"]
  <2>1. p \in Seq(Ops)
    <3>1. Op("stop", Source) \in Ops /\ Op("error", Sync) \in Ops
      BY TwoStreams DEF Op, Ops
    <3>2. \A a, b \in Ops : <<a, b>> \in Seq(Ops) /\ <<b>> \in Seq(Ops)
      OBVIOUS
    <3> QED
      BY <3>1, <3>2, Zenon
  <2>2. plan \in [main : Seq(Ops), watcher : Seq(Ops)]
    BY <1>2, CreatingState, Zenon
  <2> HIDE DEF p
  <2> QED
    BY <1>1, <2>1, <2>2, Zenon
<1>11. Creation'
  <2>0. pc'["watcher"] \notin StopPcs
    BY <1>4 DEF StopPcs
  <2>1. CASE Started = {} /\ s = Source
    BY <1>9, <1>10, <2>1, TwoStreams, Zenon DEF Creation
  <2>2. CASE Started = {Source} /\ s = Sync
    BY <1>9, <1>10, <2>0, <2>2, Zenon DEF Creation
  <2> QED
    BY <1>1, <1>2, <2>1, <2>2, CreationStarts, Zenon
<1>12. AtHead("watcher")' /\ pc'["watcher"] \in CreatingPcs
  BY <1>4 DEF AtHead, StopPcs, CreatingPcs, StartPcs
<1>13. \A x \in Streams : stream'[x].state = "starting" <=> StartedBy("watcher", x)'
  <2>1. \A x : ~StartedBy("watcher", x)' /\ (StartedBy("watcher", x) <=> x = s)
    BY <1>1, <1>4 DEF StartedBy, StartPcs, Subject
  <2> QED
    BY <1>2, <1>3, <1>8, <2>1, CreatingState
<1>14. /\ dq' \in QueueRecords /\ dq'.streams = Cardinality(Started)
       /\ dq'.state = dq.state /\ dq'.alive = dq.alive
  <2>1. dq \in QueueRecords
    BY Zenon DEF FInv, FTypes
  <2>2. dq.streams - 1 = Cardinality(Started) /\ dq.streams - 1 \in Int
    BY <1>1, <1>2, CreatingState DEF Counting
  <2> QED
    BY <1>1, <2>1, <2>2, QueueCount
<1>15. IsFiniteSet(Started') /\ dq'.streams = Cardinality(Started') + Counting("watcher")'
  BY <1>2, <1>4, <1>9, <1>14, CreatingState DEF Counting
<1>16. Core'
  BY <1>1, <1>2, <1>4, <1>10, <1>11, <1>12, <1>13, <1>14, <1>15, CreatingState, CreatingMoves
<1>17. FTypes'
  BY <1>1, <1>4, <1>8, <1>10, <1>14, Zenon DEF FInv, FTypes
<1> QED
  BY <1>16, <1>17 DEF FInv

LEMMA StopWatcher ==
    ASSUME FInv, Stop("watcher")
    PROVE  FInv'
<1> DEFINE s == Subject("watcher")
           r == [stream[s] EXCEPT !.state = "stopped", !.held = <<>>]
<1>1. /\ pc["watcher"] = "next" /\ plan["watcher"] # <<>> /\ Head(plan["watcher"]).op = "stop"
      /\ stream' = [stream EXCEPT ![s].state = "stopped", ![s].held = <<>>]
      /\ pc' = [pc EXCEPT !["watcher"] = "stop_lock"]
      /\ history' = [history EXCEPT !.of[s] = <<>>]
      /\ UNCHANGED <<dq, plan, cb, trie, asked>>
  BY Zenon DEF Stop, Doing, Goto
<1>2. pc["watcher"] \in CreatingPcs /\ pc["watcher"] \notin StopPcs
  BY <1>1 DEF CreatingPcs, StopPcs
<1>3. /\ plan["watcher"] = <<Op("stop", Source), Op("error", Sync)>>
      /\ Started = {Source} /\ s = Source /\ s \in Streams /\ s \in Started
  BY <1>1, <1>2, CreationStops, TwoStreams
<1>4. /\ pc'["watcher"] = "stop_lock" /\ pc'["main"] = pc["main"]
      /\ pc' \in [main : MainPcs, watcher : WatcherPcs]
  BY <1>1, <1>2, CreatingState DEF WatcherPcs, CreatingPcs, StopPcs
<1>5. stream \in [Streams -> StreamRecords] /\ stream[s] \in StreamRecords
  BY <1>3 DEF FInv, FTypes
<1>6. stream' = [stream EXCEPT ![s] = r]
  BY <1>1, <1>3, <1>5 DEF StreamRecords
<1>7. r \in StreamRecords /\ r.state = "stopped"
  <2>1. <<>> \in Seq(FsEvents)
    OBVIOUS
  <2> QED
    BY <1>5, <2>1, Zenon DEF StreamRecords
<1> HIDE DEF r
<1>8. /\ stream' \in [Streams -> StreamRecords] /\ stream'[s].state = "stopped"
      /\ \A x \in Streams \ {s} : stream'[x] = stream[x]
  BY <1>3, <1>5, <1>6, <1>7, StreamRecord, Zenon
<1>9. Started' = Started \ {s}
  BY <1>3, <1>8, OneState
<1>10. Creation' /\ AtHead("watcher")' /\ pc'["watcher"] \in CreatingPcs
  <2>1. Started' = {} /\ pc'["watcher"] \in StopPcs
    BY <1>3, <1>4, <1>9 DEF StopPcs
  <2>2. Creation'
    BY <1>1, <1>3, <2>1, Zenon DEF Creation
  <2> QED
    BY <1>1, <1>4, <2>2 DEF AtHead, StopPcs, StartPcs, CreatingPcs
<1>11. \A x \in Streams : stream'[x].state = "starting" <=> StartedBy("watcher", x)'
  <2>1. \A x : ~StartedBy("watcher", x)' /\ ~StartedBy("watcher", x)
    BY <1>1, <1>4 DEF StartedBy, StartPcs
  <2> QED
    BY <1>2, <1>3, <1>8, <2>1, CreatingState
<1>12. IsFiniteSet(Started') /\ dq'.streams = Cardinality(Started') + Counting("watcher")'
  <2>1. IsFiniteSet(Started') /\ Cardinality(Started') = Cardinality(Started) - 1
    BY <1>2, <1>3, <1>9, CreatingState, FS_RemoveElement
  <2> QED
    BY <1>1, <1>2, <1>4, <2>1, CreatingState DEF Counting
<1>13. Core'
  BY <1>1, <1>2, <1>4, <1>10, <1>11, <1>12, CreatingState, CreatingMoves
<1>14. FTypes'
  <2>1. history' \in Histories
    <3>1. history \in Histories /\ <<>> \in Seq(FsEvents)
      BY DEF FInv, FTypes
    <3> QED
      BY <1>1, <1>3, <3>1, Zenon DEF Histories
  <2> QED
    BY <1>1, <1>4, <1>8, <2>1, Zenon DEF FInv, FTypes
<1> QED
  BY <1>13, <1>14 DEF FInv

LEMMA StopLockWatcher ==
    ASSUME FInv, StopLock("watcher")
    PROVE  FInv'
<1> DEFINE at == [pc EXCEPT !["watcher"] = "stop_end"]
<1>1. /\ pc["watcher"] = "stop_lock" /\ plan["watcher"] # <<>>
      /\ Head(plan["watcher"]).op = "stop"
      /\ dq' = [dq EXCEPT !.streams = dq.streams - 1] /\ pc' = Woken(at)
      /\ UNCHANGED <<stream, plan, cb, trie, asked, history>>
  BY Zenon DEF StopLock, Doing
<1>2. pc["watcher"] \in CreatingPcs /\ pc["watcher"] \in StopPcs
  BY <1>1 DEF CreatingPcs, StopPcs
<1>3. plan["watcher"] = <<Op("stop", Source), Op("error", Sync)>> /\ Started = {}
  BY <1>1, <1>2, CreationStops
<1>4. /\ pc'["watcher"] = "stop_end" /\ pc'["main"] = pc["main"]
      /\ pc' \in [main : MainPcs, watcher : WatcherPcs]
  <2>1. /\ at \in [main : MainPcs, watcher : WatcherPcs] /\ at["watcher"] = "stop_end"
        /\ at["main"] = pc["main"]
    BY <1>2, CreatingState DEF WatcherPcs, CreatingPcs, StopPcs
  <2> QED
    BY <1>1, <2>1, Wakes
<1>5. Started' = Started
  BY <1>1, Zenon DEF Started
<1>6. Creation' /\ AtHead("watcher")' /\ pc'["watcher"] \in CreatingPcs
  <2>1. Started' = {} /\ pc'["watcher"] \in StopPcs
    BY <1>3, <1>4, <1>5 DEF StopPcs
  <2>2. Creation'
    BY <1>1, <1>3, <2>1, Zenon DEF Creation
  <2> QED
    BY <1>1, <1>4, <2>2 DEF AtHead, StopPcs, StartPcs, CreatingPcs
<1>7. \A x \in Streams : stream'[x].state = "starting" <=> StartedBy("watcher", x)'
  <2>1. \A x : ~StartedBy("watcher", x)' /\ ~StartedBy("watcher", x)
    BY <1>1, <1>4 DEF StartedBy, StartPcs
  <2> QED
    BY <1>1, <1>2, <2>1, CreatingState
<1>8. /\ dq' \in QueueRecords /\ dq'.streams = Cardinality(Started)
      /\ dq'.state = dq.state /\ dq'.alive = dq.alive
  <2>1. dq \in QueueRecords
    BY Zenon DEF FInv, FTypes
  <2>2. dq.streams - 1 = Cardinality(Started) /\ dq.streams - 1 \in Int
    BY <1>1, <1>2, CreatingState DEF Counting
  <2> QED
    BY <1>1, <2>1, <2>2, QueueCount
<1>9. IsFiniteSet(Started') /\ dq'.streams = Cardinality(Started') + Counting("watcher")'
  BY <1>2, <1>4, <1>5, <1>8, CreatingState DEF Counting
<1>10. Core'
  BY <1>1, <1>2, <1>4, <1>6, <1>7, <1>8, <1>9, CreatingState, CreatingMoves
<1>11. FTypes'
  BY <1>1, <1>4, <1>8, Zenon DEF FInv, FTypes
<1> QED
  BY <1>10, <1>11 DEF FInv

LEMMA StopEndWatcher ==
    ASSUME FInv, StopEnd("watcher")
    PROVE  FInv'
<1> DEFINE s == Subject("watcher")
           r == [stream[s] EXCEPT !.dq = FALSE]
<1>1. /\ pc["watcher"] = "stop_end" /\ plan["watcher"] # <<>> /\ Head(plan["watcher"]).op = "stop"
      /\ stream' = [stream EXCEPT ![s].dq = FALSE]
      /\ pc' = [pc EXCEPT !["watcher"] = "next"]
      /\ plan' = [plan EXCEPT !["watcher"] = Tail(plan["watcher"])]
      /\ UNCHANGED <<dq, cb, trie, asked, history>>
  BY Zenon DEF StopEnd, Doing, StepDone, Goto
<1>2. pc["watcher"] \in CreatingPcs /\ pc["watcher"] \in StopPcs
  BY <1>1 DEF CreatingPcs, StopPcs
<1>3. /\ Tail(plan["watcher"]) = <<Op("error", Sync)>> /\ Started = {}
      /\ s \in Streams
  BY <1>1, <1>2, CreationStops, TwoStreams
<1>4. /\ pc'["watcher"] = "next" /\ pc'["main"] = pc["main"]
      /\ pc' \in [main : MainPcs, watcher : WatcherPcs]
  BY <1>1, <1>2, CreatingState DEF WatcherPcs, CreatingPcs
<1>5. stream \in [Streams -> StreamRecords] /\ stream[s] \in StreamRecords
  BY <1>3 DEF FInv, FTypes
<1>6. r \in StreamRecords /\ r.state = stream[s].state
  BY <1>5 DEF StreamRecords
<1>7. /\ stream' \in [Streams -> StreamRecords]
      /\ \A x \in Streams : stream'[x].state = stream[x].state
  <2> HIDE DEF r
  <2>1. stream' = [stream EXCEPT ![s] = r]
    BY <1>1 DEF r
  <2> QED
    BY <1>3, <1>5, <1>6, <2>1, StreamRecord, Zenon
<1>8. Started' = Started
  BY <1>7, SameStates, Zenon
<1>9. /\ plan' \in [main : Seq(Ops), watcher : Seq(Ops)]
      /\ plan'["watcher"] = <<Op("error", Sync)>> /\ plan'["main"] = plan["main"]
  <2>1. plan \in [main : Seq(Ops), watcher : Seq(Ops)] /\ Tail(plan["watcher"]) \in Seq(Ops)
    BY <1>1, <1>2, CreatingState, RestOfPlan
  <2> QED
    BY <1>1, <1>3, <2>1
<1>10. Creation' /\ AtHead("watcher")' /\ pc'["watcher"] \in CreatingPcs
  BY <1>3, <1>4, <1>8, <1>9 DEF Creation, AtHead, StopPcs, StartPcs, CreatingPcs
<1>11. \A x \in Streams : stream'[x].state = "starting" <=> StartedBy("watcher", x)'
  <2>1. \A x : ~StartedBy("watcher", x)' /\ ~StartedBy("watcher", x)
    BY <1>1, <1>4 DEF StartedBy, StartPcs
  <2> QED
    BY <1>2, <1>7, <2>1, CreatingState
<1>12. IsFiniteSet(Started') /\ dq'.streams = Cardinality(Started') + Counting("watcher")'
  BY <1>1, <1>2, <1>4, <1>8, CreatingState DEF Counting
<1>13. Core'
  BY <1>1, <1>2, <1>4, <1>9, <1>10, <1>11, <1>12, CreatingState, CreatingMoves
<1>14. FTypes'
  BY <1>1, <1>4, <1>7, <1>9, Zenon DEF FInv, FTypes
<1> QED
  BY <1>13, <1>14 DEF FInv

LEMMA SignalOkPreserves ==
    ASSUME FInv, SignalOk
    PROVE  FInv'
<1>1. /\ pc["watcher"] = "next" /\ plan["watcher"] = <<>>
      /\ pc' = [main |-> "idle", watcher |-> "check"] /\ dq' = [dq EXCEPT !.state = "running"]
      /\ UNCHANGED <<stream, plan, cb, trie, asked, history>>
  BY Zenon DEF SignalOk
<1>2. pc["watcher"] \in CreatingPcs
  BY <1>1 DEF CreatingPcs
<1>3. /\ plan["main"] = <<>> /\ trie = {} /\ asked = {} /\ dq.alive
      /\ \A s \in Streams : stream[s].state = "starting" <=> StartedBy("watcher", s)
      /\ IsFiniteSet(Started) /\ Cardinality(Started) \in Nat
      /\ dq.streams = Cardinality(Started) + Counting("watcher")
  BY <1>2, CreatingState, Zenon
<1>4. Started = {Source, Sync}
  <2>1. Creation
    BY <1>2, CreatingState, Zenon DEF FInv, Core, WatcherPlan, Creation
  <2>2. \A a, b : <<a, b>> # <<>> /\ <<a>> # <<>>
    OBVIOUS
  <2> QED
    BY <1>1, <2>1, <2>2, Zenon DEF Creation
<1>5. /\ pc'["main"] = "idle" /\ pc'["watcher"] = "check"
      /\ pc' \in [main : MainPcs, watcher : WatcherPcs]
  BY <1>1 DEF MainPcs, AtRest, WatcherPcs, WaitingPcs
<1>6. /\ dq' \in QueueRecords /\ dq'.streams = dq.streams /\ dq'.state = "running" /\ dq'.alive
  BY <1>1, <1>3 DEF FInv, FTypes, QueueRecords
<1>7. Started' = Started
  BY <1>1, Zenon DEF Started
<1>8. MainPlan' /\ AtHead("main")' /\ Covered' /\ QueueEnds'
  BY <1>1, <1>3, <1>5, <1>6
     DEF MainPlan, AtHead, AtRest, StartPcs, StopPcs, Distinct, Covered, QueueEnds, EndPcs
<1>9. MainStarted'
  BY <1>1, <1>3, <1>4, <1>5, <1>7 DEF MainStarted, Adds
<1>10. \A s \in Streams : stream'[s].state = "starting" <=> StartedBy("main", s)'
  <2>1. \A x : ~StartedBy("main", x)' /\ ~StartedBy("watcher", x)
    BY <1>1, <1>5 DEF StartedBy, StartPcs
  <2> QED
    BY <1>1, <1>3, <2>1
<1>11. IsFiniteSet(Started') /\ dq'.streams = Cardinality(Started') + Counting("main")'
  BY <1>1, <1>3, <1>5, <1>6, <1>7 DEF Counting
<1>12. pc'["watcher"] \in WaitingPcs
  BY <1>5 DEF WaitingPcs
<1>13. Core'
  BY <1>5, <1>8, <1>9, <1>10, <1>11, <1>12, MainMoves
<1>14. FTypes'
  BY <1>1, <1>5, <1>6, Zenon DEF FInv, FTypes
<1> QED
  BY <1>13, <1>14 DEF FInv

LEMMA SignalErrorPreserves ==
    ASSUME FInv, SignalError
    PROVE  FInv'
<1>1. /\ pc["watcher"] = "next" /\ plan["watcher"] # <<>>
      /\ Head(plan["watcher"]).op = "error"
      /\ pc' = [main |-> "failed", watcher |-> "ended"]
      /\ plan' = [plan EXCEPT !["watcher"] = <<>>]
      /\ UNCHANGED <<stream, dq, cb, trie, asked, history>>
  BY Zenon DEF SignalError, Doing
<1>2. pc["watcher"] \in CreatingPcs
  BY <1>1 DEF CreatingPcs
<1>3. /\ plan["main"] = <<>> /\ trie = {} /\ asked = {} /\ dq.alive /\ dq.state # "stopped"
      /\ \A s \in Streams : stream[s].state = "starting" <=> StartedBy("watcher", s)
      /\ IsFiniteSet(Started) /\ Cardinality(Started) \in Nat
      /\ dq.streams = Cardinality(Started) + Counting("watcher")
      /\ plan \in [main : Seq(Ops), watcher : Seq(Ops)]
  BY <1>2, CreatingState, Zenon
<1>4. Started = {}
  <2>1. Creation
    BY <1>2, CreatingState, Zenon DEF FInv, Core, WatcherPlan, Creation
  <2>2. CASE plan["watcher"] = <<Op("start", Source), Op("start", Sync)>>
    BY <1>1, <2>2 DEF Op
  <2>3. CASE plan["watcher"] = <<Op("start", Sync)>>
    BY <1>1, <2>3 DEF Op
  <2>4. CASE plan["watcher"] = <<Op("stop", Source), Op("error", Sync)>>
    BY <1>1, <2>4 DEF Op
  <2> QED
    BY <1>1, <2>1, <2>2, <2>3, <2>4, Zenon DEF Creation
<1>5. /\ pc'["main"] = "failed" /\ pc'["watcher"] = "ended"
      /\ pc' \in [main : MainPcs, watcher : WatcherPcs]
  BY <1>1 DEF MainPcs, AtRest, WatcherPcs, WaitingPcs, EndPcs
<1>6. plan' \in [main : Seq(Ops), watcher : Seq(Ops)] /\ plan'["main"] = <<>>
  <2>1. <<>> \in Seq(Ops)
    OBVIOUS
  <2> QED
    BY <1>1, <1>3, <2>1, Zenon
<1>7. Started' = Started
  BY <1>1, Zenon DEF Started
<1>8. MainPlan' /\ AtHead("main")' /\ AtHead("watcher")' /\ Covered' /\ QueueEnds'
  BY <1>1, <1>3, <1>5, <1>6
     DEF MainPlan, AtHead, AtRest, StartPcs, StopPcs, Distinct, Covered, QueueEnds, EndPcs
<1>9. MainStarted'
  BY <1>4, <1>5, <1>6, <1>7 DEF MainStarted, Adds
<1>10. WatcherPlan'
  BY <1>5 DEF WatcherPlan, Creation, CreatingPcs, StartPcs, StopPcs
<1>11. StartingStreams'
  <2>1. \A x : ~StartedBy("main", x)' /\ ~StartedBy("watcher", x)' /\ ~StartedBy("watcher", x)
    BY <1>1, <1>5 DEF StartedBy, StartPcs
  <2> QED
    BY <1>1, <1>3, <2>1 DEF StartingStreams
<1>12. Counted'
  BY <1>1, <1>3, <1>5, <1>7 DEF Counting, Counted
<1>13. Core'
  BY <1>8, <1>9, <1>10, <1>11, <1>12, Zenon DEF Core
<1>14. FTypes'
  BY <1>1, <1>5, <1>6, Zenon DEF FInv, FTypes
<1> QED
  BY <1>13, <1>14 DEF FInv

-----------------------------------------------------------------------------
(* Initially nothing runs, and the watcher thread is about to create the      *)
(* watcher; or there is none, on another platform.                            *)
LEMMA InitFInv ==
    ASSUME NEW at \in {"off", "create"}, NEW wat \in {"off", "next"},
           (at = "off") <=> (wat = "off"), FseventsInit(at, wat)
    PROVE  FInv
<1>1. /\ stream = [s \in Streams |-> [state |-> "idle", dq |-> FALSE, held |-> <<>>]]
      /\ dq = [streams |-> 0, exn |-> FALSE, state |-> "idle", alive |-> TRUE]
      /\ plan = [main |-> <<>>, watcher |-> <<Op("start", Source), Op("start", Sync)>>]
      /\ pc = [main |-> at, watcher |-> wat] /\ cb = NoCallback /\ trie = {} /\ asked = {}
      /\ history = [of |-> [s \in Streams |-> <<>>], events |-> 0]
  BY Zenon DEF FseventsInit
<1>2. /\ plan["main"] = <<>> /\ plan["watcher"] = <<Op("start", Source), Op("start", Sync)>>
      /\ pc["main"] = at /\ pc["watcher"] = wat /\ dq.alive /\ dq.state = "idle" /\ dq.streams = 0
  BY <1>1
<1>3. Started = {} /\ \A s \in Streams : stream[s].state = "idle"
  BY <1>1 DEF Started
<1>4. FTypes
  <2>1. Op("start", Source) \in Ops /\ Op("start", Sync) \in Ops
    BY TwoStreams DEF Op, Ops
  <2>2. \A a, b \in Ops : <<a, b>> \in Seq(Ops)
    OBVIOUS
  <2>3. <<>> \in Seq(Ops) /\ <<>> \in Seq(FsEvents) /\ 0 \in Int /\ 0 \in Nat
    OBVIOUS
  <2>4. plan \in [main : Seq(Ops), watcher : Seq(Ops)]
    BY <1>1, <2>1, <2>2, <2>3, Zenon
  <2>5. stream \in [Streams -> StreamRecords] /\ dq \in QueueRecords /\ history \in Histories
    BY <1>1, <2>3, Zenon DEF StreamRecords, QueueRecords, Histories
  <2>6. pc \in [main : MainPcs, watcher : WatcherPcs]
    BY <1>1 DEF MainPcs, AtRest, WatcherPcs, CreatingPcs
  <2>7. cb \in [pc : {"idle", "called", "running"}, stream : Streams, dq : BOOLEAN,
                events : Seq(FsEvents)]
    BY <1>1, <2>3, TwoStreams, Zenon DEF NoCallback
  <2> QED
    BY <1>1, <2>4, <2>5, <2>6, <2>7 DEF FTypes
<1>5. MainPlan /\ AtHead("main") /\ AtHead("watcher") /\ Covered /\ QueueEnds
  BY <1>1, <1>2
     DEF MainPlan, AtHead, AtRest, StartPcs, StopPcs, Distinct, Covered, QueueEnds, EndPcs
<1>6. MainStarted
  BY <1>2, <1>3 DEF MainStarted, Adds
<1>7. WatcherPlan
  BY <1>1, <1>2, <1>3 DEF WatcherPlan, Creation, CreatingPcs, StartPcs, StopPcs
<1>8. StartingStreams
  BY <1>2, <1>3 DEF StartingStreams, StartedBy, StartPcs
<1>9. Counted
  BY <1>2, <1>3, FS_EmptySet DEF Counted, Counting
<1> QED
  BY <1>4, <1>5, <1>6, <1>7, <1>8, <1>9, Zenon DEF FInv, Core

(* Every step preserves the invariant.                                        *)
LEMMA FseventsStep ==
    ASSUME FInv, FseventsNext
    PROVE  FInv'
<1>1. CASE MainStep
  BY <1>1, StartMain, StartLockMain, StartStreamMain, StopMain, StopLockMain, StopEndMain,
     StartFailsMain, CommitPreserves, DownPreserves, Zenon DEF MainStep, Threaded
<1>2. CASE WatcherStep
  BY <1>2, StartWatcher, StartLockWatcher, StartStreamWatcher, StopWatcher, StopLockWatcher,
     StopEndWatcher, SignalOkPreserves, SignalErrorPreserves, CheckQueuePreserves,
     StopQueuePreserves, ReportExnPreserves, Zenon DEF WatcherStep, Threaded
<1>3. CASE DispatchStep
  BY <1>3, CallPreserves, CallbackPreserves, Zenon DEF DispatchStep
<1>4. CASE \E t \in {"main", "watcher"} : StartFails(t)
  BY <1>4, StartFailsMain, StartFailsWatcher, Zenon
<1> QED
  BY <1>1, <1>2, <1>3, <1>4, AddWatchPreserves, ShutdownPreserves, FinalizePreserves,
     OccurPreserves, RaisesPreserves, Zenon DEF FseventsNext

LEMMA FseventsStutter ==
    ASSUME FInv, UNCHANGED fvars
    PROVE  FInv'
<1>1. UNCHANGED <<stream, dq, plan, pc, cb, trie, asked, history>>
  BY Zenon DEF fvars
<1>2. Core'
  BY <1>1, CoreStays, Zenon DEF FInv
<1> QED
  BY <1>1, <1>2, Zenon DEF FInv, FTypes

-----------------------------------------------------------------------------
(* What follows from the invariant.                                           *)

LEMMA FInvTypeOK ==
    ASSUME FInv
    PROVE  FseventsTypeOK
<1> DEFINE T == {t \in {"main", "watcher"} : pc[t] \in {"start_stream", "stop_lock"}}
<1>1. dq.streams = Cardinality(Started) + Cardinality(T)
  <2>0. Cardinality(Started) \in Nat
    BY FS_CardinalityType DEF FInv, Core, Counted
  <2>1. Cardinality(T) = Counting("main") + Counting("watcher")
    <3>1. /\ Cardinality({}) = 0 /\ Cardinality({"main"}) = 1 /\ Cardinality({"watcher"}) = 1
          /\ Cardinality({"main", "watcher"}) = 2
      <4>1. Cardinality({}) = 0 /\ IsFiniteSet({})
        BY FS_EmptySet
      <4>2. Cardinality({"main"}) = 1 /\ IsFiniteSet({"main"}) /\ Cardinality({"watcher"}) = 1
        BY FS_Singleton
      <4>3. Cardinality({"main"} \union {"watcher"}) = 2
        BY <4>2, FS_AddElement
      <4>4. {"main"} \union {"watcher"} = {"main", "watcher"}
        OBVIOUS
      <4> QED
        BY <4>1, <4>2, <4>3, <4>4
    <3>2. CASE Counting("main") = 0 /\ Counting("watcher") = 0
      <4>1. T = {}
        BY <3>2 DEF Counting
      <4> QED
        BY <3>1, <3>2, <4>1
    <3>3. CASE Counting("main") = 1 /\ Counting("watcher") = 0
      <4>1. T = {"main"}
        BY <3>3 DEF Counting
      <4> QED
        BY <3>1, <3>3, <4>1
    <3>4. CASE Counting("main") = 0 /\ Counting("watcher") = 1
      <4>1. T = {"watcher"}
        BY <3>4 DEF Counting
      <4> QED
        BY <3>1, <3>4, <4>1
    <3>5. CASE Counting("main") = 1 /\ Counting("watcher") = 1
      <4>1. T = {"main", "watcher"}
        BY <3>5 DEF Counting
      <4> QED
        BY <3>1, <3>5, <4>1
    <3> QED
      BY <3>2, <3>3, <3>4, <3>5 DEF Counting
  <2>2. Counting("main") \in {0, 1} /\ Counting("watcher") \in {0, 1}
    BY DEF Counting
  <2> QED
    BY <2>0, <2>1, <2>2 DEF FInv, Core, Counted
<1>2. \A s \in Streams : stream[s].state \in {"idle", "starting", "started", "stopped"}
  BY DEF FInv, FTypes, StreamRecords
<1>3. pc["main"] \in MainPcs /\ pc["watcher"] \in WatcherPcs
  BY DEF FInv, FTypes
<1>4. dq.state \in {"idle", "running", "stopped"}
  BY DEF FInv, FTypes, QueueRecords
<1>5. /\ cb.pc \in {"idle", "called", "running"} /\ cb.stream \in Streams
      /\ trie \subseteq Dirs /\ asked \subseteq Dirs
  BY DEF FInv, FTypes
<1>6. /\ pc["main"] \in {"off", "create", "idle", "next", "start_lock", "start_stream",
                         "stop_lock", "stop_end", "down", "failed"}
      /\ pc["watcher"] \in {"off", "next", "start_lock", "start_stream", "stop_lock", "stop_end",
                            "check", "waiting", "returned", "report", "ended"}
  BY <1>3 DEF MainPcs, WatcherPcs, AtRest, StartPcs, StopPcs, CreatingPcs, WaitingPcs, EndPcs
<1> QED
  BY <1>1, <1>2, <1>4, <1>5, <1>6, Zenon DEF FseventsTypeOK, Started

(* The directories that were asked for are in the trie or below a directory   *)
(* of it, and the streams of the trie run, or one that replaces them.         *)
LEMMA FInvWatched ==
    ASSUME FInv
    PROVE  StaysWatched
<1> SUFFICES ASSUME pc["main"] \notin {"off", "create", "failed"}, ~ShuttingDown
             PROVE  /\ \A s \in {Source, Sync} : stream[s].state = "started"
                    /\ \A d \in asked : \E l \in Dirs : Contains(l, d) /\ stream[l].state = "started"
  BY Zenon DEF StaysWatched
<1>1. pc["main"] # "down" /\ ~(plan["main"] # <<>> /\ Closes(plan["main"]))
  BY Zenon DEF ShuttingDown, Closes
<1>2. Source \in Started /\ Sync \in Started
  BY <1>1, WorkspaceWatched
<1>3. ASSUME NEW d \in asked PROVE \E l \in Dirs : Contains(l, d) /\ l \in Started
  <2>1. PICK l \in trie : Contains(l, d)
    BY DEF FInv, Core, Covered
  <2>2. trie \subseteq Dirs /\ asked \subseteq Dirs
    BY DEF FInv, FTypes
  <2>3. CASE trie \subseteq Started
    BY <2>1, <2>2, <2>3
  <2>4. CASE ~(trie \subseteq Started)
    <3>1. pc["main"] # "idle"
      BY <2>4 DEF FInv, Core, MainStarted
    <3>2. plan["main"] # <<>>
      BY <1>1, <3>1 DEF FInv, Core, MainPlan, AtRest
    <3>3. PICK e \in Dirs : AddsTo(plan["main"], e)
      BY <1>1, <3>2, Zenon DEF FInv, Core, MainPlan
    <3>4. Started = {Source, Sync} \union (trie \ Below(e)) \union {e} \union ToStop
      BY <2>4, <3>2, <3>3 DEF FInv, Core, MainStarted, Adds
    <3>5. CASE l \in Below(e)
      <4>1. Contains(e, l)
        BY <3>5 DEF Below
      <4>2. Contains(e, d)
        BY <2>1, <2>2, <4>1, ContainsTrans, FseventsAssumption
      <4> QED
        BY <3>4, <4>2
    <3>6. CASE l \notin Below(e)
      BY <2>1, <2>2, <3>4, <3>6
    <3> QED
      BY <3>5, <3>6
  <2> QED
    BY <2>3, <2>4
<1> QED
  BY <1>2, <1>3 DEF Started

LEMMA FInvQueue ==
    ASSUME FInv
    PROVE  QueueOutlivesStreams
<1> SUFFICES ASSUME ~dq.alive, ~dq.exn
             PROVE  /\ \A s \in Streams : stream[s].state \in {"idle", "stopped"}
                    /\ \A t \in {"main", "watcher"} : pc[t] # "stop_lock"
  BY Zenon DEF QueueOutlivesStreams
<1>1. pc["watcher"] \in {"report", "ended"} /\ pc["main"] \notin {"off", "create", "failed"}
  BY Zenon DEF FInv, Core, QueueEnds
<1>2. /\ dq.streams = 0
      /\ pc["main"] = "down" \/ (plan["main"] # <<>> /\ Closes(plan["main"]))
  BY <1>1 DEF FInv, Core, QueueEnds, EndPcs
<1>3. Counting("main") = 0 /\ Started = {}
  <2>1. Counting("main") \in {0, 1} /\ Counting("watcher") \in {0, 1} /\ Cardinality(Started) \in Nat
    BY FS_CardinalityType DEF FInv, Core, Counted, Counting
  <2>2. Counting("main") = 0 /\ Cardinality(Started) = 0
    BY <1>2, <2>1 DEF FInv, Core, Counted
  <2> QED
    BY <2>2, FS_EmptySet DEF FInv, Core, Counted
<1>4. pc["main"] # "stop_lock" /\ pc["watcher"] # "stop_lock"
  BY <1>1, <1>3 DEF Counting
<1>5. \A s : ~StartedBy("main", s) /\ ~StartedBy("watcher", s)
  <2>1. pc["watcher"] \notin StartPcs
    BY <1>1 DEF StartPcs
  <2>2. pc["main"] \notin StartPcs
    <3>1. CASE pc["main"] = "down"
      BY <3>1 DEF StartPcs
    <3>2. CASE plan["main"] # <<>> /\ Closes(plan["main"])
      <4>1. Head(plan["main"]).op # "start"
        BY <3>2, StartsAdd
      <4> QED
        BY <4>1, Zenon DEF FInv, Core, AtHead
    <3> QED
      BY <1>2, <3>1, <3>2
  <2> QED
    BY <2>1, <2>2, Zenon DEF StartedBy
<1>6. \A s \in Streams : stream[s].state \notin {"starting", "started"}
  BY <1>3, <1>5 DEF FInv, Core, StartingStreams, Started
<1>7. \A s \in Streams : stream[s].state \in {"idle", "starting", "started", "stopped"}
  BY DEF FInv, FTypes, StreamRecords
<1> QED
  BY <1>4, <1>6, <1>7
=============================================================================
