--------------------------- MODULE ThrottleProofs ---------------------------
(***************************************************************************)
(* Type correctness, work conservation and the accounting of slots of      *)
(* Throttle, for every set of jobs, of capacities and of requests.         *)
(***************************************************************************)
EXTENDS Throttle, FiniteSetTheorems, WellFoundedInduction, TLAPS

(* The type invariant: all of throttle.ml's steps keep the fields in type.    *)
THEOREM TypeCorrect == Spec => []TypeOK
<1>1. Init => TypeOK
  BY ThrottleAssumption DEF Init, TypeOK, Status
<1>2. TypeOK /\ [Next]_vars => TypeOK'
  <2> SUFFICES ASSUME TypeOK, [Next]_vars PROVE TypeOK'
    OBVIOUS
  <2> USE ThrottleAssumption DEF TypeOK, Status
  <2>1. ASSUME NEW j \in Jobs, NEW request \in Requests, RunNow(j, request)
        PROVE  TypeOK'
    BY <2>1 DEF RunNow, Weight, Minimum
  <2>2. ASSUME NEW j \in Jobs, NEW request \in Requests, RunLater(j, request)
        PROVE  TypeOK'
    BY <2>2 DEF RunLater, Weight, Minimum, Enqueue
  <2>3. CASE Restart
    <3>1. CASE MayRestart /\ waiting # <<>>
      <4>1. Head(waiting) \in Jobs /\ Tail(waiting) \in Seq(Jobs)
        BY <3>1
      <4>2. /\ running' = running + weight[Head(waiting)]
            /\ status' = [status EXCEPT ![Head(waiting)] = "ready"]
            /\ ready' = Append(ready, Head(waiting))
            /\ waiting' = Tail(waiting)
            /\ turn' = turn
            /\ UNCHANGED <<size, weight>>
        BY <2>3, <3>1 DEF Restart
      <4>3. QED
        BY <4>1, <4>2
    <3>2. CASE ~(MayRestart /\ waiting # <<>>)
      BY <2>3, <3>2 DEF Restart
    <3>3. QED
      BY <3>1, <3>2
  <2>4. CASE Resume
    BY <2>4 DEF Resume
  <2>5. ASSUME NEW j \in Jobs, Finish(j) PROVE TypeOK'
    BY <2>5 DEF Finish, Released
  <2>6. ASSUME NEW n \in Sizes, Resize(n) PROVE TypeOK'
    BY <2>6 DEF Resize
  <2>7. CASE UNCHANGED vars
    BY <2>7 DEF vars
  <2>8. QED
    BY <2>1, <2>2, <2>3, <2>4, <2>5, <2>6, <2>7 DEF Next
<1>3. QED
  BY <1>1, <1>2, PTL DEF Spec

(* Work conservation: outside of restart's loop no job waits while a slot is  *)
(* free.  Init and the tests of run and restart give it; it is inductive on   *)
(* top of the types because every step that frees slots or changes the        *)
(* capacity enters the loop.                                                  *)
THEOREM NoIdleSlots == Spec => []WorkConserving
<1>1. Init => WorkConserving
  BY DEF Init, WorkConserving
<1>2. TypeOK /\ WorkConserving /\ [Next]_vars => WorkConserving'
  <2> SUFFICES ASSUME TypeOK, WorkConserving, [Next]_vars PROVE WorkConserving'
    OBVIOUS
  <2> USE ThrottleAssumption DEF TypeOK, WorkConserving
  <2>1. ASSUME NEW j \in Jobs, NEW request \in Requests, RunNow(j, request)
        PROVE  WorkConserving'
    BY <2>1 DEF RunNow, MayStart
  <2>2. ASSUME NEW j \in Jobs, NEW request \in Requests, RunLater(j, request)
        PROVE  WorkConserving'
    BY <2>2 DEF RunLater, MayStart
  <2>3. CASE Restart
    BY <2>3 DEF Restart, MayRestart
  <2>4. CASE Resume
    BY <2>4 DEF Resume
  <2>5. ASSUME NEW j \in Jobs, Finish(j) PROVE WorkConserving'
    BY <2>5 DEF Finish
  <2>6. ASSUME NEW n \in Sizes, Resize(n) PROVE WorkConserving'
    BY <2>6 DEF Resize
  <2>7. CASE UNCHANGED vars
    BY <2>7 DEF vars
  <2>8. QED
    BY <2>1, <2>2, <2>3, <2>4, <2>5, <2>6, <2>7 DEF Next
<1>3. QED
  BY <1>1, <1>2, TypeCorrect, PTL DEF Spec

-----------------------------------------------------------------------------
(* The sum that SlotsAccounted is about, and the function that defines it: the *)
(* element that CHOOSE takes, then the rest.                                   *)
Total(w, S) == MapThenSumSet(LAMBDA j : w[j], S)

First(s) == CHOOSE x \in s : TRUE

Sums(w, S, F) ==
    F = [s \in SUBSET S |-> IF s = {} THEN 0 ELSE w[First(s)] + F[s \ {First(s)}]]

(* Among finite sets there is a smallest one.                                  *)
LEMMA SmallestSet ==
    ASSUME NEW C, C # {}, \A s \in C : IsFiniteSet(s)
    PROVE  \E s \in C : \A r \in C : Cardinality(s) <= Cardinality(r)
<1> DEFINE N == {Cardinality(s) : s \in C}
<1>1. N \subseteq Nat /\ N # {}
  BY FS_CardinalityType
<1>2. PICK m \in N : \A k \in N : <<k, m>> \notin OpToRel(<, Nat)
  BY <1>1, WFMin, NatLessThanWellFounded, Zenon
<1>3. \A k \in N : ~(k < m)
  BY <1>1, <1>2, Zenon DEF OpToRel
<1>4. \A k \in N : m <= k
  BY <1>1, <1>3
<1> QED
  BY <1>4, Zenon

(* The defining function at the empty set.                                     *)
LEMMA SumsEmpty ==
    ASSUME NEW w, NEW S, NEW F, Sums(w, S, F)
    PROVE  F[{}] = 0
<1>1. {} \in SUBSET S
  BY Zenon
<1>2. F[{}] = IF {} = {} THEN 0 ELSE w[First({})] + F[{} \ {First({})}]
  BY <1>1, Zenon DEF Sums
<1> QED
  BY <1>2, Zenon

(* The defining function at a set that has elements.                           *)
LEMMA SumsAt ==
    ASSUME NEW w, NEW S, NEW F, Sums(w, S, F), NEW s \in SUBSET S, s # {}
    PROVE  /\ First(s) \in s /\ s \ {First(s)} \in SUBSET S
           /\ F[s] = w[First(s)] + F[s \ {First(s)}]
<1>1. First(s) \in s
  BY Zenon DEF First
<1>2. F[s] = IF s = {} THEN 0 ELSE w[First(s)] + F[s \ {First(s)}]
  BY Zenon DEF Sums
<1> QED
  BY <1>1, <1>2, Zenon

(* An element fewer.                                                           *)
LEMMA Smaller ==
    ASSUME NEW s, IsFiniteSet(s), NEW x \in s
    PROVE  IsFiniteSet(s \ {x}) /\ ~(Cardinality(s) <= Cardinality(s \ {x}))
<1>1. IsFiniteSet(s \ {x}) /\ Cardinality(s \ {x}) = Cardinality(s) - 1
  BY FS_RemoveElement, Zenon
<1>2. Cardinality(s) \in Nat
  BY FS_CardinalityType, Zenon
<1> QED
  BY <1>1, <1>2

(* The sum of a set depends on the weights of its elements only, and not on    *)
(* the set that it is a part of.                                               *)
LEMMA SumsAgree ==
    ASSUME NEW w, NEW v, NEW S, NEW T, NEW F, NEW G, T \subseteq S, IsFiniteSet(T),
           Sums(w, S, F), Sums(v, T, G), \A x \in T : w[x] = v[x]
    PROVE  \A s \in SUBSET T : F[s] = G[s]
<1> DEFINE C == {s \in SUBSET T : F[s] # G[s]}
<1> SUFFICES ASSUME C # {} PROVE FALSE
  BY Zenon
<1>1. \A s \in C : IsFiniteSet(s)
  BY FS_Subset, Zenon
<1>2. PICK s \in C : \A r \in C : Cardinality(s) <= Cardinality(r)
  BY <1>1, SmallestSet, Zenon
<1>3. s \in SUBSET S /\ s \in SUBSET T /\ F[s] # G[s]
  BY Zenon
<1> DEFINE r == s \ {First(s)}
<1>4. s # {}
  <2>1. F[{}] = 0
    BY SumsEmpty, Zenon
  <2>2. G[{}] = 0
    BY SumsEmpty, Zenon
  <2> QED
    BY <1>3, <2>1, <2>2, Zenon
<1>5. /\ First(s) \in s /\ r \in SUBSET T
      /\ F[s] = w[First(s)] + F[r] /\ G[s] = v[First(s)] + G[r]
  BY <1>3, <1>4, SumsAt, SMTT(60)
<1>6. w[First(s)] = v[First(s)]
  BY <1>3, <1>5, Zenon
<1>7. r \in C
  BY <1>3, <1>5, <1>6, Zenon
<1> QED
  BY <1>1, <1>2, <1>5, <1>7, Smaller, Zenon

(* The defining function exists: a smallest set without one would have one     *)
(* made of those of its parts.                                                 *)
LEMMA SumsExist ==
    ASSUME NEW w, NEW S, IsFiniteSet(S)
    PROVE  \E F : Sums(w, S, F)
<1> DEFINE C == {s \in SUBSET S : ~ \E F : Sums(w, s, F)}
<1> SUFFICES ASSUME C # {} PROVE FALSE
  BY Zenon
<1>1. \A s \in SUBSET S : IsFiniteSet(s)
  BY FS_Subset, Zenon
<1>2. PICK s \in C : \A r \in C : Cardinality(s) <= Cardinality(r)
  BY <1>1, SmallestSet, Zenon
<1> DEFINE H(r) == CHOOSE F : Sums(w, r, F)
           Rest(r) == r \ {First(r)}
           F == [r \in SUBSET s |-> IF r = {} THEN 0 ELSE w[First(r)] + H(Rest(r))[Rest(r)]]
<1>3. ASSUME NEW r \in SUBSET s, r # {}
      PROVE  First(r) \in r /\ Rest(r) \in SUBSET s /\ Sums(w, Rest(r), H(Rest(r)))
  <2>1. First(r) \in r /\ Rest(r) \in SUBSET S
    BY <1>3, Zenon DEF First
  <2>2. IsFiniteSet(s) /\ IsFiniteSet(Rest(r)) /\ Rest(r) \in SUBSET (s \ {First(r)})
    BY <1>1, <2>1, Zenon
  <2>3. ~(Cardinality(s) <= Cardinality(s \ {First(r)})) /\ IsFiniteSet(s \ {First(r)})
    BY <2>1, <2>2, Smaller, Zenon
  <2>4. Cardinality(Rest(r)) <= Cardinality(s \ {First(r)})
    BY <2>2, <2>3, FS_Subset, Zenon
  <2>5. Rest(r) \notin C
    <3>1. /\ Cardinality(Rest(r)) \in Nat /\ Cardinality(s) \in Nat
          /\ Cardinality(s \ {First(r)}) \in Nat
      BY <2>2, <2>3, FS_CardinalityType, Zenon
    <3>2. ~(Cardinality(s) <= Cardinality(Rest(r)))
      BY <2>3, <2>4, <3>1
    <3> QED
      BY <1>2, <3>2, Zenon
  <2> QED
    BY <2>1, <2>5, Zenon
<1>4. ASSUME NEW r \in SUBSET s, r # {} PROVE F[Rest(r)] = H(Rest(r))[Rest(r)]
  <2> DEFINE q == Rest(r)
  <2>1. q \in SUBSET s /\ Sums(w, q, H(q)) /\ q \in SUBSET q
    BY <1>3, <1>4, Zenon
  <2>2. CASE q = {}
    <3>1. H(q)[{}] = 0
      BY <2>1, SumsEmpty, Zenon
    <3> QED
      BY <2>1, <2>2, <3>1, Zenon
  <2>3. CASE q # {}
    <3>1. /\ Rest(q) \in SUBSET q /\ Sums(w, Rest(q), H(Rest(q))) /\ IsFiniteSet(Rest(q))
      BY <1>1, <1>3, <2>1, <2>3, Zenon
    <3>2. H(q)[Rest(q)] = H(Rest(q))[Rest(q)]
      BY <2>1, <3>1, SumsAgree
    <3>3. H(q)[q] = w[First(q)] + H(q)[Rest(q)]
      <4> HIDE DEF q, H, F
      <4> QED
        BY <2>1, <2>3, SumsAt
    <3> QED
      BY <2>1, <2>3, <3>2, <3>3, Zenon
  <2> QED
    BY <2>2, <2>3, Zenon
<1>5. Sums(w, s, F)
  <2> DEFINE R(r) == IF r = {} THEN 0 ELSE w[First(r)] + F[Rest(r)]
  <2>1. ASSUME NEW r \in SUBSET s PROVE F[r] = R(r)
    <3>1. CASE r = {}
      BY <3>1, Zenon
    <3>2. CASE r # {}
      <4>1. F[r] = w[First(r)] + H(Rest(r))[Rest(r)]
        BY <3>2, Zenon
      <4>2. F[Rest(r)] = H(Rest(r))[Rest(r)]
        BY <1>4, <3>2, Zenon
      <4> HIDE DEF F, H, Rest
      <4> QED
        BY <3>2, <4>1, <4>2, Zenon
    <3> QED
      BY <3>1, <3>2, Zenon
  <2>2. F = [r \in SUBSET s |-> F[r]]
    OBVIOUS
  <2> HIDE DEF F
  <2>3. F = [r \in SUBSET s |-> R(r)]
    BY <2>1, <2>2, Zenon
  <2> QED
    BY <2>3, Zenon DEF Sums
<1> QED
  BY <1>5, Zenon

(* The sum is the value of such a function.                                    *)
LEMMA TotalSums ==
    ASSUME NEW w, NEW S, IsFiniteSet(S)
    PROVE  \E F : Sums(w, S, F) /\ Total(w, S) = F[S]
<1> DEFINE G == CHOOSE F : Sums(w, S, F)
<1>1. Sums(w, S, G)
  BY SumsExist, Zenon
<1>2. Total(w, S) = G[S]
  BY Zenon DEF Total, MapThenSumSet, MapThenFoldSet, Sums, First
<1> QED
  BY <1>1, <1>2, Zenon

(* The sum is a natural number, and each element counts once.                  *)
LEMMA TotalNat ==
    ASSUME NEW w \in [Jobs -> Nat], NEW S \in SUBSET Jobs, IsFiniteSet(S)
    PROVE  Total(w, S) \in Nat /\ Total(w, {}) = 0
<1>1. PICK F : Sums(w, S, F) /\ Total(w, S) = F[S]
  BY TotalSums, Zenon
<1>2. PICK G : Sums(w, {}, G) /\ Total(w, {}) = G[{}]
  BY TotalSums, FS_EmptySet, Zenon
<1> DEFINE C == {s \in SUBSET S : F[s] \notin Nat}
<1>3. \A s \in C : IsFiniteSet(s)
  BY FS_Subset, Zenon
<1>4. ASSUME C # {} PROVE FALSE
  <2>1. PICK s \in C : \A r \in C : Cardinality(s) <= Cardinality(r)
    BY <1>3, <1>4, SmallestSet, Zenon
  <2>s. s \in SUBSET S /\ F[s] \notin Nat
    BY Zenon
  <2>2. CASE s = {}
    <3>1. F[s] = 0
      BY <1>1, <2>2, SumsEmpty, Zenon
    <3> QED
      BY <2>s, <3>1
  <2>3. CASE s # {}
    <3>1. /\ First(s) \in s /\ s \ {First(s)} \in SUBSET S
          /\ F[s] = w[First(s)] + F[s \ {First(s)}]
      BY <1>1, <2>s, <2>3, SumsAt, ZenonT(60)
    <3>2. w[First(s)] \in Nat
      BY <3>1, Zenon
    <3>3. s \ {First(s)} \in C
      <4>1. F[s \ {First(s)}] \in Nat => F[s] \in Nat
        BY <3>1, <3>2
      <4> QED
        BY <3>1, <4>1, Zenon
    <3> QED
      BY <1>3, <2>1, <3>1, <3>3, Smaller, Zenon
  <2> QED
    BY <2>2, <2>3, Zenon
<1>5. F[S] \in Nat
  BY <1>4, Zenon
<1>6. G[{}] = 0
  BY <1>2, SumsEmpty, Zenon
<1> QED
  BY <1>1, <1>2, <1>5, <1>6, Zenon

(* The sum without an element, whatever element CHOOSE takes.                  *)
LEMMA TotalRemove ==
    ASSUME NEW w \in [Jobs -> Nat], NEW S \in SUBSET Jobs, IsFiniteSet(S), NEW x \in S
    PROVE  Total(w, S) = w[x] + Total(w, S \ {x})
<1>1. PICK F : Sums(w, S, F) /\ Total(w, S) = F[S]
  BY TotalSums, Zenon
<1>2. \A s \in SUBSET S : IsFiniteSet(s) /\ Total(w, s) = F[s]
  <2> TAKE s \in SUBSET S
  <2>1. IsFiniteSet(s)
    BY FS_Subset, Zenon
  <2>2. PICK G : Sums(w, s, G) /\ Total(w, s) = G[s]
    BY <2>1, TotalSums, Zenon
  <2>3. F[s] = G[s]
    <3>1. s \subseteq S /\ s \in SUBSET s /\ \A y \in s : w[y] = w[y]
      BY Zenon
    <3> QED
      BY <1>1, <2>1, <2>2, <3>1, SumsAgree
  <2> QED
    BY <2>1, <2>2, <2>3, Zenon
<1>3. \A s \in SUBSET S : F[s] \in Nat
  BY <1>2, TotalNat, Zenon
<1> DEFINE C == {s \in SUBSET S : \E y \in s : F[s] # w[y] + F[s \ {y}]}
<1>4. ASSUME C # {} PROVE FALSE
  <2>1. PICK s \in C : \A r \in C : Cardinality(s) <= Cardinality(r)
    BY <1>2, <1>4, SmallestSet, Zenon
  <2>2. PICK y \in s : F[s] # w[y] + F[s \ {y}]
    BY Zenon
  <2> DEFINE c == First(s)
  <2>3. c \in s /\ F[s] = w[c] + F[s \ {c}] /\ s \in SUBSET S
    <3>1. s \in SUBSET S /\ s # {}
      BY <2>2, Zenon
    <3> QED
      BY <1>1, <3>1, SumsAt
  <2>4. c # y
    BY <2>2, <2>3, Zenon
  <2> DEFINE r == (s \ {c}) \ {y}
  <2>5. s \ {c} \notin C /\ s \ {y} \notin C
    BY <1>2, <2>1, <2>3, Smaller, Zenon
  <2>6. F[s \ {c}] = w[y] + F[r]
    BY <2>3, <2>4, <2>5, Zenon
  <2>7. F[s \ {y}] = w[c] + F[r]
    <3>1. (s \ {y}) \ {c} = r
      BY Zenon
    <3>2. F[s \ {y}] = w[c] + F[(s \ {y}) \ {c}]
      BY <2>3, <2>4, <2>5, Zenon
    <3> QED
      BY <3>1, <3>2, Zenon
  <2>8. w[c] \in Nat /\ w[y] \in Nat /\ F[r] \in Nat
    BY <1>3, <2>3, Zenon
  <2>9. w[c] + (w[y] + F[r]) = w[y] + (w[c] + F[r])
    BY <2>8
  <2> QED
    BY <2>2, <2>3, <2>6, <2>7, <2>9, Zenon
<1> QED
  BY <1>1, <1>2, <1>4, Zenon

(* The sum depends on the weights of the elements only.                        *)
LEMMA TotalFrame ==
    ASSUME NEW w, NEW v, NEW S, IsFiniteSet(S), \A x \in S : w[x] = v[x]
    PROVE  Total(w, S) = Total(v, S)
<1>1. PICK F : Sums(w, S, F) /\ Total(w, S) = F[S]
  BY TotalSums, Zenon
<1>2. PICK G : Sums(v, S, G) /\ Total(v, S) = G[S]
  BY TotalSums, Zenon
<1>3. S \in SUBSET S /\ S \subseteq S
  BY Zenon
<1>4. Sums(w, S, F)
  BY <1>1, Zenon
<1>5. Sums(v, S, G)
  BY <1>2, Zenon
<1>6. \A s \in SUBSET S : F[s] = G[s]
  BY <1>3, <1>4, <1>5, SumsAgree
<1> QED
  BY <1>1, <1>2, <1>3, <1>6, Zenon

-----------------------------------------------------------------------------
(* A job is in the queue its status names, and there once.                     *)
Queued ==
    /\ \A i \in 1 .. Len(waiting) : status[waiting[i]] = "waiting"
    /\ \A i \in 1 .. Len(ready) : status[ready[i]] = "ready"
    /\ \A i, k \in 1 .. Len(waiting) : waiting[i] = waiting[k] => i = k
    /\ \A i, k \in 1 .. Len(ready) : ready[i] = ready[k] => i = k

(* What SlotsAccounted says; the jobs let in are finitely many.                *)
Accounts == IsFiniteSet(Holders) /\ running = Total(weight, Holders)

(* Jobs enter and leave the queues at their ends, with their new status.       *)
LEMMA QueuedStep ==
    ASSUME TypeOK, Queued, [Next]_vars
    PROVE  Queued'
<1> USE DEF TypeOK, Queued, Status
<1>1. ASSUME NEW j \in Jobs, NEW request \in Requests, RunNow(j, request) PROVE Queued'
  BY <1>1, SMTT(60) DEF RunNow
<1>2. ASSUME NEW j \in Jobs, NEW request \in Requests, RunLater(j, request) PROVE Queued'
  BY <1>2 DEF RunLater, Enqueue
<1>3. CASE Restart
  <2>1. CASE MayRestart /\ waiting # <<>>
    <3> DEFINE j == Head(waiting)
    <3>1. /\ j \in Jobs /\ j = waiting[1] /\ Len(waiting) \in Nat /\ Len(waiting) >= 1
          /\ Tail(waiting) \in Seq(Jobs) /\ Len(Tail(waiting)) = Len(waiting) - 1
          /\ \A i \in 1 .. Len(Tail(waiting)) : Tail(waiting)[i] = waiting[i + 1]
      BY <2>1
    <3>2. /\ status' = [status EXCEPT ![j] = "ready"]
          /\ ready' = Append(ready, j)
          /\ waiting' = Tail(waiting)
      BY <1>3, <2>1 DEF Restart
    <3> HIDE DEF j
    <3>3. \A i \in 1 .. Len(waiting') : status'[waiting'[i]] = "waiting"
      <4> TAKE i \in 1 .. Len(waiting')
      <4>1. /\ i + 1 \in 1 .. Len(waiting) /\ 1 \in 1 .. Len(waiting) /\ i + 1 # 1
            /\ waiting'[i] = waiting[i + 1]
        BY <3>1, <3>2
      <4>2. waiting[i + 1] # j /\ waiting[i + 1] \in Jobs
        BY <3>1, <4>1
      <4> QED
        BY <3>2, <4>1, <4>2
    <3>4. \A i, k \in 1 .. Len(waiting') : waiting'[i] = waiting'[k] => i = k
      BY <3>1, <3>2
    <3>5. /\ Len(ready') = Len(ready) + 1 /\ Len(ready) \in Nat /\ ready'[Len(ready) + 1] = j
          /\ \A i \in 1 .. Len(ready) : ready'[i] = ready[i] /\ ready[i] \in Jobs
      BY <3>1, <3>2
    <3>6. \A i \in 1 .. Len(ready') : status'[ready'[i]] = "ready"
      BY <3>1, <3>2, <3>5
    <3>7. status[j] = "waiting"
      BY <3>1
    <3>8. \A i, k \in 1 .. Len(ready') : ready'[i] = ready'[k] => i = k
      <4>1. \A i \in 1 .. Len(ready) : ready[i] # j
        BY <3>7
      <4> TAKE i, k \in 1 .. Len(ready')
      <4>2. \/ i \in 1 .. Len(ready) \/ i = Len(ready) + 1
        BY <3>5
      <4>3. \/ k \in 1 .. Len(ready) \/ k = Len(ready) + 1
        BY <3>5
      <4>4. i \in 1 .. Len(ready) => ready'[i] = ready[i] /\ ready[i] # j
        BY <3>5, <4>1, Zenon
      <4>5. k \in 1 .. Len(ready) => ready'[k] = ready[k] /\ ready[k] # j
        BY <3>5, <4>1, Zenon
      <4>6. i \in 1 .. Len(ready) /\ k \in 1 .. Len(ready) /\ ready[i] = ready[k] => i = k
        BY Zenon
      <4>7. ready'[Len(ready) + 1] = j
        BY <3>5, Zenon
      <4> QED
        BY <4>2, <4>3, <4>4, <4>5, <4>6, <4>7, Zenon
    <3> QED
      BY <3>3, <3>4, <3>6, <3>8, Zenon
  <2>2. CASE ~(MayRestart /\ waiting # <<>>)
    BY <1>3, <2>2, SMTT(60) DEF Restart
  <2> QED
    BY <2>1, <2>2
<1>4. CASE Resume
  <2> DEFINE j == Head(ready)
  <2>1. /\ j \in Jobs /\ j = ready[1] /\ Len(ready) \in Nat /\ Len(ready) >= 1
        /\ Tail(ready) \in Seq(Jobs) /\ Len(Tail(ready)) = Len(ready) - 1
        /\ \A i \in 1 .. Len(Tail(ready)) : Tail(ready)[i] = ready[i + 1]
    BY <1>4 DEF Resume
  <2>2. /\ status' = [status EXCEPT ![j] = "running"]
        /\ ready' = Tail(ready) /\ waiting' = waiting
    BY <1>4 DEF Resume
  <2> HIDE DEF j
  <2> QED
    BY <2>1, <2>2
<1>5. ASSUME NEW j \in Jobs, Finish(j) PROVE Queued'
  BY <1>5 DEF Finish
<1>6. ASSUME NEW n \in Sizes, Resize(n) PROVE Queued'
  BY <1>6 DEF Resize
<1>7. CASE UNCHANGED vars
  BY <1>7 DEF vars
<1> QED
  BY <1>1, <1>2, <1>3, <1>4, <1>5, <1>6, <1>7, Zenon DEF Next

(* A job is let in and takes its weight.                                       *)
LEMMA Enters ==
    ASSUME TypeOK, TypeOK', Accounts, NEW j \in Jobs, j \notin Holders,
           Holders' = Holders \union {j}, running' = running + weight'[j],
           \A k \in Holders : weight'[k] = weight[k]
    PROVE  Accounts'
<1> DEFINE H == Holders \union {j}
<1>1. IsFiniteSet(H) /\ H \in SUBSET Jobs /\ j \in H /\ H \ {j} = Holders
  BY FS_AddElement, Zenon DEF Accounts, Holders
<1>2. weight' \in [Jobs -> Nat]
  BY Zenon DEF TypeOK
<1>3. Total(weight', H) = weight'[j] + Total(weight', Holders)
  BY <1>1, <1>2, TotalRemove
<1>4. Total(weight', Holders) = Total(weight, Holders)
  BY TotalFrame DEF Accounts
<1>5. running \in Int /\ weight'[j] \in Nat /\ running = Total(weight, Holders)
  BY <1>2, Zenon DEF TypeOK, Accounts
<1>6. running' = Total(weight', H)
  BY <1>3, <1>4, <1>5
<1> QED
  BY <1>1, <1>6, Zenon DEF Accounts

(* A job ends and gives its weight back.                                       *)
LEMMA Leaves ==
    ASSUME TypeOK, Accounts, NEW j \in Holders,
           Holders' = Holders \ {j}, running' = running - weight[j], weight' = weight
    PROVE  Accounts'
<1>1. IsFiniteSet(Holders \ {j}) /\ Holders \in SUBSET Jobs
  BY FS_RemoveElement, Zenon DEF Accounts, Holders
<1>2. weight \in [Jobs -> Nat] /\ weight[j] \in Nat /\ Holders \ {j} \in SUBSET Jobs
  BY <1>1, Zenon DEF TypeOK
<1>3. Total(weight, Holders) = weight[j] + Total(weight, Holders \ {j})
  BY <1>1, <1>2, TotalRemove DEF Accounts
<1>4. Total(weight, Holders \ {j}) \in Nat
  BY <1>1, <1>2, TotalNat, Zenon
<1>5. running' = Total(weight, Holders \ {j})
  BY <1>2, <1>3, <1>4 DEF Accounts
<1> QED
  BY <1>1, <1>5, Zenon DEF Accounts

(* The jobs let in stay, and so do their weights.                              *)
LEMMA Stays ==
    ASSUME Accounts, Holders' = Holders, running' = running,
           \A k \in Holders : weight'[k] = weight[k]
    PROVE  Accounts'
<1>1. Total(weight', Holders) = Total(weight, Holders)
  BY TotalFrame DEF Accounts
<1> QED
  BY <1>1, Zenon DEF Accounts

(* Every step lets in one job, ends one, or leaves the jobs let in alone.      *)
LEMMA AccountsStep ==
    ASSUME TypeOK, TypeOK', Queued, Accounts, [Next]_vars
    PROVE  Accounts'
<1> USE DEF Holders
<1>t. /\ status \in [Jobs -> Status] /\ weight \in [Jobs -> Nat]
      /\ waiting \in Seq(Jobs) /\ ready \in Seq(Jobs)
  BY Zenon DEF TypeOK
<1>1. ASSUME NEW j \in Jobs, NEW request \in Requests, RunNow(j, request) PROVE Accounts'
  <2>1. /\ j \notin Holders /\ Holders' = Holders \union {j}
        /\ running' = running + weight'[j] /\ \A k \in Holders : weight'[k] = weight[k]
    BY <1>1, <1>t DEF RunNow
  <2> QED
    BY <2>1, Enters, Zenon
<1>2. ASSUME NEW j \in Jobs, NEW request \in Requests, RunLater(j, request) PROVE Accounts'
  <2>1. /\ Holders' = Holders /\ running' = running
        /\ \A k \in Holders : weight'[k] = weight[k]
    BY <1>2, <1>t DEF RunLater
  <2> QED
    BY <2>1, Stays, Zenon
<1>3. CASE Restart
  <2>1. CASE MayRestart /\ waiting # <<>>
    <3> DEFINE j == Head(waiting)
    <3>1. j \in Jobs /\ status[j] = "waiting"
      BY <1>t, <2>1 DEF Queued
    <3>2. /\ status' = [status EXCEPT ![j] = "ready"]
          /\ running' = running + weight[j] /\ weight' = weight
      BY <1>3, <2>1, Zenon DEF Restart
    <3> HIDE DEF j
    <3>3. j \notin Holders /\ Holders' = Holders \union {j}
      BY <1>t, <3>1, <3>2
    <3> QED
      BY <3>1, <3>2, <3>3, Enters, Zenon
  <2>2. CASE ~(MayRestart /\ waiting # <<>>)
    <3>1. UNCHANGED <<running, status, weight>>
      BY <1>3, <2>2 DEF Restart
    <3> QED
      BY <3>1, Stays, Zenon
  <2> QED
    BY <2>1, <2>2, Zenon
<1>4. CASE Resume
  <2>1. Head(ready) \in Jobs /\ status[Head(ready)] = "ready"
    BY <1>4, <1>t DEF Resume, Queued
  <2>2. /\ status' = [status EXCEPT ![Head(ready)] = "running"]
        /\ running' = running /\ weight' = weight
    BY <1>4, Zenon DEF Resume
  <2>3. Holders' = Holders
    BY <1>t, <2>1, <2>2
  <2> QED
    BY <2>2, <2>3, Stays, Zenon
<1>5. ASSUME NEW j \in Jobs, Finish(j) PROVE Accounts'
  <2>1. /\ j \in Holders /\ Holders' = Holders \ {j}
        /\ running' = running - weight[j] /\ weight' = weight
    BY <1>5, <1>t DEF Finish, Released
  <2> QED
    BY <2>1, Leaves, Zenon
<1>6. ASSUME NEW n \in Sizes, Resize(n) PROVE Accounts'
  <2>1. UNCHANGED <<running, status, weight>>
    BY <1>6, Zenon DEF Resize
  <2> QED
    BY <2>1, Stays, Zenon
<1>7. CASE UNCHANGED vars
  <2>1. UNCHANGED <<running, status, weight>>
    BY <1>7, Zenon DEF vars
  <2> QED
    BY <2>1, Stays, Zenon
<1> QED
  BY <1>1, <1>2, <1>3, <1>4, <1>5, <1>6, <1>7, Zenon DEF Next

(* t.running is the sum of the weights of the jobs that were let in and have   *)
(* not ended, across resizes: run adds the weight that its finaliser takes     *)
(* back.  The queues have to be part of the invariant, as restart adds a       *)
(* weight once only if the job it takes from t.waiting was not let in before.  *)
THEOREM SlotsAreAccounted == Spec => []SlotsAccounted
<1>1. Init => Queued /\ Accounts
  <2> SUFFICES ASSUME Init PROVE Queued /\ Accounts
    BY Zenon
  <2>1. Queued
    BY DEF Init, Queued
  <2>2. Holders = {} /\ weight \in [Jobs -> Nat] /\ running = 0
    BY DEF Init, Holders
  <2>3. IsFiniteSet({}) /\ {} \in SUBSET Jobs
    BY FS_EmptySet, Zenon
  <2>4. Total(weight, {}) = 0
    BY <2>2, <2>3, TotalNat, Zenon
  <2> QED
    BY <2>1, <2>2, <2>3, <2>4, Zenon DEF Accounts
<1>2. TypeOK /\ TypeOK' /\ Queued /\ Accounts /\ [Next]_vars => Queued' /\ Accounts'
  BY QueuedStep, AccountsStep, Zenon
<1>3. Accounts => SlotsAccounted
  BY Zenon DEF Accounts, SlotsAccounted, Total
<1> QED
  BY <1>1, <1>2, <1>3, TypeCorrect, PTL DEF Spec

=============================================================================
