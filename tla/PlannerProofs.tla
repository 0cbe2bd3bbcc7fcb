---------------------------- MODULE PlannerProofs ----------------------------
(***************************************************************************)
(* Lemmas about the planner of one resource: sums over its spans, its      *)
(* points and trees, and what each call does to them; for every plan, every*)
(* amount and every request.                                               *)
(***************************************************************************)
EXTENDS PlannerClient, FiniteSetTheorems, TLAPS

(***************************************************************************)
(* Sums over a finite set of spans.  The fold that defines them is a       *)
(* function on the subsets of the set; it is shown to exist, to be unique  *)
(* and to take the spans in any order by looking at a least subset for     *)
(* which it would not.                                                     *)
(***************************************************************************)
Pick(s) == CHOOSE x \in s : TRUE

\* g sums what the spans of each subset of S plan.
IsSum(b, S, g) ==
    g = [s \in SUBSET S |-> IF s = {} THEN 0 ELSE b[Pick(s)].planned + g[s \ {Pick(s)}]]

SumOf(b, S) == (CHOOSE g : IsSum(b, S, g))[S]

\* A set of subsets of a finite set that is not empty has a least member.
LEMMA LeastSubset ==
    ASSUME NEW S, IsFiniteSet(S), NEW B, B \subseteq SUBSET S, B # {}
    PROVE  \E s \in B : \A r \in SUBSET s : r # s => r \notin B
<1>1. IsWellFoundedOn(StrictSubsetOrdering(S), SUBSET S)
  BY FS_StrictSubsetOrderingWellFounded, FS_FiniteSubsetsOfFinite
<1>2. PICK s \in B : \A r \in B : ~(<<r, s>> \in StrictSubsetOrdering(S))
  BY <1>1, WFMin
<1>3. ASSUME NEW r \in SUBSET s, r # s, r \in B PROVE FALSE
  <2>1. <<r, s>> \in (SUBSET S) \X (SUBSET S)
    BY <1>3
  <2> QED BY <1>2, <1>3, <2>1 DEF StrictSubsetOrdering
<1> QED BY <1>3

\* The element a sum takes first is one of the set.
LEMMA PickIn == ASSUME NEW s, s # {} PROVE Pick(s) \in s
  BY DEF Pick

\* One step of a sum.
LEMMA SumStep ==
    ASSUME NEW b, NEW S, NEW g, IsSum(b, S, g), NEW s \in SUBSET S
    PROVE  g[s] = IF s = {} THEN 0 ELSE b[Pick(s)].planned + g[s \ {Pick(s)}]
  BY DEF IsSum

\* Two sums agree.
LEMMA SumUnique ==
    ASSUME NEW b, NEW S, IsFiniteSet(S), NEW g, NEW h, IsSum(b, S, g), IsSum(b, S, h)
    PROVE  \A s \in SUBSET S : g[s] = h[s]
<1> DEFINE B == {s \in SUBSET S : g[s] # h[s]}
<1> SUFFICES ASSUME B # {} PROVE FALSE
  OBVIOUS
<1>1. PICK s \in B : \A r \in SUBSET s : r # s => r \notin B
  <2>1. B \subseteq SUBSET S
    OBVIOUS
  <2> HIDE DEF B
  <2> QED BY <2>1, LeastSubset
<1> DEFINE x == Pick(s)
<1>2. /\ g[s] = IF s = {} THEN 0 ELSE b[x].planned + g[s \ {x}]
      /\ h[s] = IF s = {} THEN 0 ELSE b[x].planned + h[s \ {x}]
  BY DEF IsSum
<1>3. s # {} /\ x \in s
  BY <1>2, PickIn
<1>4. s \ {x} \notin B
  BY <1>1, <1>3
<1> QED BY <1>2, <1>3, <1>4

\* The restriction of a sum is a sum.
LEMMA SumRestrict ==
    ASSUME NEW b, NEW S, NEW g, IsSum(b, S, g), NEW U \in SUBSET S
    PROVE  IsSum(b, U, [s \in SUBSET U |-> g[s]])
<1> DEFINE h == [s \in SUBSET U |-> g[s]]
<1>1. ASSUME NEW s \in SUBSET U
      PROVE  h[s] = IF s = {} THEN 0 ELSE b[Pick(s)].planned + h[s \ {Pick(s)}]
  <2>1. s \in SUBSET S /\ s \ {Pick(s)} \in SUBSET U
    OBVIOUS
  <2>2. g[s] = IF s = {} THEN 0 ELSE b[Pick(s)].planned + g[s \ {Pick(s)}]
    BY <2>1 DEF IsSum
  <2> QED BY <2>1, <2>2
<1> HIDE DEF h
<1>2. h = [s \in SUBSET U |-> h[s]]
  BY DEF h
<1>3. IsSum(b, U, h)
  BY <1>1, <1>2 DEF IsSum
<1> QED BY <1>3 DEF h

\* There is a sum.
LEMMA SumExists ==
    ASSUME NEW b, NEW S, IsFiniteSet(S)
    PROVE  \E g : IsSum(b, S, g)
<1> DEFINE B == {s \in SUBSET S : ~\E g : IsSum(b, s, g)}
<1> SUFFICES ASSUME B # {} PROVE FALSE
  OBVIOUS
<1>1. PICK A \in B : \A r \in SUBSET A : r # A => r \notin B
  <2>1. B \subseteq SUBSET S
    OBVIOUS
  <2> HIDE DEF B
  <2> QED BY <2>1, LeastSubset
<1> DEFINE G(s) == CHOOSE g : IsSum(b, s, g)
           V(s) == G(s)[s]
           g == [s \in SUBSET A |-> IF s = {} THEN 0 ELSE b[Pick(s)].planned + V(s \ {Pick(s)})]
<1>2. ASSUME NEW r \in SUBSET A, r # A PROVE IsFiniteSet(r) /\ IsSum(b, r, G(r))
  <2>1. r \in SUBSET S /\ r \notin B
    BY <1>1, <1>2
  <2>2. \E h : IsSum(b, r, h)
    BY <2>1
  <2>3. IsFiniteSet(r)
    BY <2>1, FS_Subset
  <2> QED BY <2>2, <2>3
<1>3. ASSUME NEW r \in SUBSET A, r # A
      PROVE  V(r) = g[r]
  <2>1. V(r) = IF r = {} THEN 0 ELSE b[Pick(r)].planned + G(r)[r \ {Pick(r)}]
    <3>1. IsSum(b, r, G(r)) /\ r \in SUBSET r
      BY <1>2, <1>3
    <3> HIDE DEF G
    <3> QED BY <3>1, SumStep
  <2>2. CASE r = {}
    BY <2>1, <2>2
  <2>3. CASE r # {}
    <3> DEFINE u == r \ {Pick(r)}
    <3>1. u \in SUBSET r /\ u \in SUBSET A /\ u # A
      BY <1>3, <2>3, PickIn
    <3>2. IsSum(b, u, [s \in SUBSET u |-> G(r)[s]])
      BY <1>2, <1>3, <3>1, SumRestrict
    <3>3. IsSum(b, u, G(u)) /\ IsFiniteSet(u)
      BY <1>2, <3>1
    <3>4. \A s \in SUBSET u : G(u)[s] = [t \in SUBSET u |-> G(r)[t]][s]
      <4> HIDE DEF G, u
      <4> QED BY <3>2, <3>3, SumUnique
    <3>5. V(u) = G(r)[u]
      BY <3>4
    <3> QED BY <2>1, <2>3, <3>5
  <2> QED BY <2>2, <2>3
<1>4. ASSUME NEW s \in SUBSET A, s # {} PROVE V(s \ {Pick(s)}) = g[s \ {Pick(s)}]
  BY <1>3, <1>4, PickIn
<1> HIDE DEF V
<1>5. ASSUME NEW s \in SUBSET A
      PROVE  g[s] = IF s = {} THEN 0 ELSE b[Pick(s)].planned + g[s \ {Pick(s)}]
  BY <1>4, <1>5
<1>6. g = [s \in SUBSET A |-> g[s]]
  OBVIOUS
<1> HIDE DEF g
<1>7. IsSum(b, A, g)
  BY <1>5, <1>6 DEF IsSum
<1> QED BY <1>1, <1>7

\* The function that sums over the subsets of a finite set.
LEMMA SumOfIsSum ==
    ASSUME NEW b, NEW S, IsFiniteSet(S)
    PROVE  IsSum(b, S, CHOOSE g : IsSum(b, S, g))
  BY SumExists

\* The sum over a set is what its first element adds to the sum over the others.
LEMMA SumFirst ==
    ASSUME NEW b, NEW S, IsFiniteSet(S)
    PROVE  SumOf(b, S) = IF S = {} THEN 0 ELSE b[Pick(S)].planned + SumOf(b, S \ {Pick(S)})
<1> DEFINE g == CHOOSE h : IsSum(b, S, h)
           U == S \ {Pick(S)}
           k == CHOOSE h : IsSum(b, U, h)
<1>1. U \in SUBSET S /\ S \in SUBSET S /\ IsFiniteSet(U)
  BY FS_RemoveElement
<1>2. IsSum(b, S, g) /\ IsSum(b, U, k)
  BY <1>1, SumOfIsSum
<1>3. SumOf(b, S) = g[S] /\ SumOf(b, U) = k[U]
  BY DEF SumOf
<1> HIDE DEF g, k
<1>4. g[S] = IF S = {} THEN 0 ELSE b[Pick(S)].planned + g[U]
  BY <1>1, <1>2, SumStep
<1>5. IsSum(b, U, [s \in SUBSET U |-> g[s]])
  BY <1>1, <1>2, SumRestrict
<1>6. \A s \in SUBSET U : [t \in SUBSET U |-> g[t]][s] = k[s]
  <2> HIDE DEF U
  <2> QED BY <1>1, <1>2, <1>5, SumUnique
<1>7. g[U] = k[U]
  <2>1. U \in SUBSET U
    OBVIOUS
  <2> QED BY <1>6, <2>1
<1> QED BY <1>3, <1>4, <1>7

\* What a set of spans plans: amounts are numbers.
Amounts(b, S) == \A i \in S : b[i].planned \in Nat

\* A sum of amounts is an amount.
LEMMA SumType ==
    ASSUME NEW b, NEW S, IsFiniteSet(S), Amounts(b, S)
    PROVE  SumOf(b, S) \in Nat
<1> DEFINE B == {s \in SUBSET S : SumOf(b, s) \notin Nat}
<1> SUFFICES ASSUME B # {} PROVE FALSE
  OBVIOUS
<1>1. PICK s \in B : \A r \in SUBSET s : r # s => r \notin B
  <2>1. B \subseteq SUBSET S
    OBVIOUS
  <2> HIDE DEF B
  <2> QED BY <2>1, LeastSubset
<1>2. IsFiniteSet(s)
  BY FS_Subset
<1> DEFINE x == Pick(s)
<1>3. SumOf(b, s) = IF s = {} THEN 0 ELSE b[x].planned + SumOf(b, s \ {x})
  BY <1>2, SumFirst
<1>4. s # {} /\ x \in s
  BY <1>3, PickIn
<1>5. SumOf(b, s \ {x}) \in Nat
  BY <1>1, <1>4
<1>6. b[x].planned \in Nat
  BY <1>4 DEF Amounts
<1> QED BY <1>3, <1>4, <1>5, <1>6

\* Any element may be taken out first.
LEMMA SumRemove ==
    ASSUME NEW b, NEW S, IsFiniteSet(S), Amounts(b, S), NEW e \in S
    PROVE  SumOf(b, S) = b[e].planned + SumOf(b, S \ {e})
<1> DEFINE B == {s \in SUBSET S : \E i \in s : SumOf(b, s) # b[i].planned + SumOf(b, s \ {i})}
<1> SUFFICES ASSUME B # {} PROVE FALSE
  OBVIOUS
<1>1. PICK s \in B : \A r \in SUBSET s : r # s => r \notin B
  <2>1. B \subseteq SUBSET S
    OBVIOUS
  <2> HIDE DEF B
  <2> QED BY <2>1, LeastSubset
<1>2. PICK i \in s : SumOf(b, s) # b[i].planned + SumOf(b, s \ {i})
  OBVIOUS
<1>3. IsFiniteSet(s)
  BY FS_Subset
<1> DEFINE x == Pick(s)
<1>4. x \in s /\ SumOf(b, s) = b[x].planned + SumOf(b, s \ {x})
  BY <1>2, <1>3, SumFirst, PickIn
<1>5. x # i
  BY <1>2, <1>4
<1>6. SumOf(b, s \ {x}) = b[i].planned + SumOf(b, (s \ {x}) \ {i})
  BY <1>1, <1>4, <1>5
<1>7. SumOf(b, s \ {i}) = b[x].planned + SumOf(b, (s \ {i}) \ {x})
  BY <1>1, <1>4, <1>5
<1>8. (s \ {i}) \ {x} = (s \ {x}) \ {i}
  OBVIOUS
<1>9. IsFiniteSet((s \ {x}) \ {i}) /\ Amounts(b, (s \ {x}) \ {i})
  BY <1>3, FS_RemoveElement DEF Amounts
<1>10. SumOf(b, (s \ {x}) \ {i}) \in Nat /\ b[i].planned \in Nat /\ b[x].planned \in Nat
  BY <1>4, <1>9, SumType DEF Amounts
<1> HIDE DEF x
<1> QED BY <1>2, <1>4, <1>6, <1>7, <1>8, <1>10

\* The sum depends on nothing but the amounts.
LEMMA SumSame ==
    ASSUME NEW b, NEW c, NEW S, IsFiniteSet(S), \A i \in S : b[i].planned = c[i].planned
    PROVE  SumOf(b, S) = SumOf(c, S)
<1> DEFINE B == {s \in SUBSET S : SumOf(b, s) # SumOf(c, s)}
<1> SUFFICES ASSUME B # {} PROVE FALSE
  OBVIOUS
<1>1. PICK s \in B : \A r \in SUBSET s : r # s => r \notin B
  <2>1. B \subseteq SUBSET S
    OBVIOUS
  <2> HIDE DEF B
  <2> QED BY <2>1, LeastSubset
<1>2. IsFiniteSet(s)
  BY FS_Subset
<1> DEFINE x == Pick(s)
<1>3. /\ SumOf(b, s) = IF s = {} THEN 0 ELSE b[x].planned + SumOf(b, s \ {x})
      /\ SumOf(c, s) = IF s = {} THEN 0 ELSE c[x].planned + SumOf(c, s \ {x})
  BY <1>2, SumFirst
<1>4. s # {} /\ x \in s
  BY <1>3, PickIn
<1>5. SumOf(b, s \ {x}) = SumOf(c, s \ {x})
  BY <1>1, <1>4
<1> QED BY <1>3, <1>4, <1>5

(***************************************************************************)
(* What the spans take at a time.                                          *)
(***************************************************************************)
InUse(b, t) == {i \in DOMAIN b : b[i].start <= t /\ t < b[i].last}

Use(b, t) == SumOf(b, InUse(b, t))

\* What the timeline counts as used is what the planner's spans take.
LEMMA UsedIsUse ==
    ASSUME NEW ty, NEW b, NEW t
    PROVE  Resource(ty)!Used(b, t) = Use(b, t)
  BY DEF Resource!Used, Resource!MapThenSumSet, Resource!MapThenFoldSet, Use, SumOf, IsSum, InUse, Pick

\* What bookings b with ids up to n promise: spans of the plan, none of them empty.
Bookings(b, from, to, n) ==
    /\ b = [i \in DOMAIN b |-> b[i]]
    /\ IsFiniteSet(DOMAIN b)
    /\ \A i \in DOMAIN b : /\ i \in 1 .. n /\ b[i] \in Span
                           /\ from <= b[i].start /\ b[i].start < b[i].last /\ b[i].last <= to

\* How often spans start or end at a time; the start of the plan has one more.
Refs(b, base, t) ==
    Cardinality({i \in DOMAIN b : b[i].start = t}) + Cardinality({i \in DOMAIN b : b[i].last = t})
      + (IF t = base THEN 1 ELSE 0)

\* The types of the bookings and of what is computed from them.
LEMMA BookingTypes ==
    ASSUME NEW b, NEW from, NEW to, NEW n, Bookings(b, from, to, n)
    PROVE  /\ \A i \in DOMAIN b : b[i].start \in Nat /\ b[i].last \in Nat /\ b[i].planned \in Nat
           /\ \A i \in DOMAIN b : b[i] = [start |-> b[i].start, last |-> b[i].last,
                                          planned |-> b[i].planned]
           /\ \A t : IsFiniteSet(InUse(b, t)) /\ Amounts(b, InUse(b, t))
           /\ \A t : Use(b, t) \in Nat
           /\ \A base, t : Refs(b, base, t) \in Nat
<1>1. \A i \in DOMAIN b : b[i].start \in Nat /\ b[i].last \in Nat /\ b[i].planned \in Nat
  BY DEF Bookings, Span
<1>2. \A i \in DOMAIN b : b[i] = [start |-> b[i].start, last |-> b[i].last,
                                  planned |-> b[i].planned]
  BY DEF Bookings, Span
<1>3. ASSUME NEW t PROVE IsFiniteSet(InUse(b, t)) /\ Amounts(b, InUse(b, t))
  <2>1. InUse(b, t) \in SUBSET DOMAIN b
    BY DEF InUse
  <2>2. IsFiniteSet(DOMAIN b)
    BY DEF Bookings
  <2> QED BY <1>1, <2>1, <2>2, FS_Subset DEF Amounts
<1>4. ASSUME NEW t PROVE Use(b, t) \in Nat
  BY <1>3, SumType DEF Use
<1>5. ASSUME NEW base, NEW t PROVE Refs(b, base, t) \in Nat
  <2> DEFINE S == {i \in DOMAIN b : b[i].start = t}
             L == {i \in DOMAIN b : b[i].last = t}
  <2>1. S \in SUBSET DOMAIN b /\ L \in SUBSET DOMAIN b /\ IsFiniteSet(DOMAIN b)
    BY DEF Bookings
  <2> HIDE DEF S, L
  <2>2. Cardinality(S) \in Nat /\ Cardinality(L) \in Nat
    BY <2>1, FS_Subset, FS_CardinalityType
  <2>3. Refs(b, base, t) = Cardinality(S) + Cardinality(L) + (IF t = base THEN 1 ELSE 0)
    BY DEF Refs, S, L
  <2> QED BY <2>2, <2>3
<1> QED BY <1>1, <1>2, <1>3, <1>4, <1>5

\* What one span takes and what the others take.
LEMMA UseSplit ==
    ASSUME NEW b, NEW t, NEW e, IsFiniteSet(InUse(b, t)), Amounts(b, InUse(b, t))
    PROVE  /\ Use(b, t) = (IF e \in InUse(b, t) THEN b[e].planned ELSE 0)
                            + SumOf(b, InUse(b, t) \ {e})
           /\ SumOf(b, InUse(b, t) \ {e}) \in Nat
<1> DEFINE S == InUse(b, t)
<1>0. IsFiniteSet(S) /\ Amounts(b, S) /\ Use(b, t) = SumOf(b, S)
  BY DEF Use
<1> HIDE DEF S
<1>1. IsFiniteSet(S \ {e}) /\ Amounts(b, S \ {e})
  BY <1>0, FS_RemoveElement DEF Amounts
<1>2. SumOf(b, S \ {e}) \in Nat
  BY <1>1, SumType
<1>3. CASE e \in S
  <2>1. SumOf(b, S) = b[e].planned + SumOf(b, S \ {e})
    BY <1>0, <1>3, SumRemove
  <2> QED BY <1>0, <1>2, <1>3, <2>1 DEF S
<1>4. CASE e \notin S
  <2>1. S \ {e} = S
    BY <1>4
  <2>2. Use(b, t) = 0 + SumOf(b, S \ {e})
    BY <1>0, <1>2, <2>1
  <2> QED BY <1>2, <1>4, <2>2 DEF S
<1> QED BY <1>3, <1>4

\* Bookings that differ in one: what they take differs by that one.
LEMMA UseChange ==
    ASSUME NEW b, NEW from, NEW to, NEW n, Bookings(b, from, to, n),
           NEW c, NEW k, Bookings(c, from, to, k), NEW e,
           DOMAIN b \ {e} = DOMAIN c \ {e}, \A i \in DOMAIN b \ {e} : b[i] = c[i], NEW t
    PROVE  Use(c, t) = Use(b, t) - (IF e \in InUse(b, t) THEN b[e].planned ELSE 0)
                                 + (IF e \in InUse(c, t) THEN c[e].planned ELSE 0)
<1>1. InUse(b, t) \ {e} = InUse(c, t) \ {e}
  BY DEF InUse
<1>2. \A i \in InUse(b, t) \ {e} : b[i].planned = c[i].planned
  BY DEF InUse
<1>3. /\ IsFiniteSet(InUse(b, t)) /\ Amounts(b, InUse(b, t))
      /\ IsFiniteSet(InUse(c, t)) /\ Amounts(c, InUse(c, t))
  BY BookingTypes
<1>4. IsFiniteSet(InUse(b, t) \ {e})
  BY <1>3, FS_RemoveElement
<1>5. SumOf(b, InUse(b, t) \ {e}) = SumOf(c, InUse(c, t) \ {e})
  <2> DEFINE D == InUse(b, t) \ {e}
  <2>1. IsFiniteSet(D) /\ \A i \in D : b[i].planned = c[i].planned
    BY <1>2, <1>4
  <2>2. SumOf(b, D) = SumOf(c, D)
    <3> HIDE DEF D
    <3> QED BY <2>1, SumSame
  <2> QED BY <1>1, <2>2
<1>6. /\ Use(b, t) = (IF e \in InUse(b, t) THEN b[e].planned ELSE 0) + SumOf(b, InUse(b, t) \ {e})
      /\ SumOf(b, InUse(b, t) \ {e}) \in Nat
      /\ Use(c, t) = (IF e \in InUse(c, t) THEN c[e].planned ELSE 0) + SumOf(c, InUse(c, t) \ {e})
  BY <1>3, UseSplit
<1>7. /\ (IF e \in InUse(b, t) THEN b[e].planned ELSE 0) \in Nat
      /\ (IF e \in InUse(c, t) THEN c[e].planned ELSE 0) \in Nat
  BY <1>3 DEF Amounts
<1> QED BY <1>5, <1>6, <1>7

\* One booking more or less refers once more or less to its start and its end.
LEMMA RefsMore ==
    ASSUME NEW b, NEW from, NEW to, NEW n, Bookings(b, from, to, n),
           NEW c, NEW k, Bookings(c, from, to, k), NEW e,
           DOMAIN c = DOMAIN b \cup {e}, e \notin DOMAIN b, \A i \in DOMAIN b : b[i] = c[i],
           NEW t, NEW base
    PROVE  Refs(c, base, t) = Refs(b, base, t) + (IF t = c[e].start THEN 1 ELSE 0)
                                               + (IF t = c[e].last THEN 1 ELSE 0)
<1> DEFINE S(x) == {i \in DOMAIN x : x[i].start = t}
           L(x) == {i \in DOMAIN x : x[i].last = t}
<1>1. /\ S(c) = IF t = c[e].start THEN S(b) \cup {e} ELSE S(b)
      /\ L(c) = IF t = c[e].last THEN L(b) \cup {e} ELSE L(b)
      /\ e \notin S(b) /\ e \notin L(b)
  OBVIOUS
<1>2. /\ S(b) \in SUBSET DOMAIN b /\ L(b) \in SUBSET DOMAIN b /\ IsFiniteSet(DOMAIN b)
  BY DEF Bookings
<1>3. /\ Refs(b, base, t) = Cardinality(S(b)) + Cardinality(L(b)) + (IF t = base THEN 1 ELSE 0)
      /\ Refs(c, base, t) = Cardinality(S(c)) + Cardinality(L(c)) + (IF t = base THEN 1 ELSE 0)
  BY DEF Refs
<1> HIDE DEF S, L
<1>4. IsFiniteSet(S(b)) /\ IsFiniteSet(L(b)) /\ Cardinality(S(b)) \in Nat /\ Cardinality(L(b)) \in Nat
  BY <1>2, FS_Subset, FS_CardinalityType
<1>5. Cardinality(S(c)) = Cardinality(S(b)) + (IF t = c[e].start THEN 1 ELSE 0)
  <2>1. Cardinality(S(b) \cup {e}) = Cardinality(S(b)) + 1
    BY <1>1, <1>4, FS_AddElement
  <2> QED BY <1>1, <1>4, <2>1
<1>6. Cardinality(L(c)) = Cardinality(L(b)) + (IF t = c[e].last THEN 1 ELSE 0)
  <2>1. Cardinality(L(b) \cup {e}) = Cardinality(L(b)) + 1
    BY <1>1, <1>4, FS_AddElement
  <2> QED BY <1>1, <1>4, <2>1
<1> QED BY <1>3, <1>4, <1>5, <1>6

(***************************************************************************)
(* The state in force at a time.                                           *)
(***************************************************************************)
\* A set of numbers has a least one.
LEMMA LeastNumber ==
    ASSUME NEW B, B \subseteq Nat, B # {}
    PROVE  \E n \in B : \A k \in B : n <= k
<1>1. PICK n \in B : \A k \in B : ~(<<k, n>> \in OpToRel(<, Nat))
  BY NatLessThanWellFounded, WFMin
<1>2. ASSUME NEW k \in B PROVE n <= k
  <2>1. <<k, n>> \in Nat \X Nat
    OBVIOUS
  <2> QED BY <1>1, <2>1 DEF OpToRel
<1> QED BY <1>2

\* The minimum of a set of numbers is in it.
LEMMA MinIs ==
    ASSUME NEW B, B \subseteq Nat, B # {}
    PROVE  Min(B) \in B /\ \A k \in B : Min(B) <= k
<1>1. \E n \in B : \A k \in B : n <= k
  BY LeastNumber
<1> QED BY <1>1 DEF Min

\* The maximum of a bounded set of numbers is in it.
LEMMA MaxIs ==
    ASSUME NEW B, B \subseteq Nat, B # {}, NEW u \in Nat, \A k \in B : k <= u
    PROVE  Max(B) \in B /\ \A k \in B : k <= Max(B)
<1> DEFINE U == {n \in Nat : \A k \in B : k <= n}
<1>1. PICK n \in U : \A k \in U : n <= k
  <2>1. U \subseteq Nat /\ U # {}
    OBVIOUS
  <2> HIDE DEF U
  <2> QED BY <2>1, LeastNumber
<1>2. n \in B
  <2> SUFFICES ASSUME n \notin B PROVE FALSE
    OBVIOUS
  <2>1. \A k \in B : k < n
    OBVIOUS
  <2>2. n \in Nat /\ n - 1 \in Nat
    <3>1. PICK k \in B : TRUE
      OBVIOUS
    <3> QED BY <2>1, <3>1
  <2>3. \A k \in B : k <= n - 1
    BY <2>1, <2>2
  <2>4. n - 1 \in U
    BY <2>2, <2>3
  <2> QED BY <1>1, <2>2, <2>4
<1>3. \E x \in B : \A y \in B : x >= y
  BY <1>2
<1>4. Max(B) \in B /\ \A y \in B : Max(B) >= y
  BY <1>3 DEF Max
<1> QED BY <1>4

PlannerFields ==
    {"total", "start", "end", "points", "mintime", "tracked", "iter_set", "request", "spans",
     "counter"}

\* The points of planner p show what the bookings b take, and spans start and end
\* at points.
Charts(p, b) ==
    /\ DOMAIN p = PlannerFields
    /\ p.start \in Nat /\ p.end \in Nat
    /\ p.points \in [Times(p) -> ScheduledPoint]
    /\ Times(p) \subseteq p.start .. p.end /\ p.start \in Times(p)
    /\ \A i \in DOMAIN b : b[i].start \in Times(p) /\ b[i].last \in Times(p)
    /\ \A t \in Times(p) : p.points[t].scheduled = Use(b, t)

\* The state in force is the last point at or before a time.
LEMMA StateInForce ==
    ASSUME NEW p, NEW b, Charts(p, b), NEW t \in Nat, p.start <= t
    PROVE  /\ get_state(p, t) \in Times(p) /\ get_state(p, t) <= t
           /\ \A u \in Times(p) : u <= t => u <= get_state(p, t)
           /\ HasState(p, t)
<1> DEFINE B == {u \in Times(p) : u <= t}
<1>1. B \subseteq Nat /\ B # {} /\ \A k \in B : k <= t
  BY DEF Charts
<1>2. Max(B) \in B /\ \A k \in B : k <= Max(B)
  <2> HIDE DEF B
  <2> QED BY <1>1, MaxIs
<1>3. get_state(p, t) = Max(B)
  BY DEF get_state
<1> HIDE DEF B
<1>4. \A u : u \in B <=> u \in Times(p) /\ u <= t
  BY DEF B
<1> QED BY <1>2, <1>3, <1>4 DEF HasState

\* Between two points nothing starts or ends.
LEMMA UseInForce ==
    ASSUME NEW p, NEW b, NEW n, Charts(p, b), Bookings(b, p.start, p.end, n),
           NEW t \in Nat, p.start <= t
    PROVE  /\ InUse(b, t) = InUse(b, get_state(p, t))
           /\ p.points[get_state(p, t)].scheduled = Use(b, t)
<1> DEFINE s == get_state(p, t)
<1>1. /\ s \in Times(p) /\ s <= t /\ s \in Nat
      /\ \A u \in Times(p) : u <= t => u <= s
  <2>1. /\ s \in Times(p) /\ s <= t
        /\ \A u \in Times(p) : u <= t => u <= s
    BY StateInForce
  <2>2. Times(p) \subseteq Nat
    BY DEF Charts
  <2> QED BY <2>1, <2>2
<1>2. ASSUME NEW i \in DOMAIN b
      PROVE  i \in InUse(b, t) <=> i \in InUse(b, s)
  <2>1. b[i].start \in Times(p) /\ b[i].last \in Times(p) /\ b[i].start \in Nat /\ b[i].last \in Nat
    BY BookingTypes DEF Charts
  <2> QED BY <1>1, <2>1 DEF InUse
<1>3. InUse(b, t) = InUse(b, s)
  BY <1>2 DEF InUse
<1> QED BY <1>1, <1>3 DEF Charts, Use

(***************************************************************************)
(* What the helpers of the planner do, field by field.                     *)
(***************************************************************************)
\* All but the two trees is as it was.
Rest(p, r) ==
    /\ DOMAIN r = PlannerFields
    /\ r.total = p.total /\ r.start = p.start /\ r.end = p.end
    /\ r.iter_set = p.iter_set /\ r.request = p.request
    /\ r.spans = p.spans /\ r.counter = p.counter

\* restore_track_points puts every tracked point back into the min-time tree.
LEMMA Restored ==
    ASSUME NEW p, DOMAIN p = PlannerFields
    PROVE  LET r == restore_track_points(p)
           IN  /\ Rest(p, r) /\ r.points = p.points /\ r.tracked = {}
               /\ DOMAIN r.mintime = DOMAIN p.mintime \cup p.tracked
               /\ \A t \in DOMAIN r.mintime :
                     r.mintime[t] = IF t \in p.tracked THEN p.points[t].remaining ELSE p.mintime[t]
  BY DEF restore_track_points, Rest, PlannerFields

\* get_or_new_point: the new point says what the one in force before it says.
LEMMA PointAdded ==
    ASSUME NEW p, NEW b, NEW n, Charts(p, b), Bookings(b, p.start, p.end, n),
           NEW at \in p.start .. p.end
    PROVE  LET r == get_or_new_point(p, at)
           IN  /\ Rest(p, r) /\ Charts(r, b) /\ Times(r) = Times(p) \cup {at}
               /\ \A t \in Times(p) : r.points[t] = p.points[t]
               /\ at \notin Times(p) =>
                     /\ r.points[at].ref_count = 0
                     /\ r.points[at].remaining = p.points[get_state(p, at)].remaining
                     /\ r.points[at].scheduled = p.points[get_state(p, at)].scheduled
               /\ r.tracked = p.tracked
               /\ at \notin Times(p) =>
                     /\ DOMAIN r.mintime = DOMAIN p.mintime \cup {at}
                     /\ r.mintime[at] = r.points[at].remaining
                     /\ \A t \in DOMAIN p.mintime : t # at => r.mintime[t] = p.mintime[t]
               /\ at \in Times(p) => r = p
<1> DEFINE r == get_or_new_point(p, at)
<1>1. CASE at \in Times(p)
  <2>1. r = p
    BY <1>1 DEF get_or_new_point
  <2> QED BY <1>1, <2>1 DEF Rest, Charts
<1>2. CASE at \notin Times(p)
  <2> DEFINE s == get_state(p, at)
             x == [p.points[s] EXCEPT !.ref_count = 0]
             P == [t \in Times(p) \cup {at} |-> IF t = at THEN x ELSE p.points[t]]
             M == [t \in DOMAIN p.mintime \cup {at} |->
                     IF t = at THEN p.points[s].remaining ELSE p.mintime[t]]
  <2>0. DOMAIN p = PlannerFields /\ p.start \in Nat /\ p.end \in Nat /\ at \in Nat /\ p.start <= at
    BY DEF Charts
  <2>1. r = [p EXCEPT !.points = P, !.mintime = M]
    BY <1>2 DEF get_or_new_point
  <2>2. /\ s \in Times(p) /\ p.points[s] \in ScheduledPoint
        /\ p.points[s].scheduled = Use(b, at)
    <3>1. s \in Times(p)
      BY <2>0, StateInForce
    <3>2. p.points[s].scheduled = Use(b, at)
      BY <2>0, UseInForce
    <3> QED BY <3>1, <3>2 DEF Charts
  <2>3. /\ x \in ScheduledPoint /\ x.ref_count = 0 /\ x.remaining = p.points[s].remaining
        /\ x.scheduled = p.points[s].scheduled
    BY <2>2 DEF ScheduledPoint
  <2> HIDE DEF x, s
  <2>4. /\ DOMAIN P = Times(p) \cup {at} /\ P[at] = x
        /\ \A t \in Times(p) : P[t] = p.points[t]
    BY <1>2
  <2>5. /\ DOMAIN M = DOMAIN p.mintime \cup {at} /\ M[at] = p.points[s].remaining
        /\ \A t \in DOMAIN p.mintime : t # at => M[t] = p.mintime[t]
    OBVIOUS
  <2>6. P \in [Times(p) \cup {at} -> ScheduledPoint]
    <3>1. p.points \in [Times(p) -> ScheduledPoint]
      BY DEF Charts
    <3> QED BY <2>3, <3>1
  <2> HIDE DEF P, M
  <2>7. Rest(p, r) /\ r.points = P /\ r.mintime = M /\ r.tracked = p.tracked
    BY <2>0, <2>1 DEF Rest, PlannerFields
  <2> HIDE DEF r
  <2>8. Times(r) = Times(p) \cup {at}
    BY <2>4, <2>7 DEF Times
  <2>9. Charts(r, b)
    BY <2>0, <2>2, <2>3, <2>4, <2>6, <2>7, <2>8 DEF Charts, Rest
  <2>10. /\ r.points[at].ref_count = 0
         /\ r.points[at].remaining = p.points[s].remaining
         /\ r.points[at].scheduled = p.points[s].scheduled
         /\ DOMAIN r.mintime = DOMAIN p.mintime \cup {at}
         /\ r.mintime[at] = r.points[at].remaining
         /\ \A t \in DOMAIN p.mintime : t # at => r.mintime[t] = p.mintime[t]
         /\ \A t \in Times(p) : r.points[t] = p.points[t]
    BY <2>3, <2>4, <2>5, <2>7
  <2> QED BY <1>2, <2>7, <2>8, <2>9, <2>10 DEF r, s
<1> QED BY <1>1, <1>2

\* References are counted, and nothing else changes.
LEMMA RefCounted ==
    ASSUME NEW p, NEW b, Charts(p, b), NEW at \in Times(p), NEW d \in {-1, 1},
           p.points[at].ref_count + d \in Nat
    PROVE  LET r == IF d = 1 THEN IncrRef(p, at) ELSE DecrRef(p, at)
           IN  /\ Rest(p, r) /\ Charts(r, b) /\ Times(r) = Times(p)
               /\ r.mintime = p.mintime /\ r.tracked = p.tracked
               /\ \A t \in Times(p) :
                     /\ r.points[t].ref_count = p.points[t].ref_count + (IF t = at THEN d ELSE 0)
                     /\ r.points[t].scheduled = p.points[t].scheduled
                     /\ r.points[t].remaining = p.points[t].remaining
<1> DEFINE r == IF d = 1 THEN IncrRef(p, at) ELSE DecrRef(p, at)
           x == [p.points[at] EXCEPT !.ref_count = @ + d]
           P == [p.points EXCEPT ![at] = x]
<1>0. /\ DOMAIN p = PlannerFields /\ p.points \in [Times(p) -> ScheduledPoint]
      /\ p.points[at] \in ScheduledPoint
  BY DEF Charts
<1>1. r = [p EXCEPT !.points = P]
  BY <1>0 DEF IncrRef, DecrRef, PlannerFields, ScheduledPoint, Times
<1>2. /\ x \in ScheduledPoint /\ x.ref_count = p.points[at].ref_count + d
      /\ x.remaining = p.points[at].remaining /\ x.scheduled = p.points[at].scheduled
  BY <1>0 DEF ScheduledPoint
<1> HIDE DEF x
<1>3. /\ P \in [Times(p) -> ScheduledPoint] /\ DOMAIN P = Times(p) /\ P[at] = x
      /\ \A t \in Times(p) : t # at => P[t] = p.points[t]
  BY <1>0, <1>2
<1> HIDE DEF P
<1>4. Rest(p, r) /\ r.points = P /\ r.mintime = p.mintime /\ r.tracked = p.tracked
  BY <1>0, <1>1 DEF Rest, PlannerFields
<1> HIDE DEF r
<1>5. Times(r) = Times(p)
  BY <1>3, <1>4 DEF Times
<1>6. \A t \in Times(p) :
         /\ r.points[t].ref_count = p.points[t].ref_count + (IF t = at THEN d ELSE 0)
         /\ r.points[t].scheduled = p.points[t].scheduled
         /\ r.points[t].remaining = p.points[t].remaining
  <2> TAKE t \in Times(p)
  <2>1. p.points[t].ref_count \in Nat
    BY <1>0 DEF ScheduledPoint
  <2> QED BY <1>2, <1>3, <1>4, <2>1
<1>7. Charts(r, b)
  BY <1>3, <1>4, <1>5, <1>6 DEF Charts, Rest
<1> QED BY <1>4, <1>5, <1>6, <1>7 DEF r

\* A point at which more is planned.
LEMMA PointTakes ==
    ASSUME NEW y \in ScheduledPoint, NEW n \in Int
    PROVE  LET z == TakeFrom(y, n)
           IN  /\ z \in ScheduledPoint /\ y.scheduled \in Int /\ y.remaining \in Int
               /\ z.ref_count = y.ref_count
               /\ z.scheduled = y.scheduled + n /\ z.remaining = y.remaining - n
<1> DEFINE a == y.scheduled + n
           c == y.remaining - n
           z == [y EXCEPT !.scheduled = a, !.remaining = c]
<1>1. y.scheduled \in Int /\ y.remaining \in Int /\ a \in Int /\ c \in Int
  BY DEF ScheduledPoint
<1>2. z = TakeFrom(y, n)
  BY DEF ScheduledPoint, TakeFrom
<1> HIDE DEF a, c
<1>3. z \in ScheduledPoint /\ z.ref_count = y.ref_count /\ z.scheduled = a /\ z.remaining = c
  BY <1>1 DEF ScheduledPoint
<1> HIDE DEF z
<1> QED BY <1>1, <1>2, <1>3 DEF a, c

\* Planner r is p with n more planned at the points of list.
Takes(p, list, n, r) ==
    /\ Rest(p, r) /\ Times(r) = Times(p) /\ r.points \in [Times(r) -> ScheduledPoint]
    /\ r.tracked = p.tracked
    /\ \A t \in Times(p) :
          /\ r.points[t].ref_count = p.points[t].ref_count
          /\ r.points[t].scheduled = p.points[t].scheduled + (IF t \in list THEN n ELSE 0)
          /\ r.points[t].remaining = p.points[t].remaining - (IF t \in list THEN n ELSE 0)
    /\ DOMAIN r.mintime = (DOMAIN p.mintime \ list) \cup {t \in list : p.points[t].ref_count > 0}
    /\ \A t \in DOMAIN r.mintime :
          r.mintime[t] = IF t \in list THEN r.points[t].remaining ELSE p.mintime[t]

\* Points take or give back an amount, and the min-time tree is told.
LEMMA PointsUpdated ==
    ASSUME NEW p, DOMAIN p = PlannerFields, p.points \in [Times(p) -> ScheduledPoint],
           NEW list, list \subseteq Times(p), NEW n \in Int
    PROVE  Takes(p, list, n, update_mintime_resource_tree(UpdatePoints(p, list, n), list))
<1> DEFINE x(t) == TakeFrom(p.points[t], n)
           P == [t \in Times(p) |-> IF t \in list THEN x(t) ELSE p.points[t]]
           o == UpdatePoints(p, list, n)
           r == update_mintime_resource_tree(o, list)
<1>1. o = [p EXCEPT !.points = P]
  BY DEF UpdatePoints
<1>2. ASSUME NEW t \in Times(p)
      PROVE  /\ p.points[t] \in ScheduledPoint /\ x(t) \in ScheduledPoint
             /\ x(t).ref_count = p.points[t].ref_count
             /\ x(t).scheduled = p.points[t].scheduled + n
             /\ x(t).remaining = p.points[t].remaining - n
             /\ p.points[t].scheduled \in Int /\ p.points[t].remaining \in Int
  <2>1. p.points[t] \in ScheduledPoint
    BY <1>2
  <2> QED BY <2>1, PointTakes
<1> HIDE DEF x
<1>3. P \in [Times(p) -> ScheduledPoint]
  BY <1>2
<1>4. ASSUME NEW t \in Times(p)
      PROVE  /\ P[t].ref_count = p.points[t].ref_count
             /\ P[t].scheduled = p.points[t].scheduled + (IF t \in list THEN n ELSE 0)
             /\ P[t].remaining = p.points[t].remaining - (IF t \in list THEN n ELSE 0)
  BY <1>2, <1>4
<1> HIDE DEF P
<1>5. Rest(p, o) /\ o.points = P /\ o.mintime = p.mintime /\ o.tracked = p.tracked
  BY <1>1 DEF Rest, PlannerFields
<1> HIDE DEF o
<1> DEFINE D == (DOMAIN o.mintime \ list) \cup {t \in list : o.points[t].ref_count > 0}
           M == [t \in D |-> IF t \in list THEN o.points[t].remaining ELSE o.mintime[t]]
<1>6. r = [o EXCEPT !.mintime = M]
  BY <1>5 DEF update_mintime_resource_tree, Rest, PlannerFields
<1>7. DOMAIN M = D /\ \A t \in D : M[t] = IF t \in list THEN o.points[t].remaining ELSE o.mintime[t]
  OBVIOUS
<1> HIDE DEF M
<1>8. Rest(p, r) /\ r.points = P /\ r.mintime = M /\ r.tracked = p.tracked
  BY <1>5, <1>6 DEF Rest, PlannerFields
<1> HIDE DEF r
<1>9. Times(r) = Times(p)
  BY <1>3, <1>8 DEF Times
<1>10. D = (DOMAIN p.mintime \ list) \cup {t \in list : p.points[t].ref_count > 0}
  BY <1>4, <1>5
<1> HIDE DEF D
<1>11. \A t \in DOMAIN r.mintime :
          r.mintime[t] = IF t \in list THEN r.points[t].remaining ELSE p.mintime[t]
  BY <1>5, <1>7, <1>8
<1>12. Takes(p, list, n, r)
  BY <1>3, <1>4, <1>7, <1>8, <1>9, <1>10, <1>11 DEF Takes
<1> QED BY <1>12 DEF o, r

\* A point nothing refers to leaves both trees.
LEMMA PointDropped ==
    ASSUME NEW p, DOMAIN p = PlannerFields, p.points \in [Times(p) -> ScheduledPoint],
           NEW at \in Times(p)
    PROVE  LET r == DropUnreferenced(p, at)
               gone == IF p.points[at].ref_count = 0 THEN {at} ELSE {}
           IN  /\ Rest(p, r) /\ Times(r) = Times(p) \ gone
               /\ r.points \in [Times(r) -> ScheduledPoint]
               /\ r.tracked = p.tracked
               /\ \A t \in Times(r) : r.points[t] = p.points[t]
               /\ DOMAIN r.mintime = DOMAIN p.mintime \ gone
               /\ \A t \in DOMAIN r.mintime : r.mintime[t] = p.mintime[t]
<1> DEFINE r == DropUnreferenced(p, at)
<1>1. CASE p.points[at].ref_count # 0
  <2>1. r = p
    BY <1>1 DEF DropUnreferenced
  <2> QED BY <1>1, <2>1 DEF Rest
<1>2. CASE p.points[at].ref_count = 0
  <2> DEFINE P == Restrict(p.points, Times(p) \ {at})
             M == Restrict(p.mintime, DOMAIN p.mintime \ {at})
  <2>1. r = [p EXCEPT !.points = P, !.mintime = M]
    BY <1>2 DEF DropUnreferenced
  <2>2. /\ P \in [Times(p) \ {at} -> ScheduledPoint] /\ DOMAIN P = Times(p) \ {at}
        /\ \A t \in DOMAIN P : P[t] = p.points[t]
        /\ DOMAIN M = DOMAIN p.mintime \ {at} /\ \A t \in DOMAIN M : M[t] = p.mintime[t]
    BY DEF Restrict
  <2> HIDE DEF P, M
  <2>3. Rest(p, r) /\ r.points = P /\ r.mintime = M /\ r.tracked = p.tracked
    BY <2>1 DEF Rest, PlannerFields
  <2> HIDE DEF r
  <2>4. Times(r) = Times(p) \ {at}
    BY <2>2, <2>3 DEF Times
  <2> QED BY <1>2, <2>2, <2>3, <2>4 DEF r, Times
<1> QED BY <1>1, <1>2

(***************************************************************************)
(* The invariant of a planner and what the calls do to it.                 *)
(***************************************************************************)
\* An iteration that is under way was begun by a request that is not refused.
Asked(p) == p.iter_set = TRUE => p.request.duration >= 1

\* Every point is referred to as often as spans start or end at it, and is in the
\* min-time tree or tracked by an iteration, or both: a copy has the tracked points
\* in its tree as well.
Sound(p) ==
    /\ Charts(p, p.spans)
    /\ p.total \in Nat /\ p.counter \in Nat
    /\ Bookings(p.spans, p.start, p.end, p.counter)
    /\ \A t \in Times(p) : /\ p.points[t].ref_count = Refs(p.spans, p.start, t)
                           /\ p.points[t].ref_count > 0
    /\ p.tracked \subseteq Times(p) /\ DOMAIN p.mintime \cup p.tracked = Times(p)
    /\ p.request \in Request /\ Asked(p)

\* The points say what is left, and it is not negative.
Exact(p) ==
    \A t \in Times(p) : /\ p.points[t].remaining = p.total - p.points[t].scheduled
                        /\ p.points[t].scheduled <= p.total

\* The min-time tree says what the points say, and no tracked point is in it.
Current(p) ==
    /\ \A t \in DOMAIN p.mintime : p.mintime[t] = p.points[t].remaining
    /\ p.tracked \cap DOMAIN p.mintime = {}

\* The types that come with it.
LEMMA SoundTypes ==
    ASSUME NEW p, Sound(p)
    PROVE  /\ DOMAIN p = PlannerFields /\ p.start \in Nat /\ p.end \in Nat /\ p.total \in Nat
           /\ Times(p) \subseteq Nat /\ p.points \in [Times(p) -> ScheduledPoint]
           /\ p.start \in Times(p) /\ Times(p) \subseteq p.start .. p.end
           /\ \A t \in Times(p) : /\ p.points[t] \in ScheduledPoint
                                  /\ p.points[t].scheduled \in Int /\ p.points[t].remaining \in Int
                                  /\ p.points[t].ref_count \in Nat
           /\ \A t : Use(p.spans, t) \in Nat
<1>1. p.points \in [Times(p) -> ScheduledPoint]
  BY DEF Sound, Charts
<1>2. \A t \in Times(p) : /\ p.points[t] \in ScheduledPoint
                          /\ p.points[t].scheduled \in Int /\ p.points[t].remaining \in Int
                          /\ p.points[t].ref_count \in Nat
  BY <1>1 DEF ScheduledPoint
<1>3. \A t : Use(p.spans, t) \in Nat
  <2>1. Bookings(p.spans, p.start, p.end, p.counter)
    BY DEF Sound
  <2> QED BY <2>1, BookingTypes
<1> QED BY <1>1, <1>2, <1>3 DEF Sound, Charts

\* At every instant of the plan the state in force says what the spans leave.
LEMMA SoundAccounts ==
    ASSUME NEW p, Sound(p), NEW t \in p.start .. p.end
    PROVE  /\ get_state(p, t) \in Times(p)
           /\ p.points[get_state(p, t)].scheduled = Use(p.spans, t)
           /\ Exact(p) => /\ p.points[get_state(p, t)].remaining = p.total - Use(p.spans, t)
                          /\ Use(p.spans, t) <= p.total
<1>1. t \in Nat /\ p.start <= t
  BY SoundTypes
<1>2. Charts(p, p.spans) /\ Bookings(p.spans, p.start, p.end, p.counter)
  BY DEF Sound
<1>3. get_state(p, t) \in Times(p)
  BY <1>1, <1>2, StateInForce
<1>4. p.points[get_state(p, t)].scheduled = Use(p.spans, t)
  BY <1>1, <1>2, UseInForce
<1> QED BY <1>3, <1>4 DEF Exact

\* A new planner has one point, at which everything is free.
LEMMA NewSound ==
    ASSUME NEW total \in Nat, NEW base \in Nat, NEW duration \in Nat
    PROVE  LET p == planner_new(base, duration, total)
           IN  /\ Sound(p) /\ Exact(p) /\ Current(p)
               /\ p.spans = [i \in {} |-> 0] /\ p.total = total
               /\ p.start = base /\ p.end = base + duration
<1> DEFINE p == planner_new(base, duration, total)
           none == [i \in {} |-> 0]
<1>1. /\ DOMAIN p = PlannerFields /\ p.spans = none /\ p.total = total /\ p.start = base
      /\ p.end = base + duration /\ p.counter = 0 /\ p.tracked = {} /\ p.iter_set = FALSE
      /\ p.request = NoRequest
      /\ p.points = [t \in {base} |-> [ref_count |-> 1, scheduled |-> 0, remaining |-> total]]
      /\ p.mintime = [t \in {base} |-> total]
  BY DEF planner_new, PlannerFields
<1> HIDE DEF p
<1>2. Times(p) = {base}
  BY <1>1 DEF Times
<1>3. Bookings(none, base, base + duration, 0)
  BY FS_EmptySet DEF Bookings
<1>4. Use(none, base) = 0 /\ Refs(none, base, base) = 1
  <2>1. InUse(none, base) = {}
    BY DEF InUse
  <2>2. SumOf(none, {}) = 0
    BY FS_EmptySet, SumFirst
  <2>3. {i \in DOMAIN none : none[i].start = base} = {} /\ {i \in DOMAIN none : none[i].last = base} = {}
    OBVIOUS
  <2>4. Use(none, base) = 0
    BY <2>1, <2>2 DEF Use
  <2>5. Refs(none, base, base) = Cardinality({}) + Cardinality({}) + 1
    BY <2>3 DEF Refs
  <2> QED BY <2>4, <2>5, FS_EmptySet
<1> HIDE DEF none
<1>5. Charts(p, none)
  <2>1. p.points \in [Times(p) -> ScheduledPoint]
    BY <1>1, <1>2 DEF ScheduledPoint
  <2>2. Times(p) \subseteq p.start .. p.end /\ p.start \in Times(p)
    BY <1>1, <1>2
  <2>3. p.points[base].scheduled = 0
    BY <1>1
  <2>4. DOMAIN none = {}
    BY DEF none
  <2> QED BY <1>1, <1>2, <1>4, <2>1, <2>2, <2>3, <2>4 DEF Charts
<1>6. NoRequest \in Request
  BY DEF NoRequest, Request
<1>7. Sound(p)
  <2>1. Bookings(p.spans, p.start, p.end, p.counter) /\ Charts(p, p.spans)
    BY <1>1, <1>3, <1>5
  <2>2. p.points[base].ref_count = 1 /\ DOMAIN p.mintime = {base}
    BY <1>1
  <2>3. \A t \in Times(p) : /\ p.points[t].ref_count = Refs(p.spans, p.start, t)
                            /\ p.points[t].ref_count > 0
    BY <1>1, <1>2, <1>4, <2>2
  <2>4. p.tracked \subseteq Times(p) /\ DOMAIN p.mintime \cup p.tracked = Times(p)
    BY <1>1, <1>2, <2>2
  <2>5. p.total \in Nat /\ p.counter \in Nat /\ p.request \in Request /\ Asked(p)
    BY <1>1, <1>6 DEF Asked
  <2> QED BY <2>1, <2>3, <2>4, <2>5 DEF Sound
<1>8. Exact(p) /\ Current(p)
  BY <1>1, <1>2 DEF Exact, Current
<1> QED BY <1>1, <1>7, <1>8 DEF p, none

\* A span that avail_during admits fits at every instant, by the spans.
LEMMA AdmittedFits ==
    ASSUME NEW p, Sound(p), Exact(p), NEW from \in Nat, NEW duration \in Nat, NEW count \in Nat,
           p.start <= from, avail_during(p, from, duration, count),
           NEW t \in from .. (from + duration - 1)
    PROVE  Use(p.spans, t) + count <= p.total
<1>1. t \in p.start .. p.end /\ t \in Nat /\ from <= t /\ t < from + duration
  BY SoundTypes DEF avail_during
<1> DEFINE s == get_state(p, t)
           f == get_state(p, from)
<1>2. Charts(p, p.spans)
  BY DEF Sound
<1>3. /\ s \in Times(p) /\ s <= t /\ \A u \in Times(p) : u <= t => u <= s
  BY <1>1, <1>2, SoundTypes, StateInForce
<1>4. f \in Times(p) /\ f <= from /\ HasState(p, from)
  BY <1>2, StateInForce
<1>5. s \in Nat /\ f \in Nat
  BY <1>3, <1>4, SoundTypes
<1>6. s \in InForce(p, from, duration)
  BY <1>1, <1>3, <1>4, <1>5 DEF InForce
<1>7. count <= p.points[s].remaining
  BY <1>6 DEF avail_during
<1>8. p.points[s].remaining = p.total - Use(p.spans, t)
  BY <1>1, SoundAccounts
<1>9. Use(p.spans, t) \in Nat /\ p.total \in Nat
  BY SoundTypes
<1> QED BY <1>7, <1>8, <1>9

\* The table of spans with one more.
WithSpan(b, id, s) == [i \in DOMAIN b \cup {id} |-> IF i = id THEN s ELSE b[i]]

\* Table c has one span s more than b.
Adds(b, n, s, c) ==
    /\ DOMAIN c = DOMAIN b \cup {n + 1} /\ n + 1 \notin DOMAIN b /\ c[n + 1] = s
    /\ \A i \in DOMAIN b : c[i] = b[i]
    /\ \A t \in Nat : Use(c, t) = Use(b, t) + (IF s.start <= t /\ t < s.last THEN s.planned ELSE 0)
    /\ \A base, t : Refs(c, base, t) = Refs(b, base, t)
                          + (IF t = s.start THEN 1 ELSE 0) + (IF t = s.last THEN 1 ELSE 0)

\* The use and the references after a span is added,
LEMMA OneMore ==
    ASSUME NEW b, NEW from \in Nat, NEW to \in Nat, NEW n \in Nat, Bookings(b, from, to, n),
           NEW s \in Span, from <= s.start, s.start < s.last, s.last <= to
    PROVE  LET c == WithSpan(b, n + 1, s) IN Bookings(c, from, to, n + 1) /\ Adds(b, n, s, c)
<1> DEFINE e == n + 1
           c == WithSpan(b, e, s)
<1>1. e \notin DOMAIN b
  BY DEF Bookings
<1>2. /\ DOMAIN c = DOMAIN b \cup {e} /\ c[e] = s /\ \A i \in DOMAIN b : c[i] = b[i]
      /\ c = [i \in DOMAIN c |-> c[i]]
  BY <1>1 DEF WithSpan
<1> HIDE DEF c
<1>3. IsFiniteSet(DOMAIN c)
  <2>1. IsFiniteSet(DOMAIN b)
    BY DEF Bookings
  <2> QED BY <1>2, <2>1, FS_AddElement
<1>4. Bookings(c, from, to, e)
  <2> SUFFICES ASSUME NEW i \in DOMAIN c
               PROVE  /\ i \in 1 .. e /\ c[i] \in Span
                      /\ from <= c[i].start /\ c[i].start < c[i].last /\ c[i].last <= to
    BY <1>2, <1>3 DEF Bookings
  <2> QED BY <1>2 DEF Bookings
<1>5. ASSUME NEW t \in Nat
      PROVE  Use(c, t) = Use(b, t) + (IF s.start <= t /\ t < s.last THEN s.planned ELSE 0)
  <2>1. DOMAIN b \ {e} = DOMAIN c \ {e} /\ \A i \in DOMAIN b \ {e} : b[i] = c[i]
    BY <1>1, <1>2
  <2>2. Use(c, t) = Use(b, t) - (IF e \in InUse(b, t) THEN b[e].planned ELSE 0)
                              + (IF e \in InUse(c, t) THEN c[e].planned ELSE 0)
    <3> HIDE DEF e
    <3> QED BY <1>4, <2>1, UseChange
  <2>3. e \notin InUse(b, t) /\ (e \in InUse(c, t) <=> s.start <= t /\ t < s.last)
    BY <1>1, <1>2 DEF InUse
  <2>4. Use(b, t) \in Nat
    BY BookingTypes
  <2> QED BY <1>2, <2>2, <2>3, <2>4
<1>6. ASSUME NEW base, NEW t
      PROVE  Refs(c, base, t) = Refs(b, base, t)
                + (IF t = s.start THEN 1 ELSE 0) + (IF t = s.last THEN 1 ELSE 0)
  <2> HIDE DEF e
  <2> QED BY <1>1, <1>2, <1>4, RefsMore
<1>7. Adds(b, n, s, c)
  BY <1>1, <1>2, <1>5, <1>6 DEF Adds
<1> QED BY <1>4, <1>7 DEF c

\* x is planner p in the middle of a call: nothing is tracked, the points still show
\* the spans of p, and both trees hold the same points.
Midway(p, x) ==
    /\ Charts(x, p.spans) /\ x.start = p.start /\ x.end = p.end /\ x.total = p.total
    /\ x.tracked = {} /\ DOMAIN x.mintime = Times(x)
    /\ Exact(p) => \A t \in Times(x) : x.points[t].remaining = p.total - x.points[t].scheduled
    /\ Current(p) => Current(x)

\* A call begins by putting back what an iteration has taken out.
LEMMA RestoredMidway ==
    ASSUME NEW p, Sound(p), NEW o, DOMAIN o = PlannerFields,
           o.points = p.points, o.mintime = p.mintime, o.tracked = p.tracked,
           o.start = p.start, o.end = p.end, o.total = p.total
    PROVE  LET x == restore_track_points(o)
           IN  Midway(p, x) /\ Rest(o, x) /\ x.points = p.points /\ Times(x) = Times(p)
<1> DEFINE x == restore_track_points(o)
<1>1. /\ Rest(o, x) /\ x.points = p.points /\ x.tracked = {}
      /\ DOMAIN x.mintime = DOMAIN p.mintime \cup p.tracked
      /\ \A t \in DOMAIN x.mintime :
            x.mintime[t] = IF t \in p.tracked THEN p.points[t].remaining ELSE p.mintime[t]
  BY Restored
<1> HIDE DEF x
<1>2. Times(x) = Times(p) /\ DOMAIN x.mintime = Times(p)
  BY <1>1 DEF Times, Sound
<1>3. x.start = p.start /\ x.end = p.end /\ x.total = p.total /\ DOMAIN x = PlannerFields
  BY <1>1 DEF Rest
<1>4. Charts(x, p.spans)
  BY <1>1, <1>2, <1>3 DEF Charts, Sound
<1>5. Current(p) => Current(x)
  BY <1>1, <1>2 DEF Current
<1>6. Exact(p) => \A t \in Times(x) : x.points[t].remaining = p.total - x.points[t].scheduled
  BY <1>1, <1>2 DEF Exact
<1>7. Midway(p, x)
  BY <1>1, <1>2, <1>3, <1>4, <1>5, <1>6 DEF Midway
<1> QED BY <1>1, <1>2, <1>7 DEF x

\* A point is made, unless it is there, and referred to once more.
LEMMA PointReferred ==
    ASSUME NEW p, Sound(p), NEW x, Midway(p, x), NEW at \in p.start .. p.end
    PROVE  LET r == IncrRef(get_or_new_point(x, at), at)
           IN  /\ Midway(p, r) /\ Rest(x, r) /\ Times(r) = Times(x) \cup {at}
               /\ \A t \in Times(r) :
                     r.points[t].ref_count = (IF t \in Times(x) THEN x.points[t].ref_count ELSE 0)
                                               + (IF t = at THEN 1 ELSE 0)
<1> DEFINE y == get_or_new_point(x, at)
           r == IncrRef(y, at)
<1>0. /\ Charts(x, p.spans) /\ Bookings(p.spans, x.start, x.end, p.counter)
      /\ at \in x.start .. x.end
  BY DEF Midway, Sound
<1>1. /\ Rest(x, y) /\ Charts(y, p.spans) /\ Times(y) = Times(x) \cup {at}
      /\ \A t \in Times(x) : y.points[t] = x.points[t]
      /\ at \notin Times(x) =>
            /\ y.points[at].ref_count = 0
            /\ y.points[at].remaining = x.points[get_state(x, at)].remaining
            /\ y.points[at].scheduled = x.points[get_state(x, at)].scheduled
      /\ y.tracked = x.tracked
      /\ at \notin Times(x) =>
            /\ DOMAIN y.mintime = DOMAIN x.mintime \cup {at}
            /\ y.mintime[at] = y.points[at].remaining
            /\ \A t \in DOMAIN x.mintime : t # at => y.mintime[t] = x.mintime[t]
      /\ at \in Times(x) => y = x
  BY <1>0, PointAdded
<1>2. get_state(x, at) \in Times(x)
  <2>1. at \in Nat /\ x.start <= at
    BY <1>0 DEF Charts
  <2> QED BY <1>0, <2>1, StateInForce
<1> HIDE DEF y
<1>3. /\ at \in Times(y) /\ y.points[at] \in ScheduledPoint
  BY <1>1 DEF Charts
<1>4. y.points[at].ref_count + 1 \in Nat
  BY <1>3 DEF ScheduledPoint
<1>5. /\ Rest(y, r) /\ Charts(r, p.spans) /\ Times(r) = Times(y)
      /\ r.mintime = y.mintime /\ r.tracked = y.tracked
      /\ \A t \in Times(y) :
            /\ r.points[t].ref_count = y.points[t].ref_count + (IF t = at THEN 1 ELSE 0)
            /\ r.points[t].scheduled = y.points[t].scheduled
            /\ r.points[t].remaining = y.points[t].remaining
  BY <1>1, <1>3, <1>4, RefCounted
<1> HIDE DEF r
<1>6. Times(r) = Times(x) \cup {at} /\ DOMAIN r.mintime = Times(r) /\ r.tracked = {}
  BY <1>1, <1>5 DEF Midway
<1>7. Rest(x, r)
  BY <1>1, <1>5 DEF Rest
<1>8. r.start = p.start /\ r.end = p.end /\ r.total = p.total
  BY <1>7 DEF Rest, Midway
<1>9. Exact(p) => \A t \in Times(r) : r.points[t].remaining = p.total - r.points[t].scheduled
  BY <1>1, <1>2, <1>5, <1>6 DEF Midway
<1>10. ASSUME Current(p) PROVE Current(r)
  <2>1. Current(x) /\ DOMAIN x.mintime = Times(x)
    BY <1>10 DEF Midway
  <2>2. \A t \in DOMAIN y.mintime : y.mintime[t] = y.points[t].remaining
    <3>1. CASE at \in Times(x)
      BY <1>1, <2>1, <3>1 DEF Current
    <3>2. CASE at \notin Times(x)
      BY <1>1, <2>1, <3>2 DEF Current
    <3> QED BY <3>1, <3>2
  <2>3. DOMAIN y.mintime = Times(y)
    BY <1>5, <1>6
  <2> QED BY <1>5, <1>6, <2>2, <2>3 DEF Current
<1>11. Midway(p, r)
  BY <1>5, <1>6, <1>8, <1>9, <1>10 DEF Midway
<1>12. \A t \in Times(r) :
          r.points[t].ref_count = (IF t \in Times(x) THEN x.points[t].ref_count ELSE 0)
                                    + (IF t = at THEN 1 ELSE 0)
  BY <1>1, <1>5, <1>6
<1> QED BY <1>6, <1>7, <1>11, <1>12 DEF r, y

\* Nothing refers to a time that is not a point.
LEMMA Unreferred ==
    ASSUME NEW p, Sound(p), NEW t, t \notin Times(p)
    PROVE  Refs(p.spans, p.start, t) = 0
<1>1. {i \in DOMAIN p.spans : p.spans[i].start = t} = {} /\ {i \in DOMAIN p.spans : p.spans[i].last = t} = {}
  BY DEF Sound, Charts
<1>2. t # p.start
  BY DEF Sound, Charts
<1>3. Refs(p.spans, p.start, t) = Cardinality({}) + Cardinality({}) + 0
  BY <1>1, <1>2 DEF Refs
<1> QED BY <1>3, FS_EmptySet

\* From planner p to what planner_add_span returns when it has added the span.
Added(p, from, duration, count, a) ==
    /\ a.id = p.counter + 1 /\ Sound(a.p)
    /\ a.p.spans = WithSpan(p.spans, p.counter + 1,
                            [start |-> from, last |-> from + duration, planned |-> count])
    /\ a.p.total = p.total /\ a.p.start = p.start /\ a.p.end = p.end
    /\ a.p.tracked = {}
    /\ Exact(p) => Exact(a.p)
    /\ Current(p) => Current(a.p)

\* planner_add_span, for a span it admits.
LEMMA SpanAdded ==
    ASSUME NEW p, Sound(p), NEW from \in Nat, NEW duration \in Nat, NEW count \in Nat,
           avail_during(p, from, duration, count), span_input_check(p, from, duration, count)
    PROVE  Added(p, from, duration, count, planner_add_span(p, from, duration, count))
<1> DEFINE last == from + duration
           s == [start |-> from, last |-> last, planned |-> count]
           b == p.spans
           c == WithSpan(b, p.counter + 1, s)
           p0 == span_new(p, from, duration, count)
           p1 == restore_track_points(p0)
           p2 == IncrRef(get_or_new_point(p1, from), from)
           p3 == IncrRef(get_or_new_point(p2, last), last)
           list == fetch_overlap_points(p3, from, duration)
           p4 == update_mintime_resource_tree(UpdatePoints(p3, list, count), list)
           r == EndIteration(p4)
           a == planner_add_span(p, from, duration, count)
<1>1. a = [p |-> r, id |-> p4.counter]
  BY DEF planner_add_span
<1>2. /\ p.start <= from /\ duration >= 1 /\ last <= p.end /\ last \in Nat /\ p.counter \in Nat
      /\ p.start \in Nat /\ p.end \in Nat /\ p.total \in Nat /\ DOMAIN p = PlannerFields
  BY SoundTypes DEF span_input_check, avail_during, Sound
<1>3. /\ s \in Span /\ s.start = from /\ s.last = last /\ s.planned = count
  BY <1>2 DEF Span
<1>4. /\ DOMAIN p0 = PlannerFields /\ p0.points = p.points /\ p0.mintime = p.mintime
      /\ p0.tracked = p.tracked /\ p0.start = p.start /\ p0.end = p.end /\ p0.total = p.total
      /\ p0.spans = c /\ p0.counter = p.counter + 1 /\ p0.request = p.request
  BY <1>2 DEF span_new, PlannerFields, WithSpan
<1>5. /\ Bookings(c, p.start, p.end, p.counter + 1)
      /\ DOMAIN c = DOMAIN b \cup {p.counter + 1} /\ c[p.counter + 1] = s
      /\ \A i \in DOMAIN b : c[i] = b[i]
      /\ \A t \in Nat : Use(c, t) = Use(b, t) + (IF from <= t /\ t < last THEN count ELSE 0)
      /\ \A base, t : Refs(c, base, t) = Refs(b, base, t)
                          + (IF t = from THEN 1 ELSE 0) + (IF t = last THEN 1 ELSE 0)
  <2>1. /\ Bookings(b, p.start, p.end, p.counter)
        /\ p.start <= s.start /\ s.start < s.last /\ s.last <= p.end
    BY <1>2, <1>3 DEF Sound
  <2> HIDE DEF s, last
  <2>2. Bookings(c, p.start, p.end, p.counter + 1) /\ Adds(b, p.counter, s, c)
    BY <1>2, <1>3, <2>1, OneMore
  <2> HIDE DEF c
  <2> QED BY <1>3, <2>2 DEF Adds
<1> HIDE DEF c, p0
<1>6. Midway(p, p1) /\ Rest(p0, p1) /\ p1.points = p.points /\ Times(p1) = Times(p)
  BY <1>4, RestoredMidway
<1> HIDE DEF p1
<1>7. /\ Midway(p, p2) /\ Rest(p1, p2) /\ Times(p2) = Times(p1) \cup {from}
      /\ \A t \in Times(p2) :
            p2.points[t].ref_count = (IF t \in Times(p1) THEN p1.points[t].ref_count ELSE 0)
                                        + (IF t = from THEN 1 ELSE 0)
  <2>1. from \in p.start .. p.end
    BY <1>2
  <2> QED BY <1>6, <2>1, PointReferred
<1> HIDE DEF p2
<1>8. /\ Midway(p, p3) /\ Rest(p2, p3) /\ Times(p3) = Times(p2) \cup {last}
      /\ \A t \in Times(p3) :
            p3.points[t].ref_count = (IF t \in Times(p2) THEN p2.points[t].ref_count ELSE 0)
                                        + (IF t = last THEN 1 ELSE 0)
  <2>1. last \in p.start .. p.end
    BY <1>2
  <2> HIDE DEF last
  <2> QED BY <1>7, <2>1, PointReferred
<1> HIDE DEF p3
<1>9. \A t \in Times(p3) : p3.points[t].ref_count = Refs(c, p.start, t) /\ p3.points[t].ref_count > 0
  <2> TAKE t \in Times(p3)
  <2>1. Refs(c, p.start, t) = Refs(b, p.start, t) + (IF t = from THEN 1 ELSE 0) + (IF t = last THEN 1 ELSE 0)
    BY <1>5
  <2>2. CASE t \in Times(p)
    <3>1. p.points[t].ref_count = Refs(b, p.start, t) /\ p.points[t].ref_count > 0
          /\ p.points[t].ref_count \in Nat
      BY <2>2, SoundTypes DEF Sound
    <3> QED BY <1>2, <1>6, <1>7, <1>8, <2>1, <2>2, <3>1
  <2>3. CASE t \notin Times(p)
    <3>1. Refs(b, p.start, t) = 0
      BY <2>3, Unreferred
    <3>2. from < last
      BY <1>2
    <3> HIDE DEF last
    <3> QED BY <1>6, <1>7, <1>8, <2>1, <2>3, <3>1, <3>2
  <2> QED BY <2>2, <2>3
<1>10. /\ Charts(p3, b) /\ DOMAIN p3 = PlannerFields /\ p3.points \in [Times(p3) -> ScheduledPoint]
       /\ Times(p3) \subseteq Nat /\ p3.tracked = {} /\ DOMAIN p3.mintime = Times(p3)
  BY <1>8 DEF Midway, Charts
<1>11. list \subseteq Times(p3) /\ \A t \in Times(p3) : t \in list <=> from <= t /\ t < last
  BY DEF fetch_overlap_points
<1> HIDE DEF list
<1>12. /\ Rest(p3, p4) /\ Times(p4) = Times(p3) /\ p4.points \in [Times(p4) -> ScheduledPoint]
       /\ p4.tracked = p3.tracked
       /\ \A t \in Times(p3) :
             /\ p4.points[t].ref_count = p3.points[t].ref_count
             /\ p4.points[t].scheduled = p3.points[t].scheduled + (IF t \in list THEN count ELSE 0)
             /\ p4.points[t].remaining = p3.points[t].remaining - (IF t \in list THEN count ELSE 0)
       /\ DOMAIN p4.mintime = (DOMAIN p3.mintime \ list) \cup {t \in list : p3.points[t].ref_count > 0}
       /\ \A t \in DOMAIN p4.mintime :
             p4.mintime[t] = IF t \in list THEN p4.points[t].remaining ELSE p3.mintime[t]
  <2>1. count \in Int /\ list \subseteq Times(p3)
    BY <1>11
  <2>2. Takes(p3, list, count, p4)
    BY <1>10, <2>1, PointsUpdated
  <2> HIDE DEF p4
  <2> QED BY <2>2 DEF Takes
<1> HIDE DEF p4
<1>13. /\ DOMAIN p4 = PlannerFields /\ p4.start = p.start /\ p4.end = p.end /\ p4.total = p.total
       /\ p4.spans = c /\ p4.counter = p.counter + 1
  BY <1>4, <1>6, <1>7, <1>8, <1>12 DEF Rest
<1>14. /\ DOMAIN r = PlannerFields /\ r.start = p.start /\ r.end = p.end /\ r.total = p.total
       /\ r.spans = c /\ r.counter = p.counter + 1 /\ r.points = p4.points
       /\ r.mintime = p4.mintime /\ r.tracked = p4.tracked /\ r.request = NoRequest
       /\ r.iter_set = FALSE
  BY <1>13 DEF EndIteration, PlannerFields
<1> HIDE DEF r
<1>15. Times(r) = Times(p3)
  BY <1>12, <1>14 DEF Times
<1>16. \A t \in Times(p3) : p3.points[t].scheduled = Use(b, t) /\ Use(b, t) \in Nat
  BY <1>10, SoundTypes DEF Charts
<1>17. Charts(r, c)
  <2>1. r.points \in [Times(r) -> ScheduledPoint]
    BY <1>12, <1>14, <1>15
  <2>2. Times(r) \subseteq r.start .. r.end /\ r.start \in Times(r)
    BY <1>8, <1>10, <1>14, <1>15 DEF Charts, Midway
  <2>3. \A i \in DOMAIN c : c[i].start \in Times(r) /\ c[i].last \in Times(r)
    <3> TAKE i \in DOMAIN c
    <3>1. CASE i = p.counter + 1
      BY <1>3, <1>5, <1>7, <1>8, <1>15, <3>1
    <3>2. CASE i # p.counter + 1
      <4>1. i \in DOMAIN b /\ c[i] = b[i]
        BY <1>5, <3>2
      <4> QED BY <1>10, <1>15, <4>1 DEF Charts
    <3> QED BY <3>1, <3>2
  <2>4. \A t \in Times(r) : r.points[t].scheduled = Use(c, t)
    BY <1>5, <1>10, <1>11, <1>12, <1>14, <1>15, <1>16
  <2> QED BY <1>2, <1>14, <2>1, <2>2, <2>3, <2>4 DEF Charts
<1>18. DOMAIN r.mintime = Times(r) /\ r.tracked = {}
  BY <1>9, <1>10, <1>11, <1>12, <1>14, <1>15
<1>19. Sound(r)
  <2>1. NoRequest \in Request
    BY DEF NoRequest, Request
  <2>2. \A t \in Times(r) : r.points[t].ref_count = Refs(c, p.start, t) /\ r.points[t].ref_count > 0
    BY <1>9, <1>12, <1>14, <1>15
  <2>3. Asked(r)
    BY <1>14 DEF Asked
  <2> QED BY <1>2, <1>5, <1>14, <1>17, <1>18, <2>1, <2>2, <2>3 DEF Sound
<1>20. ASSUME Exact(p) PROVE Exact(r)
  <2> SUFFICES ASSUME NEW t \in Times(r)
               PROVE  /\ r.points[t].remaining = r.total - r.points[t].scheduled
                      /\ r.points[t].scheduled <= r.total
    BY DEF Exact
  <2>1. p3.points[t].remaining = p.total - Use(b, t) /\ Use(b, t) \in Nat
    BY <1>8, <1>15, <1>16, <1>20 DEF Midway
  <2>2. /\ r.points[t].remaining = p3.points[t].remaining - (IF t \in list THEN count ELSE 0)
        /\ r.points[t].scheduled = Use(b, t) + (IF t \in list THEN count ELSE 0)
    BY <1>12, <1>14, <1>15, <1>16
  <2>3. t \in list => Use(b, t) + count <= p.total
    <3> SUFFICES ASSUME t \in list PROVE Use(b, t) + count <= p.total
      OBVIOUS
    <3>1. t \in from .. (from + duration - 1)
      BY <1>2, <1>10, <1>11, <1>15
    <3> QED BY <1>2, <1>20, <3>1, AdmittedFits
  <2>4. Use(b, t) <= p.total
    <3>1. t \in p.start .. p.end
      BY <1>14, <1>15, <1>17 DEF Charts
    <3> QED BY <1>20, <3>1, SoundAccounts
  <2> QED BY <1>2, <1>14, <2>1, <2>2, <2>3, <2>4
<1>21. ASSUME Current(p) PROVE Current(r)
  <2>1. Current(p3)
    BY <1>8, <1>21 DEF Midway
  <2>2. \A t \in Times(p3) : t \notin list => p4.points[t].remaining = p3.points[t].remaining
    <3>1. \A t \in Times(p3) : p3.points[t].remaining \in Int
      BY <1>10 DEF ScheduledPoint
    <3> QED BY <1>12, <3>1
  <2> QED BY <1>10, <1>11, <1>12, <1>14, <1>18, <2>1, <2>2 DEF Current
<1>22. /\ a.id = p.counter + 1 /\ Sound(a.p) /\ a.p.spans = WithSpan(p.spans, p.counter + 1, s)
       /\ a.p.total = p.total /\ a.p.start = p.start /\ a.p.end = p.end
       /\ a.p.tracked = {}
       /\ Exact(p) => Exact(a.p)
       /\ Current(p) => Current(a.p)
  BY <1>1, <1>13, <1>14, <1>18, <1>19, <1>20, <1>21 DEF c
<1> HIDE DEF a
<1> QED BY <1>22 DEF Added, a, s, last

\* Spans refer to the points at which they start and end.
LEMMA Referred ==
    ASSUME NEW b, NEW from, NEW to, NEW n, Bookings(b, from, to, n), NEW base
    PROVE  /\ \A i \in DOMAIN b : Refs(b, base, b[i].start) > 0 /\ Refs(b, base, b[i].last) > 0
           /\ Refs(b, base, base) > 0
<1>1. ASSUME NEW t, t = base \/ \E i \in DOMAIN b : t \in {b[i].start, b[i].last}
      PROVE  Refs(b, base, t) > 0
  <2> DEFINE S == {i \in DOMAIN b : b[i].start = t}
             L == {i \in DOMAIN b : b[i].last = t}
  <2>1. S \in SUBSET DOMAIN b /\ L \in SUBSET DOMAIN b /\ IsFiniteSet(DOMAIN b)
    BY DEF Bookings
  <2>2. t = base \/ S # {} \/ L # {}
    BY <1>1
  <2>3. Refs(b, base, t) = Cardinality(S) + Cardinality(L) + (IF t = base THEN 1 ELSE 0)
    BY DEF Refs
  <2> HIDE DEF S, L
  <2>4. IsFiniteSet(S) /\ IsFiniteSet(L) /\ Cardinality(S) \in Nat /\ Cardinality(L) \in Nat
    BY <2>1, FS_Subset, FS_CardinalityType
  <2>5. (S # {} => Cardinality(S) # 0) /\ (L # {} => Cardinality(L) # 0)
    BY <2>4, FS_EmptySet
  <2> QED BY <2>2, <2>3, <2>4, <2>5
<1> QED BY <1>1

\* The table of spans with one less.
Loses(b, e, c) ==
    /\ DOMAIN c = DOMAIN b \ {e} /\ \A i \in DOMAIN c : c[i] = b[i]
    /\ \A t \in Nat : Use(c, t) = Use(b, t)
                        - (IF b[e].start <= t /\ t < b[e].last THEN b[e].planned ELSE 0)
    /\ \A base, t : Refs(b, base, t) = Refs(c, base, t)
                        + (IF t = b[e].start THEN 1 ELSE 0) + (IF t = b[e].last THEN 1 ELSE 0)

\* after one is removed,
LEMMA OneLess ==
    ASSUME NEW b, NEW from \in Nat, NEW to \in Nat, NEW n \in Nat, Bookings(b, from, to, n),
           NEW e \in DOMAIN b
    PROVE  LET c == Restrict(b, DOMAIN b \ {e}) IN Bookings(c, from, to, n) /\ Loses(b, e, c)
<1> DEFINE c == Restrict(b, DOMAIN b \ {e})
<1>1. /\ DOMAIN c = DOMAIN b \ {e} /\ \A i \in DOMAIN c : c[i] = b[i]
      /\ c = [i \in DOMAIN c |-> c[i]]
  BY DEF Restrict
<1> HIDE DEF c
<1>2. IsFiniteSet(DOMAIN c)
  <2>1. IsFiniteSet(DOMAIN b)
    BY DEF Bookings
  <2> QED BY <1>1, <2>1, FS_RemoveElement
<1>3. Bookings(c, from, to, n)
  BY <1>1, <1>2 DEF Bookings
<1>4. ASSUME NEW t \in Nat
      PROVE  Use(c, t) = Use(b, t) - (IF b[e].start <= t /\ t < b[e].last THEN b[e].planned ELSE 0)
  <2>1. DOMAIN b \ {e} = DOMAIN c \ {e} /\ \A i \in DOMAIN b \ {e} : b[i] = c[i]
    BY <1>1
  <2>2. Use(c, t) = Use(b, t) - (IF e \in InUse(b, t) THEN b[e].planned ELSE 0)
                              + (IF e \in InUse(c, t) THEN c[e].planned ELSE 0)
    BY <1>3, <2>1, UseChange
  <2>3. e \notin InUse(c, t) /\ (e \in InUse(b, t) <=> b[e].start <= t /\ t < b[e].last)
    BY <1>1 DEF InUse
  <2>4. Use(b, t) \in Nat /\ b[e].planned \in Nat
    BY BookingTypes
  <2> QED BY <2>2, <2>3, <2>4
<1>5. ASSUME NEW base, NEW t
      PROVE  Refs(b, base, t) = Refs(c, base, t)
                + (IF t = b[e].start THEN 1 ELSE 0) + (IF t = b[e].last THEN 1 ELSE 0)
  <2>1. DOMAIN b = DOMAIN c \cup {e} /\ e \notin DOMAIN c
    BY <1>1
  <2>2. \A i \in DOMAIN c : c[i] = b[i]
    BY <1>1
  <2> QED BY <1>3, <2>1, <2>2, RefsMore
<1>6. Loses(b, e, c)
  BY <1>1, <1>4, <1>5 DEF Loses
<1> QED BY <1>3, <1>6 DEF c

\* The table with a span reduced.
Shrinks(b, e, d, c) ==
    /\ DOMAIN c = DOMAIN b
    /\ \A i \in DOMAIN b : /\ c[i].start = b[i].start /\ c[i].last = b[i].last
                           /\ c[i].planned = b[i].planned - (IF i = e THEN d ELSE 0)
    /\ \A t \in Nat : Use(c, t) = Use(b, t) - (IF b[e].start <= t /\ t < b[e].last THEN d ELSE 0)
    /\ \A base, t : Refs(c, base, t) = Refs(b, base, t)

\* and after one is reduced.
LEMMA OneReduced ==
    ASSUME NEW b, NEW from \in Nat, NEW to \in Nat, NEW n \in Nat, Bookings(b, from, to, n),
           NEW e \in DOMAIN b, NEW d \in Nat, d <= b[e].planned
    PROVE  LET c == [b EXCEPT ![e].planned = @ - d]
           IN  Bookings(c, from, to, n) /\ Shrinks(b, e, d, c)
<1> DEFINE x == [b[e] EXCEPT !.planned = @ - d]
           c == [b EXCEPT ![e].planned = @ - d]
<1>1. b[e] \in Span /\ b[e].planned - d \in Nat
  <2>1. b[e].planned \in Nat
    BY BookingTypes
  <2>2. b[e] \in Span
    BY DEF Bookings
  <2> QED BY <2>1, <2>2
<1>2. x \in Span /\ x.start = b[e].start /\ x.last = b[e].last /\ x.planned = b[e].planned - d
  BY <1>1 DEF Span
<1>3. c = [b EXCEPT ![e] = x]
  BY <1>1 DEF Span
<1>4. /\ DOMAIN c = DOMAIN b /\ c[e] = x /\ \A i \in DOMAIN b : i # e => c[i] = b[i]
      /\ c = [i \in DOMAIN c |-> c[i]]
  <2> HIDE DEF x
  <2>1. b = [i \in DOMAIN b |-> b[i]]
    BY DEF Bookings
  <2>2. c = [i \in DOMAIN b |-> IF i = e THEN x ELSE b[i]]
    BY <1>3, <2>1
  <2> HIDE DEF c
  <2>3. DOMAIN c = DOMAIN b
    BY <2>2
  <2> QED BY <2>2, <2>3
<1> HIDE DEF c, x
<1>5. Bookings(c, from, to, n)
  <2>1. IsFiniteSet(DOMAIN c)
    BY <1>4 DEF Bookings
  <2> SUFFICES ASSUME NEW i \in DOMAIN c
               PROVE  /\ i \in 1 .. n /\ c[i] \in Span
                      /\ from <= c[i].start /\ c[i].start < c[i].last /\ c[i].last <= to
    BY <1>4, <2>1 DEF Bookings
  <2> QED BY <1>2, <1>4 DEF Bookings
<1>6. \A i \in DOMAIN b : b[i].planned \in Nat
  BY BookingTypes
<1>7. \A i \in DOMAIN b : /\ c[i].start = b[i].start /\ c[i].last = b[i].last
                          /\ c[i].planned = b[i].planned - (IF i = e THEN d ELSE 0)
  <2> TAKE i \in DOMAIN b
  <2>1. CASE i = e
    BY <1>2, <1>4, <2>1
  <2>2. CASE i # e
    BY <1>4, <1>6, <2>2
  <2> QED BY <2>1, <2>2
<1>8. ASSUME NEW t \in Nat
      PROVE  Use(c, t) = Use(b, t) - (IF b[e].start <= t /\ t < b[e].last THEN d ELSE 0)
  <2>1. DOMAIN b \ {e} = DOMAIN c \ {e} /\ \A i \in DOMAIN b \ {e} : b[i] = c[i]
    BY <1>4
  <2>2. Use(c, t) = Use(b, t) - (IF e \in InUse(b, t) THEN b[e].planned ELSE 0)
                              + (IF e \in InUse(c, t) THEN c[e].planned ELSE 0)
    BY <1>5, <2>1, UseChange
  <2>3. /\ e \in InUse(b, t) <=> b[e].start <= t /\ t < b[e].last
        /\ e \in InUse(c, t) <=> b[e].start <= t /\ t < b[e].last
    BY <1>4, <1>7 DEF InUse
  <2>4. Use(b, t) \in Nat /\ b[e].planned \in Nat /\ c[e].planned = b[e].planned - d
    BY <1>7, BookingTypes
  <2> QED BY <2>2, <2>3, <2>4
<1>9. ASSUME NEW base, NEW t PROVE Refs(c, base, t) = Refs(b, base, t)
  <2>1. /\ {i \in DOMAIN c : c[i].start = t} = {i \in DOMAIN b : b[i].start = t}
        /\ {i \in DOMAIN c : c[i].last = t} = {i \in DOMAIN b : b[i].last = t}
    BY <1>4, <1>7
  <2> QED BY <2>1 DEF Refs
<1>10. Shrinks(b, e, d, c)
  BY <1>4, <1>7, <1>8, <1>9 DEF Shrinks
<1> QED BY <1>5, <1>10 DEF c

\* A reference less, in the middle of a call.
LEMMA PointLeft ==
    ASSUME NEW p, Sound(p), NEW x, Midway(p, x), NEW at \in Times(x), x.points[at].ref_count > 0
    PROVE  LET r == DecrRef(x, at)
           IN  /\ Midway(p, r) /\ Rest(x, r) /\ Times(r) = Times(x)
               /\ \A t \in Times(x) :
                     r.points[t].ref_count = x.points[t].ref_count - (IF t = at THEN 1 ELSE 0)
<1> DEFINE r == DecrRef(x, at)
<1>1. /\ Charts(x, p.spans) /\ x.points[at] \in ScheduledPoint
      /\ \A t \in Times(x) : x.points[t].ref_count \in Nat
  BY DEF Midway, Charts, ScheduledPoint
<1>2. x.points[at].ref_count + (-1) \in Nat
  BY <1>1
<1>3. /\ Rest(x, r) /\ Charts(r, p.spans) /\ Times(r) = Times(x)
      /\ r.mintime = x.mintime /\ r.tracked = x.tracked
      /\ \A t \in Times(x) :
            /\ r.points[t].ref_count = x.points[t].ref_count + (IF t = at THEN -1 ELSE 0)
            /\ r.points[t].scheduled = x.points[t].scheduled
            /\ r.points[t].remaining = x.points[t].remaining
  BY <1>1, <1>2, RefCounted
<1> HIDE DEF r
<1>4. \A t \in Times(x) : r.points[t].ref_count = x.points[t].ref_count - (IF t = at THEN 1 ELSE 0)
  BY <1>1, <1>3
<1>5. Current(p) => Current(r)
  BY <1>3 DEF Midway, Current
<1>6. Midway(p, r)
  BY <1>3, <1>5 DEF Midway, Rest
<1> QED BY <1>3, <1>4, <1>6 DEF r

\* planner_rem_span, for a span the planner has.
LEMMA SpanRemoved ==
    ASSUME NEW p, Sound(p), NEW id \in DOMAIN p.spans
    PROVE  LET a == planner_rem_span(p, id)
           IN  /\ a.ok /\ Sound(a.p)
               /\ a.p.spans = Restrict(p.spans, DOMAIN p.spans \ {id})
               /\ a.p.total = p.total /\ a.p.start = p.start /\ a.p.end = p.end
               /\ a.p.tracked = {}
               /\ Exact(p) => Exact(a.p)
               /\ Current(p) => Current(a.p)
<1> DEFINE b == p.spans
           s == b[id]
           c == Restrict(b, DOMAIN b \ {id})
           p0 == restore_track_points(p)
           p1 == DecrRef(p0, s.start)
           p2 == DecrRef(p1, s.last)
           list == fetch_overlap_points(p2, s.start, s.last - s.start)
           p3 == update_mintime_resource_tree(UpdatePoints(p2, list, -s.planned), list)
           p4 == DropUnreferenced(p3, s.start)
           p5 == DropUnreferenced(p4, s.last)
           r == EndIteration([p5 EXCEPT !.spans = Restrict(@, DOMAIN @ \ {id})])
           a == planner_rem_span(p, id)
<1>1. a = [p |-> r, ok |-> TRUE]
  BY DEF planner_rem_span
<1>2. /\ s.start \in Nat /\ s.last \in Nat /\ s.planned \in Nat /\ s.start < s.last
      /\ s.start \in Times(p) /\ s.last \in Times(p)
  <2>1. Bookings(b, p.start, p.end, p.counter)
    BY DEF Sound
  <2>2. s.start \in Nat /\ s.last \in Nat /\ s.planned \in Nat
    BY <2>1, BookingTypes
  <2> QED BY <2>1, <2>2 DEF Bookings, Sound, Charts
<1>3. Bookings(c, p.start, p.end, p.counter) /\ Loses(b, id, c)
  <2>1. Bookings(b, p.start, p.end, p.counter) /\ p.counter \in Nat
    BY DEF Sound
  <2> QED BY <2>1, SoundTypes, OneLess
<1>c. c = Restrict(p.spans, DOMAIN p.spans \ {id})
  OBVIOUS
<1> HIDE DEF c
<1>4. /\ DOMAIN c = DOMAIN b \ {id} /\ \A i \in DOMAIN c : c[i] = b[i]
      /\ \A t \in Nat : Use(c, t) = Use(b, t) - (IF s.start <= t /\ t < s.last THEN s.planned ELSE 0)
      /\ \A base, t : Refs(b, base, t) = Refs(c, base, t)
                          + (IF t = s.start THEN 1 ELSE 0) + (IF t = s.last THEN 1 ELSE 0)
      /\ \A base, t : Refs(c, base, t) \in Nat
  BY <1>3, BookingTypes DEF Loses
<1> HIDE DEF s
<1>5. Midway(p, p0) /\ Rest(p, p0) /\ p0.points = p.points /\ Times(p0) = Times(p)
  BY SoundTypes, RestoredMidway
<1> HIDE DEF p0
<1>6. \A t \in Times(p) : p.points[t].ref_count = Refs(c, p.start, t)
                             + (IF t = s.start THEN 1 ELSE 0) + (IF t = s.last THEN 1 ELSE 0)
  BY <1>4 DEF Sound
<1>7. /\ Midway(p, p1) /\ Rest(p0, p1) /\ Times(p1) = Times(p0)
      /\ \A t \in Times(p0) :
            p1.points[t].ref_count = p0.points[t].ref_count - (IF t = s.start THEN 1 ELSE 0)
  <2>1. s.start \in Times(p0) /\ p0.points[s.start].ref_count > 0
    BY <1>2, <1>5 DEF Sound
  <2> QED BY <1>5, <2>1, PointLeft
<1> HIDE DEF p1
<1>8. /\ Midway(p, p2) /\ Rest(p1, p2) /\ Times(p2) = Times(p1)
      /\ \A t \in Times(p1) :
            p2.points[t].ref_count = p1.points[t].ref_count - (IF t = s.last THEN 1 ELSE 0)
  <2>1. s.last \in Times(p1) /\ p1.points[s.last].ref_count > 0
    <3>1. s.last \in Times(p) /\ s.last # s.start /\ p.points[s.last].ref_count > 0
          /\ p.points[s.last].ref_count \in Nat
      BY <1>2, SoundTypes DEF Sound
    <3> QED BY <1>5, <1>7, <3>1
  <2> QED BY <1>7, <2>1, PointLeft
<1> HIDE DEF p2
<1>9. /\ Times(p2) = Times(p) /\ Charts(p2, b) /\ DOMAIN p2 = PlannerFields
      /\ p2.points \in [Times(p2) -> ScheduledPoint] /\ Times(p2) \subseteq Nat
      /\ p2.tracked = {} /\ DOMAIN p2.mintime = Times(p)
  BY <1>5, <1>7, <1>8 DEF Midway, Charts
<1>10. \A t \in Times(p) : p2.points[t].ref_count = Refs(c, p.start, t)
  <2> TAKE t \in Times(p)
  <2>1. /\ p1.points[t].ref_count = p.points[t].ref_count - (IF t = s.start THEN 1 ELSE 0)
        /\ p2.points[t].ref_count = p1.points[t].ref_count - (IF t = s.last THEN 1 ELSE 0)
    BY <1>5, <1>7, <1>8
  <2>2. Refs(c, p.start, t) \in Nat
    BY <1>4
  <2> QED BY <1>6, <2>1, <2>2
<1>11. list \subseteq Times(p2) /\ \A t \in Times(p2) : t \in list <=> s.start <= t /\ t < s.last
  BY <1>2, <1>9 DEF fetch_overlap_points
<1> HIDE DEF list
<1>12. Takes(p2, list, -s.planned, p3)
  <2>1. -s.planned \in Int
    BY <1>2
  <2> QED BY <1>9, <1>11, <2>1, PointsUpdated
<1> HIDE DEF p3
<1>13. /\ Rest(p2, p3) /\ Times(p3) = Times(p) /\ p3.points \in [Times(p3) -> ScheduledPoint]
       /\ DOMAIN p3 = PlannerFields /\ p3.tracked = {}
       /\ \A t \in Times(p) :
             /\ p3.points[t].ref_count = Refs(c, p.start, t)
             /\ p3.points[t].scheduled = p2.points[t].scheduled + (IF t \in list THEN -s.planned ELSE 0)
             /\ p3.points[t].remaining = p2.points[t].remaining - (IF t \in list THEN -s.planned ELSE 0)
       /\ \A t : t \in DOMAIN p3.mintime <=>
                   t \in Times(p) /\ (t \in list => p3.points[t].ref_count > 0)
       /\ \A t \in DOMAIN p3.mintime :
             p3.mintime[t] = IF t \in list THEN p3.points[t].remaining ELSE p2.mintime[t]
  BY <1>9, <1>10, <1>11, <1>12 DEF Takes, Rest
<1> DEFINE g1 == IF p3.points[s.start].ref_count = 0 THEN {s.start} ELSE {}
           g2 == IF p4.points[s.last].ref_count = 0 THEN {s.last} ELSE {}
<1>14. /\ Rest(p3, p4) /\ Times(p4) = Times(p3) \ g1
       /\ p4.points \in [Times(p4) -> ScheduledPoint] /\ p4.tracked = p3.tracked
       /\ \A t \in Times(p4) : p4.points[t] = p3.points[t]
       /\ DOMAIN p4.mintime = DOMAIN p3.mintime \ g1
       /\ \A t \in DOMAIN p4.mintime : p4.mintime[t] = p3.mintime[t]
  BY <1>2, <1>13, PointDropped
<1> HIDE DEF p4
<1>15. s.last \in Times(p4) /\ DOMAIN p4 = PlannerFields
  BY <1>2, <1>13, <1>14 DEF Rest
<1>16. /\ Rest(p4, p5) /\ Times(p5) = Times(p4) \ g2
       /\ p5.points \in [Times(p5) -> ScheduledPoint] /\ p5.tracked = p4.tracked
       /\ \A t \in Times(p5) : p5.points[t] = p4.points[t]
       /\ DOMAIN p5.mintime = DOMAIN p4.mintime \ g2
       /\ \A t \in DOMAIN p5.mintime : p5.mintime[t] = p4.mintime[t]
  BY <1>14, <1>15, PointDropped
<1> HIDE DEF p5
<1>17. \A t : t \in Times(p5) <=> t \in Times(p) /\ Refs(c, p.start, t) > 0
  <2>1. \A t \in Times(p) : t # s.start /\ t # s.last => Refs(c, p.start, t) > 0
    BY <1>4, <1>6 DEF Sound
  <2>2. p4.points[s.last].ref_count = Refs(c, p.start, s.last)
    BY <1>2, <1>13, <1>14, <1>15
  <2>3. p3.points[s.start].ref_count = Refs(c, p.start, s.start)
    BY <1>2, <1>13
  <2>4. \A t : Refs(c, p.start, t) \in Nat
    BY <1>4
  <2> QED BY <1>2, <1>13, <1>14, <1>16, <2>1, <2>2, <2>3, <2>4
<1>18. DOMAIN p5.mintime = Times(p5)
  BY <1>13, <1>14, <1>16, <1>17
<1>19. /\ DOMAIN p5 = PlannerFields /\ p5.start = p.start /\ p5.end = p.end /\ p5.total = p.total
       /\ p5.spans = p.spans /\ p5.counter = p.counter
  BY <1>5, <1>7, <1>8, <1>13, <1>14, <1>16 DEF Rest
<1>20. /\ DOMAIN r = PlannerFields /\ r.start = p.start /\ r.end = p.end /\ r.total = p.total
       /\ r.spans = c /\ r.counter = p.counter /\ r.points = p5.points
       /\ r.mintime = p5.mintime /\ r.tracked = p5.tracked /\ r.request = NoRequest
       /\ r.iter_set = FALSE
  BY <1>19, <1>c DEF EndIteration, PlannerFields
<1> HIDE DEF r
<1>21. Times(r) = Times(p5) /\ Times(r) \subseteq Times(p)
  BY <1>17, <1>20 DEF Times
<1>22. \A t \in Times(r) : /\ r.points[t] = p3.points[t] /\ t \in Times(p)
                           /\ p2.points[t].scheduled = Use(b, t) /\ Use(b, t) \in Nat /\ t \in Nat
  BY <1>9, <1>14, <1>16, <1>20, <1>21, SoundTypes DEF Charts
<1>23. Charts(r, c)
  <2>1. r.points \in [Times(r) -> ScheduledPoint]
    BY <1>16, <1>20, <1>21
  <2>2. Times(r) \subseteq r.start .. r.end /\ r.start \in Times(r)
    BY <1>3, <1>17, <1>20, <1>21, SoundTypes, Referred
  <2>3. \A i \in DOMAIN c : c[i].start \in Times(r) /\ c[i].last \in Times(r)
    <3> TAKE i \in DOMAIN c
    <3>1. c[i].start \in Times(p) /\ c[i].last \in Times(p)
      BY <1>4 DEF Sound, Charts
    <3>2. Refs(c, p.start, c[i].start) > 0 /\ Refs(c, p.start, c[i].last) > 0
      BY <1>3, Referred
    <3> QED BY <1>17, <1>21, <3>1, <3>2
  <2>4. \A t \in Times(r) : r.points[t].scheduled = Use(c, t)
    BY <1>2, <1>4, <1>9, <1>11, <1>13, <1>22
  <2>5. r.start \in Nat /\ r.end \in Nat
    BY <1>20, SoundTypes
  <2> QED BY <1>20, <2>1, <2>2, <2>3, <2>4, <2>5 DEF Charts
<1>24. Sound(r)
  <2>1. NoRequest \in Request
    BY DEF NoRequest, Request
  <2>2. \A t \in Times(r) : r.points[t].ref_count = Refs(c, p.start, t) /\ r.points[t].ref_count > 0
    BY <1>13, <1>17, <1>21, <1>22
  <2>3. r.tracked = {} /\ DOMAIN r.mintime = Times(r)
    BY <1>13, <1>14, <1>16, <1>18, <1>20, <1>21
  <2>4. p.total \in Nat /\ p.counter \in Nat
    BY DEF Sound
  <2>5. Asked(r)
    BY <1>20 DEF Asked
  <2> QED BY <1>3, <1>20, <1>23, <2>1, <2>2, <2>3, <2>4, <2>5 DEF Sound
<1>25. ASSUME Exact(p) PROVE Exact(r)
  <2> SUFFICES ASSUME NEW t \in Times(r)
               PROVE  /\ r.points[t].remaining = r.total - r.points[t].scheduled
                      /\ r.points[t].scheduled <= r.total
    BY DEF Exact
  <2>1. p2.points[t].remaining = p.total - Use(b, t) /\ Use(b, t) <= p.total
    <3>1. Use(b, t) <= p.total
      BY <1>22, <1>25, SoundAccounts, SoundTypes
    <3> QED BY <1>8, <1>9, <1>22, <1>25, <3>1 DEF Midway
  <2>2. /\ r.points[t].remaining = p2.points[t].remaining - (IF t \in list THEN -s.planned ELSE 0)
        /\ r.points[t].scheduled = Use(b, t) + (IF t \in list THEN -s.planned ELSE 0)
    BY <1>13, <1>22
  <2> QED BY <1>2, <1>20, <1>22, <2>1, <2>2, SoundTypes
<1>26. r.tracked = {}
  BY <1>13, <1>14, <1>16, <1>20
<1>27. ASSUME Current(p) PROVE Current(r)
  <2>1. Current(p2)
    BY <1>8, <1>27 DEF Midway
  <2>2. \A t \in Times(p) : t \notin list => p3.points[t].remaining = p2.points[t].remaining
    <3>1. \A t \in Times(p2) : p2.points[t].remaining \in Int
      BY <1>9 DEF ScheduledPoint
    <3> QED BY <1>9, <1>13, <3>1
  <2>3. \A t \in DOMAIN r.mintime : /\ t \in DOMAIN p3.mintime /\ t \in Times(p) /\ t \in Times(r)
                                    /\ r.mintime[t] = p3.mintime[t]
    BY <1>14, <1>16, <1>18, <1>20, <1>21
  <2>4. \A t \in DOMAIN r.mintime : r.mintime[t] = r.points[t].remaining
    BY <1>9, <1>13, <1>22, <2>1, <2>2, <2>3 DEF Current
  <2> QED BY <1>26, <2>4 DEF Current
<1> QED BY <1>1, <1>20, <1>24, <1>25, <1>26, <1>27, <1>c

\* planner_reduce_span, for a part of a span.
LEMMA SpanReduced ==
    ASSUME NEW p, Sound(p), NEW id \in DOMAIN p.spans, NEW d \in Nat, d # 0,
           d < p.spans[id].planned
    PROVE  LET a == planner_reduce_span(p, id, d)
           IN  /\ a.ok /\ ~a.removed /\ Sound(a.p)
               /\ a.p.spans = [p.spans EXCEPT ![id].planned = @ - d]
               /\ a.p.total = p.total /\ a.p.start = p.start /\ a.p.end = p.end
               /\ a.p.tracked = {}
               /\ Exact(p) => Exact(a.p)
               /\ Current(p) => Current(a.p)
<1> DEFINE b == p.spans
           s == b[id]
           c == [b EXCEPT ![id].planned = @ - d]
           p0 == restore_track_points(p)
           p1 == [p0 EXCEPT !.spans[id].planned = @ - d]
           list == fetch_overlap_points(p1, s.start, s.last - s.start)
           r == update_mintime_resource_tree(UpdatePoints(p1, list, -d), list)
           a == planner_reduce_span(p, id, d)
<1>2. /\ s.start \in Nat /\ s.last \in Nat /\ s.planned \in Nat /\ s.start < s.last
  <2>1. Bookings(b, p.start, p.end, p.counter)
    BY DEF Sound
  <2>2. s.start \in Nat /\ s.last \in Nat /\ s.planned \in Nat
    BY <2>1, BookingTypes
  <2> QED BY <2>1, <2>2 DEF Bookings
<1>1. a = [p |-> r, ok |-> TRUE, removed |-> FALSE]
  <2>1. ~(d > s.planned) /\ d # s.planned
    BY <1>2
  <2> QED BY <2>1 DEF planner_reduce_span
<1>3. Bookings(c, p.start, p.end, p.counter) /\ Shrinks(b, id, d, c)
  <2>1. Bookings(b, p.start, p.end, p.counter) /\ p.counter \in Nat /\ d <= s.planned
    BY <1>2 DEF Sound
  <2> QED BY <2>1, SoundTypes, OneReduced
<1>c. c = [p.spans EXCEPT ![id].planned = @ - d]
  OBVIOUS
<1>4. Midway(p, p0) /\ Rest(p, p0) /\ p0.points = p.points /\ Times(p0) = Times(p)
  BY SoundTypes, RestoredMidway
<1> HIDE DEF p0
<1>5. /\ DOMAIN p1 = PlannerFields /\ p1.spans = c /\ p1.points = p.points
      /\ p1.mintime = p0.mintime /\ p1.tracked = {} /\ p1.request = p.request
      /\ p1.iter_set = p.iter_set
      /\ p1.start = p.start /\ p1.end = p.end /\ p1.total = p.total /\ p1.counter = p.counter
  BY <1>4 DEF Rest, PlannerFields, Midway
<1> HIDE DEF c, p1
<1>6. /\ DOMAIN c = DOMAIN b
      /\ \A i \in DOMAIN b : c[i].start = b[i].start /\ c[i].last = b[i].last
      /\ \A t \in Nat : Use(c, t) = Use(b, t) - (IF s.start <= t /\ t < s.last THEN d ELSE 0)
      /\ \A base, t : Refs(c, base, t) = Refs(b, base, t)
  BY <1>3 DEF Shrinks
<1> HIDE DEF s
<1>7. /\ Times(p1) = Times(p) /\ p1.points \in [Times(p1) -> ScheduledPoint]
      /\ DOMAIN p1.mintime = Times(p) /\ Times(p) \subseteq Nat
  BY <1>4, <1>5, SoundTypes DEF Midway, Times
<1>8. list \subseteq Times(p1) /\ \A t \in Times(p1) : t \in list <=> s.start <= t /\ t < s.last
  BY <1>2, <1>7 DEF fetch_overlap_points
<1> HIDE DEF list
<1>9. Takes(p1, list, -d, r)
  <2>1. -d \in Int
    OBVIOUS
  <2> QED BY <1>5, <1>7, <1>8, <2>1, PointsUpdated
<1> HIDE DEF r
<1>10. /\ DOMAIN r = PlannerFields /\ r.start = p.start /\ r.end = p.end /\ r.total = p.total
       /\ r.spans = c /\ r.counter = p.counter /\ r.request = p.request /\ r.tracked = {}
       /\ r.iter_set = p.iter_set
       /\ Times(r) = Times(p) /\ r.points \in [Times(r) -> ScheduledPoint]
       /\ \A t \in Times(p) :
             /\ r.points[t].ref_count = p.points[t].ref_count
             /\ r.points[t].scheduled = p.points[t].scheduled + (IF t \in list THEN -d ELSE 0)
             /\ r.points[t].remaining = p.points[t].remaining - (IF t \in list THEN -d ELSE 0)
  BY <1>5, <1>7, <1>9 DEF Takes, Rest
<1>11. /\ DOMAIN r.mintime = Times(r)
       /\ \A t \in Times(r) : r.mintime[t] = IF t \in list THEN r.points[t].remaining ELSE p0.mintime[t]
  <2>1. \A t \in Times(p) : p1.points[t].ref_count > 0
    BY <1>5 DEF Sound
  <2>2. /\ DOMAIN r.mintime = (Times(p) \ list) \cup {t \in list : p1.points[t].ref_count > 0}
        /\ \A t \in DOMAIN r.mintime : r.mintime[t] = IF t \in list THEN r.points[t].remaining ELSE p0.mintime[t]
    BY <1>5, <1>7, <1>9 DEF Takes
  <2>3. DOMAIN r.mintime = Times(r)
    BY <1>7, <1>8, <1>10, <2>1, <2>2
  <2> QED BY <2>2, <2>3
<1>12. \A t \in Times(p) : p.points[t].scheduled = Use(b, t) /\ Use(b, t) \in Nat
  BY SoundTypes DEF Sound, Charts
<1>13. Charts(r, c)
  <2>1. Times(r) \subseteq r.start .. r.end /\ r.start \in Times(r) /\ r.start \in Nat /\ r.end \in Nat
    BY <1>10, SoundTypes
  <2>2. \A i \in DOMAIN c : c[i].start \in Times(r) /\ c[i].last \in Times(r)
    BY <1>6, <1>10 DEF Sound, Charts
  <2>3. \A t \in Times(r) : r.points[t].scheduled = Use(c, t)
    BY <1>6, <1>7, <1>8, <1>10, <1>12
  <2> QED BY <1>10, <2>1, <2>2, <2>3 DEF Charts
<1>14. Sound(r)
  <2>1. \A t \in Times(r) : r.points[t].ref_count = Refs(c, p.start, t) /\ r.points[t].ref_count > 0
    BY <1>6, <1>10 DEF Sound
  <2>2. p.total \in Nat /\ p.counter \in Nat /\ p.request \in Request
    BY DEF Sound
  <2>3. Asked(r)
    BY <1>10 DEF Sound, Asked
  <2> QED BY <1>3, <1>10, <1>11, <1>13, <2>1, <2>2, <2>3 DEF Sound
<1>15. ASSUME Exact(p) PROVE Exact(r)
  <2> SUFFICES ASSUME NEW t \in Times(r)
               PROVE  /\ r.points[t].remaining = r.total - r.points[t].scheduled
                      /\ r.points[t].scheduled <= r.total
    BY DEF Exact
  <2>1. p.points[t].remaining = p.total - Use(b, t) /\ Use(b, t) <= p.total /\ Use(b, t) \in Nat
    BY <1>10, <1>12, <1>15 DEF Exact
  <2>2. /\ r.points[t].remaining = p.points[t].remaining - (IF t \in list THEN -d ELSE 0)
        /\ r.points[t].scheduled = Use(b, t) + (IF t \in list THEN -d ELSE 0)
    BY <1>10, <1>12
  <2> QED BY <1>10, <2>1, <2>2, SoundTypes
<1>16. ASSUME Current(p) PROVE Current(r)
  <2>1. Current(p0)
    BY <1>4, <1>16 DEF Midway
  <2>2. \A t \in Times(p) : t \notin list => r.points[t].remaining = p.points[t].remaining
    <3>1. \A t \in Times(p) : p.points[t].remaining \in Int
      BY SoundTypes
    <3> QED BY <1>10, <3>1
  <2>3. \A t \in Times(p) : p0.mintime[t] = p.points[t].remaining
    BY <1>4, <1>5, <1>7, <2>1 DEF Current
  <2> QED BY <1>10, <1>11, <2>2, <2>3 DEF Current
<1> QED BY <1>1, <1>10, <1>14, <1>15, <1>16, <1>c

\* What is left at a point when the total changes.
LEMMA TotalUpdated ==
    ASSUME NEW p, Sound(p), NEW total \in Nat
    PROVE  LET r == planner_update_total(p, total)
           IN  /\ Sound(r) /\ r.spans = p.spans /\ r.total = total
               /\ r.start = p.start /\ r.end = p.end
               /\ Exact(p) /\ (\A t \in Times(p) : p.points[t].scheduled <= total) => Exact(r)
               /\ r.tracked = p.tracked /\ r.request = p.request /\ Times(r) = Times(p)
               /\ Exact(p) /\ total = p.total =>
                     \A t \in Times(p) : r.points[t].remaining = p.points[t].remaining
               /\ Exact(p) /\ Current(p) /\ total = p.total => Current(r)
<1> DEFINE delta == total - p.total
           left(y) == [y EXCEPT !.remaining = IF @ + delta >= 0 THEN @ + delta ELSE 0]
           P == [t \in Times(p) |-> left(p.points[t])]
           r == planner_update_total(p, total)
<1>0. /\ DOMAIN p = PlannerFields /\ p.total \in Nat /\ p.points \in [Times(p) -> ScheduledPoint]
      /\ delta \in Int
  BY SoundTypes
<1>1. r = [p EXCEPT !.total = total, !.points = P]
  BY DEF planner_update_total
<1>2. ASSUME NEW t \in Times(p)
      PROVE  LET y == p.points[t]
                 z == left(y)
             IN  /\ z \in ScheduledPoint /\ z.ref_count = y.ref_count /\ z.scheduled = y.scheduled
                 /\ z.remaining = IF y.remaining + delta >= 0 THEN y.remaining + delta ELSE 0
                 /\ y.remaining \in Int /\ y.scheduled \in Int
  <2> DEFINE y == p.points[t]
             e == IF y.remaining + delta >= 0 THEN y.remaining + delta ELSE 0
             z == [y EXCEPT !.remaining = e]
  <2>1. y \in ScheduledPoint /\ y.remaining \in Int /\ y.scheduled \in Int
    BY <1>2, SoundTypes
  <2>2. e \in Int
    BY <1>0, <2>1
  <2>3. z = left(y)
    BY <2>1 DEF ScheduledPoint
  <2> HIDE DEF e
  <2>4. z \in ScheduledPoint /\ z.ref_count = y.ref_count /\ z.scheduled = y.scheduled /\ z.remaining = e
    BY <2>1, <2>2 DEF ScheduledPoint
  <2> HIDE DEF z, left
  <2> QED BY <2>1, <2>3, <2>4 DEF e
<1> HIDE DEF left
<1>3. P \in [Times(p) -> ScheduledPoint] /\ DOMAIN P = Times(p) /\ \A t \in Times(p) : P[t] = left(p.points[t])
  BY <1>2
<1> HIDE DEF P
<1>4. /\ DOMAIN r = PlannerFields /\ r.total = total /\ r.points = P /\ r.start = p.start
      /\ r.end = p.end /\ r.spans = p.spans /\ r.counter = p.counter /\ r.mintime = p.mintime
      /\ r.tracked = p.tracked /\ r.request = p.request /\ r.iter_set = p.iter_set
  BY <1>0, <1>1 DEF PlannerFields
<1> HIDE DEF r
<1>5. Times(r) = Times(p)
  BY <1>3, <1>4 DEF Times
<1>6. \A t \in Times(p) :
         /\ r.points[t].ref_count = p.points[t].ref_count
         /\ r.points[t].scheduled = p.points[t].scheduled
         /\ r.points[t].remaining = IF p.points[t].remaining + delta >= 0
                                      THEN p.points[t].remaining + delta ELSE 0
         /\ p.points[t].remaining \in Int /\ p.points[t].scheduled \in Int
  BY <1>2, <1>3, <1>4
<1>7. Charts(r, p.spans)
  BY <1>3, <1>4, <1>5, <1>6 DEF Sound, Charts
<1>8. Sound(r)
  <2>1. Asked(r)
    BY <1>4 DEF Sound, Asked
  <2> QED BY <1>4, <1>5, <1>6, <1>7, <2>1 DEF Sound
<1>9. ASSUME Exact(p), \A t \in Times(p) : p.points[t].scheduled <= total PROVE Exact(r)
  <2>1. ASSUME NEW t \in Times(p)
        PROVE  /\ r.points[t].remaining = total - r.points[t].scheduled
               /\ r.points[t].scheduled <= total
    <3>1. /\ p.points[t].remaining = p.total - p.points[t].scheduled /\ p.points[t].scheduled <= total
      BY <1>9 DEF Exact
    <3> QED BY <1>0, <1>6, <3>1
  <2> QED BY <1>4, <1>5, <2>1 DEF Exact
<1>10. ASSUME Exact(p), total = p.total
       PROVE  \A t \in Times(p) : r.points[t].remaining = p.points[t].remaining
  <2> TAKE t \in Times(p)
  <2>1. p.points[t].remaining >= 0 /\ delta = 0
    BY <1>0, <1>6, <1>10 DEF Exact
  <2> HIDE DEF delta
  <2> QED BY <1>6, <2>1
<1>11. ASSUME Exact(p), Current(p), total = p.total PROVE Current(r)
  <2>1. DOMAIN p.mintime \subseteq Times(p)
    BY DEF Sound
  <2> QED BY <1>4, <1>10, <1>11, <2>1 DEF Current
<1> QED BY <1>4, <1>5, <1>8, <1>9, <1>10, <1>11 DEF r

\* Planner r holds the same spans and points as p.
Same(p, r) ==
    /\ r.points = p.points /\ r.spans = p.spans /\ r.total = p.total /\ r.start = p.start
    /\ r.end = p.end /\ r.counter = p.counter
    /\ Current(p) => Current(r)

\* planner_copy: the copy's tree says what the points say, but holds the tracked points
\* as well.
LEMMA Copied ==
    ASSUME NEW p, Sound(p)
    PROVE  LET r == planner_copy(p)
           IN  /\ Sound(r) /\ r.points = p.points /\ r.spans = p.spans /\ r.total = p.total
               /\ r.start = p.start /\ r.end = p.end /\ r.tracked = p.tracked
               /\ p.tracked = {} => Current(r)
<1> DEFINE M == [t \in Times(p) |-> p.points[t].remaining]
           r == planner_copy(p)
<1>1. r = [p EXCEPT !.mintime = M]
  BY DEF planner_copy
<1>2. DOMAIN M = Times(p) /\ \A t \in Times(p) : M[t] = p.points[t].remaining
  OBVIOUS
<1> HIDE DEF M
<1>3. /\ DOMAIN r = PlannerFields /\ r.mintime = M /\ r.points = p.points /\ r.spans = p.spans
      /\ r.total = p.total /\ r.start = p.start /\ r.end = p.end /\ r.counter = p.counter
      /\ r.tracked = p.tracked /\ r.request = p.request /\ r.iter_set = p.iter_set
  BY <1>1, SoundTypes DEF PlannerFields
<1> HIDE DEF r
<1>4. Times(r) = Times(p)
  BY <1>3 DEF Times
<1>5. Sound(r)
  <2>1. Asked(r)
    BY <1>3 DEF Sound, Asked
  <2> QED BY <1>2, <1>3, <1>4, <2>1 DEF Sound, Charts
<1>6. p.tracked = {} => Current(r)
  BY <1>2, <1>3 DEF Current
<1> QED BY <1>3, <1>5, <1>6 DEF r

\* Candidates are taken out of the min-time tree and tracked.
LEMMA Searched ==
    ASSUME NEW p, Sound(p), NEW q
    PROVE  LET r == avail_at(p, q).p IN Sound(r) /\ Same(p, r)
<1> DEFINE cand == Candidates(p, q.count)
           fit  == {t \in cand : q.on_or_after <= t /\ span_ok(p, t, q.duration, q.count)}
           seen == IF fit = {} THEN cand ELSE {t \in cand : t <= Min(fit)}
           M == Restrict(p.mintime, DOMAIN p.mintime \ seen)
           r == avail_at(p, q).p
<1>1. r = [p EXCEPT !.mintime = M, !.tracked = p.tracked \cup seen]
  BY DEF avail_at
<1>2. seen \subseteq DOMAIN p.mintime
  BY DEF Candidates
<1> HIDE DEF seen
<1>3. DOMAIN M = DOMAIN p.mintime \ seen /\ \A t \in DOMAIN M : M[t] = p.mintime[t]
  BY DEF Restrict
<1> HIDE DEF M
<1>4. /\ DOMAIN r = PlannerFields /\ r.mintime = M /\ r.points = p.points /\ r.spans = p.spans
      /\ r.total = p.total /\ r.start = p.start /\ r.end = p.end /\ r.counter = p.counter
      /\ r.tracked = p.tracked \cup seen /\ r.request = p.request /\ r.iter_set = p.iter_set
  BY <1>1, SoundTypes DEF PlannerFields
<1> HIDE DEF r
<1>5. Times(r) = Times(p)
  BY <1>4 DEF Times
<1>6. /\ r.tracked \subseteq Times(r) /\ DOMAIN r.mintime \cup r.tracked = Times(r)
  BY <1>2, <1>3, <1>4, <1>5 DEF Sound
<1>7. Sound(r)
  <2>1. Asked(r)
    BY <1>4 DEF Sound, Asked
  <2> QED BY <1>4, <1>5, <1>6, <2>1 DEF Sound, Charts
<1>8. Current(p) => Current(r)
  BY <1>3, <1>4 DEF Current
<1> QED BY <1>4, <1>7, <1>8 DEF r, Same

-----------------------------------------------------------------------------
(***************************************************************************)
(* Lemmas about the queries: what a search answers, by the spans; that the *)
(* loop over the types ends, and with which time; and what queries leave   *)
(* as it is.                                                               *)
(***************************************************************************)

(***************************************************************************)
(* What a query answers.                                                   *)
(***************************************************************************)
\* The points with enough.
Enough(p, n) == {t \in Times(p) : n <= p.points[t].remaining}

\* The points at which a request fits, by the points.
Fitting(p, q) ==
    {t \in Enough(p, q.count) :
        q.on_or_after <= t /\ t + q.duration <= p.end /\ span_ok(p, t, q.duration, q.count)}

\* An iteration has taken out the first points with enough of what q asks for, and
\* none other.
Tracks(p, q) ==
    /\ q.duration >= 1 /\ q.count <= p.total
    /\ p.tracked \subseteq Enough(p, q.count)
    /\ \A t \in Enough(p, q.count), u \in p.tracked : t <= u => t \in p.tracked

Accurate(p) == Sound(p) /\ Exact(p) /\ Current(p)

\* At the last point everything is free.
LEMMA LastPoint ==
    ASSUME NEW p, Sound(p), Exact(p)
    PROVE  \E x \in Times(p) : (\A t \in Times(p) : t <= x) /\ p.points[x].remaining = p.total
<1>1. /\ Times(p) \subseteq Nat /\ Times(p) # {} /\ p.end \in Nat /\ \A t \in Times(p) : t <= p.end
  BY SoundTypes
<1> DEFINE x == Max(Times(p))
<1>2. x \in Times(p) /\ \A t \in Times(p) : t <= x
  BY <1>1, MaxIs
<1> HIDE DEF x
<1>3. InUse(p.spans, x) = {}
  <2> SUFFICES ASSUME NEW i \in InUse(p.spans, x) PROVE FALSE
    OBVIOUS
  <2>1. i \in DOMAIN p.spans /\ x < p.spans[i].last
    BY DEF InUse
  <2>2. p.spans[i].last \in Times(p)
    BY <2>1 DEF Sound, Charts
  <2> QED BY <1>1, <1>2, <2>1, <2>2
<1>4. Use(p.spans, x) = 0
  BY <1>3, FS_EmptySet, SumFirst DEF Use
<1>5. p.points[x].scheduled = 0
  BY <1>2, <1>4 DEF Sound, Charts
<1>6. p.points[x].remaining = p.total
  BY <1>2, <1>5, SoundTypes DEF Exact
<1> QED BY <1>2, <1>6

\* One search answers with the earliest fit that the iteration has not taken out.
Answers(p, q, a) ==
    /\ a.t = Earliest(Fitting(p, q) \ p.tracked)
    /\ Accurate(a.p) /\ Same(p, a.p) /\ Tracks(a.p, q)
    /\ a.p.request = p.request /\ a.p.iter_set = p.iter_set
    /\ p.tracked \subseteq a.p.tracked
    /\ a.t # NoTime => /\ a.t \in Fitting(p, q) \ p.tracked /\ a.t \in a.p.tracked
                       /\ \A u \in a.p.tracked : u <= a.t

\* avail_at searches the min-time tree, which says what the points say.
LEMMA SearchAnswers ==
    ASSUME NEW p, Accurate(p), NEW q \in Request, Tracks(p, q)
    PROVE  Answers(p, q, avail_at(p, q))
<1> DEFINE cand == Candidates(p, q.count)
           fit  == {t \in cand : q.on_or_after <= t /\ span_ok(p, t, q.duration, q.count)}
           seen == IF fit = {} THEN cand ELSE {t \in cand : t <= Min(fit)}
           last == IF seen = {} THEN NoTime ELSE Max(seen)
           M == Restrict(p.mintime, DOMAIN p.mintime \ seen)
           a == avail_at(p, q)
           E == Enough(p, q.count)
           left == Fitting(p, q) \ p.tracked
<1>0. Sound(p) /\ Exact(p) /\ Current(p)
  BY DEF Accurate
<1>1. /\ Times(p) \subseteq Nat /\ p.end \in Nat /\ p.total \in Nat
      /\ \A t \in Times(p) : p.points[t].remaining \in Int
      /\ DOMAIN p = PlannerFields
      /\ \A t \in Times(p) : t <= p.end
      /\ q.on_or_after \in Nat /\ q.duration \in Nat /\ q.count \in Nat
      /\ NoTime = -1
  BY <1>0, SoundTypes DEF Request, NoTime
<1>2. cand = E \ p.tracked
  BY <1>0 DEF Candidates, Enough, Sound, Current
<1>3. E \subseteq Times(p) /\ p.tracked \subseteq E
  BY DEF Enough, Tracks
<1>4. \A t \in E, u \in p.tracked : t <= u => t \in p.tracked
  BY DEF Tracks
<1>5. a.p = [p EXCEPT !.mintime = M, !.tracked = p.tracked \cup seen]
  BY DEF avail_at
<1>6. a.t = IF last < q.on_or_after \/ (fit # {} /\ last + q.duration > p.end)
              THEN NoTime ELSE last
  BY DEF avail_at
<1>7. Sound(a.p) /\ Same(p, a.p)
  BY <1>0, Searched
<1> HIDE DEF M
<1>8. /\ a.p.tracked = p.tracked \cup seen /\ a.p.request = p.request
      /\ a.p.iter_set = p.iter_set
  <2> HIDE DEF seen, a
  <2> QED BY <1>1, <1>5 DEF PlannerFields
<1>9. /\ Accurate(a.p) /\ Times(a.p) = Times(p) /\ Enough(a.p, q.count) = E /\ a.p.total = p.total
  <2> HIDE DEF a
  <2>1. a.p.points = p.points /\ a.p.total = p.total /\ Current(a.p)
    BY <1>0, <1>7 DEF Same
  <2>2. Times(a.p) = Times(p)
    BY <2>1 DEF Times
  <2>3. Exact(a.p) /\ Enough(a.p, q.count) = E
    BY <1>0, <2>1, <2>2 DEF Exact, Enough
  <2> QED BY <1>7, <2>1, <2>2, <2>3 DEF Accurate
<1>10. \A t : t \in left <=> t \in fit /\ t + q.duration <= p.end
  BY <1>2 DEF Fitting
<1> HIDE DEF left, a
<1>11. CASE fit = {}
  <2>1. left = {}
    BY <1>10, <1>11
  <2>2. seen = cand
    BY <1>11
  <2>3. last < q.on_or_after
    <3>1. CASE cand = {}
      BY <1>1, <2>2, <3>1
    <3>2. CASE cand # {}
      <4>1. PICK x \in Times(p) : (\A t \in Times(p) : t <= x) /\ p.points[x].remaining = p.total
        BY <1>0, LastPoint
      <4>2. x \in E
        BY <4>1 DEF Enough, Tracks
      <4>3. x \in cand
        <5>1. PICK t \in cand : TRUE
          BY <3>2
        <5> HIDE DEF cand, E
        <5> QED BY <1>2, <1>3, <1>4, <4>1, <4>2, <5>1
      <4>4. span_ok(p, x, q.duration, q.count)
        <5> SUFFICES ASSUME NEW t \in Times(p), x <= t PROVE q.count <= p.points[t].remaining
          BY DEF span_ok
        <5>1. t = x
          BY <1>1, <4>1
        <5> QED BY <4>1, <5>1 DEF Tracks
      <4>5. ~(q.on_or_after <= x)
        BY <1>11, <4>3, <4>4
      <4> DEFINE z == Max(cand)
      <4> HIDE DEF cand, E
      <4>6. z \in cand
        BY <1>1, <1>2, <1>3, <3>2, MaxIs
      <4>7. z <= x /\ z \in Nat
        BY <1>1, <1>2, <1>3, <4>1, <4>6
      <4>8. last = z
        BY <2>2, <3>2
      <4> QED BY <1>1, <4>5, <4>7, <4>8
    <3> QED BY <3>1, <3>2
  <2>4. a.t = NoTime
    <3> HIDE DEF last
    <3> QED BY <1>6, <2>3
  <2>5. a.t = Earliest(left)
    BY <2>1, <2>4 DEF Earliest
  <2>6. Tracks(a.p, q)
    <3> HIDE DEF cand, E
    <3> QED BY <1>2, <1>3, <1>4, <1>8, <1>9, <2>2 DEF Tracks
  <2> HIDE DEF seen
  <2>7. Answers(p, q, a)
    BY <1>7, <1>8, <1>9, <2>4, <2>5, <2>6 DEF Answers, left
  <2> QED BY <2>7 DEF a
<1>12. CASE fit # {}
  <2> DEFINE f == Min(fit)
  <2>1. fit \subseteq Nat /\ fit \subseteq cand
    <3> HIDE DEF E
    <3> QED BY <1>1, <1>2, <1>3
  <2>2. f \in fit /\ \A k \in fit : f <= k
    <3> HIDE DEF fit
    <3> QED BY <1>12, <2>1, MinIs
  <2>3. seen = {t \in cand : t <= f}
    <3> HIDE DEF fit, cand
    <3> QED BY <1>12
  <2> HIDE DEF f
  <2>4. f \in cand /\ f \in Nat /\ q.on_or_after <= f /\ f \in seen
    <3>1. f \in cand /\ f \in Nat /\ q.on_or_after <= f
      BY <2>1, <2>2
    <3> HIDE DEF seen, cand
    <3> QED BY <2>3, <3>1
  <2>5. last = f
    <3>1. seen \subseteq Nat /\ \A k \in seen : k <= f
      <4> HIDE DEF cand, E, seen
      <4> QED BY <1>1, <1>2, <1>3, <2>3
    <3> HIDE DEF seen
    <3>2. Max(seen) \in seen /\ \A k \in seen : k <= Max(seen)
      BY <2>4, <3>1, MaxIs
    <3>3. Max(seen) = f
      <4> DEFINE z == Max(seen)
      <4>1. z \in Nat /\ z <= f /\ f <= z
        BY <2>4, <3>1, <3>2
      <4> HIDE DEF z
      <4>2. z = f
        BY <2>4, <4>1
      <4> QED BY <4>2 DEF z
    <3> QED BY <2>4, <3>3
  <2>6. a.t = IF f + q.duration > p.end THEN NoTime ELSE f
    <3> HIDE DEF fit, last
    <3> QED BY <1>1, <1>6, <1>12, <2>4, <2>5
  <2>7. a.t = Earliest(left) /\ (a.t # NoTime => a.t = f /\ f \in left)
    <3>1. CASE f + q.duration > p.end
      <4>1. left = {}
        <5> SUFFICES ASSUME NEW t \in left PROVE FALSE
          OBVIOUS
        <5>1. t \in fit /\ t + q.duration <= p.end
          BY <1>10
        <5> HIDE DEF fit
        <5> QED BY <1>1, <2>1, <2>2, <2>4, <3>1, <5>1
      <4> QED BY <2>6, <3>1, <4>1 DEF Earliest
    <3>2. CASE ~(f + q.duration > p.end)
      <4>1. f \in left
        <5> HIDE DEF fit
        <5> QED BY <1>1, <1>10, <2>2, <2>4, <3>2
      <4>2. left \subseteq fit /\ left \subseteq Nat
        <5> HIDE DEF fit
        <5> QED BY <1>10, <2>1
      <4>3. Min(left) \in left /\ \A k \in left : Min(left) <= k
        BY <4>1, <4>2, MinIs
      <4>4. Min(left) = f
        <5> DEFINE z == Min(left)
        <5> HIDE DEF fit
        <5>1. z \in Nat /\ z <= f /\ f <= z
          BY <2>2, <4>1, <4>2, <4>3
        <5> HIDE DEF z
        <5>2. z = f
          BY <2>4, <5>1
        <5> QED BY <5>2 DEF z
      <4> QED BY <2>6, <3>2, <4>1, <4>4 DEF Earliest
    <3> QED BY <3>1, <3>2
  <2>8. Tracks(a.p, q)
    <3>1. ASSUME NEW t \in E, NEW u \in p.tracked \cup seen, t <= u PROVE t \in p.tracked \cup seen
      <4>1. t \in Nat /\ u \in Nat
        <5> HIDE DEF cand, E, seen
        <5> QED BY <1>1, <1>2, <1>3, <2>3
      <4> HIDE DEF cand, E, seen
      <4> QED BY <1>2, <1>3, <1>4, <2>3, <2>4, <3>1, <4>1
    <3>2. seen \subseteq E
      <4> HIDE DEF cand, E, seen
      <4> QED BY <1>2, <2>3
    <3> HIDE DEF E, seen
    <3> QED BY <1>3, <1>8, <1>9, <3>1, <3>2 DEF Tracks
  <2>9. \A u \in a.p.tracked : u <= f
    <3> HIDE DEF cand, E, seen
    <3> SUFFICES ASSUME NEW u \in a.p.tracked PROVE u <= f
      OBVIOUS
    <3>1. CASE u \in seen
      BY <2>3, <3>1
    <3>2. CASE u \in p.tracked
      <4>1. u \in Nat /\ f \in E /\ f \notin p.tracked
        BY <1>1, <1>2, <1>3, <2>4, <3>2
      <4>2. ~(f <= u)
        BY <1>4, <3>2, <4>1
      <4> QED BY <2>4, <4>1, <4>2
    <3> QED BY <1>8, <3>1, <3>2
  <2> HIDE DEF seen
  <2>10. f \in a.p.tracked
    BY <1>8, <2>4
  <2>11. Answers(p, q, a)
    BY <1>7, <1>8, <1>9, <2>7, <2>8, <2>9, <2>10 DEF Answers, left
  <2> QED BY <2>11 DEF a
<1> QED BY <1>11, <1>12 DEF a

\* Nothing is over the total in an interval, by the spans.
Room(p, t, duration, count) ==
    \A u \in t .. (t + duration - 1) : count + Use(p.spans, u) <= p.total

\* At a point, the points of the interval tell whether there is room in it.
LEMMA FittingBySpans ==
    ASSUME NEW p, Sound(p), Exact(p), NEW q \in Request, q.duration >= 1
    PROVE  Fitting(p, q) = {t \in Times(p) : /\ q.on_or_after <= t /\ t + q.duration <= p.end
                                             /\ Room(p, t, q.duration, q.count)}
<1>1. /\ Times(p) \subseteq Nat /\ Times(p) \subseteq p.start .. p.end
      /\ p.start \in Nat /\ p.end \in Nat /\ p.total \in Nat
      /\ q.duration \in Nat /\ q.count \in Nat
      /\ \A u : Use(p.spans, u) \in Nat
      /\ Charts(p, p.spans)
  BY SoundTypes DEF Request, Sound
<1>2. ASSUME NEW t \in Times(p)
      PROVE  p.points[t].remaining = p.total - Use(p.spans, t)
  BY DEF Exact, Sound, Charts
<1>3. ASSUME NEW t \in Times(p), t + q.duration <= p.end,
             Room(p, t, q.duration, q.count)
      PROVE  t \in Enough(p, q.count) /\ span_ok(p, t, q.duration, q.count)
  <2>1. ASSUME NEW u \in Times(p), t <= u, u < t + q.duration
        PROVE  q.count <= p.points[u].remaining
    <3>1. u \in t .. (t + q.duration - 1)
      BY <1>1, <2>1
    <3>2. q.count + Use(p.spans, u) <= p.total
      BY <1>3, <3>1 DEF Room
    <3>3. p.points[u].remaining = p.total - Use(p.spans, u) /\ Use(p.spans, u) \in Nat
      BY <1>1, <1>2
    <3> QED BY <1>1, <3>2, <3>3
  <2>2. t <= t /\ t < t + q.duration
    BY <1>1
  <2> QED BY <2>1, <2>2 DEF Enough, span_ok
<1>4. ASSUME NEW t \in Times(p), t + q.duration <= p.end, span_ok(p, t, q.duration, q.count)
      PROVE  Room(p, t, q.duration, q.count)
  <2> SUFFICES ASSUME NEW u \in t .. (t + q.duration - 1)
               PROVE  q.count + Use(p.spans, u) <= p.total
    BY DEF Room
  <2> DEFINE s == get_state(p, u)
  <2>1. u \in p.start .. p.end /\ u \in Nat /\ p.start <= u /\ t <= u /\ u < t + q.duration
    BY <1>1, <1>4
  <2>2. s \in Times(p) /\ s <= u /\ t <= s
    BY <1>1, <2>1, StateInForce
  <2>3. s < t + q.duration
    BY <1>1, <2>1, <2>2
  <2>4. q.count <= p.points[s].remaining
    BY <1>4, <2>2, <2>3 DEF span_ok
  <2>5. p.points[s].remaining = p.total - Use(p.spans, u)
    BY <2>1, SoundAccounts
  <2>6. Use(p.spans, u) \in Nat
    BY <1>1
  <2> QED BY <1>1, <2>4, <2>5, <2>6
<1> QED BY <1>3, <1>4 DEF Fitting, Enough

\* The states in force over an interval tell whether there is room in it.
LEMMA DuringBySpans ==
    ASSUME NEW p, Sound(p), Exact(p), NEW t \in Nat, p.start <= t,
           NEW duration \in Nat, duration >= 1, NEW count \in Nat
    PROVE  planner_avail_during(p, t, duration, count)
             <=> t + duration <= p.end /\ Room(p, t, duration, count)
<1>1. /\ Times(p) \subseteq Nat /\ p.start \in Nat /\ p.end \in Nat /\ p.total \in Nat
      /\ \A u : Use(p.spans, u) \in Nat
      /\ Charts(p, p.spans)
  BY SoundTypes DEF Sound
<1>2. ASSUME planner_avail_during(p, t, duration, count)
      PROVE  t + duration <= p.end /\ Room(p, t, duration, count)
  <2>1. avail_during(p, t, duration, count)
    BY <1>2 DEF planner_avail_during
  <2>2. ASSUME NEW u \in t .. (t + duration - 1)
        PROVE  count + Use(p.spans, u) <= p.total
    <3>1. Use(p.spans, u) + count <= p.total
      BY <2>1, AdmittedFits
    <3>2. Use(p.spans, u) \in Nat
      BY <1>1
    <3> QED BY <1>1, <3>1, <3>2
  <2> QED BY <2>1, <2>2 DEF avail_during, Room
<1>3. ASSUME t + duration <= p.end, Room(p, t, duration, count)
      PROVE  planner_avail_during(p, t, duration, count)
  <2>1. count <= p.total
    <3>1. t \in t .. (t + duration - 1)
      OBVIOUS
    <3>2. count + Use(p.spans, t) <= p.total
      BY <1>3, <3>1 DEF Room
    <3>3. Use(p.spans, t) \in Nat
      BY <1>1
    <3> QED BY <1>1, <3>2, <3>3
  <2>2. ASSUME NEW s \in InForce(p, t, duration) PROVE count <= p.points[s].remaining
    <3> DEFINE g == get_state(p, t)
    <3>1. s \in Times(p) /\ s < t + duration /\ s >= g /\ s \in Nat
      BY <1>1 DEF InForce
    <3>2. p.points[s].remaining = p.total - Use(p.spans, s)
      BY <3>1 DEF Exact, Sound, Charts
    <3>3. g \in Times(p) /\ g <= t /\ \A u \in Times(p) : u <= t => u <= g
      BY <1>1, StateInForce
    <3>4. g \in Nat
      BY <1>1, <3>3
    <3>5. Use(p.spans, s) \in Nat /\ Use(p.spans, t) \in Nat
      BY <1>1
    <3>6. CASE t <= s
      <4>1. s \in t .. (t + duration - 1)
        BY <3>1, <3>6
      <4>2. count + Use(p.spans, s) <= p.total
        BY <1>3, <4>1 DEF Room
      <4> QED BY <1>1, <3>2, <3>5, <4>2
    <3>7. CASE ~(t <= s)
      <4>1. s = g
        BY <3>1, <3>3, <3>4, <3>7
      <4>2. t \in p.start .. p.end
        BY <1>1, <1>3
      <4>3. p.points[g].remaining = p.total - Use(p.spans, t)
        BY <4>2, SoundAccounts
      <4>4. t \in t .. (t + duration - 1)
        OBVIOUS
      <4>5. count + Use(p.spans, t) <= p.total
        BY <1>3, <4>4 DEF Room
      <4> HIDE DEF g
      <4> QED BY <1>1, <3>5, <4>1, <4>3, <4>5
    <3> QED BY <3>6, <3>7
  <2> QED BY <1>3, <2>1, <2>2 DEF planner_avail_during, avail_during
<1> QED BY <1>2, <1>3

\* What a query leaves as it is: the spans and the points; and what it keeps of an
\* iteration.
Sought(p) == p.tracked # {} => Tracks(p, p.request)

Kept(p, r) == Sound(r) /\ Same(p, r) /\ (Accurate(p) /\ Sought(p) => Sought(r))

\* Planners with the same points and spans are accurate together.
LEMMA SameAccurate ==
    ASSUME NEW p, NEW r, Sound(r), Same(p, r)
    PROVE  /\ Exact(p) => Exact(r)
           /\ Accurate(p) => Accurate(r)
<1>1. Times(r) = Times(p)
  BY DEF Times, Same
<1> QED BY <1>1 DEF Exact, Accurate, Same

\* Two calls that leave the spans and points leave them.
LEMMA KeptTwice ==
    ASSUME NEW p, NEW r, NEW x, Kept(p, r), Kept(r, x)
    PROVE  Kept(p, x)
<1>1. Accurate(p) => Accurate(r)
  BY SameAccurate DEF Kept
<1>2. Same(p, x)
  BY DEF Kept, Same
<1> QED BY <1>1, <1>2 DEF Kept

\* A planner that is not called is left as it is.
LEMMA KeptSelf ==
    ASSUME NEW p, Sound(p)
    PROVE  Kept(p, p)
  BY DEF Kept, Same

\* The planner from which a query begins: nothing is tracked.
Begun(p, q) == [restore_track_points(p) EXCEPT !.iter_set = TRUE, !.request = q]

\* What a query begins with.
LEMMA BegunFields ==
    ASSUME NEW p, Sound(p), NEW q \in Request, q.duration >= 1
    PROVE  LET x == Begun(p, q)
           IN  /\ Sound(x) /\ Same(p, x) /\ x.tracked = {} /\ x.request = q
               /\ x.iter_set = TRUE
<1> DEFINE o == restore_track_points(p)
           x == Begun(p, q)
<1>1. Midway(p, o) /\ Rest(p, o) /\ o.points = p.points /\ Times(o) = Times(p)
  BY SoundTypes, RestoredMidway
<1>2. x = [o EXCEPT !.iter_set = TRUE, !.request = q]
  BY DEF Begun
<1> HIDE DEF o, x
<1>3. /\ DOMAIN x = PlannerFields /\ x.mintime = o.mintime /\ x.points = p.points
      /\ x.spans = p.spans /\ x.total = p.total /\ x.start = p.start /\ x.end = p.end
      /\ x.counter = p.counter /\ x.tracked = {} /\ x.request = q
      /\ DOMAIN o.mintime = Times(p)
  BY <1>1, <1>2 DEF Rest, PlannerFields, Midway
<1>4. x.iter_set = TRUE
  BY <1>1, <1>2 DEF Rest, PlannerFields
<1>5. Times(x) = Times(p)
  BY <1>3 DEF Times
<1>6. Sound(x)
  <2>1. Asked(x)
    BY <1>3 DEF Asked
  <2> QED BY <1>3, <1>5, <2>1 DEF Sound, Charts
<1>7. Same(p, x)
  BY <1>1, <1>3 DEF Same, Midway, Current
<1> QED BY <1>3, <1>4, <1>6, <1>7 DEF x

\* The first question leaves the spans and points,
LEMMA FirstKeeps ==
    ASSUME NEW p, Sound(p), NEW on_or_after \in Nat, NEW duration \in Nat, NEW count \in Nat
    PROVE  Kept(p, planner_avail_time_first(p, on_or_after, duration, count).p)
<1> DEFINE q == [on_or_after |-> on_or_after, duration |-> duration, count |-> count]
           x == Begun(p, q)
           a == planner_avail_time_first(p, on_or_after, duration, count)
<1>1. CASE a = [p |-> p, t |-> NoTime]
  BY <1>1, KeptSelf
<1>2. CASE a = avail_at(x, q) /\ ~(duration < 1) /\ ~(count > p.total)
  <2>1. q \in Request /\ q.duration >= 1 /\ q.count <= p.total
    BY <1>2, SoundTypes DEF Request
  <2> HIDE DEF q
  <2>2. Sound(x) /\ Same(p, x) /\ x.tracked = {} /\ x.request = q
    BY <2>1, BegunFields
  <2> HIDE DEF x
  <2>3. Sound(a.p) /\ Same(x, a.p)
    BY <1>2, <2>2, Searched
  <2>4. ASSUME Accurate(p) PROVE Sought(a.p)
    <3>1. Accurate(x)
      BY <2>2, <2>4, SameAccurate
    <3>2. Tracks(x, q)
      BY <2>1, <2>2 DEF Tracks, Same
    <3>3. Answers(x, q, a)
      BY <1>2, <2>1, <3>1, <3>2, SearchAnswers
    <3> HIDE DEF a
    <3> QED BY <2>2, <3>3 DEF Answers, Sought
  <2> HIDE DEF a
  <2>5. Same(p, a.p)
    BY <2>2, <2>3 DEF Same
  <2> QED BY <2>3, <2>4, <2>5 DEF Kept, a
<1> QED BY <1>1, <1>2 DEF planner_avail_time_first, Begun

\* and so do the next ones.
LEMMA NextKept ==
    ASSUME NEW p, Sound(p)
    PROVE  Kept(p, planner_avail_time_next(p).p)
<1> DEFINE a == planner_avail_time_next(p)
           q == p.request
<1>1. CASE ~p.iter_set \/ q.count > p.total
  <2>1. a = [p |-> p, t |-> NoTime]
    BY <1>1 DEF planner_avail_time_next
  <2> QED BY <2>1, KeptSelf
<1>2. CASE ~(~p.iter_set \/ q.count > p.total)
  <2>1. a = avail_at(p, q)
    BY <1>2 DEF planner_avail_time_next
  <2>2. q \in Request /\ ~(q.count > p.total) /\ p.iter_set = TRUE
    BY <1>2 DEF Sound
  <2>3. q.duration >= 1
    BY <2>2 DEF Sound, Asked
  <2>4. q.count <= p.total
    BY <2>2, SoundTypes DEF Request
  <2> HIDE DEF q, a
  <2>5. Sound(a.p) /\ Same(p, a.p)
    BY <2>1, Searched
  <2>6. ASSUME Accurate(p), Sought(p) PROVE Sought(a.p)
    <3>1. Tracks(p, q)
      <4>1. CASE p.tracked = {}
        BY <2>3, <2>4, <4>1 DEF Tracks
      <4>2. CASE p.tracked # {}
        BY <2>6, <4>2 DEF Sought, q
      <4> QED BY <4>1, <4>2
    <3>2. Answers(p, q, a)
      BY <2>1, <2>2, <2>6, <3>1, SearchAnswers
    <3>3. Tracks(a.p, q) /\ a.p.request = q
      BY <3>2 DEF Answers, q
    <3> QED BY <3>3 DEF Sought
  <2> QED BY <2>5, <2>6 DEF Kept, a
<1> QED BY <1>1, <1>2

(***************************************************************************)
(* The loop of the queries: the first planner proposes time after time.    *)
(* The function that describes the loop exists, and each of its steps is a *)
(* query.                                                                  *)
(***************************************************************************)
\* The proposal after v.
Proposal(mm, duration, counts, v) ==
    IF v.t = NoTime \/ OthersAvail(mm, v.t, duration, counts) THEN v
    ELSE planner_avail_time_next(v.p)

\* f makes the first proposals, up to number n; the loop makes as many as it needs.
Proposes(mm, duration, counts, first, n, f) ==
    f = [k \in 0 .. n |-> IF k = 0 THEN first ELSE Proposal(mm, duration, counts, f[k - 1])]

IsLoop(mm, duration, counts, first, f) ==
    f = [k \in Nat |-> IF k = 0 THEN first ELSE Proposal(mm, duration, counts, f[k - 1])]

\* One proposal.
LEMMA ProposesStep ==
    ASSUME NEW mm, NEW duration, NEW counts, NEW first, NEW n \in Nat, NEW f,
           Proposes(mm, duration, counts, first, n, f), NEW k \in 0 .. n
    PROVE  f[k] = IF k = 0 THEN first ELSE Proposal(mm, duration, counts, f[k - 1])
  BY DEF Proposes

\* However far they go, the proposals are the same.
LEMMA ProposesOnce ==
    ASSUME NEW mm, NEW duration, NEW counts, NEW first, NEW n \in Nat, NEW i \in 0 .. n,
           NEW f, Proposes(mm, duration, counts, first, n, f),
           NEW g, Proposes(mm, duration, counts, first, i, g)
    PROVE  \A k \in 0 .. i : f[k] = g[k]
<1> DEFINE B == {k \in 0 .. i : f[k] # g[k]}
<1> SUFFICES ASSUME B # {} PROVE FALSE
  OBVIOUS
<1>1. B \subseteq Nat
  OBVIOUS
<1>2. PICK k \in B : \A j \in B : k <= j
  <2> HIDE DEF B
  <2> QED BY <1>1, LeastNumber
<1>3. k \in 0 .. i /\ k \in 0 .. n
  OBVIOUS
<1>4. f[k] = IF k = 0 THEN first ELSE Proposal(mm, duration, counts, f[k - 1])
  BY <1>3 DEF Proposes
<1>5. g[k] = IF k = 0 THEN first ELSE Proposal(mm, duration, counts, g[k - 1])
  BY <1>3 DEF Proposes
<1>6. k # 0
  BY <1>4, <1>5
<1>7. k - 1 \in 0 .. i /\ k - 1 < k
  BY <1>3, <1>6
<1>8. f[k - 1] = g[k - 1]
  BY <1>2, <1>7
<1> QED BY <1>4, <1>5, <1>8

\* Any number of proposals can be made,
LEMMA ProposesExists ==
    ASSUME NEW mm, NEW duration, NEW counts, NEW first, NEW n \in Nat
    PROVE  \E f : Proposes(mm, duration, counts, first, n, f)
<1> DEFINE N(v) == Proposal(mm, duration, counts, v)
           P(k) == \E f : Proposes(mm, duration, counts, first, k, f)
           B == {k \in Nat : ~P(k)}
<1> SUFFICES ASSUME B # {} PROVE FALSE
  OBVIOUS
<1>1. PICK k \in B : \A j \in B : k <= j
  <2>1. B \subseteq Nat
    OBVIOUS
  <2> HIDE DEF B
  <2> QED BY <2>1, LeastNumber
<1>2. k # 0
  <2> SUFFICES ASSUME k = 0 PROVE FALSE
    OBVIOUS
  <2> DEFINE f == [j \in 0 .. 0 |-> first]
  <2>1. Proposes(mm, duration, counts, first, 0, f)
    BY DEF Proposes
  <2> QED BY <2>1
<1>3. k - 1 \in Nat /\ k \in Nat
  BY <1>2
<1>4. P(k - 1)
  BY <1>1, <1>3
<1>5. PICK g : Proposes(mm, duration, counts, first, k - 1, g)
  BY <1>4
<1> DEFINE f == [j \in 0 .. k |-> IF j = k THEN N(g[k - 1]) ELSE g[j]]
<1>6. \A j \in 0 .. k : f[j] = IF j = 0 THEN first ELSE N(f[j - 1])
  <2> TAKE j \in 0 .. k
  <2>1. CASE j = k
    <3>1. f[k] = N(g[k - 1])
      BY <1>3
    <3>2. f[k - 1] = g[k - 1]
      BY <1>3
    <3> HIDE DEF N, f
    <3> QED BY <1>2, <2>1, <3>1, <3>2
  <2>2. CASE j # k
    <3>1. j \in 0 .. (k - 1)
      BY <1>3, <2>2
    <3>2. f[j] = g[j]
      BY <2>2
    <3>3. j # 0 => f[j - 1] = g[j - 1]
      BY <1>3, <3>1
    <3>4. g[j] = IF j = 0 THEN first ELSE N(g[j - 1])
      BY <1>5, <3>1 DEF Proposes
    <3> HIDE DEF N, f
    <3> QED BY <3>2, <3>3, <3>4
  <2> QED BY <2>1, <2>2
<1>7. DOMAIN f = 0 .. k /\ f = [j \in 0 .. k |-> f[j]]
  OBVIOUS
<1> HIDE DEF f
<1>8. Proposes(mm, duration, counts, first, k, f)
  BY <1>6, <1>7 DEF Proposes
<1> QED BY <1>8

\* and so the loop that makes them as long as it needs exists.
LEMMA LoopExists ==
    ASSUME NEW mm, NEW duration, NEW counts, NEW first
    PROVE  \E f : IsLoop(mm, duration, counts, first, f)
<1> DEFINE G(n) == CHOOSE g : Proposes(mm, duration, counts, first, n, g)
           N(v) == Proposal(mm, duration, counts, v)
           f == [n \in Nat |-> G(n)[n]]
<1>1. ASSUME NEW n \in Nat PROVE Proposes(mm, duration, counts, first, n, G(n))
  BY ProposesExists
<1> HIDE DEF G
<1>2. ASSUME NEW n \in Nat PROVE f[n] = IF n = 0 THEN first ELSE N(f[n - 1])
  <2>1. G(n)[n] = IF n = 0 THEN first ELSE N(G(n)[n - 1])
    <3>1. n \in 0 .. n /\ Proposes(mm, duration, counts, first, n, G(n))
      BY <1>1
    <3> QED BY <3>1, ProposesStep
  <2>2. CASE n = 0
    BY <2>1, <2>2
  <2>3. CASE n # 0
    <3>1. n - 1 \in Nat /\ n - 1 \in 0 .. n /\ n - 1 \in 0 .. (n - 1)
      BY <2>3
    <3>2. Proposes(mm, duration, counts, first, n, G(n))
          /\ Proposes(mm, duration, counts, first, n - 1, G(n - 1))
      BY <1>1, <3>1
    <3>3. G(n)[n - 1] = G(n - 1)[n - 1]
      BY <3>1, <3>2, ProposesOnce
    <3> HIDE DEF N
    <3> QED BY <2>1, <2>3, <3>1, <3>3
  <2> QED BY <2>2, <2>3
<1>3. f = [n \in Nat |-> f[n]]
  OBVIOUS
<1> HIDE DEF f
<1>4. IsLoop(mm, duration, counts, first, f)
  BY <1>2, <1>3 DEF IsLoop
<1> QED BY <1>4

\* However many proposals there are, the planner is sound and its spans and points
\* are as they were.
LEMMA LoopKeeps ==
    ASSUME NEW mm, NEW duration, NEW counts, NEW first, Sound(first.p),
           NEW f, IsLoop(mm, duration, counts, first, f), NEW n \in Nat
    PROVE  Kept(first.p, f[n].p)
<1> DEFINE N(v) == Proposal(mm, duration, counts, v)
           Good(v) == Kept(first.p, v.p)
           B == {k \in Nat : ~Good(f[k])}
<1>1. ASSUME NEW v, Good(v) PROVE Good(N(v))
  <2>1. CASE N(v) = v
    <3> HIDE DEF N
    <3> QED BY <1>1, <2>1
  <2>2. CASE N(v) = planner_avail_time_next(v.p)
    <3> HIDE DEF N
    <3>1. Sound(v.p)
      BY <1>1 DEF Kept
    <3>2. Kept(v.p, N(v).p)
      BY <2>2, <3>1, NextKept
    <3> QED BY <1>1, <3>2, KeptTwice
  <2> QED BY <2>1, <2>2 DEF Proposal
<1>2. \A k \in Nat : f[k] = IF k = 0 THEN first ELSE N(f[k - 1])
  BY DEF IsLoop
<1> HIDE DEF N
<1> SUFFICES ASSUME B # {} PROVE FALSE
  OBVIOUS
<1>3. PICK k \in B : \A j \in B : k <= j
  <2>1. B \subseteq Nat
    OBVIOUS
  <2> HIDE DEF B
  <2> QED BY <2>1, LeastNumber
<1>4. Good(first)
  BY KeptSelf
<1>5. k # 0
  BY <1>2, <1>4
<1>6. k - 1 \in Nat /\ k \in Nat
  BY <1>5
<1>7. Good(f[k - 1])
  BY <1>3, <1>6
<1> HIDE DEF Good
<1> QED BY <1>1, <1>2, <1>5, <1>6, <1>7

\* A query replaces the planner of the first type by one with the same spans and
\* points.
LEMMA Iterated ==
    ASSUME NEW mm, NEW first, Sound(first.p), NEW duration, NEW counts
    PROVE  \E q : /\ Kept(first.p, q)
                  /\ Iterate(mm, first, duration, counts).m = SetPlanner(mm, 1, q)
<1> DEFINE f == CHOOSE g : IsLoop(mm, duration, counts, first, g)
           last == f[Cardinality(Times(first.p)) + 1]
<1>1. IsLoop(mm, duration, counts, first, f)
  BY LoopExists
<1>2. Iterate(mm, first, duration, counts).m = SetPlanner(mm, 1, last.p)
  BY DEF Iterate, IsLoop, Proposal
<1> HIDE DEF f
<1>3. Cardinality(Times(first.p)) + 1 \in Nat
  <2>1. /\ first.p.start \in Nat /\ first.p.end \in Nat
        /\ Times(first.p) \subseteq first.p.start .. first.p.end
    BY SoundTypes
  <2>2. IsFiniteSet(first.p.start .. first.p.end)
    <3>1. first.p.start \in Int /\ first.p.end \in Int
      BY <2>1
    <3> QED BY <3>1, FS_Interval
  <2> QED BY <2>1, <2>2, FS_Subset, FS_CardinalityType
<1>4. Kept(first.p, last.p)
  BY <1>1, <1>3, LoopKeeps
<1> QED BY <1>2, <1>4

\* The fits of the first planner p, not yet taken out, that the other types agree to.
Agreed(mm, duration, counts, p, q) ==
    {t \in Fitting(p, q) \ p.tracked : OthersAvail(mm, t, duration, counts)}

\* After n proposals, none that is agreed to has been passed over, and while none is
\* found each proposal has taken out one more point.
Seeks(mm, duration, counts, p, q, n, v) ==
    /\ Accurate(v.p) /\ Same(p, v.p) /\ Tracks(v.p, q)
    /\ v.p.request = q /\ v.p.iter_set = p.iter_set
    /\ p.tracked \subseteq v.p.tracked
    /\ v.t # NoTime => /\ v.t \in Fitting(p, q) \ p.tracked /\ v.t \in v.p.tracked
                       /\ \A u \in v.p.tracked : u <= v.t
    /\ \A t \in Agreed(mm, duration, counts, p, q) : v.t # NoTime /\ v.t <= t
    /\ v.t # NoTime /\ ~OthersAvail(mm, v.t, duration, counts) =>
          Cardinality(v.p.tracked) >= n + 1

\* There are no more tracked points than points.
LEMMA TrackedFinite ==
    ASSUME NEW p, Sound(p)
    PROVE  /\ IsFiniteSet(Times(p)) /\ IsFiniteSet(p.tracked)
           /\ Cardinality(Times(p)) \in Nat /\ Cardinality(p.tracked) \in Nat
           /\ Cardinality(p.tracked) <= Cardinality(Times(p))
<1>1. /\ p.start \in Int /\ p.end \in Int /\ Times(p) \subseteq p.start .. p.end
      /\ p.tracked \subseteq Times(p)
  BY SoundTypes DEF Sound
<1>2. IsFiniteSet(p.start .. p.end)
  BY <1>1, FS_Interval
<1>3. IsFiniteSet(Times(p))
  BY <1>1, <1>2, FS_Subset
<1>4. IsFiniteSet(p.tracked) /\ Cardinality(p.tracked) <= Cardinality(Times(p))
  BY <1>1, <1>3, FS_Subset
<1> QED BY <1>3, <1>4, FS_CardinalityType

\* Where a request fits depends on the points only.
LEMMA FittingSame ==
    ASSUME NEW p, NEW r, Same(p, r), NEW q
    PROVE  Fitting(r, q) = Fitting(p, q)
  BY DEF Same, Fitting, Enough, span_ok, Times

\* One more search of the first planner.
LEMMA SeeksOn ==
    ASSUME NEW mm, NEW duration, NEW counts, NEW p, Accurate(p), NEW q \in Request, NEW n \in Nat,
           NEW v, Seeks(mm, duration, counts, p, q, n, v),
           v.t # NoTime, ~OthersAvail(mm, v.t, duration, counts)
    PROVE  Seeks(mm, duration, counts, p, q, n + 1, avail_at(v.p, q))
<1> DEFINE w == avail_at(v.p, q)
           A == Agreed(mm, duration, counts, p, q)
           left == Fitting(p, q) \ v.p.tracked
<1>1. /\ Accurate(v.p) /\ Same(p, v.p) /\ Tracks(v.p, q)
      /\ v.p.request = q /\ v.p.iter_set = p.iter_set
      /\ p.tracked \subseteq v.p.tracked
      /\ v.t \in Fitting(p, q) \ p.tracked /\ v.t \in v.p.tracked
      /\ \A u \in v.p.tracked : u <= v.t
      /\ \A t \in A : v.t <= t
      /\ Cardinality(v.p.tracked) >= n + 1
  BY DEF Seeks
<1>2. Answers(v.p, q, w)
  BY <1>1, SearchAnswers
<1> HIDE DEF w
<1>3. Fitting(v.p, q) = Fitting(p, q)
  BY <1>1, FittingSame
<1>4. /\ w.t = Earliest(left) /\ Accurate(w.p) /\ Same(v.p, w.p) /\ Tracks(w.p, q)
      /\ w.p.request = q /\ w.p.iter_set = p.iter_set /\ v.p.tracked \subseteq w.p.tracked
      /\ w.t # NoTime => /\ w.t \in left /\ w.t \in w.p.tracked
                         /\ \A u \in w.p.tracked : u <= w.t
  BY <1>1, <1>2, <1>3 DEF Answers
<1>5. Same(p, w.p)
  BY <1>1, <1>4 DEF Same
<1>6. Fitting(p, q) \subseteq Nat
  <2>1. Times(p) \subseteq Nat
    BY SoundTypes DEF Accurate
  <2> QED BY <2>1 DEF Fitting, Enough
<1>7. ASSUME NEW t \in A PROVE w.t # NoTime /\ w.t <= t
  <2>1. t \in Fitting(p, q) /\ OthersAvail(mm, t, duration, counts)
    BY DEF Agreed
  <2>2. t # v.t /\ v.t <= t
    BY <1>1, <2>1
  <2>3. t \in left
    BY <1>1, <1>6, <2>1, <2>2
  <2>4. left \subseteq Nat
    BY <1>6
  <2> HIDE DEF left
  <2>5. w.t = Min(left)
    BY <1>4, <2>3 DEF Earliest
  <2>6. Min(left) \in left /\ \A k \in left : Min(left) <= k
    BY <2>3, <2>4, MinIs
  <2> QED BY <2>3, <2>4, <2>5, <2>6 DEF NoTime
<1>8. ASSUME w.t # NoTime PROVE Cardinality(w.p.tracked) >= (n + 1) + 1
  <2> DEFINE s == v.p.tracked \cup {w.t}
  <2>1. w.t \notin v.p.tracked /\ s \subseteq w.p.tracked
    BY <1>4, <1>8
  <2>2. IsFiniteSet(v.p.tracked) /\ Cardinality(v.p.tracked) \in Nat
    BY <1>1, TrackedFinite DEF Accurate
  <2>3. IsFiniteSet(w.p.tracked) /\ Cardinality(w.p.tracked) \in Nat
    BY <1>4, TrackedFinite DEF Accurate
  <2>4. IsFiniteSet(s) /\ Cardinality(s) = Cardinality(v.p.tracked) + 1
    BY <2>1, <2>2, FS_AddElement
  <2> HIDE DEF s
  <2>5. Cardinality(s) <= Cardinality(w.p.tracked)
    BY <2>1, <2>3, FS_Subset
  <2> QED BY <1>1, <2>2, <2>3, <2>4, <2>5
<1>9. w.t # NoTime => w.t \in Fitting(p, q) \ p.tracked
  BY <1>1, <1>4
<1>10. p.tracked \subseteq w.p.tracked
  BY <1>1, <1>4
<1> HIDE DEF A
<1>11. Seeks(mm, duration, counts, p, q, n + 1, w)
  BY <1>4, <1>5, <1>7, <1>8, <1>9, <1>10 DEF Seeks, A
<1> QED BY <1>11 DEF w

\* The first proposal.
LEMMA SeeksFirst ==
    ASSUME NEW mm, NEW duration, NEW counts, NEW p, Accurate(p), NEW q \in Request, Tracks(p, q),
           p.request = q
    PROVE  Seeks(mm, duration, counts, p, q, 0, avail_at(p, q))
<1> DEFINE w == avail_at(p, q)
           A == Agreed(mm, duration, counts, p, q)
           left == Fitting(p, q) \ p.tracked
<1>1. Answers(p, q, w)
  BY SearchAnswers
<1> HIDE DEF w
<1>2. /\ w.t = Earliest(left) /\ Accurate(w.p) /\ Same(p, w.p) /\ Tracks(w.p, q)
      /\ w.p.request = q /\ w.p.iter_set = p.iter_set /\ p.tracked \subseteq w.p.tracked
      /\ w.t # NoTime => /\ w.t \in left /\ w.t \in w.p.tracked
                         /\ \A u \in w.p.tracked : u <= w.t
  BY <1>1 DEF Answers
<1>3. left \subseteq Nat
  <2>1. Times(p) \subseteq Nat
    BY SoundTypes DEF Accurate
  <2> QED BY <2>1 DEF Fitting, Enough
<1>4. ASSUME NEW t \in A PROVE w.t # NoTime /\ w.t <= t
  <2>1. t \in left
    BY DEF Agreed
  <2> HIDE DEF left
  <2>2. w.t = Min(left)
    BY <1>2, <2>1 DEF Earliest
  <2>3. Min(left) \in left /\ \A k \in left : Min(left) <= k
    BY <1>3, <2>1, MinIs
  <2> QED BY <1>3, <2>1, <2>2, <2>3 DEF NoTime
<1>5. ASSUME w.t # NoTime PROVE Cardinality(w.p.tracked) >= 0 + 1
  <2>1. IsFiniteSet(w.p.tracked) /\ Cardinality(w.p.tracked) \in Nat
    BY <1>2, TrackedFinite DEF Accurate
  <2>2. Cardinality(w.p.tracked) # 0
    BY <1>2, <1>5, <2>1, FS_EmptySet
  <2> QED BY <2>1, <2>2
<1> HIDE DEF A
<1>6. Seeks(mm, duration, counts, p, q, 0, w)
  BY <1>2, <1>4, <1>5 DEF Seeks, A
<1> QED BY <1>6 DEF w

\* The loop ends, with the earliest time that all the types agree to.
LEMMA LoopFinds ==
    ASSUME NEW mm, NEW duration, NEW counts, NEW p, Accurate(p), NEW q \in Request, Tracks(p, q),
           p.request = q, p.iter_set
    PROVE  Iterate(mm, avail_at(p, q), duration, counts).t
             = Earliest(Agreed(mm, duration, counts, p, q))
<1> DEFINE first == avail_at(p, q)
           f == CHOOSE g : IsLoop(mm, duration, counts, first, g)
           num == Cardinality(Times(first.p)) + 1
           A == Agreed(mm, duration, counts, p, q)
           N(v) == Proposal(mm, duration, counts, v)
           Good(v, n) == Seeks(mm, duration, counts, p, q, n, v)
           B == {k \in Nat : ~Good(f[k], k)}
<1>1. IsLoop(mm, duration, counts, first, f)
  BY LoopExists
<1>2. Iterate(mm, first, duration, counts).t = f[num].t
  BY DEF Iterate, IsLoop, Proposal
<1>3. Good(first, 0)
  BY SeeksFirst
<1> HIDE DEF first, f
<1>4. \A k \in Nat : f[k] = IF k = 0 THEN first ELSE N(f[k - 1])
  BY <1>1 DEF IsLoop
<1>5. ASSUME NEW v, NEW n \in Nat, Good(v, n) PROVE Good(N(v), n + 1)
  <2>1. CASE v.t = NoTime \/ OthersAvail(mm, v.t, duration, counts)
    <3>1. N(v) = v
      BY <2>1 DEF Proposal
    <3> QED BY <1>5, <2>1, <3>1 DEF Seeks
  <2>2. CASE v.t # NoTime /\ ~OthersAvail(mm, v.t, duration, counts)
    <3>1. N(v) = planner_avail_time_next(v.p)
      BY <2>2 DEF Proposal
    <3>2. v.p.iter_set /\ v.p.request = q /\ q.count <= v.p.total
      BY <1>5 DEF Seeks, Tracks
    <3>3. ~(q.count > v.p.total)
      <4>1. v.p.total \in Nat /\ q.count \in Nat
        BY <1>5, SoundTypes DEF Seeks, Accurate, Request
      <4> QED BY <3>2, <4>1
    <3>4. planner_avail_time_next(v.p) = avail_at(v.p, q)
      BY <3>2, <3>3, Zenon DEF planner_avail_time_next
    <3>5. Good(avail_at(v.p, q), n + 1)
      BY <1>5, <2>2, SeeksOn
    <3> QED BY <3>1, <3>4, <3>5
  <2> QED BY <2>1, <2>2
<1> HIDE DEF N, Good
<1>6. B = {}
  <2> SUFFICES ASSUME B # {} PROVE FALSE
    OBVIOUS
  <2>1. PICK k \in B : \A j \in B : k <= j
    <3>1. B \subseteq Nat
      OBVIOUS
    <3> HIDE DEF B
    <3> QED BY <3>1, LeastNumber
  <2>2. k # 0
    BY <1>3, <1>4
  <2>3. k - 1 \in Nat /\ k \in Nat /\ (k - 1) + 1 = k
    BY <2>2
  <2>4. Good(f[k - 1], k - 1)
    BY <2>1, <2>3
  <2>5. Good(N(f[k - 1]), (k - 1) + 1)
    BY <1>5, <2>3, <2>4
  <2>6. f[k] = N(f[k - 1])
    BY <1>4, <2>2, <2>3
  <2>7. Good(f[k], k)
    BY <2>3, <2>5, <2>6
  <2> QED BY <2>7
<1> DEFINE v == f[num]
<1>7. num \in Nat /\ Cardinality(Times(first.p)) \in Nat /\ first.p.points = p.points
  <2>1. Sound(first.p) /\ first.p.points = p.points
    BY <1>3 DEF Good, Seeks, Accurate, Same
  <2> QED BY <2>1, TrackedFinite
<1>8. Good(v, num)
  BY <1>6, <1>7
<1>9. /\ Sound(v.p) /\ v.p.points = p.points
      /\ v.t # NoTime => v.t \in Fitting(p, q) \ p.tracked
      /\ \A t \in A : v.t # NoTime /\ v.t <= t
      /\ v.t # NoTime /\ ~OthersAvail(mm, v.t, duration, counts) =>
            Cardinality(v.p.tracked) >= num + 1
  BY <1>8 DEF Good, Seeks, Accurate, Same
<1> HIDE DEF num, v
<1>10. v.t = NoTime \/ OthersAvail(mm, v.t, duration, counts)
  <2>1. Cardinality(v.p.tracked) <= Cardinality(Times(v.p)) /\ Cardinality(v.p.tracked) \in Nat
    BY <1>9, TrackedFinite
  <2>2. Times(v.p) = Times(first.p)
    BY <1>7, <1>9 DEF Times
  <2>3. ~(Cardinality(v.p.tracked) >= num + 1)
    BY <1>7, <2>1, <2>2 DEF num
  <2> QED BY <1>9, <2>3
<1>11. v.t = Earliest(A)
  <2>1. CASE v.t = NoTime
    <3>1. A = {}
      BY <1>9, <2>1
    <3> HIDE DEF A
    <3> QED BY <2>1, <3>1 DEF Earliest
  <2>2. CASE v.t # NoTime
    <3>1. v.t \in A
      BY <1>9, <1>10, <2>2 DEF Agreed
    <3>2. A \subseteq Nat
      <4>1. Times(p) \subseteq Nat
        BY SoundTypes DEF Accurate
      <4> QED BY <4>1 DEF Agreed, Fitting, Enough
    <3> DEFINE z == Min(A)
    <3> HIDE DEF A
    <3>3. z \in A /\ \A k \in A : z <= k
      BY <3>1, <3>2, MinIs
    <3> HIDE DEF z
    <3>4. z = v.t
      <4> DEFINE x == v.t
      <4>1. x \in Nat /\ z \in Nat /\ z <= x /\ x <= z
        BY <1>9, <3>1, <3>2, <3>3
      <4> HIDE DEF x
      <4>2. z = x
        BY <4>1
      <4> QED BY <4>2 DEF x
    <3> QED BY <3>1, <3>4 DEF Earliest, z
  <2> QED BY <2>1, <2>2
<1> QED BY <1>2, <1>11 DEF v, first
=============================================================================
