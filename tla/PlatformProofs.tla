--------------------------- MODULE PlatformProofs ----------------------------
(***************************************************************************)
(* Proofs about the services the others stand on: sorting and cutting, the *)
(* repositories, the knowledge platform and the circuit breaker. They have *)
(* nothing in common but Ranking: StoreSpec is the repositories',          *)
(* SearchSpec the platform's, Spec the breaker's.                          *)
(***************************************************************************)
EXTENDS Repositories, Knowledge, CircuitBreaker, TLAPS,
        FiniteSetTheorems, SequenceTheorems

-----------------------------------------------------------------------------
(* Ranking: a finite set in a total order. *)

Total(S, R) ==
  /\ \A a \in S : <<a, a>> \notin R
  /\ \A a, b \in S : a # b => <<a, b>> \in R \/ <<b, a>> \in R
  /\ \A a, b, c \in S : <<a, b>> \in R /\ <<b, c>> \in R => <<a, c>> \in R

LEMMA PlaceIn ==
  ASSUME NEW S, NEW R, IsFiniteSet(S), Total(S, R), NEW a \in S
  PROVE  Place(S, R, a) \in 1..Cardinality(S)
<1> DEFINE B == {b \in S : <<b, a>> \in R}
<1>1. B \subseteq S \ {a} BY DEF Total
<1>2. /\ IsFiniteSet(S \ {a}) /\ Cardinality(S \ {a}) = Cardinality(S) - 1
      /\ Cardinality(S) \in Nat /\ Cardinality(S \ {a}) \in Nat
  BY FS_RemoveElement, FS_CardinalityType
<1>3. IsFiniteSet(B) /\ Cardinality(B) \in Nat /\ Cardinality(B) <= Cardinality(S \ {a})
  BY <1>1, <1>2, FS_Subset, FS_CardinalityType
<1>4. QED BY <1>2, <1>3 DEF Place

\* Who comes later has more before it.
LEMMA PlaceGrows ==
  ASSUME NEW S, NEW R, IsFiniteSet(S), Total(S, R), NEW a \in S, NEW b \in S, <<a, b>> \in R
  PROVE  Place(S, R, a) < Place(S, R, b)
<1> DEFINE A == {c \in S : <<c, a>> \in R}
           B == {c \in S : <<c, b>> \in R}
<1>1. A \subseteq B /\ a \in B /\ a \notin A BY DEF Total
<1>2. IsFiniteSet(B) /\ IsFiniteSet(A) BY FS_Subset
<1>3. Cardinality(A) \in Nat /\ Cardinality(B) \in Nat BY <1>2, FS_CardinalityType
<1>4. Cardinality(A) <= Cardinality(B) /\ (Cardinality(B) = Cardinality(A) => B = A)
  BY <1>1, <1>2, FS_Subset
<1>5. QED BY <1>1, <1>3, <1>4 DEF Place

\* Every place is taken, by one element.
LEMMA PlacesTaken ==
  ASSUME NEW S, NEW R, IsFiniteSet(S), Total(S, R), NEW n \in 1..Cardinality(S)
  PROVE  \E a \in S : Place(S, R, a) = n
<1> DEFINE f == [a \in S |-> Place(S, R, a)]
           T == 1..Cardinality(S)
<1>1. Cardinality(S) \in Nat BY FS_CardinalityType
<1>2. IsFiniteSet(T) /\ Cardinality(T) = Cardinality(S) BY <1>1, FS_Interval
<1>3. f \in [S -> T] BY PlaceIn
<1>4. \A a, b \in S : f[a] = f[b] => a = b
  <2> SUFFICES ASSUME NEW a \in S, NEW b \in S, f[a] = f[b], a # b PROVE FALSE OBVIOUS
  <2>1. <<a, b>> \in R \/ <<b, a>> \in R BY DEF Total
  <2>2. f[a] \in Nat /\ f[b] \in Nat BY <1>1, <1>3
  <2>3. f[a] < f[b] \/ f[b] < f[a] BY <2>1, PlaceGrows
  <2>4. QED BY <2>2, <2>3
<1>5. f \in Injection(S, T) BY <1>3, <1>4 DEF Injection, IsInjective
<1>6. f \in Surjection(S, T) BY <1>2, <1>5, FS_Injection
<1>7. QED BY <1>6 DEF Surjection

LEMMA PlaceUnique ==
  ASSUME NEW S, NEW R, IsFiniteSet(S), Total(S, R), NEW a \in S, NEW b \in S,
         Place(S, R, a) = Place(S, R, b)
  PROVE  a = b
<1>1. Place(S, R, a) \in Nat BY PlaceIn, FS_CardinalityType
<1>2. a # b => Place(S, R, a) < Place(S, R, b) \/ Place(S, R, b) < Place(S, R, a)
  BY PlaceGrows DEF Total
<1>3. QED BY <1>1, <1>2

\* InOrder lists every element once, in the order.
LEMMA Ordered ==
  ASSUME NEW S, NEW R, IsFiniteSet(S), Total(S, R), NEW s, s = InOrder(S, R)
  PROVE  /\ Cardinality(S) \in Nat /\ s \in [1..Cardinality(S) -> S]
         /\ s \in Seq(S) /\ Len(s) = Cardinality(S) /\ DOMAIN s = 1..Cardinality(S)
         /\ \A a \in S : \E n \in DOMAIN s : s[n] = a
         /\ \A i, j \in DOMAIN s : i < j => <<s[i], s[j]>> \in R
         /\ \A i, j \in DOMAIN s : s[i] = s[j] => i = j
<1> DEFINE P(a) == Place(S, R, a)
<1>1. Cardinality(S) \in Nat BY FS_CardinalityType
<1>2. s = [n \in 1..Cardinality(S) |-> CHOOSE a \in S : P(a) = n] BY DEF InOrder
<1>3. ASSUME NEW n \in 1..Cardinality(S) PROVE s[n] \in S /\ P(s[n]) = n
  BY <1>2, PlacesTaken
<1>4. s \in [1..Cardinality(S) -> S]
  <2> HIDE DEF P
  <2>1. DOMAIN s = 1..Cardinality(S) /\ s = [n \in DOMAIN s |-> s[n]] BY <1>2
  <2>2. QED BY <1>3, <2>1
<1>5. s \in Seq(S) /\ Len(s) = Cardinality(S) /\ DOMAIN s = 1..Cardinality(S)
  BY <1>1, <1>4, LenProperties, IsASeq
<1>6. ASSUME NEW a \in S PROVE \E n \in DOMAIN s : s[n] = a
  <2>1. P(a) \in 1..Cardinality(S) BY PlaceIn
  <2>2. s[P(a)] \in S /\ P(s[P(a)]) = P(a) BY <1>3, <2>1
  <2>3. s[P(a)] = a BY <2>2, PlaceUnique
  <2>4. QED BY <1>5, <2>1, <2>3
<1>7. ASSUME NEW i \in DOMAIN s, NEW j \in DOMAIN s, i < j PROVE <<s[i], s[j]>> \in R
  <2>1. s[i] \in S /\ s[j] \in S /\ P(s[i]) = i /\ P(s[j]) = j BY <1>3, <1>5
  <2>2. s[i] # s[j] BY <2>1, <1>7, <1>5
  <2>3. <<s[j], s[i]>> \in R => j < i BY <2>1, PlaceGrows
  <2>4. QED BY <2>1, <2>2, <2>3, <1>1, <1>5, <1>7 DEF Total
<1>8. ASSUME NEW i \in DOMAIN s, NEW j \in DOMAIN s, s[i] = s[j] PROVE i = j
  BY <1>3, <1>5, <1>8
<1> HIDE DEF P
<1>9. QED BY <1>1, <1>4, <1>5, <1>6, <1>7, <1>8

\* A finite set that is not empty has a first element.
LEMMA Foremost ==
  ASSUME NEW S, NEW R, IsFiniteSet(S), Total(S, R), S # {}
  PROVE  \E a \in S : \A b \in S \ {a} : <<a, b>> \in R
<1>1. PICK s : s = InOrder(S, R) OBVIOUS
<1>2. /\ Cardinality(S) \in Nat /\ DOMAIN s = 1..Cardinality(S) /\ s \in [1..Cardinality(S) -> S]
      /\ \A a \in S : \E n \in DOMAIN s : s[n] = a
      /\ \A i, j \in DOMAIN s : i < j => <<s[i], s[j]>> \in R
  BY <1>1, Ordered
<1>3. 1 \in DOMAIN s BY <1>2
<1>4. s[1] \in S BY <1>2, <1>3
<1>5. ASSUME NEW b \in S \ {s[1]} PROVE <<s[1], b>> \in R
  <2>1. PICK n \in DOMAIN s : s[n] = b BY <1>2
  <2>2. 1 < n BY <1>2, <1>5, <2>1
  <2>3. QED BY <1>2, <1>3, <2>1, <2>2
<1>6. QED BY <1>4, <1>5

LEMMA LeastNatural ==
  ASSUME NEW S, S \subseteq Nat, IsFiniteSet(S), S # {}
  PROVE  \E i \in S : \A j \in S : i <= j
<1>1. Total(S, Upwards(S)) BY DEF Total, Upwards
<1>2. \E i \in S : \A j \in S \ {i} : <<i, j>> \in Upwards(S) BY <1>1, Foremost
<1>3. PICK i \in S : \A j \in S \ {i} : <<i, j>> \in Upwards(S) BY <1>2
<1>4. \A j \in S \ {i} : i < j BY <1>3 DEF Upwards
<1>5. \A j \in S : i <= j BY <1>4
<1>6. QED BY <1>5

LEMMA Cut ==
  ASSUME NEW T, NEW s \in Seq(T), NEW n \in Nat, NEW f, f = First(s, n)
  PROVE  /\ f \in Seq(T) /\ Len(f) = (IF n < Len(s) THEN n ELSE Len(s))
         /\ DOMAIN f = 1..Len(f) /\ Len(f) \in Nat /\ DOMAIN f \subseteq DOMAIN s
         /\ \A i \in DOMAIN f : f[i] = s[i]
<1> DEFINE m == IF n < Len(s) THEN n ELSE Len(s)
<1>1. Len(s) \in Nat /\ DOMAIN s = 1..Len(s) BY LenProperties
<1>2. m \in Nat /\ m <= Len(s) BY <1>1
<1>3. \A i \in 1..m : s[i] \in T BY <1>1, <1>2, ElementOfSeq
<1>4. f = SubSeq(s, 1, m) BY DEF First
<1> HIDE DEF m
<1>5. /\ f \in Seq(T) /\ Len(f) = (IF 1 <= m THEN m - 1 + 1 ELSE 0)
      /\ \A i \in 1..(m - 1 + 1) : f[i] = s[1 + i - 1]
  BY <1>2, <1>3, <1>4, SubSeqProperties
<1>6. Len(f) = m /\ DOMAIN f = 1..m BY <1>2, <1>5, LenProperties
<1>7. \A i \in 1..m : f[i] = s[i] BY <1>2, <1>5
<1>8. QED BY <1>1, <1>2, <1>5, <1>6, <1>7 DEF m

LEMMA PositionsTotal ==
  ASSUME NEW n \in Nat, NEW at \in SUBSET (1..n)
  PROVE  /\ IsFiniteSet(at) /\ Total(at, Upwards(at)) /\ Total(at, Backwards(at))
         /\ \A score : (\A i \in at : score[i] \in Int) => Total(at, Downwards(at, score))
<1>1. IsFiniteSet(at)
  <2>1. IsFiniteSet(1..n) BY FS_Interval
  <2>2. QED BY <2>1, FS_Subset
<1>2. Total(at, Upwards(at)) BY DEF Total, Upwards
<1>3. Total(at, Backwards(at)) BY DEF Total, Backwards
<1>4. ASSUME NEW score, \A i \in at : score[i] \in Int
      PROVE  Total(at, Downwards(at, score))
  BY <1>4 DEF Total, Downwards
<1>5. QED BY <1>1, <1>2, <1>3, <1>4

\* What is picked, and the element at one place of it.
LEMMA Picked ==
  ASSUME NEW T, NEW s \in Seq(T), NEW at, at \subseteq DOMAIN s, NEW R, Total(at, R)
  PROVE  /\ Pick(s, at, R) \in Seq(T) /\ Cardinality(at) \in Nat
         /\ DOMAIN Pick(s, at, R) = 1..Cardinality(at) /\ Len(Pick(s, at, R)) = Cardinality(at)
<1>1. IsFiniteSet(at) BY PositionsTotal, LenProperties
<1> DEFINE p == InOrder(at, R)
<1>2. /\ Cardinality(at) \in Nat /\ p \in [1..Cardinality(at) -> at]
      /\ DOMAIN p = 1..Cardinality(at)
  BY <1>1, Ordered
<1> HIDE DEF p
<1>3. Pick(s, at, R) = [n \in 1..Cardinality(at) |-> s[p[n]]] BY <1>2 DEF Pick, p
<1>4. \A n \in 1..Cardinality(at) : s[p[n]] \in T BY <1>2, ElementOfSeq, LenProperties
<1>5. QED BY <1>2, <1>3, <1>4, IsASeq, LenProperties

LEMMA PickedAt ==
  ASSUME NEW T, NEW s \in Seq(T), NEW at, at \subseteq DOMAIN s, NEW R, Total(at, R),
         NEW n \in 1..Cardinality(at)
  PROVE  InOrder(at, R)[n] \in at /\ Pick(s, at, R)[n] = s[InOrder(at, R)[n]]
<1>1. IsFiniteSet(at) BY PositionsTotal, LenProperties
<1> DEFINE p == InOrder(at, R)
<1>2. p \in [1..Cardinality(at) -> at] /\ DOMAIN p = 1..Cardinality(at) BY <1>1, Ordered
<1> HIDE DEF p
<1>3. Pick(s, at, R) = [k \in 1..Cardinality(at) |-> s[p[k]]] BY <1>2 DEF Pick, p
<1>4. p[n] \in at /\ Pick(s, at, R)[n] = s[p[n]] BY <1>2, <1>3
<1>5. QED BY <1>4 DEF p

(***************************************************************************)
(* A listing of a set has each of its elements once. What a limited query  *)
(* shows of a listing by falling value does not depend on the listing, but *)
(* for elements of one value.                                              *)
(***************************************************************************)
Listing(s, H) ==
  /\ s \in Seq(H)
  /\ \A a \in H : \E n \in DOMAIN s : s[n] = a
  /\ \A i, j \in DOMAIN s : s[i] = s[j] => i = j

Falling(s, v) == \A i, j \in DOMAIN s : i < j => v[s[j]] <= v[s[i]]

LEMMA ListingLength ==
  ASSUME NEW H, NEW s, Listing(s, H)
  PROVE  IsFiniteSet(H) /\ Cardinality(H) = Len(s) /\ Len(s) \in Nat /\ DOMAIN s = 1..Len(s)
<1>1. Len(s) \in Nat /\ DOMAIN s = 1..Len(s) /\ s \in [1..Len(s) -> H]
  BY LenProperties DEF Listing
<1>2. s \in Surjection(1..Len(s), H) /\ s \in Injection(1..Len(s), H)
  BY <1>1 DEF Listing, Surjection, Injection, IsInjective
<1>3. IsFiniteSet(1..Len(s)) /\ Cardinality(1..Len(s)) = Len(s) BY <1>1, FS_Interval
<1>4. QED BY <1>1, <1>2, <1>3, FS_Surjection

\* Sorting a set lists it, and so does picking from a listing.
LEMMA OrderedListing ==
  ASSUME NEW S, NEW R, IsFiniteSet(S), Total(S, R), NEW s, s = InOrder(S, R)
  PROVE  Listing(s, S) /\ \A i, j \in DOMAIN s : i < j => <<s[i], s[j]>> \in R
BY Ordered DEF Listing

LEMMA PickedListing ==
  ASSUME NEW T, NEW s, Listing(s, T), NEW at, at \subseteq DOMAIN s, NEW R, Total(at, R),
         NEW t, t = Pick(s, at, R)
  PROVE  Listing(t, {s[i] : i \in at})
<1> DEFINE p == InOrder(at, R)
           H == {s[i] : i \in at}
<1>1. s \in Seq(T) /\ \A i, j \in DOMAIN s : s[i] = s[j] => i = j BY DEF Listing
<1>2. IsFiniteSet(at) BY <1>1, PositionsTotal, LenProperties
<1>3. DOMAIN t = 1..Cardinality(at) /\ Len(t) = Cardinality(at) /\ Cardinality(at) \in Nat
      /\ t \in Seq(T)
  BY <1>1, Picked
<1>4. /\ DOMAIN p = 1..Cardinality(at)
      /\ \A i \in at : \E n \in DOMAIN p : p[n] = i
      /\ \A i, j \in DOMAIN p : p[i] = p[j] => i = j
  BY <1>2, Ordered
<1>5. ASSUME NEW n \in DOMAIN t PROVE p[n] \in at /\ t[n] = s[p[n]] /\ t[n] \in H
  <2>1. p[n] \in at /\ t[n] = s[p[n]] BY <1>1, <1>3, PickedAt
  <2>2. QED BY <2>1
<1> HIDE DEF p
<1>6. t \in Seq(H)
  <2> HIDE DEF H
  <2>1. t \in [1..Len(t) -> T] BY <1>3
  <2>2. t = [n \in 1..Len(t) |-> t[n]] /\ \A n \in 1..Len(t) : t[n] \in H
    BY <1>3, <1>5, <2>1
  <2>3. QED BY <1>3, <2>2, IsASeq
<1>7. \A a \in H : \E n \in DOMAIN t : t[n] = a BY <1>3, <1>4, <1>5
<1>8. \A i, j \in DOMAIN t : t[i] = t[j] => i = j BY <1>1, <1>3, <1>4, <1>5
<1>9. QED BY <1>6, <1>7, <1>8 DEF Listing

LEMMA PickedFalling ==
  ASSUME NEW T, NEW s \in Seq(T), NEW at, at \subseteq DOMAIN s, NEW score, NEW v,
         \A i \in at : score[i] \in Int /\ v[s[i]] = score[i],
         NEW t, t = Pick(s, at, Downwards(at, score))
  PROVE  Falling(t, v)
<1> DEFINE R == Downwards(at, score)
           p == InOrder(at, R)
<1>1. IsFiniteSet(at) /\ Total(at, R) BY PositionsTotal, LenProperties
<1> HIDE DEF R
<1>2. DOMAIN t = 1..Cardinality(at) /\ Cardinality(at) \in Nat BY <1>1, Picked DEF R
<1>3. DOMAIN p = 1..Cardinality(at) /\ \A i, j \in DOMAIN p : i < j => <<p[i], p[j]>> \in R
  BY <1>1, Ordered
<1>4. ASSUME NEW n \in DOMAIN t PROVE p[n] \in at /\ t[n] = s[p[n]]
  BY <1>1, <1>2, PickedAt DEF R
<1> HIDE DEF p
<1>5. ASSUME NEW i \in DOMAIN t, NEW j \in DOMAIN t, i < j PROVE v[t[j]] <= v[t[i]]
  <2>1. <<p[i], p[j]>> \in R BY <1>2, <1>3, <1>5
  <2>2. score[p[i]] >= score[p[j]] BY <1>4, <2>1 DEF R, Downwards
  <2>3. QED BY <1>4, <2>2
<1>6. QED BY <1>5 DEF Falling

\* If the value at i were higher in s than in t, the first i of s would all be among
\* the first i - 1 of t.
LEMMA NotAbove ==
  ASSUME NEW H, NEW s, NEW t, NEW v \in [H -> Nat],
         Listing(s, H), Listing(t, H), Falling(s, v), Falling(t, v), NEW i \in DOMAIN s
  PROVE  i \in DOMAIN t /\ v[s[i]] <= v[t[i]]
<1>1. /\ Len(s) \in Nat /\ DOMAIN s = 1..Len(s) /\ DOMAIN t = 1..Len(s)
      /\ s \in [1..Len(s) -> H] /\ t \in [1..Len(s) -> H]
  <2>1. /\ Len(s) = Len(t) /\ Len(s) \in Nat
        /\ DOMAIN s = 1..Len(s) /\ DOMAIN t = 1..Len(t)
    BY ListingLength
  <2>2. s \in [1..Len(s) -> H] /\ t \in [1..Len(t) -> H]
    BY LenProperties DEF Listing
  <2>3. QED BY <2>1, <2>2
<1>2. /\ \A k \in DOMAIN s : s[k] \in H /\ v[s[k]] \in Nat
      /\ \A k \in DOMAIN t : t[k] \in H /\ v[t[k]] \in Nat
  BY <1>1
<1> SUFFICES ASSUME v[t[i]] < v[s[i]] PROVE FALSE BY <1>1, <1>2
<1> DEFINE g == [k \in 1..i |-> CHOOSE j \in DOMAIN t : t[j] = s[k]]
<1>3. ASSUME NEW k \in 1..i PROVE g[k] \in 1..(i - 1) /\ t[g[k]] = s[k]
  <2>1. k \in DOMAIN s /\ s[k] \in H BY <1>1, <1>2
  <2>2. g[k] \in DOMAIN t /\ t[g[k]] = s[k] BY <2>1 DEF Listing
  <2> HIDE DEF g
  <2>3. v[s[i]] <= v[s[k]]
    <3>1. CASE k = i BY <1>2, <3>1
    <3>2. CASE k < i BY <2>1, <3>2 DEF Falling
    <3>3. QED BY <1>1, <3>1, <3>2
  <2>4. v[t[i]] < v[t[g[k]]] BY <1>1, <1>2, <2>1, <2>2, <2>3
  <2>5. ~(i < g[k]) /\ g[k] # i BY <1>1, <1>2, <2>2, <2>4 DEF Falling
  <2>6. QED BY <1>1, <2>2, <2>5
<1>4. g \in [1..i -> 1..(i - 1)]
  <2>1. g = [k \in 1..i |-> g[k]] OBVIOUS
  <2> HIDE DEF g
  <2>2. QED BY <1>3, <2>1
<1> HIDE DEF g
<1>5. /\ IsFiniteSet(1..i) /\ IsFiniteSet(1..(i - 1))
      /\ Cardinality(1..i) = i /\ Cardinality(1..(i - 1)) = i - 1
  <2>1. i \in Int /\ i - 1 \in Int /\ 1 \in Int /\ i >= 1 BY <1>1
  <2>2. IsFiniteSet(1..i) /\ Cardinality(1..i) = IF 1 > i THEN 0 ELSE i - 1 + 1
    BY <2>1, FS_Interval
  <2>3. /\ IsFiniteSet(1..(i - 1))
        /\ Cardinality(1..(i - 1)) = IF 1 > i - 1 THEN 0 ELSE i - 1 - 1 + 1
    BY <2>1, FS_Interval
  <2>4. QED BY <2>1, <2>2, <2>3
<1>6. i - 1 < i BY <1>1
<1>7. PICK x \in 1..i, y \in 1..i : x # y /\ g[x] = g[y] BY <1>4, <1>5, <1>6, FS_PigeonHole
<1>8. s[x] = s[y] /\ x \in DOMAIN s /\ y \in DOMAIN s BY <1>1, <1>3, <1>7
<1>9. QED BY <1>7, <1>8 DEF Listing

LEMMA SameValues ==
  ASSUME NEW H, NEW s, NEW t, NEW v \in [H -> Nat],
         Listing(s, H), Listing(t, H), Falling(s, v), Falling(t, v)
  PROVE  Len(s) = Len(t) /\ \A i \in DOMAIN s : v[s[i]] = v[t[i]]
<1>1. Len(s) = Len(t) /\ DOMAIN s = DOMAIN t BY ListingLength
<1>2. ASSUME NEW i \in DOMAIN s PROVE v[s[i]] = v[t[i]]
  <2>1. v[s[i]] <= v[t[i]] BY NotAbove
  <2>2. v[t[i]] <= v[s[i]] BY <1>1, NotAbove
  <2>3. s[i] \in H /\ t[i] \in H BY <1>1, ListingLength, ElementOfSeq DEF Listing
  <2>4. v[s[i]] \in Nat /\ v[t[i]] \in Nat BY <2>3
  <2>5. QED BY <2>1, <2>2, <2>4
<1>3. QED BY <1>1, <1>2

\* The first n of a listing are n different elements, or all.
LEMMA CutListing ==
  ASSUME NEW H, NEW s, Listing(s, H), NEW n \in Nat, NEW f, f = First(s, n)
  PROVE  /\ Len(f) = (IF Cardinality(H) < n THEN Cardinality(H) ELSE n)
         /\ Len(f) \in Nat /\ DOMAIN f = 1..Len(f) /\ DOMAIN f \subseteq DOMAIN s
         /\ \A i \in DOMAIN f : f[i] = s[i]
         /\ Range(f) \subseteq H
         /\ IsFiniteSet(Range(f)) /\ Cardinality(Range(f)) = Len(f)
<1>1. Cardinality(H) = Len(s) /\ Len(s) \in Nat BY ListingLength
<1>2. /\ f \in Seq(H) /\ Len(f) = (IF n < Len(s) THEN n ELSE Len(s))
      /\ DOMAIN f = 1..Len(f) /\ Len(f) \in Nat /\ DOMAIN f \subseteq DOMAIN s
      /\ \A i \in DOMAIN f : f[i] = s[i]
  BY Cut DEF Listing
<1>3. Range(f) \subseteq H BY <1>2, ElementOfSeq DEF Range
<1>4. Listing(f, Range(f))
  <2>1. f \in [1..Len(f) -> Range(f)] BY <1>2, LenProperties DEF Range
  <2>2. f \in Seq(Range(f)) BY <1>2, <2>1, IsASeq
  <2>3. \A i, j \in DOMAIN f : f[i] = f[j] => i = j BY <1>2 DEF Listing
  <2>4. QED BY <2>2, <2>3 DEF Listing, Range
<1>5. IsFiniteSet(Range(f)) /\ Cardinality(Range(f)) = Len(f) BY <1>4, ListingLength
<1>6. QED BY <1>1, <1>2, <1>3, <1>5

LEMMA ListingRange ==
  ASSUME NEW H, NEW s, NEW t, Listing(s, H), Listing(t, H)
  PROVE  Range(s) = Range(t)
<1>1. \A i \in DOMAIN s : s[i] \in H BY ElementOfSeq, LenProperties DEF Listing
<1>2. \A i \in DOMAIN t : t[i] \in H BY ElementOfSeq, LenProperties DEF Listing
<1>3. QED BY <1>1, <1>2 DEF Listing, Range

\* Two listings cut to the same length show as much, and the same when all of it fits.
LEMMA CutWhole ==
  ASSUME NEW H, NEW s, NEW t, Listing(s, H), Listing(t, H), NEW n \in Nat,
         NEW f, f = First(s, n), NEW g, g = First(t, n)
  PROVE  Len(f) = Len(g) /\ (Len(f) < n => Range(f) = Range(g))
<1>1. /\ Len(f) = (IF Cardinality(H) < n THEN Cardinality(H) ELSE n)
      /\ Range(f) \subseteq H /\ Cardinality(Range(f)) = Len(f)
  BY CutListing
<1>2. /\ Len(g) = (IF Cardinality(H) < n THEN Cardinality(H) ELSE n)
      /\ Range(g) \subseteq H /\ Cardinality(Range(g)) = Len(g)
  BY CutListing
<1>3. IsFiniteSet(H) /\ Cardinality(H) \in Nat BY ListingLength
<1>4. Len(f) < n => Range(f) = H /\ Range(g) = H BY <1>1, <1>2, <1>3, FS_Subset
<1>5. QED BY <1>1, <1>2, <1>4

\* Nothing that the limit cuts off is above what is shown.
LEMMA CutTop ==
  ASSUME NEW H, NEW s, Listing(s, H), NEW v, Falling(s, v), NEW n \in Nat,
         NEW f, f = First(s, n), NEW a \in Range(f), NEW b \in H \ Range(f)
  PROVE  v[b] <= v[a]
<1>1. /\ Len(f) \in Nat /\ DOMAIN f = 1..Len(f) /\ DOMAIN f \subseteq DOMAIN s
      /\ \A i \in DOMAIN f : f[i] = s[i]
  BY CutListing
<1>2. DOMAIN s = 1..Len(s) /\ Len(s) \in Nat BY ListingLength
<1>3. PICK i \in DOMAIN f : a = f[i] BY DEF Range
<1>4. PICK j \in DOMAIN s : s[j] = b BY DEF Listing
<1>5. j \notin DOMAIN f BY <1>1, <1>4 DEF Range
<1>6. i < j BY <1>1, <1>2, <1>3, <1>4, <1>5
<1>7. QED BY <1>1, <1>3, <1>4, <1>6 DEF Falling

-----------------------------------------------------------------------------
(***************************************************************************)
(* Repositories. Memory keeps its addresses in a sequence and its keys in  *)
(* an index beside the documents; the invariant is that both are of the    *)
(* documents that are there.                                               *)
(***************************************************************************)
USE IdsAssumption, TimeAssumption, StoreBounds

Indexed ==
  repo.memory.first = "last saved" =>
    /\ \A a \in DOMAIN mem : KeyOf[a[2]] \in DOMAIN index
    /\ \A k \in DOMAIN index : index[k] \in DOMAIN mem /\ KeyOf[index[k][2]] = k

StoreInv ==
  /\ repo \in Repositories /\ DOMAIN mem \subseteq Addresses
  /\ Listing(order, DOMAIN mem) /\ Indexed
  /\ SameAnswers

\* The ten pairs of classes: the backends filter by the same fields, only workflows are
\* deleted, and what belongs to a workflow is neither queried nor found by a key.
LEMMA Classes ==
  ASSUME NEW r \in Repositories
  PROVE  /\ r.memory.filters = r.firestore.filters
         /\ "delete" \in r.memory.writes => r.memory.first # "last saved"
         /\ r.memory.lists \in {"query", "recent"} => ~r.memory.scoped
         /\ r.memory.first = "last saved" => ~r.memory.scoped
         /\ r.memory.first = "oldest workflow" => r.memory.scoped
<1> USE DEF Class
<1>1. CASE r = [memory |-> MemoryWorkflow, firestore |-> FirestoreWorkflow]
  BY <1>1 DEF MemoryWorkflow, FirestoreWorkflow
<1>2. CASE r = [memory |-> MemoryArtifact, firestore |-> FirestoreArtifact]
  BY <1>2 DEF MemoryArtifact, FirestoreArtifact
<1>3. CASE r = [memory |-> MemoryExecution, firestore |-> FirestoreExecution]
  BY <1>3 DEF MemoryExecution, FirestoreExecution
<1>4. CASE r = [memory |-> MemoryDecision, firestore |-> FirestoreDecision]
  BY <1>4 DEF MemoryDecision, FirestoreDecision
<1>5. CASE r = [memory |-> MemoryIncident, firestore |-> FirestoreIncident]
  BY <1>5 DEF MemoryIncident, FirestoreIncident
<1>6. CASE r = [memory |-> MemorySignal, firestore |-> FirestoreSignal]
  BY <1>6 DEF MemorySignal, FirestoreSignal
<1>7. CASE r = [memory |-> MemoryDetection, firestore |-> FirestoreDetection]
  BY <1>7 DEF MemoryDetection, FirestoreDetection
<1>8. CASE r = [memory |-> MemoryResolution, firestore |-> FirestoreResolution]
  BY <1>8 DEF MemoryResolution, FirestoreResolution
<1>9. CASE r = [memory |-> MemoryFeatureReview, firestore |-> FirestoreFeatureReview]
  BY <1>9 DEF MemoryFeatureReview, FirestoreFeatureReview
<1>10. CASE r = [memory |-> MemoryVerification, firestore |-> FirestoreVerification]
  BY <1>10 DEF MemoryVerification, FirestoreVerification
<1>11. QED
  BY <1>1, <1>2, <1>3, <1>4, <1>5, <1>6, <1>7, <1>8, <1>9, <1>10 DEF Repositories

\* Assigning to the dictionaries keeps the order and the index of what is there. A new
\* address is always indexed.
LEMMA PutKeeps ==
  ASSUME StoreInv, UNCHANGED repo, NEW a \in Addresses, NEW d, NEW indexed \in BOOLEAN,
         MemPut(a, d, indexed), a \notin DOMAIN mem => indexed
  PROVE  /\ DOMAIN mem' \subseteq Addresses /\ Listing(order', DOMAIN mem') /\ Indexed'
<1>1. mem' = Put(mem, a, d) /\ DOMAIN mem' = DOMAIN mem \cup {a} BY DEF MemPut, Put
<1>2. Listing(order', DOMAIN mem')
  <2>1. CASE a \in DOMAIN mem
    <3>1. DOMAIN mem' = DOMAIN mem /\ order' = order BY <1>1, <2>1 DEF MemPut
    <3>2. QED BY <3>1 DEF StoreInv
  <2>2. CASE a \notin DOMAIN mem
    <3>1. order' = Append(order, a) BY <2>2 DEF MemPut
    <3>2. /\ order \in Seq(DOMAIN mem) /\ Len(order) \in Nat
          /\ DOMAIN order = 1..Len(order)
      BY LenProperties DEF StoreInv, Listing
    <3>3. order \in Seq(DOMAIN mem') /\ a \in DOMAIN mem'
      BY <1>1, <3>2
    <3>4. /\ order' \in Seq(DOMAIN mem') /\ Len(order') = Len(order) + 1
          /\ order'[Len(order) + 1] = a /\ DOMAIN order' = 1..(Len(order) + 1)
          /\ \A i \in DOMAIN order : order'[i] = order[i]
      BY <3>1, <3>2, <3>3, AppendProperties, LenProperties
    <3>5. \A i \in DOMAIN order : order[i] \in DOMAIN mem BY <3>2, ElementOfSeq
    <3>6. \A i, j \in DOMAIN order' : order'[i] = order'[j] => i = j
      BY <2>2, <3>2, <3>4, <3>5 DEF StoreInv, Listing
    <3>7. \A b \in DOMAIN mem' : \E n \in DOMAIN order' : order'[n] = b
      BY <1>1, <3>2, <3>4 DEF StoreInv, Listing
    <3>8. QED BY <3>4, <3>6, <3>7 DEF Listing
  <2>3. QED BY <2>1, <2>2
<1>3. Indexed'
  <2> SUFFICES ASSUME repo.memory.first = "last saved"
               PROVE /\ \A b \in DOMAIN mem' : KeyOf[b[2]] \in DOMAIN index'
                     /\ \A k \in DOMAIN index' :
                          index'[k] \in DOMAIN mem' /\ KeyOf[index'[k][2]] = k
    BY DEF Indexed
  <2>1. /\ \A b \in DOMAIN mem : KeyOf[b[2]] \in DOMAIN index
        /\ \A k \in DOMAIN index : index[k] \in DOMAIN mem /\ KeyOf[index[k][2]] = k
    BY DEF StoreInv, Indexed
  <2>2. CASE indexed
    <3>1. index' = Put(index, KeyOf[a[2]], a) BY <2>2 DEF MemPut
    <3>2. /\ DOMAIN index' = DOMAIN index \cup {KeyOf[a[2]]}
          /\ \A k \in DOMAIN index' : index'[k] = IF k = KeyOf[a[2]] THEN a ELSE index[k]
      BY <3>1 DEF Put
    <3>3. QED BY <1>1, <2>1, <3>2
  <2>3. CASE ~indexed
    <3>1. index' = index /\ DOMAIN mem' = DOMAIN mem BY <1>1, <2>3 DEF MemPut
    <3>2. QED BY <2>1, <3>1
  <2>4. QED BY <2>2, <2>3
<1>4. DOMAIN mem' \subseteq Addresses BY <1>1 DEF StoreInv
<1>5. QED BY <1>2, <1>3, <1>4

LEMMA KeepKeeps ==
  ASSUME StoreInv, UNCHANGED repo, MemKeep
  PROVE  /\ DOMAIN mem' \subseteq Addresses /\ Listing(order', DOMAIN mem') /\ Indexed'
  BY DEF StoreInv, MemKeep, Indexed

LEMMA DeleteKeeps ==
  ASSUME StoreInv, UNCHANGED repo, NEW a \in Addresses, Delete(a)
  PROVE  /\ DOMAIN mem' \subseteq Addresses /\ Listing(order', DOMAIN mem') /\ Indexed'
<1> DEFINE left == {order[i] : i \in Kept(a)}
<1>1. DOMAIN mem' = DOMAIN mem \ {a} /\ order' = Pick(order, Kept(a), Upwards(Kept(a)))
  BY DEF Delete, MemDelete
<1>2. /\ Listing(order, DOMAIN mem) /\ Len(order) \in Nat /\ DOMAIN order = 1..Len(order)
      /\ \A i \in DOMAIN order : order[i] \in DOMAIN mem
  BY LenProperties, ElementOfSeq DEF StoreInv, Listing
<1>3. Kept(a) \subseteq DOMAIN order /\ Total(Kept(a), Upwards(Kept(a)))
  BY <1>2, PositionsTotal DEF Kept
<1>4. Listing(order', left) BY <1>1, <1>2, <1>3, PickedListing
<1>5. left = DOMAIN mem' BY <1>1, <1>2 DEF Kept, Listing
<1>6. Indexed' BY Classes DEF Indexed, Delete, Offered, StoreInv
<1>7. QED BY <1>1, <1>4, <1>5, <1>6 DEF StoreInv

LEMMA StoreStep == StoreInv /\ [StoreNext]_storeVars => StoreInv'
<1> SUFFICES ASSUME StoreInv, [StoreNext]_storeVars PROVE StoreInv' OBVIOUS
<1> DEFINE Held == DOMAIN mem' \subseteq Addresses /\ Listing(order', DOMAIN mem') /\ Indexed'
<1>1. CASE UNCHANGED storeVars
  BY <1>1 DEF storeVars, StoreInv, Indexed, SameAnswers, Addresses
<1>2. CASE StoreNext
  <2>1. UNCHANGED repo /\ Addresses' = Addresses BY <1>2 DEF StoreNext, Addresses
  <2>2. docs = mem BY DEF StoreInv, SameAnswers
  <2>3. SUFFICES Held /\ SameAnswers'
    <3>1. repo' \in Repositories BY <2>1 DEF StoreInv
    <3>2. QED BY <2>1, <3>1 DEF StoreInv
  <2>4. ASSUME NEW a \in Addresses, NEW d \in Documents, Save(a, d) PROVE Held /\ SameAnswers'
    BY <2>1, <2>2, <2>4, PutKeeps DEF Save, MemPut, SameAnswers
  <2>5. ASSUME NEW a \in Addresses, NEW d \in Documents, Create(a, d) PROVE Held /\ SameAnswers'
    <3>1. CASE a \in DOMAIN mem
      BY <2>1, <2>2, <2>5, <3>1, KeepKeeps DEF Create, MemCreate, FireCreate, SameAnswers, MemKeep
    <3>2. CASE a \notin DOMAIN mem
      <4>1. MemPut(a, d, TRUE) BY <2>5, <3>2 DEF Create, MemCreate
      <4>2. QED
        BY <2>1, <2>2, <2>5, <3>2, <4>1, PutKeeps DEF Create, MemPut, FireCreate, SameAnswers
    <3>3. QED BY <3>1, <3>2
  <2>6. ASSUME NEW a \in Addresses, NEW d \in Documents, Update(a, d) PROVE Held /\ SameAnswers'
    <3>1. CASE a \notin DOMAIN mem
      BY <2>1, <2>2, <2>6, <3>1, KeepKeeps DEF Update, MemUpdate, FireUpdate, SameAnswers, MemKeep
    <3>2. CASE a \in DOMAIN mem
      <4>1. MemPut(a, d, FALSE) BY <2>6, <3>2 DEF Update, MemUpdate
      <4>2. QED
        BY <2>1, <2>2, <2>6, <3>2, <4>1, PutKeeps DEF Update, MemPut, FireUpdate, SameAnswers
    <3>3. QED BY <3>1, <3>2
  <2>7. ASSUME NEW a \in Addresses, Delete(a) PROVE Held /\ SameAnswers'
    <3>1. Held BY <2>1, <2>7, DeleteKeeps
    <3>2. SameAnswers' BY <2>2, <2>7 DEF Delete, MemDelete, FireDelete, SameAnswers
    <3>3. QED BY <3>1, <3>2
  <2>8. ASSUME NEW a \in Addresses, NEW d \in Documents, NEW v \in 1..MaxVersion,
               UpdateIfVersion(a, v, d)
        PROVE Held /\ SameAnswers'
    <3> DEFINE out == Versioned(mem, a, v, d)
    <3>1. CASE out \in {NotFound, Conflict}
      <4>1. MemKeep BY <2>8, <3>1 DEF UpdateIfVersion, MemUpdateIfVersion
      <4>2. QED
        BY <2>1, <2>2, <2>8, <3>1, <4>1, KeepKeeps
        DEF UpdateIfVersion, FireUpdateIfVersion, SameAnswers, MemKeep
    <3>2. CASE out \notin {NotFound, Conflict}
      <4>1. MemPut(a, out, FALSE) BY <2>8, <3>2 DEF UpdateIfVersion, MemUpdateIfVersion
      <4>2. a \in DOMAIN mem BY <3>2 DEF Versioned
      <4>3. docs' = Put(docs, a, out) BY <2>2, <2>8, <3>2 DEF UpdateIfVersion, FireUpdateIfVersion
      <4>4. Held BY <2>1, <4>1, <4>2, PutKeeps
      <4>5. SameAnswers'
        BY <2>2, <2>8, <4>1, <4>3 DEF UpdateIfVersion, MemPut, SameAnswers
      <4>6. QED BY <4>4, <4>5
    <3>3. QED BY <3>1, <3>2
  <2>9. QED BY <1>2, <2>4, <2>5, <2>6, <2>7, <2>8 DEF StoreNext
<1>3. QED BY <1>1, <1>2

LEMMA StoreInvariance == StoreSpec => []StoreInv
<1>1. StoreInit => StoreInv
  <2> SUFFICES ASSUME StoreInit PROVE StoreInv OBVIOUS
  <2>1. order = <<>> /\ mem = <<>> /\ index = <<>> /\ docs = <<>> /\ answers[1] = answers[2]
    BY DEF StoreInit
  <2>2. DOMAIN mem = {} /\ DOMAIN index = {} /\ DOMAIN order = {} BY <2>1
  <2>3. order \in Seq(DOMAIN mem) BY <2>1
  <2>4. QED BY <2>1, <2>2, <2>3 DEF StoreInit, StoreInv, Listing, Indexed, SameAnswers
<1>2. QED BY <1>1, StoreStep, PTL DEF StoreSpec

\* After any calls, memory and Firestore hold the same documents and gave the last call
\* the same answer (app/persistence/memory, app/persistence/firestore).
THEOREM BackendsAgree == StoreSpec => []SameAnswers
<1>1. StoreInv => SameAnswers BY DEF StoreInv
<1>2. QED BY <1>1, StoreInvariance, PTL

\* What the memory listings pick are the addresses that Firestore orders.
LEMMA StoreSets ==
  ASSUME StoreInv
  PROVE  /\ IsFiniteSet(DOMAIN mem) /\ docs = mem
         /\ Len(order) \in Nat /\ DOMAIN order = 1..Len(order)
         /\ \A i \in DOMAIN order : order[i] \in DOMAIN mem
         /\ \A a \in DOMAIN mem : a \in Addresses /\ a = <<a[1], a[2]>> /\ a[2] \in Ids
         /\ ~repo.memory.scoped => \A a \in DOMAIN mem : a[1] = Top
         /\ repo.memory.scoped => \A a \in DOMAIN mem : a[1] \in Workflows
         /\ \A w : FireOf(w) = {order[i] : i \in MemOf(w)}
         /\ \A s : FireWith(s) = {order[i] : i \in MemWith(s)}
         /\ \A q : FireHits(q) = {order[i] : i \in MemHits(q)}
<1>1. /\ IsFiniteSet(DOMAIN mem) /\ docs = mem
      /\ Len(order) \in Nat /\ DOMAIN order = 1..Len(order)
  BY ListingLength DEF StoreInv, SameAnswers
<1>2. /\ \A i \in DOMAIN order : order[i] \in DOMAIN mem
      /\ \A a \in DOMAIN mem : \E i \in DOMAIN order : order[i] = a
  BY <1>1, ElementOfSeq DEF StoreInv, Listing
<1>3. \A a \in DOMAIN mem : a \in Addresses BY DEF StoreInv
<1>4. /\ \A a \in DOMAIN mem : a = <<a[1], a[2]>> /\ a[2] \in Ids
      /\ ~repo.memory.scoped => \A a \in DOMAIN mem : a[1] = Top
      /\ repo.memory.scoped => \A a \in DOMAIN mem : a[1] \in Workflows
  BY <1>3 DEF Addresses
<1>5. \A w : FireOf(w) = {order[i] : i \in MemOf(w)} BY <1>1, <1>2 DEF FireOf, MemOf
<1>6. \A s : FireWith(s) = {order[i] : i \in MemWith(s)} BY <1>1, <1>2 DEF FireWith, MemWith
<1>7. ASSUME NEW q PROVE FireHits(q) = {order[i] : i \in MemHits(q)}
  <2>1. repo.memory.filters = repo.firestore.filters BY Classes DEF StoreInv
  <2>2. QED BY <1>1, <1>2, <2>1 DEF FireHits, MemHits
<1>8. QED BY <1>1, <1>2, <1>3, <1>4, <1>5, <1>6, <1>7

\* Among documents of one collection names decide.
LEMMA NamesDecide ==
  ASSUME StoreInv, NEW S, S \subseteq DOMAIN mem, \A a, b \in S : a[1] = b[1]
  PROVE  IsFiniteSet(S) /\ Total(S, ByName(S)) /\ Total(S, NewestFirst(S))
<1>1. IsFiniteSet(S) BY StoreSets, FS_Subset
<1>2. \A a \in S : a = <<a[1], a[2]>> /\ a[2] \in Nat /\ TimeOf[a[2]] \in Nat BY StoreSets
<1>3. \A a, b \in S : /\ a # b => a[2] # b[2]
                     /\ Before(a, b) <=> a[2] < b[2]
  BY <1>2 DEF Before
<1>4. Total(S, ByName(S)) BY <1>2, <1>3 DEF Total, ByName
<1>5. Total(S, NewestFirst(S)) BY <1>2, <1>3 DEF Total, NewestFirst
<1>6. QED BY <1>1, <1>4, <1>5

\* Both backends list the matching documents by falling time; the rest is SameValues.
LEMMA QueriesSame == StoreInv => QueriesAgree
<1> SUFFICES ASSUME StoreInv, repo.memory.lists = "query", NEW q \in Queries
             PROVE  LET m == MemQuery(q)
                        f == FireQuery(q)
                        hits == {a \in DOMAIN mem : \A x \in DOMAIN q.where : Field(a, mem[a], x) = q.where[x]}
                        inWindow == {a \in hits : (q.since = None \/ TimeOf[a[2]] >= q.since)
                                                  /\ (q.until = None \/ TimeOf[a[2]] <= q.until)}
                    IN  /\ Len(m) = Len(f)
                        /\ \A i \in DOMAIN m : TimeOf[m[i][2]] = TimeOf[f[i][2]]
                        /\ \A s \in {m, f} :
                             /\ Range(s) \subseteq inWindow
                             /\ Cardinality(Range(s)) = (IF Cardinality(inWindow) < q.limit THEN Cardinality(inWindow) ELSE q.limit)
                             /\ \A a \in Range(s), b \in inWindow \ Range(s) : TimeOf[a[2]] >= TimeOf[b[2]]
  BY DEF QueriesAgree
<1> DEFINE H == FireHits(q)
           at == MemHits(q)
           times == [i \in DOMAIN order |-> TimeOf[order[i][2]]]
           v == [a \in H |-> TimeOf[a[2]]]
           s == Pick(order, at, Downwards(at, times))
           t == InOrder(H, NewestFirst(H))
           m == MemQuery(q)
           f == FireQuery(q)
           hits == {a \in DOMAIN mem : \A x \in DOMAIN q.where : Field(a, mem[a], x) = q.where[x]}
           inWindow == {a \in hits : (q.since = None \/ TimeOf[a[2]] >= q.since)
                                     /\ (q.until = None \/ TimeOf[a[2]] <= q.until)}
<1>1. q.limit \in Nat /\ DOMAIN q.where \subseteq repo.firestore.filters
  <2>1. repo.memory.filters = repo.firestore.filters BY Classes DEF StoreInv
  <2>2. QED BY <2>1 DEF Queries
<1>2. inWindow = H
  BY <1>1, StoreSets DEF FireHits, Matches
<1>3. /\ H \subseteq DOMAIN mem /\ H = {order[i] : i \in at} /\ at \subseteq DOMAIN order
      /\ \A a \in H : a[2] \in Ids /\ a[1] = Top
  <2>1. ~repo.memory.scoped BY Classes DEF StoreInv
  <2>2. H \subseteq DOMAIN mem BY StoreSets DEF FireHits
  <2>3. at \subseteq DOMAIN order BY DEF MemHits
  <2>4. QED BY <2>1, <2>2, <2>3, StoreSets
<1>4. v \in [H -> Nat] BY <1>3
<1>5. Listing(t, H) /\ Falling(t, v)
  <2>1. IsFiniteSet(H) /\ Total(H, NewestFirst(H)) BY <1>3, NamesDecide
  <2> HIDE DEF H, t, v
  <2>2. Listing(t, H) /\ \A i, j \in DOMAIN t : i < j => <<t[i], t[j]>> \in NewestFirst(H)
    BY <2>1, OrderedListing DEF t
  <2>3. ASSUME NEW i \in DOMAIN t, NEW j \in DOMAIN t, i < j PROVE v[t[j]] <= v[t[i]]
    <3>1. <<t[i], t[j]>> \in NewestFirst(H) BY <2>2, <2>3
    <3>2. t[i] \in H /\ t[j] \in H BY <3>1 DEF NewestFirst
    <3>3. TimeOf[t[i][2]] \in Nat /\ TimeOf[t[j][2]] \in Nat BY <1>3, <3>2
    <3>4. TimeOf[t[j][2]] <= TimeOf[t[i][2]] BY <3>1, <3>3 DEF NewestFirst
    <3>5. QED BY <3>2, <3>4 DEF v
  <2>4. QED BY <2>2, <2>3 DEF Falling
<1>6. Listing(s, H) /\ Falling(s, v)
  <2>1. ASSUME NEW i \in at PROVE times[i] \in Int /\ v[order[i]] = times[i]
    <3>1. i \in DOMAIN order /\ order[i] \in H BY <1>3
    <3>2. order[i][2] \in Ids BY <1>3, <3>1
    <3> HIDE DEF H, at
    <3>3. times[i] = TimeOf[order[i][2]] /\ v[order[i]] = TimeOf[order[i][2]] BY <3>1
    <3> HIDE DEF times, v
    <3>4. TimeOf[order[i][2]] \in Nat BY <3>2
    <3>5. QED BY <3>3, <3>4
  <2>2. Listing(order, DOMAIN mem) /\ order \in Seq(DOMAIN mem) BY DEF StoreInv, Listing
  <2>3. Total(at, Downwards(at, times)) BY <1>3, <2>1, StoreSets, PositionsTotal
  <2> HIDE DEF H, at, times, v
  <2>4. Listing(s, H) BY <1>3, <2>2, <2>3, PickedListing
  <2>5. Falling(s, v) BY <1>3, <2>1, <2>2, PickedFalling
  <2>6. QED BY <2>4, <2>5
<1>7. m = First(s, q.limit) /\ f = First(t, q.limit) BY DEF MemQuery, FireQuery
<1> HIDE DEF H, at, times, v, s, t, m, f, hits, inWindow
<1>8. Len(s) = Len(t) /\ \A i \in DOMAIN s : v[s[i]] = v[t[i]]
  BY <1>4, <1>5, <1>6, SameValues
<1>9. ASSUME NEW l, NEW c, Listing(l, H), Falling(l, v), c = First(l, q.limit)
      PROVE  /\ Len(c) = (IF Cardinality(H) < q.limit THEN Cardinality(H) ELSE q.limit)
             /\ DOMAIN c = 1..Len(c) /\ DOMAIN c \subseteq DOMAIN l
             /\ \A i \in DOMAIN c : c[i] = l[i] /\ c[i] \in H
             /\ Range(c) \subseteq H /\ Cardinality(Range(c)) = Len(c)
             /\ \A a \in Range(c), b \in H \ Range(c) : TimeOf[a[2]] >= TimeOf[b[2]]
  <2>1. /\ Len(c) = (IF Cardinality(H) < q.limit THEN Cardinality(H) ELSE q.limit)
        /\ DOMAIN c = 1..Len(c) /\ DOMAIN c \subseteq DOMAIN l
        /\ \A i \in DOMAIN c : c[i] = l[i]
        /\ Range(c) \subseteq H /\ Cardinality(Range(c)) = Len(c)
    BY <1>1, <1>9, CutListing
  <2>2. \A i \in DOMAIN c : c[i] \in H BY <2>1 DEF Range
  <2>3. ASSUME NEW a \in Range(c), NEW b \in H \ Range(c) PROVE TimeOf[a[2]] >= TimeOf[b[2]]
    <3>1. v[b] <= v[a] BY <1>1, <1>9, CutTop
    <3>2. a \in H /\ b \in H BY <2>1
    <3>3. v[a] = TimeOf[a[2]] /\ v[b] = TimeOf[b[2]] /\ v[a] \in Nat /\ v[b] \in Nat
      BY <1>4, <3>2 DEF v
    <3>4. QED BY <3>1, <3>3
  <2>4. QED BY <2>1, <2>2, <2>3
<1>10. /\ Len(m) = (IF Cardinality(H) < q.limit THEN Cardinality(H) ELSE q.limit)
       /\ DOMAIN m = 1..Len(m) /\ DOMAIN m \subseteq DOMAIN s
       /\ \A i \in DOMAIN m : m[i] = s[i] /\ m[i] \in H
       /\ Range(m) \subseteq H /\ Cardinality(Range(m)) = Len(m)
       /\ \A a \in Range(m), b \in H \ Range(m) : TimeOf[a[2]] >= TimeOf[b[2]]
  BY <1>6, <1>7, <1>9
<1>11. /\ Len(f) = (IF Cardinality(H) < q.limit THEN Cardinality(H) ELSE q.limit)
       /\ DOMAIN f = 1..Len(f) /\ DOMAIN f \subseteq DOMAIN t
       /\ \A i \in DOMAIN f : f[i] = t[i] /\ f[i] \in H
       /\ Range(f) \subseteq H /\ Cardinality(Range(f)) = Len(f)
       /\ \A a \in Range(f), b \in H \ Range(f) : TimeOf[a[2]] >= TimeOf[b[2]]
  BY <1>5, <1>7, <1>9
<1>12. ASSUME NEW i \in DOMAIN m PROVE TimeOf[m[i][2]] = TimeOf[f[i][2]]
  <2>1. i \in DOMAIN f /\ m[i] = s[i] /\ f[i] = t[i] /\ m[i] \in H /\ f[i] \in H
    BY <1>10, <1>11
  <2>2. v[m[i]] = v[f[i]] BY <1>8, <1>10, <2>1
  <2>3. QED BY <2>1, <2>2 DEF v
<1>13. QED BY <1>2, <1>10, <1>11, <1>12 DEF m, f, inWindow, hits

LEMMA LookupsSame == StoreInv => LookupsAgree
<1> SUFFICES ASSUME StoreInv PROVE LookupsAgree OBVIOUS
<1>1. ASSUME repo.memory.first = "last saved", NEW k
      PROVE  LET holders == {a \in DOMAIN mem : KeyOf[a[2]] = k}
             IN  IF holders = {} THEN MemFind(k) = None /\ FireFind(k) = None
                 ELSE {MemFind(k), FireFind(k)} \subseteq holders
  <2> DEFINE holders == {a \in DOMAIN mem : KeyOf[a[2]] = k}
  <2>1. holders = {} => k \notin DOMAIN index BY <1>1 DEF StoreInv, Indexed
  <2>2. holders # {} => k \in DOMAIN index /\ index[k] \in holders
    BY <1>1 DEF StoreInv, Indexed
  <2>3. FireFind(k) = IF holders = {} THEN None
                      ELSE CHOOSE a \in holders : \A b \in holders \ {a} : Before(a, b)
    BY StoreSets DEF FireFind
  <2>4. ASSUME holders # {} PROVE \E a \in holders : \A b \in holders \ {a} : Before(a, b)
    <3>1. ~repo.memory.scoped BY <1>1, Classes DEF StoreInv
    <3>2. holders \subseteq DOMAIN mem /\ \A a, b \in holders : a[1] = b[1] BY <3>1, StoreSets
    <3> HIDE DEF holders
    <3>3. IsFiniteSet(holders) /\ Total(holders, ByName(holders)) BY <3>2, NamesDecide
    <3>4. \E a \in holders : \A b \in holders \ {a} : <<a, b>> \in ByName(holders)
      BY <2>4, <3>3, Foremost
    <3>5. QED BY <3>4 DEF ByName
  <2> HIDE DEF holders
  <2>5. holders # {} => FireFind(k) \in holders BY <2>3, <2>4
  <2>6. QED BY <2>1, <2>2, <2>3, <2>5 DEF MemFind, holders
<1>2. ASSUME repo.memory.first = "oldest workflow", NEW id \in Ids
      PROVE  LET owners == {w \in Workflows : <<w, id>> \in DOMAIN mem}
             IN  IF owners = {} THEN MemOwner(id) = None /\ FireOwner(id) = None
                 ELSE {MemOwner(id), FireOwner(id)} \subseteq owners
  <2> DEFINE owners == {w \in Workflows : <<w, id>> \in DOMAIN mem}
             at == {i \in DOMAIN order : <<order[i][1], id>> \in DOMAIN mem}
  <2>1. repo.memory.scoped BY <1>2, Classes DEF StoreInv
  <2>2. \A i \in at : order[i][1] \in owners BY <2>1, StoreSets
  <2>3. ASSUME NEW w \in owners PROVE at # {}
    <3>1. PICK i \in DOMAIN order : order[i] = <<w, id>> BY DEF StoreInv, Listing
    <3>2. i \in at BY <3>1
    <3>3. QED BY <3>2
  <2>4. at \subseteq Nat /\ IsFiniteSet(at) /\ owners \subseteq Nat /\ IsFiniteSet(owners)
    <3>1. at \in SUBSET (1..Len(order)) /\ Len(order) \in Nat BY StoreSets
    <3>2. owners \subseteq Nat OBVIOUS
    <3> DEFINE f == [a \in DOMAIN mem |-> a[1]]
               T == {a[1] : a \in DOMAIN mem}
    <3>3. owners \subseteq T OBVIOUS
    <3> HIDE DEF at, owners
    <3>4. f \in Surjection(DOMAIN mem, T) BY DEF Surjection
    <3>5. IsFiniteSet(DOMAIN mem) BY StoreSets
    <3> HIDE DEF f, T
    <3>6. IsFiniteSet(T) BY <3>4, <3>5, FS_Surjection
    <3>7. IsFiniteSet(owners) BY <3>3, <3>6, FS_Subset
    <3>8. IsFiniteSet(at) BY <3>1, PositionsTotal
    <3>9. QED BY <3>1, <3>2, <3>7, <3>8
  <2> HIDE DEF owners, at
  <2>5. at # {} => \E i \in at : \A j \in at : i <= j BY <2>4, LeastNatural
  <2>8. owners # {} => \E w \in owners : \A x \in owners : w <= x BY <2>4, LeastNatural
  <2> USE DEF owners, at
  <2>9. FireOwner(id) = IF owners = {} THEN None
                        ELSE CHOOSE w \in owners : \A x \in owners : w <= x
    BY StoreSets DEF FireOwner
  <2>10. MemOwner(id) = IF at = {} THEN None
                        ELSE order[CHOOSE i \in at : \A j \in at : i <= j][1]
    BY DEF MemOwner
  <2> HIDE DEF owners, at
  <2>11. owners # {} => FireOwner(id) \in owners BY <2>8, <2>9
  <2>12. at # {} => MemOwner(id) \in owners BY <2>2, <2>5, <2>10
  <2>13. at = {} <=> owners = {} BY <2>2, <2>3
  <2>14. QED BY <2>9, <2>10, <2>11, <2>12, <2>13 DEF owners
<1>3. Listing(order, DOMAIN mem) BY DEF StoreInv
<1>4. ASSUME NEW w \in Workflows PROVE Range(MemList(w)) = Range(FireList(w))
  <2>1. MemOf(w) \subseteq DOMAIN order /\ Total(MemOf(w), Upwards(MemOf(w)))
    BY StoreSets, PositionsTotal DEF MemOf
  <2>2. FireOf(w) \subseteq DOMAIN mem /\ \A a, b \in FireOf(w) : a[1] = b[1]
    BY StoreSets DEF FireOf
  <2>3. FireOf(w) = {order[i] : i \in MemOf(w)} BY StoreSets
  <2>4. Listing(MemList(w), FireOf(w)) BY <1>3, <2>1, <2>3, PickedListing DEF MemList
  <2>5. Listing(FireList(w), FireOf(w)) BY <2>2, NamesDecide, OrderedListing DEF FireList
  <2>6. QED BY <2>4, <2>5, ListingRange
<1>5. ASSUME repo.memory.lists = "recent", NEW s, NEW n \in Nat
      PROVE  LET m == MemRecent(s, n)
                 f == FireRecent(s, n)
             IN  Len(m) = Len(f) /\ (Len(m) < n => Range(m) = Range(f))
  <2>1. ~repo.memory.scoped BY <1>5, Classes DEF StoreInv
  <2>2. MemWith(s) \subseteq DOMAIN order /\ Total(MemWith(s), Backwards(MemWith(s)))
    BY StoreSets, PositionsTotal DEF MemWith
  <2>3. FireWith(s) \subseteq DOMAIN mem /\ \A a, b \in FireWith(s) : a[1] = b[1]
    BY <2>1, StoreSets DEF FireWith
  <2>4. FireWith(s) = {order[i] : i \in MemWith(s)} BY StoreSets
  <2>5. PICK l : l = Pick(order, MemWith(s), Backwards(MemWith(s))) OBVIOUS
  <2>6. PICK k : k = InOrder(FireWith(s), ByName(FireWith(s))) OBVIOUS
  <2>7. Listing(l, FireWith(s)) BY <1>3, <2>2, <2>4, <2>5, PickedListing
  <2>8. Listing(k, FireWith(s)) BY <2>3, <2>6, NamesDecide, OrderedListing
  <2>9. MemRecent(s, n) = First(l, n) /\ FireRecent(s, n) = First(k, n)
    BY <2>5, <2>6 DEF MemRecent, FireRecent
  <2>10. QED BY <2>7, <2>8, <2>9, CutWhole
<1>6. ASSUME repo.memory.lists = "recent", NEW s \in Statuses \cup {None}, NEW n \in 1..MaxDocs
      PROVE  LET m == MemRecent(s, n)
                 f == FireRecent(s, n)
             IN  Len(m) = Len(f) /\ (Len(m) < n => Range(m) = Range(f))
  <2>1. n \in Nat OBVIOUS
  <2>2. QED BY <1>5, <1>6, <2>1
<1>7. QED BY <1>1, <1>2, <1>4, <1>6 DEF LookupsAgree

\* Whatever a caller can ask, the two backends answer alike, as far as ReadsAgree says:
\* the queries, find_by_* and list_* of app/persistence/memory and app/persistence/firestore.
THEOREM ReadersAgree == StoreSpec => []ReadsAgree
<1>1. StoreInv => ReadsAgree BY QueriesSame, LookupsSame DEF ReadsAgree
<1>2. QED BY <1>1, StoreInvariance, PTL

-----------------------------------------------------------------------------
(***************************************************************************)
(* Knowledge. There is one answer to a request, Results(Found), and what   *)
(* has to be shown is shown about that operator: the ranking orders by a   *)
(* score in which the bonuses are worth Spread at most, and the limit cuts *)
(* a list that is complete before it.                                      *)
(***************************************************************************)
USE LimitAssumption, CorpusAssumption

SearchInv ==
  /\ corpus \in Corpora /\ backend \in {"memory", "google", "none"}
  /\ backend = "memory" =>
       \A i \in DOMAIN corpus : corpus[i].relevance \in 0..100 /\ corpus[i].authority # Missing
  /\ Answered =>
       IF backend = "none" THEN answer = <<>>
       ELSE request.type \in Allowed(request.agent) /\ answer = Results(Found)

LEMMA SearchInvariance == SearchSpec => []SearchInv
<1>1. SearchInit => SearchInv BY DEF SearchInit, SearchInv, Answered
<1>2. SearchInv /\ [SearchNext]_searchVars => SearchInv'
  <2> SUFFICES ASSUME SearchInv, [SearchNext]_searchVars PROVE SearchInv' OBVIOUS
  <2>1. CASE UNCHANGED searchVars BY <2>1 DEF searchVars, SearchInv, Answered, Found
  <2>2. CASE Ask BY <2>2 DEF Ask, SearchInv, Answered, Found
  <2>3. CASE SearchFails BY <2>3 DEF SearchFails, SearchInv, Answered
  <2>4. QED BY <2>1, <2>2, <2>3 DEF SearchNext
<1>3. QED BY <1>1, <1>2, PTL DEF SearchSpec

\* A chunk the ranking can score.
Scorable == {c \in Chunks : c.relevance \in Int /\ c.authority \in DOMAIN Bonus}

\* What the backend makes of the chunks it holds.
Given(c) == IF backend = "memory" THEN c ELSE FromGoogle(c)
Good(c) == c.fits /\ (IF backend = "memory" THEN c.inForce /\ c.relevance > 0 ELSE c.whole)

LEMMA BonusRange == \A a \in DOMAIN Bonus : Bonus[a] \in -5..15
  BY DEF Bonus

LEMMA GivenScorable ==
  ASSUME SearchInv, backend # "none", NEW i \in DOMAIN corpus
  PROVE  Given(corpus[i]) \in Scorable /\ (Good(Given(corpus[i])) <=> Good(corpus[i]))
<1>1. corpus \in Seq(Chunks) BY DEF SearchInv
<1>2. corpus[i] \in Chunks BY <1>1, ElementOfSeq, LenProperties
<1>3. CASE backend = "memory"
  BY <1>2, <1>3 DEF SearchInv, Given, Scorable, Chunks
<1>4. CASE backend # "memory"
  <2>1. "unverified" \in DOMAIN Bonus BY DEF Bonus
  <2>2. FromGoogle(corpus[i]) \in Scorable
    <3>1. PICK r : r = IF corpus[i].relevance = Missing THEN 50 ELSE Clamp(corpus[i].relevance)
      OBVIOUS
    <3>2. PICK b : b = IF corpus[i].authority = Missing THEN "unverified" ELSE corpus[i].authority
      OBVIOUS
    <3>3. r \in Int BY <1>2, <3>1 DEF Chunks, Clamp
    <3>4. b \in DOMAIN Bonus BY <1>2, <2>1, <3>2 DEF Chunks
    <3>5. FromGoogle(corpus[i]) = [corpus[i] EXCEPT !.relevance = r, !.authority = b]
      BY <3>1, <3>2 DEF FromGoogle
    <3>6. FromGoogle(corpus[i]) \in Chunks BY <1>2, <3>3, <3>4, <3>5 DEF Chunks
    <3>7. FromGoogle(corpus[i]).relevance = r /\ FromGoogle(corpus[i]).authority = b
      BY <1>2, <3>5 DEF Chunks
    <3>8. QED BY <3>3, <3>4, <3>6, <3>7 DEF Scorable
  <2>3. /\ FromGoogle(corpus[i]).fits = corpus[i].fits
        /\ FromGoogle(corpus[i]).whole = corpus[i].whole
    BY <1>2 DEF FromGoogle, Chunks
  <2>4. QED BY <1>4, <2>2, <2>3 DEF Given, Good
<1>5. QED BY <1>3, <1>4

\* The search finds all that is good, each chunk once.
LEMMA Searched ==
  ASSUME SearchInv, backend # "none"
  PROVE  /\ Found \in Seq(Scorable)
         /\ \A n \in DOMAIN Found : Good(Found[n])
         /\ Cardinality(Candidates(Found)) =
              Cardinality({i \in DOMAIN corpus : Good(corpus[i]) /\ Given(corpus[i]).relevance >= MinRelevance})
<1> DEFINE s == [i \in DOMAIN corpus |-> Given(corpus[i])]
           at == {i \in DOMAIN corpus : Good(corpus[i])}
           score == [i \in DOMAIN s |-> s[i].relevance]
           R == Downwards(at, score)
           p == InOrder(at, R)
           there == {i \in DOMAIN corpus : Good(corpus[i]) /\ Given(corpus[i]).relevance >= MinRelevance}
<1>1. corpus \in Seq(Chunks) /\ Len(corpus) \in Nat /\ DOMAIN corpus = 1..Len(corpus)
  BY LenProperties DEF SearchInv
<1>2. s \in Seq(Scorable) /\ DOMAIN s = DOMAIN corpus
  BY <1>1, GivenScorable, IsASeq
<1>3. Found = Pick(s, at, R)
  <2>1. CASE backend = "memory"
    <3>1. corpus = [i \in DOMAIN corpus |-> corpus[i]] BY <1>1
    <3>2. s = corpus BY <2>1, <3>1 DEF Given
    <3>3. at = {i \in DOMAIN corpus : MemoryMatches(corpus[i])} BY <2>1 DEF Good, MemoryMatches
    <3>4. Found = Pick(corpus, at, Downwards(at, [i \in DOMAIN corpus |-> corpus[i].relevance]))
      BY <2>1, <3>3 DEF Found, MemorySearch, MostRelevant
    <3>5. QED BY <3>2, <3>4
  <2>2. CASE backend # "memory"
    <3>1. s = [i \in DOMAIN corpus |-> FromGoogle(corpus[i])] BY <2>2 DEF Given
    <3>2. at = {i \in DOMAIN corpus : GoogleMatches(corpus[i])} BY <2>2 DEF Good, GoogleMatches
    <3> HIDE DEF s, at
    <3>3. Found = GoogleSearch(corpus) BY <2>2 DEF Found
    <3>4. GoogleSearch(corpus) = MostRelevant(s, at) BY <3>1, <3>2 DEF GoogleSearch
    <3>5. QED BY <3>3, <3>4 DEF MostRelevant
  <2>3. QED BY <2>1, <2>2
<1>4. IsFiniteSet(at) /\ Total(at, R) /\ at \subseteq DOMAIN s
  <2>1. \A i \in at : score[i] \in Int BY GivenScorable DEF Scorable
  <2>2. at \in SUBSET (1..Len(corpus)) BY <1>1
  <2> HIDE DEF score, at
  <2>3. QED BY <1>1, <1>2, <2>1, <2>2, PositionsTotal
<1>5. \A i \in DOMAIN s : s[i] = Given(corpus[i]) BY <1>2
<1> HIDE DEF s, R
<1>6. /\ Found \in Seq(Scorable) /\ DOMAIN Found = 1..Cardinality(at)
  <2> HIDE DEF at
  <2>1. QED BY <1>2, <1>3, <1>4, Picked
<1>7. ASSUME NEW n \in DOMAIN Found PROVE p[n] \in at /\ Found[n] = Given(corpus[p[n]])
  <2> HIDE DEF at
  <2>1. InOrder(at, R)[n] \in at /\ Pick(s, at, R)[n] = s[InOrder(at, R)[n]]
    BY <1>2, <1>4, <1>6, PickedAt
  <2>2. QED BY <1>3, <1>4, <1>5, <2>1
<1>8. /\ DOMAIN p = DOMAIN Found
      /\ \A i \in at : \E n \in DOMAIN p : p[n] = i
      /\ \A i, j \in DOMAIN p : p[i] = p[j] => i = j
  <2> HIDE DEF at
  <2>1. QED BY <1>4, <1>6, Ordered
<1>9. \A n \in DOMAIN Found : Good(Found[n]) BY <1>7, GivenScorable
<1> HIDE DEF p
<1>10. Cardinality(Candidates(Found)) = Cardinality(there)
  <2> DEFINE f == [n \in Candidates(Found) |-> p[n]]
  <2>1. Candidates(Found) \subseteq DOMAIN Found BY DEF Candidates
  <2>2. f \in [Candidates(Found) -> there] BY <1>7, <2>1 DEF Candidates
  <2>3. \A i \in there : \E n \in Candidates(Found) : f[n] = i
    <3> SUFFICES ASSUME NEW i \in there PROVE \E n \in Candidates(Found) : f[n] = i OBVIOUS
    <3>1. PICK n \in DOMAIN Found : p[n] = i BY <1>8
    <3>2. Found[n].relevance >= MinRelevance BY <1>7, <3>1
    <3>3. n \in Candidates(Found) BY <3>2 DEF Candidates
    <3>4. QED BY <3>1, <3>3
  <2>4. \A i, j \in Candidates(Found) : f[i] = f[j] => i = j BY <1>8, <2>1
  <2>5. IsFiniteSet(Candidates(Found))
    <3>1. Candidates(Found) \in SUBSET (1..Len(Found)) /\ Len(Found) \in Nat
      BY <1>6, <2>1, LenProperties
    <3>2. QED BY <3>1, PositionsTotal
  <2> HIDE DEF f, there
  <2>6. f \in Surjection(Candidates(Found), there) /\ f \in Injection(Candidates(Found), there)
    BY <2>2, <2>3, <2>4 DEF Surjection, Injection, IsInjective
  <2>7. QED BY <2>5, <2>6, FS_Surjection
<1>11. QED BY <1>6, <1>9, <1>10

\* The answer to what was found: the places of the best candidates, as far as the limit.
Places(found) == InOrder(Candidates(found), Downwards(Candidates(found), Scores(found)))

LEMMA Scored ==
  ASSUME NEW found \in Seq(Scorable)
  PROVE  /\ Scores(found) = [i \in DOMAIN found |-> RawScore(found, found[i])]
         /\ \A i \in DOMAIN found :
              /\ found[i].relevance \in Int /\ found[i].from \in Nat
              /\ Bonus[found[i].authority] \in -5..15 /\ Scores(found)[i] \in Int
         /\ Candidates(found) \subseteq DOMAIN found /\ IsFiniteSet(Candidates(found))
         /\ Total(Candidates(found), Downwards(Candidates(found), Scores(found)))
<1>1. \A i \in DOMAIN found : found[i] \in Scorable BY ElementOfSeq, LenProperties
<1>2. \A i \in DOMAIN found :
        /\ found[i].relevance \in Int /\ found[i].from \in Nat
        /\ Bonus[found[i].authority] \in -5..15
  BY <1>1, BonusRange DEF Scorable, Chunks
<1>3. ASSUME NEW i \in DOMAIN found PROVE Scores(found)[i] \in Int
  <2>1. PICK c : c = found[i] OBVIOUS
  <2>2. c.relevance \in Int /\ Bonus[c.authority] \in Int BY <1>2, <2>1
  <2>3. RawScore(found, c) \in Int BY <2>2 DEF RawScore, FreshnessBonus
  <2>4. QED BY <2>1, <2>3 DEF Scores
<1>4. Candidates(found) \subseteq DOMAIN found BY DEF Candidates
<1>5. Candidates(found) \in SUBSET (1..Len(found)) /\ Len(found) \in Nat BY <1>4, LenProperties
<1>6. /\ IsFiniteSet(Candidates(found))
      /\ Total(Candidates(found), Downwards(Candidates(found), Scores(found)))
  BY <1>3, <1>4, <1>5, PositionsTotal
<1>7. QED BY <1>2, <1>3, <1>4, <1>6 DEF Scores

LEMMA Shows ==
  ASSUME NEW found \in Seq(Scorable), NEW r, r = Results(found)
  PROVE  /\ Len(r) = (IF Cardinality(Candidates(found)) < Limit THEN Cardinality(Candidates(found)) ELSE Limit)
         /\ DOMAIN r = 1..Len(r) /\ Len(r) \in Nat
         /\ \A n \in DOMAIN r : r[n].chunk = found[Places(found)[n]]
                              /\ r[n].shown = Clamp(Scores(found)[Places(found)[n]])
         /\ DOMAIN Places(found) = 1..Cardinality(Candidates(found))
         /\ Cardinality(Candidates(found)) \in Nat /\ DOMAIN r \subseteq DOMAIN Places(found)
         /\ \A n \in DOMAIN Places(found) : Places(found)[n] \in Candidates(found)
         /\ \A i \in Candidates(found) : \E n \in DOMAIN Places(found) : Places(found)[n] = i
         /\ \A m, n \in DOMAIN Places(found) : m < n =>
              <<Places(found)[m], Places(found)[n]>> \in Downwards(Candidates(found), Scores(found))
<1> DEFINE p == Places(found)
           k == Cardinality(Candidates(found))
           l == Ranked(found)
<1>1. /\ k \in Nat /\ p \in [1..k -> Candidates(found)] /\ DOMAIN p = 1..k
      /\ \A i \in Candidates(found) : \E n \in DOMAIN p : p[n] = i
      /\ \A m, n \in DOMAIN p : m < n => <<p[m], p[n]>> \in Downwards(Candidates(found), Scores(found))
  BY Scored, Ordered DEF Places
<1>2. l = [n \in 1..k |-> [chunk |-> found[p[n]], rank |-> n, shown |-> Clamp(Scores(found)[p[n]])]]
  BY <1>1 DEF Ranked, Places
<1> HIDE DEF p, k, l
<1>3. \A n \in 1..k : l[n].chunk = found[p[n]] /\ l[n].shown = Clamp(Scores(found)[p[n]])
  BY <1>2
<1>4. l \in Seq(Range(l)) /\ Len(l) = k /\ DOMAIN l = 1..k
  <2>1. DOMAIN l = 1..k /\ \A n \in 1..k : l[n] \in Range(l) BY <1>2 DEF Range
  <2>2. l = [n \in 1..k |-> l[n]] BY <1>2
  <2>3. PICK T : T = Range(l) OBVIOUS
  <2>4. \A n \in 1..k : l[n] \in T BY <2>1, <2>3
  <2>5. l \in Seq(T) BY <1>1, <2>2, <2>4, IsASeq
  <2>6. QED BY <1>1, <2>1, <2>3, <2>5, LenProperties
<1>5. Limit \in Nat BY DEF Limit
<1>6. r = First(l, Limit) BY DEF Results, l
<1>7. /\ Len(r) = (IF Limit < Len(l) THEN Limit ELSE Len(l))
      /\ DOMAIN r = 1..Len(r) /\ Len(r) \in Nat /\ DOMAIN r \subseteq DOMAIN l
      /\ \A n \in DOMAIN r : r[n] = l[n]
  <2>1. PICK T, n : T = Range(l) /\ n = Limit OBVIOUS
  <2>2. l \in Seq(T) /\ n \in Nat /\ r = First(l, n) BY <1>4, <1>5, <1>6, <2>1
  <2>3. QED BY <2>1, <2>2, Cut
<1>8. Len(r) = IF k < Limit THEN k ELSE Limit BY <1>1, <1>4, <1>5, <1>7
<1>9. \A n \in DOMAIN r : r[n].chunk = found[p[n]] /\ r[n].shown = Clamp(Scores(found)[p[n]])
  BY <1>3, <1>4, <1>7
<1>10. \A n \in DOMAIN p : p[n] \in Candidates(found) BY <1>1
<1>11. DOMAIN r \subseteq DOMAIN p BY <1>1, <1>4, <1>7
<1>12. QED BY <1>1, <1>7, <1>8, <1>9, <1>10, <1>11 DEF p, k

\* Nothing is placed before what is better by more than the bonuses.
LEMMA PlacedNoWorse ==
  ASSUME NEW found \in Seq(Scorable), NEW i, NEW j,
         <<i, j>> \in Downwards(Candidates(found), Scores(found))
  PROVE  NoWorse(found[i], found[j]) /\ Clamp(Scores(found)[j]) <= Clamp(Scores(found)[i])
<1>1. i \in DOMAIN found /\ j \in DOMAIN found
  <2>1. i \in Candidates(found) /\ j \in Candidates(found) BY DEF Downwards
  <2>2. QED BY <2>1, Scored
<1>2. Scores(found)[j] <= Scores(found)[i] /\ Scores(found)[i] \in Int /\ Scores(found)[j] \in Int
  <2>1. Scores(found)[i] \in Int /\ Scores(found)[j] \in Int BY <1>1, Scored
  <2>2. Scores(found)[i] > Scores(found)[j] \/ Scores(found)[i] = Scores(found)[j] BY DEF Downwards
  <2>3. QED BY <2>1, <2>2
<1>3. /\ Scores(found)[i] = RawScore(found, found[i])
      /\ Scores(found)[j] = RawScore(found, found[j])
  BY <1>1, Scored
<1>4. /\ found[i].relevance \in Int /\ found[j].relevance \in Int
      /\ Bonus[found[i].authority] \in -5..15 /\ Bonus[found[j].authority] \in -5..15
  BY <1>1, Scored
<1>5. found[i].from = found[j].from => (Freshest(found, found[i]) <=> Freshest(found, found[j]))
  BY DEF Freshest
<1> HIDE DEF Bonus
<1>6. NoWorse(found[i], found[j])
  <2>1. PICK a, b : a = found[i] /\ b = found[j] OBVIOUS
  <2>2. PICK x, y : x = Bonus[a.authority] /\ y = Bonus[b.authority] OBVIOUS
  <2>3. /\ a.relevance \in Int /\ b.relevance \in Int /\ x \in -5..15 /\ y \in -5..15
        /\ RawScore(found, b) <= RawScore(found, a)
    BY <1>2, <1>3, <1>4, <2>1, <2>2
  <2>4. b.relevance - a.relevance <= Spread
    <3>1. PICK most : most = IF Freshness THEN 8 ELSE 0 OBVIOUS
    <3>2. PICK u, w : /\ u = IF Freshness /\ Freshest(found, a) THEN FreshnessBonus ELSE 0
                      /\ w = IF Freshness /\ Freshest(found, b) THEN FreshnessBonus ELSE 0
      OBVIOUS
    <3>3. most \in Int /\ u \in 0..most /\ w \in 0..most /\ Spread = 20 + most
      BY <3>1, <3>2 DEF Spread, FreshnessBonus
    <3>4. b.relevance + y + w <= a.relevance + x + u BY <2>2, <2>3, <3>2 DEF RawScore
    <3>5. PICK f, g : f = a.relevance /\ g = b.relevance OBVIOUS
    <3>6. /\ f \in Int /\ g \in Int /\ x \in Int /\ y \in Int /\ u \in Int /\ w \in Int
          /\ x <= 15 /\ -5 <= y /\ u <= most /\ 0 <= w /\ g + y + w <= f + x + u
      BY <2>3, <3>3, <3>4, <3>5
    <3>7. g - f <= 20 + most BY <3>3, <3>6
    <3>8. QED BY <3>3, <3>5, <3>7
  <2>5. b.relevance = a.relevance /\ b.from = a.from => y <= x
    <3>1. b.from = a.from => (Freshest(found, a) <=> Freshest(found, b)) BY <1>5, <2>1
    <3>2. PICK u, w : /\ u = IF Freshness /\ Freshest(found, a) THEN FreshnessBonus ELSE 0
                      /\ w = IF Freshness /\ Freshest(found, b) THEN FreshnessBonus ELSE 0
      OBVIOUS
    <3>3. u \in Int /\ w \in Int BY <3>2 DEF FreshnessBonus
    <3>4. b.relevance + y + w <= a.relevance + x + u BY <2>2, <2>3, <3>2 DEF RawScore
    <3>5. b.from = a.from => u = w BY <3>1, <3>2
    <3>6. PICK f, g : f = a.relevance /\ g = b.relevance OBVIOUS
    <3>7. f \in Int /\ g \in Int /\ x \in Int /\ y \in Int /\ g + y + w <= f + x + u
      BY <2>3, <3>4, <3>6
    <3>8. g = f /\ u = w => y <= x BY <3>3, <3>7
    <3>9. QED BY <3>5, <3>6, <3>8
  <2>6. QED BY <2>1, <2>2, <2>4, <2>5 DEF NoWorse
<1>7. Clamp(Scores(found)[j]) <= Clamp(Scores(found)[i]) BY <1>2 DEF Clamp
<1>8. QED BY <1>6, <1>7

\* ranking.py: relevance is the dominant term, in what is shown and in what is cut off.
THEOREM RelevanceDominates == SearchSpec => []RelevanceLeads
<1>1. ASSUME SearchInv PROVE RelevanceLeads
  <2> SUFFICES ASSUME Answered
               PROVE  /\ \A m, n \in DOMAIN answer : m < n =>
                           NoWorse(answer[m].chunk, answer[n].chunk) /\ answer[n].shown <= answer[m].shown
                      /\ \A i \in Candidates(Found), s \in Shown : Found[i] \in Shown \/ NoWorse(s, Found[i])
    BY DEF RelevanceLeads
  <2>1. CASE backend = "none"
    <3>1. DOMAIN answer = {} BY <1>1, <2>1 DEF SearchInv
    <3>2. QED BY <3>1 DEF Shown
  <2>2. CASE backend # "none"
    <3>1. answer = Results(Found) /\ Found \in Seq(Scorable)
      BY <1>1, <2>2, Searched DEF SearchInv
    <3>2. PICK f, p : f = Found /\ p = Places(f) OBVIOUS
    <3>3. /\ DOMAIN answer = 1..Len(answer) /\ Len(answer) \in Nat
          /\ \A n \in DOMAIN answer : answer[n].chunk = f[p[n]] /\ answer[n].shown = Clamp(Scores(f)[p[n]])
          /\ DOMAIN answer \subseteq DOMAIN p /\ DOMAIN p = 1..Cardinality(Candidates(f))
          /\ Cardinality(Candidates(f)) \in Nat
          /\ \A i \in Candidates(f) : \E n \in DOMAIN p : p[n] = i
          /\ \A m, n \in DOMAIN p : m < n =>
               NoWorse(f[p[m]], f[p[n]]) /\ Clamp(Scores(f)[p[n]]) <= Clamp(Scores(f)[p[m]])
      <4>1. answer = Results(f) /\ f \in Seq(Scorable) BY <3>1, <3>2
      <4>2. \A m, n \in DOMAIN p : m < n =>
              <<p[m], p[n]>> \in Downwards(Candidates(f), Scores(f))
        BY <3>2, <4>1, Shows
      <4>3. \A m, n \in DOMAIN p : m < n =>
              NoWorse(f[p[m]], f[p[n]]) /\ Clamp(Scores(f)[p[n]]) <= Clamp(Scores(f)[p[m]])
        BY <4>1, <4>2, PlacedNoWorse
      <4>4. QED BY <3>2, <4>1, <4>3, Shows
    <3>4. \A m, n \in DOMAIN answer : m < n =>
            NoWorse(answer[m].chunk, answer[n].chunk) /\ answer[n].shown <= answer[m].shown
      BY <3>3
    <3>5. ASSUME NEW i \in Candidates(f), NEW s \in Shown PROVE f[i] \in Shown \/ NoWorse(s, f[i])
      <4>1. PICK m \in DOMAIN answer : s = answer[m].chunk BY DEF Shown
      <4>2. PICK n \in DOMAIN p : p[n] = i BY <3>3
      <4>3. n \in DOMAIN answer => f[i] \in Shown BY <3>3, <4>2 DEF Shown
      <4>4. n \notin DOMAIN answer => m < n BY <3>3, <4>1, <4>2
      <4>5. QED BY <3>3, <4>1, <4>2, <4>3, <4>4
    <3>6. QED BY <3>2, <3>4, <3>5
  <2>3. QED BY <2>1, <2>2
<1>2. QED BY <1>1, SearchInvariance, PTL

\* An agent is given what it may ask for, nothing that does not qualify, and all that
\* does, up to the limit (query_enterprise_knowledge, LocalKnowledgeService.search).
THEOREM AnswersGrounded == SearchSpec => []AnswerGrounded
<1>1. ASSUME SearchInv PROVE AnswerGrounded
  <2> SUFFICES ASSUME Answered, backend # "none"
               PROVE  LET there == Cardinality({i \in DOMAIN corpus :
                                     Good(corpus[i]) /\ Given(corpus[i]).relevance >= MinRelevance})
                      IN  /\ request.type \in Allowed(request.agent)
                          /\ \A c \in Shown : Good(c) /\ c.relevance >= MinRelevance
                          /\ Len(answer) = (IF there < Limit THEN there ELSE Limit)
    BY DEF AnswerGrounded, Good, Given
  <2>1. /\ answer = Results(Found) /\ request.type \in Allowed(request.agent)
        /\ Found \in Seq(Scorable) /\ \A n \in DOMAIN Found : Good(Found[n])
    BY <1>1, Searched DEF SearchInv
  <2>2. /\ Len(answer) = (IF Cardinality(Candidates(Found)) < Limit THEN Cardinality(Candidates(Found)) ELSE Limit)
        /\ \A n \in DOMAIN answer : answer[n].chunk = Found[Places(Found)[n]]
                                  /\ Places(Found)[n] \in Candidates(Found)
    BY <2>1, Shows
  <2>3. ASSUME NEW c \in Shown PROVE Good(c) /\ c.relevance >= MinRelevance
    <3>1. PICK n \in DOMAIN answer : c = answer[n].chunk BY DEF Shown
    <3>2. c = Found[Places(Found)[n]] /\ Places(Found)[n] \in Candidates(Found) BY <2>2, <3>1
    <3>3. QED BY <2>1, <3>2 DEF Candidates
  <2>4. QED BY <1>1, <2>1, <2>2, <2>3, Searched
<1>2. QED BY <1>1, SearchInvariance, PTL

-----------------------------------------------------------------------------
(***************************************************************************)
(* The circuit breaker, for any number of callers, any threshold and any   *)
(* retry policy.                                                           *)
(***************************************************************************)
(***************************************************************************)
(* Consistent is inductive as it stands.                                   *)
(***************************************************************************)
LEMMA InitConsistent == Init => Consistent
<1>1. 0 \in 0..MaxAttempts /\ 0 < Threshold /\ 0 \in Nat
  BY ThresholdAssumption, AttemptAssumption
<1> QED
  BY <1>1, Zenon DEF Init, Consistent, TypeOK, ClosedBelowThreshold, FlagIsHalfOpen

LEMMA NextConsistent == Consistent /\ [Next]_vars => Consistent'
<1> SUFFICES ASSUME Consistent, [Next]_vars PROVE Consistent'
  OBVIOUS
<1> USE ThresholdAssumption, AttemptAssumption
     DEF Consistent, TypeOK, ClosedBelowThreshold, FlagIsHalfOpen
<1>1. CASE Elapse
  BY <1>1 DEF Elapse
<1>2. ASSUME NEW c \in Callers, Admit(c) PROVE Consistent'
  BY <1>2 DEF Admit, Enter
<1>3. ASSUME NEW c \in Callers, AdmitProbe(c) PROVE Consistent'
  BY <1>3 DEF AdmitProbe, Enter
<1>4. ASSUME NEW c \in Callers, Retry(c) PROVE Consistent'
  <2>1. attempt[c] + 1 \in 0..MaxAttempts
    BY <1>4 DEF Retry
  <2> QED BY <1>4, <2>1 DEF Retry, Fault
<1>5. ASSUME NEW c \in Callers, Succeed(c) PROVE Consistent'
  <2>1. 0 \in 0..MaxAttempts /\ 0 < Threshold /\ 0 \in Nat
    OBVIOUS
  <2> QED BY <1>5, <2>1, Zenon DEF Succeed, Leave
<1>6. ASSUME NEW c \in Callers, FailCountably(c) PROVE Consistent'
  \* Opening is decided on the counter it leaves behind, and a circuit that is
  \* not CLOSED is at its threshold already.
  <2>1. failures + 1 >= Threshold <=> state' # "CLOSED"
    BY <1>6 DEF FailCountably, Leave, Opens
  <2>2. state' \in {"CLOSED", "OPEN"} \cup {state} /\ failures' = failures + 1
    BY <1>6 DEF FailCountably
  <2>3. TypeOK'
    <3>1. 0 \in 0..MaxAttempts /\ faults' \in Nat /\ failures' \in Nat
      BY <1>6, <2>2 DEF FailCountably, Fault
    <3>2. state' \in {"CLOSED", "OPEN", "HALF_OPEN"} /\ cooled' \in BOOLEAN
      BY <1>6 DEF FailCountably
    <3> QED BY <1>6, <3>1, <3>2, Zenon DEF FailCountably, Leave
  <2>4. ClosedBelowThreshold'
    BY <2>1, <2>2
  <2>5. FlagIsHalfOpen'
    BY <1>6 DEF FailCountably
  <2> QED BY <2>3, <2>4, <2>5
<1>7. ASSUME NEW c \in Callers, FailPermanently(c) PROVE Consistent'
  <2>1. 0 \in 0..MaxAttempts /\ faults' \in Nat
    BY <1>7 DEF FailPermanently, Fault
  <2> QED BY <1>7, <2>1, Zenon DEF FailPermanently, Leave
<1>8. ASSUME NEW c \in Callers, Cancel(c) PROVE Consistent'
  BY <1>8 DEF Cancel, Leave, Fault
<1>9. CASE UNCHANGED vars
  BY <1>9 DEF vars
<1> QED
  BY <1>1, <1>2, <1>3, <1>4, <1>5, <1>6, <1>7, <1>8, <1>9 DEF Next, Complete

\* The counter, the flag and the state of the breaker agree at every await, in
\* whatever order the outcomes of overlapping calls come back (call()).
THEOREM BreakerConsistent == Spec => []Consistent
<1>1. Init => Consistent
  BY InitConsistent
<1>2. Consistent /\ [Next]_vars => Consistent'
  BY NextConsistent
<1> QED
  BY <1>1, <1>2, PTL DEF Spec

\* The breaker's state, its counter and its flag keep their types under any number of
\* concurrent calls.
THEOREM BreakerTypeCorrect == Spec => []TypeOK
<1>1. Consistent => TypeOK
  BY DEF Consistent
<1> QED
  BY <1>1, BreakerConsistent, PTL

\* The circuit lets everybody through exactly while it is below its threshold.
THEOREM OpensAtThreshold == Spec => []ClosedBelowThreshold
<1>1. Consistent => ClosedBelowThreshold
  BY DEF Consistent
<1> QED
  BY <1>1, BreakerConsistent, PTL

\* No probe of the past keeps an open circuit from probing again.
THEOREM FlagEndsWithHalfOpen == Spec => []FlagIsHalfOpen
<1>1. Consistent => FlagIsHalfOpen
  BY DEF Consistent
<1> QED
  BY <1>1, BreakerConsistent, PTL

(***************************************************************************)
(* Every outcome of a probe takes the circuit out of HALF_OPEN or leaves   *)
(* the mark that it did not.                                               *)
(***************************************************************************)
LEMMA NextProbed ==
  ASSUME TypeOK, HalfOpenIsProbed, [Next]_vars
  PROVE  HalfOpenIsProbed'
<1> USE DEF TypeOK, HalfOpenIsProbed
<1>1. CASE Elapse
  BY <1>1 DEF Elapse
<1>2. ASSUME NEW c \in Callers, Admit(c) PROVE HalfOpenIsProbed'
  BY <1>2 DEF Admit
<1>3. ASSUME NEW c \in Callers, AdmitProbe(c) PROVE HalfOpenIsProbed'
  <2>1. probe'[c]
    BY <1>3 DEF AdmitProbe, Enter
  <2> QED BY <2>1
<1>4. ASSUME NEW c \in Callers, Retry(c) PROVE HalfOpenIsProbed'
  BY <1>4 DEF Retry
<1>5. ASSUME NEW c \in Callers, Succeed(c) PROVE HalfOpenIsProbed'
  BY <1>5 DEF Succeed
<1>6. ASSUME NEW c \in Callers, FailCountably(c) PROVE HalfOpenIsProbed'
  <2>1. state' # "HALF_OPEN"
    BY <1>6 DEF FailCountably, Opens
  <2> QED BY <2>1
<1>7. ASSUME NEW c \in Callers, Leave(c),
             undecided' = (undecided \/ probe[c]), state' = state
      PROVE HalfOpenIsProbed'
  \* The probe that leaves is marked; any other is still in flight.
  <2>1. \A d \in Callers \ {c} : probe'[d] = probe[d]
    BY <1>7 DEF Leave
  <2> QED BY <1>7, <2>1
<1>8. ASSUME NEW c \in Callers, FailPermanently(c) \/ Cancel(c) PROVE HalfOpenIsProbed'
  BY <1>7, <1>8 DEF FailPermanently, Cancel
<1>9. CASE UNCHANGED vars
  BY <1>9 DEF vars
<1> QED
  BY <1>1, <1>2, <1>3, <1>4, <1>5, <1>6, <1>8, <1>9 DEF Next, Complete

\* A half-open circuit has a probe in flight that will decide it, unless that
\* probe ended in an outcome which call() does not count.
THEOREM WedgedByProbeOnly == Spec => []HalfOpenIsProbed
<1>1. Init => HalfOpenIsProbed
  BY DEF Init, HalfOpenIsProbed
<1>2. TypeOK /\ HalfOpenIsProbed /\ [Next]_vars => HalfOpenIsProbed'
  BY NextProbed
<1> QED
  BY <1>1, <1>2, BreakerTypeCorrect, PTL DEF Spec
=============================================================================
