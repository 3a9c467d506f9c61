--------------------------- MODULE Selection_proofs ---------------------------
(***************************************************************************)
(* What Kept returns: a sequence, of the elements that are in both the     *)
(* sequence and the set; of a concatenation, the concatenation.            *)
(***************************************************************************)
EXTENDS Selection, FiniteSetTheorems, WellFoundedInduction, TLAPS

\* A set of naturals that is not empty has a least element.
LEMMA LeastNat ==
  ASSUME NEW T, T \subseteq Nat, T # {}
  PROVE  \E x \in T : \A y \in T : x <= y
<1>1. IsWellFoundedOn(OpToRel(<, Nat), Nat)
  BY NatLessThanWellFounded
<1>2. PICK x \in T : \A y \in T : <<y, x>> \notin OpToRel(<, Nat)
  BY <1>1, WFMin, Zenon
<1>3. \A y \in T : ~(y < x)
  BY <1>2 DEF OpToRel
<1> QED BY <1>3

LEMMA UptoFinite ==
  ASSUME NEW n \in Nat, NEW places \in SUBSET (1..n), NEW i
  PROVE  /\ IsFiniteSet({j \in places : j <= i})
         /\ Rank(places, i) \in Nat
<1>1. \A a, b \in Int : IsFiniteSet(a..b)  BY FS_Interval
<1>2. IsFiniteSet(1..n)  BY <1>1
<1>3. {j \in places : j <= i} \subseteq 1..n  OBVIOUS
<1>4. IsFiniteSet({j \in places : j <= i})  BY <1>2, <1>3, FS_Subset
<1> QED  BY <1>4, FS_CardinalityType DEF Rank

LEMMA PlacesFinite ==
  ASSUME NEW n \in Nat, NEW places \in SUBSET (1..n)
  PROVE  /\ IsFiniteSet(places) /\ Cardinality(places) \in Nat /\ Cardinality(places) <= n
         /\ Rank(places, n) = Cardinality(places)
         /\ Rank(places, 0) = 0
<1>1. \A a, b \in Int : /\ IsFiniteSet(a..b)
                        /\ Cardinality(a..b) = IF a > b THEN 0 ELSE b - a + 1
  BY FS_Interval
<1>2. IsFiniteSet(1..n) /\ Cardinality(1..n) = n  BY <1>1
<1>3. IsFiniteSet(places) /\ Cardinality(places) <= n  BY <1>2, FS_Subset
<1>4. {j \in places : j <= n} = places
  <2>1. \A j \in places : j <= n  OBVIOUS
  <2> QED  BY <2>1, Zenon
<1>5. {j \in places : j <= 0} = {}
  <2>1. \A j \in places : ~(j <= 0)  OBVIOUS
  <2> QED  BY <2>1, Zenon
<1> QED  BY <1>3, <1>4, <1>5, FS_CardinalityType, FS_EmptySet DEF Rank

\* A place counts one more than what comes before it.
LEMMA RankStep ==
  ASSUME NEW n \in Nat, NEW places \in SUBSET (1..n), NEW i \in Nat \ {0}
  PROVE  Rank(places, i) = Rank(places, i - 1) + (IF i \in places THEN 1 ELSE 0)
<1> DEFINE before == {j \in places : j <= i - 1}
           upto == {j \in places : j <= i}
<1>1. IsFiniteSet(before)  BY UptoFinite
<1>2. /\ \A j \in places : j <= i <=> j <= i - 1 \/ j = i
      /\ ~(i <= i - 1) /\ i <= i
  OBVIOUS
<1>3. CASE i \in places
  <2>1. upto = before \cup {i} /\ i \notin before  BY <1>2, <1>3, Zenon
  <2>2. Cardinality(before \cup {i}) = Cardinality(before) + 1  BY <1>1, <2>1, FS_AddElement
  <2> QED  BY <1>3, <2>1, <2>2 DEF Rank
<1>4. CASE i \notin places
  <2>1. upto = before  BY <1>2, <1>4, Zenon
  <2>2. Rank(places, i - 1) \in Nat  BY UptoFinite
  <2>3. Rank(places, i) = Rank(places, i - 1)  BY <2>1 DEF Rank
  <2> QED  BY <1>4, <2>2, <2>3
<1> QED  BY <1>3, <1>4

LEMMA RankGrows ==
  ASSUME NEW n \in Nat, NEW places \in SUBSET (1..n), NEW i \in Nat, NEW j \in Nat, i <= j
  PROVE  Rank(places, i) <= Rank(places, j)
<1>1. {k \in places : k <= i} \subseteq {k \in places : k <= j}
  <2>1. \A k \in places : k <= i => k <= j  OBVIOUS
  <2> QED  BY <2>1, Zenon
<1>2. IsFiniteSet({k \in places : k <= j})  BY UptoFinite
<1>3. Cardinality({k \in places : k <= i}) <= Cardinality({k \in places : k <= j})
  BY <1>1, <1>2, FS_Subset
<1> QED  BY <1>3 DEF Rank

\* Ranks of places are 1, 2, 3, up to their number.
LEMMA RankOfPlace ==
  ASSUME NEW n \in Nat, NEW places \in SUBSET (1..n), NEW i \in places
  PROVE  Rank(places, i) \in 1..Cardinality(places)
<1>1. i \in Nat \ {0} /\ i - 1 \in Nat /\ i <= n  OBVIOUS
<1>2. Rank(places, i) = Rank(places, i - 1) + 1  BY <1>1, RankStep
<1>3. Rank(places, i - 1) \in Nat  BY UptoFinite
<1>4. Rank(places, i) <= Rank(places, n)  BY <1>1, RankGrows
<1>5. Rank(places, n) = Cardinality(places) /\ Cardinality(places) \in Nat  BY PlacesFinite
<1> QED  BY <1>2, <1>3, <1>4, <1>5

LEMMA RankIsOne ==
  ASSUME NEW n \in Nat, NEW places \in SUBSET (1..n), NEW i \in places, NEW j \in places,
         Rank(places, i) = Rank(places, j)
  PROVE  i = j
<1>1. ASSUME NEW a \in places, NEW b \in places, a < b
      PROVE  Rank(places, a) # Rank(places, b)
  <2>1. a \in Nat /\ b \in Nat \ {0} /\ b - 1 \in Nat /\ a <= b - 1  BY <1>1
  <2>2. Rank(places, a) <= Rank(places, b - 1)  BY <2>1, RankGrows
  <2>3. Rank(places, b) = Rank(places, b - 1) + 1  BY <2>1, RankStep
  <2>4. Rank(places, a) \in Nat /\ Rank(places, b - 1) \in Nat  BY UptoFinite
  <2> QED  BY <2>2, <2>3, <2>4
<1>2. i \in Nat /\ j \in Nat  OBVIOUS
<1> QED  BY <1>1, <1>2

LEMMA RankIsHit ==
  ASSUME NEW n \in Nat, NEW places \in SUBSET (1..n), NEW k \in 1..Cardinality(places)
  PROVE  \E i \in places : Rank(places, i) = k
<1> DEFINE reach == {i \in Nat : Rank(places, i) >= k}
<1>1. n \in reach /\ 0 \notin reach  BY PlacesFinite
<1>2. PICK i \in reach : \A j \in reach : i <= j  BY <1>1, LeastNat
<1>3. i \in Nat \ {0} /\ i - 1 \in Nat /\ i - 1 \notin reach  BY <1>1, <1>2
<1>4. Rank(places, i) >= k /\ ~ (Rank(places, i - 1) >= k)  BY <1>3
<1>5. Rank(places, i) = Rank(places, i - 1) + (IF i \in places THEN 1 ELSE 0)  BY <1>3, RankStep
<1>6. Rank(places, i) \in Nat /\ Rank(places, i - 1) \in Nat  BY UptoFinite
<1>7. k \in Nat  BY PlacesFinite
<1> HIDE DEF reach
<1>8. i \in places /\ Rank(places, i) = k  BY <1>4, <1>5, <1>6, <1>7
<1> QED  BY <1>8

-------------------------------------------------------------------------------
(* What Kept returns.                                                         *)

\* An element that is kept stands at the rank of its place, and there is no other.
LEMMA KeptAt ==
  ASSUME NEW T, NEW s \in Seq(T), NEW S
  PROVE  /\ PlacesIn(s, S) \in SUBSET (1..Len(s))
         /\ Len(s) \in Nat
         /\ Cardinality(PlacesIn(s, S)) \in Nat
         /\ Kept(s, S) \in [1..Cardinality(PlacesIn(s, S)) -> T]
         /\ \A i \in PlacesIn(s, S) :
              /\ Rank(PlacesIn(s, S), i) \in 1..Cardinality(PlacesIn(s, S))
              /\ Kept(s, S)[Rank(PlacesIn(s, S), i)] = s[i]
         /\ \A k \in 1..Cardinality(PlacesIn(s, S)) :
              \E i \in PlacesIn(s, S) : Rank(PlacesIn(s, S), i) = k
<1>1. PICK places : places = PlacesIn(s, S)  OBVIOUS
<1>2. places \in SUBSET (1..Len(s)) /\ Len(s) \in Nat  BY <1>1 DEF PlacesIn
<1>3. Cardinality(places) \in Nat  BY <1>2, PlacesFinite
<1>4. \A k \in 1..Cardinality(places) : \E i \in places : Rank(places, i) = k
  BY <1>2, RankIsHit
<1>5. PICK r : r = Kept(s, S)  OBVIOUS
<1>6. r = [k \in 1..Cardinality(places) |-> s[CHOOSE i \in places : Rank(places, i) = k]]
  BY <1>1, <1>5 DEF Kept
<1>7. \A k \in 1..Cardinality(places) :
        /\ (CHOOSE i \in places : Rank(places, i) = k) \in places
        /\ Rank(places, CHOOSE i \in places : Rank(places, i) = k) = k
  BY <1>4
<1>8. \A i \in places : s[i] \in T  BY <1>2
<1>9. r \in [1..Cardinality(places) -> T]  BY <1>6, <1>7, <1>8
<1>10. ASSUME NEW i \in places
       PROVE  Rank(places, i) \in 1..Cardinality(places) /\ r[Rank(places, i)] = s[i]
  <2>1. PICK k \in 1..Cardinality(places) : k = Rank(places, i)  BY <1>2, RankOfPlace
  <2>2. (CHOOSE j \in places : Rank(places, j) = k) = i  BY <1>2, <1>7, <2>1, RankIsOne
  <2> QED  BY <1>6, <2>1, <2>2
<1> QED  BY <1>1, <1>2, <1>3, <1>4, <1>5, <1>9, <1>10

LEMMA KeptType ==
  ASSUME NEW T, NEW s \in Seq(T), NEW S
  PROVE  /\ Kept(s, S) \in Seq(T)
         /\ Len(Kept(s, S)) = Cardinality(PlacesIn(s, S))
         /\ Len(Kept(s, S)) <= Len(s)
<1>1. PICK r : r = Kept(s, S)  OBVIOUS
<1>2. PICK c \in Nat : c = Cardinality(PlacesIn(s, S))  BY KeptAt
<1>3. r \in [1..c -> T]  BY <1>1, <1>2, KeptAt
<1>4. r \in Seq(T) /\ Len(r) = c  BY <1>3
<1>5. c <= Len(s)
  <2>1. PlacesIn(s, S) \in SUBSET (1..Len(s)) /\ Len(s) \in Nat  BY KeptAt
  <2> QED  BY <1>2, <2>1, PlacesFinite
<1> QED  BY <1>1, <1>2, <1>4, <1>5

\* The elements kept are those of the sequence that are in the set.
LEMMA KeptElements ==
  ASSUME NEW T, NEW s \in Seq(T), NEW S
  PROVE  /\ \A k \in 1..Len(Kept(s, S)) : /\ Kept(s, S)[k] \in S
                                          /\ \E i \in 1..Len(s) : s[i] = Kept(s, S)[k]
         /\ \A i \in 1..Len(s) :
              s[i] \in S => \E k \in 1..Len(Kept(s, S)) : Kept(s, S)[k] = s[i]
<1>1. PICK places : places = PlacesIn(s, S)  OBVIOUS
<1>2. PICK r : r = Kept(s, S)  OBVIOUS
<1>3. Len(r) = Cardinality(places)  BY <1>1, <1>2, KeptType
<1>4. \A i \in places : Rank(places, i) \in 1..Len(r) /\ r[Rank(places, i)] = s[i]
  BY <1>1, <1>2, <1>3, KeptAt
<1>5. \A k \in 1..Len(r) : \E i \in places : Rank(places, i) = k  BY <1>1, <1>3, KeptAt
<1>6. places = {i \in 1..Len(s) : s[i] \in S}  BY <1>1 DEF PlacesIn
<1>7. \A k \in 1..Len(r) : \E i \in places : s[i] = r[k]  BY <1>4, <1>5
<1> QED  BY <1>2, <1>4, <1>6, <1>7

LEMMA KeptAll ==
  ASSUME NEW T, NEW s \in Seq(T), NEW S, \A i \in 1..Len(s) : s[i] \in S
  PROVE  Kept(s, S) = s
<1>1. PICK n \in Nat : n = Len(s)  OBVIOUS
<1>2. PlacesIn(s, S) = 1..n  BY <1>1 DEF PlacesIn
<1>3. \A i \in 1..n : Rank(1..n, i) = i
  <2>1. TAKE i \in 1..n
  <2>2. \A j \in 1..n : j <= i <=> j \in 1..i  OBVIOUS
  <2>3. \A j \in 1..i : j \in 1..n  OBVIOUS
  <2>4. {j \in 1..n : j <= i} = 1..i  BY <2>2, <2>3, Zenon
  <2>5. \A a, b \in Int : Cardinality(a..b) = IF a > b THEN 0 ELSE b - a + 1  BY FS_Interval
  <2>6. Cardinality(1..i) = i  BY <2>5
  <2> QED  BY <2>4, <2>6 DEF Rank
<1>4. \A a, b \in Int : Cardinality(a..b) = IF a > b THEN 0 ELSE b - a + 1  BY FS_Interval
<1>5. Cardinality(1..n) = n  BY <1>4
<1>6. PICK r : r = Kept(s, S)  OBVIOUS
<1>7. r \in [1..n -> T] /\ \A i \in 1..n : r[Rank(1..n, i)] = s[i]
  <2>1. PICK places : places = PlacesIn(s, S)  OBVIOUS
  <2>2. /\ r \in [1..Cardinality(places) -> T]
        /\ \A i \in places : r[Rank(places, i)] = s[i]
    BY <1>6, <2>1, KeptAt
  <2>3. places = 1..n  BY <1>2, <2>1
  <2> QED  BY <1>5, <2>2, <2>3
<1>8. \A i \in 1..n : r[i] = s[i]  BY <1>3, <1>7
<1>9. s \in [1..n -> T]  BY <1>1
<1> QED  BY <1>6, <1>7, <1>8, <1>9

LEMMA KeptNone ==
  ASSUME NEW T, NEW s \in Seq(T), NEW S, \A i \in 1..Len(s) : s[i] \notin S
  PROVE  Kept(s, S) = <<>>
<1>1. PlacesIn(s, S) = {}  BY DEF PlacesIn
<1>2. Cardinality({}) = 0  BY FS_EmptySet
<1>3. Kept(s, S) \in Seq(T) /\ Len(Kept(s, S)) = 0  BY <1>1, <1>2, KeptType
<1> QED  BY <1>3

\* The ranks of the places of a concatenation.
LEMMA RankShift ==
  ASSUME NEW m \in Nat, NEW n \in Nat, NEW P \in SUBSET (1..m), NEW Q \in SUBSET (1..n),
         NEW R \in SUBSET (1..(m + n)),
         \A i \in 1..m : i \in R <=> i \in P,
         \A i \in 1..n : m + i \in R <=> i \in Q
  PROVE  /\ \A i \in 1..m : Rank(R, i) = Rank(P, i)
         /\ \A i \in 0..n : Rank(R, m + i) = Cardinality(P) + Rank(Q, i)
<1>1. ASSUME NEW i \in 1..m
      PROVE  Rank(R, i) = Rank(P, i)
  <2>1. \A j \in R : j <= i => j \in 1..m  BY <1>1
  <2>2. \A j \in P : j \in 1..m  OBVIOUS
  <2>3. {j \in R : j <= i} = {j \in P : j <= i}  BY <2>1, <2>2, Zenon
  <2> QED  BY <2>3 DEF Rank
<1>2. ASSUME NEW i \in 0..n
      PROVE  Rank(R, m + i) = Cardinality(P) + Rank(Q, i)
  <2> DEFINE early == {j \in Q : j <= i}
             late == {j \in R : m < j /\ j <= m + i}
             f == [j \in early |-> m + j]
  <2>1. IsFiniteSet(early) /\ Rank(Q, i) \in Nat  BY UptoFinite
  <2>2. f \in [early -> late]
    <3>1. \A j \in early : m + j \in late
      <4>1. TAKE j \in early
      <4>2. j \in 1..n /\ j \in Q /\ j <= i  OBVIOUS
      <4> QED  BY <1>2, <4>2
    <3> QED  BY <3>1
  <2>3. \A a, b \in early : f[a] = f[b] => a = b
    <3>1. \A a \in early : a \in Nat  OBVIOUS
    <3> QED  BY <3>1
  <2>4. \A y \in late : \E j \in early : f[j] = y
    <3>1. TAKE y \in late
    <3>2. y \in 1..(m + n) /\ y \in R /\ m < y /\ y <= m + i  OBVIOUS
    <3>3. y - m \in 1..n /\ m + (y - m) = y /\ y - m <= i  BY <1>2, <3>2
    <3>4. y - m \in early  BY <3>2, <3>3
    <3> QED  BY <3>3, <3>4
  <2> HIDE DEF f, early, late
  <2>5. f \in Bijection(early, late)
    BY <2>2, <2>3, <2>4 DEF Bijection, Injection, Surjection, IsInjective
  <2>6. IsFiniteSet(late) /\ Cardinality(late) = Rank(Q, i)
    <3>1. Cardinality(early) = Rank(Q, i)  BY DEF Rank, early
    <3> QED  BY <2>1, <2>5, <3>1, FS_Bijection DEF ExistsBijection
  <2>7. IsFiniteSet(P) /\ Cardinality(P) \in Nat  BY PlacesFinite
  <2>8. {j \in R : j <= m + i} = P \cup late /\ P \cap late = {}
    <3>1. \A j \in P : j \in 1..m /\ j \in R /\ j <= m + i /\ ~(m < j)  BY <1>2
    <3>2. \A j \in R : ~(m < j) => j \in 1..m  OBVIOUS
    <3> QED  BY <3>1, <3>2, Zenon DEF late
  <2>9. Cardinality(P \cup late) = Cardinality(P) + Cardinality(late) - Cardinality({})
    BY <2>6, <2>7, <2>8, FS_Union
  <2>10. Cardinality({}) = 0  BY FS_EmptySet
  <2>11. Rank(R, m + i) = Cardinality(P \cup late)  BY <2>8 DEF Rank
  <2> QED  BY <2>1, <2>6, <2>7, <2>9, <2>10, <2>11
<1> QED  BY <1>1, <1>2

LEMMA KeptConcat ==
  ASSUME NEW T, NEW s \in Seq(T), NEW t \in Seq(T), NEW S
  PROVE  Kept(s \o t, S) = Kept(s, S) \o Kept(t, S)
<1>1. PICK m \in Nat, n \in Nat : m = Len(s) /\ n = Len(t)  OBVIOUS
<1>2. PICK st : st = s \o t  OBVIOUS
<1>3. /\ st \in Seq(T) /\ Len(st) = m + n
      /\ \A i \in 1..m : st[i] = s[i]
      /\ \A i \in 1..n : st[m + i] = t[i]
  BY <1>1, <1>2
<1>4. PICK P, Q, R : P = PlacesIn(s, S) /\ Q = PlacesIn(t, S) /\ R = PlacesIn(st, S)  OBVIOUS
<1>5. PICK a, b, ab : a = Kept(s, S) /\ b = Kept(t, S) /\ ab = Kept(st, S)  OBVIOUS
<1>6. /\ P \in SUBSET (1..m) /\ Cardinality(P) \in Nat
      /\ a \in [1..Cardinality(P) -> T]
      /\ \A i \in P : Rank(P, i) \in 1..Cardinality(P) /\ a[Rank(P, i)] = s[i]
  BY <1>1, <1>4, <1>5, KeptAt
<1>7. /\ Q \in SUBSET (1..n) /\ Cardinality(Q) \in Nat
      /\ b \in [1..Cardinality(Q) -> T]
      /\ \A i \in Q : Rank(Q, i) \in 1..Cardinality(Q) /\ b[Rank(Q, i)] = t[i]
  BY <1>1, <1>4, <1>5, KeptAt
<1>8. /\ R \in SUBSET (1..(m + n))
      /\ ab \in [1..Cardinality(R) -> T]
      /\ \A i \in R : ab[Rank(R, i)] = st[i]
      /\ \A k \in 1..Cardinality(R) : \E i \in R : Rank(R, i) = k
  BY <1>3, <1>4, <1>5, KeptAt
<1>9. \A i \in 1..m : i \in R <=> i \in P  BY <1>1, <1>3, <1>4 DEF PlacesIn
<1>10. \A i \in 1..n : m + i \in R <=> i \in Q  BY <1>1, <1>3, <1>4 DEF PlacesIn
<1>11. /\ \A i \in 1..m : Rank(R, i) = Rank(P, i)
       /\ \A i \in 0..n : Rank(R, m + i) = Cardinality(P) + Rank(Q, i)
  BY <1>6, <1>7, <1>8, <1>9, <1>10, RankShift
<1>12. Cardinality(R) = Cardinality(P) + Cardinality(Q)
  <2>1. Rank(R, m + n) = Cardinality(R)
    <3>1. m + n \in Nat  OBVIOUS
    <3> QED  BY <1>8, <3>1, PlacesFinite
  <2>2. Rank(Q, n) = Cardinality(Q)  BY <1>7, PlacesFinite
  <2>3. n \in 0..n  OBVIOUS
  <2> QED  BY <1>11, <2>1, <2>2, <2>3
<1>13. PICK p \in Nat, q \in Nat : p = Cardinality(P) /\ q = Cardinality(Q)  BY <1>6, <1>7
<1>14. a \in Seq(T) /\ Len(a) = p /\ b \in Seq(T) /\ Len(b) = q
  <2>1. a \in [1..p -> T] /\ b \in [1..q -> T]  BY <1>6, <1>7, <1>13
  <2> QED  BY <2>1
<1>15. PICK c : c = a \o b  OBVIOUS
<1>16. /\ c \in [1..(p + q) -> T]
       /\ \A k \in 1..p : c[k] = a[k]
       /\ \A k \in 1..q : c[p + k] = b[k]
  <2>1. c \in Seq(T) /\ Len(c) = p + q
    <3>1. a \in Seq(T) /\ b \in Seq(T)  BY <1>14
    <3>2. a \o b \in Seq(T) /\ Len(a \o b) = Len(a) + Len(b)  BY <3>1
    <3> QED  BY <1>14, <1>15, <3>2
  <2>2. c \in [1..(p + q) -> T]  BY <2>1
  <2>3. \A k \in 1..p : c[k] = a[k]  BY <1>14, <1>15
  <2>4. \A k \in 1..q : c[p + k] = b[k]  BY <1>14, <1>15
  <2> QED  BY <2>2, <2>3, <2>4
<1>17. ab \in [1..(p + q) -> T]  BY <1>8, <1>12, <1>13
<1>18. ASSUME NEW k \in 1..(p + q)
       PROVE  ab[k] = c[k]
  <2>1. PICK i \in R : Rank(R, i) = k  BY <1>8, <1>12, <1>13, <1>18
  <2>2. ab[k] = st[i] /\ i \in 1..(m + n)  BY <1>8, <2>1
  <2>3. CASE i \in 1..m
    <3>1. i \in P /\ Rank(P, i) = k  BY <1>9, <1>11, <2>1, <2>3
    <3> QED  BY <1>3, <1>6, <1>13, <1>16, <2>2, <2>3, <3>1
  <2>4. CASE i \notin 1..m
    <3>1. i - m \in 1..n /\ i = m + (i - m)  BY <2>2, <2>4
    <3>2. PICK j \in 1..n : i = m + j  BY <3>1
    <3>3. j \in Q /\ j \in 0..n  BY <1>10, <2>1, <3>2
    <3>4. k = Cardinality(P) + Rank(Q, j)  BY <1>11, <2>1, <3>2, <3>3
    <3>5. st[i] = t[j]  BY <1>3, <3>2
    <3>6. Rank(Q, j) \in 1..q /\ b[Rank(Q, j)] = t[j]  BY <1>7, <1>13, <3>3
    <3>7. c[p + Rank(Q, j)] = t[j]  BY <1>16, <3>6
    <3> QED  BY <1>13, <2>2, <3>4, <3>5, <3>7
  <2> QED  BY <2>3, <2>4
<1>19. ab = c
  <2>1. c \in [1..(p + q) -> T]  BY <1>16
  <2> QED  BY <2>1, <1>17, <1>18
<1> QED  BY <1>2, <1>5, <1>15, <1>19

NoRepeats(s) == \A i, j \in 1..Len(s) : s[i] = s[j] => i = j

\* What had no element twice keeps none twice.
LEMMA KeptNoRepeats ==
  ASSUME NEW T, NEW s \in Seq(T), NEW S, NoRepeats(s)
  PROVE  NoRepeats(Kept(s, S))
<1>1. PICK places : places = PlacesIn(s, S)  OBVIOUS
<1>2. PICK r : r = Kept(s, S)  OBVIOUS
<1>3. Len(r) = Cardinality(places)  BY <1>1, <1>2, KeptType
<1>4. \A i \in places : Rank(places, i) \in 1..Len(r) /\ r[Rank(places, i)] = s[i]
  BY <1>1, <1>2, <1>3, KeptAt
<1>5. \A k \in 1..Len(r) : \E i \in places : Rank(places, i) = k  BY <1>1, <1>3, KeptAt
<1>6. places \subseteq 1..Len(s)  BY <1>1 DEF PlacesIn
<1>7. \A i, j \in places : s[i] = s[j] => i = j  BY <1>6 DEF NoRepeats
<1>8. SUFFICES ASSUME NEW k \in 1..Len(r), NEW l \in 1..Len(r), r[k] = r[l]
               PROVE  k = l
  BY <1>2 DEF NoRepeats
<1>9. PICK i \in places, j \in places : Rank(places, i) = k /\ Rank(places, j) = l  BY <1>5
<1>10. s[i] = s[j]  BY <1>4, <1>8, <1>9
<1> QED  BY <1>7, <1>9, <1>10
===============================================================================
