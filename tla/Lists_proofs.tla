---------------------------- MODULE Lists_proofs ----------------------------
(***************************************************************************)
(* What the list operators compute, for lists of any length: sorting and   *)
(* filtering, folding and flattening.                             *)
(***************************************************************************)
EXTENDS Lists, SequencesExt, FiniteSetTheorems, SequenceTheorems, TLAPS

-----------------------------------------------------------------------------
(* Induction, as facts about sets of numbers *)

(* A set of naturals has a least element.                                   *)
LEMMA LeastElement ==
  ASSUME NEW I \in SUBSET Nat, I # {}
  PROVE  \E m \in I : \A k \in I : m <= k
<1> DEFINE R == OpToRel(<, Nat)
<1>1. IsWellFoundedOn(R, Nat)
  BY NatLessThanWellFounded
<1>2. \A a, b \in Nat : <<a, b>> \in R <=> a < b
  BY DEF OpToRel
<1> HIDE DEF R
<1>3. PICK m \in I : \A k \in I : ~(<<k, m>> \in R)
  BY <1>1, WFMin
<1>4. \A k \in I : ~(k < m)
  BY <1>2, <1>3
<1>5. \A k \in I : m <= k
  BY <1>4
<1> QED
  BY <1>5

(* Induction up to a bound: T is the set of the numbers it holds for.       *)
LEMMA InductionUpTo ==
  ASSUME NEW N \in Nat, NEW T, 0 \in T,
         \A n \in 1..N : n - 1 \in T => n \in T
  PROVE  0..N \subseteq T
<1> SUFFICES ASSUME (0..N) \ T # {}
             PROVE  FALSE
  OBVIOUS
<1>0. (0..N) \ T \in SUBSET Nat
  OBVIOUS
<1>1. PICK m \in (0..N) \ T : \A k \in (0..N) \ T : m <= k
  BY <1>0, LeastElement, Zenon
<1>2. m \in 1..N /\ m - 1 \in 0..N /\ ~(m <= m - 1)
  BY <1>1
<1>3. m - 1 \in T
  BY <1>1, <1>2
<1> QED
  BY <1>1, <1>2, <1>3

(* The numbers 1..n are n.                                                  *)
LEMMA CountUpTo ==
  ASSUME NEW n \in Nat
  PROVE  IsFiniteSet(1..n) /\ Cardinality(1..n) = n
<1>1. 1 \in Int /\ n \in Int
  OBVIOUS
<1>2. IsFiniteSet(1..n) /\ Cardinality(1..n) = IF 1 > n THEN 0 ELSE n - 1 + 1
  BY <1>1, FS_Interval
<1> HIDE DEF Cardinality
<1> QED
  BY <1>2

(* Sets without a common member add up.                                     *)
LEMMA DisjointUnion ==
  ASSUME NEW P, NEW Q, IsFiniteSet(P), IsFiniteSet(Q), P \cap Q = {}
  PROVE  Cardinality(P \cup Q) = Cardinality(P) + Cardinality(Q)
<1>1. Cardinality(P \cup Q) = Cardinality(P) + Cardinality(Q) - Cardinality(P \cap Q)
  BY FS_Union
<1>2. Cardinality(P \cap Q) = 0
  BY FS_EmptySet
<1>3. Cardinality(P) \in Nat /\ Cardinality(Q) \in Nat
  BY FS_CardinalityType
<1> QED
  BY <1>1, <1>2, <1>3

-----------------------------------------------------------------------------
(* Lists *)

\* t is s with x at its end.
IsGrown(V, s, x, t) ==
  /\ Len(s) \in Nat /\ DOMAIN s = 1..Len(s)
  /\ s = <<>> <=> Len(s) = 0
  /\ t \in Seq(V) /\ t # <<>>
  /\ Len(t) = Len(s) + 1 /\ DOMAIN t = 1..(Len(s) + 1)
  /\ t[Len(s) + 1] = x
  /\ \A n \in 1..Len(s) : t[n] = s[n]
  /\ s # <<>> => t[1] = s[1]

(* A list with one more element at its end.                                 *)
LEMMA AppendLemma ==
  ASSUME NEW V, NEW s \in Seq(V), NEW x \in V
  PROVE  IsGrown(V, s, x, Append(s, x))
<1>1. /\ Len(s) \in Nat /\ DOMAIN s = 1..Len(s) /\ (s = <<>> <=> Len(s) = 0)
      /\ Append(s, x) \in Seq(V) /\ Len(Append(s, x)) = Len(s) + 1
      /\ DOMAIN Append(s, x) = 1..(Len(s) + 1)
  OBVIOUS
<1>2. Append(s, x)[Len(s) + 1] = x /\ \A n \in 1..Len(s) : Append(s, x)[n] = s[n]
  OBVIOUS
<1>3. Append(s, x) # <<>>
  BY AppendProperties
<1>4. s # <<>> => 1 \in 1..Len(s)
  BY <1>1
<1> QED
  BY <1>1, <1>2, <1>3, <1>4 DEF IsGrown

(* Concatenation and one more element.                                      *)
LEMMA ConcatLemma ==
  ASSUME NEW V, NEW r \in Seq(V), NEW s \in Seq(V), NEW x \in V
  PROVE  /\ r \o s \in Seq(V) /\ <<>> \o r = r /\ r \o <<>> = r
         /\ r \o Append(s, x) = Append(r \o s, x) /\ r \o <<x>> = Append(r, x)
<1>1. r \o s \in Seq(V) /\ <<>> \o r = r /\ r \o <<>> = r
  OBVIOUS
<1>2. r \o Append(s, x) = Append(r \o s, x)
  <2>1. Append(s, x) = s \o <<x>> /\ Append(r \o s, x) = (r \o s) \o <<x>> /\ <<x>> \in Seq(V)
    BY <1>1, AppendIsConcat
  <2>2. (r \o s) \o <<x>> = r \o (s \o <<x>>)
    BY <2>1, ConcatAssociative
  <2> QED
    BY <2>1, <2>2
<1>3. r \o <<x>> = Append(r, x)
  OBVIOUS
<1> QED
  BY <1>1, <1>2, <1>3

(* The beginnings of a list.                                                *)
LEMMA SubSeqGrows ==
  ASSUME NEW V, NEW s \in Seq(V), NEW n \in 1..Len(s)
  PROVE  /\ SubSeq(s, 1, 0) = <<>> /\ SubSeq(s, 1, Len(s)) = s
         /\ SubSeq(s, 1, n) = Append(SubSeq(s, 1, n - 1), s[n])
         /\ SubSeq(s, 1, n - 1) \in Seq(V)
<1>1. SubSeq(s, 1, 0) = <<>> /\ SubSeq(s, 1, Len(s)) = s
  OBVIOUS
<1>2. SubSeq(s, 1, n - 1) \in Seq(V)
  OBVIOUS
<1>3. SubSeq(s, 1, n) = Append(SubSeq(s, 1, n - 1), s[n])
  OBVIOUS
<1> QED
  BY <1>1, <1>2, <1>3

(* A list of members of a set is one of members of any larger set.          *)
LEMMA SeqMono ==
  ASSUME NEW A, NEW B, A \subseteq B, NEW s \in Seq(A)
  PROVE  s \in Seq(B)
<1>1. Len(s) \in Nat /\ s \in [1..Len(s) -> A]
  OBVIOUS
<1>2. s \in [1..Len(s) -> B]
  BY <1>1
<1> QED
  BY <1>1, <1>2

(* A concatenation has the elements of both lists, each once if neither has *)
(* one twice and they have none in common.                                  *)
LEMMA ConcatMembers ==
  ASSUME NEW V, NEW s \in Seq(V), NEW t \in Seq(V)
  PROVE  /\ s \o t \in Seq(V) /\ ToSet(s \o t) = ToSet(s) \cup ToSet(t)
         /\ IsInjective(s) /\ IsInjective(t) /\ ToSet(s) \cap ToSet(t) = {} => IsInjective(s \o t)
<1> DEFINE r == s \o t
<1>1. /\ Len(s) \in Nat /\ Len(t) \in Nat /\ r \in Seq(V)
      /\ DOMAIN s = 1..Len(s) /\ DOMAIN t = 1..Len(t) /\ DOMAIN r = 1..(Len(s) + Len(t))
      /\ \A i \in 1..Len(s) : r[i] = s[i]
      /\ \A i \in 1..Len(t) : r[Len(s) + i] = t[i]
      /\ \A i \in 1..(Len(s) + Len(t)) : i > Len(s) => r[i] = t[i - Len(s)]
  OBVIOUS
<1> HIDE DEF r
<1>2. ASSUME NEW i \in DOMAIN r
      PROVE  \/ i \in DOMAIN s /\ r[i] = s[i]
             \/ i - Len(s) \in DOMAIN t /\ r[i] = t[i - Len(s)]
  <2>1. CASE i <= Len(s)
    BY <1>1, <2>1
  <2>2. CASE i > Len(s)
    BY <1>1, <2>2
  <2> QED
    BY <1>1, <2>1, <2>2
<1>3. \A i \in DOMAIN s : i \in DOMAIN r
  BY <1>1
<1>4. \A i \in DOMAIN t : Len(s) + i \in DOMAIN r
  BY <1>1
<1>5. ToSet(r) = ToSet(s) \cup ToSet(t)
  <2>1. \A x \in ToSet(s) : x \in ToSet(r)
    BY <1>1, <1>3 DEF ToSet
  <2>2. \A x \in ToSet(t) : x \in ToSet(r)
    BY <1>1, <1>4 DEF ToSet
  <2>3. \A x \in ToSet(r) : x \in ToSet(s) \cup ToSet(t)
    BY <1>2 DEF ToSet
  <2> QED
    BY <2>1, <2>2, <2>3
<1>6. ASSUME IsInjective(s), IsInjective(t), ToSet(s) \cap ToSet(t) = {}
      PROVE  IsInjective(r)
  <2>1. \A i \in DOMAIN s, j \in DOMAIN t : s[i] # t[j]
    BY <1>6 DEF ToSet
  <2> SUFFICES ASSUME NEW i \in DOMAIN r, NEW j \in DOMAIN r, r[i] = r[j]
               PROVE  i = j
    BY DEF IsInjective
  <2>2. i \in Int /\ j \in Int
    BY <1>1
  <2>3. CASE i \in DOMAIN s /\ r[i] = s[i] /\ j \in DOMAIN s /\ r[j] = s[j]
    BY <1>6, <2>3 DEF IsInjective
  <2>4. CASE i - Len(s) \in DOMAIN t /\ r[i] = t[i - Len(s)] /\ j - Len(s) \in DOMAIN t /\ r[j] = t[j - Len(s)]
    <3>1. i - Len(s) = j - Len(s)
      BY <1>6, <2>4 DEF IsInjective
    <3> QED
      BY <1>1, <2>2, <3>1
  <2> QED
    BY <1>2, <2>1, <2>3, <2>4
<1> QED
  BY <1>1, <1>5, <1>6 DEF r

\* The elements of a list through a function.
Mapped(g, s) == [k \in DOMAIN s |-> g[s[k]]]

(* One more element is mapped behind what there was.                        *)
LEMMA MapAppend ==
  ASSUME NEW V, NEW W, NEW s \in Seq(V), NEW x \in V, NEW g \in [V -> W]
  PROVE  /\ Mapped(g, s) \in Seq(W) /\ g[x] \in W
         /\ Mapped(g, Append(s, x)) = Append(Mapped(g, s), g[x])
<1> DEFINE t == Append(s, x)
           r == Mapped(g, s)
<1>1. Len(s) \in Nat /\ DOMAIN s = 1..Len(s) /\ \A n \in 1..Len(s) : s[n] \in V
  OBVIOUS
<1>2. IsGrown(V, s, x, t)
  BY AppendLemma
<1>3. r \in Seq(W) /\ Len(r) = Len(s) /\ \A n \in 1..Len(s) : r[n] = g[s[n]]
  BY <1>1 DEF Mapped
<1>4. g[x] \in W
  OBVIOUS
<1> HIDE DEF r, t
<1>5. IsGrown(W, r, g[x], Append(r, g[x]))
  BY <1>3, <1>4, AppendLemma
<1>6. \A n \in 1..(Len(s) + 1) : n \in 1..Len(s) \/ n = Len(s) + 1
  BY <1>1
<1>7. \A n \in 1..(Len(s) + 1) : g[t[n]] = Append(r, g[x])[n]
  BY <1>2, <1>3, <1>5, <1>6 DEF IsGrown
<1>8. Mapped(g, t) = [n \in 1..(Len(s) + 1) |-> g[t[n]]]
  BY <1>2 DEF Mapped, IsGrown
<1>9. Append(r, g[x]) = [n \in 1..(Len(s) + 1) |-> Append(r, g[x])[n]]
  BY <1>3, <1>4
<1>10. Mapped(g, t) = Append(r, g[x])
  BY <1>7, <1>8, <1>9
<1> QED
  BY <1>3, <1>4, <1>10 DEF t, r

-----------------------------------------------------------------------------
(* Sorting and filtering *)

StrictTotalOrder(S, R) ==
  /\ \A x \in S : <<x, x>> \notin R
  /\ \A x, y, z \in S : <<x, y>> \in R /\ <<y, z>> \in R => <<x, z>> \in R
  /\ \A x, y \in S : x # y => <<x, y>> \in R \/ <<y, x>> \in R

(* How many members come before one tells its place.                        *)
LEMMA PlaceLemma ==
  ASSUME NEW S, IsFiniteSet(S), NEW R, StrictTotalOrder(S, R)
  PROVE  LET c == [x \in S |-> Cardinality({y \in S : <<y, x>> \in R})]
         IN  /\ c \in Bijection(S, 0..(Cardinality(S) - 1))
             /\ \A x, y \in S : <<x, y>> \in R <=> c[x] < c[y]
<1> DEFINE c == [x \in S |-> Cardinality({y \in S : <<y, x>> \in R})]
           D(x) == {y \in S : <<y, x>> \in R}
<1>1. ASSUME NEW x \in S
      PROVE  IsFiniteSet(D(x)) /\ c[x] = Cardinality(D(x)) /\ c[x] \in Nat /\ c[x] < Cardinality(S)
  <2>1. IsFiniteSet(D(x)) /\ Cardinality(D(x)) <= Cardinality(S)
        /\ (Cardinality(S) = Cardinality(D(x)) => S = D(x))
    BY FS_Subset
  <2>2. x \notin D(x)
    BY DEF StrictTotalOrder
  <2>3. Cardinality(D(x)) \in Nat /\ Cardinality(S) \in Nat
    BY <2>1, FS_CardinalityType
  <2> HIDE DEF D
  <2>4. Cardinality(D(x)) < Cardinality(S)
    BY <2>1, <2>2, <2>3
  <2>5. c[x] = Cardinality(D(x))
    BY DEF D
  <2> HIDE DEF c
  <2> QED
    BY <2>1, <2>3, <2>4, <2>5
<1>2. ASSUME NEW x \in S, NEW y \in S, <<x, y>> \in R
      PROVE  c[x] < c[y]
  <2>1. D(x) \subseteq D(y) /\ x \in D(y) /\ x \notin D(x)
    BY <1>2 DEF StrictTotalOrder
  <2> HIDE DEF D, c
  <2>2. Cardinality(D(x)) <= Cardinality(D(y)) /\ Cardinality(D(x)) # Cardinality(D(y))
    BY <1>1, <2>1, FS_Subset
  <2> QED
    BY <1>1, <2>2
<1> HIDE DEF c, D
<1>2a. \A x \in S : c[x] \in Nat /\ c[x] < Cardinality(S)
  BY <1>1
<1>2b. \A x, y \in S : <<x, y>> \in R => c[x] < c[y]
  BY <1>2
<1>3. \A x, y \in S : <<x, y>> \in R <=> c[x] < c[y]
  <2> SUFFICES ASSUME NEW x \in S, NEW y \in S, c[x] < c[y]
               PROVE  <<x, y>> \in R
    BY <1>2
  <2>1. x # y /\ ~(c[y] < c[x])
    BY <1>2a
  <2> QED
    BY <1>2b, <2>1 DEF StrictTotalOrder
<1>4. c \in Injection(S, 0..(Cardinality(S) - 1))
  <2>1. Cardinality(S) \in Nat
    BY FS_CardinalityType
  <2>2. \A x \in S : c[x] \in 0..(Cardinality(S) - 1)
    BY <1>2a, <2>1
  <2>3. c \in [S -> 0..(Cardinality(S) - 1)]
    BY <2>2 DEF c
  <2>4. \A x, y \in S : c[x] = c[y] => x = y
    <3> SUFFICES ASSUME NEW x \in S, NEW y \in S, x # y
                 PROVE  c[x] # c[y]
      OBVIOUS
    <3>1. c[x] < c[y] \/ c[y] < c[x]
      BY <1>2b DEF StrictTotalOrder
    <3> QED
      BY <1>2a, <3>1
  <2> QED
    BY <2>3, <2>4 DEF Injection, IsInjective
<1>5. c \in Surjection(S, 0..(Cardinality(S) - 1))
  <2>1. Cardinality(S) \in Nat
    BY FS_CardinalityType
  <2>2. IsFiniteSet(0..(Cardinality(S) - 1)) /\ Cardinality(0..(Cardinality(S) - 1)) = Cardinality(S)
    BY <2>1, FS_Interval
  <2> QED
    BY <1>4, <2>2, FS_Injection
<1> QED
  BY <1>3, <1>4, <1>5 DEF Bijection, c

(* Arrange lists every member of the set once, in order.                    *)
LEMMA ArrangeLemma ==
  ASSUME NEW S, IsFiniteSet(S), NEW R, StrictTotalOrder(S, R)
  PROVE  /\ Cardinality(S) \in Nat
         /\ Arrange(S, R) \in [1..Cardinality(S) -> S]
         /\ \A n \in 1..Cardinality(S) :
              Cardinality({y \in S : <<y, Arrange(S, R)[n]>> \in R}) = n - 1
         /\ \A x \in S : \E n \in 1..Cardinality(S) : Arrange(S, R)[n] = x
         /\ \A m, n \in 1..Cardinality(S) :
              m < n <=> <<Arrange(S, R)[m], Arrange(S, R)[n]>> \in R
<1> DEFINE c == [x \in S |-> Cardinality({y \in S : <<y, x>> \in R})]
           N == Cardinality(S)
           A == Arrange(S, R)
<1>1. N \in Nat
  BY FS_CardinalityType
<1>2. /\ c \in Bijection(S, 0..(N - 1))
      /\ \A x, y \in S : <<x, y>> \in R <=> c[x] < c[y]
  BY PlaceLemma
<1>3. A = [n \in 1..N |-> CHOOSE x \in S : Cardinality({y \in S : <<y, x>> \in R}) = n - 1]
  BY DEF Arrange
<1>11. \A x \in S : c[x] = Cardinality({y \in S : <<y, x>> \in R})
  OBVIOUS
<1> HIDE DEF c, N, A
<1>4. /\ c \in [S -> 0..(N - 1)]
      /\ \A x, y \in S : c[x] = c[y] => x = y
      /\ \A k \in 0..(N - 1) : \E x \in S : c[x] = k
  BY <1>2 DEF Bijection, Injection, Surjection, IsInjective
<1>5. \A n \in 1..N : \E x \in S : c[x] = n - 1
  <2>1. \A n \in 1..N : n - 1 \in 0..(N - 1)
    BY <1>1
  <2> QED
    BY <1>4, <2>1
<1>6. \A n \in 1..N : A[n] \in S /\ c[A[n]] = n - 1
  <2> SUFFICES ASSUME NEW n \in 1..N
               PROVE  A[n] \in S /\ c[A[n]] = n - 1
    OBVIOUS
  <2>1. A[n] = CHOOSE x \in S : Cardinality({y \in S : <<y, x>> \in R}) = n - 1
    BY <1>3
  <2>2. \E x \in S : Cardinality({y \in S : <<y, x>> \in R}) = n - 1
    BY <1>5, <1>11
  <2>3. A[n] \in S /\ Cardinality({y \in S : <<y, A[n]>> \in R}) = n - 1
    BY <2>1, <2>2, Zenon
  <2> QED
    BY <2>3, <1>11
<1>7. A \in [1..N -> S]
  BY <1>3, <1>6
<1>8. ASSUME NEW x \in S
      PROVE  \E n \in 1..N : A[n] = x
  <2>1. c[x] + 1 \in 1..N /\ (c[x] + 1) - 1 = c[x]
    BY <1>1, <1>4
  <2>2. A[c[x] + 1] \in S /\ c[A[c[x] + 1]] = c[x]
    BY <1>6, <2>1
  <2> QED
    BY <1>4, <2>1, <2>2
<1>9. ASSUME NEW m \in 1..N, NEW n \in 1..N
      PROVE  m < n <=> <<A[m], A[n]>> \in R
  <2>1. m < n <=> c[A[m]] < c[A[n]]
    BY <1>1, <1>6
  <2> QED
    BY <1>2, <1>6, <2>1
<1>10. \A n \in 1..N : Cardinality({y \in S : <<y, A[n]>> \in R}) = n - 1
  BY <1>6, <1>11
<1> QED
  BY <1>1, <1>7, <1>8, <1>9, <1>10 DEF A, N

\* The positions of a list.
PositionSet(K) == K \in SUBSET (Nat \ {0}) /\ IsFiniteSet(K)

(* Ascending lists every number of the set once, the smaller first.         *)
LEMMA AscendingLemma ==
  ASSUME NEW K, PositionSet(K)
  PROVE  /\ Cardinality(K) \in Nat
         /\ Ascending(K) \in [1..Cardinality(K) -> K]
         /\ \A n \in 1..Cardinality(K) : Cardinality({j \in K : j < Ascending(K)[n]}) = n - 1
         /\ \A k \in K : \E n \in 1..Cardinality(K) : Ascending(K)[n] = k
         /\ \A m, n \in 1..Cardinality(K) : m < n <=> Ascending(K)[m] < Ascending(K)[n]
<1> DEFINE R == {e \in K \X K : e[1] < e[2]}
           N == Cardinality(K)
           P == Arrange(K, R)
           A == Ascending(K)
<1>1. \A x, y \in K : <<x, y>> \in R <=> x < y
  OBVIOUS
<1>2. IsFiniteSet(K) /\ K \in SUBSET Int
  BY DEF PositionSet
<1> HIDE DEF R
<1>3. StrictTotalOrder(K, R)
  BY <1>1, <1>2 DEF StrictTotalOrder
<1>4. /\ N \in Nat /\ P \in [1..N -> K]
      /\ \A n \in 1..N : Cardinality({y \in K : <<y, P[n]>> \in R}) = n - 1
      /\ \A x \in K : \E n \in 1..N : P[n] = x
      /\ \A m, n \in 1..N : m < n <=> <<P[m], P[n]>> \in R
  BY <1>2, <1>3, ArrangeLemma
<1>5. \A x \in K : {y \in K : <<y, x>> \in R} = {y \in K : y < x}
  BY <1>1
<1>6. \A n \in 1..N : P[n] = CHOOSE x \in K : Cardinality({y \in K : <<y, x>> \in R}) = n - 1
  BY DEF Arrange
<1>7. \A n \in 1..N : A[n] = CHOOSE x \in K : Cardinality({y \in K : y < x}) = n - 1
  BY DEF Ascending
<1>8. \A n \in 1..N : (CHOOSE x \in K : Cardinality({y \in K : <<y, x>> \in R}) = n - 1)
                      = (CHOOSE x \in K : Cardinality({y \in K : y < x}) = n - 1)
  BY <1>5
<1>9. A = [n \in 1..N |-> CHOOSE x \in K : Cardinality({y \in K : y < x}) = n - 1]
  BY DEF Ascending
<1> HIDE DEF P, N, A
<1>10. \A n \in 1..N : A[n] = P[n]
  BY <1>6, <1>7, <1>8, Zenon
<1>11. A \in [1..N -> K]
  <2>1. \A n \in 1..N : A[n] \in K
    BY <1>4, <1>10
  <2> QED
    BY <1>9, <2>1
<1>12. \A n \in 1..N : Cardinality({y \in K : y < A[n]}) = n - 1
  BY <1>4, <1>5, <1>10
<1>13. \A m, n \in 1..N : m < n <=> A[m] < A[n]
  BY <1>1, <1>4, <1>10
<1>14. \A x \in K : \E n \in 1..N : A[n] = x
  BY <1>4, <1>10
<1> QED
  BY <1>4, <1>11, <1>12, <1>13, <1>14 DEF A, N

(* Positions of a list are finitely many numbers from 1.                    *)
LEMMA PositionsOf ==
  ASSUME NEW V, NEW s \in Seq(V), NEW K \in SUBSET DOMAIN s
  PROVE  PositionSet(K)
<1>1. Len(s) \in Nat /\ DOMAIN s = 1..Len(s)
  OBVIOUS
<1>2. IsFiniteSet(1..Len(s))
  BY <1>1, FS_Interval
<1>3. K \in SUBSET (1..Len(s))
  BY <1>1
<1>4. IsFiniteSet(K)
  BY <1>2, <1>3, FS_Subset, Zenon
<1> QED
  BY <1>1, <1>3, <1>4 DEF PositionSet

(* The elements at some positions are a list of elements, in the order they *)
(* had, and these are all of them.                                          *)
LEMMA AtPositionsLemma ==
  ASSUME NEW V, NEW s \in Seq(V), NEW K \in SUBSET DOMAIN s
  PROVE  /\ AtPositions(s, K) \in Seq(V)
         /\ Len(AtPositions(s, K)) = Cardinality(K)
         /\ DOMAIN AtPositions(s, K) = 1..Cardinality(K)
         /\ \A n \in 1..Cardinality(K) : AtPositions(s, K)[n] = s[Ascending(K)[n]]
         /\ ToSet(AtPositions(s, K)) = {s[k] : k \in K}
<1> DEFINE N == Cardinality(K)
           A == Ascending(K)
           F == AtPositions(s, K)
<1>1. \A k \in K : s[k] \in V
  OBVIOUS
<1>2. /\ N \in Nat /\ A \in [1..N -> K]
      /\ \A k \in K : \E n \in 1..N : A[n] = k
  BY PositionsOf, AscendingLemma
<1>3. F = [n \in 1..N |-> s[A[n]]]
  BY DEF AtPositions
<1> HIDE DEF N, A, F
<1>4. \A n \in 1..N : F[n] = s[A[n]] /\ A[n] \in K /\ F[n] \in V
  BY <1>1, <1>2, <1>3
<1>5. F \in Seq(V) /\ Len(F) = N /\ DOMAIN F = 1..N
  <2>1. F = [n \in 1..N |-> F[n]]
    BY <1>3, <1>4
  <2> QED
    BY <1>2, <1>4, <2>1
<1>6. ToSet(F) = {s[k] : k \in K}
  <2>1. ASSUME NEW n \in 1..N
        PROVE  F[n] \in {s[k] : k \in K}
    BY <1>4
  <2>2. ASSUME NEW k \in K
        PROVE  \E n \in 1..N : F[n] = s[k]
    BY <1>2, <1>4
  <2>3. ToSet(F) = {F[n] : n \in 1..N}
    BY <1>5 DEF ToSet
  <2> QED
    BY <2>1, <2>2, <2>3
<1> QED
  BY <1>4, <1>5, <1>6 DEF N, A, F

(* Of a list without repetitions, any positions give one.                   *)
LEMMA AtPositionsInjective ==
  ASSUME NEW V, NEW s \in Seq(V), NEW K \in SUBSET DOMAIN s, IsInjective(s)
  PROVE  IsInjective(AtPositions(s, K))
<1> DEFINE N == Cardinality(K)
           A == Ascending(K)
           F == AtPositions(s, K)
<1>1. DOMAIN F = 1..N /\ \A n \in 1..N : F[n] = s[A[n]]
  BY AtPositionsLemma
<1>2. /\ N \in Nat /\ A \in [1..N -> K]
      /\ \A m, n \in 1..N : m < n <=> A[m] < A[n]
  BY PositionsOf, AscendingLemma
<1>3. \A k \in K : k \in DOMAIN s /\ k \in Int
  <2>1. DOMAIN s \subseteq Int
    OBVIOUS
  <2> QED
    BY <2>1
<1> HIDE DEF N, A, F
<1> SUFFICES ASSUME NEW m \in 1..N, NEW n \in 1..N, F[m] = F[n]
             PROVE  m = n
  BY <1>1 DEF IsInjective, F
<1>4. A[m] \in DOMAIN s /\ A[n] \in DOMAIN s /\ A[m] \in Int /\ A[n] \in Int
  BY <1>2, <1>3
<1>5. A[m] = A[n]
  BY <1>1, <1>4 DEF IsInjective
<1>6. ~(m < n) /\ ~(n < m)
  BY <1>2, <1>4, <1>5
<1> QED
  BY <1>2, <1>6

(* One more element in the list: the positions chosen before stay as they *)
(* are, and the new one, if it is chosen, comes last.                       *)
LEMMA AtPositionsGrow ==
  ASSUME NEW V, NEW s \in Seq(V), NEW x \in V, NEW K \in SUBSET DOMAIN s
  PROVE  /\ AtPositions(Append(s, x), K) = AtPositions(s, K)
         /\ AtPositions(Append(s, x), K \cup {Len(s) + 1}) = Append(AtPositions(s, K), x)
<1> DEFINE N == Cardinality(K)
           A == Ascending(K)
           t == Append(s, x)
           m == Len(s) + 1
           L == K \cup {m}
           B == Ascending(L)
<1>1. /\ Len(s) \in Nat /\ t \in Seq(V) /\ t[m] = x /\ m \notin K /\ m \in Nat
      /\ \A k \in K : t[k] = s[k] /\ k < m /\ k \in Nat
      /\ K \in SUBSET DOMAIN t /\ L \in SUBSET DOMAIN t
  OBVIOUS
<1>2. PositionSet(K)
  BY PositionsOf
<1>3. PositionSet(L)
  BY <1>1, PositionsOf
<1>4. /\ N \in Nat /\ A \in [1..N -> K]
      /\ \A n \in 1..N : Cardinality({j \in K : j < A[n]}) = n - 1
      /\ \A k \in K : \E n \in 1..N : A[n] = k
  BY <1>2, AscendingLemma
<1>5. Cardinality(L) = N + 1
  <2>1. IsFiniteSet(K)
    BY <1>2 DEF PositionSet
  <2> QED
    BY <1>1, <2>1, FS_AddElement
<1>6. /\ B \in [1..(N + 1) -> L]
      /\ \A n \in 1..(N + 1) : Cardinality({j \in L : j < B[n]}) = n - 1
  BY <1>3, <1>5, AscendingLemma
<1>7. {j \in L : j < m} = K /\ \A k \in K : {j \in L : j < k} = {j \in K : j < k}
  BY <1>1
<1>8. /\ AtPositions(s, K) \in Seq(V) /\ Len(AtPositions(s, K)) = N
      /\ DOMAIN AtPositions(s, K) = 1..N
      /\ \A n \in 1..N : AtPositions(s, K)[n] = s[A[n]]
  BY AtPositionsLemma
<1> HIDE DEF t, L
<1>9. /\ AtPositions(t, K) \in Seq(V) /\ Len(AtPositions(t, K)) = N
      /\ \A n \in 1..N : AtPositions(t, K)[n] = t[A[n]]
  <2>1. t \in Seq(V) /\ K \in SUBSET DOMAIN t
    BY <1>1
  <2> QED
    BY <2>1, AtPositionsLemma
<1>10. /\ AtPositions(t, L) \in Seq(V) /\ Len(AtPositions(t, L)) = N + 1
       /\ \A n \in 1..(N + 1) : AtPositions(t, L)[n] = t[B[n]]
  <2>1. t \in Seq(V) /\ L \in SUBSET DOMAIN t
    BY <1>1
  <2> QED
    BY <1>5, <2>1, AtPositionsLemma
<1> HIDE DEF N, A, B, m
<1>11. ASSUME NEW n \in 1..N
       PROVE  B[n] = A[n]
  <2>1. n \in 1..(N + 1) /\ n - 1 # N
    BY <1>4
  <2>2. B[n] \in L /\ Cardinality({j \in L : j < B[n]}) = n - 1
    BY <1>6, <2>1
  <2>3. B[n] # m
    <3>1. Cardinality({j \in L : j < m}) = N
      BY <1>7 DEF N
    <3> QED
      BY <2>1, <2>2, <3>1
  <2>4. B[n] \in K
    BY <2>2, <2>3 DEF L
  <2>5. PICK i \in 1..N : A[i] = B[n]
    BY <1>4, <2>4
  <2>6. Cardinality({j \in K : j < B[n]}) = n - 1 /\ Cardinality({j \in K : j < B[n]}) = i - 1
    BY <1>4, <1>7, <2>2, <2>4, <2>5
  <2>7. i = n
    BY <1>4, <2>6
  <2> QED
    BY <2>5, <2>7
<1>12. B[N + 1] = m
  <2>1. N + 1 \in 1..(N + 1) /\ (N + 1) - 1 = N /\ \A i \in 1..N : i - 1 # N
    BY <1>4
  <2>2. B[N + 1] \in L /\ Cardinality({j \in L : j < B[N + 1]}) = N
    BY <1>6, <2>1
  <2>3. ASSUME B[N + 1] \in K
        PROVE  FALSE
    <3>1. PICK i \in 1..N : A[i] = B[N + 1]
      BY <1>4, <2>3
    <3>2. Cardinality({j \in K : j < A[i]}) = i - 1 /\ Cardinality({j \in K : j < A[i]}) = N
      BY <1>4, <1>7, <2>2, <2>3, <3>1
    <3> QED
      BY <2>1, <3>2
  <2> QED
    BY <2>2, <2>3 DEF L
<1>13. AtPositions(t, K) = AtPositions(s, K)
  <2>1. \A n \in 1..N : AtPositions(t, K)[n] = AtPositions(s, K)[n]
    BY <1>1, <1>4, <1>8, <1>9
  <2> HIDE DEF AtPositions
  <2> QED
    BY <1>8, <1>9, <2>1
<1>14. AtPositions(t, L) = Append(AtPositions(s, K), x)
  <2> DEFINE u == Append(AtPositions(s, K), x)
  <2>1. /\ u \in Seq(V) /\ Len(u) = N + 1 /\ u[N + 1] = x
        /\ \A n \in 1..N : u[n] = AtPositions(s, K)[n]
    BY <1>8
  <2>2. \A n \in 1..N : AtPositions(t, L)[n] = u[n]
    <3> SUFFICES ASSUME NEW n \in 1..N
                 PROVE  AtPositions(t, L)[n] = u[n]
      OBVIOUS
    <3>1. n \in 1..(N + 1) /\ A[n] \in K
      BY <1>4
    <3>2. AtPositions(t, L)[n] = t[A[n]]
      BY <1>10, <1>11, <3>1
    <3>3. u[n] = s[A[n]]
      BY <1>8, <2>1
    <3> QED
      BY <1>1, <3>1, <3>2, <3>3
  <2>3. AtPositions(t, L)[N + 1] = u[N + 1]
    <3>1. N + 1 \in 1..(N + 1)
      BY <1>4
    <3> QED
      BY <1>1, <1>10, <1>12, <2>1, <3>1
  <2>4. \A n \in 1..(N + 1) : n \in 1..N \/ n = N + 1
    BY <1>4
  <2> HIDE DEF u
  <2>5. \A n \in 1..(N + 1) : AtPositions(t, L)[n] = u[n]
    BY <2>2, <2>3, <2>4
  <2> QED
    BY <1>10, <2>1, <2>5 DEF u
<1> QED
  BY <1>13, <1>14 DEF t, L, m

-----------------------------------------------------------------------------
(* Folding *)

(* The greatest number of 1..n is n.                                        *)
LEMMA MaxUpTo ==
  ASSUME NEW N \in Nat, NEW n \in 1..N
  PROVE  /\ Max(1..n) = n /\ (1..n) \ {n} = 1..(n - 1) /\ 1..n # {}
         /\ n \in 0..N /\ n - 1 \in 0..N
<1>1. \A x \in 1..n : (\A y \in 1..n : x >= y) <=> x = n
  OBVIOUS
<1>2. n \in 1..n
  OBVIOUS
<1>3. Max(1..n) \in 1..n /\ \A y \in 1..n : Max(1..n) >= y
  BY <1>1, <1>2 DEF Max
<1>4. (1..n) \ {n} = 1..(n - 1) /\ n \in 0..N /\ n - 1 \in 0..N
  OBVIOUS
<1> QED
  BY <1>1, <1>2, <1>3, <1>4

(* Every part of 1..N but the empty one has a greatest number.              *)
LEMMA LastOfPart ==
  ASSUME NEW N \in Nat, NEW T \in SUBSET (1..N), T # {}
  PROVE  \E x \in T : \A y \in T : x >= y
<1> DEFINE I == {k \in 0..N : \A y \in T : k >= y}
<1>1. N \in I /\ I \in SUBSET Nat
  OBVIOUS
<1> HIDE DEF I
<1>2. PICK m \in I : \A k \in I : m <= k
  BY <1>1, LeastElement
<1>3. m \in 0..N /\ \A y \in T : m >= y
  BY <1>2 DEF I
<1>4. CASE m \in T
  BY <1>3, <1>4
<1>5. CASE m \notin T
  <2>1. \A y \in T : m - 1 >= y
    BY <1>3, <1>5
  <2>2. m >= 1
    <3>1. PICK y \in T : TRUE
      OBVIOUS
    <3>2. y >= 1 /\ m >= y /\ y \in Int
      BY <1>3
    <3> QED
      BY <1>3, <3>2
  <2>3. m - 1 \in 0..N
    BY <1>3, <2>2
  <2>4. m - 1 \in I
    BY <2>1, <2>3 DEF I
  <2> QED
    BY <1>2, <1>3, <2>4
<1> QED
  BY <1>4, <1>5

(* Max is one.                                                              *)
LEMMA MaxOfPart ==
  ASSUME NEW N \in Nat, NEW T \in SUBSET (1..N), T # {}
  PROVE  Max(T) \in T
BY LastOfPart DEF Max

(* There is nothing from 1 to 0.                                            *)
LEMMA NothingUpTo == \A N \in Nat : 0 \in 0..N /\ 1..0 = {}
  OBVIOUS

(* The bounds of a loop.                                                    *)
LEMMA UpTo ==
  ASSUME NEW N \in Nat
  PROVE  /\ N \in 0..N /\ 1..N \in SUBSET (1..N) /\ N + 1 \in 0..(N + 1)
         /\ \A n \in 1..N : /\ n \in 0..N /\ n - 1 \in 0..N /\ n # 0
                            /\ 1..n \in SUBSET (1..N) /\ n \in 1..(N + 1)
                            /\ n # 1 => n - 1 \in 1..N
  OBVIOUS

\* iter folds every part of 1..N from its greatest number down, h being the step.
FoldOf(iter, N, base, h) ==
  \A T \in SUBSET (1..N) :
     iter[T] = IF T = {} THEN base ELSE h[Max(T), iter[T \ {Max(T)}]]

\* The same, as far as the values are in X.
FoldWithin(iter, N, X, base, h) ==
  \A T \in SUBSET (1..N) :
     /\ T = {} => iter[T] = base
     /\ T # {} /\ iter[T \ {Max(T)}] \in X => iter[T] = h[Max(T), iter[T \ {Max(T)}]]

\* acc[n] is what a loop has after n turns.
LoopOf(acc, N, base, h) ==
  acc[0] = base /\ \A n \in 1..N : acc[n] = h[n, acc[n - 1]]

\* A loop of values of X that ends with last.
LoopEndsWith(last, N, X, base, h) ==
  \E acc \in [0..N -> X] : LoopOf(acc, N, base, h) /\ acc[N] = last

(* The recursion of MapThenFoldSet over the subsets of 1..N has a solution, *)
(* for any step h of a value by an index.                                   *)
LEMMA FoldExists ==
  ASSUME NEW N \in Nat, NEW X, NEW base \in X, NEW h \in [(1..N) \X X -> X]
  PROVE  \E iter \in [SUBSET (1..N) -> X] : FoldOf(iter, N, base, h)
<1> DEFINE Solves(iter, n) ==
             \A T \in SUBSET (1..n) :
                iter[T] = IF T = {} THEN base ELSE h[Max(T), iter[T \ {Max(T)}]]
           Good == {n \in 0..N : \E iter \in [SUBSET (1..N) -> X] : Solves(iter, n)}
<1>1. 0 \in Good
  <2> DEFINE g == [T \in SUBSET (1..N) |-> base]
  <2>1. g \in [SUBSET (1..N) -> X] /\ Solves(g, 0)
    <3>1. 1..0 = {}
      OBVIOUS
    <3>2. \A T \in SUBSET (1..0) : T = {} /\ g[T] = base
      BY <3>1
    <3> QED
      BY <3>2
  <2> HIDE DEF g, Solves
  <2> QED
    BY <2>1, NothingUpTo
<1>2. ASSUME NEW n \in 1..N, n - 1 \in Good
      PROVE  n \in Good
  <2>1. PICK f \in [SUBSET (1..N) -> X] : Solves(f, n - 1)
    BY <1>2
  <2> DEFINE g == [T \in SUBSET (1..N) |->
                     IF n \in T THEN h[n, f[T \ {n}]] ELSE f[T]]
  <2>2. g \in [SUBSET (1..N) -> X]
    <3>1. \A T \in SUBSET (1..N) : f[T] \in X /\ f[T \ {n}] \in X
      BY <2>1
    <3>2. \A x \in X : h[n, x] \in X
      OBVIOUS
    <3> QED
      BY <3>1, <3>2
  <2>3. ASSUME NEW T \in SUBSET (1..n)
        PROVE  g[T] = IF T = {} THEN base ELSE h[Max(T), g[T \ {Max(T)}]]
    <3>1. CASE n \in T
      <4>1. \A x \in T : (\A y \in T : x >= y) <=> x = n
        BY <3>1
      <4>2. Max(T) \in T /\ \A y \in T : Max(T) >= y
        BY <3>1, <4>1 DEF Max
      <4>3. Max(T) = n /\ T # {}
        BY <4>1, <4>2
      <4>4. T \ {n} \in SUBSET (1..N) /\ n \notin T \ {n} /\ T \in SUBSET (1..N)
        BY <3>1
      <4>5. g[T \ {n}] = f[T \ {n}] /\ g[T] = h[n, f[T \ {n}]]
        BY <3>1, <4>4
      <4> QED
        BY <4>3, <4>5
    <3>2. CASE n \notin T
      <4>1. T \in SUBSET (1..(n - 1)) /\ T \in SUBSET (1..N)
        BY <3>2
      <4>2. f[T] = IF T = {} THEN base ELSE h[Max(T), f[T \ {Max(T)}]]
        BY <2>1, <4>1
      <4>3. T \ {Max(T)} \in SUBSET (1..N) /\ n \notin T \ {Max(T)}
        BY <3>2, <4>1
      <4>4. g[T] = f[T] /\ g[T \ {Max(T)}] = f[T \ {Max(T)}]
        BY <3>2, <4>1, <4>3
      <4> QED
        BY <4>2, <4>4
    <3> QED
      BY <3>1, <3>2
  <2> HIDE DEF g
  <2>4. Solves(g, n)
    BY <2>3
  <2> HIDE DEF Solves
  <2> QED
    BY <2>2, <2>4
<1>3. N \in Good
  <2> HIDE DEF Good
  <2>1. 0..N \subseteq Good
    BY <1>1, <1>2, InductionUpTo
  <2> QED
    BY <2>1
<1>4. PICK iter \in [SUBSET (1..N) -> X] : Solves(iter, N)
  BY <1>3
<1> QED
  BY <1>4 DEF FoldOf

(* Of a solution only the values for 1..n matter: they are those of a loop. *)
LEMMA FoldIsLoop ==
  ASSUME NEW N \in Nat, NEW X, NEW base \in X, NEW h \in [(1..N) \X X -> X], NEW iter,
         FoldWithin(iter, N, X, base, h)
  PROVE  LoopEndsWith(iter[1..N], N, X, base, h)
<1> DEFINE acc == [n \in 0..N |-> iter[1..n]]
           Typed == {n \in 0..N : acc[n] \in X}
<1>1. acc[0] = base
  BY NothingUpTo DEF FoldWithin
<1>2. acc[N] = iter[1..N]
  BY UpTo
<1>3. ASSUME NEW n \in 1..N, acc[n - 1] \in X
      PROVE  acc[n] = h[n, acc[n - 1]] /\ acc[n] \in X
  <2>1. /\ Max(1..n) = n /\ (1..n) \ {n} = 1..(n - 1) /\ 1..n # {}
        /\ n \in 0..N /\ n - 1 \in 0..N
    BY MaxUpTo, Zenon
  <2>2. 1..n \in SUBSET (1..N)
    BY UpTo
  <2>3. acc[n] = iter[1..n] /\ acc[n - 1] = iter[1..(n - 1)]
    BY <2>1
  <2> HIDE DEF acc
  <2>4. iter[1..n] = h[n, iter[1..(n - 1)]]
    BY <1>3, <2>1, <2>2, <2>3 DEF FoldWithin
  <2>5. h[n, acc[n - 1]] \in X
    BY <1>3
  <2> QED
    BY <2>3, <2>4, <2>5
<1> HIDE DEF acc
<1>4. 0 \in Typed
  BY <1>1, NothingUpTo
<1>5. ASSUME NEW n \in 1..N, n - 1 \in Typed
      PROVE  n \in Typed
  BY <1>3, <1>5, MaxUpTo
<1>6. 0..N \subseteq Typed
  <2> HIDE DEF Typed
  <2> QED
    BY <1>4, <1>5, InductionUpTo
<1>7. acc \in [0..N -> X]
  BY <1>6 DEF acc
<1>8. \A n \in 1..N : acc[n] = h[n, acc[n - 1]]
  BY <1>3, <1>6, MaxUpTo
<1> QED
  BY <1>1, <1>2, <1>7, <1>8 DEF LoopOf, LoopEndsWith

(* The values of a loop exist.                                              *)
LEMMA LoopExists ==
  ASSUME NEW N \in Nat, NEW X, NEW base \in X, NEW h \in [(1..N) \X X -> X]
  PROVE  \E acc \in [0..N -> X] : LoopOf(acc, N, base, h)
<1>1. PICK iter \in [SUBSET (1..N) -> X] : FoldOf(iter, N, base, h)
  BY FoldExists
<1>2. FoldWithin(iter, N, X, base, h)
  BY <1>1 DEF FoldOf, FoldWithin
<1> QED
  BY <1>2, FoldIsLoop DEF LoopEndsWith

-----------------------------------------------------------------------------
(* Flattening *)

(* FlattenSeq appends the lists one after the other.                        *)
LEMMA FlattenLoop ==
  ASSUME NEW V, NEW ss \in Seq(Seq(V))
  PROVE  \E acc \in [0..Len(ss) -> Seq(V)] :
           /\ acc[0] = <<>> /\ acc[Len(ss)] = FlattenSeq(ss)
           /\ \A n \in 1..Len(ss) : acc[n] = acc[n - 1] \o ss[n]
<1> DEFINE N == Len(ss)
           X == Seq(V)
           h == [p \in (1..N) \X X |-> p[2] \o ss[p[1]]]
           Sol(f) == f = [i \in 1..N |-> IF i = 1 THEN ss[i] ELSE f[i - 1] \o ss[i]]
           flat == CHOOSE f : Sol(f)
           acc == [n \in 0..N |-> IF n = 0 THEN <<>> ELSE flat[n]]
           Typed == {n \in 0..N : acc[n] \in X}
<1>1. N \in Nat /\ \A n \in 1..N : ss[n] \in X
  OBVIOUS
<1>2. FlattenSeq(ss) = IF N = 0 THEN ss ELSE flat[N]
  BY DEF FlattenSeq
<1>3. /\ <<>> \in X
      /\ \A x, y \in X : x \o y \in X
      /\ \A x \in X : <<>> \o x = x
  OBVIOUS
<1>4. N = 0 => ss = <<>>
  OBVIOUS
<1>5. \A n \in 1..N, x \in X : h[n, x] = x \o ss[n] /\ h[n, x] \in X
  <2> HIDE DEF X, N
  <2> SUFFICES ASSUME NEW n \in 1..N, NEW x \in X
               PROVE  h[n, x] = x \o ss[n] /\ h[n, x] \in X
    OBVIOUS
  <2>1. h[n, x] = x \o ss[n]
    OBVIOUS
  <2> HIDE DEF h
  <2> QED
    BY <1>1, <1>3, <2>1
<1>6. h \in [(1..N) \X X -> X]
  <2> HIDE DEF X, N
  <2> QED
    BY <1>1, <1>3
<1> HIDE DEF h, X, N
<1>7. PICK loop \in [0..N -> X] : LoopOf(loop, N, <<>>, h)
  <2>1. <<>> \in X
    BY <1>3
  <2> QED
    BY <1>1, <1>6, <2>1, LoopExists
<1>8. loop[0] = <<>> /\ \A n \in 1..N : loop[n] = h[n, loop[n - 1]]
  BY <1>7 DEF LoopOf
<1> DEFINE g == [i \in 1..N |-> loop[i]]
<1>9. Sol(g)
  <2> SUFFICES ASSUME NEW i \in 1..N
               PROVE  loop[i] = IF i = 1 THEN ss[i] ELSE g[i - 1] \o ss[i]
    OBVIOUS
  <2>1. i - 1 \in 0..N /\ loop[i] = loop[i - 1] \o ss[i]
    BY <1>1, <1>5, <1>8, UpTo
  <2>2. CASE i = 1
    <3>1. i - 1 = 0 /\ ss[i] \in X
      BY <1>1, <2>2
    <3>2. loop[i] = <<>> \o ss[i]
      BY <1>8, <2>1, <3>1
    <3> QED
      BY <1>3, <2>2, <3>1, <3>2
  <2>3. CASE i # 1
    <3>1. i - 1 \in 1..N
      BY <1>1, <2>3, UpTo
    <3> QED
      BY <2>1, <2>3, <3>1
  <2> QED
    BY <2>2, <2>3
<1> HIDE DEF g, Sol
<1>10. Sol(flat)
  BY <1>9
<1> HIDE DEF flat
<1>11. \A n \in 1..N : flat[n] = IF n = 1 THEN ss[n] ELSE flat[n - 1] \o ss[n]
  BY <1>10 DEF Sol
<1>12. acc[0] = <<>>
  BY <1>1
<1>13. ASSUME NEW n \in 1..N
       PROVE  acc[n] = acc[n - 1] \o ss[n]
  <2>1. n \in 0..N /\ n - 1 \in 0..N /\ n # 0 /\ (n = 1 <=> n - 1 = 0)
    BY <1>1
  <2>2. acc[n] = flat[n] /\ acc[n - 1] = IF n = 1 THEN <<>> ELSE flat[n - 1]
    BY <2>1
  <2> HIDE DEF acc
  <2> QED
    BY <1>1, <1>3, <1>11, <2>2
<1>14. acc[N] = FlattenSeq(ss)
  BY <1>1, <1>2, <1>4
<1> HIDE DEF acc
<1>15. 0 \in Typed
  BY <1>1, <1>3, <1>12
<1>16. ASSUME NEW n \in 1..N, n - 1 \in Typed
       PROVE  n \in Typed
  <2>1. acc[n - 1] \in X /\ ss[n] \in X /\ n \in 0..N
    BY <1>1, <1>16, UpTo
  <2>2. acc[n - 1] \o ss[n] \in X
    BY <1>3, <2>1
  <2> QED
    BY <1>13, <2>1, <2>2
<1>17. 0..N \subseteq Typed
  <2> HIDE DEF Typed
  <2> QED
    BY <1>1, <1>15, <1>16, InductionUpTo
<1>18. acc \in [0..N -> X]
  BY <1>17 DEF acc
<1> QED
  BY <1>12, <1>13, <1>14, <1>18 DEF N, X

(* Nothing flattened is nothing.                                            *)
LEMMA FlattenEmpty == FlattenSeq(<<>>) = <<>>
  BY DEF FlattenSeq

(* One more list comes behind what there was.                               *)
LEMMA FlattenAppend ==
  ASSUME NEW V, NEW ss \in Seq(Seq(V)), NEW s \in Seq(V)
  PROVE  /\ FlattenSeq(ss) \in Seq(V)
         /\ FlattenSeq(Append(ss, s)) = FlattenSeq(ss) \o s
<1> DEFINE N == Len(ss)
           tt == Append(ss, s)
<1>1. N \in Nat /\ tt \in Seq(Seq(V)) /\ Len(tt) = N + 1 /\ tt[N + 1] = s
      /\ \A n \in 1..N : tt[n] = ss[n]
  OBVIOUS
<1> HIDE DEF tt
<1>2. PICK a \in [0..N -> Seq(V)] :
        /\ a[0] = <<>> /\ a[N] = FlattenSeq(ss)
        /\ \A n \in 1..N : a[n] = a[n - 1] \o ss[n]
  BY FlattenLoop
<1>3. PICK b \in [0..Len(tt) -> Seq(V)] :
        /\ b[0] = <<>> /\ b[Len(tt)] = FlattenSeq(tt)
        /\ \A n \in 1..Len(tt) : b[n] = b[n - 1] \o tt[n]
  BY <1>1, FlattenLoop, Zenon
<1> HIDE DEF N
<1> DEFINE Same == {n \in 0..N : a[n] = b[n]}
<1>4. 0 \in Same
  BY <1>1, <1>2, <1>3
<1>5. ASSUME NEW n \in 1..N, n - 1 \in Same
      PROVE  n \in Same
  <2>1. a[n - 1] = b[n - 1] /\ n \in 0..N /\ n \in 1..Len(tt) /\ tt[n] = ss[n]
    BY <1>1, <1>5, UpTo
  <2>2. a[n] = a[n - 1] \o ss[n] /\ b[n] = b[n - 1] \o tt[n]
    BY <1>2, <1>3, <2>1
  <2> QED
    BY <2>1, <2>2
<1>6. 0..N \subseteq Same
  <2> HIDE DEF Same
  <2> QED
    BY <1>1, <1>4, <1>5, InductionUpTo
<1>7. a[N] = b[N]
  BY <1>1, <1>6
<1>8. N + 1 \in 1..Len(tt) /\ (N + 1) - 1 = N /\ N \in 0..N
  BY <1>1
<1>9. b[N + 1] = b[N] \o tt[N + 1]
  BY <1>3, <1>8
<1>10. FlattenSeq(tt) = FlattenSeq(ss) \o s
  BY <1>1, <1>2, <1>3, <1>7, <1>9
<1>11. FlattenSeq(ss) \in Seq(V)
  BY <1>2, <1>8
<1> QED
  BY <1>10, <1>11 DEF tt

(* The flattened list has the elements of the lists and no others.          *)
LEMMA FlattenMembers ==
  ASSUME NEW V, NEW ss \in Seq(Seq(V))
  PROVE  /\ FlattenSeq(ss) \in Seq(V)
         /\ ToSet(FlattenSeq(ss)) = UNION {ToSet(ss[n]) : n \in DOMAIN ss}
<1> DEFINE N == Len(ss)
<1>1. N \in Nat /\ DOMAIN ss = 1..N /\ \A n \in 1..N : ss[n] \in Seq(V)
  OBVIOUS
<1>2. PICK a \in [0..N -> Seq(V)] :
        /\ a[0] = <<>> /\ a[N] = FlattenSeq(ss)
        /\ \A n \in 1..N : a[n] = a[n - 1] \o ss[n]
  BY FlattenLoop
<1>3. \A s, t \in Seq(V) : ToSet(s \o t) = ToSet(s) \cup ToSet(t)
  BY ConcatMembers
<1> HIDE DEF N
<1> DEFINE U(n) == UNION {ToSet(ss[k]) : k \in 1..n}
           Right == {n \in 0..N : ToSet(a[n]) = U(n)}
<1>4. 0 \in Right
  <2>1. ToSet(<<>>) = {} /\ U(0) = {}
    BY NothingUpTo DEF ToSet
  <2> QED
    BY <1>1, <1>2, <2>1
<1>5. ASSUME NEW n \in 1..N, n - 1 \in Right
      PROVE  n \in Right
  <2>1. n - 1 \in 0..N /\ n \in 0..N /\ 1..n = (1..(n - 1)) \cup {n}
    BY <1>1
  <2>2. ToSet(a[n]) = ToSet(a[n - 1]) \cup ToSet(ss[n])
    BY <1>1, <1>2, <1>3, <2>1
  <2>3. U(n) = U(n - 1) \cup ToSet(ss[n])
    BY <2>1
  <2> HIDE DEF U
  <2> QED
    BY <1>5, <2>1, <2>2, <2>3
<1>6. 0..N \subseteq Right
  <2> HIDE DEF Right
  <2> QED
    BY <1>1, <1>4, <1>5, InductionUpTo
<1>7. N \in 0..N
  BY <1>1
<1>8. ToSet(a[N]) = U(N)
  BY <1>6, <1>7
<1> QED
  BY <1>1, <1>2, <1>7, <1>8
=============================================================================
