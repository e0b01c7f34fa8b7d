---------------------------- MODULE Merger_proofs ----------------------------
(***************************************************************************)
(* Deduplication, for lists of findings of any length: each group of equal *)
(* keys keeps exactly one finding, and it is one of the best of the group. *)
(***************************************************************************)
EXTENDS Merger, Lists_proofs

\* What the argument needs of findings: the schema bounds the confidence.
ScoredFindings(fs) ==
  /\ DOMAIN fs \subseteq Nat
  /\ \A i \in DOMAIN fs : fs[i].confidence \in 0..100 /\ fs[i].source \in Sources

(* Every source has a priority.                                             *)
LEMMA PriorityBound ==
  ASSUME NEW s \in Sources
  PROVE  SourcePriority[s] \in 1..3
  BY DEF Sources, SourcePriority

(* How far a finding is from the best possible score: the pair that max()   *)
(* compares, as one natural number.                                         *)
Distance(f) == 4 * (100 - f.confidence) + (3 - SourcePriority[f.source])

(* The distance is a natural number that is smaller for what outranks.      *)
LEMMA DistanceLemma ==
  ASSUME NEW f, NEW g,
         f.confidence \in 0..100, g.confidence \in 0..100,
         f.source \in Sources, g.source \in Sources
  PROVE  /\ Distance(f) \in Nat
         /\ Outranks(f, g) <=> Distance(f) < Distance(g)
<1>1. SourcePriority[f.source] \in 1..3 /\ SourcePriority[g.source] \in 1..3
  BY PriorityBound
<1>2. \A c, d \in 0..100, p, q \in 1..3 :
        /\ 4 * (100 - c) + (3 - p) \in Nat
        /\ (c > d \/ (c = d /\ p > q)) <=> 4 * (100 - c) + (3 - p) < 4 * (100 - d) + (3 - q)
  OBVIOUS
<1> QED
  BY <1>1, <1>2, Zenon DEF Distance, Outranks

(* The best positions of a group: nothing in it outranks them.              *)
Best(fs, i) == {k \in SameKey(fs, i) : \A j \in SameKey(fs, i) : ~Outranks(fs[j], fs[k])}

(* A group has a best finding.                                              *)
LEMMA BestExists ==
  ASSUME NEW fs, ScoredFindings(fs), NEW i \in DOMAIN fs
  PROVE  Best(fs, i) # {}
<1> DEFINE D == {Distance(fs[j]) : j \in SameKey(fs, i)}
<1>1. i \in SameKey(fs, i)
  BY DEF SameKey
<1>2. \A j \in SameKey(fs, i) : /\ fs[j].confidence \in 0..100
                                /\ fs[j].source \in Sources
  BY DEF SameKey, ScoredFindings
<1>3. D \in SUBSET Nat /\ D # {}
  BY <1>1, <1>2, DistanceLemma
<1>4. PICK d \in D : \A e \in D : d <= e
  BY <1>3, LeastElement
<1>5. PICK k \in SameKey(fs, i) : d = Distance(fs[k])
  BY <1>4
<1>6. ASSUME NEW j \in SameKey(fs, i)
      PROVE  ~Outranks(fs[j], fs[k])
  <2>1. Distance(fs[k]) <= Distance(fs[j])
    BY <1>4, <1>5
  <2>2. Distance(fs[k]) \in Nat /\ Distance(fs[j]) \in Nat
    BY <1>2, DistanceLemma
  <2> QED
    BY <2>1, <2>2, <1>2, DistanceLemma
<1> QED
  BY <1>5, <1>6 DEF Best

(* Groups are the same from each of their members.                          *)
LEMMA GroupLemma ==
  ASSUME NEW fs, NEW i \in DOMAIN fs, NEW k \in SameKey(fs, i)
  PROVE  /\ k \in DOMAIN fs
         /\ SameKey(fs, k) = SameKey(fs, i)
  BY DEF SameKey

(* The survivor of a group is the first of its best findings.               *)
LEMMA KeptIsFirstBest ==
  ASSUME NEW fs, ScoredFindings(fs), NEW i \in DOMAIN fs, NEW k \in SameKey(fs, i)
  PROVE  k \in Kept(fs) <=> /\ k \in Best(fs, i)
                            /\ \A b \in Best(fs, i) : k <= b
<1>1. k \in DOMAIN fs /\ SameKey(fs, k) = SameKey(fs, i)
  BY GroupLemma
<1>2. \A j \in SameKey(fs, i) : /\ fs[j].confidence \in 0..100 /\ fs[j].source \in Sources
                                /\ j \in Nat
  BY DEF SameKey, ScoredFindings
<1>3. \A a, b \in SameKey(fs, i) : /\ Distance(fs[a]) \in Nat /\ Distance(fs[b]) \in Nat
                                   /\ Outranks(fs[a], fs[b]) <=> Distance(fs[a]) < Distance(fs[b])
  BY <1>2, DistanceLemma
<1>4. k \in Kept(fs) <=> \A j \in SameKey(fs, i) :
                            Outranks(fs[k], fs[j]) \/ (~Outranks(fs[j], fs[k]) /\ k <= j)
  BY <1>1 DEF Kept
<1>5. ASSUME k \in Kept(fs)
      PROVE  k \in Best(fs, i) /\ \A b \in Best(fs, i) : k <= b
  <2>1. k \in Best(fs, i)
    BY <1>3, <1>4, <1>5 DEF Best
  <2>2. \A b \in Best(fs, i) : k <= b
    BY <1>3, <1>4, <1>5 DEF Best
  <2> QED
    BY <2>1, <2>2
<1>6. ASSUME k \in Best(fs, i), \A b \in Best(fs, i) : k <= b
      PROVE  k \in Kept(fs)
  <2> SUFFICES ASSUME NEW j \in SameKey(fs, i)
               PROVE  Outranks(fs[k], fs[j]) \/ (~Outranks(fs[j], fs[k]) /\ k <= j)
    BY <1>4
  <2>1. ~Outranks(fs[j], fs[k])
    BY <1>6 DEF Best
  <2>2. CASE j \in Best(fs, i)
    BY <2>1, <2>2, <1>6
  <2>3. CASE j \notin Best(fs, i)
    <3>1. PICK a \in SameKey(fs, i) : Outranks(fs[a], fs[j])
      BY <2>3 DEF Best
    <3>2. ~Outranks(fs[a], fs[k])
      BY <1>6 DEF Best
    <3> QED
      BY <3>1, <3>2, <1>3
  <2> QED
    BY <2>2, <2>3
<1> QED
  BY <1>5, <1>6

(* Deduplication (MergerAgent._deduplicate) keeps exactly one finding for   *)
(* every key that was reported, and the finding it keeps is not outranked   *)
(* by any it drops: whatever the lists of the agents hold, no problem is    *)
(* lost and none is reported twice.                                         *)
THEOREM DeduplicationRepresents ==
  ASSUME NEW fs, ScoredFindings(fs), NEW i \in DOMAIN fs
  PROVE  \E k \in Kept(fs) :
           /\ DedupKey(fs[k]) = DedupKey(fs[i])
           /\ ~Outranks(fs[i], fs[k])
           /\ \A j \in Kept(fs) : DedupKey(fs[j]) = DedupKey(fs[i]) => j = k
<1>1. Best(fs, i) \in SUBSET Nat /\ Best(fs, i) \subseteq SameKey(fs, i)
  BY DEF Best, SameKey, ScoredFindings
<1>2. PICK k \in Best(fs, i) : \A b \in Best(fs, i) : k <= b
  BY <1>1, BestExists, LeastElement
<1>3. k \in Kept(fs)
  BY <1>1, <1>2, KeptIsFirstBest
<1>4. DedupKey(fs[k]) = DedupKey(fs[i])
  BY <1>1 DEF SameKey
<1>5. ~Outranks(fs[i], fs[k])
  BY DEF Best, SameKey
<1>6. ASSUME NEW j \in Kept(fs), DedupKey(fs[j]) = DedupKey(fs[i])
      PROVE  j = k
  <2>1. j \in SameKey(fs, i)
    BY <1>6 DEF Kept, SameKey
  <2>2. j \in Best(fs, i) /\ j <= k
    BY <2>1, <1>2, KeptIsFirstBest
  <2>3. k <= j /\ j \in Nat /\ k \in Nat
    BY <2>2, <1>1, <1>2
  <2> QED
    BY <2>2, <2>3
<1> QED
  BY <1>3, <1>4, <1>5, <1>6

(* The ranking (MergerAgent._rank) decides between any two survivors: their *)
(* sort keys differ, so the order of the report does not depend on how the  *)
(* sort breaks ties.                                                        *)
THEOREM SurvivorsAreOrdered ==
  ASSUME NEW fs, ScoredFindings(fs), NEW i \in Kept(fs), NEW j \in Kept(fs), i # j
  PROVE  RankKey(fs, i) # RankKey(fs, j)
<1>1. i \in DOMAIN fs /\ j \in DOMAIN fs
  BY DEF Kept
<1>2. DedupKey(fs[i]) # DedupKey(fs[j])
  BY <1>1, DeduplicationRepresents
<1>3. ASSUME NEW k \in DOMAIN fs
      PROVE  FirstOfGroup(fs, k) \in SameKey(fs, k)
  <2>1. SameKey(fs, k) \in SUBSET Nat /\ SameKey(fs, k) # {}
    BY <1>3 DEF SameKey, ScoredFindings
  <2> QED
    BY <2>1, LeastElement DEF FirstOfGroup
<1>4. /\ DedupKey(fs[FirstOfGroup(fs, i)]) = DedupKey(fs[i])
      /\ DedupKey(fs[FirstOfGroup(fs, j)]) = DedupKey(fs[j])
  BY <1>1, <1>3 DEF SameKey
<1>5. FirstOfGroup(fs, i) # FirstOfGroup(fs, j)
  BY <1>2, <1>4
<1> QED
  BY <1>5 DEF RankKey

-----------------------------------------------------------------------------
(* The ranked list *)

\* What ranking needs of findings as well.
RankableFindings(fs) ==
  /\ ScoredFindings(fs) /\ IsFiniteSet(DOMAIN fs)
  /\ \A i \in DOMAIN fs :
       fs[i].severity \in Severities /\ fs[i].path \in Int /\ fs[i].line \in Int

Keys == Int \X Int \X Int \X Int \X Int

(* Keys are compared by their first difference.                             *)
LEMMA PrecedesUnfold ==
  ASSUME NEW a \in Keys, NEW b \in Keys
  PROVE  Precedes(a, b) <=>
           \/ a[1] < b[1]
           \/ a[1] = b[1] /\ a[2] < b[2]
           \/ a[1] = b[1] /\ a[2] = b[2] /\ a[3] < b[3]
           \/ a[1] = b[1] /\ a[2] = b[2] /\ a[3] = b[3] /\ a[4] < b[4]
           \/ a[1] = b[1] /\ a[2] = b[2] /\ a[3] = b[3] /\ a[4] = b[4] /\ a[5] < b[5]
<1> DEFINE At(n) == a[n] < b[n] /\ \A m \in 1..(n - 1) : a[m] = b[m]
<1>1. DOMAIN a = {1, 2, 3, 4, 5}
  BY DEF Keys
<1>2. /\ 1..(1 - 1) = {} /\ 1..(2 - 1) = {1} /\ 1..(3 - 1) = {1, 2}
      /\ 1..(4 - 1) = {1, 2, 3} /\ 1..(5 - 1) = {1, 2, 3, 4}
  OBVIOUS
<1>3. At(1) <=> a[1] < b[1]
  BY <1>2
<1>4. At(2) <=> a[1] = b[1] /\ a[2] < b[2]
  BY <1>2
<1>5. At(3) <=> a[1] = b[1] /\ a[2] = b[2] /\ a[3] < b[3]
  BY <1>2
<1>6. At(4) <=> a[1] = b[1] /\ a[2] = b[2] /\ a[3] = b[3] /\ a[4] < b[4]
  BY <1>2
<1>7. At(5) <=> a[1] = b[1] /\ a[2] = b[2] /\ a[3] = b[3] /\ a[4] = b[4] /\ a[5] < b[5]
  BY <1>2
<1>8. Precedes(a, b) <=> \E n \in DOMAIN a : At(n)
  BY DEF Precedes
<1> HIDE DEF At
<1>9. Precedes(a, b) <=> At(1) \/ At(2) \/ At(3) \/ At(4) \/ At(5)
  BY <1>1, <1>8
<1> QED
  BY <1>3, <1>4, <1>5, <1>6, <1>7, <1>9, Zenon

(* Every severity has a score.                                              *)
LEMMA ScoreBound ==
  ASSUME NEW s \in Severities
  PROVE  SeverityScore[s] \in 1..5
  BY DEF Severities, SeverityScore

(* The sort key is five numbers, the severity first.                        *)
LEMMA RankKeyLemma ==
  ASSUME NEW fs, RankableFindings(fs), NEW i \in DOMAIN fs
  PROVE  \E k2, k3, k4, k5 \in Int :
           RankKey(fs, i) = <<-SeverityScore[fs[i].severity], k2, k3, k4, k5>>
<1>1. FirstOfGroup(fs, i) \in Int
  <2>1. SameKey(fs, i) \in SUBSET Nat /\ SameKey(fs, i) # {}
    BY DEF SameKey, ScoredFindings, RankableFindings
  <2>2. FirstOfGroup(fs, i) \in SameKey(fs, i)
    BY <2>1, LeastElement DEF FirstOfGroup
  <2> QED
    BY <2>1, <2>2
<1>2. -fs[i].confidence \in Int /\ fs[i].path \in Int /\ LineOr0(fs[i]) \in Int
  BY DEF RankableFindings, ScoredFindings, LineOr0
<1> QED
  BY <1>1, <1>2 DEF RankKey

RankOrder(fs) ==
  {e \in Kept(fs) \X Kept(fs) : Precedes(RankKey(fs, e[1]), RankKey(fs, e[2]))}

(* The keys of the survivors are in a strict total order.                   *)
LEMMA RankOrderLemma ==
  ASSUME NEW fs, RankableFindings(fs)
  PROVE  StrictTotalOrder(Kept(fs), RankOrder(fs))
<1> DEFINE K == Kept(fs)
           R == RankOrder(fs)
           key(i) == RankKey(fs, i)
<1>1. \A i \in K : i \in DOMAIN fs
  BY DEF Kept
<1>2. \A i \in K : key(i) \in Keys
  <2> SUFFICES ASSUME NEW i \in K
               PROVE  key(i) \in Keys
    OBVIOUS
  <2>1. i \in DOMAIN fs
    BY <1>1
  <2>2. PICK k2, k3, k4, k5 \in Int :
           RankKey(fs, i) = <<-SeverityScore[fs[i].severity], k2, k3, k4, k5>>
    BY <2>1, RankKeyLemma
  <2>3. -SeverityScore[fs[i].severity] \in Int
    BY <2>1, ScoreBound DEF RankableFindings
  <2> QED
    BY <2>2, <2>3 DEF Keys
<1>3. \A i, j \in K : <<i, j>> \in R <=> Precedes(key(i), key(j))
  BY DEF RankOrder
<1>4. \A a, b \in Keys :
         Precedes(a, b) <=>
           \/ a[1] < b[1]
           \/ a[1] = b[1] /\ a[2] < b[2]
           \/ a[1] = b[1] /\ a[2] = b[2] /\ a[3] < b[3]
           \/ a[1] = b[1] /\ a[2] = b[2] /\ a[3] = b[3] /\ a[4] < b[4]
           \/ a[1] = b[1] /\ a[2] = b[2] /\ a[3] = b[3] /\ a[4] = b[4] /\ a[5] < b[5]
  BY PrecedesUnfold
<1>5. \A i, j \in K : i # j => key(i) # key(j)
  BY SurvivorsAreOrdered DEF RankableFindings
<1>6. \A a \in Keys : ~Precedes(a, a)
  BY <1>4 DEF Keys
<1>7. \A a, b \in Keys : a # b => Precedes(a, b) \/ Precedes(b, a)
  <2> SUFFICES ASSUME NEW a \in Keys, NEW b \in Keys, ~Precedes(a, b), ~Precedes(b, a)
               PROVE  a = b
    OBVIOUS
  <2>1. a[1] = b[1] /\ a[2] = b[2] /\ a[3] = b[3] /\ a[4] = b[4] /\ a[5] = b[5]
    BY <1>4 DEF Keys
  <2> QED
    BY <2>1 DEF Keys
<1>8. \A a, b, c \in Keys : Precedes(a, b) /\ Precedes(b, c) => Precedes(a, c)
  <2> SUFFICES ASSUME NEW a \in Keys, NEW b \in Keys, NEW c \in Keys,
                      Precedes(a, b), Precedes(b, c)
               PROVE  Precedes(a, c)
    OBVIOUS
  <2>1. /\ a[1] \in Int /\ a[2] \in Int /\ a[3] \in Int /\ a[4] \in Int /\ a[5] \in Int
        /\ b[1] \in Int /\ b[2] \in Int /\ b[3] \in Int /\ b[4] \in Int /\ b[5] \in Int
        /\ c[1] \in Int /\ c[2] \in Int /\ c[3] \in Int /\ c[4] \in Int /\ c[5] \in Int
    BY DEF Keys
  <2> QED
    BY <1>4, <2>1
<1> HIDE DEF K, R, key
<1> QED
  BY <1>2, <1>3, <1>5, <1>6, <1>7, <1>8 DEF StrictTotalOrder, K, R

(* The ranked list has every survivor once, the more severe before the      *)
(* less severe.                                                             *)
LEMMA RankedLemma ==
  ASSUME NEW fs, RankableFindings(fs)
  PROVE  /\ Cardinality(Kept(fs)) \in Nat
         /\ DOMAIN Ranked(fs) = 1..Cardinality(Kept(fs))
         /\ \E order \in [1..Cardinality(Kept(fs)) -> Kept(fs)] :
              /\ \A n \in DOMAIN Ranked(fs) : Ranked(fs)[n] = fs[order[n]]
              /\ \A k \in Kept(fs) : \E n \in DOMAIN Ranked(fs) : order[n] = k
              /\ \A m, n \in DOMAIN Ranked(fs) :
                   /\ order[m] = order[n] => m = n
                   /\ m < n => SeverityScore[Ranked(fs)[n].severity]
                                 <= SeverityScore[Ranked(fs)[m].severity]
<1> DEFINE K == Kept(fs)
           N == Cardinality(K)
           order == Arrange(K, RankOrder(fs))
<1>1. K \in SUBSET DOMAIN fs /\ IsFiniteSet(K)
  <2>1. K \in SUBSET DOMAIN fs /\ IsFiniteSet(DOMAIN fs)
    BY DEF Kept, RankableFindings
  <2> QED
    BY <2>1, FS_Subset
<1>2. /\ N \in Nat /\ order \in [1..N -> K]
      /\ \A x \in K : \E n \in 1..N : order[n] = x
      /\ \A m, n \in 1..N : m < n <=> <<order[m], order[n]>> \in RankOrder(fs)
  BY <1>1, RankOrderLemma, ArrangeLemma
<1>3. Ranked(fs) = [n \in 1..N |-> fs[order[n]]]
  <2>1. DOMAIN order = 1..N
    BY <1>2
  <2> QED
    BY <2>1 DEF Ranked, RankOrder
<1> HIDE DEF order, N, K
<1>4. \A m, n \in 1..N : order[m] = order[n] => m = n
  <2> SUFFICES ASSUME NEW m \in 1..N, NEW n \in 1..N, m # n
               PROVE  order[m] # order[n]
    OBVIOUS
  <2>1. m < n \/ n < m
    BY <1>2
  <2>2. \A k \in K : <<k, k>> \notin RankOrder(fs)
    BY RankOrderLemma DEF StrictTotalOrder, K
  <2> QED
    BY <1>2, <2>1, <2>2
<1>5. ASSUME NEW m \in 1..N, NEW n \in 1..N, m < n
      PROVE  SeverityScore[fs[order[n]].severity] <= SeverityScore[fs[order[m]].severity]
  <2>1. order[m] \in DOMAIN fs /\ order[n] \in DOMAIN fs
    BY <1>1, <1>2
  <2>2. Precedes(RankKey(fs, order[m]), RankKey(fs, order[n]))
    BY <1>2, <1>5 DEF RankOrder
  <2>3. /\ SeverityScore[fs[order[m]].severity] \in 1..5
        /\ SeverityScore[fs[order[n]].severity] \in 1..5
    BY <2>1, ScoreBound DEF RankableFindings
  <2>4. PICK a2, a3, a4, a5 \in Int :
          RankKey(fs, order[m]) = <<-SeverityScore[fs[order[m]].severity], a2, a3, a4, a5>>
    BY <2>1, RankKeyLemma
  <2>5. PICK b2, b3, b4, b5 \in Int :
          RankKey(fs, order[n]) = <<-SeverityScore[fs[order[n]].severity], b2, b3, b4, b5>>
    BY <2>1, RankKeyLemma
  <2>6. -SeverityScore[fs[order[m]].severity] <= -SeverityScore[fs[order[n]].severity]
    <3> DEFINE x == -SeverityScore[fs[order[m]].severity]
               y == -SeverityScore[fs[order[n]].severity]
    <3>1. x \in Int /\ y \in Int
      BY <2>3
    <3> HIDE DEF x, y
    <3>2. Precedes(<<x, a2, a3, a4, a5>>, <<y, b2, b3, b4, b5>>)
      BY <2>2, <2>4, <2>5 DEF x, y
    <3>3. x < y \/ x = y
      <4> DEFINE a == <<x, a2, a3, a4, a5>>
                 b == <<y, b2, b3, b4, b5>>
      <4>1. a \in Keys /\ b \in Keys /\ a[1] = x /\ b[1] = y
        BY <3>1 DEF Keys
      <4> HIDE DEF a, b
      <4>2. a[1] < b[1] \/ a[1] = b[1]
        BY <3>2, <4>1, PrecedesUnfold, Zenon DEF a, b
      <4> QED
        BY <4>1, <4>2
    <3>4. x <= y
      BY <3>1, <3>3
    <3> QED
      BY <3>4 DEF x, y
  <2> QED
    BY <2>3, <2>6
<1>6. DOMAIN Ranked(fs) = 1..N /\ \A n \in 1..N : Ranked(fs)[n] = fs[order[n]]
  BY <1>3
<1>7. \A m, n \in 1..N : m < n => SeverityScore[Ranked(fs)[n].severity]
                                    <= SeverityScore[Ranked(fs)[m].severity]
  BY <1>5, <1>6
<1> QED
  BY <1>2, <1>4, <1>6, <1>7 DEF N, K
=============================================================================
