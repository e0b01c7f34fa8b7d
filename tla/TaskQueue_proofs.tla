-------------------------- MODULE TaskQueue_proofs --------------------------
(***************************************************************************)
(* Facts about the Redis list commands, for lists of any length: what      *)
(* LPUSH, the pop at the tail and LREM do to the set of job ids in a list  *)
(* and to their being unique.  The proofs about QueueClients and Worker    *)
(* use the lists only through these facts.                                 *)
(***************************************************************************)
EXTENDS TaskQueue, SequenceTheorems, WellFoundedInduction, TLAPS

(* LPUSH shifts the list by one and puts the new element in front.          *)
LEMMA PushLemma ==
  ASSUME NEW S, NEW list \in Seq(S), NEW x \in S
  PROVE  /\ LPUSH(list, x) \in Seq(S)
         /\ Len(LPUSH(list, x)) = Len(list) + 1
         /\ LPUSH(list, x)[1] = x
         /\ \A i \in 1..Len(list) : LPUSH(list, x)[i + 1] = list[i]
<1>1. <<x>> \in Seq(S) /\ Len(<<x>>) = 1 /\ <<x>>[1] = x
  OBVIOUS
<1> QED
  BY <1>1, ConcatProperties DEF LPUSH, Cons

(* The list without its last element.                                       *)
LEMMA FrontLemma ==
  ASSUME NEW S, NEW list \in Seq(S), list # <<>>
  PROVE  /\ Front(list) \in Seq(S)
         /\ Len(Front(list)) = Len(list) - 1
         /\ \A i \in 1..(Len(list) - 1) : Front(list)[i] = list[i]
         /\ Len(list) \in Nat \ {0}
         /\ Last(list) = list[Len(list)]
         /\ Last(list) \in S
<1> DEFINE n == Len(list) - 1
<1>1. n \in Nat /\ Len(list) = n + 1
  OBVIOUS
<1>2. \A i \in 1..n : list[i] \in S
  OBVIOUS
<1>3. Last(list) = list[Len(list)] /\ Last(list) \in S
  BY <1>1 DEF Last
<1> HIDE DEF n
<1>4. n - 1 + 1 = n /\ (~(1 <= n) => n = 0) /\ n \in Int /\ \A i \in 1..n : 1 + i - 1 = i
  BY <1>1
<1>5. /\ SubSeq(list, 1, n) \in Seq(S)
      /\ Len(SubSeq(list, 1, n)) = n
      /\ \A i \in 1..n : SubSeq(list, 1, n)[i] = list[i]
  BY <1>2, <1>4, SubSeqProperties
<1>6. Front(list) = SubSeq(list, 1, n)
  BY DEF Front, n
<1> QED
  BY <1>1, <1>3, <1>5, <1>6

(* Removing position i shifts what comes after it by one.                   *)
LEMMA RemoveAtLemma ==
  ASSUME NEW S, NEW list \in Seq(S), NEW i \in 1..Len(list)
  PROVE  /\ RemoveAt(list, i) \in Seq(S)
         /\ Len(RemoveAt(list, i)) = Len(list) - 1
         /\ \A k \in 1..(Len(list) - 1) :
              RemoveAt(list, i)[k] = list[IF k < i THEN k ELSE k + 1]
<1> DEFINE a == SubSeq(list, 1, i - 1)
           b == SubSeq(list, i + 1, Len(list))
<1>0. Len(list) \in Nat /\ i \in Nat /\ 1 <= i /\ i <= Len(list)
  OBVIOUS
<1>1. a \in Seq(S) /\ Len(a) = i - 1 /\ \A k \in 1..(i - 1) : a[k] = list[k]
  <2>1. \A k \in 1..(i - 1) : list[k] \in S
    OBVIOUS
  <2> QED
    BY <2>1, SubSeqProperties
<1>2. b \in Seq(S) /\ Len(b) = Len(list) - i /\ \A k \in 1..(Len(list) - i) : b[k] = list[i + k]
  <2>1. \A k \in (i + 1)..Len(list) : list[k] \in S
    OBVIOUS
  <2>2. Len(list) - (i + 1) + 1 = Len(list) - i /\ i + 1 \in Int /\ Len(list) \in Int
    BY <1>0
  <2>3. /\ b \in Seq(S)
        /\ Len(b) = IF i + 1 <= Len(list) THEN Len(list) - (i + 1) + 1 ELSE 0
        /\ \A k \in 1..(Len(list) - (i + 1) + 1) : b[k] = list[i + 1 + k - 1]
    BY <2>1, <2>2, SubSeqProperties
  <2>4. \A k \in 1..(Len(list) - i) : i + 1 + k - 1 = i + k
    BY <1>0
  <2>5. (i + 1 <= Len(list)) \/ (Len(list) - i = 0 /\ ~(i + 1 <= Len(list)))
    BY <1>0
  <2> HIDE DEF b
  <2>6. Len(b) = Len(list) - i
    BY <2>2, <2>3, <2>5
  <2> QED
    BY <2>2, <2>3, <2>4, <2>6
<1> HIDE DEF a, b
<1>3. RemoveAt(list, i) = a \o b
  BY DEF RemoveAt, a, b
<1>4. /\ a \o b \in Seq(S)
      /\ Len(a \o b) = Len(a) + Len(b)
      /\ \A k \in 1..(Len(a) + Len(b)) :
           (a \o b)[k] = IF k <= Len(a) THEN a[k] ELSE b[k - Len(a)]
  BY <1>1, <1>2, ConcatProperties
<1>5. Len(a) + Len(b) = Len(list) - 1
  BY <1>0, <1>1, <1>2
<1>6. ASSUME NEW k \in 1..(Len(list) - 1)
      PROVE  (a \o b)[k] = list[IF k < i THEN k ELSE k + 1]
  <2>1. CASE k < i
    <3>1. k \in 1..(i - 1) /\ k <= Len(a)
      BY <1>0, <1>1, <2>1
    <3> QED
      BY <3>1, <2>1, <1>1, <1>4, <1>5
  <2>2. CASE ~(k < i)
    <3>1. ~(k <= Len(a)) /\ k - Len(a) \in 1..(Len(list) - i) /\ i + (k - Len(a)) = k + 1
      BY <1>0, <1>1, <2>2
    <3> QED
      BY <3>1, <2>2, <1>2, <1>4, <1>5
  <2> QED
    BY <2>1, <2>2
<1> QED
  BY <1>3, <1>4, <1>5, <1>6

(* A set of naturals has a least element: < is well founded.                *)
LEMMA LeastLemma ==
  ASSUME NEW I \in SUBSET Nat, I # {}
  PROVE  \E m \in I : \A k \in I : m <= k
<1> DEFINE R == OpToRel(<, Nat)
<1>1. IsWellFoundedOn(R, Nat)
  BY NatLessThanWellFounded
<1>2. \A a, b \in Nat : <<a, b>> \in R <=> a < b
  BY DEF OpToRel
<1> HIDE DEF R
<1>3. PICK m \in I : \A k \in I : ~(<<k, m>> \in R)
  BY <1>1, WFMin
<1>4. \A k \in I : ~(k < m)
  BY <1>2, <1>3
<1>5. \A k \in I : m <= k
  BY <1>4
<1> QED
  BY <1>5

(* LREM removes one matching position, or nothing.                          *)
LEMMA LremLemma ==
  ASSUME NEW S, NEW list \in Seq(S), NEW x
  PROVE  \/ LREM(list, x) = list /\ \A i \in 1..Len(list) : list[i] # x
         \/ \E i \in 1..Len(list) : list[i] = x /\ LREM(list, x) = RemoveAt(list, i)
<1>1. CASE \A i \in 1..Len(list) : list[i] # x
  BY <1>1 DEF LREM, RemoveFirst
<1>2. CASE \E i \in 1..Len(list) : list[i] = x
  <2> DEFINE I == {i \in 1..Len(list) : list[i] = x}
  <2>1. I \in SUBSET Nat /\ I # {}
    BY <1>2
  <2>2. PICK m \in I : \A k \in I : m <= k
    BY <2>1, LeastLemma
  <2>3. Min(I) \in I
    BY <2>2 DEF Min
  <2>4. SelectInSeq(list, LAMBDA v : v = x) = Min(I)
    BY <2>1 DEF SelectInSeq
  <2> QED
    BY <1>2, <2>3, <2>4 DEF LREM, RemoveFirst
<1> QED
  BY <1>1, <1>2

-----------------------------------------------------------------------------
(* The same commands on the set of ids and on the elements.                 *)

(* What the proofs use of a list that LPUSH, the pop at the tail or LREM    *)
(* made of another.                                                         *)
OnceIn(list) == \A i, k \in 1..Len(list) : list[i].id = list[k].id => i = k

Pushed(new, list, x) ==
    /\ Ids(new) = {x.id} \cup Ids(list)
    /\ OnceIn(list) /\ x.id \notin Ids(list) => OnceIn(new)
    /\ UniqueIn(list) /\ (x.id \in Tracked => x.id \notin Ids(list)) => UniqueIn(new)
    /\ \A i \in 1..Len(new) : new[i] = x \/ \E k \in 1..Len(list) : new[i] = list[k]
    /\ \A i \in 1..Len(list) : \E k \in 1..Len(new) : new[k] = list[i]
    /\ \E k \in 1..Len(new) : new[k] = x

Popped(new, list) ==
    /\ Ids(list) = {Last(list).id} \cup Ids(new)
    /\ OnceIn(list) => OnceIn(new) /\ Last(list).id \notin Ids(new)
    /\ UniqueIn(list) => /\ UniqueIn(new)
                         /\ Last(list).id \in Tracked => Last(list).id \notin Ids(new)
    /\ \A i \in 1..Len(new) : \E k \in 1..Len(list) : new[i] = list[k]
    /\ \E k \in 1..Len(list) : list[k] = Last(list)

Removed(new, list, x) ==
    /\ Ids(new) \subseteq Ids(list)
    /\ Ids(list) \subseteq Ids(new) \cup {x.id}
    /\ \A i \in 1..Len(list) : list[i].id # x.id => \E k \in 1..Len(new) : new[k] = list[i]
    /\ UniqueIn(list) =>
         /\ UniqueIn(new)
         /\ (x.id \in Tracked /\ \E i \in 1..Len(list) : list[i] = x) => x.id \notin Ids(new)

LEMMA PushIds ==
  ASSUME NEW S, NEW list \in Seq(S), NEW x \in S
  PROVE  LPUSH(list, x) \in Seq(S) /\ Pushed(LPUSH(list, x), list, x)
<1> DEFINE new == LPUSH(list, x)
<1>0. Len(list) \in Nat
  OBVIOUS
<1> HIDE DEF new
<1>1. /\ new \in Seq(S) /\ Len(new) = Len(list) + 1 /\ new[1] = x
      /\ \A i \in 1..Len(list) : new[i + 1] = list[i]
      /\ Len(list) \in Nat
  BY <1>0, PushLemma DEF new
<1>2. \A i \in 1..Len(new) : i = 1 \/ (i - 1 \in 1..Len(list) /\ new[i] = list[i - 1])
  BY <1>1
<1>3. 1 \in 1..Len(new) /\ \A i \in 1..Len(list) : i + 1 \in 1..Len(new)
  BY <1>1
<1>4. Ids(new) = {x.id} \cup Ids(list)
  <2>1. Ids(new) \subseteq {x.id} \cup Ids(list)
    BY <1>1, <1>2 DEF Ids
  <2>2. {x.id} \cup Ids(list) \subseteq Ids(new)
    BY <1>1, <1>3 DEF Ids
  <2> QED
    BY <2>1, <2>2
<1>5. ASSUME UniqueIn(list), x.id \in Tracked => x.id \notin Ids(list)
      PROVE  UniqueIn(new)
  <2> SUFFICES ASSUME NEW i \in 1..Len(new), NEW k \in 1..Len(new),
                      new[i].id = new[k].id, new[i].id \in Tracked
               PROVE  i = k
    BY DEF UniqueIn
  <2>1. CASE i = 1 /\ k = 1
    BY <2>1
  <2>2. CASE i = 1 /\ k # 1
    BY <1>1, <1>2, <1>5, <2>2 DEF Ids
  <2>3. CASE i # 1 /\ k = 1
    BY <1>1, <1>2, <1>5, <2>3 DEF Ids
  <2>4. CASE i # 1 /\ k # 1
    <3>1. i - 1 = k - 1
      BY <1>2, <1>5, <2>4 DEF UniqueIn
    <3> QED
      BY <3>1
  <2> QED
    BY <2>1, <2>2, <2>3, <2>4
<1>6. \A i \in 1..Len(new) : new[i] = x \/ \E k \in 1..Len(list) : new[i] = list[k]
  BY <1>1, <1>2
<1>7. \A i \in 1..Len(list) : \E k \in 1..Len(new) : new[k] = list[i]
  BY <1>1, <1>3
<1>8. \E k \in 1..Len(new) : new[k] = x
  BY <1>1, <1>3
<1>9. ASSUME OnceIn(list), x.id \notin Ids(list)
      PROVE  OnceIn(new)
  <2> SUFFICES ASSUME NEW i \in 1..Len(new), NEW k \in 1..Len(new), new[i].id = new[k].id
               PROVE  i = k
    BY DEF OnceIn
  <2>1. CASE i = 1 \/ k = 1
    BY <1>1, <1>2, <1>9, <2>1 DEF Ids
  <2>2. CASE i # 1 /\ k # 1
    <3>1. i - 1 = k - 1
      BY <1>2, <1>9, <2>2 DEF OnceIn
    <3> QED
      BY <3>1
  <2> QED
    BY <2>1, <2>2
<1>10. Pushed(new, list, x)
  BY <1>4, <1>5, <1>6, <1>7, <1>8, <1>9 DEF Pushed
<1> QED
  BY <1>1, <1>10 DEF new

LEMMA PopIds ==
  ASSUME NEW S, NEW list \in Seq(S), list # <<>>
  PROVE  Front(list) \in Seq(S) /\ Last(list) \in S /\ Popped(Front(list), list)
<1> DEFINE new == Front(list)
           n == Len(list)
<1>1. /\ new \in Seq(S) /\ Len(new) = n - 1
      /\ \A i \in 1..(n - 1) : new[i] = list[i]
      /\ n \in Nat \ {0} /\ Last(list) = list[n] /\ Last(list) \in S
  BY FrontLemma
<1>2. n = Len(list)
  OBVIOUS
<1> HIDE DEF new, n
<1>3. \A i \in 1..Len(new) : i \in 1..Len(list) /\ new[i] = list[i] /\ i # n
  BY <1>1, <1>2
<1>4. \A i \in 1..Len(list) : i = n \/ (i \in 1..Len(new) /\ new[i] = list[i])
  BY <1>1, <1>2
<1>5. n \in 1..Len(list)
  BY <1>1, <1>2
<1>6. Ids(list) = {Last(list).id} \cup Ids(new)
  <2>1. Ids(list) \subseteq {Last(list).id} \cup Ids(new)
    BY <1>1, <1>4 DEF Ids
  <2>2. {Last(list).id} \cup Ids(new) \subseteq Ids(list)
    BY <1>1, <1>3, <1>5 DEF Ids
  <2> QED
    BY <2>1, <2>2
<1>7. ASSUME UniqueIn(list)
      PROVE  UniqueIn(new) /\ (Last(list).id \in Tracked => Last(list).id \notin Ids(new))
  <2>1. UniqueIn(new)
    BY <1>3, <1>7 DEF UniqueIn
  <2>2. Last(list).id \in Tracked => Last(list).id \notin Ids(new)
    BY <1>1, <1>3, <1>5, <1>7 DEF UniqueIn, Ids
  <2> QED
    BY <2>1, <2>2
<1>8. \A i \in 1..Len(new) : \E k \in 1..Len(list) : new[i] = list[k]
  BY <1>3
<1>9. ASSUME OnceIn(list)
      PROVE  OnceIn(new) /\ Last(list).id \notin Ids(new)
  <2>1. OnceIn(new)
    BY <1>3, <1>9 DEF OnceIn
  <2>2. Last(list).id \notin Ids(new)
    BY <1>1, <1>3, <1>5, <1>9 DEF OnceIn, Ids
  <2> QED
    BY <2>1, <2>2
<1>10. Popped(new, list)
  BY <1>1, <1>5, <1>6, <1>7, <1>8, <1>9 DEF Popped
<1> QED
  BY <1>1, <1>10 DEF new

LEMMA LremIds ==
  ASSUME NEW S, NEW list \in Seq(S), NEW x
  PROVE  LREM(list, x) \in Seq(S) /\ Removed(LREM(list, x), list, x)
<1> DEFINE new == LREM(list, x)
<1>1. CASE new = list /\ \A i \in 1..Len(list) : list[i] # x
  BY <1>1 DEF Removed
<1>2. CASE \E i \in 1..Len(list) : list[i] = x /\ new = RemoveAt(list, i)
  <2>1. PICK i \in 1..Len(list) : list[i] = x /\ new = RemoveAt(list, i)
    BY <1>2
  <2>2. /\ new \in Seq(S)
        /\ Len(new) = Len(list) - 1
        /\ \A k \in 1..(Len(list) - 1) : new[k] = list[IF k < i THEN k ELSE k + 1]
        /\ Len(list) \in Nat
    <3>1. /\ RemoveAt(list, i) \in Seq(S)
          /\ Len(RemoveAt(list, i)) = Len(list) - 1
          /\ \A k \in 1..(Len(list) - 1) :
                RemoveAt(list, i)[k] = list[IF k < i THEN k ELSE k + 1]
          /\ Len(list) \in Nat
      BY RemoveAtLemma
    <3> HIDE DEF new
    <3> QED
      BY ONLY <2>1, <3>1
  <2> DEFINE old(k) == IF k < i THEN k ELSE k + 1
             pos(k) == IF k < i THEN k ELSE k - 1
  <2> HIDE DEF new
  <2>3. \A k \in 1..Len(new) : old(k) \in 1..Len(list) /\ old(k) # i /\ new[k] = list[old(k)]
    BY <2>2
  <2>4. \A k, h \in 1..Len(new) : old(k) = old(h) => k = h
    BY <2>2
  <2>5. \A k \in 1..Len(list) : k # i => pos(k) \in 1..Len(new) /\ new[pos(k)] = list[k]
    BY <2>2
  <2> HIDE DEF old, pos
  <2>6. Ids(new) \subseteq Ids(list)
    BY <2>3 DEF Ids
  <2>7. Ids(list) \subseteq Ids(new) \cup {x.id}
    BY <2>1, <2>5 DEF Ids
  <2>8. \A k \in 1..Len(list) : list[k].id # x.id => \E h \in 1..Len(new) : new[h] = list[k]
    BY <2>1, <2>5
  <2>9. ASSUME UniqueIn(list)
        PROVE  UniqueIn(new) /\ (x.id \in Tracked => x.id \notin Ids(new))
    <3>1. UniqueIn(new)
      BY <2>3, <2>4, <2>9 DEF UniqueIn
    <3>2. x.id \in Tracked => x.id \notin Ids(new)
      BY <2>1, <2>3, <2>9 DEF UniqueIn, Ids
    <3> QED
      BY <3>1, <3>2
  <2>10. Removed(new, list, x)
    BY <2>6, <2>7, <2>8, <2>9 DEF Removed
  <2> QED
    BY <2>2, <2>10 DEF new
<1> QED
  BY <1>1, <1>2, LremLemma

-----------------------------------------------------------------------------
(* The steps of the methods.                                                *)

LEMMA ParseLemma ==
  ASSUME NEW raw \in Entries
  PROVE  /\ Parse(raw) \in ParsedJobs
         /\ Parse(raw).id = raw.id
         /\ Parse(raw).retry = raw.retry
         /\ Dump(Parse(raw)) \in Entries
         /\ Dump(Parse(raw)).id = raw.id
         /\ raw.form = "native" => Dump(Parse(raw)) = raw
  BY DEF Parse, Dump, ParsedJobs, Entries, Forms

LEMMA PushNewStep ==
  ASSUME QueueTypeOK, NEW j \in Jobs, PushNew(j)
  PROVE  /\ QueueTypeOK'
         /\ processing' = processing /\ deadLetter' = deadLetter
         /\ \E e \in Entries : /\ Pushed(pending', pending, e)
                               /\ e.id = j
                               /\ j \in Tracked => e.form # "extended"
<1> DEFINE e == [id |-> j, retry |-> 0, form |-> FormOf(j)]
<1>1. e \in Entries /\ e.id = j /\ (j \in Tracked => e.form # "extended")
  BY DEF Entries, Forms, FormOf, Tracked
<1>2. pending' = LPUSH(pending, e) /\ processing' = processing /\ deadLetter' = deadLetter
  BY DEF PushNew
<1> HIDE DEF e
<1>3. pending' \in Seq(Entries) /\ Pushed(pending', pending, e)
  BY <1>1, <1>2, PushIds DEF QueueTypeOK
<1> QED
  BY <1>1, <1>2, <1>3 DEF QueueTypeOK

LEMMA TransferStep ==
  ASSUME QueueTypeOK, Transfer
  PROVE  /\ QueueTypeOK'
         /\ deadLetter' = deadLetter
         /\ Last(pending) \in Entries
         /\ Popped(pending', pending)
         /\ Pushed(processing', processing, Last(pending))
<1>1. /\ pending # <<>> /\ pending' = Front(pending)
      /\ processing' = LPUSH(processing, Last(pending)) /\ deadLetter' = deadLetter
  BY DEF Transfer
<1>2. pending' \in Seq(Entries) /\ Last(pending) \in Entries /\ Popped(pending', pending)
  BY <1>1, PopIds DEF QueueTypeOK
<1>3. processing' \in Seq(Entries) /\ Pushed(processing', processing, Last(pending))
  BY <1>1, <1>2, PushIds DEF QueueTypeOK
<1> QED
  BY <1>1, <1>2, <1>3 DEF QueueTypeOK

LEMMA RemoveStep ==
  ASSUME QueueTypeOK, NEW raw, RemoveInFlight(raw)
  PROVE  /\ QueueTypeOK'
         /\ pending' = pending /\ deadLetter' = deadLetter
         /\ Removed(processing', processing, raw)
<1>1. processing' = LREM(processing, raw) /\ pending' = pending /\ deadLetter' = deadLetter
  BY DEF RemoveInFlight
<1>2. processing' \in Seq(Entries) /\ Removed(processing', processing, raw)
  BY <1>1, LremIds DEF QueueTypeOK
<1> QED
  BY <1>1, <1>2 DEF QueueTypeOK

LEMMA PushDeadStep ==
  ASSUME QueueTypeOK, NEW job \in ParsedJobs, NEW reason \in Reasons, PushDead(job, reason)
  PROVE  /\ QueueTypeOK'
         /\ pending' = pending /\ processing' = processing
         /\ \E e \in DeadEntries : Pushed(deadLetter', deadLetter, e) /\ e.id = job.id
<1> DEFINE e == [id |-> job.id, retry |-> job.retry, reason |-> reason]
<1>1. e \in DeadEntries /\ e.id = job.id
  BY DEF DeadEntries, ParsedJobs
<1>2. deadLetter' = LPUSH(deadLetter, e) /\ pending' = pending /\ processing' = processing
  BY DEF PushDead
<1> HIDE DEF e
<1>3. deadLetter' \in Seq(DeadEntries) /\ Pushed(deadLetter', deadLetter, e)
  BY <1>1, <1>2, PushIds DEF QueueTypeOK
<1> QED
  BY <1>1, <1>2, <1>3 DEF QueueTypeOK

LEMMA PushRetriedStep ==
  ASSUME QueueTypeOK, NEW job \in ParsedJobs, PushRetried(job)
  PROVE  /\ QueueTypeOK'
         /\ processing' = processing /\ deadLetter' = deadLetter
         /\ \E e \in Entries : /\ Pushed(pending', pending, e)
                               /\ e.id = job.id /\ e.form = "native"
<1> DEFINE e == Dump(Retried(job))
<1>1. e \in Entries /\ e.id = job.id /\ e.form = "native"
  BY DEF Dump, Retried, Entries, ParsedJobs, Forms
<1>2. pending' = LPUSH(pending, e) /\ processing' = processing /\ deadLetter' = deadLetter
  BY DEF PushRetried
<1> HIDE DEF e
<1>3. pending' \in Seq(Entries) /\ Pushed(pending', pending, e)
  BY <1>1, <1>2, PushIds DEF QueueTypeOK
<1> QED
  BY <1>1, <1>2, <1>3 DEF QueueTypeOK

(* A job buried by requeue() is pushed to the dead-letter list too.         *)
LEMMA PushExhaustedStep ==
  ASSUME NEW job, PushExhausted(job)
  PROVE  PushDead(job, "retries")
BY DEF PushExhausted, PushDead
=============================================================================
