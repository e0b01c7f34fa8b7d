------------------------ MODULE QueueClients_proofs ------------------------
(***************************************************************************)
(* The consumers of the queue, for any number of jobs, consumers and       *)
(* failures: the type invariant, that a job is never in two places, that   *)
(* first deliveries keep the order of enqueue(), that retries end, that    *)
(* the lists implement the abstract queue, and what a fault may cost.      *)
(***************************************************************************)
EXTENDS QueueClients, TaskQueue_proofs, FiniteSetTheorems

(* The strengthening of OnePlace.  Every job that is anywhere was accepted, *)
(* so enqueue() cannot add a second copy.                                   *)
OnlyAccepted ==
    /\ Somewhere \subseteq Accepted
    /\ \A c \in Consumers : HeldBy(c) \subseteq Accepted

(* The waiting bytes of a tracked job are bytes this version writes, or     *)
(* bytes it does not parse.                                                 *)
FormsKnown ==
    \A i \in 1..Len(pending) : pending[i].id \in Tracked => pending[i].form # "extended"

(* What a consumer is about to remove is there, byte for byte, so its LREM  *)
(* removes it.                                                              *)
HeldIsInFlight ==
    \A c \in Consumers :
        client[c].at \in {"holding", "unparsed"} /\ client[c].raw.id \in Tracked =>
            /\ \E i \in 1..Len(processing) : processing[i] = client[c].raw
            /\ client[c].at = "holding" => client[c].raw.form = "native"

Safe == OnePlace /\ OnlyAccepted /\ FormsKnown /\ HeldIsInFlight

IInv == TypeOK /\ Safe

-----------------------------------------------------------------------------
(* The type invariant.                                                      *)

(* A consumer with something to do holds an entry.                          *)
LEMMA BusyLemma ==
  ASSUME TypeOK, NEW c \in Consumers, client[c].at # "idle"
  PROVE  /\ client[c] \in Busy
         /\ client[c].raw \in Entries
         /\ client[c] # Idle
         /\ HeldBy(c) = {client[c].raw.id}
<1>1. client[c] \in {Idle} \cup Busy
  BY DEF TypeOK
<1>2. client[c] # Idle
  BY DEF Idle
<1>3. client[c] \in Busy
  BY <1>1, <1>2
<1>4. client[c].raw \in Entries
  BY <1>3 DEF Busy
<1> QED
  BY <1>2, <1>3, <1>4 DEF HeldBy

LEMMA TypeStep ==
  ASSUME TypeOK, [Next]_vars
  PROVE  TypeOK'
<1> USE DEF TypeOK
<1>0. QueueTypeOK
  OBVIOUS
<1>1. ASSUME NEW j \in Jobs, Enqueue(j)
      PROVE  TypeOK'
  <2>1. QueueTypeOK'
    BY <1>0, <1>1, PushNewStep DEF Enqueue
  <2>2. accepted' \in Seq(Jobs)
    BY <1>1 DEF Enqueue
  <2> QED
    BY <1>1, <2>1, <2>2 DEF Enqueue
<1>2. ASSUME NEW c \in Consumers, Dequeue(c)
      PROVE  TypeOK'
  <2>1. QueueTypeOK' /\ Last(pending) \in Entries
    BY <1>0, <1>2, TransferStep DEF Dequeue
  <2>2. client' \in [Consumers -> {Idle} \cup Busy]
    BY <1>2, <2>1 DEF Dequeue, Becomes, Busy
  <2> QED
    BY <1>2, <2>1, <2>2 DEF Dequeue
<1>3. ASSUME NEW c \in Consumers, MalformedRemove(c)
      PROVE  TypeOK'
  <2>1. QueueTypeOK' /\ client[c].raw \in Entries
    BY <1>0, <1>3, RemoveStep, BusyLemma DEF MalformedRemove
  <2>2. client' \in [Consumers -> {Idle} \cup Busy]
    BY <1>3, <2>1 DEF MalformedRemove, Becomes, Busy
  <2> QED
    BY <1>3, <2>1, <2>2 DEF MalformedRemove
<1>4. ASSUME NEW c \in Consumers, MalformedPush(c)
      PROVE  TypeOK'
  <2>1. Parse(client[c].raw) \in ParsedJobs
    BY <1>4, BusyLemma, ParseLemma DEF MalformedPush
  <2>2. QueueTypeOK'
    BY <1>0, <1>4, <2>1, PushDeadStep DEF MalformedPush, Reasons
  <2> QED
    BY <1>4, <2>2 DEF MalformedPush, Return
<1>5. ASSUME NEW c \in Consumers, Ack(c)
      PROVE  TypeOK'
  <2>1. QueueTypeOK' /\ client[c].raw \in Entries
    BY <1>0, <1>5, RemoveStep, BusyLemma DEF Ack
  <2>2. acked' \subseteq Jobs
    BY <1>5, <2>1 DEF Ack, Entries
  <2> QED
    BY <1>5, <2>1, <2>2 DEF Ack, Return
<1>6. ASSUME NEW c \in Consumers, RequeueRemove(c)
      PROVE  TypeOK'
  <2>1. QueueTypeOK' /\ client[c].raw \in Entries
    BY <1>0, <1>6, RemoveStep, BusyLemma DEF RequeueRemove
  <2>2. client' \in [Consumers -> {Idle} \cup Busy]
    BY <1>6, <2>1 DEF RequeueRemove, Becomes, Busy
  <2> QED
    BY <1>6, <2>1, <2>2 DEF RequeueRemove
<1>7. ASSUME NEW c \in Consumers, RequeuePush(c)
      PROVE  TypeOK'
  <2>1. Parse(client[c].raw) \in ParsedJobs
    BY <1>7, BusyLemma, ParseLemma DEF RequeuePush
  <2>2. QueueTypeOK'
    <3>1. CASE PushExhausted(Parse(client[c].raw))
      BY <1>0, <2>1, <3>1, PushExhaustedStep, PushDeadStep DEF Reasons
    <3>2. CASE PushRetried(Parse(client[c].raw))
      BY <1>0, <2>1, <3>2, PushRetriedStep
    <3> QED
      BY <1>7, <3>1, <3>2 DEF RequeuePush, PushRequeue
  <2> QED
    BY <1>7, <2>2 DEF RequeuePush, Return
<1>8. ASSUME NEW c \in Consumers, DeadLetterRemove(c)
      PROVE  TypeOK'
  <2>1. QueueTypeOK' /\ client[c].raw \in Entries
    BY <1>0, <1>8, RemoveStep, BusyLemma DEF DeadLetterRemove
  <2>2. client' \in [Consumers -> {Idle} \cup Busy]
    BY <1>8, <2>1 DEF DeadLetterRemove, Becomes, Busy
  <2> QED
    BY <1>8, <2>1, <2>2 DEF DeadLetterRemove
<1>9. ASSUME NEW c \in Consumers, DeadLetterPush(c)
      PROVE  TypeOK'
  <2>1. Parse(client[c].raw) \in ParsedJobs
    BY <1>9, BusyLemma, ParseLemma DEF DeadLetterPush
  <2>2. QueueTypeOK'
    BY <1>0, <1>9, <2>1, PushDeadStep DEF DeadLetterPush, Reasons
  <2> QED
    BY <1>9, <2>2 DEF DeadLetterPush, Return
<1>10. ASSUME NEW c \in Consumers, Fail(c)
       PROVE  TypeOK'
  BY <1>10, ClientsAssumption DEF Fail, Return, QueueTypeOK
<1>11. CASE UNCHANGED vars
  BY <1>11 DEF vars, QueueTypeOK
<1> QED
  BY <1>1, <1>2, <1>3, <1>4, <1>5, <1>6, <1>7, <1>8, <1>9, <1>10, <1>11 DEF Next, Step

(* Every list and every consumer holds well-formed jobs (task_queue.py).    *)
THEOREM TypeCorrect == Spec => []TypeOK
<1>1. Init => TypeOK
  BY ClientsAssumption DEF Init, QueueInit, TypeOK, QueueTypeOK, Idle
<1>2. TypeOK /\ [Next]_vars => TypeOK'
  BY TypeStep
<1> QED
  BY <1>1, <1>2, PTL DEF Spec

-----------------------------------------------------------------------------
(* One place.                                                               *)

(* A consumer changes what it does: nobody else is concerned.               *)
LEMMA ClientStep ==
  ASSUME TypeOK, NEW c \in Consumers, NEW v \in {Idle} \cup Busy,
         client' = [client EXCEPT ![c] = v]
  PROVE  /\ client'[c] = v
         /\ \A d \in Consumers : d # c => client'[d] = client[d] /\ HeldBy(d)' = HeldBy(d)
         /\ HeldBy(c)' = IF v = Idle THEN {} ELSE {v.raw.id}
         /\ \A j \in InHandOver' :
              \/ v.at \in HandOver /\ v.raw.id = j
              \/ \E d \in Consumers : d # c /\ j \in HeldBy(d) /\ j \in InHandOver
<1>1. client'[c] = v /\ \A d \in Consumers : d # c => client'[d] = client[d]
  BY DEF TypeOK
<1>2. HeldBy(c)' = IF v = Idle THEN {} ELSE {v.raw.id}
  BY <1>1 DEF HeldBy
<1>3. \A d \in Consumers : d # c => HeldBy(d)' = HeldBy(d)
  BY <1>1 DEF HeldBy
<1>4. ASSUME NEW j \in InHandOver'
      PROVE  \/ v.at \in HandOver /\ v.raw.id = j
             \/ \E d \in Consumers : d # c /\ j \in HeldBy(d) /\ j \in InHandOver
  <2>1. PICK d \in Consumers : client'[d].at \in HandOver /\ client'[d].raw.id = j
    BY DEF InHandOver
  <2>2. CASE d = c
    BY <1>1, <2>1, <2>2
  <2>3. CASE d # c
    <3>1. client[d].at \in HandOver /\ client[d].raw.id = j
      BY <1>1, <2>1, <2>3
    <3>2. j \in InHandOver
      BY <3>1 DEF InHandOver
    <3>3. j \in HeldBy(d)
      BY <3>1, BusyLemma DEF HandOver
    <3> QED
      BY <2>3, <3>2, <3>3
  <2> QED
    BY <2>2, <2>3
<1> QED
  BY <1>1, <1>2, <1>3, <1>4

(* A job in a consumer's hands is in flight.                                *)
LEMMA HeldLemma ==
  ASSUME TypeOK, HeldIsInFlight, NEW c \in Consumers, NEW j \in HeldBy(c), j \in Tracked
  PROVE  j \in InFlight
<1>1. client[c] # Idle /\ client[c].raw.id = j
  BY DEF HeldBy
<1>2. client[c] \in Busy
  BY <1>1 DEF TypeOK
<1>3. CASE client[c].at \in {"holding", "unparsed"}
  BY <1>1, <1>3 DEF HeldIsInFlight, InFlight, Ids
<1>4. CASE client[c].at \in HandOver
  BY <1>1, <1>4 DEF InFlight, InHandOver
<1> QED
  BY <1>2, <1>3, <1>4 DEF Busy, HandOver

(* A step that leaves every list as it is or takes from the processing list *)
(* the job its consumer holds: the four LREM steps.                         *)
LEMMA RemoveCase ==
  ASSUME TypeOK, Safe, NEW c \in Consumers, client[c].at \in {"holding", "unparsed"},
         NEW x, x.id = client[c].raw.id, x.id \in Tracked => x = client[c].raw,
         RemoveInFlight(x),
         NEW v \in {Idle} \cup Busy, client' = [client EXCEPT ![c] = v],
         v = Idle \/ (v.at \in HandOver /\ v.raw = client[c].raw),
         accepted' = accepted,
         acked' = acked \/ (v = Idle /\ acked' = acked \cup {x.id})
  PROVE  Safe'
<1> DEFINE j0 == client[c].raw.id
<1>1. /\ pending' = pending /\ deadLetter' = deadLetter
      /\ Removed(processing', processing, x)
  BY RemoveStep DEF TypeOK
<1>2. /\ client'[c] = v
      /\ HeldBy(c)' = IF v = Idle THEN {} ELSE {v.raw.id}
      /\ \A j \in InHandOver' :
           \/ v.at \in HandOver /\ v.raw.id = j
           \/ \E d \in Consumers : d # c /\ j \in HeldBy(d) /\ j \in InHandOver
  BY ClientStep
<1>3. HeldBy(c) = {j0} /\ HeldBy(c)' \subseteq {j0}
  <2>1. HeldBy(c) = {j0}
    BY BusyLemma
  <2> QED
    BY <1>2, <2>1
<1>4. \A d \in Consumers : d # c => client'[d] = client[d] /\ HeldBy(d)' = HeldBy(d)
  BY ClientStep
<1>5. v = Idle => v.at \notin HandOver \cup {"holding", "unparsed"}
  BY DEF Idle, HandOver
<1>6. \A d \in Consumers : d # c /\ j0 \in Tracked => j0 \notin HeldBy(d)
  BY <1>3 DEF Safe, OnePlace, OneHolder
<1>7. InHandOver' \subseteq InHandOver \cup {j0}
  BY <1>2, <1>5
<1>8. j0 \in Tracked => j0 \in Ids(processing)
  BY DEF Safe, HeldIsInFlight, Ids
<1>9. UniqueIn(processing) => UniqueIn(processing')
  BY <1>1 DEF Removed
<1>10. j0 \in Tracked => j0 \notin Ids(processing')
  BY <1>1 DEF Removed, Safe, OnePlace, NoRepeats, HeldIsInFlight
<1>11. Ids(processing') \subseteq Ids(processing)
  BY <1>1 DEF Removed
<1>12. v = Idle /\ j0 \in Tracked => j0 \notin InHandOver'
  BY <1>2, <1>6, <1>5
<1>13. NoRepeats'
  BY <1>1, <1>9 DEF Safe, OnePlace, NoRepeats
<1>14. NoOverlap'
  <2> SUFFICES ASSUME NEW j \in Tracked
               PROVE  /\ ~(j \in Ids(pending') /\ j \in InFlight')
                      /\ ~(j \in Ids(pending') /\ j \in Ids(deadLetter'))
                      /\ ~(j \in Ids(processing') /\ j \in InHandOver')
                      /\ ~(j \in InFlight' /\ j \in Ids(deadLetter'))
                      /\ j \in acked' => j \notin Ids(pending') \cup InFlight' \cup Ids(deadLetter')
    BY DEF NoOverlap, Tracked
  <2>1. j \in InFlight' => j \in InFlight
    BY <1>7, <1>8, <1>11 DEF InFlight
  <2>2. ~(j \in Ids(processing') /\ j \in InHandOver')
    BY <1>7, <1>10, <1>11 DEF Safe, OnePlace, NoOverlap
  <2>3. ASSUME j \in acked' PROVE j \notin Ids(pending') \cup InFlight' \cup Ids(deadLetter')
    <3>1. CASE j \in acked
      BY <1>1, <2>1, <3>1 DEF Safe, OnePlace, NoOverlap
    <3>2. CASE j \notin acked
      <4>1. j = j0 /\ v = Idle
        BY <2>3, <3>2
      <4>2. j \notin InFlight'
        BY <1>10, <1>12, <4>1 DEF InFlight
      <4>3. j \in InFlight
        BY <1>8, <4>1 DEF InFlight
      <4> QED
        BY <1>1, <4>2, <4>3 DEF Safe, OnePlace, NoOverlap
    <3> QED
      BY <3>1, <3>2
  <2> QED
    BY <1>1, <2>1, <2>2, <2>3 DEF Safe, OnePlace, NoOverlap
<1>15. OneHolder'
  BY <1>3, <1>4 DEF Safe, OnePlace, OneHolder, Tracked
<1>16. OnlyAccepted'
  <2>1. j0 \in Accepted
    BY <1>3 DEF Safe, OnlyAccepted
  <2>2. Ids(processing') \cup InHandOver' \cup acked' \subseteq Accepted
    BY <1>7, <1>11, <2>1 DEF Safe, OnlyAccepted, Somewhere, InFlight
  <2>3. \A d \in Consumers : HeldBy(d)' \subseteq Accepted
    BY <1>3, <1>4, <2>1 DEF Safe, OnlyAccepted
  <2> QED
    BY <1>1, <2>2, <2>3 DEF Safe, OnlyAccepted, Somewhere, InFlight, Accepted
<1>17. FormsKnown'
  BY <1>1 DEF Safe, FormsKnown, Tracked
<1>18. HeldIsInFlight'
  <2> SUFFICES ASSUME NEW d \in Consumers, client'[d].at \in {"holding", "unparsed"},
                      client'[d].raw.id \in Tracked
               PROVE  /\ \E i \in 1..Len(processing') : processing'[i] = client'[d].raw
                      /\ client'[d].at = "holding" => client'[d].raw.form = "native"
    BY DEF HeldIsInFlight, Tracked
  <2>1. d # c
    BY <1>2, <1>5 DEF HandOver
  <2>2. client'[d] = client[d] /\ client[d].raw.id # x.id
    <3>1. client'[d] = client[d]
      BY <1>4, <2>1
    <3>2. HeldBy(d) = {client[d].raw.id}
      BY <3>1, BusyLemma
    <3> QED
      BY <1>6, <2>1, <3>1, <3>2
  <2>3. /\ \E i \in 1..Len(processing) : processing[i] = client[d].raw
        /\ client[d].at = "holding" => client[d].raw.form = "native"
    BY <2>2 DEF Safe, HeldIsInFlight
  <2> QED
    BY <1>1, <2>2, <2>3 DEF Removed
<1> QED
  BY <1>13, <1>14, <1>15, <1>16, <1>17, <1>18 DEF Safe, OnePlace

(* A step that puts the job its consumer holds between an LREM and an LPUSH *)
(* into the pending or the dead-letter list: the LPUSH steps.               *)
LEMMA PushCase ==
  ASSUME TypeOK, Safe, NEW c \in Consumers, client[c].at \in HandOver,
         client' = [client EXCEPT ![c] = Idle],
         accepted' = accepted, acked' = acked, processing' = processing,
         \/ /\ deadLetter' = deadLetter
            /\ \E e \in Entries : /\ Pushed(pending', pending, e)
                                  /\ e.id = client[c].raw.id /\ e.form = "native"
         \/ /\ pending' = pending
            /\ \E e \in DeadEntries : Pushed(deadLetter', deadLetter, e) /\ e.id = client[c].raw.id
  PROVE  Safe'
<1> DEFINE j0 == client[c].raw.id
<1>1. /\ client'[c] = Idle
      /\ HeldBy(c)' = {}
      /\ \A d \in Consumers : d # c => client'[d] = client[d] /\ HeldBy(d)' = HeldBy(d)
      /\ \A j \in InHandOver' : \E d \in Consumers : d # c /\ j \in HeldBy(d) /\ j \in InHandOver
  BY ClientStep DEF Idle, HandOver
<1>2. HeldBy(c) = {j0}
  BY BusyLemma DEF HandOver
<1>3. j0 \in InHandOver
  BY DEF InHandOver
<1>4. \A d \in Consumers : d # c /\ j0 \in Tracked => j0 \notin HeldBy(d)
  BY <1>2 DEF Safe, OnePlace, OneHolder
<1>5. InHandOver' \subseteq InHandOver /\ (j0 \in Tracked => j0 \notin InHandOver')
  BY <1>1, <1>4
<1>6. j0 \in Tracked => /\ j0 \notin Ids(pending) /\ j0 \notin Ids(processing)
                        /\ j0 \notin Ids(deadLetter) /\ j0 \notin acked
  BY <1>3 DEF Safe, OnePlace, NoOverlap, InFlight
<1>7. \/ Ids(pending') = {j0} \cup Ids(pending) /\ deadLetter' = deadLetter
      \/ Ids(deadLetter') = {j0} \cup Ids(deadLetter) /\ pending' = pending
  BY DEF Pushed
<1>8. NoRepeats'
  BY <1>6 DEF Safe, OnePlace, NoRepeats, Pushed
<1>9. NoOverlap'
  <2> SUFFICES ASSUME NEW j \in Tracked
               PROVE  /\ ~(j \in Ids(pending') /\ j \in InFlight')
                      /\ ~(j \in Ids(pending') /\ j \in Ids(deadLetter'))
                      /\ ~(j \in Ids(processing') /\ j \in InHandOver')
                      /\ ~(j \in InFlight' /\ j \in Ids(deadLetter'))
                      /\ j \in acked' => j \notin Ids(pending') \cup InFlight' \cup Ids(deadLetter')
    BY DEF NoOverlap, Tracked
  <2>1. (j \in InFlight' => j \in InFlight) /\ (j = j0 => j \notin InFlight')
    BY <1>5, <1>6 DEF InFlight
  <2>2. ~(j \in Ids(processing) /\ j \in InHandOver')
    BY <1>5 DEF Safe, OnePlace, NoOverlap
  <2> QED
    BY <1>6, <1>7, <2>1, <2>2 DEF Safe, OnePlace, NoOverlap
<1>10. OneHolder'
  BY <1>1 DEF Safe, OnePlace, OneHolder, Tracked
<1>11. OnlyAccepted'
  <2>1. j0 \in Accepted
    BY <1>2 DEF Safe, OnlyAccepted
  <2>2. \A d \in Consumers : HeldBy(d)' \subseteq Accepted
    BY <1>1 DEF Safe, OnlyAccepted
  <2> QED
    BY <1>5, <1>7, <2>1, <2>2 DEF Safe, OnlyAccepted, Somewhere, InFlight, Accepted
<1>12. FormsKnown'
  <2>1. CASE pending' = pending
    BY <2>1 DEF Safe, FormsKnown, Tracked
  <2>2. CASE \E e \in Entries : Pushed(pending', pending, e) /\ e.form = "native"
    BY <2>2 DEF Safe, FormsKnown, Tracked, Pushed
  <2> QED
    BY <2>1, <2>2
<1>13. HeldIsInFlight'
  <2> SUFFICES ASSUME NEW d \in Consumers, client'[d].at \in {"holding", "unparsed"},
                      client'[d].raw.id \in Tracked
               PROVE  /\ \E i \in 1..Len(processing') : processing'[i] = client'[d].raw
                      /\ client'[d].at = "holding" => client'[d].raw.form = "native"
    BY DEF HeldIsInFlight, Tracked
  <2>1. client'[d] = client[d]
    BY <1>1 DEF Idle
  <2> QED
    BY <2>1 DEF Safe, HeldIsInFlight
<1> QED
  BY <1>8, <1>9, <1>10, <1>11, <1>12, <1>13 DEF Safe, OnePlace

LEMMA EnqueueCase ==
  ASSUME TypeOK, Safe, NEW j0 \in Jobs, Enqueue(j0)
  PROVE  Safe'
<1>1. /\ processing' = processing /\ deadLetter' = deadLetter
      /\ acked' = acked /\ client' = client
      /\ accepted' = Append(accepted, j0) /\ j0 \notin Accepted
  BY PushNewStep DEF Enqueue, TypeOK, Accepted
<1>2. PICK e \in Entries : Pushed(pending', pending, e) /\ e.id = j0
                           /\ (j0 \in Tracked => e.form # "extended")
  BY PushNewStep DEF Enqueue, TypeOK
<1>3. Accepted' = Accepted \cup {j0}
  BY <1>1 DEF Accepted, ToSet, TypeOK
<1>4. Ids(pending') = {j0} \cup Ids(pending)
  BY <1>2 DEF Pushed
<1>5. j0 \notin Somewhere
  BY <1>1 DEF Safe, OnlyAccepted
<1>6. InFlight' = InFlight /\ InHandOver' = InHandOver
  BY <1>1 DEF InFlight, InHandOver
<1>7. \A d \in Consumers : HeldBy(d)' = HeldBy(d)
  BY <1>1 DEF HeldBy
<1>8. NoRepeats'
  BY <1>1, <1>2, <1>5 DEF Safe, OnePlace, NoRepeats, Pushed, Somewhere
<1>9. NoOverlap'
  BY <1>1, <1>4, <1>5, <1>6 DEF Safe, OnePlace, NoOverlap, Somewhere, Tracked
<1>10. OneHolder'
  BY <1>7 DEF Safe, OnePlace, OneHolder, Tracked
<1>11. OnlyAccepted'
  BY <1>1, <1>3, <1>4, <1>6, <1>7 DEF Safe, OnlyAccepted, Somewhere
<1>12. FormsKnown'
  BY <1>2 DEF Safe, FormsKnown, Pushed, Tracked
<1>13. HeldIsInFlight'
  BY <1>1 DEF Safe, HeldIsInFlight, Tracked
<1> QED
  BY <1>8, <1>9, <1>10, <1>11, <1>12, <1>13 DEF Safe, OnePlace

LEMMA DequeueCase ==
  ASSUME TypeOK, Safe, NEW c \in Consumers, Dequeue(c)
  PROVE  Safe'
<1> DEFINE raw == Last(pending)
           v == [at |-> IF raw.form = "malformed" THEN "unparsed" ELSE "holding", raw |-> raw]
<1>1. /\ QueueTypeOK' /\ deadLetter' = deadLetter /\ raw \in Entries
      /\ Popped(pending', pending) /\ Pushed(processing', processing, raw)
  BY TransferStep DEF Dequeue, TypeOK
<1>2. /\ client[c] = Idle /\ client' = [client EXCEPT ![c] = v]
      /\ accepted' = accepted /\ acked' = acked
  BY DEF Dequeue, Becomes
<1> HIDE DEF raw
<1>3. /\ v \in Busy /\ v # Idle /\ v.at \notin HandOver /\ v.raw = raw
      /\ v.at = "holding" => raw.form # "malformed"
  BY <1>1 DEF Busy, Idle, HandOver
<1> HIDE DEF v
<1>4. /\ client'[c] = v
      /\ HeldBy(c)' = {raw.id}
      /\ \A d \in Consumers : d # c => client'[d] = client[d] /\ HeldBy(d)' = HeldBy(d)
      /\ InHandOver' \subseteq InHandOver
  BY <1>2, <1>3, ClientStep
<1>5. /\ Ids(pending) = {raw.id} \cup Ids(pending')
      /\ raw.id \in Tracked => raw.id \notin Ids(pending')
  BY <1>1 DEF Popped, Safe, OnePlace, NoRepeats, raw
<1>6. Ids(processing') = {raw.id} \cup Ids(processing)
  BY <1>1 DEF Pushed
<1>7. raw.id \in Tracked => /\ raw.id \notin InFlight /\ raw.id \notin Ids(deadLetter)
                            /\ raw.id \notin acked
  BY <1>5 DEF Safe, OnePlace, NoOverlap
<1>8. NoRepeats'
  BY <1>1, <1>7 DEF Safe, OnePlace, NoRepeats, Pushed, Popped, InFlight
<1>9. NoOverlap'
  <2> SUFFICES ASSUME NEW j \in Tracked
               PROVE  /\ ~(j \in Ids(pending') /\ j \in InFlight')
                      /\ ~(j \in Ids(pending') /\ j \in Ids(deadLetter'))
                      /\ ~(j \in Ids(processing') /\ j \in InHandOver')
                      /\ ~(j \in InFlight' /\ j \in Ids(deadLetter'))
                      /\ j \in acked' => j \notin Ids(pending') \cup InFlight' \cup Ids(deadLetter')
    BY DEF NoOverlap, Tracked
  <2>1. j \in InFlight' => j = raw.id \/ j \in InFlight
    BY <1>4, <1>6 DEF InFlight
  <2>2. ~(j \in Ids(processing') /\ j \in InHandOver')
    BY <1>4, <1>6, <1>7 DEF Safe, OnePlace, NoOverlap, InFlight
  <2> QED
    BY <1>1, <1>2, <1>5, <1>7, <2>1, <2>2 DEF Safe, OnePlace, NoOverlap
<1>10. OneHolder'
  <2>1. ASSUME NEW d \in Consumers, d # c
        PROVE  raw.id \in Tracked => raw.id \notin HeldBy(d)
    BY <1>7, HeldLemma DEF Safe
  <2> QED
    BY <1>4, <2>1 DEF Safe, OnePlace, OneHolder, Tracked
<1>11. OnlyAccepted'
  <2>1. raw.id \in Accepted
    BY <1>5 DEF Safe, OnlyAccepted, Somewhere
  <2>2. \A d \in Consumers : HeldBy(d)' \subseteq Accepted
    BY <1>4, <2>1 DEF Safe, OnlyAccepted
  <2> QED
    BY <1>1, <1>2, <1>4, <1>5, <1>6, <2>1, <2>2 DEF Safe, OnlyAccepted, Somewhere, InFlight, Accepted
<1>12. FormsKnown'
  BY <1>1 DEF Safe, FormsKnown, Popped, Tracked
<1>13. HeldIsInFlight'
  <2> SUFFICES ASSUME NEW d \in Consumers, client'[d].at \in {"holding", "unparsed"},
                      client'[d].raw.id \in Tracked
               PROVE  /\ \E i \in 1..Len(processing') : processing'[i] = client'[d].raw
                      /\ client'[d].at = "holding" => client'[d].raw.form = "native"
    BY DEF HeldIsInFlight, Tracked
  <2>1. CASE d = c
    <3>1. raw.form # "extended"
      BY <1>1, <1>3, <1>4, <2>1 DEF Safe, FormsKnown, Popped, raw
    <3> QED
      BY <1>1, <1>3, <1>4, <2>1, <3>1 DEF Pushed, Entries, Forms
  <2>2. CASE d # c
    <3>1. /\ \E i \in 1..Len(processing) : processing[i] = client[d].raw
          /\ client[d].at = "holding" => client[d].raw.form = "native"
      BY <1>4, <2>2 DEF Safe, HeldIsInFlight
    <3> QED
      BY <1>1, <1>4, <2>2, <3>1 DEF Pushed
  <2> QED
    BY <2>1, <2>2
<1> QED
  BY <1>8, <1>9, <1>10, <1>11, <1>12, <1>13 DEF Safe, OnePlace

LEMMA FailCase ==
  ASSUME TypeOK, Safe, NEW c \in Consumers, Fail(c)
  PROVE  Safe'
<1>1. /\ pending' = pending /\ processing' = processing /\ deadLetter' = deadLetter
      /\ accepted' = accepted /\ acked' = acked /\ client' = [client EXCEPT ![c] = Idle]
  BY DEF Fail, Return
<1>2. /\ client'[c] = Idle
      /\ HeldBy(c)' = {}
      /\ \A d \in Consumers : d # c => client'[d] = client[d] /\ HeldBy(d)' = HeldBy(d)
      /\ InHandOver' \subseteq InHandOver
  BY <1>1, ClientStep DEF Idle, HandOver
<1>3. NoRepeats'
  BY <1>1 DEF Safe, OnePlace, NoRepeats
<1>4. NoOverlap'
  BY <1>1, <1>2 DEF Safe, OnePlace, NoOverlap, InFlight, Tracked
<1>5. OneHolder'
  BY <1>2 DEF Safe, OnePlace, OneHolder, Tracked
<1>6. OnlyAccepted'
  <2>1. \A d \in Consumers : HeldBy(d)' \subseteq Accepted
    BY <1>2 DEF Safe, OnlyAccepted
  <2> QED
    BY <1>1, <1>2, <2>1 DEF Safe, OnlyAccepted, Somewhere, InFlight, Accepted
<1>7. FormsKnown'
  BY <1>1 DEF Safe, FormsKnown, Tracked
<1>8. HeldIsInFlight'
  BY <1>1, <1>2 DEF Safe, HeldIsInFlight, Tracked, Idle
<1> QED
  BY <1>3, <1>4, <1>5, <1>6, <1>7, <1>8 DEF Safe, OnePlace

LEMMA SafeStep ==
  ASSUME TypeOK, Safe, [Next]_vars
  PROVE  Safe'
<1>1. ASSUME NEW j \in Jobs, Enqueue(j)
      PROVE  Safe'
  BY <1>1, EnqueueCase
<1>2. ASSUME NEW c \in Consumers, Dequeue(c)
      PROVE  Safe'
  BY <1>2, DequeueCase
<1>3. ASSUME NEW c \in Consumers, MalformedRemove(c)
      PROVE  Safe'
  <2> DEFINE v == [at |-> "unparsed_push", raw |-> client[c].raw]
  <2>1. v \in Busy /\ v.at \in HandOver /\ v.raw = client[c].raw
    BY <1>3, BusyLemma DEF MalformedRemove, Busy, HandOver
  <2>2. client' = [client EXCEPT ![c] = v]
    BY <1>3 DEF MalformedRemove, Becomes
  <2> HIDE DEF v
  <2> QED
    BY <1>3, <2>1, <2>2, RemoveCase DEF MalformedRemove
<1>4. ASSUME NEW c \in Consumers, MalformedPush(c)
      PROVE  Safe'
  <2>1. Parse(client[c].raw) \in ParsedJobs /\ Parse(client[c].raw).id = client[c].raw.id
    BY <1>4, BusyLemma, ParseLemma DEF MalformedPush
  <2>2. /\ pending' = pending /\ processing' = processing
        /\ \E e \in DeadEntries : Pushed(deadLetter', deadLetter, e) /\ e.id = client[c].raw.id
    BY <1>4, <2>1, PushDeadStep DEF MalformedPush, TypeOK, Reasons
  <2> QED
    BY <1>4, <2>2, PushCase DEF MalformedPush, Return, HandOver
<1>5. ASSUME NEW c \in Consumers, Ack(c)
      PROVE  Safe'
  BY <1>5, RemoveCase DEF Ack, Return
<1>6. ASSUME NEW c \in Consumers, client[c].at = "holding",
             RemoveInFlight(Dump(Parse(client[c].raw))),
             accepted' = accepted, acked' = acked,
             NEW at \in {"requeue_push", "dead_push"}, Becomes(c, at, client[c].raw)
      PROVE  Safe'
  <2> DEFINE v == [at |-> at, raw |-> client[c].raw]
             x == Dump(Parse(client[c].raw))
  <2>1. v \in Busy /\ v.at \in HandOver /\ v.raw = client[c].raw
    BY <1>6, BusyLemma DEF Busy, HandOver
  <2>2. client' = [client EXCEPT ![c] = v]
    BY <1>6 DEF Becomes
  <2>3. x.id = client[c].raw.id /\ (x.id \in Tracked => x = client[c].raw)
    <3>1. client[c].raw \in Entries
      BY <1>6, BusyLemma
    <3>2. client[c].raw.id \in Tracked => client[c].raw.form = "native"
      BY <1>6 DEF Safe, HeldIsInFlight
    <3> QED
      BY <3>1, <3>2, ParseLemma
  <2> HIDE DEF v, x
  <2>4. RemoveInFlight(x)
    BY <1>6 DEF x
  <2> QED
    BY <1>6, <2>1, <2>2, <2>3, <2>4, RemoveCase
<1>7. ASSUME NEW c \in Consumers, RequeuePush(c)
      PROVE  Safe'
  <2>1. Parse(client[c].raw) \in ParsedJobs /\ Parse(client[c].raw).id = client[c].raw.id
    BY <1>7, BusyLemma, ParseLemma DEF RequeuePush
  <2>2. \/ /\ deadLetter' = deadLetter /\ processing' = processing
           /\ \E e \in Entries : /\ Pushed(pending', pending, e)
                                 /\ e.id = client[c].raw.id /\ e.form = "native"
        \/ /\ pending' = pending /\ processing' = processing
           /\ \E e \in DeadEntries : Pushed(deadLetter', deadLetter, e) /\ e.id = client[c].raw.id
    <3>1. CASE PushExhausted(Parse(client[c].raw))
      BY <2>1, <3>1, PushExhaustedStep, PushDeadStep DEF TypeOK, Reasons
    <3>2. CASE PushRetried(Parse(client[c].raw))
      BY <2>1, <3>2, PushRetriedStep DEF TypeOK
    <3> QED
      BY <1>7, <3>1, <3>2 DEF RequeuePush, PushRequeue
  <2> QED
    BY <1>7, <2>2, PushCase DEF RequeuePush, Return, HandOver
<1>8. ASSUME NEW c \in Consumers, DeadLetterPush(c)
      PROVE  Safe'
  <2>1. Parse(client[c].raw) \in ParsedJobs /\ Parse(client[c].raw).id = client[c].raw.id
    BY <1>8, BusyLemma, ParseLemma DEF DeadLetterPush
  <2>2. /\ pending' = pending /\ processing' = processing
        /\ \E e \in DeadEntries : Pushed(deadLetter', deadLetter, e) /\ e.id = client[c].raw.id
    BY <1>8, <2>1, PushDeadStep DEF DeadLetterPush, TypeOK, Reasons
  <2> QED
    BY <1>8, <2>2, PushCase DEF DeadLetterPush, Return, HandOver
<1>9. ASSUME NEW c \in Consumers, Fail(c)
      PROVE  Safe'
  BY <1>9, FailCase
<1>10. ASSUME NEW c \in Consumers, RequeueRemove(c) \/ DeadLetterRemove(c)
       PROVE  Safe'
  BY <1>6, <1>10 DEF RequeueRemove, DeadLetterRemove
<1>11. CASE UNCHANGED vars
  BY <1>11 DEF vars, Safe, OnePlace, NoRepeats, NoOverlap, OneHolder, OnlyAccepted, FormsKnown,
     HeldIsInFlight, Somewhere, InFlight, InHandOver, Accepted, HeldBy, Tracked
<1> QED
  BY <1>1, <1>2, <1>3, <1>4, <1>5, <1>7, <1>8, <1>9, <1>10, <1>11 DEF Next, Step

(* At the start there is nothing anywhere.                                  *)
LEMMA SafeInit == Init => TypeOK /\ Safe
<1>1. Init => TypeOK
  BY ClientsAssumption DEF Init, QueueInit, TypeOK, QueueTypeOK, Idle
<1>2. Init => Safe
  BY DEF Init, QueueInit, Safe, OnePlace, NoRepeats, UniqueIn, NoOverlap, OneHolder, OnlyAccepted,
     FormsKnown, HeldIsInFlight, Somewhere, InFlight, InHandOver, HandOver, Accepted, ToSet,
     HeldBy, Ids, Idle
<1> QED
  BY <1>1, <1>2

(* For any number of jobs, consumers and failures, a job whose bytes this   *)
(* version writes itself is in one place at most, whatever the order and    *)
(* the failures of the two-step methods (task_queue.py 90-194).             *)
THEOREM JobsAreInOnePlace == Spec => []OnePlace
<1>1. Init => TypeOK /\ Safe
  BY SafeInit
<1>2. TypeOK /\ Safe /\ [Next]_vars => TypeOK' /\ Safe'
  BY TypeStep, SafeStep
<1>3. Safe => OnePlace
  BY DEF Safe
<1> QED
  BY <1>1, <1>2, <1>3, PTL DEF Spec
-----------------------------------------------------------------------------
(* Retries and the order of first deliveries.                               *)

(* The count is within the limit wherever requeue() finds or leaves it.     *)
Counted ==
    /\ RetryBound
    /\ \A c \in Consumers : client[c].at # "idle" => client[c].raw.retry <= MAX_JOB_RETRY_COUNT

(* Of two jobs that wait for their first delivery, the one nearer the head  *)
(* of the pending list was accepted later.                                  *)
AcceptedOnce ==
    \A a, b \in 1..Len(accepted) : accepted[a] = accepted[b] => a = b

WaitersAccepted ==
    \A p \in 1..Len(pending) :
        pending[p].retry = 0 => \E a \in 1..Len(accepted) : accepted[a] = pending[p].id

HeadIsLater ==
    \A p, q \in 1..Len(pending), a, b \in 1..Len(accepted) :
        /\ p < q /\ pending[p].retry = 0 /\ pending[q].retry = 0
        /\ accepted[a] = pending[p].id /\ accepted[b] = pending[q].id
        => b < a

InOrder == AcceptedOnce /\ WaitersAccepted /\ HeadIsLater /\ FirstDeliveriesInOrder

(* What WaitingFirst says of a job, with its position.                      *)
LEMMA WaitingLemma ==
  \A j : j \in WaitingFirst <=>
           \E p \in 1..Len(pending) : pending[p].retry = 0 /\ pending[p].id = j
BY DEF WaitingFirst

(* Only enqueue(), the transfer and the retry touch the pending list, and   *)
(* only enqueue() accepts.                                                  *)
LEMMA PendingMoves ==
  ASSUME TypeOK, [Next]_vars
  PROVE  \/ \E j \in Jobs :
              /\ j \notin ToSet(accepted) /\ accepted' = Append(accepted, j)
              /\ pending' = LPUSH(pending, [id |-> j, retry |-> 0, form |-> FormOf(j)])
         \/ pending # <<>> /\ pending' = Front(pending) /\ accepted' = accepted
         \/ \E e \in Entries :
              /\ e.retry \in 1..MAX_JOB_RETRY_COUNT
              /\ pending' = LPUSH(pending, e) /\ accepted' = accepted
         \/ pending' = pending /\ accepted' = accepted
<1>1. ASSUME NEW j \in Jobs, Enqueue(j)
      PROVE  /\ j \notin ToSet(accepted) /\ accepted' = Append(accepted, j)
             /\ pending' = LPUSH(pending, [id |-> j, retry |-> 0, form |-> FormOf(j)])
  BY <1>1 DEF Enqueue, PushNew
<1>2. ASSUME NEW c \in Consumers, Dequeue(c)
      PROVE  pending # <<>> /\ pending' = Front(pending) /\ accepted' = accepted
  BY <1>2 DEF Dequeue, Transfer
<1>3. ASSUME NEW c \in Consumers, RequeuePush(c)
      PROVE  \/ \E e \in Entries :
                  /\ e.retry \in 1..MAX_JOB_RETRY_COUNT
                  /\ pending' = LPUSH(pending, e) /\ accepted' = accepted
             \/ pending' = pending /\ accepted' = accepted
  <2> DEFINE job == Parse(client[c].raw)
             e == Dump(Retried(job))
  <2>1. job \in ParsedJobs
    BY <1>3, BusyLemma, ParseLemma DEF RequeuePush
  <2> HIDE DEF job
  <2>2. e \in Entries /\ e.retry = job.retry + 1 /\ job.retry \in Nat
        /\ Retried(job).retry = job.retry + 1
    BY <2>1 DEF Dump, Retried, Entries, ParsedJobs, Forms
  <2>3. accepted' = accepted /\ (PushExhausted(job) \/ PushRetried(job))
    BY <1>3 DEF RequeuePush, PushRequeue, job
  <2>4. CASE PushExhausted(job)
    BY <2>3, <2>4 DEF PushExhausted
  <2>5. CASE PushRetried(job)
    <3>1. pending' = LPUSH(pending, e) /\ Retried(job).retry <= MAX_JOB_RETRY_COUNT
      BY <2>5 DEF PushRetried
    <3> HIDE DEF e
    <3>2. e.retry \in 1..MAX_JOB_RETRY_COUNT
      BY <2>2, <3>1, QueueAssumption
    <3> QED
      BY <2>2, <2>3, <3>1, <3>2
  <2> QED
    BY <2>3, <2>4, <2>5
<1>4. ASSUME NEW c \in Consumers,
             \/ MalformedRemove(c) \/ MalformedPush(c) \/ Ack(c) \/ RequeueRemove(c)
             \/ DeadLetterRemove(c) \/ DeadLetterPush(c) \/ Fail(c)
      PROVE  pending' = pending /\ accepted' = accepted
  BY <1>4 DEF MalformedRemove, MalformedPush, Ack, RequeueRemove, DeadLetterRemove,
              DeadLetterPush, Fail, RemoveInFlight, PushDead
<1>5. CASE UNCHANGED vars
  BY <1>5 DEF vars
<1> QED
  BY <1>1, <1>2, <1>3, <1>4, <1>5 DEF Next, Step

(* The positions of the pending list after an LPUSH.                        *)
LEMMA HeadLemma ==
  ASSUME TypeOK, NEW e \in Entries, pending' = LPUSH(pending, e)
  PROVE  /\ Len(pending') = Len(pending) + 1 /\ pending'[1] = e
         /\ \A i \in 1..Len(pending) : pending'[i + 1] = pending[i]
         /\ Len(pending) \in Nat
<1>1. pending \in Seq(Entries)
  BY DEF TypeOK, QueueTypeOK
<1>2. Len(pending) \in Nat
  BY <1>1
<1>3. Len(LPUSH(pending, e)) = Len(pending) + 1
  BY <1>1, PushLemma
<1>4. LPUSH(pending, e)[1] = e
  BY <1>1, PushLemma
<1>5. ASSUME NEW list \in Seq(Entries)
      PROVE  \A i \in 1..Len(list) : LPUSH(list, e)[i + 1] = list[i]
  BY PushLemma
<1>6. \A i \in 1..Len(pending) : LPUSH(pending, e)[i + 1] = pending[i]
  BY <1>1, <1>5
<1> DEFINE new == LPUSH(pending, e)
<1>7. /\ pending' = new /\ Len(new) = Len(pending) + 1 /\ new[1] = e
      /\ \A i \in 1..Len(pending) : new[i + 1] = pending[i]
  BY <1>3, <1>4, <1>6
<1> HIDE DEF new
<1> QED
  BY <1>2, <1>7

(* enqueue(): the newcomer is accepted last and waits at the head.          *)
LEMMA OrderPushNew ==
  ASSUME TypeOK, InOrder, NEW j \in Jobs, j \notin ToSet(accepted),
         accepted' = Append(accepted, j),
         NEW e \in Entries, e.id = j, e.retry = 0, pending' = LPUSH(pending, e)
  PROVE  InOrder'
<1> DEFINE n == Len(accepted)
<1>1. /\ n \in Nat /\ Len(accepted') = n + 1 /\ accepted'[n + 1] = j
      /\ \A a \in 1..n : accepted'[a] = accepted[a] /\ accepted[a] # j
      /\ \A a \in 1..(n + 1) : a = n + 1 \/ a \in 1..n
      /\ \A a \in 1..n : a \in 1..(n + 1) /\ a < n + 1
      /\ n + 1 \in 1..(n + 1)
  BY DEF TypeOK, ToSet
<1> HIDE DEF n
<1>2. /\ Len(pending') = Len(pending) + 1 /\ pending'[1] = e
      /\ \A i \in 1..Len(pending) : pending'[i + 1] = pending[i]
      /\ Len(pending) \in Nat
  BY HeadLemma
<1>3. \A i \in 1..Len(pending') : i = 1 \/ (i - 1 \in 1..Len(pending) /\ pending'[i] = pending[i - 1])
  BY <1>2
<1>4. AcceptedOnce'
  BY <1>1 DEF InOrder, AcceptedOnce, n
<1>5. WaitersAccepted'
  BY <1>1, <1>2, <1>3 DEF InOrder, WaitersAccepted, n
<1>6. HeadIsLater'
  <2> SUFFICES ASSUME NEW p \in 1..Len(pending'), NEW q \in 1..Len(pending'),
                      NEW a \in 1..(n + 1), NEW b \in 1..(n + 1),
                      p < q, pending'[p].retry = 0, pending'[q].retry = 0,
                      accepted'[a] = pending'[p].id, accepted'[b] = pending'[q].id
               PROVE  b < a
    BY <1>1 DEF HeadIsLater
  <2>1. q # 1 /\ q - 1 \in 1..Len(pending) /\ pending'[q] = pending[q - 1]
    BY <1>2, <1>3
  <2>2. b \in 1..n
    <3>1. PICK i \in 1..n : accepted[i] = pending[q - 1].id
      BY <2>1 DEF InOrder, WaitersAccepted, n
    <3>2. accepted'[b] # j
      BY <1>1, <2>1, <3>1
    <3> QED
      BY <1>1, <3>2
  <2>3. CASE p = 1
    BY <1>1, <1>2, <2>2, <2>3
  <2>4. CASE p # 1
    <3>1. p - 1 \in 1..Len(pending) /\ pending'[p] = pending[p - 1] /\ p - 1 < q - 1
      BY <1>3, <2>1, <2>4
    <3>2. PICK i \in 1..n : accepted[i] = pending[p - 1].id
      BY <3>1 DEF InOrder, WaitersAccepted, n
    <3>3. accepted'[a] # j
      BY <1>1, <3>1, <3>2
    <3>4. a \in 1..n
      BY <1>1, <3>3
    <3>5. /\ accepted[a] = pending[p - 1].id /\ accepted[b] = pending[q - 1].id
          /\ pending[p - 1].retry = 0 /\ pending[q - 1].retry = 0
      BY <1>1, <2>1, <2>2, <3>1, <3>4
    <3> QED
      BY <2>1, <2>2, <3>1, <3>4, <3>5 DEF InOrder, HeadIsLater, n
  <2> QED
    BY <2>3, <2>4
<1>7. \A k : k \in WaitingFirst' <=> k = j \/ k \in WaitingFirst
  <2>1. \A k : k \in WaitingFirst' <=>
                 \E p \in 1..Len(pending') : pending'[p].retry = 0 /\ pending'[p].id = k
    BY DEF WaitingFirst
  <2>2. 1 \in 1..Len(pending') /\ \A p \in 1..Len(pending) : p + 1 \in 1..Len(pending')
    BY <1>2
  <2>3. ASSUME NEW k, k \in WaitingFirst'
        PROVE  k = j \/ k \in WaitingFirst
    <3>1. PICK p \in 1..Len(pending') : pending'[p].retry = 0 /\ pending'[p].id = k
      BY <2>1, <2>3
    <3>2. CASE p = 1
      BY <1>2, <3>1, <3>2
    <3>3. CASE p # 1
      BY <1>3, <3>1, <3>3, WaitingLemma
    <3> QED
      BY <3>2, <3>3
  <2>4. j \in WaitingFirst'
    BY <1>2, <2>1, <2>2
  <2>5. ASSUME NEW k, k \in WaitingFirst
        PROVE  k \in WaitingFirst'
    <3>1. PICK p \in 1..Len(pending) : pending[p].retry = 0 /\ pending[p].id = k
      BY <2>5, WaitingLemma
    <3>2. p + 1 \in 1..Len(pending') /\ pending'[p + 1] = pending[p]
      BY <1>2, <2>2
    <3> QED
      BY <2>1, <3>1, <3>2
  <2> QED
    BY <2>3, <2>4, <2>5
<1>8. FirstDeliveriesInOrder'
  BY <1>1, <1>7 DEF InOrder, FirstDeliveriesInOrder, n
<1> QED
  BY <1>4, <1>5, <1>6, <1>8 DEF InOrder

(* requeue(): a retried job does not count as waiting for the first time.   *)
LEMMA OrderPushRetried ==
  ASSUME TypeOK, InOrder, accepted' = accepted,
         NEW e \in Entries, e.retry # 0, pending' = LPUSH(pending, e)
  PROVE  InOrder'
<1>1. /\ Len(pending') = Len(pending) + 1 /\ pending'[1] = e
      /\ \A i \in 1..Len(pending) : pending'[i + 1] = pending[i]
      /\ Len(pending) \in Nat
  BY HeadLemma
<1>2. /\ \A i \in 1..Len(pending') :
           i = 1 \/ (i - 1 \in 1..Len(pending) /\ pending'[i] = pending[i - 1])
      /\ \A i \in 1..Len(pending) : i + 1 \in 1..Len(pending')
  BY <1>1
<1>3. AcceptedOnce' /\ WaitersAccepted'
  <2>1. AcceptedOnce'
    BY DEF InOrder, AcceptedOnce
  <2>2. ASSUME NEW p \in 1..Len(pending'), pending'[p].retry = 0
        PROVE  \E a \in 1..Len(accepted) : accepted[a] = pending'[p].id
    <3>1. p - 1 \in 1..Len(pending) /\ pending'[p] = pending[p - 1]
      BY <1>1, <1>2, <2>2
    <3> QED
      BY <2>2, <3>1 DEF InOrder, WaitersAccepted
  <2> QED
    BY <2>1, <2>2 DEF WaitersAccepted
<1>4. HeadIsLater'
  <2> SUFFICES ASSUME NEW p \in 1..Len(pending'), NEW q \in 1..Len(pending'),
                      NEW a \in 1..Len(accepted), NEW b \in 1..Len(accepted),
                      p < q, pending'[p].retry = 0, pending'[q].retry = 0,
                      accepted[a] = pending'[p].id, accepted[b] = pending'[q].id
               PROVE  b < a
    BY DEF HeadIsLater
  <2>1. /\ p - 1 \in 1..Len(pending) /\ pending'[p] = pending[p - 1]
        /\ q - 1 \in 1..Len(pending) /\ pending'[q] = pending[q - 1]
        /\ p - 1 < q - 1
    BY <1>1, <1>2
  <2> QED
    BY <2>1 DEF InOrder, HeadIsLater
<1>5. \A k : k \in WaitingFirst' <=> k \in WaitingFirst
  <2>1. \A k : k \in WaitingFirst' <=>
                 \E p \in 1..Len(pending') : pending'[p].retry = 0 /\ pending'[p].id = k
    BY DEF WaitingFirst
  <2>2. ASSUME NEW k, k \in WaitingFirst' PROVE k \in WaitingFirst
    <3>1. PICK p \in 1..Len(pending') : pending'[p].retry = 0 /\ pending'[p].id = k
      BY <2>1, <2>2
    <3>2. p - 1 \in 1..Len(pending) /\ pending'[p] = pending[p - 1]
      BY <1>1, <1>2, <3>1
    <3> QED
      BY <3>1, <3>2, WaitingLemma
  <2>3. ASSUME NEW k, k \in WaitingFirst PROVE k \in WaitingFirst'
    <3>1. PICK p \in 1..Len(pending) : pending[p].retry = 0 /\ pending[p].id = k
      BY <2>3, WaitingLemma
    <3>2. p + 1 \in 1..Len(pending') /\ pending'[p + 1] = pending[p]
      BY <1>1, <1>2
    <3> QED
      BY <2>1, <3>1, <3>2
  <2> QED
    BY <2>2, <2>3
<1>6. FirstDeliveriesInOrder'
  BY <1>5 DEF InOrder, FirstDeliveriesInOrder
<1> QED
  BY <1>3, <1>4, <1>6 DEF InOrder

(* dequeue(): what it takes from the tail was accepted before every other   *)
(* job that waits for its first delivery.                                   *)
LEMMA OrderPop ==
  ASSUME TypeOK, InOrder, accepted' = accepted, pending # <<>>, pending' = Front(pending)
  PROVE  InOrder'
<1> DEFINE m == Len(pending)
<1>1. /\ Len(pending') = m - 1 /\ m \in Nat \ {0}
      /\ \A i \in 1..(m - 1) : pending'[i] = pending[i]
  BY FrontLemma DEF TypeOK, QueueTypeOK
<1> HIDE DEF m
<1>2. /\ \A i \in 1..(m - 1) : i \in 1..m /\ i < m
      /\ m \in 1..m /\ \A i \in 1..m : i = m \/ i \in 1..(m - 1)
  BY <1>1
<1>3. AcceptedOnce' /\ WaitersAccepted' /\ HeadIsLater'
  BY <1>1, <1>2 DEF InOrder, AcceptedOnce, WaitersAccepted, HeadIsLater, m
<1>4. \A k : k \in WaitingFirst' <=>
               \E p \in 1..(m - 1) : pending[p].retry = 0 /\ pending[p].id = k
  <2>1. \A k : k \in WaitingFirst' <=>
                 \E p \in 1..Len(pending') : pending'[p].retry = 0 /\ pending'[p].id = k
    BY DEF WaitingFirst
  <2> QED
    BY <1>1, <2>1
<1>5. ASSUME NEW i \in 1..Len(accepted), NEW k \in 1..Len(accepted),
             i < k, accepted[i] \in WaitingFirst'
      PROVE  accepted[k] \in WaitingFirst'
  <2>1. PICK p \in 1..(m - 1) : pending[p].retry = 0 /\ pending[p].id = accepted[i]
    BY <1>4, <1>5
  <2>2. accepted[i] \in WaitingFirst
    BY <1>2, <2>1, WaitingLemma DEF m
  <2>3. accepted[k] \in WaitingFirst
    BY <1>5, <2>2 DEF InOrder, FirstDeliveriesInOrder
  <2>4. PICK q \in 1..m : pending[q].retry = 0 /\ pending[q].id = accepted[k]
    BY <2>3, WaitingLemma DEF m
  <2>5. CASE q = m
    <3>1. k < i
      BY <1>2, <2>1, <2>4, <2>5 DEF InOrder, HeadIsLater, m
    <3> QED
      BY <1>5, <3>1 DEF TypeOK
  <2>6. CASE q # m
    BY <1>2, <1>4, <2>4, <2>6
  <2> QED
    BY <2>5, <2>6
<1>6. FirstDeliveriesInOrder'
  BY <1>5 DEF FirstDeliveriesInOrder
<1> QED
  BY <1>3, <1>6 DEF InOrder

(* For any number of jobs, consumers and failures, no accepted job overtakes*)
(* an earlier one on its first delivery, whatever is retried in between     *)
(* (task_queue.py 79, 99, 168).                                             *)
THEOREM FirstInFirstOut == Spec => []FirstDeliveriesInOrder
<1>1. Init => TypeOK /\ InOrder
  <2>1. Init => TypeOK
    BY ClientsAssumption DEF Init, QueueInit, TypeOK, QueueTypeOK, Idle
  <2>2. Init => InOrder
    BY DEF Init, QueueInit, InOrder, AcceptedOnce, WaitersAccepted, HeadIsLater,
           FirstDeliveriesInOrder
  <2> QED
    BY <2>1, <2>2
<1>2. TypeOK /\ InOrder /\ [Next]_vars => TypeOK' /\ InOrder'
  <2> SUFFICES ASSUME TypeOK, InOrder, [Next]_vars
               PROVE  TypeOK' /\ InOrder'
    OBVIOUS
  <2>1. ASSUME NEW j \in Jobs, j \notin ToSet(accepted), accepted' = Append(accepted, j),
               pending' = LPUSH(pending, [id |-> j, retry |-> 0, form |-> FormOf(j)])
        PROVE  InOrder'
    <3> DEFINE e == [id |-> j, retry |-> 0, form |-> FormOf(j)]
    <3>1. e \in Entries /\ e.id = j /\ e.retry = 0
      BY DEF Entries, Forms, FormOf
    <3> HIDE DEF e
    <3>2. pending' = LPUSH(pending, e)
      BY <2>1 DEF e
    <3> QED
      BY <2>1, <3>1, <3>2, OrderPushNew
  <2>2. ASSUME NEW e \in Entries, e.retry \in 1..MAX_JOB_RETRY_COUNT,
               pending' = LPUSH(pending, e), accepted' = accepted
        PROVE  InOrder'
    BY <2>2, OrderPushRetried
  <2>3. ASSUME pending' = pending, accepted' = accepted
        PROVE  InOrder'
    <3>1. WaitingFirst' = WaitingFirst
      BY <2>3 DEF WaitingFirst
    <3>2. AcceptedOnce' /\ WaitersAccepted' /\ HeadIsLater'
      BY <2>3 DEF InOrder, AcceptedOnce, WaitersAccepted, HeadIsLater
    <3>3. FirstDeliveriesInOrder'
      BY <2>3, <3>1 DEF InOrder, FirstDeliveriesInOrder
    <3> QED
      BY <3>2, <3>3 DEF InOrder
  <2> QED
    BY <2>1, <2>2, <2>3, OrderPop, PendingMoves, TypeStep
<1>3. InOrder => FirstDeliveriesInOrder
  BY DEF InOrder
<1> QED
  BY <1>1, <1>2, <1>3, PTL DEF Spec
(* A list that LPUSH or the pop at the tail made holds nothing else.        *)
LEMMA PushHolds ==
  ASSUME NEW S, NEW list \in Seq(S), NEW x \in S, NEW new, new = LPUSH(list, x)
  PROVE  \A i \in 1..Len(new) : new[i] = x \/ \E k \in 1..Len(list) : new[i] = list[k]
<1>1. Pushed(new, list, x)
  BY PushIds
<1> QED
  BY <1>1 DEF Pushed

(* The LPUSH of dead_letter(), of the malformed branch, and of requeue()    *)
(* when it gives up: "retries" goes only with the last count.               *)
LEMMA CountedDead ==
  ASSUME TypeOK, Counted, NEW c \in Consumers, client[c].at # "idle",
         NEW reason \in Reasons, PushDead(Parse(client[c].raw), reason), Return(c),
         reason = "retries" => client[c].raw.retry = MAX_JOB_RETRY_COUNT
  PROVE  Counted'
<1> DEFINE e == [id |-> client[c].raw.id, retry |-> client[c].raw.retry, reason |-> reason]
<1>1. e \in DeadEntries /\ e.retry = client[c].raw.retry /\ e.reason = reason
  BY BusyLemma DEF DeadEntries, Entries
<1>2. deadLetter' = LPUSH(deadLetter, e) /\ pending' = pending
  BY DEF PushDead, Parse
<1> HIDE DEF e
<1>3. \A i \in 1..Len(deadLetter') :
        deadLetter'[i] = e \/ \E k \in 1..Len(deadLetter) : deadLetter'[i] = deadLetter[k]
  BY <1>1, <1>2, PushHolds DEF TypeOK, QueueTypeOK
<1>4. RetryBound'
  BY <1>1, <1>2, <1>3 DEF Counted, RetryBound
<1>5. \A d \in Consumers : client'[d] = client[d] \/ client'[d].at = "idle"
  BY DEF Return, TypeOK, Idle
<1> QED
  BY <1>4, <1>5 DEF Counted

(* For any limit, no job is delivered more often than the limit allows, and *)
(* one buried for its retries has used all of them, whatever fails between  *)
(* the steps of requeue() (task_queue.py 149-168).                          *)
THEOREM RetriesAreBounded == Spec => []RetryBound
<1>1. Init => TypeOK /\ Counted
  <2>1. Init => TypeOK
    BY ClientsAssumption DEF Init, QueueInit, TypeOK, QueueTypeOK, Idle
  <2>2. Init => Counted
    BY DEF Init, QueueInit, Counted, RetryBound, Idle
  <2> QED
    BY <2>1, <2>2
<1>2. TypeOK /\ Counted /\ [Next]_vars => TypeOK' /\ Counted'
  <2> SUFFICES ASSUME TypeOK, Counted, [Next]_vars
               PROVE  Counted'
    BY TypeStep
  <2>1. ASSUME NEW j \in Jobs, Enqueue(j)
        PROVE  Counted'
    <3> DEFINE e == [id |-> j, retry |-> 0, form |-> FormOf(j)]
    <3>1. e \in Entries /\ e.retry = 0
      BY DEF Entries, Forms, FormOf
    <3>2. pending' = LPUSH(pending, e) /\ deadLetter' = deadLetter /\ client' = client
      BY <2>1 DEF Enqueue, PushNew
    <3> HIDE DEF e
    <3>3. \A i \in 1..Len(pending') :
            pending'[i] = e \/ \E k \in 1..Len(pending) : pending'[i] = pending[k]
      BY <3>1, <3>2, PushHolds DEF TypeOK, QueueTypeOK
    <3> QED
      BY <3>1, <3>2, <3>3, QueueAssumption DEF Counted, RetryBound
  <2>2. ASSUME NEW c \in Consumers, Dequeue(c)
        PROVE  Counted'
    <3> DEFINE raw == Last(pending)
    <3>1. deadLetter' = deadLetter /\ Popped(pending', pending)
      BY <2>2, TransferStep DEF Dequeue, TypeOK
    <3> HIDE DEF raw
    <3>2. /\ \A i \in 1..Len(pending') : \E k \in 1..Len(pending) : pending'[i] = pending[k]
          /\ \E k \in 1..Len(pending) : pending[k] = raw
      BY <3>1 DEF Popped, raw
    <3>3. RetryBound' /\ raw.retry <= MAX_JOB_RETRY_COUNT
      BY <3>1, <3>2 DEF Counted, RetryBound
    <3>4. \A d \in Consumers : client'[d] = client[d] \/ client'[d].raw = raw
      BY <2>2 DEF Dequeue, Becomes, TypeOK, raw
    <3> QED
      BY <3>3, <3>4 DEF Counted
  <2>3. ASSUME NEW c \in Consumers,
               MalformedRemove(c) \/ RequeueRemove(c) \/ DeadLetterRemove(c)
        PROVE  Counted'
    <3>1. pending' = pending /\ deadLetter' = deadLetter
      BY <2>3 DEF MalformedRemove, RequeueRemove, DeadLetterRemove, RemoveInFlight
    <3>2. client[c].at # "idle"
      BY <2>3 DEF MalformedRemove, RequeueRemove, DeadLetterRemove
    <3>3. \A d \in Consumers : client'[d] = client[d] \/ (d = c /\ client'[d].raw = client[d].raw)
      BY <2>3 DEF MalformedRemove, RequeueRemove, DeadLetterRemove, Becomes, TypeOK
    <3> QED
      BY <3>1, <3>2, <3>3 DEF Counted, RetryBound
  <2>4. ASSUME NEW c \in Consumers, Ack(c) \/ Fail(c)
        PROVE  Counted'
    <3>1. pending' = pending /\ deadLetter' = deadLetter
      BY <2>4 DEF Ack, Fail, RemoveInFlight
    <3>2. \A d \in Consumers : client'[d] = client[d] \/ client'[d].at = "idle"
      BY <2>4 DEF Ack, Fail, Return, Idle, TypeOK
    <3> QED
      BY <3>1, <3>2 DEF Counted, RetryBound
  <2>5. ASSUME NEW c \in Consumers, MalformedPush(c) \/ DeadLetterPush(c)
        PROVE  Counted'
    BY <2>5, CountedDead DEF MalformedPush, DeadLetterPush, Reasons
  <2>6. ASSUME NEW c \in Consumers, RequeuePush(c)
        PROVE  Counted'
    <3> DEFINE job == Parse(client[c].raw)
               e == Dump(Retried(job))
    <3>1. job \in ParsedJobs /\ client[c].at # "idle"
      BY <2>6, BusyLemma, ParseLemma DEF RequeuePush
    <3>2. job.retry = client[c].raw.retry /\ job.retry <= MAX_JOB_RETRY_COUNT
      BY <3>1 DEF Counted, Parse
    <3>3. CASE PushExhausted(job)
      <4>1. job.retry = MAX_JOB_RETRY_COUNT
        BY <3>1, <3>2, <3>3, QueueAssumption DEF PushExhausted, Retried, ParsedJobs
      <4>2. PushDead(Parse(client[c].raw), "retries")
        BY <3>3, PushExhaustedStep
      <4> QED
        BY <2>6, <3>1, <3>2, <4>1, <4>2, CountedDead DEF RequeuePush, Reasons
    <3>4. CASE PushRetried(job)
      <4>1. e \in Entries /\ e.retry = Retried(job).retry
        BY <3>1 DEF Dump, Retried, Entries, ParsedJobs, Forms
      <4>2. /\ Retried(job).retry <= MAX_JOB_RETRY_COUNT
            /\ pending' = LPUSH(pending, e) /\ deadLetter' = deadLetter
        BY <3>4 DEF PushRetried
      <4> HIDE DEF job, e
      <4>3. \A i \in 1..Len(pending') :
              pending'[i] = e \/ \E k \in 1..Len(pending) : pending'[i] = pending[k]
        BY <4>1, <4>2, PushHolds DEF TypeOK, QueueTypeOK
      <4>4. RetryBound'
        BY <4>1, <4>2, <4>3 DEF Counted, RetryBound
      <4>5. \A d \in Consumers : client'[d] = client[d] \/ client'[d].at = "idle"
        BY <2>6 DEF RequeuePush, Return, Idle, TypeOK
      <4> QED
        BY <4>4, <4>5 DEF Counted
    <3> QED
      BY <2>6, <3>3, <3>4 DEF RequeuePush, PushRequeue
  <2>7. CASE UNCHANGED vars
    BY <2>7 DEF vars, Counted, RetryBound
  <2> QED
    BY <2>1, <2>2, <2>3, <2>4, <2>5, <2>6, <2>7 DEF Next, Step
<1>3. Counted => RetryBound
  BY DEF Counted
<1> QED
  BY <1>1, <1>2, <1>3, PTL DEF Spec

-----------------------------------------------------------------------------
(* Refinement.
   The lists and their consumers implement the abstract queue, for any
   number of jobs, consumers and failures: every step of QueueClients is a
   move of one job along the arrows of ReliableQueue, or no move.

   The jobs with bytes of another version count here too: a copy of one
   may stay in the processing list for ever, but it still has one holder
   and does not wait while it is held, which is all the moves depend on. *)

WaitsOnce ==
    \A i, k \in 1..Len(pending) : pending[i].id = pending[k].id => i = k

WaitingNotHeld == \A c \in Consumers : HeldBy(c) \cap Ids(pending) = {}

HeldOnce == \A c, d \in Consumers : c # d => HeldBy(c) \cap HeldBy(d) = {}

HeldIsListed ==
    \A c \in Consumers :
        client[c].at \in {"holding", "unparsed"} =>
            \E i \in 1..Len(processing) : processing[i] = client[c].raw

KnownFirst ==
    /\ Ids(pending) \subseteq Accepted
    /\ \A c \in Consumers : HeldBy(c) \subseteq Accepted

Possession == WaitsOnce /\ WaitingNotHeld /\ HeldOnce /\ HeldIsListed /\ KnownFirst

-----------------------------------------------------------------------------
(* What one step does.                                                      *)

(* A consumer turns to v; what it holds is the job k before, and k or       *)
(* nothing after.                                                           *)
Turns(c, k, v) ==
    /\ v \in {Idle} \cup Busy
    /\ v = Idle \/ v.raw.id = k
    /\ client' = [client EXCEPT ![c] = v]

(* The steps of a consumer that holds the job k.                            *)
RemovalOf(c, k) ==
    /\ client[c].at \in {"holding", "unparsed"} /\ client[c].raw.id = k
    /\ \E x : x.id = k /\ Removed(processing', processing, x)
    /\ \E v : Turns(c, k, v) /\ v.at \notin {"holding", "unparsed"}
    /\ pending' = pending /\ deadLetter' = deadLetter /\ accepted' = accepted
    /\ acked' \in {acked, acked \cup {k}} /\ faults' = faults
    /\ client'[c].at \in HandOver \/ Ack(c)

PushOf(c, k) ==
    /\ client[c].at \in HandOver /\ client[c].raw.id = k
    /\ Turns(c, k, Idle)
    /\ processing' = processing /\ accepted' = accepted /\ acked' = acked /\ faults' = faults
    /\ \/ /\ \E e \in Entries : e.id = k /\ pending' = LPUSH(pending, e)
          /\ deadLetter' = deadLetter
       \/ /\ \E e \in DeadEntries : e.id = k /\ Pushed(deadLetter', deadLetter, e)
          /\ pending' = pending

FailureOf(c, k) ==
    /\ client[c] # Idle /\ client[c].raw.id = k
    /\ Turns(c, k, Idle) /\ faults' = faults + 1
    /\ UNCHANGED <<pending, processing, deadLetter, accepted, acked>>

LEMMA StepKinds ==
  ASSUME TypeOK, Next
  PROVE  \/ \E j \in Jobs : Enqueue(j)
         \/ \E c \in Consumers : Dequeue(c)
         \/ \E c \in Consumers : LET k == client[c].raw.id
                                 IN  RemovalOf(c, k) \/ PushOf(c, k) \/ FailureOf(c, k)
<1>1. ASSUME NEW c \in Consumers, client[c].at \in {"holding", "unparsed"},
             NEW x, x.id = client[c].raw.id, RemoveInFlight(x),
             accepted' = accepted, acked' \in {acked, acked \cup {client[c].raw.id}},
             faults' = faults,
             \/ Return(c) /\ Ack(c)
             \/ \E at \in HandOver : Becomes(c, at, client[c].raw)
      PROVE  RemovalOf(c, client[c].raw.id)
  <2>1. /\ Removed(processing', processing, x)
        /\ pending' = pending /\ deadLetter' = deadLetter
    BY <1>1, RemoveStep DEF TypeOK
  <2>2. \E v : Turns(c, client[c].raw.id, v) /\ v.at \notin {"holding", "unparsed"}
    <3>1. CASE Return(c)
      <4>1. Idle.at = "idle"
        BY DEF Idle
      <4>2. Turns(c, client[c].raw.id, Idle)
        BY <3>1 DEF Return, Turns
      <4> QED
        BY <4>1, <4>2
    <3>2. ASSUME NEW at \in HandOver, Becomes(c, at, client[c].raw)
          PROVE  \E v : Turns(c, client[c].raw.id, v) /\ v.at \notin {"holding", "unparsed"}
      <4> DEFINE v == [at |-> at, raw |-> client[c].raw]
      <4>1. v \in Busy /\ v.raw.id = client[c].raw.id /\ v.at = at
        BY <1>1, BusyLemma DEF Busy, HandOver
      <4>2. client' = [client EXCEPT ![c] = v]
        BY <3>2 DEF Becomes
      <4> HIDE DEF v
      <4> QED
        BY <4>1, <4>2 DEF Turns, HandOver
    <3> QED
      BY <1>1, <3>1, <3>2
  <2>3. client'[c].at \in HandOver \/ Ack(c)
    BY <1>1 DEF Becomes, TypeOK
  <2> QED
    BY <1>1, <2>1, <2>2, <2>3 DEF RemovalOf
<1>2. ASSUME NEW c \in Consumers, client[c].at \in HandOver,
             Return(c), accepted' = accepted, acked' = acked, faults' = faults,
             \/ \E reason \in Reasons : PushDead(Parse(client[c].raw), reason)
             \/ PushRetried(Parse(client[c].raw))
      PROVE  PushOf(c, client[c].raw.id)
  <2> DEFINE job == Parse(client[c].raw)
             k == client[c].raw.id
  <2>1. job \in ParsedJobs /\ job.id = k
    BY <1>2, BusyLemma, ParseLemma DEF HandOver
  <2>2. Turns(c, k, Idle)
    BY <1>2 DEF Turns, Return
  <2>3. CASE \E reason \in Reasons : PushDead(job, reason)
    <3>1. /\ pending' = pending /\ processing' = processing
          /\ \E e \in DeadEntries : Pushed(deadLetter', deadLetter, e) /\ e.id = job.id
      <4> HIDE DEF job
      <4> QED
        BY <2>1, <2>3, PushDeadStep DEF TypeOK
    <3> QED
      BY <1>2, <2>1, <2>2, <3>1 DEF PushOf
  <2>4. CASE PushRetried(job)
    <3> DEFINE e == Dump(Retried(job))
    <3>1. e \in Entries /\ e.id = job.id
      BY <2>1 DEF Dump, Retried, Entries, ParsedJobs, Forms
    <3>2. pending' = LPUSH(pending, e) /\ processing' = processing /\ deadLetter' = deadLetter
      BY <2>4 DEF PushRetried
    <3> HIDE DEF e, job
    <3> QED
      BY <1>2, <2>1, <2>2, <3>1, <3>2 DEF PushOf
  <2> QED
    BY <1>2, <2>3, <2>4
<1>3. ASSUME NEW c \in Consumers, MalformedRemove(c)
      PROVE  RemovalOf(c, client[c].raw.id)
  BY <1>1, <1>3 DEF MalformedRemove, HandOver
<1>4. ASSUME NEW c \in Consumers, RequeueRemove(c) \/ DeadLetterRemove(c)
      PROVE  RemovalOf(c, client[c].raw.id)
  <2>1. client[c].at = "holding" /\ RemoveInFlight(Dump(Parse(client[c].raw)))
    BY <1>4 DEF RequeueRemove, DeadLetterRemove
  <2>2. Dump(Parse(client[c].raw)).id = client[c].raw.id
    BY DEF Dump, Parse
  <2>3. \E at \in HandOver : Becomes(c, at, client[c].raw)
    BY <1>4 DEF RequeueRemove, DeadLetterRemove, HandOver
  <2>4. accepted' = accepted /\ acked' = acked /\ faults' = faults
    BY <1>4 DEF RequeueRemove, DeadLetterRemove
  <2> QED
    BY <1>1, <2>1, <2>2, <2>3, <2>4
<1>5. ASSUME NEW c \in Consumers, Ack(c)
      PROVE  RemovalOf(c, client[c].raw.id)
  BY <1>1, <1>5 DEF Ack
<1>6. ASSUME NEW c \in Consumers, MalformedPush(c) \/ DeadLetterPush(c)
      PROVE  PushOf(c, client[c].raw.id)
  BY <1>2, <1>6 DEF MalformedPush, DeadLetterPush, HandOver, Reasons
<1>7. ASSUME NEW c \in Consumers, RequeuePush(c)
      PROVE  PushOf(c, client[c].raw.id)
  <2>1. PushExhausted(Parse(client[c].raw)) => PushDead(Parse(client[c].raw), "retries")
    BY PushExhaustedStep
  <2> QED
    BY <1>2, <1>7, <2>1 DEF RequeuePush, PushRequeue, HandOver, Reasons
<1>8. ASSUME NEW c \in Consumers, Fail(c)
      PROVE  FailureOf(c, client[c].raw.id)
  BY <1>8 DEF Fail, FailureOf, Turns, Return
<1> QED
  BY <1>3, <1>4, <1>5, <1>6, <1>7, <1>8 DEF Next, Step

(* What a turn of c leaves alone: every other consumer, and what it says of *)
(* every job but k.                                                         *)
LEMMA TurnLemma ==
  ASSUME TypeOK, NEW c \in Consumers, NEW k, HeldBy(c) \subseteq {k}, NEW v, Turns(c, k, v)
  PROVE  /\ client'[c] = v
         /\ HeldBy(c)' \subseteq {k}
         /\ v = Idle => HeldBy(c)' = {}
         /\ \A d \in Consumers : d # c => client'[d] = client[d] /\ HeldBy(d)' = HeldBy(d)
         /\ \A j : j # k => (j \in InHandOver' <=> j \in InHandOver)
<1>1. client'[c] = v /\ \A d \in Consumers : d # c => client'[d] = client[d]
  BY DEF Turns, TypeOK
<1>2. HeldBy(c)' \subseteq {k} /\ (v = Idle => HeldBy(c)' = {})
  BY <1>1 DEF HeldBy, Turns
<1>3. \A d \in Consumers : d # c => HeldBy(d)' = HeldBy(d)
  BY <1>1 DEF HeldBy
<1>4. Idle.at \notin HandOver
  BY DEF Idle, HandOver
<1>5. client[c].at \in HandOver => client[c].raw.id = k
  BY <1>4 DEF HeldBy
<1>6. v.at \in HandOver => v.raw.id = k
  BY <1>4 DEF Turns
<1>7. ASSUME NEW j, j # k
      PROVE  j \in InHandOver' <=> j \in InHandOver
  <2>1. ASSUME j \in InHandOver' PROVE j \in InHandOver
    <3>1. PICK d \in Consumers : client'[d].at \in HandOver /\ client'[d].raw.id = j
      BY <2>1 DEF InHandOver
    <3>2. d # c
      BY <1>1, <1>6, <1>7, <3>1
    <3> QED
      BY <1>1, <3>1, <3>2 DEF InHandOver
  <2>2. ASSUME j \in InHandOver PROVE j \in InHandOver'
    <3>1. PICK d \in Consumers : client[d].at \in HandOver /\ client[d].raw.id = j
      BY <2>2 DEF InHandOver
    <3>2. d # c
      BY <1>5, <1>7, <3>1
    <3>3. client'[d].at \in HandOver /\ client'[d].raw.id = j
      BY <1>1, <3>1, <3>2
    <3> QED
      BY <3>3 DEF InHandOver
  <2> QED
    BY <2>1, <2>2
<1> QED
  BY <1>1, <1>2, <1>3, <1>7

-----------------------------------------------------------------------------
(* Possession is kept.                                                      *)

(* Who holds what, after a turn of c.                                       *)
LEMMA HeldAfterTurn ==
  ASSUME TypeOK, Possession, NEW c \in Consumers, client[c] # Idle, NEW v,
         Turns(c, client[c].raw.id, v), accepted' = accepted
  PROVE  /\ HeldOnce'
         /\ \A d \in Consumers : HeldBy(d)' \subseteq Accepted'
         /\ \A d \in Consumers : HeldBy(d)' \subseteq HeldBy(d)
         /\ \A d \in Consumers : d # c => client[c].raw.id \notin HeldBy(d)
<1> DEFINE k == client[c].raw.id
<1>1. HeldBy(c) = {k}
  BY DEF HeldBy
<1> HIDE DEF k
<1>2. Turns(c, k, v)
  BY DEF k
<1>3. \A d \in Consumers : HeldBy(d)' \subseteq HeldBy(d)
  BY <1>1, <1>2, TurnLemma
<1>4. HeldOnce'
  BY <1>3 DEF Possession, HeldOnce
<1>5. \A d \in Consumers : HeldBy(d)' \subseteq Accepted'
  BY <1>3 DEF Possession, KnownFirst, Accepted
<1>6. \A d \in Consumers : d # c => k \notin HeldBy(d)
  BY <1>1 DEF Possession, HeldOnce
<1> QED
  BY <1>3, <1>4, <1>5, <1>6 DEF k

LEMMA PossessionRemoval ==
  ASSUME TypeOK, Possession, NEW c \in Consumers, RemovalOf(c, client[c].raw.id)
  PROVE  Possession'
<1> DEFINE k == client[c].raw.id
<1>1. client[c] # Idle /\ HeldBy(c) = {k}
  BY BusyLemma DEF RemovalOf
<1>2. PICK v : Turns(c, k, v) /\ v.at \notin {"holding", "unparsed"}
  BY DEF RemovalOf
<1>3. PICK x : x.id = k /\ Removed(processing', processing, x)
  BY DEF RemovalOf
<1>4. pending' = pending /\ accepted' = accepted
  BY DEF RemovalOf
<1>5. /\ HeldOnce' /\ \A d \in Consumers : HeldBy(d)' \subseteq Accepted'
      /\ \A d \in Consumers : HeldBy(d)' \subseteq HeldBy(d)
      /\ \A d \in Consumers : d # c => k \notin HeldBy(d)
  BY <1>1, <1>2, <1>4, HeldAfterTurn
<1> HIDE DEF k
<1>6. WaitsOnce' /\ WaitingNotHeld' /\ KnownFirst'
  <2>1. WaitsOnce'
    BY <1>4 DEF Possession, WaitsOnce
  <2>2. Ids(pending') = Ids(pending) /\ Accepted' = Accepted
    BY <1>4 DEF Accepted
  <2> QED
    BY <1>5, <2>1, <2>2 DEF Possession, WaitingNotHeld, KnownFirst
<1>7. HeldIsListed'
  <2> SUFFICES ASSUME NEW d \in Consumers, client'[d].at \in {"holding", "unparsed"}
               PROVE  \E i \in 1..Len(processing') : processing'[i] = client'[d].raw
    BY DEF HeldIsListed
  <2>1. d # c /\ client'[d] = client[d]
    <3>1. HeldBy(c) \subseteq {k}
      BY <1>1
    <3>2. client'[c] = v /\ \A u \in Consumers : u # c => client'[u] = client[u]
      BY <1>2, <3>1, TurnLemma
    <3> QED
      BY <1>2, <3>2
  <2>2. client[d].raw.id # k
    <3>1. HeldBy(d) = {client[d].raw.id}
      BY <2>1, BusyLemma
    <3> QED
      BY <1>5, <2>1, <3>1
  <2>3. PICK i \in 1..Len(processing) : processing[i] = client[d].raw
    BY <2>1 DEF Possession, HeldIsListed
  <2> QED
    BY <1>3, <2>1, <2>2, <2>3 DEF Removed
<1> QED
  BY <1>5, <1>6, <1>7 DEF Possession

LEMMA PossessionPush ==
  ASSUME TypeOK, Possession, NEW c \in Consumers,
         PushOf(c, client[c].raw.id) \/ FailureOf(c, client[c].raw.id)
  PROVE  Possession'
<1> DEFINE k == client[c].raw.id
<1>1. client[c] # Idle /\ HeldBy(c) = {k}
  <2>1. Idle.at \notin HandOver
    BY DEF Idle, HandOver
  <2>2. client[c] # Idle
    BY <2>1 DEF PushOf, FailureOf
  <2> QED
    BY <2>2 DEF HeldBy
<1>2. Turns(c, k, Idle) /\ accepted' = accepted /\ processing' = processing
  BY DEF PushOf, FailureOf
<1>3. /\ HeldOnce' /\ \A d \in Consumers : HeldBy(d)' \subseteq Accepted'
      /\ \A d \in Consumers : HeldBy(d)' \subseteq HeldBy(d)
      /\ \A d \in Consumers : d # c => k \notin HeldBy(d)
  BY <1>1, <1>2, HeldAfterTurn
<1>4. /\ HeldBy(c)' = {} /\ client'[c] = Idle
      /\ \A d \in Consumers : d # c => client'[d] = client[d]
  <2>1. client'[c] = Idle /\ \A d \in Consumers : d # c => client'[d] = client[d]
    BY <1>2 DEF Turns, TypeOK
  <2> QED
    BY <2>1 DEF HeldBy
<1>5. \/ pending' = pending
      \/ \E e \in Entries : e.id = k /\ pending' = LPUSH(pending, e)
  BY DEF PushOf, FailureOf
<1> HIDE DEF k
<1>6. HeldIsListed'
  <2>1. Idle.at = "idle"
    BY DEF Idle
  <2> QED
    BY <1>2, <1>4, <2>1 DEF Possession, HeldIsListed
<1>7. k \notin Ids(pending) /\ k \in Accepted /\ Accepted' = Accepted
  BY <1>1, <1>2 DEF Possession, WaitingNotHeld, KnownFirst, Accepted
<1>8. CASE pending' = pending
  <2>1. WaitsOnce'
    BY <1>8 DEF Possession, WaitsOnce
  <2>2. Ids(pending') = Ids(pending)
    BY <1>8
  <2> QED
    BY <1>3, <1>6, <1>7, <2>1, <2>2 DEF Possession, WaitingNotHeld, KnownFirst
<1>9. ASSUME NEW e \in Entries, e.id = k, pending' = LPUSH(pending, e)
      PROVE  Possession'
  <2>1. Ids(pending') = {k} \cup Ids(pending)
    BY <1>9, PushIds DEF TypeOK, QueueTypeOK, Pushed
  <2>2. /\ Len(pending') = Len(pending) + 1 /\ pending'[1] = e
        /\ \A i \in 1..Len(pending) : pending'[i + 1] = pending[i]
        /\ Len(pending) \in Nat
    BY <1>9, HeadLemma
  <2>3. WaitsOnce'
    <3> SUFFICES ASSUME NEW i \in 1..Len(pending'), NEW j \in 1..Len(pending'),
                        pending'[i].id = pending'[j].id
                 PROVE  i = j
      BY DEF WaitsOnce
    <3>1. /\ i = 1 \/ (i - 1 \in 1..Len(pending) /\ pending'[i] = pending[i - 1])
          /\ j = 1 \/ (j - 1 \in 1..Len(pending) /\ pending'[j] = pending[j - 1])
      <4>1. ASSUME NEW m \in 1..Len(pending'), m # 1
            PROVE  m - 1 \in 1..Len(pending) /\ pending'[m] = pending[m - 1]
        <5>1. m - 1 \in 1..Len(pending) /\ (m - 1) + 1 = m
          BY <2>2, <4>1
        <5>2. pending'[(m - 1) + 1] = pending[m - 1]
          BY <2>2, <5>1
        <5> QED
          BY <5>1, <5>2
      <4> QED
        BY <4>1
    <3>2. \A n \in 1..Len(pending) : pending[n].id # k
      BY <1>7 DEF Ids
    <3>3. CASE i = 1
      BY <1>9, <2>2, <3>1, <3>2, <3>3
    <3>4. CASE i # 1 /\ j = 1
      BY <1>9, <2>2, <3>1, <3>2, <3>4
    <3>5. CASE i # 1 /\ j # 1
      <4>1. i - 1 = j - 1
        BY <3>1, <3>5 DEF Possession, WaitsOnce
      <4> QED
        BY <4>1
    <3> QED
      BY <3>3, <3>4, <3>5
  <2>4. WaitingNotHeld'
    <3> SUFFICES ASSUME NEW d \in Consumers
                 PROVE  HeldBy(d)' \cap Ids(pending') = {}
      BY DEF WaitingNotHeld
    <3>1. CASE d = c
      BY <1>4, <3>1
    <3>2. CASE d # c
      BY <1>3, <2>1, <3>2 DEF Possession, WaitingNotHeld
    <3> QED
      BY <3>1, <3>2
  <2>5. KnownFirst'
    BY <1>3, <1>7, <2>1 DEF Possession, KnownFirst
  <2> QED
    BY <1>3, <1>6, <2>3, <2>4, <2>5 DEF Possession
<1> QED
  BY <1>5, <1>8, <1>9

LEMMA PossessionEnqueue ==
  ASSUME TypeOK, Possession, NEW j \in Jobs, Enqueue(j)
  PROVE  Possession'
<1> DEFINE e == [id |-> j, retry |-> 0, form |-> FormOf(j)]
<1>1. e \in Entries /\ e.id = j
  BY DEF Entries, Forms, FormOf
<1>2. /\ pending' = LPUSH(pending, e) /\ processing' = processing /\ client' = client
      /\ j \notin Accepted /\ accepted' = Append(accepted, j)
  BY DEF Enqueue, PushNew, Accepted
<1> HIDE DEF e
<1>3. Accepted' = Accepted \cup {j}
  BY <1>2 DEF Accepted, ToSet, TypeOK
<1>4. Ids(pending') = {j} \cup Ids(pending)
  BY <1>1, <1>2, PushIds DEF TypeOK, QueueTypeOK, Pushed
<1>5. /\ Len(pending') = Len(pending) + 1 /\ pending'[1] = e
      /\ \A i \in 1..Len(pending) : pending'[i + 1] = pending[i]
      /\ Len(pending) \in Nat
  BY <1>1, <1>2, HeadLemma
<1>6. \A d \in Consumers : HeldBy(d)' = HeldBy(d)
  BY <1>2 DEF HeldBy
<1>7. WaitsOnce'
  <2> SUFFICES ASSUME NEW i \in 1..Len(pending'), NEW m \in 1..Len(pending'),
                      pending'[i].id = pending'[m].id
               PROVE  i = m
    BY DEF WaitsOnce
  <2>1. /\ i = 1 \/ (i - 1 \in 1..Len(pending) /\ pending'[i] = pending[i - 1])
        /\ m = 1 \/ (m - 1 \in 1..Len(pending) /\ pending'[m] = pending[m - 1])
    <3>1. \A n \in 1..Len(pending') :
            n = 1 \/ (n - 1 \in 1..Len(pending) /\ pending'[n] = pending[n - 1])
      BY <1>5
    <3> QED
      BY <3>1
  <2>2. \A n \in 1..Len(pending) : pending[n].id # j
    BY <1>2 DEF Possession, KnownFirst, Ids
  <2>3. CASE i = 1
    BY <1>1, <1>5, <2>1, <2>2, <2>3
  <2>4. CASE i # 1 /\ m = 1
    BY <1>1, <1>5, <2>1, <2>2, <2>4
  <2>5. CASE i # 1 /\ m # 1
    <3>1. i - 1 = m - 1
      BY <2>1, <2>5 DEF Possession, WaitsOnce
    <3> QED
      BY <3>1
  <2> QED
    BY <2>3, <2>4, <2>5
<1>8. WaitingNotHeld'
  BY <1>2, <1>4, <1>6 DEF Possession, WaitingNotHeld, KnownFirst
<1>9. KnownFirst' /\ HeldOnce'
  BY <1>3, <1>4, <1>6 DEF Possession, KnownFirst, HeldOnce
<1>10. HeldIsListed'
  BY <1>2 DEF Possession, HeldIsListed
<1> QED
  BY <1>7, <1>8, <1>9, <1>10 DEF Possession

LEMMA PossessionDequeue ==
  ASSUME TypeOK, Possession, NEW c \in Consumers, Dequeue(c)
  PROVE  Possession'
<1> DEFINE raw == Last(pending)
           v == [at |-> IF raw.form = "malformed" THEN "unparsed" ELSE "holding", raw |-> raw]
<1>1. /\ raw \in Entries /\ Popped(pending', pending)
      /\ Pushed(processing', processing, raw)
  BY TransferStep DEF Dequeue, TypeOK
<1>2. /\ client[c] = Idle /\ client' = [client EXCEPT ![c] = v]
      /\ accepted' = accepted /\ pending # <<>> /\ pending' = Front(pending)
  BY DEF Dequeue, Becomes, Transfer
<1>3. v \in Busy /\ v # Idle /\ v.raw = raw
  BY <1>1 DEF Busy, Idle
<1>4. /\ Len(pending') = Len(pending) - 1 /\ Len(pending) \in Nat \ {0}
      /\ \A i \in 1..(Len(pending) - 1) : pending'[i] = pending[i]
      /\ raw = pending[Len(pending)]
  BY <1>2, FrontLemma DEF TypeOK, QueueTypeOK
<1> HIDE DEF raw, v
<1>5. /\ client'[c] = v /\ HeldBy(c)' = {raw.id}
      /\ \A d \in Consumers : d # c => client'[d] = client[d] /\ HeldBy(d)' = HeldBy(d)
  <2>1. /\ client'[c] = v
        /\ \A d \in Consumers : d # c => client'[d] = client[d]
    BY <1>2 DEF TypeOK
  <2> QED
    BY <1>3, <2>1 DEF HeldBy
<1>6. raw.id \notin Ids(pending') /\ raw.id \in Ids(pending)
  <2>1. Len(pending) \in 1..Len(pending)
    BY <1>4
  <2>2. \A i \in 1..Len(pending') : pending'[i] = pending[i] /\ i # Len(pending)
                                    /\ i \in 1..Len(pending)
    BY <1>4
  <2> QED
    BY <1>4, <2>1, <2>2 DEF Ids, Possession, WaitsOnce
<1>7. Ids(pending') \subseteq Ids(pending)
  BY <1>1 DEF Popped
<1>8. WaitsOnce'
  <2>1. \A i \in 1..Len(pending') : pending'[i] = pending[i] /\ i \in 1..Len(pending)
    BY <1>4
  <2> QED
    BY <2>1 DEF Possession, WaitsOnce
<1>9. HeldOnce' /\ WaitingNotHeld'
  BY <1>5, <1>6, <1>7 DEF Possession, HeldOnce, WaitingNotHeld
<1>10. KnownFirst'
  <2>1. Accepted' = Accepted
    BY <1>2 DEF Accepted
  <2> QED
    BY <1>5, <1>6, <1>7, <2>1 DEF Possession, KnownFirst
<1>11. HeldIsListed'
  <2> SUFFICES ASSUME NEW d \in Consumers, client'[d].at \in {"holding", "unparsed"}
               PROVE  \E i \in 1..Len(processing') : processing'[i] = client'[d].raw
    BY DEF HeldIsListed
  <2>1. CASE d = c
    BY <1>1, <1>3, <1>5, <2>1 DEF Pushed
  <2>2. CASE d # c
    <3>1. PICK i \in 1..Len(processing) : processing[i] = client[d].raw
      BY <1>5, <2>2 DEF Possession, HeldIsListed
    <3> QED
      BY <1>1, <1>5, <2>2, <3>1 DEF Pushed
  <2> QED
    BY <2>1, <2>2
<1> QED
  BY <1>8, <1>9, <1>10, <1>11 DEF Possession

LEMMA PossessionStep ==
  ASSUME TypeOK, Possession, [Next]_vars
  PROVE  Possession'
<1>1. CASE Next
  BY <1>1, StepKinds, PossessionEnqueue, PossessionDequeue, PossessionRemoval, PossessionPush
<1>2. CASE UNCHANGED vars
  BY <1>2 DEF vars, Possession, WaitsOnce, WaitingNotHeld, HeldOnce, HeldIsListed, KnownFirst,
     Accepted, HeldBy
<1> QED
  BY <1>1, <1>2
-----------------------------------------------------------------------------
(* The places of the jobs.                                                  *)

(* PlaceOf, case by case.                                                   *)
LEMMA PlaceLemma ==
  ASSUME NEW j
  PROVE  /\ j \notin Accepted => PlaceOf(j) = "unsent"
         /\ j \in Accepted /\ j \in Ids(pending) => PlaceOf(j) = "pending"
         /\ j \in Accepted /\ j \notin Ids(pending) /\ j \in InFlight => PlaceOf(j) = "inflight"
         /\ j \in Accepted => PlaceOf(j) \in {"pending", "inflight", "dead", "done", "lost"}
BY DEF PlaceOf

(* A step that changes nothing that is said of j leaves j where it is.      *)
LEMMA PlaceStays ==
  ASSUME NEW j,
         j \in Accepted' <=> j \in Accepted,
         j \in Ids(pending') <=> j \in Ids(pending),
         j \in InFlight' <=> j \in InFlight,
         j \in Ids(deadLetter') <=> j \in Ids(deadLetter),
         j \in acked' <=> j \in acked
  PROVE  PlaceOf(j)' = PlaceOf(j)
BY DEF PlaceOf

Place == [j \in Jobs |-> PlaceOf(j)]

Arrows == {<<"unsent", "pending">>, <<"pending", "inflight">>, <<"inflight", "done">>,
           <<"inflight", "pending">>, <<"inflight", "dead">>, <<"inflight", "lost">>}

(* One job goes along an arrow, or nowhere, and all others stay: a step of  *)
(* the abstract queue.                                                      *)
LEMMA OneMove ==
  ASSUME NEW k \in Jobs, \A j \in Jobs : j # k => PlaceOf(j)' = PlaceOf(j),
         PlaceOf(k)' = PlaceOf(k) \/ <<PlaceOf(k), PlaceOf(k)'>> \in Arrows
  PROVE  [Abstract!Next]_Place
<1>1. CASE PlaceOf(k)' = PlaceOf(k)
  <2>1. Place' = Place
    BY <1>1 DEF Place
  <2> QED
    BY <2>1
<1>2. CASE <<PlaceOf(k), PlaceOf(k)'>> \in Arrows
  <2>1. Place' = [Place EXCEPT ![k] = PlaceOf(k)']
    BY DEF Place
  <2>2. Place[k] = PlaceOf(k)
    BY DEF Place
  <2>3. \/ Place[k] = "unsent"   /\ PlaceOf(k)' = "pending"
        \/ Place[k] = "pending"  /\ PlaceOf(k)' = "inflight"
        \/ Place[k] = "inflight" /\ PlaceOf(k)' = "done"
        \/ Place[k] = "inflight" /\ PlaceOf(k)' = "pending"
        \/ Place[k] = "inflight" /\ PlaceOf(k)' = "dead"
        \/ Place[k] = "inflight" /\ PlaceOf(k)' = "lost"
    BY <1>2, <2>2 DEF Arrows
  <2>4. \/ Abstract!Submit(k) \/ Abstract!Deliver(k) \/ Abstract!Finish(k)
        \/ Abstract!Retry(k) \/ Abstract!Bury(k) \/ Abstract!Lose(k)
    BY <2>1, <2>3 DEF Place, Abstract!Submit, Abstract!Deliver, Abstract!Finish, Abstract!Retry,
       Abstract!Bury, Abstract!Lose, Abstract!Move
  <2> QED
    BY <2>4 DEF Abstract!Next
<1> QED
  BY <1>1, <1>2

(* What a consumer holds has been delivered.                                *)
LEMMA HeldIsInFlightAbove ==
  ASSUME TypeOK, Possession, NEW c \in Consumers, client[c] # Idle
  PROVE  /\ client[c].raw.id \in Jobs /\ client[c].raw.id \in Accepted
         /\ PlaceOf(client[c].raw.id) = "inflight"
<1> DEFINE k == client[c].raw.id
<1>1. client[c] \in Busy /\ HeldBy(c) = {k}
  BY DEF TypeOK, HeldBy
<1>2. k \in Jobs
  BY <1>1 DEF Busy, Entries
<1>3. k \in InFlight
  <2>1. CASE client[c].at \in {"holding", "unparsed"}
    BY <2>1 DEF Possession, HeldIsListed, InFlight, Ids
  <2>2. CASE client[c].at \in HandOver
    BY <2>2 DEF InFlight, InHandOver
  <2> QED
    BY <1>1, <2>1, <2>2 DEF Busy, HandOver
<1>4. k \in Accepted /\ k \notin Ids(pending)
  BY <1>1 DEF Possession, KnownFirst, WaitingNotHeld
<1> QED
  BY <1>2, <1>3, <1>4, PlaceLemma

LEMMA ClientMove ==
  ASSUME TypeOK, Possession, NEW c \in Consumers,
         NEW k, k = client[c].raw.id, RemovalOf(c, k) \/ PushOf(c, k) \/ FailureOf(c, k)
  PROVE  [Abstract!Next]_Place
<1>1. client[c] # Idle
  <2>1. Idle.at \notin HandOver \cup {"holding", "unparsed"}
    BY DEF Idle, HandOver
  <2> QED
    BY <2>1 DEF RemovalOf, PushOf, FailureOf
<1>2. k \in Jobs /\ k \in Accepted /\ PlaceOf(k) = "inflight"
  BY <1>1, HeldIsInFlightAbove
<1>3. HeldBy(c) \subseteq {k}
  BY DEF HeldBy
<1>4. \A j : j # k => (j \in InHandOver' <=> j \in InHandOver)
  <2>1. PICK v : Turns(c, k, v)
    BY DEF RemovalOf, PushOf, FailureOf
  <2> QED
    BY ONLY <1>3, <2>1, TypeOK, TurnLemma
<1>5. /\ accepted' = accepted
      /\ \A j : j # k => /\ j \in Ids(pending') <=> j \in Ids(pending)
                         /\ j \in Ids(processing') <=> j \in Ids(processing)
                         /\ j \in Ids(deadLetter') <=> j \in Ids(deadLetter)
                         /\ j \in acked' <=> j \in acked
  <2>1. CASE RemovalOf(c, k)
    BY <2>1 DEF RemovalOf, Removed
  <2>2. CASE FailureOf(c, k)
    BY <2>2 DEF FailureOf
  <2>3. CASE PushOf(c, k)
    <3>1. /\ processing' = processing /\ accepted' = accepted /\ acked' = acked
          /\ \/ /\ \E e \in Entries : e.id = k /\ pending' = LPUSH(pending, e)
                /\ deadLetter' = deadLetter
             \/ /\ \E e \in DeadEntries : e.id = k /\ Pushed(deadLetter', deadLetter, e)
                /\ pending' = pending
      BY <2>3 DEF PushOf
    <3>2. ASSUME NEW e \in Entries, e.id = k, pending' = LPUSH(pending, e)
          PROVE  Ids(pending') = {k} \cup Ids(pending)
      <4>1. Pushed(pending', pending, e)
        BY <3>2, PushIds DEF TypeOK, QueueTypeOK
      <4> QED
        BY <3>2, <4>1 DEF Pushed
    <3>3. ASSUME NEW e \in DeadEntries, e.id = k, Pushed(deadLetter', deadLetter, e)
          PROVE  Ids(deadLetter') = {k} \cup Ids(deadLetter)
      BY <3>3 DEF Pushed
    <3> QED
      BY <3>1, <3>2, <3>3
  <2> QED
    BY <2>1, <2>2, <2>3
<1>6. k \in Accepted' /\ \A j : j \in Accepted' <=> j \in Accepted
  BY <1>2, <1>5 DEF Accepted
<1>7. \A j \in Jobs : j # k => PlaceOf(j)' = PlaceOf(j)
  <2> SUFFICES ASSUME NEW j \in Jobs, j # k
               PROVE  PlaceOf(j)' = PlaceOf(j)
    OBVIOUS
  <2>1. j \in InFlight' <=> j \in InFlight
    BY <1>4, <1>5 DEF InFlight
  <2> QED
    BY <1>5, <1>6, <2>1, PlaceStays
<1>8. PlaceOf(k)' \in {"pending", "inflight", "dead", "done", "lost"}
  BY <1>6 DEF PlaceOf
<1>9. PlaceOf(k)' = PlaceOf(k) \/ <<PlaceOf(k), PlaceOf(k)'>> \in Arrows
  BY <1>2, <1>8 DEF Arrows
<1> QED
  BY <1>2, <1>7, <1>9, OneMove

LEMMA EnqueueMove ==
  ASSUME TypeOK, Possession, NEW k \in Jobs, Enqueue(k)
  PROVE  [Abstract!Next]_Place
<1> DEFINE e == [id |-> k, retry |-> 0, form |-> FormOf(k)]
<1>1. e \in Entries /\ e.id = k
  BY DEF Entries, Forms, FormOf
<1>2. /\ pending' = LPUSH(pending, e) /\ processing' = processing /\ deadLetter' = deadLetter
      /\ client' = client /\ acked' = acked
      /\ k \notin Accepted /\ accepted' = Append(accepted, k)
  BY DEF Enqueue, PushNew, Accepted
<1> HIDE DEF e
<1>3. Accepted' = Accepted \cup {k}
  BY <1>2 DEF Accepted, ToSet, TypeOK
<1>4. Ids(pending') = {k} \cup Ids(pending)
  BY <1>1, <1>2, PushIds DEF TypeOK, QueueTypeOK, Pushed
<1>5. \A j : j \in InFlight' <=> j \in InFlight
  BY <1>2 DEF InFlight, InHandOver
<1>6. \A j \in Jobs : j # k => PlaceOf(j)' = PlaceOf(j)
  BY <1>2, <1>3, <1>4, <1>5, PlaceStays
<1>7. PlaceOf(k) = "unsent" /\ PlaceOf(k)' = "pending"
  BY <1>2, <1>3, <1>4 DEF PlaceOf
<1> QED
  BY <1>6, <1>7, OneMove DEF Arrows

LEMMA DequeueMove ==
  ASSUME TypeOK, Possession, NEW c \in Consumers, Dequeue(c)
  PROVE  [Abstract!Next]_Place
<1> DEFINE raw == Last(pending)
           v == [at |-> IF raw.form = "malformed" THEN "unparsed" ELSE "holding", raw |-> raw]
<1>1. /\ raw \in Entries /\ Popped(pending', pending) /\ deadLetter' = deadLetter
      /\ Pushed(processing', processing, raw)
  BY TransferStep DEF Dequeue, TypeOK
<1>2. /\ client[c] = Idle /\ client' = [client EXCEPT ![c] = v]
      /\ accepted' = accepted /\ acked' = acked
  BY DEF Dequeue, Becomes
<1> PICK k \in Jobs : k = raw.id
  BY <1>1 DEF Entries
<1>3. v \in Busy /\ v.raw.id = k
  BY <1>1 DEF Busy
<1>4. Ids(pending) = {k} \cup Ids(pending')
      /\ Ids(processing') = {k} \cup Ids(processing)
  BY <1>1 DEF Popped, Pushed
<1>5. HeldBy(c) \subseteq {k} /\ Turns(c, k, v)
  <2> HIDE DEF v
  <2> QED
    BY <1>2, <1>3 DEF HeldBy, Turns
<1> HIDE DEF raw, v
<1>6. \A j : j # k => (j \in InHandOver' <=> j \in InHandOver)
  BY <1>5, TurnLemma
<1>7. \A j : j \in Accepted' <=> j \in Accepted
  BY <1>2 DEF Accepted
<1>8. \A j \in Jobs : j # k => PlaceOf(j)' = PlaceOf(j)
  <2> SUFFICES ASSUME NEW j \in Jobs, j # k
               PROVE  PlaceOf(j)' = PlaceOf(j)
    OBVIOUS
  <2>1. j \in InFlight' <=> j \in InFlight
    BY <1>4, <1>6 DEF InFlight
  <2> QED
    BY <1>1, <1>2, <1>4, <1>7, <2>1, PlaceStays
<1>9. k \in Accepted /\ k \in Accepted' /\ PlaceOf(k) = "pending"
  BY <1>4, <1>7, PlaceLemma DEF Possession, KnownFirst
<1>10. PlaceOf(k)' \in {"pending", "inflight"}
  <2>1. k \in InFlight'
    BY <1>4 DEF InFlight
  <2> QED
    BY <1>9, <2>1 DEF PlaceOf
<1>11. PlaceOf(k)' = PlaceOf(k) \/ <<PlaceOf(k), PlaceOf(k)'>> \in Arrows
  BY <1>9, <1>10 DEF Arrows
<1> QED
  BY <1>4, <1>8, <1>11, OneMove

(* For any jobs, consumers, failures and retry limit, the queue's lists and *)
(* the two-step methods on them implement the abstract queue: what waits is *)
(* never lost, what is acknowledged or buried never comes back, and a       *)
(* delivery takes the job out of the pending list (task_queue.py 8-15,      *)
(* 90-194).                                                                 *)
THEOREM QueueRefinement == Spec => ImplementsReliableQueue
<1>1. Init => TypeOK /\ Possession
  <2>1. Init => TypeOK
    BY ClientsAssumption DEF Init, QueueInit, TypeOK, QueueTypeOK, Idle
  <2>2. Init => Possession
    BY DEF Init, QueueInit, Possession, WaitsOnce, WaitingNotHeld, HeldOnce, HeldIsListed,
           KnownFirst, HeldBy, Idle, Ids
  <2> QED
    BY <2>1, <2>2
<1>2. TypeOK /\ Possession /\ [Next]_vars => TypeOK' /\ Possession'
  BY TypeStep, PossessionStep
<1>3. Init => Abstract!Init
  <2>1. Init => \A j \in Jobs : j \notin Accepted
    BY DEF Init, Accepted, ToSet
  <2> QED
    BY <2>1, PlaceLemma DEF Abstract!Init
<1>4. TypeOK /\ Possession /\ [Next]_vars => [Abstract!Next]_Place
  <2> SUFFICES ASSUME TypeOK, Possession, [Next]_vars
               PROVE  [Abstract!Next]_Place
    OBVIOUS
  <2>1. CASE Next
    BY <2>1, StepKinds, EnqueueMove, DequeueMove, ClientMove
  <2>2. CASE UNCHANGED vars
    <3>1. \A j : PlaceOf(j)' = PlaceOf(j)
      BY <2>2 DEF vars, PlaceOf, Accepted, InFlight, InHandOver
    <3>2. Place' = Place
      BY <3>1 DEF Place
    <3> QED
      BY <3>2
  <2> QED
    BY <2>1, <2>2
<1> QED
  BY <1>1, <1>2, <1>3, <1>4, PTL DEF Spec, ImplementsReliableQueue, Abstract!Spec, Place

-----------------------------------------------------------------------------
(* What a fault may cost.                                                   *)

\* A tracked job that was accepted and is nowhere, or that is in the processing
\* list and nobody holds.
Missing == (Lost \cup Stranded) \cap Tracked

(* A consumer that turns concerns nobody else's jobs: a job that its step   *)
(* neither moves nor counts is missing after it only if it was before.      *)
LEMMA NoneElseMissing ==
  ASSUME TypeOK, NEW c \in Consumers, NEW k, HeldBy(c) \subseteq {k},
         NEW v, Turns(c, k, v), NEW j, j # k, j \in Missing',
         j \in Accepted' <=> j \in Accepted,
         j \in Ids(pending') <=> j \in Ids(pending),
         j \in Ids(processing') <=> j \in Ids(processing),
         j \in Ids(deadLetter') <=> j \in Ids(deadLetter),
         j \in acked' <=> j \in acked
  PROVE  j \in Missing
<1>1. /\ \A d \in Consumers : j \in HeldBy(d) => j \in HeldBy(d)'
      /\ j \in InHandOver' <=> j \in InHandOver
  BY TurnLemma
<1>2. j \in InFlight' <=> j \in InFlight
  BY <1>1 DEF InFlight
<1> QED
  BY <1>1, <1>2 DEF Missing, Lost, Stranded, Somewhere, Tracked

(* The job of an LREM is in its consumer's hands, or acknowledged and gone  *)
(* from the processing list: ack passes the bytes that are there.           *)
LEMMA RemovalMissesNone ==
  ASSUME TypeOK, Safe, NEW c \in Consumers, NEW k, k = client[c].raw.id, RemovalOf(c, k)
  PROVE  Missing' \subseteq Missing
<1>1. client[c] # Idle /\ HeldBy(c) = {k}
  BY BusyLemma DEF RemovalOf
<1>2. PICK v : Turns(c, k, v)
  BY DEF RemovalOf
<1>3. \A j : j # k => /\ j \in Accepted' <=> j \in Accepted
                      /\ j \in Ids(pending') <=> j \in Ids(pending)
                      /\ j \in Ids(processing') <=> j \in Ids(processing)
                      /\ j \in Ids(deadLetter') <=> j \in Ids(deadLetter)
                      /\ j \in acked' <=> j \in acked
  BY DEF RemovalOf, Removed, Accepted
<1>4. \A j \in Missing' : j # k => j \in Missing
  BY <1>1, <1>2, <1>3, NoneElseMissing
<1>5. k \notin Missing'
  <2>1. CASE client'[c].at \in HandOver
    <3>1. client'[c] # Idle
      BY <2>1 DEF HandOver, Idle
    <3>2. client'[c].raw.id = k
      BY <1>2, <3>1 DEF Turns, TypeOK
    <3>3. k \in HeldBy(c)' /\ k \in InHandOver'
      BY <2>1, <3>1, <3>2 DEF HeldBy, InHandOver
    <3> QED
      BY <3>3 DEF Missing, Lost, Stranded, Somewhere, InFlight
  <2>2. CASE Ack(c) /\ k \in Tracked
    <3>1. Removed(processing', processing, client[c].raw) /\ k \in acked'
      BY <2>2, RemoveStep DEF Ack, TypeOK
    <3>2. \E i \in 1..Len(processing) : processing[i] = client[c].raw
      BY <2>2 DEF Ack, Safe, HeldIsInFlight
    <3>3. k \notin Ids(processing')
      BY <2>2, <3>1, <3>2 DEF Removed, Safe, OnePlace, NoRepeats
    <3> QED
      BY <3>1, <3>3 DEF Missing, Lost, Stranded, Somewhere
  <2>3. CASE k \notin Tracked
    BY <2>3 DEF Missing, Tracked
  <2> QED
    BY <2>1, <2>2, <2>3 DEF RemovalOf
<1> QED
  BY <1>4, <1>5

(* The job of an LPUSH is in the list it was pushed to, and no longer in    *)
(* the processing list.                                                     *)
LEMMA PushMissesNone ==
  ASSUME TypeOK, Safe, NEW c \in Consumers, NEW k, k = client[c].raw.id, PushOf(c, k)
  PROVE  Missing' \subseteq Missing
<1>1. client[c] # Idle /\ HeldBy(c) = {k} /\ k \in InHandOver
  BY BusyLemma DEF PushOf, HandOver, InHandOver
<1>2. /\ Turns(c, k, Idle)
      /\ processing' = processing /\ accepted' = accepted /\ acked' = acked
  BY DEF PushOf
<1>3. \/ Ids(pending') = {k} \cup Ids(pending) /\ deadLetter' = deadLetter
      \/ Ids(deadLetter') = {k} \cup Ids(deadLetter) /\ pending' = pending
  <2>1. ASSUME NEW e \in Entries, e.id = k, pending' = LPUSH(pending, e)
        PROVE  Ids(pending') = {k} \cup Ids(pending)
    <3>1. Pushed(pending', pending, e)
      BY <2>1, PushIds DEF TypeOK, QueueTypeOK
    <3> QED
      BY <2>1, <3>1 DEF Pushed
  <2>2. ASSUME NEW e \in DeadEntries, e.id = k, Pushed(deadLetter', deadLetter, e)
        PROVE  Ids(deadLetter') = {k} \cup Ids(deadLetter)
    BY <2>2 DEF Pushed
  <2> QED
    BY <2>1, <2>2 DEF PushOf
<1>4. \A j \in Missing' : j # k => j \in Missing
  <2>1. \A j : j # k => /\ j \in Accepted' <=> j \in Accepted
                        /\ j \in Ids(pending') <=> j \in Ids(pending)
                        /\ j \in Ids(processing') <=> j \in Ids(processing)
                        /\ j \in Ids(deadLetter') <=> j \in Ids(deadLetter)
                        /\ j \in acked' <=> j \in acked
    BY <1>2, <1>3 DEF Accepted
  <2> QED
    BY <1>1, <1>2, <2>1, NoneElseMissing
<1>5. k \notin Missing'
  <2>1. k \in Tracked => k \notin Ids(processing')
    BY <1>1, <1>2 DEF Safe, OnePlace, NoOverlap
  <2> QED
    BY <1>3, <2>1 DEF Missing, Lost, Stranded, Somewhere, Tracked
<1> QED
  BY <1>4, <1>5

(* A new job is in the pending list.                                        *)
LEMMA EnqueueMissesNone ==
  ASSUME TypeOK, NEW k \in Jobs, Enqueue(k)
  PROVE  Missing' \subseteq Missing
<1>1. \E e \in Entries : Pushed(pending', pending, e) /\ e.id = k
  BY PushNewStep DEF Enqueue, TypeOK
<1>2. Ids(pending') = {k} \cup Ids(pending)
  BY <1>1 DEF Pushed
<1>3. /\ processing' = processing /\ deadLetter' = deadLetter
      /\ client' = client /\ acked' = acked /\ Accepted' = Accepted \cup {k}
  BY DEF Enqueue, PushNew, Accepted, ToSet, TypeOK
<1>4. InHandOver' = InHandOver /\ \A d \in Consumers : HeldBy(d)' = HeldBy(d)
  BY <1>3 DEF InHandOver, HeldBy
<1> QED
  BY <1>2, <1>3, <1>4 DEF Missing, Lost, Stranded, Somewhere, InFlight, Tracked

(* A delivered job is in the processing list and in its consumer's hands.   *)
LEMMA DequeueMissesNone ==
  ASSUME TypeOK, NEW c \in Consumers, Dequeue(c)
  PROVE  Missing' \subseteq Missing
<1> DEFINE raw == Last(pending)
           v == [at |-> IF raw.form = "malformed" THEN "unparsed" ELSE "holding", raw |-> raw]
           k == raw.id
<1>1. /\ raw \in Entries /\ Popped(pending', pending) /\ deadLetter' = deadLetter
      /\ Pushed(processing', processing, raw)
  BY TransferStep DEF Dequeue, TypeOK
<1>2. /\ client[c] = Idle /\ client' = [client EXCEPT ![c] = v]
      /\ accepted' = accepted /\ acked' = acked
  BY DEF Dequeue, Becomes
<1>3. v \in Busy /\ v.raw.id = k /\ v # Idle
  BY <1>1 DEF Busy, Idle
<1>4. Ids(pending) = {k} \cup Ids(pending') /\ Ids(processing') = {k} \cup Ids(processing)
  BY <1>1 DEF Popped, Pushed
<1> HIDE DEF raw, v, k
<1>5. HeldBy(c) \subseteq {k} /\ Turns(c, k, v)
  BY <1>2, <1>3 DEF HeldBy, Turns
<1>6. \A j \in Missing' : j # k => j \in Missing
  <2>1. Accepted' = Accepted
    BY <1>2 DEF Accepted
  <2> QED
    BY <1>1, <1>2, <1>4, <1>5, <2>1, NoneElseMissing
<1>7. k \notin Missing'
  <2>1. client'[c] = v
    BY <1>2 DEF TypeOK
  <2>2. k \in HeldBy(c)'
    BY <1>3, <2>1 DEF HeldBy
  <2> QED
    BY <1>4, <2>2 DEF Missing, Lost, Stranded, Somewhere, InFlight
<1> QED
  BY <1>6, <1>7

(* A consumer that dies leaves at most the job it held.                     *)
LEMMA FailureMissesOne ==
  ASSUME TypeOK, NEW c \in Consumers, NEW k, k = client[c].raw.id, FailureOf(c, k)
  PROVE  Missing' \subseteq Missing \cup {k}
<1>1. HeldBy(c) \subseteq {k}
  BY DEF HeldBy
<1>2. Turns(c, k, Idle) /\ UNCHANGED <<pending, processing, deadLetter, accepted, acked>>
  BY DEF FailureOf
<1>3. \A j \in Missing' : j # k => j \in Missing
  BY <1>1, <1>2, NoneElseMissing DEF Accepted
<1> QED
  BY <1>3

FewMissing == IsFiniteSet(Missing) /\ Cardinality(Missing) <= faults

(* Only a fault adds to what is missing, and it adds one job.               *)
LEMMA MissingStep ==
  ASSUME TypeOK, Safe, FewMissing, [Next]_vars
  PROVE  FewMissing'
<1>1. faults \in Nat /\ Cardinality(Missing) \in Nat
  BY FS_CardinalityType DEF TypeOK, FewMissing
<1>2. ASSUME Missing' \subseteq Missing, faults' = faults
      PROVE  FewMissing'
  <2>1. /\ IsFiniteSet(Missing') /\ Cardinality(Missing') <= Cardinality(Missing)
        /\ Cardinality(Missing') \in Nat
    BY <1>2, FS_Subset, FS_CardinalityType DEF FewMissing
  <2> QED
    BY <1>1, <1>2, <2>1 DEF FewMissing
<1>3. ASSUME NEW k, Missing' \subseteq Missing \cup {k}, faults' = faults + 1
      PROVE  FewMissing'
  <2>1. /\ IsFiniteSet(Missing \cup {k})
        /\ Cardinality(Missing \cup {k}) \in {Cardinality(Missing), Cardinality(Missing) + 1}
    BY FS_AddElement DEF FewMissing
  <2>2. /\ IsFiniteSet(Missing')
        /\ Cardinality(Missing') <= Cardinality(Missing \cup {k})
        /\ Cardinality(Missing') \in Nat
    BY <1>3, <2>1, FS_Subset, FS_CardinalityType
  <2> QED
    BY <1>1, <1>3, <2>1, <2>2 DEF FewMissing
<1>4. ASSUME NEW k \in Jobs, Enqueue(k)
      PROVE  FewMissing'
  BY <1>2, <1>4, EnqueueMissesNone DEF Enqueue
<1>5. ASSUME NEW c \in Consumers, Dequeue(c)
      PROVE  FewMissing'
  BY <1>2, <1>5, DequeueMissesNone DEF Dequeue
<1>6. ASSUME NEW c \in Consumers, NEW k, k = client[c].raw.id,
             RemovalOf(c, k) \/ PushOf(c, k) \/ FailureOf(c, k)
      PROVE  FewMissing'
  <2>1. CASE RemovalOf(c, k)
    BY <1>2, <1>6, <2>1, RemovalMissesNone DEF RemovalOf
  <2>2. CASE PushOf(c, k)
    BY <1>2, <1>6, <2>2, PushMissesNone DEF PushOf
  <2>3. CASE FailureOf(c, k)
    BY <1>3, <1>6, <2>3, FailureMissesOne DEF FailureOf
  <2> QED
    BY <1>6, <2>1, <2>2, <2>3
<1>7. CASE UNCHANGED vars
  <2>1. Missing' = Missing
    BY <1>7 DEF vars, Missing, Lost, Stranded, Somewhere, InFlight, InHandOver, Accepted, HeldBy
  <2> QED
    BY <1>2, <1>7, <2>1 DEF vars
<1> QED
  BY <1>4, <1>5, <1>6, <1>7, StepKinds

(* For any number of jobs and consumers, and wherever they stop: no more    *)
(* jobs are missing than consumers have failed, and without a failure none  *)
(* is (task_queue.py 8-10, 145-168, 178-189).                               *)
THEOREM OneFaultCostsOneJob == Spec => []OneJobPerFault
<1> DEFINE Inv == TypeOK /\ Safe /\ FewMissing
<1>1. Init => Inv
  <2>1. Init => TypeOK /\ Safe
    BY SafeInit
  <2>2. Init => Missing = {} /\ faults = 0
    BY DEF Init, QueueInit, Missing, Lost, Stranded, Accepted, ToSet, Ids
  <2>3. Init => FewMissing
    BY <2>2, FS_EmptySet DEF FewMissing
  <2> QED
    BY <2>1, <2>3
<1>2. Inv /\ [Next]_vars => Inv'
  BY TypeStep, SafeStep, MissingStep
<1>3. Inv => OneJobPerFault
  BY DEF FewMissing, Missing, OneJobPerFault
<1> QED
  BY <1>1, <1>2, <1>3, PTL DEF Spec
=============================================================================
