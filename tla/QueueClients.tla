---------------------------- MODULE QueueClients ----------------------------
(***************************************************************************)
(* The job queue under the consumer loop its class docstring gives         *)
(* (task_queue/task_queue.py, 51-62): dequeue, then ack on success,        *)
(* requeue on a recoverable error, dead_letter on any other, with ack      *)
(* given the raw bytes its signature asks for.  Several consumers share    *)
(* the lists; each may die, or be stopped by a failing Redis command,      *)
(* between any two of its awaits.                                          *)
(*                                                                         *)
(* The transfer of dequeue() is the one its comment and the commented-out  *)
(* call describe (lines 99-100); what the call on line 101 does instead is *)
(* in module Worker.                                                       *)
(***************************************************************************)
EXTENDS TaskQueue, FiniteSets

CONSTANTS
    Consumers,
    MaxFaults      \* bound on the number of consumer failures

ASSUME ClientsAssumption == MaxFaults \in Nat

VARIABLES
    accepted,      \* ids in the order enqueue() pushed them (history)
    acked,         \* ids that ack() removed (history)
    client,        \* what each consumer is doing, and with which raw bytes
    faults         \* failures so far

clientVars == <<accepted, acked, client, faults>>
vars == <<pending, processing, deadLetter, accepted, acked, client, faults>>

Idle == [at |-> "idle"]

(* at:  "holding"         dequeue() returned the parsed job                 *)
(*      "unparsed"        in dequeue(), parsing failed, LREM is next        *)
(*      "unparsed_push"   ... its LREM is done, LPUSH is next               *)
(*      "requeue_push"    in requeue(), LREM is done, LPUSH is next         *)
(*      "dead_push"       in dead_letter(), LREM is done, LPUSH is next     *)
Busy == [at : {"holding", "unparsed", "unparsed_push", "requeue_push", "dead_push"},
         raw : Entries]

(* Between the LREM and the LPUSH of a method a job is in no list.          *)
HandOver == {"unparsed_push", "requeue_push", "dead_push"}

Becomes(c, at, raw) == client' = [client EXCEPT ![c] = [at |-> at, raw |-> raw]]
Return(c) == client' = [client EXCEPT ![c] = Idle]

Init ==
    /\ QueueInit
    /\ accepted = <<>>
    /\ acked = {}
    /\ client = [c \in Consumers |-> Idle]
    /\ faults = 0

(* enqueue(): job_id is a fresh uuid.                                       *)
Enqueue(j) ==
    /\ j \notin ToSet(accepted)
    /\ PushNew(j)
    /\ accepted' = Append(accepted, j)
    /\ UNCHANGED <<acked, client, faults>>

(* dequeue(): the transfer, then parsing, with no await between them.       *)
Dequeue(c) ==
    /\ client[c] = Idle
    /\ Transfer
    /\ LET raw == Last(pending)
       IN  Becomes(c, IF raw.form = "malformed" THEN "unparsed" ELSE "holding", raw)
    /\ UNCHANGED <<accepted, acked, faults>>

(* dequeue(): the malformed branch, its LREM and then its LPUSH.            *)
MalformedRemove(c) ==
    /\ client[c].at = "unparsed"
    /\ RemoveInFlight(client[c].raw)
    /\ Becomes(c, "unparsed_push", client[c].raw)
    /\ UNCHANGED <<accepted, acked, faults>>

MalformedPush(c) ==
    /\ client[c].at = "unparsed_push"
    /\ PushDead(Parse(client[c].raw), "malformed")
    /\ Return(c)
    /\ UNCHANGED <<accepted, acked, faults>>

(* ack(job, raw_bytes).                                                     *)
Ack(c) ==
    /\ client[c].at = "holding"
    /\ RemoveInFlight(client[c].raw)
    /\ acked' = acked \cup {client[c].raw.id}
    /\ Return(c)
    /\ UNCHANGED <<accepted, faults>>

(* Mutant: requeue() without its LREM.                                      *)
RequeueKeepsInFlight(c) ==
    /\ client[c].at = "holding"
    /\ Becomes(c, "requeue_push", client[c].raw)
    /\ UNCHANGED <<queueVars, accepted, acked, faults>>

(* requeue(job): the bytes removed are written from the parsed job.         *)
RequeueRemove(c) ==
    /\ client[c].at = "holding"
    /\ RemoveInFlight(Dump(Parse(client[c].raw)))
    /\ Becomes(c, "requeue_push", client[c].raw)
    /\ UNCHANGED <<accepted, acked, faults>>

RequeuePush(c) ==
    /\ client[c].at = "requeue_push"
    /\ PushRequeue(Parse(client[c].raw))
    /\ Return(c)
    /\ UNCHANGED <<accepted, acked, faults>>

(* dead_letter(job, error), the same way.                                   *)
DeadLetterRemove(c) ==
    /\ client[c].at = "holding"
    /\ RemoveInFlight(Dump(Parse(client[c].raw)))
    /\ Becomes(c, "dead_push", client[c].raw)
    /\ UNCHANGED <<accepted, acked, faults>>

DeadLetterPush(c) ==
    /\ client[c].at = "dead_push"
    /\ PushDead(Parse(client[c].raw), "error")
    /\ Return(c)
    /\ UNCHANGED <<accepted, acked, faults>>

(* A consumer dies and is started again, or a Redis command raises out of   *)
(* its loop: it forgets what it held.  The class keeps nothing else, and no *)
(* code looks at the processing list on a start.                            *)
Fail(c) ==
    /\ faults < MaxFaults
    /\ client[c] # Idle
    /\ Return(c)
    /\ faults' = faults + 1
    /\ UNCHANGED <<pending, processing, deadLetter, accepted, acked>>

Step(c) ==
    \/ Dequeue(c)
    \/ MalformedRemove(c) \/ MalformedPush(c)
    \/ Ack(c)
    \/ RequeueRemove(c) \/ RequeuePush(c)
    \/ DeadLetterRemove(c) \/ DeadLetterPush(c)

Next ==
    \/ \E j \in Jobs : Enqueue(j)
    \/ \E c \in Consumers : Step(c) \/ Fail(c)

Spec == Init /\ [][Next]_vars

FairSpec == Spec /\ \A c \in Consumers : WF_vars(Step(c))

-----------------------------------------------------------------------------
(* Where the jobs are.                                                      *)

Accepted == ToSet(accepted)

HeldBy(c) == IF client[c] = Idle THEN {} ELSE {client[c].raw.id}
InHandOver == {client[c].raw.id : c \in {d \in Consumers : client[d].at \in HandOver}}
InFlight == Ids(processing) \cup InHandOver
Somewhere == Ids(pending) \cup InFlight \cup Ids(deadLetter) \cup acked

Lost == Accepted \ Somewhere
Stranded == Ids(processing) \ UNION {HeldBy(c) : c \in Consumers}

TypeOK ==
    /\ QueueTypeOK
    /\ accepted \in Seq(Jobs)
    /\ acked \subseteq Jobs
    /\ client \in [Consumers -> {Idle} \cup Busy]
    /\ faults \in 0..MaxFaults

NoRepeats == UniqueIn(pending) /\ UniqueIn(processing) /\ UniqueIn(deadLetter)

NoOverlap ==
    \A j \in Tracked :
        /\ ~(j \in Ids(pending) /\ j \in InFlight)
        /\ ~(j \in Ids(pending) /\ j \in Ids(deadLetter))
        /\ ~(j \in Ids(processing) /\ j \in InHandOver)
        /\ ~(j \in InFlight /\ j \in Ids(deadLetter))
        /\ j \in acked => j \notin Ids(pending) \cup InFlight \cup Ids(deadLetter)

OneHolder ==
    \A c, d \in Consumers : c # d => HeldBy(c) \cap HeldBy(d) \cap Tracked = {}

(* A job whose bytes this version writes itself is never in two places:     *)
(* not twice in a list, not in two lists, not both in a list and between    *)
(* the LREM and the LPUSH of a method, and never with two consumers; the    *)
(* two-step moves of requeue, dead_letter and dequeue may interleave and    *)
(* stop anywhere (task_queue.py 116-194).                                   *)
OnePlace == NoRepeats /\ NoOverlap /\ OneHolder

(* One failing consumer costs at most one job, whether the job vanishes     *)
(* between an LREM and its LPUSH or stays in the processing list, which no  *)
(* code ever reads again; without a failure every accepted job is           *)
(* accounted for (task_queue.py 8-10, 145-168, 178-189).                    *)
OneJobPerFault ==
    Cardinality((Lost \cup Stranded) \cap Tracked) <= faults

(* First deliveries are in the order of enqueue(): a job still waiting for  *)
(* its first delivery has no later job delivered before it, whatever has    *)
(* been put back at the head of the list in between (task_queue.py 79, 99,  *)
(* 168).                                                                    *)
WaitingFirst ==
    {pending[i].id : i \in {k \in 1..Len(pending) : pending[k].retry = 0}}

FirstDeliveriesInOrder ==
    \A i, k \in 1..Len(accepted) :
        i < k /\ accepted[i] \in WaitingFirst => accepted[k] \in WaitingFirst

(* No job is delivered more than 1 + MAX_JOB_RETRY_COUNT times: the count   *)
(* carried in the bytes never passes the limit (task_queue.py 149-157).     *)
RetryBound ==
    /\ \A i \in 1..Len(pending) : pending[i].retry <= MAX_JOB_RETRY_COUNT
    /\ \A i \in 1..Len(deadLetter) :
        deadLetter[i].reason = "retries" => deadLetter[i].retry = MAX_JOB_RETRY_COUNT

(* Every accepted job is acknowledged or dead-lettered in the end, as long  *)
(* as no consumer fails: the retries are finite and requeue() puts a job    *)
(* where some consumer finds it.                                            *)
EventuallySettled ==
    \A j \in Jobs : (j \in Accepted) ~> (j \in acked \cup Ids(deadLetter) \/ faults > 0)

(* The lists implement the abstract queue.                                  *)
PlaceOf(j) ==
    IF j \notin Accepted THEN "unsent"
    ELSE IF j \in Ids(pending) THEN "pending"
    ELSE IF j \in InFlight THEN "inflight"
    ELSE IF j \in Ids(deadLetter) THEN "dead"
    ELSE IF j \in acked THEN "done" ELSE "lost"

Abstract == INSTANCE ReliableQueue WITH place <- [j \in Jobs |-> PlaceOf(j)]

(* Every step of the clients is a move of one job along the arrows of       *)
(* ReliableQueue: what waits is never lost, what is acknowledged or buried  *)
(* never comes back, a delivery always takes the job out of the pending     *)
(* list (task_queue.py 8-15).                                               *)
ImplementsReliableQueue == Abstract!Spec
=============================================================================
