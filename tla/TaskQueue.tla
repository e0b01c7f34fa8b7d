----------------------------- MODULE TaskQueue -----------------------------
(***************************************************************************)
(* The Redis-backed job queue of task_queue/task_queue.py: three Redis     *)
(* lists and the steps the TaskQueue methods take on them.                 *)
(*                                                                         *)
(* A method that awaits Redis twice (requeue, dead_letter, the malformed   *)
(* branch of dequeue) is two steps here, because every await is a point    *)
(* where the process can die, the command can fail, or another coroutine   *)
(* can run.  The methods' callers are in the modules that extend this one: *)
(* QueueClients (the consumer loop of the class docstring) and Worker      *)
(* (apps/worker/worker.py).                                                *)
(***************************************************************************)
EXTENDS Integers, SequencesExt

CONSTANTS
    Jobs,                  \* job ids: uuid4 strings, fresh for every webhook
    Extended,              \* jobs whose bytes this version parses but would write differently
    Malformed,             \* jobs whose bytes ReviewJobSchema rejects
    MAX_JOB_RETRY_COUNT    \* shared/constants.py

ASSUME QueueAssumption ==
    /\ Extended \subseteq Jobs
    /\ Malformed \subseteq Jobs
    /\ Extended \cap Malformed = {}
    /\ MAX_JOB_RETRY_COUNT \in Nat

VARIABLES pending, processing, deadLetter

queueVars == <<pending, processing, deadLetter>>

Forms == {"native", "extended", "malformed"}
Reasons == {"malformed", "retries", "error"}

(* What the lists hold: the bytes of a job.  Two entries are the same bytes *)
(* exactly when they agree on the id, the retry count and the encoding.     *)
Entries == [id : Jobs, retry : Nat, form : Forms]
DeadEntries == [id : Jobs, retry : Nat, reason : Reasons]

(* A parsed job, as dequeue() hands it over (the payload is left out).      *)
ParsedJobs == [id : Jobs, retry : Nat]

FormOf(j) == IF j \in Malformed THEN "malformed"
             ELSE IF j \in Extended THEN "extended" ELSE "native"

(* ReviewJobSchema.model_validate(json.loads(raw)), for a raw that parses.  *)
(* Fields this version does not know are dropped.                           *)
Parse(raw) == [id |-> raw.id, retry |-> raw.retry]

(* job.model_dump_json(): the bytes this version writes, whatever was read. *)
Dump(job) == [id |-> job.id, retry |-> job.retry, form |-> "native"]

-----------------------------------------------------------------------------
(* The Redis list commands, as task_queue.py uses them.                     *)

LPUSH(list, x) == Cons(x, list)
LREM(list, x) == RemoveFirst(list, x)     \* count = 1; no match removes nothing

Ids(list) == {list[i].id : i \in 1..Len(list)}

-----------------------------------------------------------------------------
(* The steps of the methods.                                                *)

QueueInit == pending = <<>> /\ processing = <<>> /\ deadLetter = <<>>

(* Mutant: enqueue() with RPUSH.                                            *)
PushNewAtTail(j) ==
    /\ pending' = Append(pending, [id |-> j, retry |-> 0, form |-> FormOf(j)])
    /\ UNCHANGED <<processing, deadLetter>>

(* enqueue(): a new job's bytes go to the head of the pending list.         *)
PushNew(j) ==
    /\ pending' = LPUSH(pending, [id |-> j, retry |-> 0, form |-> FormOf(j)])
    /\ UNCHANGED <<processing, deadLetter>>

(* Mutant: dequeue() with BRPOP, nothing put in the processing list.        *)
TransferWithoutPush ==
    /\ pending # <<>>
    /\ pending' = Front(pending)
    /\ UNCHANGED <<processing, deadLetter>>

(* dequeue(), the transfer: tail of pending to head of processing.          *)
Transfer ==
    /\ pending # <<>>
    /\ pending' = Front(pending)
    /\ processing' = LPUSH(processing, Last(pending))
    /\ UNCHANGED deadLetter

(* The LREM that ack, requeue, dead_letter and the malformed branch begin   *)
(* with; which bytes they pass is what tells them apart.                    *)
RemoveInFlight(raw) ==
    /\ processing' = LREM(processing, raw)
    /\ UNCHANGED <<pending, deadLetter>>

(* Mutant: the job is pushed again as it is.                                *)
RetriedUncounted(job) == job

Retried(job) == [job EXCEPT !.retry = @ + 1]

(* Mutant: the early return of requeue() without its LPUSH.                 *)
PushExhaustedForgotten(job) ==
    /\ Retried(job).retry > MAX_JOB_RETRY_COUNT
    /\ UNCHANGED queueVars

(* requeue(), after its LREM: too many attempts, the job is buried.         *)
PushExhausted(job) ==
    /\ Retried(job).retry > MAX_JOB_RETRY_COUNT
    /\ deadLetter' = LPUSH(deadLetter,
                           [id |-> job.id, retry |-> job.retry, reason |-> "retries"])
    /\ UNCHANGED <<pending, processing>>

(* Mutant: one retry too many.                                              *)
PushRetriedOnceMore(job) ==
    /\ Retried(job).retry <= MAX_JOB_RETRY_COUNT + 1
    /\ pending' = LPUSH(pending, Dump(Retried(job)))
    /\ UNCHANGED <<processing, deadLetter>>

(* requeue(), after its LREM: otherwise back to the head of pending.        *)
PushRetried(job) ==
    /\ Retried(job).retry <= MAX_JOB_RETRY_COUNT
    /\ pending' = LPUSH(pending, Dump(Retried(job)))
    /\ UNCHANGED <<processing, deadLetter>>

PushRequeue(job) == PushExhausted(job) \/ PushRetried(job)

(* Mutant: the job is stored without the error metadata.                    *)
PushDeadBare(job, reason) ==
    /\ deadLetter' = LPUSH(deadLetter, job)
    /\ UNCHANGED <<pending, processing>>

(* dead_letter() after its LREM, and the malformed branch after its own.    *)
PushDead(job, reason) ==
    /\ deadLetter' = LPUSH(deadLetter,
                           [id |-> job.id, retry |-> job.retry, reason |-> reason])
    /\ UNCHANGED <<pending, processing>>

-----------------------------------------------------------------------------
QueueTypeOK ==
    /\ pending \in Seq(Entries)
    /\ processing \in Seq(Entries)
    /\ deadLetter \in Seq(DeadEntries)

(* The jobs whose bytes every method of this version writes the same way.   *)
Tracked == Jobs \ Extended

(* No two places of a list hold the same tracked job.                       *)
UniqueIn(list) ==
    \A i, k \in 1..Len(list) :
        list[i].id = list[k].id /\ list[i].id \in Tracked => i = k
=============================================================================
