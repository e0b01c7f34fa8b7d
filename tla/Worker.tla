------------------------------- MODULE Worker -------------------------------
(***************************************************************************)
(* The worker process of apps/worker/worker.py over the job queue and the  *)
(* reviews table: worker_loop coroutines that dequeue and spawn, one       *)
(* process_job task per job behind a semaphore, the shutdown of main(),    *)
(* and the death and restart of the process.                               *)
(*                                                                         *)
(* asyncio runs one coroutine at a time, so an action is what happens      *)
(* between two awaits that other coroutines, other processes or a crash    *)
(* can tell apart.  The LangGraph pipeline is the three awaits whose       *)
(* effect leaves the process: post to GitHub, persist, store the patches.  *)
(***************************************************************************)
EXTENDS TaskQueue, FiniteSets

CONSTANTS
    Loops,                \* worker_loop coroutines
    Tasks,                \* process_job tasks that can exist at a time
    WORKER_CONCURRENCY,   \* settings.worker_concurrency, the semaphore's value
    RetryLimit,           \* the 3 written in process_job
    Repos, RepoOf,        \* the repository (and pull request) of each job
    CallTransfers,        \* does the brpoplpush call of dequeue() move a job?
    FailingSessions,      \* the database sessions that can fail
    MayStop,              \* can SIGTERM or SIGINT arrive?
    MaxFaults             \* bound on crashes and failing Redis commands

ASSUME WorkerAssumption ==
    /\ WORKER_CONCURRENCY \in Nat \ {0}
    /\ RetryLimit \in Nat
    /\ RepoOf \in [Jobs -> Repos]
    /\ CallTransfers \in BOOLEAN
    /\ FailingSessions \subseteq {"create", "persist", "autofix", "fail"}
    /\ MayStop \in BOOLEAN
    /\ MaxFaults \in Nat

VARIABLES
    submitted,   \* jobs the webhook has enqueued
    loop,        \* where each worker_loop is
    task,        \* the process_job tasks
    up,          \* is the process running?
    shutdown,    \* the _shutdown flag
    known,       \* repositories (and pull requests) that have their rows
    review,      \* status of the reviews row of each job
    posted,      \* reviews posted to GitHub for each job (history)
    faults,      \* crashes and Redis failures so far
    abandoned    \* jobs whose processing something interrupted (history)

processVars == <<loop, task, up, shutdown>>
dbVars == <<known, review>>
historyVars == <<submitted, faults, abandoned>>
vars == <<pending, processing, deadLetter, loop, task, up, shutdown,
          known, review, posted, submitted, faults, abandoned>>

NoTask == [at |-> "none"]

(* at of a task:                                                            *)
(*   waiting    at the semaphore                                            *)
(*   select     in session 1, before the SELECTs of get_or_create           *)
(*   insert     in session 1, before the INSERTs and the commit             *)
(*   post, persist, autofix    in graph.ainvoke                             *)
(*   ack        the pipeline returned                                       *)
(*   mark       in the except block, before review_repo.fail                *)
(*   settle     ... before the LREM of requeue or dead_letter               *)
(*   requeue_push, dead_push   ... before the LPUSH of that method          *)
TaskStates == {"waiting", "select", "insert", "post", "persist", "autofix", "ack",
               "mark", "settle", "requeue_push", "dead_push"}

(* saw: what the SELECTs of get_or_create found.  error: the verdict of     *)
(* _is_transient_error on the exception being handled.                      *)
Errors == {"transient", "permanent"}
RunningTasks == [at : TaskStates, job : ParsedJobs, saw : {"no row", "the row"},
                 error : Errors \cup {"none"}]

LoopStates == [at : {"poll", "sleep", "stopped"}] \cup
              [at : {"unparsed", "unparsed_push"}, raw : Entries]

ReviewStatus == {"none", "PENDING", "COMPLETED", "FAILED"}

IdOf(t) == task[t].job.id
Active == {t \in Tasks : task[t] # NoTask}
Holders == {t \in Active : task[t].at # "waiting"}     \* inside the semaphore
Parsing == {w \in Loops : loop[w].at \in {"unparsed", "unparsed_push"}}

Init ==
    /\ QueueInit
    /\ loop = [w \in Loops |-> [at |-> "poll"]]
    /\ task = [t \in Tasks |-> NoTask]
    /\ up = TRUE
    /\ shutdown = FALSE
    /\ known = {}
    /\ review = [j \in Jobs |-> "none"]
    /\ posted = [j \in Jobs |-> 0]
    /\ submitted = {}
    /\ faults = 0
    /\ abandoned = {}

-----------------------------------------------------------------------------
(* The webhook API, another process: receive_github_webhook enqueues.       *)

Submit(j) ==
    /\ j \notin submitted
    /\ PushNew(j)
    /\ submitted' = submitted \cup {j}
    /\ UNCHANGED <<processVars, dbVars, posted, faults, abandoned>>

-----------------------------------------------------------------------------
(* worker_loop.                                                             *)

(* Mutant: while True.                                                      *)
NextRoundForever(w) == loop' = [loop EXCEPT ![w] = [at |-> "poll"]]

(* The head of the while loop, reached with no await in between.            *)
NextRound(w) ==
    loop' = [loop EXCEPT ![w] = [at |-> IF shutdown THEN "stopped" ELSE "poll"]]

Backoff(w) == loop' = [loop EXCEPT ![w] = [at |-> "sleep"]]

(* dequeue() returns a job; create_task, and the loop goes on at once.      *)
DequeueJob(w) ==
    /\ loop[w].at = "poll"
    /\ CallTransfers
    /\ Transfer
    /\ Last(pending).form # "malformed"
    /\ \E t \in Tasks :
        /\ task[t] = NoTask
        /\ task' = [task EXCEPT ![t] = [at |-> "waiting", job |-> Parse(Last(pending)),
                                        saw |-> "no row", error |-> "none"]]
    /\ NextRound(w)
    /\ UNCHANGED <<up, shutdown, dbVars, posted, historyVars>>

(* dequeue() finds bytes it cannot parse.                                   *)
DequeueMalformed(w) ==
    /\ loop[w].at = "poll"
    /\ CallTransfers
    /\ Transfer
    /\ Last(pending).form = "malformed"
    /\ loop' = [loop EXCEPT ![w] = [at |-> "unparsed", raw |-> Last(pending)]]
    /\ UNCHANGED <<task, up, shutdown, dbVars, posted, historyVars>>

MalformedRemove(w) ==
    /\ loop[w].at = "unparsed"
    /\ RemoveInFlight(loop[w].raw)
    /\ loop' = [loop EXCEPT ![w].at = "unparsed_push"]
    /\ UNCHANGED <<task, up, shutdown, dbVars, posted, historyVars>>

(* ... then dequeue() returns None and the loop continues.                  *)
MalformedPush(w) ==
    /\ loop[w].at = "unparsed_push"
    /\ PushDead(Parse(loop[w].raw), "malformed")
    /\ NextRound(w)
    /\ UNCHANGED <<task, up, shutdown, dbVars, posted, historyVars>>

(* The timeout: dequeue() returns the pair (None, None), which is not None; *)
(* reading its job_id raises, and the loop sleeps.                          *)
DequeueTimeout(w) ==
    /\ loop[w].at = "poll"
    /\ CallTransfers
    /\ pending = <<>>
    /\ Backoff(w)
    /\ UNCHANGED <<queueVars, task, up, shutdown, dbVars, posted, historyVars>>

(* The call as written, brpoplpush(...), lacks its destination: TypeError.  *)
(* With its arguments it raises when Redis fails before the transfer.       *)
DequeueRaises(w) ==
    /\ loop[w].at = "poll"
    /\ IF CallTransfers THEN faults < MaxFaults /\ faults' = faults + 1 ELSE UNCHANGED faults
    /\ Backoff(w)
    /\ UNCHANGED <<queueVars, task, up, shutdown, dbVars, posted, submitted, abandoned>>

WakeUp(w) ==
    /\ loop[w].at = "sleep"
    /\ NextRound(w)
    /\ UNCHANGED <<queueVars, task, up, shutdown, dbVars, posted, historyVars>>

-----------------------------------------------------------------------------
(* process_job.                                                             *)

Moves(t, at, saw, error) ==
    task' = [task EXCEPT ![t] = [at |-> at, job |-> task[t].job, saw |-> saw, error |-> error]]

Goto(t, at) == Moves(t, at, task[t].saw, task[t].error)
Finish(t) == task' = [task EXCEPT ![t] = NoTask]

(* Mutant: review_id is never assigned.                                     *)
RaiseUnmarked(t, hasReviewId, error) ==
    Moves(t, "settle", task[t].saw, error)

(* The except block: the row is marked only if review_id was assigned.      *)
Raise(t, hasReviewId, error) ==
    Moves(t, IF hasReviewId THEN "mark" ELSE "settle", task[t].saw, error)

(* async with semaphore.                                                    *)
Acquire(t) ==
    /\ task[t].at = "waiting"
    /\ Cardinality(Holders) < WORKER_CONCURRENCY
    /\ Goto(t, "select")
    /\ UNCHANGED <<queueVars, loop, up, shutdown, dbVars, posted, historyVars>>

(* Session 1: the SELECTs of RepositoryRepo and PullRequestRepo             *)
(* .get_or_create, for the rows this job needs.                             *)
SelectRows(t) ==
    /\ task[t].at = "select"
    /\ Moves(t, "insert", IF RepoOf[IdOf(t)] \in known THEN "the row" ELSE "no row", task[t].error)
    /\ UNCHANGED <<queueVars, loop, up, shutdown, dbVars, posted, historyVars>>

(* Mutant: no unique key on the reviews table.                              *)
KeyTakenByRepo(t) == task[t].saw = "no row" /\ RepoOf[IdOf(t)] \in known

(* A unique key is taken: the repository's or the pull request's by a task  *)
(* that got there since the SELECT, or the review's by an earlier attempt   *)
(* at the same job.                                                         *)
KeyTaken(t) ==
    \/ task[t].saw = "no row" /\ RepoOf[IdOf(t)] \in known
    \/ review[IdOf(t)] # "none"

(* Session 1: the INSERTs succeed and the commit makes them visible.        *)
CreateReview(t) ==
    /\ task[t].at = "insert"
    /\ ~KeyTaken(t)
    /\ known' = known \cup {RepoOf[IdOf(t)]}
    /\ review' = [review EXCEPT ![IdOf(t)] = "PENDING"]
    /\ Goto(t, "post")
    /\ UNCHANGED <<queueVars, loop, up, shutdown, posted, historyVars>>

(* Session 1 raises IntegrityError and rolls back; review_id is still None. *)
(* The text of the error holds the statement's parameters, uuids among      *)
(* them, so the test for "502" and "503" in it may say transient.           *)
DuplicateKey(t) ==
    /\ task[t].at = "insert"
    /\ KeyTaken(t)
    /\ \E error \in Errors : Raise(t, FALSE, error)
    /\ UNCHANGED <<queueVars, loop, up, shutdown, dbVars, posted, historyVars>>

(* Session 1 fails: before review_id is assigned, nothing is stored; in the *)
(* commit, review_id is assigned and the rows may or may not be stored.     *)
CreateFails(t) ==
    /\ "create" \in FailingSessions
    /\ task[t].at = "insert"
    /\ \E error \in Errors :
        \/ Raise(t, FALSE, error) /\ UNCHANGED dbVars
        \/ /\ ~KeyTaken(t)
           /\ Raise(t, TRUE, error)
           /\ \/ UNCHANGED dbVars
              \/ /\ known' = known \cup {RepoOf[IdOf(t)]}
                 /\ review' = [review EXCEPT ![IdOf(t)] = "PENDING"]
    /\ UNCHANGED <<queueVars, loop, up, shutdown, posted, historyVars>>

(* The pipeline up to post_to_github, whose errors are logged and dropped.  *)
Post(t) ==
    /\ task[t].at = "post"
    /\ \/ posted' = [posted EXCEPT ![IdOf(t)] = @ + 1]
       \/ UNCHANGED posted
    /\ Goto(t, "persist")
    /\ UNCHANGED <<queueVars, loop, up, shutdown, dbVars, historyVars>>

(* persist_results: one transaction that completes the review.              *)
Persist(t) ==
    /\ task[t].at = "persist"
    /\ review' = [review EXCEPT ![IdOf(t)] = "COMPLETED"]
    /\ Goto(t, "autofix")
    /\ UNCHANGED <<queueVars, loop, up, shutdown, known, posted, historyVars>>

(* persist_results raises, with its transaction undone or not.              *)
PersistFails(t) ==
    /\ "persist" \in FailingSessions
    /\ task[t].at = "persist"
    /\ \/ UNCHANGED review
       \/ review' = [review EXCEPT ![IdOf(t)] = "COMPLETED"]
    /\ \E error \in Errors : Raise(t, TRUE, error)
    /\ UNCHANGED <<queueVars, loop, up, shutdown, known, posted, historyVars>>

(* autofix: its patches are stored, or its session raises.                  *)
Autofix(t) ==
    /\ task[t].at = "autofix"
    /\ Goto(t, "ack")
    /\ UNCHANGED <<queueVars, loop, up, shutdown, dbVars, posted, historyVars>>

AutofixFails(t) ==
    /\ "autofix" \in FailingSessions
    /\ task[t].at = "autofix"
    /\ \E error \in Errors : Raise(t, TRUE, error)
    /\ UNCHANGED <<queueVars, loop, up, shutdown, dbVars, posted, historyVars>>

(* task_queue.ack(job) lacks raw_bytes: TypeError, which is not transient.  *)
Ack(t) ==
    /\ task[t].at = "ack"
    /\ Raise(t, TRUE, "permanent")
    /\ UNCHANGED <<queueVars, loop, up, shutdown, dbVars, posted, historyVars>>

(* review_repo.fail in a session of its own; an UPDATE of no row is fine,   *)
(* and an error is logged and dropped.                                      *)
MarkFailed(t) ==
    /\ task[t].at = "mark"
    /\ \/ review' = [review EXCEPT ![IdOf(t)] = IF @ = "none" THEN @ ELSE "FAILED"]
       \/ "fail" \in FailingSessions /\ UNCHANGED review
    /\ Goto(t, "settle")
    /\ UNCHANGED <<queueVars, loop, up, shutdown, known, posted, historyVars>>

MayRetry(t) == task[t].error = "transient" /\ task[t].job.retry < RetryLimit

(* Mutant: requeue() without its LREM.                                      *)
RequeueKeepsInFlight(t) ==
    /\ task[t].at = "settle"
    /\ MayRetry(t)
    /\ Goto(t, "requeue_push")
    /\ UNCHANGED <<queueVars, loop, up, shutdown, dbVars, posted, historyVars>>

RequeueRemove(t) ==
    /\ task[t].at = "settle"
    /\ MayRetry(t)
    /\ RemoveInFlight(Dump(task[t].job))
    /\ Goto(t, "requeue_push")
    /\ UNCHANGED <<loop, up, shutdown, dbVars, posted, historyVars>>

(* Mutant: process_job goes on to dead_letter() after requeue().            *)
RequeueFallsThrough(t) ==
    /\ task[t].at = "requeue_push"
    /\ PushRequeue(task[t].job)
    /\ Goto(t, "dead_push")
    /\ UNCHANGED <<loop, up, shutdown, dbVars, posted, historyVars>>

RequeuePush(t) ==
    /\ task[t].at = "requeue_push"
    /\ PushRequeue(task[t].job)
    /\ Finish(t)
    /\ UNCHANGED <<loop, up, shutdown, dbVars, posted, historyVars>>

DeadLetterRemove(t) ==
    /\ task[t].at = "settle"
    /\ ~MayRetry(t)
    /\ RemoveInFlight(Dump(task[t].job))
    /\ Goto(t, "dead_push")
    /\ UNCHANGED <<loop, up, shutdown, dbVars, posted, historyVars>>

(* Mutant: dead_letter() ends after its LREM.                               *)
DeadLetterForgets(t) ==
    /\ task[t].at = "dead_push"
    /\ Finish(t)
    /\ UNCHANGED <<queueVars, loop, up, shutdown, dbVars, posted, historyVars>>

DeadLetterPush(t) ==
    /\ task[t].at = "dead_push"
    /\ PushDead(task[t].job, "error")
    /\ Finish(t)
    /\ UNCHANGED <<loop, up, shutdown, dbVars, posted, historyVars>>

-----------------------------------------------------------------------------
(* Shutdown, crash and restart.                                             *)

(* _handle_shutdown.                                                        *)
Signal ==
    /\ MayStop /\ up /\ ~shutdown
    /\ shutdown' = TRUE
    /\ UNCHANGED <<queueVars, loop, task, up, dbVars, posted, historyVars>>

(* The jobs the process is working on.                                      *)
AtWork == {IdOf(t) : t \in Active} \cup {loop[w].raw.id : w \in Parsing}

ProcessEnds ==
    /\ up' = FALSE
    /\ task' = [t \in Tasks |-> NoTask]
    /\ loop' = [w \in Loops |-> [at |-> "stopped"]]
    /\ abandoned' = abandoned \cup AtWork

(* main(): the gather of the loops returns, the engine and the Redis client *)
(* are closed, and asyncio.run cancels the tasks nobody awaited.            *)
Exit ==
    /\ up
    /\ \A w \in Loops : loop[w].at = "stopped"
    /\ ProcessEnds
    /\ UNCHANGED <<queueVars, shutdown, dbVars, posted, submitted, faults>>

Crash ==
    /\ up /\ faults < MaxFaults
    /\ faults' = faults + 1
    /\ ProcessEnds
    /\ UNCHANGED <<queueVars, shutdown, dbVars, posted, submitted>>

(* main() again.  It does not look at the processing list.                  *)
Start ==
    /\ ~up
    /\ up' = TRUE
    /\ shutdown' = FALSE
    /\ loop' = [w \in Loops |-> [at |-> "poll"]]
    /\ UNCHANGED <<queueVars, task, dbVars, posted, historyVars>>

(* Redis fails in a task: the except block of process_job lets it escape,   *)
(* and the task ends.                                                       *)
RedisFailsInTask(t) ==
    /\ faults < MaxFaults
    /\ faults' = faults + 1
    /\ task[t].at \in {"settle", "requeue_push", "dead_push"}
    /\ abandoned' = abandoned \cup {IdOf(t)}
    /\ Finish(t)
    /\ UNCHANGED <<queueVars, loop, up, shutdown, dbVars, posted, submitted>>

(* Redis fails in the malformed branch of dequeue(): the loop catches it.   *)
RedisFailsInLoop(w) ==
    /\ faults < MaxFaults
    /\ faults' = faults + 1
    /\ w \in Parsing
    /\ abandoned' = abandoned \cup {loop[w].raw.id}
    /\ Backoff(w)
    /\ UNCHANGED <<queueVars, task, up, shutdown, dbVars, posted, submitted>>

(* The transfer is done in Redis but the connection drops before the reply. *)
ReplyLost(w) ==
    /\ faults < MaxFaults
    /\ faults' = faults + 1
    /\ loop[w].at = "poll"
    /\ CallTransfers
    /\ Transfer
    /\ abandoned' = abandoned \cup {Last(pending).id}
    /\ Backoff(w)
    /\ UNCHANGED <<task, up, shutdown, dbVars, posted, submitted>>

-----------------------------------------------------------------------------
LoopStep(w) ==
    \/ DequeueJob(w) \/ DequeueMalformed(w)
    \/ MalformedRemove(w) \/ MalformedPush(w)
    \/ DequeueTimeout(w) \/ DequeueRaises(w) \/ WakeUp(w)

TaskStep(t) ==
    \/ Acquire(t)
    \/ SelectRows(t) \/ CreateReview(t) \/ DuplicateKey(t) \/ CreateFails(t)
    \/ Post(t) \/ Persist(t) \/ PersistFails(t) \/ Autofix(t) \/ AutofixFails(t)
    \/ Ack(t)
    \/ MarkFailed(t)
    \/ RequeueRemove(t) \/ RequeuePush(t)
    \/ DeadLetterRemove(t) \/ DeadLetterPush(t)

Next ==
    \/ \E j \in Jobs : Submit(j)
    \/ \E w \in Loops : LoopStep(w) \/ RedisFailsInLoop(w) \/ ReplyLost(w)
    \/ \E t \in Tasks : TaskStep(t) \/ RedisFailsInTask(t)
    \/ Signal \/ Exit \/ Crash \/ Start

Spec == Init /\ [][Next]_vars

(* The event loop runs every coroutine that is ready, and a process that    *)
(* ended is started again; nothing else is assumed to happen.  No failure   *)
(* is forced: a loop whose call can fail has another step, unless it lacks  *)
(* a free element of Tasks, and those are freed.                            *)
Fairness ==
    /\ \A w \in Loops : WF_vars(LoopStep(w))
    /\ \A t \in Tasks : WF_vars(TaskStep(t))
    /\ WF_vars(Exit)
    /\ WF_vars(Start)

FairSpec == Spec /\ Fairness

-----------------------------------------------------------------------------
(* Properties.                                                              *)

InHandOver == {IdOf(t) : t \in {u \in Active : task[u].at \in {"requeue_push", "dead_push"}}}
              \cup {loop[w].raw.id : w \in {v \in Loops : loop[v].at = "unparsed_push"}}

Lost == submitted \ (Ids(pending) \cup Ids(processing) \cup Ids(deadLetter) \cup InHandOver)
Stranded == Ids(processing) \ AtWork

TypeOK ==
    /\ QueueTypeOK
    /\ submitted \subseteq Jobs
    /\ loop \in [Loops -> LoopStates]
    /\ task \in [Tasks -> {NoTask} \cup RunningTasks]
    /\ up \in BOOLEAN
    /\ shutdown \in BOOLEAN
    /\ known \subseteq Repos
    /\ review \in [Jobs -> ReviewStatus]
    /\ posted \in [Jobs -> Nat]
    /\ faults \in Nat
    /\ abandoned \subseteq Jobs

(* No two tasks work on the same job, and a task's job is in the processing *)
(* list until the task itself removes it: what requeue puts back, a crash   *)
(* leaves behind or a restart finds never gives a job a second task         *)
(* (worker.py 214-224, 157-161; task_queue.py 145-168).                     *)
OneTaskPerJob ==
    /\ \A t, u \in Active :
        t # u /\ IdOf(t) = IdOf(u) => IdOf(t) \in Extended
    /\ \A t \in Active :
        \/ IdOf(t) \in Extended
        \/ IdOf(t) \in Ids(processing) <=> task[t].at \notin {"requeue_push", "dead_push"}

(* A job gets at most one GitHub review, over all its retries, crashes and  *)
(* restarts: the reviews row is committed before the pipeline runs and its  *)
(* key stops any second run (worker.py 106-126, repositories.py 144-158).   *)
PostedAtMostOnce == \A j \in Jobs : posted[j] <= 1

(* A job that nothing interrupted is never lost and never left behind in    *)
(* the processing list: a crash, a shutdown or a Redis failure costs the    *)
(* jobs at work in it and no other (worker.py 63-239, 302-315).             *)
OnlyAbandonedSuffer == (Lost \cup Stranded) \cap Tracked \subseteq abandoned

(* A review is PENDING only while a task works on it, unless the task was   *)
(* interrupted or the session that marks it failed: every way through       *)
(* process_job, failed commits and failed pipelines included, completes the *)
(* row it created or marks it (worker.py 99-154).                           *)
PendingReviewHasTask ==
    \A j \in Jobs :
        review[j] = "PENDING" =>
            \/ j \in abandoned
            \/ \E t \in Active : IdOf(t) = j /\ task[t].at \in {"post", "persist", "mark"}

(* A job leaves the queue for good: dead-lettered, or abandoned on the way. *)
(* The retries are finite and no task waits at the semaphore for ever       *)
(* (worker.py 78, 157-161, 212-237).                                        *)
EveryJobSettles ==
    \A j \in Jobs : (j \in submitted) ~> (j \in Ids(deadLetter) \cup abandoned)

(* A process told to stop ends: every loop comes back to its while          *)
(* condition, with a job as from bytes it cannot parse, from the timeout    *)
(* and its malformed answer as from a failing Redis, and nobody waits for   *)
(* the tasks (worker.py 212-237, 302-315; task_queue.py 101-126).           *)
ShutdownEnds == (up /\ shutdown) ~> ~up

(* The place of a job.  It is in flight while a task or a loop has it and   *)
(* as long as it is in the processing list, where a crash leaves it.        *)
PlaceOf(j) ==
    IF j \in Ids(pending) THEN "pending"
    ELSE IF j \in Ids(deadLetter) THEN "dead"
    ELSE IF j \in Ids(processing) \cup AtWork THEN "inflight"
    ELSE IF j \in submitted THEN "lost" ELSE "unsent"

Abstract == INSTANCE ReliableQueue WITH place <- [j \in Jobs |-> PlaceOf(j)]

(* The worker keeps the queue's promise to those who enqueue: over crashes, *)
(* restarts, shutdowns and failing commands, a job that waits is not lost,  *)
(* one that is buried never comes back, one that was lost is not delivered  *)
(* after all, and a delivery takes the job out of the pending list, so that *)
(* no job waits and is worked on at once (task_queue.py 6-15, worker.py     *)
(* 63-239).                                                                 *)
ImplementsReliableQueue == Abstract!ProcessSpec

(* The documented behaviours that the code does not have, one run each.     *)

(* "Worker uses dequeue() -> blocking pop with processing guarantee"        *)
(* (task_queue.py 14): a waiting job is taken by a worker.                  *)
WaitingJobIsTaken == \A j \in Jobs : (j \in Ids(pending)) ~> (j \notin Ids(pending))

(* "ACK job on success" (worker.py 74): when the pipeline has returned, the *)
(* task's next step takes the job out of the processing list and ends it.   *)
AckOnSuccess ==
    [][\A t \in Tasks :
        task[t].at = "ack" /\ task'[t].at # "ack" /\ up' =>
            /\ task'[t] = NoTask
            /\ IdOf(t) \notin {processing'[i].id : i \in 1..Len(processing')}]_vars
=============================================================================
