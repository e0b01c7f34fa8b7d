--------------------------- MODULE Worker_proofs ---------------------------
(***************************************************************************)
(* The worker, for any number of jobs, loops, tasks, crashes and failures: *)
(* the type invariant, that a job is reviewed on GitHub at most once, who  *)
(* has a job through crashes and shutdowns, and that the worker keeps the  *)
(* promise of the queue.                                                   *)
(***************************************************************************)
EXTENDS Worker, TaskQueue_proofs

TaskType == task \in [Tasks -> {NoTask} \cup RunningTasks]

(* A task that is at some await works on a job.                             *)
LEMMA RunningLemma ==
  ASSUME TaskType, NEW t \in Tasks, task[t].at # "none"
  PROVE  /\ task[t] \in RunningTasks
         /\ task[t].job \in ParsedJobs
         /\ IdOf(t) \in Jobs
<1>1. task[t] \in {NoTask} \cup RunningTasks
  BY DEF TaskType
<1>2. task[t] \in RunningTasks
  BY <1>1 DEF NoTask
<1>3. task[t].job \in ParsedJobs
  BY <1>2 DEF RunningTasks
<1> QED
  BY <1>2, <1>3 DEF ParsedJobs, IdOf

(* Moving a task to another await, or ending it, keeps the tasks well       *)
(* formed and changes neither its job nor another task.                     *)
LEMMA MovesLemma ==
  ASSUME TaskType, NEW t \in Tasks, task[t].at # "none", NEW at \in TaskStates,
         NEW saw \in {"no row", "the row"}, NEW error \in Errors \cup {"none"},
         Moves(t, at, saw, error)
  PROVE  /\ TaskType'
         /\ task'[t].at = at /\ task'[t].job = task[t].job
         /\ \A u \in Tasks : u # t => task'[u] = task[u]
<1> DEFINE r == [at |-> at, job |-> task[t].job, saw |-> saw, error |-> error]
<1>1. r \in RunningTasks /\ r.at = at /\ r.job = task[t].job
  BY RunningLemma DEF RunningTasks
<1>2. task' = [task EXCEPT ![t] = r]
  BY DEF Moves
<1> HIDE DEF r
<1> QED
  BY <1>1, <1>2 DEF TaskType

LEMMA GotoLemma ==
  ASSUME TaskType, NEW t \in Tasks, task[t].at # "none", NEW at \in TaskStates, Goto(t, at)
  PROVE  /\ TaskType'
         /\ task'[t].at = at /\ task'[t].job = task[t].job
         /\ \A u \in Tasks : u # t => task'[u] = task[u]
<1>1. task[t].saw \in {"no row", "the row"} /\ task[t].error \in Errors \cup {"none"}
  BY RunningLemma DEF RunningTasks
<1> QED
  BY <1>1, MovesLemma DEF Goto

LEMMA RaiseLemma ==
  ASSUME TaskType, NEW t \in Tasks, task[t].at # "none",
         NEW hasReviewId, NEW error \in Errors, Raise(t, hasReviewId, error)
  PROVE  /\ TaskType'
         /\ task'[t].at \in {"mark", "settle"} /\ task'[t].job = task[t].job
         /\ \A u \in Tasks : u # t => task'[u] = task[u]
<1> DEFINE at == IF hasReviewId THEN "mark" ELSE "settle"
<1>1. task[t].saw \in {"no row", "the row"} /\ error \in Errors \cup {"none"}
  BY RunningLemma DEF RunningTasks
<1>2. at \in {"mark", "settle"} /\ at \in TaskStates /\ Moves(t, at, task[t].saw, error)
  BY DEF TaskStates, Raise
<1> HIDE DEF at
<1> QED
  BY <1>1, <1>2, MovesLemma

(* The same with a review_id: the row is marked next.                       *)
LEMMA MarkLemma ==
  ASSUME TaskType, NEW t \in Tasks, task[t].at # "none",
         NEW error \in Errors, Raise(t, TRUE, error)
  PROVE  /\ task'[t].at = "mark" /\ task'[t].job = task[t].job
         /\ \A u \in Tasks : u # t => task'[u] = task[u]
<1>1. task[t].saw \in {"no row", "the row"} /\ error \in Errors \cup {"none"}
  BY RunningLemma DEF RunningTasks
<1>2. Moves(t, "mark", task[t].saw, error)
  BY DEF Raise
<1> QED
  BY <1>1, <1>2, MovesLemma DEF TaskStates

LEMMA SelectLemma ==
  ASSUME TaskType, NEW t \in Tasks, SelectRows(t)
  PROVE  /\ TaskType'
         /\ task'[t].at = "insert" /\ task'[t].job = task[t].job
         /\ \A u \in Tasks : u # t => task'[u] = task[u]
<1> DEFINE saw == IF RepoOf[IdOf(t)] \in known THEN "the row" ELSE "no row"
<1>1. task[t].at # "none" /\ task[t].error \in Errors \cup {"none"}
  BY RunningLemma DEF SelectRows, RunningTasks
<1>2. saw \in {"no row", "the row"} /\ Moves(t, "insert", saw, task[t].error)
  BY DEF SelectRows
<1> HIDE DEF saw
<1> QED
  BY <1>1, <1>2, MovesLemma DEF TaskStates

LEMMA FinishLemma ==
  ASSUME TaskType, NEW t \in Tasks, Finish(t)
  PROVE  /\ TaskType'
         /\ task'[t] = NoTask
         /\ \A u \in Tasks : u # t => task'[u] = task[u]
BY DEF Finish, TaskType

LEMMA SpawnLemma ==
  ASSUME TaskType, QueueTypeOK, NEW w \in Loops, DequeueJob(w)
  PROVE  /\ TaskType'
         /\ \E t \in Tasks : /\ task[t] = NoTask
                             /\ task'[t].at = "waiting" /\ task'[t].job = Parse(Last(pending))
                             /\ \A u \in Tasks : u # t => task'[u] = task[u]
<1>1. Parse(Last(pending)) \in ParsedJobs
  BY TransferStep, ParseLemma DEF DequeueJob
<1>2. PICK t \in Tasks :
        /\ task[t] = NoTask
        /\ task' = [task EXCEPT ![t] = [at |-> "waiting", job |-> Parse(Last(pending)),
                                        saw |-> "no row", error |-> "none"]]
  BY DEF DequeueJob
<1>3. [at |-> "waiting", job |-> Parse(Last(pending)), saw |-> "no row", error |-> "none"]
        \in RunningTasks
  BY <1>1 DEF RunningTasks, TaskStates
<1> QED
  BY <1>2, <1>3 DEF TaskType

-----------------------------------------------------------------------------
(* The type invariant.                                                      *)

RestType ==
    /\ submitted \subseteq Jobs
    /\ up \in BOOLEAN
    /\ shutdown \in BOOLEAN
    /\ faults \in Nat
    /\ abandoned \subseteq Jobs

DbType ==
    /\ known \subseteq Repos
    /\ review \in [Jobs -> ReviewStatus]
    /\ posted \in [Jobs -> Nat]

LoopType == loop \in [Loops -> LoopStates]

TypeInv == QueueTypeOK /\ LoopType /\ TaskType /\ DbType /\ RestType

(* A loop inside the malformed branch of dequeue() holds an entry.          *)
LEMMA ParsingLemma ==
  ASSUME LoopType, NEW w \in Loops, loop[w].at \in {"unparsed", "unparsed_push"}
  PROVE  /\ loop[w] \in [at : {"unparsed", "unparsed_push"}, raw : Entries]
         /\ loop[w].raw \in Entries /\ loop[w].raw.id \in Jobs
<1>1. loop[w] \in LoopStates
  BY DEF LoopType
<1>2. loop[w] \in [at : {"unparsed", "unparsed_push"}, raw : Entries]
  BY <1>1 DEF LoopStates
<1> QED
  BY <1>2 DEF Entries

(* A loop that comes back to its while condition or backs off.              *)
LEMMA NextRoundLemma ==
  ASSUME LoopType, NEW w \in Loops, NextRound(w) \/ Backoff(w)
  PROVE  LoopType'
BY DEF LoopType, LoopStates, NextRound, Backoff

LEMMA AtWorkLemma ==
  ASSUME TaskType, LoopType
  PROVE  AtWork \subseteq Jobs
<1>1. \A t \in Active : IdOf(t) \in Jobs
  <2> SUFFICES ASSUME NEW t \in Active
               PROVE  IdOf(t) \in Jobs
    OBVIOUS
  <2>1. t \in Tasks /\ task[t] # NoTask
    BY DEF Active
  <2>2. task[t] \in RunningTasks
    BY <2>1 DEF TaskType
  <2> QED
    BY <2>2 DEF RunningTasks, ParsedJobs, IdOf
<1>2. \A w \in Parsing : loop[w].raw.id \in Jobs
  BY ParsingLemma DEF Parsing
<1> QED
  BY <1>1, <1>2 DEF AtWork

LEMMA ProcessEndsLemma ==
  ASSUME TaskType, LoopType, abandoned \subseteq Jobs, ProcessEnds
  PROVE  TaskType' /\ LoopType' /\ up' = FALSE /\ abandoned' \subseteq Jobs
<1>1. AtWork \subseteq Jobs
  BY AtWorkLemma
<1> QED
  BY <1>1 DEF ProcessEnds, TaskType, LoopType, LoopStates

LEMMA LoopTypeStep ==
  ASSUME TypeInv, NEW w \in Loops, LoopStep(w) \/ RedisFailsInLoop(w) \/ ReplyLost(w)
  PROVE  TypeInv'
<1> USE DEF TypeInv, historyVars, dbVars, DbType, RestType
<1>1. QueueTypeOK /\ LoopType /\ TaskType
  OBVIOUS
<1>2. CASE DequeueJob(w)
  <2>1. QueueTypeOK'
    BY <1>1, <1>2, TransferStep DEF DequeueJob
  <2>2. TaskType'
    BY <1>1, <1>2, SpawnLemma
  <2>3. LoopType'
    BY <1>1, <1>2, NextRoundLemma DEF DequeueJob
  <2> QED
    BY <1>2, <2>1, <2>2, <2>3 DEF DequeueJob
<1>3. CASE DequeueMalformed(w)
  <2>1. QueueTypeOK' /\ Last(pending) \in Entries
    BY <1>1, <1>3, TransferStep DEF DequeueMalformed
  <2>2. LoopType'
    BY <1>1, <1>3, <2>1 DEF DequeueMalformed, LoopType, LoopStates
  <2> QED
    BY <1>1, <1>3, <2>1, <2>2 DEF DequeueMalformed, TaskType
<1>4. CASE MalformedRemove(w)
  <2>1. QueueTypeOK'
    BY <1>1, <1>4, RemoveStep DEF MalformedRemove
  <2>2. LoopType'
    <3>1. loop[w] \in [at : {"unparsed", "unparsed_push"}, raw : Entries]
      BY <1>1, <1>4, ParsingLemma DEF MalformedRemove
    <3>2. [loop[w] EXCEPT !.at = "unparsed_push"] \in LoopStates
      BY <3>1 DEF LoopStates
    <3> QED
      BY <1>1, <1>4, <3>2 DEF MalformedRemove, LoopType
  <2> QED
    BY <1>1, <1>4, <2>1, <2>2 DEF MalformedRemove, TaskType
<1>5. CASE MalformedPush(w)
  <2>1. Parse(loop[w].raw) \in ParsedJobs
    BY <1>1, <1>5, ParsingLemma, ParseLemma DEF MalformedPush
  <2>2. QueueTypeOK'
    BY <1>1, <1>5, <2>1, PushDeadStep DEF MalformedPush, Reasons
  <2>3. LoopType'
    BY <1>1, <1>5, NextRoundLemma DEF MalformedPush
  <2> QED
    BY <1>1, <1>5, <2>2, <2>3 DEF MalformedPush, TaskType
<1>6. CASE DequeueTimeout(w) \/ DequeueRaises(w) \/ WakeUp(w)
  <2>1. LoopType'
    BY <1>1, <1>6, NextRoundLemma DEF DequeueTimeout, DequeueRaises, WakeUp
  <2>2. faults' \in Nat
    BY <1>6 DEF DequeueTimeout, DequeueRaises, WakeUp
  <2> QED
    BY <1>1, <1>6, <2>1, <2>2 DEF DequeueTimeout, DequeueRaises, WakeUp, TaskType, queueVars, QueueTypeOK
<1>7. CASE RedisFailsInLoop(w)
  <2>1. LoopType' /\ abandoned' \subseteq Jobs
    BY <1>1, <1>7, NextRoundLemma, ParsingLemma DEF RedisFailsInLoop, Parsing
  <2> QED
    BY <1>1, <1>7, <2>1 DEF RedisFailsInLoop, TaskType, queueVars, QueueTypeOK
<1>8. CASE ReplyLost(w)
  <2>1. QueueTypeOK' /\ Last(pending) \in Entries
    BY <1>1, <1>8, TransferStep DEF ReplyLost
  <2>2. LoopType' /\ abandoned' \subseteq Jobs
    BY <1>1, <1>8, <2>1, NextRoundLemma DEF ReplyLost, Entries
  <2> QED
    BY <1>1, <1>8, <2>1, <2>2 DEF ReplyLost, TaskType
<1> QED
  BY <1>2, <1>3, <1>4, <1>5, <1>6, <1>7, <1>8 DEF LoopStep

LEMMA TaskTypeStep ==
  ASSUME TypeInv, NEW t \in Tasks, TaskStep(t) \/ RedisFailsInTask(t)
  PROVE  TypeInv'
<1> USE DEF TypeInv, historyVars, dbVars, DbType, RestType
<1>1. QueueTypeOK /\ LoopType /\ TaskType
  OBVIOUS
<1>2. CASE UNCHANGED queueVars /\ UNCHANGED <<loop, up, shutdown, submitted, faults, abandoned>>
           /\ TaskType' /\ DbType'
  BY <1>1, <1>2 DEF queueVars, QueueTypeOK, LoopType
<1>3. CASE QueueTypeOK' /\ UNCHANGED <<loop, up, shutdown, submitted, faults>> /\ TaskType'
           /\ abandoned' \subseteq Jobs /\ UNCHANGED <<dbVars, posted>>
  BY <1>1, <1>3 DEF LoopType
<1>4. CASE Acquire(t)
  <2>1. TaskType'
    BY <1>1, <1>4, GotoLemma DEF Acquire, TaskStates
  <2> QED
    BY <1>2, <1>4, <2>1 DEF Acquire
<1>5. CASE SelectRows(t)
  <2>1. TaskType'
    BY <1>1, <1>5, SelectLemma
  <2> QED
    BY <1>2, <1>5, <2>1 DEF SelectRows
<1>6. CASE CreateReview(t)
  <2>1. TaskType' /\ IdOf(t) \in Jobs
    BY <1>1, <1>6, GotoLemma, RunningLemma DEF CreateReview, TaskStates
  <2>2. DbType'
    BY <1>6, <2>1, WorkerAssumption DEF CreateReview, ReviewStatus
  <2> QED
    BY <1>2, <1>6, <2>1, <2>2 DEF CreateReview
<1>7. CASE DuplicateKey(t)
  <2>1. TaskType'
    BY <1>1, <1>7, RaiseLemma DEF DuplicateKey
  <2> QED
    BY <1>2, <1>7, <2>1 DEF DuplicateKey
<1>8. CASE CreateFails(t)
  <2>1. TaskType' /\ IdOf(t) \in Jobs
    BY <1>1, <1>8, RaiseLemma, RunningLemma DEF CreateFails
  <2>2. DbType'
    <3>0. posted' = posted
      BY <1>8 DEF CreateFails
    <3>1. CASE UNCHANGED dbVars
      BY <3>0, <3>1
    <3>2. CASE known' = known \cup {RepoOf[IdOf(t)]} /\ review' = [review EXCEPT ![IdOf(t)] = "PENDING"]
      BY <2>1, <3>0, <3>2, WorkerAssumption DEF ReviewStatus
    <3> QED
      BY <1>8, <3>1, <3>2 DEF CreateFails
  <2> QED
    BY <1>2, <1>8, <2>1, <2>2 DEF CreateFails
<1>9. CASE Post(t)
  <2>1. TaskType' /\ IdOf(t) \in Jobs
    BY <1>1, <1>9, GotoLemma, RunningLemma DEF Post, TaskStates
  <2>2. DbType'
    BY <1>9, <2>1 DEF Post
  <2> QED
    BY <1>2, <1>9, <2>1, <2>2 DEF Post
<1>10. CASE Persist(t)
  <2>1. TaskType' /\ IdOf(t) \in Jobs
    BY <1>1, <1>10, GotoLemma, RunningLemma DEF Persist, TaskStates
  <2>2. DbType'
    BY <1>10, <2>1 DEF Persist, ReviewStatus
  <2> QED
    BY <1>2, <1>10, <2>1, <2>2 DEF Persist
<1>11. CASE PersistFails(t)
  <2>1. TaskType' /\ IdOf(t) \in Jobs
    BY <1>1, <1>11, RaiseLemma, RunningLemma DEF PersistFails
  <2>2. DbType'
    BY <1>11, <2>1 DEF PersistFails, ReviewStatus
  <2> QED
    BY <1>2, <1>11, <2>1, <2>2 DEF PersistFails
<1>12. CASE Autofix(t)
  <2>1. TaskType'
    BY <1>1, <1>12, GotoLemma DEF Autofix, TaskStates
  <2> QED
    BY <1>2, <1>12, <2>1 DEF Autofix
<1>13. CASE AutofixFails(t)
  <2>1. TaskType'
    BY <1>1, <1>13, RaiseLemma DEF AutofixFails
  <2> QED
    BY <1>2, <1>13, <2>1 DEF AutofixFails
<1>14. CASE Ack(t)
  <2>1. TaskType'
    BY <1>1, <1>14, RaiseLemma DEF Ack, Errors
  <2> QED
    BY <1>2, <1>14, <2>1 DEF Ack
<1>15. CASE MarkFailed(t)
  <2>1. TaskType' /\ IdOf(t) \in Jobs
    BY <1>1, <1>15, GotoLemma, RunningLemma DEF MarkFailed, TaskStates
  <2>2. DbType'
    BY <1>15, <2>1 DEF MarkFailed, ReviewStatus
  <2> QED
    BY <1>2, <1>15, <2>1, <2>2 DEF MarkFailed
<1>16. CASE RequeueRemove(t) \/ DeadLetterRemove(t)
  <2>1. TaskType'
    BY <1>1, <1>16, GotoLemma DEF RequeueRemove, DeadLetterRemove, TaskStates
  <2>2. QueueTypeOK'
    BY <1>1, <1>16, RemoveStep DEF RequeueRemove, DeadLetterRemove
  <2> QED
    BY <1>3, <1>16, <2>1, <2>2 DEF RequeueRemove, DeadLetterRemove
<1>17. CASE RequeuePush(t)
  <2>1. TaskType' /\ task[t].job \in ParsedJobs
    BY <1>1, <1>17, FinishLemma, RunningLemma DEF RequeuePush
  <2>2. QueueTypeOK'
    <3>1. CASE PushExhausted(task[t].job)
      BY <1>1, <2>1, <3>1, PushExhaustedStep, PushDeadStep DEF Reasons
    <3>2. CASE PushRetried(task[t].job)
      BY <1>1, <2>1, <3>2, PushRetriedStep
    <3> QED
      BY <1>17, <3>1, <3>2 DEF RequeuePush, PushRequeue
  <2> QED
    BY <1>3, <1>17, <2>1, <2>2 DEF RequeuePush
<1>18. CASE DeadLetterPush(t)
  <2>1. TaskType' /\ task[t].job \in ParsedJobs
    BY <1>1, <1>18, FinishLemma, RunningLemma DEF DeadLetterPush
  <2>2. QueueTypeOK'
    BY <1>1, <1>18, <2>1, PushDeadStep DEF DeadLetterPush, Reasons
  <2> QED
    BY <1>3, <1>18, <2>1, <2>2 DEF DeadLetterPush
<1>19. CASE RedisFailsInTask(t)
  <2>1. TaskType' /\ IdOf(t) \in Jobs
    BY <1>1, <1>19, FinishLemma, RunningLemma DEF RedisFailsInTask
  <2> QED
    BY <1>1, <1>19, <2>1 DEF RedisFailsInTask, queueVars, QueueTypeOK, LoopType
<1> QED
  BY <1>4, <1>5, <1>6, <1>7, <1>8, <1>9, <1>10, <1>11, <1>12, <1>13, <1>14, <1>15, <1>16, <1>17,
     <1>18, <1>19 DEF TaskStep

LEMMA TypeStep ==
  ASSUME TypeInv, [Next]_vars
  PROVE  TypeInv'
<1>1. ASSUME NEW j \in Jobs, Submit(j)
      PROVE  TypeInv'
  <2>1. QueueTypeOK'
    BY <1>1, PushNewStep DEF Submit, TypeInv
  <2> QED
    BY <1>1, <2>1 DEF Submit, TypeInv, processVars, dbVars, LoopType, TaskType, DbType, RestType
<1>2. CASE Signal
  BY <1>2 DEF Signal, TypeInv, queueVars, QueueTypeOK, dbVars, historyVars,
              LoopType, TaskType, DbType, RestType
<1>3. CASE Exit \/ Crash
  <2>1. TaskType' /\ LoopType' /\ up' = FALSE /\ abandoned' \subseteq Jobs
    BY <1>3, ProcessEndsLemma DEF Exit, Crash, TypeInv, RestType
  <2>2. QueueTypeOK' /\ DbType'
    BY <1>3 DEF Exit, Crash, TypeInv, queueVars, QueueTypeOK, dbVars, DbType
  <2>3. faults' \in Nat /\ submitted' \subseteq Jobs
    BY <1>3 DEF Exit, Crash, TypeInv, RestType
  <2>4. shutdown' \in BOOLEAN
    BY <1>3 DEF Exit, Crash, TypeInv, RestType
  <2>5. RestType'
    BY <2>1, <2>3, <2>4 DEF RestType
  <2> QED
    BY <2>1, <2>2, <2>5 DEF TypeInv
<1>4. CASE Start
  <2>1. LoopType'
    BY <1>4 DEF Start, LoopType, LoopStates
  <2>2. QueueTypeOK' /\ TaskType' /\ DbType'
    BY <1>4 DEF Start, TypeInv, queueVars, QueueTypeOK, dbVars, TaskType, DbType
  <2>3. RestType'
    BY <1>4 DEF Start, TypeInv, historyVars, RestType
  <2> QED
    BY <2>1, <2>2, <2>3 DEF TypeInv
<1>5. CASE UNCHANGED vars
  BY <1>5 DEF vars, TypeInv, QueueTypeOK, LoopType, TaskType, DbType, RestType
<1> QED
  BY <1>1, <1>2, <1>3, <1>4, <1>5, LoopTypeStep, TaskTypeStep DEF Next

LEMMA TypeInit == Init => TypeInv
<1> SUFFICES ASSUME Init
             PROVE  TypeInv
  OBVIOUS
<1>1. QueueTypeOK
  BY DEF Init, QueueInit, QueueTypeOK
<1>2. LoopType
  BY DEF Init, LoopType, LoopStates
<1>3. TaskType
  BY DEF Init, TaskType
<1>4. DbType
  BY DEF Init, DbType, ReviewStatus
<1>5. RestType
  BY DEF Init, RestType
<1> QED
  BY <1>1, <1>2, <1>3, <1>4, <1>5 DEF TypeInv

(* The lists, the coroutines and the tables hold what their schemas say,    *)
(* whatever crashes and fails (worker.py, task_queue.py).                   *)
THEOREM TypeCorrect == Spec => []TypeOK
<1>1. TypeInv => TypeOK
  BY DEF TypeInv, TypeOK, LoopType, TaskType, DbType, RestType
<1>2. TypeInv /\ [Next]_vars => TypeInv'
  BY TypeStep
<1> QED
  BY <1>1, <1>2, TypeInit, PTL DEF Spec

-----------------------------------------------------------------------------
(* At most one GitHub review per job.                                       *)

(* A job that was posted has its reviews row, and so has a job about to be  *)
(* posted, which was not posted before and is in the hands of one task.     *)
PostInv ==
    /\ \A j \in Jobs : posted[j] <= 1 /\ (posted[j] > 0 => review[j] # "none")
    /\ \A t \in Tasks :
        task[t].at = "post" => review[IdOf(t)] # "none" /\ posted[IdOf(t)] = 0
    /\ \A t, u \in Tasks :
        task[t].at = "post" /\ task[u].at = "post" /\ IdOf(t) = IdOf(u) => t = u

RowsStay == \A j \in Jobs : review[j] # "none" => review'[j] # "none"

NobodyComesToPost == \A u \in Tasks : task'[u].at = "post" => task'[u] = task[u]

(* A step that posts nothing, brings no task to the post and removes no row.*)
LEMMA PostKept ==
  ASSUME TypeInv, PostInv, posted' = posted, RowsStay, NobodyComesToPost
  PROVE  PostInv'
<1>1. \A j \in Jobs : posted'[j] <= 1 /\ (posted'[j] > 0 => review'[j] # "none")
  BY DEF PostInv, RowsStay
<1>2. ASSUME NEW t \in Tasks, task'[t].at = "post"
      PROVE  /\ task[t].at = "post" /\ IdOf(t)' = IdOf(t)
             /\ review'[IdOf(t)'] # "none" /\ posted'[IdOf(t)'] = 0
  <2>1. task'[t] = task[t]
    BY <1>2 DEF NobodyComesToPost
  <2>2. task[t].at = "post" /\ IdOf(t)' = IdOf(t)
    BY <1>2, <2>1 DEF IdOf
  <2>3. IdOf(t) \in Jobs
    BY <2>2, RunningLemma DEF TypeInv
  <2> QED
    BY <2>2, <2>3 DEF PostInv, RowsStay
<1> QED
  BY <1>1, <1>2 DEF PostInv

LEMMA PostTaskStep ==
  ASSUME TypeInv, PostInv, NEW t \in Tasks, TaskStep(t) \/ RedisFailsInTask(t)
  PROVE  PostInv'
<1>1. TaskType /\ (task[t].at # "none" => IdOf(t) \in Jobs)
  BY RunningLemma DEF TypeInv
<1> USE DEF dbVars
<1>2. CASE CreateReview(t)
  <2>1. /\ task'[t].at = "post" /\ task'[t].job = task[t].job
        /\ \A u \in Tasks : u # t => task'[u] = task[u]
        /\ IdOf(t) \in Jobs /\ posted' = posted
        /\ review[IdOf(t)] = "none" /\ review' = [review EXCEPT ![IdOf(t)] = "PENDING"]
        /\ review \in [Jobs -> ReviewStatus] /\ posted \in [Jobs -> Nat]
    BY <1>1, <1>2, GotoLemma DEF CreateReview, KeyTaken, TaskStates, TypeInv, DbType
  <2>2. posted[IdOf(t)] = 0
    BY <2>1 DEF PostInv
  <2>3. \A j \in Jobs : review[j] # "none" => review'[j] # "none"
    BY <2>1
  <2>4. \A u \in Tasks : IdOf(u)' = IdOf(u)
    BY <2>1 DEF IdOf
  <2>5. ASSUME NEW u \in Tasks, u # t, task'[u].at = "post"
        PROVE  /\ task[u].at = "post" /\ IdOf(u) \in Jobs /\ IdOf(u) # IdOf(t)
               /\ review'[IdOf(u)] # "none" /\ posted[IdOf(u)] = 0
    <3>1. task[u].at = "post"
      BY <2>1, <2>5
    <3>2. IdOf(u) \in Jobs
      BY <1>1, <3>1, RunningLemma
    <3> QED
      BY <2>1, <2>3, <3>1, <3>2 DEF PostInv
  <2>6. \A j \in Jobs : posted'[j] <= 1 /\ (posted'[j] > 0 => review'[j] # "none")
    BY <2>1, <2>3 DEF PostInv
  <2>7. \A u \in Tasks :
          task'[u].at = "post" => review'[IdOf(u)'] # "none" /\ posted'[IdOf(u)'] = 0
    BY <2>1, <2>2, <2>4, <2>5
  <2>8. \A v, u \in Tasks :
          task'[v].at = "post" /\ task'[u].at = "post" /\ IdOf(v)' = IdOf(u)' => v = u
    BY <2>1, <2>4, <2>5 DEF PostInv
  <2> QED
    BY <2>6, <2>7, <2>8 DEF PostInv
<1>3. CASE Post(t)
  <2>1. /\ task[t].at = "post" /\ task'[t].at = "persist"
        /\ \A u \in Tasks : u # t => task'[u] = task[u]
        /\ IdOf(t) \in Jobs /\ review' = review
        /\ posted' = posted \/ posted' = [posted EXCEPT ![IdOf(t)] = posted[IdOf(t)] + 1]
        /\ posted \in [Jobs -> Nat]
    BY <1>1, <1>3, GotoLemma DEF Post, TaskStates, TypeInv, DbType
  <2>2. posted[IdOf(t)] = 0 /\ review[IdOf(t)] # "none"
    BY <2>1 DEF PostInv
  <2>3. ASSUME NEW u \in Tasks, task'[u].at = "post"
        PROVE  /\ u # t /\ task[u].at = "post" /\ IdOf(u)' = IdOf(u)
               /\ review'[IdOf(u)'] # "none" /\ posted'[IdOf(u)'] = 0
    <3>1. u # t /\ task'[u] = task[u]
      BY <2>1, <2>3
    <3>2. task[u].at = "post" /\ IdOf(u)' = IdOf(u)
      BY <2>3, <3>1 DEF IdOf
    <3>3. IdOf(u) # IdOf(t) /\ IdOf(u) \in Jobs
      BY <1>1, <2>1, <3>1, <3>2, RunningLemma DEF PostInv
    <3> QED
      BY <2>1, <3>1, <3>2, <3>3 DEF PostInv
  <2>4. \A j \in Jobs : posted'[j] <= 1 /\ (posted'[j] > 0 => review'[j] # "none")
    BY <2>1, <2>2 DEF PostInv
  <2> QED
    BY <2>3, <2>4 DEF PostInv
<1>4. CASE Acquire(t) \/ SelectRows(t) \/ Autofix(t) \/ RequeueRemove(t) \/ DeadLetterRemove(t)
  <2>1. posted' = posted /\ RowsStay
    BY <1>4 DEF Acquire, SelectRows, Autofix, RequeueRemove, DeadLetterRemove, RowsStay
  <2>2. NobodyComesToPost
    BY <1>1, <1>4, GotoLemma, SelectLemma DEF NobodyComesToPost, TaskStates,
       Acquire, SelectRows, Autofix, RequeueRemove, DeadLetterRemove
  <2> QED
    BY <2>1, <2>2, PostKept
<1>5. CASE DuplicateKey(t) \/ AutofixFails(t) \/ Ack(t)
  <2>1. posted' = posted /\ RowsStay
    BY <1>5 DEF DuplicateKey, AutofixFails, Ack, RowsStay
  <2>2. NobodyComesToPost
    BY <1>1, <1>5, RaiseLemma DEF NobodyComesToPost, Errors, DuplicateKey, AutofixFails, Ack
  <2> QED
    BY <2>1, <2>2, PostKept
<1>6. CASE CreateFails(t) \/ PersistFails(t)
  <2>1. posted' = posted
    BY <1>6 DEF CreateFails, PersistFails
  <2>2. RowsStay
    BY <1>6 DEF CreateFails, PersistFails, RowsStay, TypeInv, DbType
  <2>3. NobodyComesToPost
    BY <1>1, <1>6, RaiseLemma DEF NobodyComesToPost, CreateFails, PersistFails
  <2> QED
    BY <2>1, <2>2, <2>3, PostKept
<1>7. CASE Persist(t) \/ MarkFailed(t)
  <2>1. posted' = posted
    BY <1>7 DEF Persist, MarkFailed
  <2>2. RowsStay
    BY <1>7 DEF Persist, MarkFailed, RowsStay, TypeInv, DbType
  <2>3. NobodyComesToPost
    BY <1>1, <1>7, GotoLemma DEF NobodyComesToPost, TaskStates, Persist, MarkFailed
  <2> QED
    BY <2>1, <2>2, <2>3, PostKept
<1>8. CASE RequeuePush(t) \/ DeadLetterPush(t) \/ RedisFailsInTask(t)
  <2>1. posted' = posted /\ RowsStay
    BY <1>8 DEF RequeuePush, DeadLetterPush, RedisFailsInTask, RowsStay
  <2>2. NobodyComesToPost
    BY <1>1, <1>8, FinishLemma DEF NobodyComesToPost, NoTask, RequeuePush, DeadLetterPush,
       RedisFailsInTask
  <2> QED
    BY <2>1, <2>2, PostKept
<1> QED
  BY <1>2, <1>3, <1>4, <1>5, <1>6, <1>7, <1>8 DEF TaskStep

LEMMA PostStep ==
  ASSUME TypeInv, PostInv, [Next]_vars
  PROVE  PostInv'
<1> USE DEF dbVars, processVars, historyVars
<1>1. ASSUME NEW w \in Loops, LoopStep(w) \/ RedisFailsInLoop(w) \/ ReplyLost(w)
      PROVE  PostInv'
  <2>1. posted' = posted /\ RowsStay
    BY <1>1 DEF LoopStep, DequeueJob, DequeueMalformed, MalformedRemove, MalformedPush,
       DequeueTimeout, DequeueRaises, WakeUp, RedisFailsInLoop, ReplyLost, RowsStay
  <2>2. NobodyComesToPost
    <3>1. CASE DequeueJob(w)
      BY <3>1, SpawnLemma DEF NobodyComesToPost, TypeInv
    <3>2. CASE task' = task
      BY <3>2 DEF NobodyComesToPost
    <3> QED
      BY <1>1, <3>1, <3>2 DEF LoopStep, DequeueMalformed, MalformedRemove, MalformedPush,
         DequeueTimeout, DequeueRaises, WakeUp, RedisFailsInLoop, ReplyLost
  <2> QED
    BY <2>1, <2>2, PostKept
<1>2. CASE Exit \/ Crash
  <2>1. posted' = posted /\ RowsStay
    BY <1>2 DEF Exit, Crash, RowsStay
  <2>2. NobodyComesToPost
    BY <1>2 DEF Exit, Crash, ProcessEnds, NobodyComesToPost, NoTask
  <2> QED
    BY <2>1, <2>2, PostKept
<1>3. CASE Signal \/ Start \/ UNCHANGED vars \/ \E j \in Jobs : Submit(j)
  <2>1. posted' = posted /\ RowsStay /\ NobodyComesToPost
    BY <1>3 DEF Signal, Start, Submit, vars, RowsStay, NobodyComesToPost
  <2> QED
    BY <2>1, PostKept
<1> QED
  BY <1>1, <1>2, <1>3, PostTaskStep DEF Next

(* For any number of jobs and tasks, and whatever crashes, fails or is      *)
(* retried, a job gets at most one GitHub review (worker.py 106-126,        *)
(* models.py 179-192).                                                      *)
THEOREM OneReviewPerJob == Spec => []PostedAtMostOnce
<1>1. Init => PostInv
  BY DEF Init, PostInv, NoTask
<1>2. TypeInv /\ PostInv /\ [Next]_vars => TypeInv' /\ PostInv'
  BY TypeStep, PostStep
<1>3. PostInv => PostedAtMostOnce
  BY DEF PostInv, PostedAtMostOnce
<1> QED
  BY <1>1, <1>2, <1>3, TypeInit, PTL DEF Spec
-----------------------------------------------------------------------------
(* A pending review has a task.                                             *)

(* The awaits between the row's creation and its completion.                *)
Reviewing == {"post", "persist", "mark"}

(* A step of one task t: no other task moves, and the row of no other job   *)
(* becomes PENDING; if t's job is PENDING after it, then t is on the way    *)
(* to complete the row.                                                     *)
PendingTaskMove(t) ==
    /\ \A u \in Tasks : u # t => task'[u] = task[u]
    /\ \A j \in Jobs : review'[j] = "PENDING" =>
         \/ review[j] = "PENDING" /\ j # IdOf(t)
         \/ review[j] = "PENDING" /\ task[t].at \notin Reviewing
         \/ j = IdOf(t) /\ task'[t].at \in Reviewing /\ task'[t].job = task[t].job
    /\ abandoned \subseteq abandoned'

(* PendingReviewHasTask over all tasks: one at such an await is active.     *)
PendingInv ==
    \A j \in Jobs :
        review[j] = "PENDING" =>
            \/ j \in abandoned
            \/ \E t \in Tasks : IdOf(t) = j /\ task[t].at \in Reviewing

LEMMA PendingTaskKept ==
  ASSUME TypeInv, PendingInv, NEW t \in Tasks, PendingTaskMove(t)
  PROVE  PendingInv'
<1> SUFFICES ASSUME NEW j \in Jobs, review'[j] = "PENDING", j \notin abandoned'
             PROVE  \E u \in Tasks : IdOf(u)' = j /\ task'[u].at \in Reviewing
  BY DEF PendingInv
<1>1. CASE j = IdOf(t) /\ task'[t].at \in Reviewing /\ task'[t].job = task[t].job
  BY <1>1 DEF IdOf
<1>2. CASE review[j] = "PENDING" /\ (j # IdOf(t) \/ task[t].at \notin Reviewing)
  <2>1. PICK u \in Tasks : IdOf(u) = j /\ task[u].at \in Reviewing
    BY <1>2 DEF PendingInv, PendingTaskMove
  <2>2. u # t
    BY <1>2, <2>1
  <2>3. task'[u] = task[u]
    BY <2>2 DEF PendingTaskMove
  <2> QED
    BY <2>1, <2>3 DEF IdOf
<1> QED
  BY <1>1, <1>2 DEF PendingTaskMove

LEMMA PendingTaskStep ==
  ASSUME TypeInv, "fail" \notin FailingSessions,
         NEW t \in Tasks, TaskStep(t) \/ RedisFailsInTask(t)
  PROVE  PendingTaskMove(t)
<1> USE DEF dbVars, historyVars
<1>1. TaskType /\ review \in [Jobs -> ReviewStatus] /\ (task[t].at # "none" => IdOf(t) \in Jobs)
  BY RunningLemma DEF TypeInv, DbType
<1>2. CASE Acquire(t) \/ SelectRows(t) \/ Autofix(t) \/ RequeueRemove(t) \/ DeadLetterRemove(t)
  <2>1. /\ task[t].at \notin Reviewing
        /\ review' = review /\ abandoned' = abandoned
    BY <1>2 DEF Acquire, SelectRows, Autofix, RequeueRemove, DeadLetterRemove, Reviewing
  <2>2. \A u \in Tasks : u # t => task'[u] = task[u]
    BY <1>1, <1>2, GotoLemma, SelectLemma DEF TaskStates,
       Acquire, SelectRows, Autofix, RequeueRemove, DeadLetterRemove
  <2> QED
    BY <2>1, <2>2 DEF PendingTaskMove
<1>3. CASE DuplicateKey(t) \/ AutofixFails(t) \/ Ack(t)
  <2>1. /\ task[t].at \notin Reviewing
        /\ review' = review /\ abandoned' = abandoned
    BY <1>3 DEF DuplicateKey, AutofixFails, Ack, Reviewing
  <2>2. \A u \in Tasks : u # t => task'[u] = task[u]
    BY <1>1, <1>3, RaiseLemma DEF Errors, DuplicateKey, AutofixFails, Ack
  <2> QED
    BY <2>1, <2>2 DEF PendingTaskMove
<1>4. CASE CreateReview(t)
  <2>1. /\ task'[t].at = "post" /\ task'[t].job = task[t].job
        /\ \A u \in Tasks : u # t => task'[u] = task[u]
        /\ review' = [review EXCEPT ![IdOf(t)] = "PENDING"] /\ abandoned' = abandoned
    BY <1>1, <1>4, GotoLemma DEF CreateReview, TaskStates
  <2> QED
    BY <1>1, <2>1 DEF PendingTaskMove, Reviewing
<1>5. CASE CreateFails(t)
  <2>1. PICK error \in Errors :
          \/ Raise(t, FALSE, error) /\ UNCHANGED dbVars
          \/ /\ Raise(t, TRUE, error)
             /\ review' = review \/ review' = [review EXCEPT ![IdOf(t)] = "PENDING"]
    BY <1>5 DEF CreateFails
  <2>2. task[t].at = "insert" /\ abandoned' = abandoned
    BY <1>5 DEF CreateFails
  <2>3. CASE Raise(t, FALSE, error) /\ UNCHANGED dbVars
    BY <1>1, <2>2, <2>3, RaiseLemma DEF PendingTaskMove, Reviewing
  <2>4. CASE /\ Raise(t, TRUE, error)
             /\ review' = review \/ review' = [review EXCEPT ![IdOf(t)] = "PENDING"]
    <3>1. /\ task'[t].at = "mark" /\ task'[t].job = task[t].job
          /\ \A u \in Tasks : u # t => task'[u] = task[u]
      BY <1>1, <2>2, <2>4, MarkLemma
    <3> QED
      BY <1>1, <2>2, <2>4, <3>1 DEF PendingTaskMove, Reviewing
  <2> QED
    BY <2>1, <2>3, <2>4
<1>6. CASE Post(t)
  <2>1. /\ task'[t].at = "persist" /\ task'[t].job = task[t].job
        /\ \A u \in Tasks : u # t => task'[u] = task[u]
        /\ review' = review /\ abandoned' = abandoned
    BY <1>1, <1>6, GotoLemma DEF Post, TaskStates
  <2> QED
    BY <2>1 DEF PendingTaskMove, Reviewing
<1>7. CASE Persist(t)
  <2>1. /\ \A u \in Tasks : u # t => task'[u] = task[u]
        /\ review' = [review EXCEPT ![IdOf(t)] = "COMPLETED"] /\ abandoned' = abandoned
        /\ IdOf(t) \in Jobs
    BY <1>1, <1>7, GotoLemma DEF Persist, TaskStates
  <2> QED
    BY <1>1, <2>1 DEF PendingTaskMove
<1>8. CASE PersistFails(t)
  <2>1. PICK error \in Errors : Raise(t, TRUE, error)
    BY <1>8 DEF PersistFails
  <2>2. /\ task[t].at = "persist" /\ abandoned' = abandoned /\ IdOf(t) \in Jobs
        /\ review' = review \/ review' = [review EXCEPT ![IdOf(t)] = "COMPLETED"]
    BY <1>1, <1>8 DEF PersistFails
  <2>3. /\ task'[t].at = "mark" /\ task'[t].job = task[t].job
        /\ \A u \in Tasks : u # t => task'[u] = task[u]
    BY <1>1, <2>1, <2>2, MarkLemma
  <2> QED
    BY <1>1, <2>2, <2>3 DEF PendingTaskMove, Reviewing
<1>9. CASE MarkFailed(t)
  <2>1. /\ \A u \in Tasks : u # t => task'[u] = task[u]
        /\ review' = [review EXCEPT ![IdOf(t)] = IF @ = "none" THEN @ ELSE "FAILED"]
        /\ abandoned' = abandoned /\ IdOf(t) \in Jobs
    BY <1>1, <1>9, GotoLemma DEF MarkFailed, TaskStates
  <2> QED
    BY <1>1, <2>1 DEF PendingTaskMove
<1>10. CASE RequeuePush(t) \/ DeadLetterPush(t) \/ RedisFailsInTask(t)
  <2>1. /\ task[t].at \notin Reviewing
        /\ review' = review /\ abandoned \subseteq abandoned'
    BY <1>10 DEF RequeuePush, DeadLetterPush, RedisFailsInTask, Reviewing
  <2>2. \A u \in Tasks : u # t => task'[u] = task[u]
    BY <1>1, <1>10, FinishLemma DEF RequeuePush, DeadLetterPush, RedisFailsInTask
  <2> QED
    BY <2>1, <2>2 DEF PendingTaskMove
<1> QED
  BY <1>2, <1>3, <1>4, <1>5, <1>6, <1>7, <1>8, <1>9, <1>10 DEF TaskStep

LEMMA PendingStep ==
  ASSUME TypeInv, PendingInv, "fail" \notin FailingSessions, [Next]_vars
  PROVE  PendingInv'
<1> USE DEF dbVars, processVars, historyVars
<1>1. ASSUME NEW w \in Loops, LoopStep(w) \/ RedisFailsInLoop(w) \/ ReplyLost(w)
      PROVE  PendingInv'
  <2>1. review' = review /\ abandoned \subseteq abandoned'
    BY <1>1 DEF LoopStep, DequeueJob, DequeueMalformed, MalformedRemove, MalformedPush,
       DequeueTimeout, DequeueRaises, WakeUp, RedisFailsInLoop, ReplyLost
  <2>2. \A u \in Tasks : task[u].at \in Reviewing => task'[u] = task[u]
    <3>1. CASE DequeueJob(w)
      <4>1. PICK t \in Tasks : task[t] = NoTask /\ \A u \in Tasks : u # t => task'[u] = task[u]
        BY <3>1, SpawnLemma DEF TypeInv
      <4>2. task[t].at \notin Reviewing
        BY <4>1 DEF NoTask, Reviewing
      <4> QED
        BY <4>1, <4>2
    <3>2. CASE task' = task
      BY <3>2
    <3> QED
      BY <1>1, <3>1, <3>2 DEF LoopStep, DequeueMalformed, MalformedRemove, MalformedPush,
         DequeueTimeout, DequeueRaises, WakeUp, RedisFailsInLoop, ReplyLost
  <2> SUFFICES ASSUME NEW j \in Jobs, review'[j] = "PENDING", j \notin abandoned'
               PROVE  \E u \in Tasks : IdOf(u)' = j /\ task'[u].at \in Reviewing
    BY DEF PendingInv
  <2>3. PICK u \in Tasks : IdOf(u) = j /\ task[u].at \in Reviewing
    BY <2>1 DEF PendingInv
  <2> QED
    BY <2>2, <2>3 DEF IdOf
<1>2. CASE Exit \/ Crash
  <2>1. review' = review /\ abandoned' = abandoned \cup AtWork
    BY <1>2 DEF Exit, Crash, ProcessEnds
  <2>2. \A u \in Tasks : task[u].at \in Reviewing => IdOf(u) \in AtWork
    <3>1. NoTask.at \notin Reviewing
      BY DEF NoTask, Reviewing
    <3> QED
      BY <3>1 DEF AtWork, Active
  <2> QED
    BY <2>1, <2>2 DEF PendingInv
<1>3. CASE Signal \/ Start \/ UNCHANGED vars \/ \E j \in Jobs : Submit(j)
  <2>1. review' = review /\ abandoned' = abandoned /\ task' = task
    BY <1>3 DEF Signal, Start, Submit, vars
  <2> QED
    BY <2>1 DEF PendingInv, IdOf
<1>4. ASSUME NEW t \in Tasks, TaskStep(t) \/ RedisFailsInTask(t)
      PROVE  PendingInv'
  BY <1>4, PendingTaskStep, PendingTaskKept
<1> QED
  BY <1>1, <1>2, <1>3, <1>4 DEF Next

(* Unless the session that marks it fails, every way through process_job    *)
(* completes or marks the row it created: for any number of jobs and tasks, *)
(* a PENDING review that nothing interrupted has a task that will settle it *)
(* (worker.py 99-154).                                                      *)
THEOREM PendingIsWorkedOn ==
  ASSUME "fail" \notin FailingSessions
  PROVE  Spec => []PendingReviewHasTask
<1>1. Init => PendingInv
  BY DEF Init, PendingInv
<1>2. TypeInv /\ PendingInv /\ [Next]_vars => TypeInv' /\ PendingInv'
  BY TypeStep, PendingStep
<1>3. PendingInv => PendingReviewHasTask
  <2>1. NoTask.at \notin Reviewing
    BY DEF NoTask, Reviewing
  <2> QED
    BY <2>1 DEF PendingInv, PendingReviewHasTask, Active, Reviewing
<1> QED
  BY <1>1, <1>2, <1>3, TypeInit, PTL DEF Spec

-----------------------------------------------------------------------------
(* Custody.
   Who has a job, through crashes, shutdowns, restarts and failures of
   Redis, for any number of jobs, loops and tasks: no job has two tasks,
   and none is lost or left behind that nothing interrupted.

   A job is held by a task of process_job or by a loop in the malformed
   branch of dequeue().  Both have it in the processing list first
   ("listed"), then between an LREM and an LPUSH ("push"); the proof sees
   them alike. *)

Pushing == {"requeue_push", "dead_push"}

TaskPhase(t) == IF task[t].at = "none" THEN "none"
                ELSE IF task[t].at \in Pushing THEN "push" ELSE "listed"

LoopPhase(w) == IF loop[w].at = "unparsed" THEN "listed"
                ELSE IF loop[w].at = "unparsed_push" THEN "push" ELSE "none"

Holding == ({"task"} \X Tasks) \cup ({"loop"} \X Loops)

Phase(h) == IF h[1] = "task" THEN TaskPhase(h[2]) ELSE LoopPhase(h[2])

(* The bytes that the holder's LREM passes.                                 *)
Bytes(h) == IF h[1] = "task" THEN Dump(task[h[2]].job) ELSE loop[h[2]].raw
HeldId(h) == Bytes(h).id

Holds(h) == Phase(h) # "none"

-----------------------------------------------------------------------------
(* Custody: a tracked job waits, or is in the processing list, or is with   *)
(* one holder that is about to push it.                                     *)

OneList ==
    /\ UniqueIn(pending)
    /\ UniqueIn(processing)
    /\ \A j \in Tracked : ~(j \in Ids(pending) /\ j \in Ids(processing))

OneHolder ==
    \A g, h \in Holding :
        Holds(g) /\ Holds(h) /\ HeldId(g) = HeldId(h) /\ HeldId(g) \in Tracked => g = h

HolderAndLists ==
    \A h \in Holding :
        Holds(h) /\ HeldId(h) \in Tracked =>
            /\ HeldId(h) \notin Ids(pending)
            /\ Phase(h) = "listed" => \E i \in 1..Len(processing) : processing[i] = Bytes(h)
            /\ Phase(h) = "push" => HeldId(h) \notin Ids(processing)

OnlySubmitted ==
    /\ Ids(pending) \cup Ids(processing) \subseteq submitted
    /\ \A h \in Holding : Holds(h) => HeldId(h) \in submitted

FormsKnown ==
    \A i \in 1..Len(pending) : pending[i].id \in Tracked => pending[i].form # "extended"

Custody == OneList /\ OneHolder /\ HolderAndLists /\ OnlySubmitted /\ FormsKnown

(* Accounted: nothing is missing but what was interrupted.                  *)
NothingMissing ==
    \A j \in submitted \cap Tracked :
        \/ j \in Ids(pending) \cup Ids(processing) \cup Ids(deadLetter) \cup abandoned
        \/ \E h \in Holding : Phase(h) = "push" /\ HeldId(h) = j

NothingStranded ==
    \A j \in Ids(processing) \cap Tracked :
        j \in abandoned \/ \E h \in Holding : Holds(h) /\ HeldId(h) = j

Accounted == NothingMissing /\ NothingStranded

-----------------------------------------------------------------------------
(* What one step does to the holders and the lists.                         *)

Same(h) == Phase(h)' = Phase(h) /\ (Holds(h) => Bytes(h)' = Bytes(h))
OthersSame(h) == \A g \in Holding : g # h => Same(g)
AllSame == \A g \in Holding : Same(g)

Kept == submitted' = submitted /\ abandoned' = abandoned

Quiet == UNCHANGED queueVars /\ AllSame /\ Kept

Submitted(j) ==
    /\ j \in Jobs \ submitted /\ PushNew(j) /\ AllSame
    /\ submitted' = submitted \cup {j} /\ abandoned' = abandoned

Moved(raw) ==
    /\ Popped(pending', pending) /\ Pushed(processing', processing, raw)
    /\ deadLetter' = deadLetter /\ submitted' = submitted

Taken(h, raw) ==
    /\ Moved(raw)
    /\ ~Holds(h) /\ OthersSame(h) /\ abandoned' = abandoned
    /\ Phase(h)' = "listed" /\ HeldId(h)' = raw.id
    /\ raw.id \in Tracked => Bytes(h)' = raw

TakenByNobody(raw) == Moved(raw) /\ AllSame /\ abandoned' = abandoned \cup {raw.id}

RemovedBy(h) ==
    /\ Phase(h) = "listed" /\ Phase(h)' = "push" /\ Bytes(h)' = Bytes(h) /\ OthersSame(h)
    /\ Removed(processing', processing, Bytes(h))
    /\ pending' = pending /\ deadLetter' = deadLetter /\ Kept

PushedBy(h) ==
    /\ Phase(h) = "push" /\ Phase(h)' = "none" /\ OthersSame(h)
    /\ processing' = processing /\ Kept
    /\ \/ /\ \E e \in Entries : /\ Pushed(pending', pending, e)
                                /\ e.id = HeldId(h) /\ e.form = "native"
          /\ deadLetter' = deadLetter
       \/ /\ \E e \in DeadEntries : Pushed(deadLetter', deadLetter, e) /\ e.id = HeldId(h)
          /\ pending' = pending

DroppedBy(h) ==
    /\ Holds(h) /\ Phase(h)' = "none" /\ OthersSame(h)
    /\ UNCHANGED queueVars /\ submitted' = submitted
    /\ abandoned' = abandoned \cup {HeldId(h)}

AllDropped ==
    /\ \A h \in Holding : Phase(h)' = "none"
    /\ UNCHANGED queueVars /\ submitted' = submitted
    /\ abandoned' = abandoned \cup {HeldId(h) : h \in {g \in Holding : Holds(g)}}

HolderStep ==
    \/ Quiet
    \/ \E j \in Jobs : Submitted(j)
    \/ \E h \in Holding : Taken(h, Last(pending))
    \/ TakenByNobody(Last(pending))
    \/ \E h \in Holding : RemovedBy(h) \/ PushedBy(h) \/ DroppedBy(h)
    \/ AllDropped

-----------------------------------------------------------------------------
(* Custody is kept by every kind of step.                                   *)

LEMMA SubmittedKeeps ==
  ASSUME TypeInv, Custody, Accounted, NEW j \in Jobs, Submitted(j)
  PROVE  Custody' /\ Accounted'
<1>1. /\ processing' = processing /\ deadLetter' = deadLetter
      /\ submitted' = submitted \cup {j} /\ abandoned' = abandoned /\ j \notin submitted
  BY PushNewStep DEF Submitted, TypeInv
<1>2. PICK e \in Entries : /\ Pushed(pending', pending, e)
                           /\ e.id = j /\ (j \in Tracked => e.form # "extended")
  BY PushNewStep DEF Submitted, TypeInv
<1>3. \A h \in Holding : Phase(h)' = Phase(h) /\ (Holds(h) => Bytes(h)' = Bytes(h) /\ HeldId(h)' = HeldId(h))
  BY DEF Submitted, AllSame, Same, HeldId
<1>4. \A h \in Holding : Holds(h)' = Holds(h)
  BY <1>3 DEF Holds
<1>5. j \notin Ids(pending) \cup Ids(processing) /\ \A h \in Holding : Holds(h) => HeldId(h) # j
  BY <1>1 DEF Custody, OnlySubmitted
<1>6. Ids(pending') = {j} \cup Ids(pending)
  BY <1>2 DEF Pushed
<1>7. OneList'
  BY <1>1, <1>2, <1>5, <1>6 DEF Custody, OneList, Pushed, Tracked
<1>8. OneHolder'
  BY <1>3, <1>4 DEF Custody, OneHolder, Tracked
<1>9. HolderAndLists'
  BY <1>1, <1>3, <1>4, <1>5, <1>6 DEF Custody, HolderAndLists, Tracked
<1>10. OnlySubmitted'
  BY <1>1, <1>3, <1>4, <1>6 DEF Custody, OnlySubmitted
<1>11. FormsKnown'
  BY <1>2 DEF Custody, FormsKnown, Pushed, Tracked
<1>12. NothingMissing'
  BY <1>1, <1>3, <1>6 DEF Accounted, NothingMissing, Tracked, Holds
<1>13. NothingStranded'
  BY <1>1, <1>3, <1>4 DEF Accounted, NothingStranded, Tracked
<1> QED
  BY <1>7, <1>8, <1>9, <1>10, <1>11, <1>12, <1>13 DEF Custody, Accounted

(* The transfer, whoever receives the job.                                  *)
LEMMA MovedKeeps ==
  ASSUME TypeInv, Custody, NEW raw, raw = Last(pending), Moved(raw)
  PROVE  /\ OneList' /\ FormsKnown'
         /\ Ids(pending') \subseteq Ids(pending) /\ raw.id \in Ids(pending)
         /\ Ids(pending) = {raw.id} \cup Ids(pending')
         /\ raw.id \in Tracked => raw.id \notin Ids(pending')
         /\ Ids(processing') = {raw.id} \cup Ids(processing)
<1>1. /\ Ids(pending) = {raw.id} \cup Ids(pending')
      /\ Ids(processing') = {raw.id} \cup Ids(processing)
  BY DEF Moved, Popped, Pushed
<1>2. raw.id \in Tracked => raw.id \notin Ids(pending')
  BY DEF Moved, Popped, Custody, OneList
<1>3. UniqueIn(pending')
  BY DEF Moved, Popped, Custody, OneList
<1>4. raw.id \in Tracked => raw.id \notin Ids(processing)
  BY <1>1 DEF Custody, OneList
<1>5. UniqueIn(processing')
  BY <1>4 DEF Moved, Pushed, Custody, OneList
<1>6. OneList'
  BY <1>1, <1>2, <1>3, <1>5 DEF Custody, OneList, Tracked, UniqueIn
<1>7. FormsKnown'
  BY DEF Custody, FormsKnown, Moved, Popped, Tracked
<1> QED
  BY <1>1, <1>2, <1>6, <1>7

LEMMA TakenKeeps ==
  ASSUME TypeInv, Custody, Accounted, NEW h \in Holding, NEW raw, raw = Last(pending),
         Taken(h, raw)
  PROVE  Custody' /\ Accounted'
<1>1. /\ OneList' /\ FormsKnown'
      /\ Ids(pending') \subseteq Ids(pending) /\ raw.id \in Ids(pending)
      /\ Ids(pending) = {raw.id} \cup Ids(pending')
      /\ raw.id \in Tracked => raw.id \notin Ids(pending')
      /\ Ids(processing') = {raw.id} \cup Ids(processing)
  BY MovedKeeps DEF Taken
<1>2. /\ \A i \in 1..Len(processing) : \E k \in 1..Len(processing') : processing'[k] = processing[i]
      /\ \E k \in 1..Len(processing') : processing'[k] = raw
      /\ submitted' = submitted /\ abandoned' = abandoned /\ deadLetter' = deadLetter
  BY DEF Taken, Moved, Pushed
<1>3. /\ Holds(h)' /\ Phase(h)' = "listed" /\ HeldId(h)' = raw.id
      /\ raw.id \in Tracked => Bytes(h)' = raw
      /\ ~Holds(h)
  BY DEF Taken, Holds
<1>4. \A g \in Holding : g # h =>
        /\ Phase(g)' = Phase(g) /\ Holds(g)' = Holds(g)
        /\ Holds(g) => Bytes(g)' = Bytes(g) /\ HeldId(g)' = HeldId(g)
  BY DEF Taken, OthersSame, Same, Holds, HeldId
<1>5. \A g \in Holding : Holds(g) /\ HeldId(g) \in Tracked => HeldId(g) # raw.id
  BY <1>1 DEF Custody, HolderAndLists
<1>6. OneHolder'
  <2> SUFFICES ASSUME NEW f \in Holding, NEW g \in Holding, Holds(f)', Holds(g)',
                      HeldId(f)' = HeldId(g)', HeldId(f)' \in Tracked
               PROVE  f = g
    BY DEF OneHolder, Tracked
  <2>1. CASE f # h /\ g # h
    BY <1>4, <2>1 DEF Custody, OneHolder
  <2>2. CASE f = h /\ g # h
    BY <1>3, <1>4, <1>5, <2>2
  <2>3. CASE f # h /\ g = h
    BY <1>3, <1>4, <1>5, <2>3
  <2> QED
    BY <2>1, <2>2, <2>3
<1>7. HolderAndLists'
  <2> SUFFICES ASSUME NEW g \in Holding, Holds(g)', HeldId(g)' \in Tracked
               PROVE  /\ HeldId(g)' \notin Ids(pending')
                      /\ Phase(g)' = "listed" =>
                           \E i \in 1..Len(processing') : processing'[i] = Bytes(g)'
                      /\ Phase(g)' = "push" => HeldId(g)' \notin Ids(processing')
    BY DEF HolderAndLists, Tracked
  <2>1. CASE g = h
    BY <1>1, <1>2, <1>3, <2>1
  <2>2. CASE g # h
    <3>1. /\ Holds(g) /\ HeldId(g) \in Tracked /\ Phase(g)' = Phase(g)
          /\ Bytes(g)' = Bytes(g) /\ HeldId(g)' = HeldId(g)
      BY <1>4, <2>2
    <3> QED
      BY <1>1, <1>2, <1>5, <3>1 DEF Custody, HolderAndLists
  <2> QED
    BY <2>1, <2>2
<1>8. OnlySubmitted'
  BY <1>1, <1>2, <1>3, <1>4 DEF Custody, OnlySubmitted
<1>9. NothingMissing'
  <2> SUFFICES ASSUME NEW j \in submitted \cap Tracked
               PROVE  \/ j \in Ids(pending') \cup Ids(processing') \cup Ids(deadLetter') \cup abandoned'
                      \/ \E g \in Holding : Phase(g)' = "push" /\ HeldId(g)' = j
    BY <1>2 DEF NothingMissing, Tracked
  <2>1. CASE \E g \in Holding : Phase(g) = "push" /\ HeldId(g) = j
    BY <1>3, <1>4, <2>1 DEF Holds
  <2> QED
    BY <1>1, <1>2, <2>1 DEF Accounted, NothingMissing
<1>10. NothingStranded'
  <2> SUFFICES ASSUME NEW j \in Ids(processing') \cap Tracked
               PROVE  j \in abandoned' \/ \E g \in Holding : Holds(g)' /\ HeldId(g)' = j
    BY DEF NothingStranded, Tracked
  <2>1. CASE j = raw.id
    BY <1>3, <2>1
  <2>2. CASE j # raw.id
    <3>1. j \in abandoned \/ \E g \in Holding : Holds(g) /\ HeldId(g) = j
      BY <1>1, <2>2 DEF Accounted, NothingStranded
    <3> QED
      BY <1>2, <1>3, <1>4, <3>1
  <2> QED
    BY <2>1, <2>2
<1> QED
  BY <1>1, <1>6, <1>7, <1>8, <1>9, <1>10 DEF Custody, Accounted

LEMMA TakenByNobodyKeeps ==
  ASSUME TypeInv, Custody, Accounted, NEW raw, raw = Last(pending), TakenByNobody(raw)
  PROVE  Custody' /\ Accounted'
<1>1. /\ OneList' /\ FormsKnown'
      /\ Ids(pending') \subseteq Ids(pending) /\ raw.id \in Ids(pending)
      /\ Ids(pending) = {raw.id} \cup Ids(pending')
      /\ Ids(processing') = {raw.id} \cup Ids(processing)
  BY MovedKeeps DEF TakenByNobody
<1>2. /\ \A i \in 1..Len(processing) : \E k \in 1..Len(processing') : processing'[k] = processing[i]
      /\ submitted' = submitted /\ abandoned' = abandoned \cup {raw.id} /\ deadLetter' = deadLetter
  BY DEF TakenByNobody, Moved, Pushed
<1>3. \A g \in Holding : /\ Phase(g)' = Phase(g) /\ Holds(g)' = Holds(g)
                         /\ Holds(g) => Bytes(g)' = Bytes(g) /\ HeldId(g)' = HeldId(g)
  BY DEF TakenByNobody, AllSame, Same, Holds, HeldId
<1>4. \A g \in Holding : Holds(g) /\ HeldId(g) \in Tracked => HeldId(g) # raw.id
  BY <1>1 DEF Custody, HolderAndLists
<1>5. OneHolder'
  BY <1>3 DEF Custody, OneHolder, Tracked
<1>6. HolderAndLists'
  <2> SUFFICES ASSUME NEW g \in Holding, Holds(g), HeldId(g) \in Tracked
               PROVE  /\ HeldId(g) \notin Ids(pending')
                      /\ Phase(g) = "listed" =>
                           \E i \in 1..Len(processing') : processing'[i] = Bytes(g)
                      /\ Phase(g) = "push" => HeldId(g) \notin Ids(processing')
    BY <1>3 DEF HolderAndLists, Tracked
  <2> QED
    BY <1>1, <1>2, <1>4 DEF Custody, HolderAndLists
<1>7. OnlySubmitted'
  BY <1>1, <1>2, <1>3 DEF Custody, OnlySubmitted
<1>8. NothingMissing'
  BY <1>1, <1>2, <1>3 DEF Accounted, NothingMissing, Tracked, Holds
<1>9. NothingStranded'
  BY <1>1, <1>2, <1>3 DEF Accounted, NothingStranded, Tracked
<1> QED
  BY <1>1, <1>5, <1>6, <1>7, <1>8, <1>9 DEF Custody, Accounted

(* The LREM of requeue, dead_letter and the malformed branch.               *)
LEMMA RemovedKeeps ==
  ASSUME TypeInv, Custody, Accounted, NEW h \in Holding, RemovedBy(h)
  PROVE  Custody' /\ Accounted'
<1>1. /\ pending' = pending /\ deadLetter' = deadLetter
      /\ submitted' = submitted /\ abandoned' = abandoned
      /\ Phase(h) = "listed" /\ Phase(h)' = "push" /\ Bytes(h)' = Bytes(h)
      /\ HeldId(h)' = HeldId(h) /\ Holds(h) /\ Holds(h)'
  BY DEF RemovedBy, Kept, HeldId, Holds
<1>2. /\ Ids(processing') \subseteq Ids(processing)
      /\ Ids(processing) \subseteq Ids(processing') \cup {HeldId(h)}
      /\ \A i \in 1..Len(processing) :
           processing[i].id # HeldId(h) => \E k \in 1..Len(processing') : processing'[k] = processing[i]
      /\ UniqueIn(processing')
  BY DEF RemovedBy, Removed, HeldId, Custody, OneList
<1>3. HeldId(h) \in Tracked => HeldId(h) \notin Ids(processing')
  <2> SUFFICES ASSUME HeldId(h) \in Tracked
               PROVE  HeldId(h) \notin Ids(processing')
    OBVIOUS
  <2>1. \E i \in 1..Len(processing) : processing[i] = Bytes(h)
    BY <1>1 DEF Custody, HolderAndLists
  <2> QED
    BY <2>1 DEF RemovedBy, Removed, HeldId, Custody, OneList
<1>4. \A g \in Holding : /\ Holds(g)' = Holds(g)
                         /\ Holds(g) => Bytes(g)' = Bytes(g) /\ HeldId(g)' = HeldId(g)
                         /\ g # h => Phase(g)' = Phase(g)
  BY <1>1 DEF RemovedBy, OthersSame, Same, Holds, HeldId
<1>5. OneList'
  BY <1>1, <1>2 DEF Custody, OneList, Tracked, UniqueIn
<1>6. OneHolder'
  BY <1>4 DEF Custody, OneHolder, Tracked
<1>7. HolderAndLists'
  <2> SUFFICES ASSUME NEW g \in Holding, Holds(g), HeldId(g) \in Tracked
               PROVE  /\ HeldId(g) \notin Ids(pending)
                      /\ Phase(g)' = "listed" =>
                           \E i \in 1..Len(processing') : processing'[i] = Bytes(g)
                      /\ Phase(g)' = "push" => HeldId(g) \notin Ids(processing')
    BY <1>1, <1>4 DEF HolderAndLists, Tracked
  <2>1. CASE g = h
    BY <1>1, <1>3, <2>1 DEF Custody, HolderAndLists
  <2>2. CASE g # h
    <3>1. Phase(g)' = Phase(g) /\ HeldId(g) # HeldId(h)
      BY <1>1, <1>4, <2>2 DEF Custody, OneHolder
    <3> QED
      BY <1>2, <3>1 DEF Custody, HolderAndLists, HeldId
  <2> QED
    BY <2>1, <2>2
<1>8. OnlySubmitted' /\ FormsKnown'
  BY <1>1, <1>2, <1>4 DEF Custody, OnlySubmitted, FormsKnown, Tracked
<1>9. NothingMissing'
  <2> SUFFICES ASSUME NEW j \in submitted \cap Tracked
               PROVE  \/ j \in Ids(pending') \cup Ids(processing') \cup Ids(deadLetter') \cup abandoned'
                      \/ \E g \in Holding : Phase(g)' = "push" /\ HeldId(g)' = j
    BY <1>1 DEF NothingMissing, Tracked
  <2>1. CASE j = HeldId(h)
    BY <1>1, <2>1
  <2>2. CASE \E g \in Holding : Phase(g) = "push" /\ HeldId(g) = j
    BY <1>1, <1>4, <2>2 DEF Holds
  <2> QED
    BY <1>1, <1>2, <2>1, <2>2 DEF Accounted, NothingMissing
<1>10. NothingStranded'
  BY <1>1, <1>2, <1>4 DEF Accounted, NothingStranded, Tracked
<1> QED
  BY <1>5, <1>6, <1>7, <1>8, <1>9, <1>10 DEF Custody, Accounted

(* The LPUSH after it.                                                      *)
LEMMA PushedKeeps ==
  ASSUME TypeInv, Custody, Accounted, NEW h \in Holding, PushedBy(h)
  PROVE  Custody' /\ Accounted'
<1>1. /\ processing' = processing /\ submitted' = submitted /\ abandoned' = abandoned
      /\ Phase(h) = "push" /\ Phase(h)' = "none" /\ Holds(h) /\ ~Holds(h)'
  BY DEF PushedBy, Kept, Holds
<1>2. /\ HeldId(h) \in submitted
      /\ HeldId(h) \in Tracked => HeldId(h) \notin Ids(pending) \cup Ids(processing)
  BY <1>1 DEF Custody, OnlySubmitted, HolderAndLists
<1>3. \A g \in Holding : Holds(g)' => /\ g # h /\ Holds(g) /\ Phase(g)' = Phase(g)
                                      /\ Bytes(g)' = Bytes(g) /\ HeldId(g)' = HeldId(g)
  BY <1>1 DEF PushedBy, OthersSame, Same, Holds, HeldId
<1>4. \A g \in Holding : Holds(g)' /\ HeldId(g) \in Tracked => HeldId(g) # HeldId(h)
  BY <1>1, <1>3 DEF Custody, OneHolder
<1>5. \A g \in Holding : g # h /\ Holds(g) => /\ Holds(g)' /\ Phase(g)' = Phase(g)
                                              /\ HeldId(g)' = HeldId(g)
  BY DEF PushedBy, OthersSame, Same, Holds, HeldId
<1>6. /\ Ids(pending') \subseteq Ids(pending) \cup {HeldId(h)}
      /\ Ids(pending) \subseteq Ids(pending') /\ Ids(deadLetter) \subseteq Ids(deadLetter')
      /\ HeldId(h) \in Ids(pending') \cup Ids(deadLetter')
      /\ UniqueIn(pending') /\ FormsKnown'
  <2>1. CASE pending' = pending /\ \E e \in DeadEntries :
               Pushed(deadLetter', deadLetter, e) /\ e.id = HeldId(h)
    BY <2>1 DEF Pushed, Custody, OneList, FormsKnown, UniqueIn, Tracked
  <2>2. CASE deadLetter' = deadLetter /\ \E e \in Entries :
               Pushed(pending', pending, e) /\ e.id = HeldId(h) /\ e.form = "native"
    <3>1. PICK e \in Entries : Pushed(pending', pending, e) /\ e.id = HeldId(h) /\ e.form = "native"
      BY <2>2
    <3>2. Ids(pending') = {HeldId(h)} \cup Ids(pending) /\ UniqueIn(pending')
      BY <1>2, <3>1 DEF Pushed, Custody, OneList
    <3>3. FormsKnown'
      BY <3>1 DEF Pushed, Custody, FormsKnown, Tracked
    <3> QED
      BY <2>2, <3>2, <3>3
  <2> QED
    BY <2>1, <2>2 DEF PushedBy
<1>7. OneList'
  BY <1>1, <1>2, <1>6 DEF Custody, OneList, Tracked, UniqueIn
<1>8. OneHolder'
  BY <1>3 DEF Custody, OneHolder, Tracked
<1>9. HolderAndLists'
  <2> SUFFICES ASSUME NEW g \in Holding, Holds(g)', HeldId(g)' \in Tracked
               PROVE  /\ HeldId(g)' \notin Ids(pending')
                      /\ Phase(g)' = "listed" =>
                           \E i \in 1..Len(processing') : processing'[i] = Bytes(g)'
                      /\ Phase(g)' = "push" => HeldId(g)' \notin Ids(processing')
    BY DEF HolderAndLists, Tracked
  <2>1. /\ Holds(g) /\ Phase(g)' = Phase(g) /\ Bytes(g)' = Bytes(g)
        /\ HeldId(g)' = HeldId(g) /\ HeldId(g) \in Tracked /\ HeldId(g) # HeldId(h)
    BY <1>3, <1>4
  <2> QED
    BY <1>1, <1>6, <2>1 DEF Custody, HolderAndLists
<1>10. OnlySubmitted'
  BY <1>1, <1>2, <1>3, <1>6 DEF Custody, OnlySubmitted
<1>11. NothingMissing'
  <2> SUFFICES ASSUME NEW j \in submitted \cap Tracked
               PROVE  \/ j \in Ids(pending') \cup Ids(processing') \cup Ids(deadLetter') \cup abandoned'
                      \/ \E g \in Holding : Phase(g)' = "push" /\ HeldId(g)' = j
    BY <1>1 DEF NothingMissing, Tracked
  <2>1. CASE j = HeldId(h)
    BY <1>6, <2>1
  <2>2. CASE j # HeldId(h) /\ \E g \in Holding : Phase(g) = "push" /\ HeldId(g) = j
    BY <1>5, <2>2 DEF Holds
  <2> QED
    BY <1>1, <1>6, <2>1, <2>2 DEF Accounted, NothingMissing
<1>12. NothingStranded'
  <2> SUFFICES ASSUME NEW j \in Ids(processing) \cap Tracked
               PROVE  j \in abandoned \/ \E g \in Holding : Holds(g)' /\ HeldId(g)' = j
    BY <1>1 DEF NothingStranded, Tracked
  <2>1. j # HeldId(h)
    BY <1>2
  <2>2. j \in abandoned \/ \E g \in Holding : Holds(g) /\ HeldId(g) = j
    BY DEF Accounted, NothingStranded
  <2> QED
    BY <1>5, <2>1, <2>2
<1> QED
  BY <1>6, <1>7, <1>8, <1>9, <1>10, <1>11, <1>12 DEF Custody, Accounted

(* Interrupted: one holder, or all of them.                                 *)
LEMMA DroppedKeeps ==
  ASSUME TypeInv, Custody, Accounted, AllDropped \/ \E h \in Holding : DroppedBy(h)
  PROVE  Custody' /\ Accounted'
<1>1. UNCHANGED queueVars /\ submitted' = submitted /\ abandoned \subseteq abandoned'
  BY DEF AllDropped, DroppedBy
<1>2. pending' = pending /\ processing' = processing /\ deadLetter' = deadLetter
  BY <1>1 DEF queueVars
<1>3. \A g \in Holding : Holds(g)' => /\ Holds(g) /\ Phase(g)' = Phase(g)
                                      /\ Bytes(g)' = Bytes(g) /\ HeldId(g)' = HeldId(g)
  BY DEF AllDropped, DroppedBy, OthersSame, Same, Holds, HeldId
<1>4. \A g \in Holding :
        Holds(g) => \/ HeldId(g) \in abandoned'
                    \/ Holds(g)' /\ Phase(g)' = Phase(g) /\ HeldId(g)' = HeldId(g)
  BY DEF AllDropped, DroppedBy, OthersSame, Same, Holds, HeldId
<1>5. OneList' /\ FormsKnown'
  BY <1>2 DEF Custody, OneList, FormsKnown, Tracked, UniqueIn
<1>6. OneHolder'
  BY <1>3 DEF Custody, OneHolder, Tracked
<1>7. HolderAndLists'
  <2> SUFFICES ASSUME NEW g \in Holding, Holds(g)', HeldId(g)' \in Tracked
               PROVE  /\ HeldId(g)' \notin Ids(pending')
                      /\ Phase(g)' = "listed" =>
                           \E i \in 1..Len(processing') : processing'[i] = Bytes(g)'
                      /\ Phase(g)' = "push" => HeldId(g)' \notin Ids(processing')
    BY DEF HolderAndLists, Tracked
  <2> QED
    BY <1>2, <1>3 DEF Custody, HolderAndLists
<1>8. OnlySubmitted'
  BY <1>1, <1>2, <1>3 DEF Custody, OnlySubmitted
<1>9. NothingMissing'
  <2> SUFFICES ASSUME NEW j \in submitted \cap Tracked
               PROVE  \/ j \in Ids(pending') \cup Ids(processing') \cup Ids(deadLetter') \cup abandoned'
                      \/ \E g \in Holding : Phase(g)' = "push" /\ HeldId(g)' = j
    BY <1>1 DEF NothingMissing, Tracked
  <2>1. CASE \E g \in Holding : Phase(g) = "push" /\ HeldId(g) = j
    BY <1>4, <2>1 DEF Holds
  <2> QED
    BY <1>1, <1>2, <2>1 DEF Accounted, NothingMissing
<1>10. NothingStranded'
  BY <1>1, <1>2, <1>4 DEF Accounted, NothingStranded, Tracked
<1> QED
  BY <1>5, <1>6, <1>7, <1>8, <1>9, <1>10 DEF Custody, Accounted

LEMMA QuietKeeps ==
  ASSUME TypeInv, Custody, Accounted, Quiet
  PROVE  Custody' /\ Accounted'
<1>1. /\ pending' = pending /\ processing' = processing /\ deadLetter' = deadLetter
      /\ submitted' = submitted /\ abandoned' = abandoned
  BY DEF Quiet, queueVars, Kept
<1>2. \A g \in Holding : /\ Phase(g)' = Phase(g) /\ Holds(g)' = Holds(g)
                         /\ Holds(g) => Bytes(g)' = Bytes(g) /\ HeldId(g)' = HeldId(g)
  BY DEF Quiet, AllSame, Same, Holds, HeldId
<1>3. OneList' /\ FormsKnown'
  BY <1>1 DEF Custody, OneList, FormsKnown, Tracked, UniqueIn
<1>4. OneHolder' /\ HolderAndLists' /\ OnlySubmitted'
  BY <1>1, <1>2 DEF Custody, OneHolder, HolderAndLists, OnlySubmitted, Tracked
<1>5. NothingMissing' /\ NothingStranded'
  BY <1>1, <1>2 DEF Accounted, NothingMissing, NothingStranded, Tracked, Holds
<1> QED
  BY <1>3, <1>4, <1>5 DEF Custody, Accounted

LEMMA HolderStepKeeps ==
  ASSUME TypeInv, Custody, Accounted, HolderStep
  PROVE  Custody' /\ Accounted'
BY SubmittedKeeps, TakenKeeps, TakenByNobodyKeeps, RemovedKeeps, PushedKeeps, DroppedKeeps,
   QuietKeeps DEF HolderStep
-----------------------------------------------------------------------------
(* Every step of the worker is one of these.                                *)

LEMMA TaskView ==
  ASSUME NEW t \in Tasks, \A u \in Tasks : u # t => task'[u] = task[u],
         \A w \in Loops : loop'[w] = loop[w]
                          \/ (LoopPhase(w) = "none" /\ LoopPhase(w)' = "none")
  PROVE  /\ OthersSame(<<"task", t>>)
         /\ <<"task", t>> \in Holding
         /\ Phase(<<"task", t>>) = TaskPhase(t) /\ Phase(<<"task", t>>)' = TaskPhase(t)'
         /\ Bytes(<<"task", t>>) = Dump(task[t].job)
         /\ Bytes(<<"task", t>>)' = Dump(task'[t].job)
<1>1. ASSUME NEW u \in Tasks, u # t
      PROVE  Same(<<"task", u>>)
  BY <1>1 DEF Same, Phase, Bytes, TaskPhase
<1>2. ASSUME NEW w \in Loops
      PROVE  Same(<<"loop", w>>)
  <2>1. CASE loop'[w] = loop[w]
    BY <2>1 DEF Same, Phase, Bytes, LoopPhase
  <2>2. CASE LoopPhase(w) = "none" /\ LoopPhase(w)' = "none"
    BY <2>2 DEF Same, Phase, Holds
  <2> QED
    BY <2>1, <2>2
<1>3. OthersSame(<<"task", t>>)
  BY <1>1, <1>2 DEF OthersSame, Holding
<1> QED
  BY <1>3 DEF Holding, Phase, Bytes

LEMMA LoopView ==
  ASSUME NEW w \in Loops, \A v \in Loops : v # w => loop'[v] = loop[v], task' = task
  PROVE  /\ OthersSame(<<"loop", w>>)
         /\ <<"loop", w>> \in Holding
         /\ Phase(<<"loop", w>>) = LoopPhase(w) /\ Phase(<<"loop", w>>)' = LoopPhase(w)'
         /\ Bytes(<<"loop", w>>) = loop[w].raw
         /\ Bytes(<<"loop", w>>)' = loop'[w].raw
<1>1. ASSUME NEW u \in Tasks
      PROVE  Same(<<"task", u>>)
  BY DEF Same, Phase, Bytes, TaskPhase
<1>2. ASSUME NEW v \in Loops, v # w
      PROVE  Same(<<"loop", v>>)
  BY <1>2 DEF Same, Phase, Bytes, LoopPhase
<1>3. OthersSame(<<"loop", w>>)
  BY <1>1, <1>2 DEF OthersSame, Holding
<1> QED
  BY <1>3 DEF Holding, Phase, Bytes

(* A task that goes on with its job, and leaves Redis alone.                *)
LEMMA QuietTask ==
  ASSUME NEW t \in Tasks, task[t].at \in TaskStates \ Pushing,
         task'[t].at \in TaskStates \ Pushing, task'[t].job = task[t].job,
         \A u \in Tasks : u # t => task'[u] = task[u],
         UNCHANGED queueVars, loop' = loop, Kept
  PROVE  Quiet
<1>1. TaskPhase(t) = "listed" /\ TaskPhase(t)' = "listed"
  BY DEF TaskPhase, TaskStates
<1>2. /\ OthersSame(<<"task", t>>)
      /\ Phase(<<"task", t>>) = TaskPhase(t) /\ Phase(<<"task", t>>)' = TaskPhase(t)'
      /\ Bytes(<<"task", t>>) = Dump(task[t].job)
      /\ Bytes(<<"task", t>>)' = Dump(task'[t].job)
  BY TaskView
<1>3. Bytes(<<"task", t>>)' = Bytes(<<"task", t>>)
  BY <1>2
<1>4. Same(<<"task", t>>)
  BY <1>1, <1>2, <1>3 DEF Same
<1> QED
  BY <1>2, <1>4 DEF Quiet, AllSame, OthersSame

LEMMA TaskKinds ==
  ASSUME TypeInv, NEW t \in Tasks, TaskStep(t) \/ RedisFailsInTask(t)
  PROVE  HolderStep
<1> USE DEF dbVars, historyVars
<1>1. TaskType /\ QueueTypeOK /\ (task[t].at # "none" => task[t].job \in ParsedJobs)
  BY RunningLemma DEF TypeInv
<1>2. CASE Acquire(t) \/ SelectRows(t) \/ CreateReview(t) \/ Post(t) \/ Persist(t)
           \/ Autofix(t) \/ MarkFailed(t)
  <2>1. /\ task[t].at \in TaskStates \ Pushing
        /\ UNCHANGED queueVars /\ loop' = loop /\ Kept
    BY <1>2 DEF Acquire, SelectRows, CreateReview, Post, Persist, Autofix, MarkFailed,
       TaskStates, Pushing, Kept
  <2>2. /\ task'[t].at \in TaskStates \ Pushing /\ task'[t].job = task[t].job
        /\ \A u \in Tasks : u # t => task'[u] = task[u]
    BY <1>1, <1>2, GotoLemma, SelectLemma DEF TaskStates, Pushing,
       Acquire, SelectRows, CreateReview, Post, Persist, Autofix, MarkFailed
  <2> QED
    BY <2>1, <2>2, QuietTask DEF HolderStep
<1>3. CASE DuplicateKey(t) \/ CreateFails(t) \/ PersistFails(t) \/ AutofixFails(t) \/ Ack(t)
  <2>1. /\ task[t].at \in TaskStates \ Pushing
        /\ UNCHANGED queueVars /\ loop' = loop /\ Kept
    BY <1>3 DEF DuplicateKey, CreateFails, PersistFails, AutofixFails, Ack,
       TaskStates, Pushing, Kept
  <2>2. \E hasReviewId \in BOOLEAN, error \in Errors : Raise(t, hasReviewId, error)
    BY <1>3 DEF DuplicateKey, CreateFails, PersistFails, AutofixFails, Ack, Errors
  <2>3. /\ task'[t].at \in {"mark", "settle"} /\ task'[t].job = task[t].job
        /\ \A u \in Tasks : u # t => task'[u] = task[u]
    BY <1>1, <2>1, <2>2, RaiseLemma DEF TaskStates
  <2>4. task'[t].at \in TaskStates \ Pushing
    BY <2>3 DEF TaskStates, Pushing
  <2> QED
    BY <2>1, <2>3, <2>4, QuietTask DEF HolderStep
<1>4. CASE RequeueRemove(t) \/ DeadLetterRemove(t)
  <2> DEFINE h == <<"task", t>>
  <2>1. /\ task[t].at = "settle" /\ loop' = loop /\ Kept
        /\ RemoveInFlight(Dump(task[t].job))
    BY <1>4 DEF RequeueRemove, DeadLetterRemove, Kept
  <2>2. /\ task'[t].at \in Pushing /\ task'[t].job = task[t].job
        /\ \A u \in Tasks : u # t => task'[u] = task[u]
    BY <1>1, <1>4, GotoLemma DEF RequeueRemove, DeadLetterRemove, TaskStates, Pushing
  <2>3. TaskPhase(t) = "listed" /\ TaskPhase(t)' = "push"
    BY <2>1, <2>2 DEF TaskPhase, Pushing
  <2>4. /\ OthersSame(h) /\ h \in Holding
        /\ Phase(h) = "listed" /\ Phase(h)' = "push"
        /\ Bytes(h) = Dump(task[t].job) /\ Bytes(h)' = Dump(task'[t].job)
    BY <2>1, <2>2, <2>3, TaskView
  <2>5. /\ Removed(processing', processing, Dump(task[t].job))
        /\ pending' = pending /\ deadLetter' = deadLetter
    BY <1>1, <2>1, RemoveStep
  <2> HIDE DEF h
  <2>6. Bytes(h)' = Bytes(h)
    BY <2>2, <2>4
  <2>7. RemovedBy(h)
    BY <2>1, <2>4, <2>5, <2>6 DEF RemovedBy
  <2> QED
    BY <2>4, <2>7 DEF HolderStep
<1>5. CASE RequeuePush(t) \/ DeadLetterPush(t)
  <2> DEFINE h == <<"task", t>>
  <2>1. /\ task[t].at \in Pushing /\ Finish(t) /\ loop' = loop /\ Kept
        /\ task[t].job \in ParsedJobs
    BY <1>1, <1>5 DEF RequeuePush, DeadLetterPush, Pushing, Kept
  <2>2. task'[t].at = "none" /\ \A u \in Tasks : u # t => task'[u] = task[u]
    BY <1>1, <2>1, FinishLemma DEF NoTask
  <2>3. TaskPhase(t) = "push" /\ TaskPhase(t)' = "none"
    BY <2>1, <2>2 DEF TaskPhase, Pushing
  <2>4. /\ OthersSame(h) /\ h \in Holding
        /\ Phase(h) = "push" /\ Phase(h)' = "none"
        /\ Bytes(h) = Dump(task[t].job)
    BY <2>1, <2>2, <2>3, TaskView
  <2>5. \/ /\ \E e \in Entries : /\ Pushed(pending', pending, e)
                                 /\ e.id = task[t].job.id /\ e.form = "native"
           /\ deadLetter' = deadLetter /\ processing' = processing
        \/ /\ \E e \in DeadEntries : Pushed(deadLetter', deadLetter, e) /\ e.id = task[t].job.id
           /\ pending' = pending /\ processing' = processing
    <3>1. CASE PushRetried(task[t].job)
      BY <1>1, <2>1, <3>1, PushRetriedStep
    <3>2. CASE \E reason \in Reasons : PushDead(task[t].job, reason)
      BY <1>1, <2>1, <3>2, PushDeadStep
    <3>3. PushExhausted(task[t].job) => PushDead(task[t].job, "retries")
      BY PushExhaustedStep
    <3> QED
      BY <1>5, <3>1, <3>2, <3>3 DEF RequeuePush, DeadLetterPush, PushRequeue, Reasons
  <2> HIDE DEF h
  <2>6. HeldId(h) = task[t].job.id
    BY <2>4 DEF HeldId, Dump
  <2>7. PushedBy(h)
    BY <2>1, <2>4, <2>5, <2>6 DEF PushedBy
  <2> QED
    BY <2>4, <2>7 DEF HolderStep
<1>6. CASE RedisFailsInTask(t)
  <2> DEFINE h == <<"task", t>>
  <2>1. /\ task[t].at # "none" /\ Finish(t) /\ loop' = loop /\ UNCHANGED queueVars
        /\ submitted' = submitted /\ abandoned' = abandoned \cup {IdOf(t)}
    BY <1>6 DEF RedisFailsInTask
  <2>2. task'[t].at = "none" /\ \A u \in Tasks : u # t => task'[u] = task[u]
    BY <1>1, <2>1, FinishLemma DEF NoTask
  <2>3. TaskPhase(t) # "none" /\ TaskPhase(t)' = "none"
    BY <2>1, <2>2 DEF TaskPhase
  <2>4. /\ OthersSame(h) /\ h \in Holding
        /\ Phase(h) # "none" /\ Phase(h)' = "none"
        /\ Bytes(h) = Dump(task[t].job)
    BY <2>1, <2>2, <2>3, TaskView
  <2> HIDE DEF h
  <2>5. HeldId(h) = IdOf(t)
    BY <2>4 DEF HeldId, Dump, IdOf
  <2>6. DroppedBy(h)
    BY <2>1, <2>4, <2>5 DEF DroppedBy, Holds
  <2> QED
    BY <2>4, <2>6 DEF HolderStep
<1> QED
  BY <1>2, <1>3, <1>4, <1>5, <1>6 DEF TaskStep

(* A loop that goes round, sleeps or stops holds nothing.                   *)
LEMMA RoundLemma ==
  ASSUME LoopType, NEW w \in Loops, NextRound(w) \/ Backoff(w)
  PROVE  /\ LoopPhase(w)' = "none"
         /\ \A v \in Loops : v # w => loop'[v] = loop[v]
BY DEF LoopType, NextRound, Backoff, LoopPhase

LEMMA LoopKinds ==
  ASSUME TypeInv, Custody, NEW w \in Loops, LoopStep(w) \/ RedisFailsInLoop(w) \/ ReplyLost(w)
  PROVE  HolderStep
<1> USE DEF dbVars, historyVars
<1> DEFINE h == <<"loop", w>>
           raw == Last(pending)
<1>1. LoopType /\ TaskType /\ QueueTypeOK
  BY DEF TypeInv
<1>2. CASE DequeueJob(w)
  <2>1. PICK t \in Tasks : /\ task[t] = NoTask
                           /\ task'[t].at = "waiting" /\ task'[t].job = Parse(raw)
                           /\ \A u \in Tasks : u # t => task'[u] = task[u]
    BY <1>1, <1>2, SpawnLemma
  <2> DEFINE g == <<"task", t>>
  <2>2. /\ Moved(raw) /\ raw \in Entries /\ abandoned' = abandoned
    BY <1>1, <1>2, TransferStep DEF DequeueJob, Moved
  <2>3. \A v \in Loops : loop'[v] = loop[v]
                         \/ (LoopPhase(v) = "none" /\ LoopPhase(v)' = "none")
    <3>1. LoopPhase(w) = "none"
      BY <1>2 DEF DequeueJob, LoopPhase
    <3> QED
      BY <1>1, <1>2, <3>1, RoundLemma DEF DequeueJob
  <2>4. TaskPhase(t) = "none" /\ TaskPhase(t)' = "listed"
    BY <2>1 DEF TaskPhase, NoTask, Pushing
  <2>5. /\ OthersSame(g) /\ g \in Holding
        /\ Phase(g) = "none" /\ Phase(g)' = "listed"
        /\ Bytes(g)' = Dump(task'[t].job)
    BY <2>1, <2>3, <2>4, TaskView
  <2>6. raw.id \in Tracked => Dump(Parse(raw)) = raw
    <3>1. PICK k \in 1..Len(pending) : pending[k] = raw
      BY <2>2 DEF Moved, Popped
    <3>2. raw.form # "malformed" /\ (raw.id \in Tracked => raw.form # "extended")
      BY <1>2, <3>1 DEF DequeueJob, Custody, FormsKnown
    <3> QED
      BY <2>2, <3>2 DEF Entries, Forms, Dump, Parse
  <2> HIDE DEF g
  <2>7. HeldId(g)' = raw.id /\ (raw.id \in Tracked => Bytes(g)' = raw)
    BY <2>1, <2>5, <2>6 DEF HeldId, Dump, Parse
  <2>8. Taken(g, raw)
    BY <2>2, <2>5, <2>7 DEF Taken, Holds
  <2> QED
    BY <2>5, <2>8 DEF HolderStep
<1>3. CASE DequeueMalformed(w)
  <2>1. Moved(raw) /\ abandoned' = abandoned
    BY <1>1, <1>3, TransferStep DEF DequeueMalformed, Moved
  <2>2. /\ loop[w].at = "poll" /\ task' = task
        /\ loop'[w] = [at |-> "unparsed", raw |-> raw]
        /\ \A v \in Loops : v # w => loop'[v] = loop[v]
    BY <1>1, <1>3 DEF DequeueMalformed, LoopType
  <2>3. LoopPhase(w) = "none" /\ LoopPhase(w)' = "listed" /\ loop'[w].raw = raw
    BY <2>2 DEF LoopPhase
  <2>4. /\ OthersSame(h) /\ h \in Holding
        /\ Phase(h) = "none" /\ Phase(h)' = "listed" /\ Bytes(h)' = raw
    BY <2>2, <2>3, LoopView
  <2> HIDE DEF h
  <2>5. Taken(h, raw)
    BY <2>1, <2>4 DEF Taken, Holds, HeldId
  <2> QED
    BY <2>4, <2>5 DEF HolderStep
<1>4. CASE MalformedRemove(w)
  <2>1. /\ loop[w].at = "unparsed" /\ task' = task /\ Kept
        /\ RemoveInFlight(loop[w].raw) /\ loop' = [loop EXCEPT ![w].at = "unparsed_push"]
    BY <1>4 DEF MalformedRemove, Kept
  <2>2. /\ loop'[w].at = "unparsed_push" /\ loop'[w].raw = loop[w].raw
        /\ \A v \in Loops : v # w => loop'[v] = loop[v]
    BY <1>1, <2>1, ParsingLemma DEF LoopType
  <2>3. LoopPhase(w) = "listed" /\ LoopPhase(w)' = "push"
    BY <2>1, <2>2 DEF LoopPhase
  <2>4. /\ OthersSame(h) /\ h \in Holding
        /\ Phase(h) = "listed" /\ Phase(h)' = "push"
        /\ Bytes(h) = loop[w].raw /\ Bytes(h)' = loop'[w].raw
    BY <2>1, <2>2, <2>3, LoopView
  <2>5. /\ Removed(processing', processing, loop[w].raw)
        /\ pending' = pending /\ deadLetter' = deadLetter
    BY <1>1, <2>1, RemoveStep
  <2> HIDE DEF h
  <2>6. RemovedBy(h)
    BY <2>1, <2>2, <2>4, <2>5 DEF RemovedBy
  <2> QED
    BY <2>4, <2>6 DEF HolderStep
<1>5. CASE MalformedPush(w)
  <2>1. /\ loop[w].at = "unparsed_push" /\ task' = task /\ Kept
        /\ PushDead(Parse(loop[w].raw), "malformed") /\ NextRound(w)
    BY <1>5 DEF MalformedPush, Kept
  <2>2. /\ Parse(loop[w].raw) \in ParsedJobs /\ Parse(loop[w].raw).id = loop[w].raw.id
    BY <1>1, <2>1, ParsingLemma, ParseLemma
  <2>3. LoopPhase(w) = "push" /\ LoopPhase(w)' = "none"
        /\ \A v \in Loops : v # w => loop'[v] = loop[v]
    BY <1>1, <2>1, RoundLemma DEF LoopPhase
  <2>4. /\ OthersSame(h) /\ h \in Holding
        /\ Phase(h) = "push" /\ Phase(h)' = "none" /\ Bytes(h) = loop[w].raw
    BY <2>1, <2>3, LoopView
  <2>5. /\ pending' = pending /\ processing' = processing
        /\ \E e \in DeadEntries : Pushed(deadLetter', deadLetter, e) /\ e.id = loop[w].raw.id
    BY <1>1, <2>1, <2>2, PushDeadStep DEF Reasons
  <2> HIDE DEF h
  <2>6. PushedBy(h)
    BY <2>1, <2>4, <2>5 DEF PushedBy, HeldId
  <2> QED
    BY <2>4, <2>6 DEF HolderStep
<1>6. CASE DequeueTimeout(w) \/ DequeueRaises(w) \/ WakeUp(w)
  <2>1. /\ loop[w].at \in {"poll", "sleep"} /\ task' = task /\ UNCHANGED queueVars /\ Kept
        /\ NextRound(w) \/ Backoff(w)
    BY <1>6 DEF DequeueTimeout, DequeueRaises, WakeUp, Kept
  <2>2. LoopPhase(w) = "none" /\ LoopPhase(w)' = "none"
        /\ \A v \in Loops : v # w => loop'[v] = loop[v]
    BY <1>1, <2>1, RoundLemma DEF LoopPhase
  <2>3. /\ OthersSame(h) /\ Phase(h) = "none" /\ Phase(h)' = "none"
    BY <2>1, <2>2, LoopView
  <2> HIDE DEF h
  <2>4. AllSame
    BY <2>3 DEF AllSame, OthersSame, Same, Holds
  <2> QED
    BY <2>1, <2>4 DEF HolderStep, Quiet
<1>7. CASE RedisFailsInLoop(w)
  <2>1. /\ loop[w].at \in {"unparsed", "unparsed_push"} /\ task' = task
        /\ UNCHANGED queueVars /\ submitted' = submitted
        /\ abandoned' = abandoned \cup {loop[w].raw.id} /\ Backoff(w)
    BY <1>7 DEF RedisFailsInLoop, Parsing
  <2>2. LoopPhase(w) # "none" /\ LoopPhase(w)' = "none"
        /\ \A v \in Loops : v # w => loop'[v] = loop[v]
    BY <1>1, <2>1, RoundLemma DEF LoopPhase
  <2>3. /\ OthersSame(h) /\ h \in Holding
        /\ Phase(h) # "none" /\ Phase(h)' = "none" /\ Bytes(h) = loop[w].raw
    BY <2>1, <2>2, LoopView
  <2> HIDE DEF h
  <2>4. DroppedBy(h)
    BY <2>1, <2>3 DEF DroppedBy, Holds, HeldId
  <2> QED
    BY <2>3, <2>4 DEF HolderStep
<1>8. CASE ReplyLost(w)
  <2>1. Moved(raw) /\ abandoned' = abandoned \cup {raw.id}
    BY <1>1, <1>8, TransferStep DEF ReplyLost, Moved
  <2>2. loop[w].at = "poll" /\ task' = task /\ Backoff(w)
    BY <1>8 DEF ReplyLost
  <2>3. LoopPhase(w) = "none" /\ LoopPhase(w)' = "none"
        /\ \A v \in Loops : v # w => loop'[v] = loop[v]
    BY <1>1, <2>2, RoundLemma DEF LoopPhase
  <2>4. /\ OthersSame(h) /\ Phase(h) = "none" /\ Phase(h)' = "none"
    BY <2>2, <2>3, LoopView
  <2> HIDE DEF h
  <2>5. AllSame
    BY <2>4 DEF AllSame, OthersSame, Same, Holds
  <2> QED
    BY <2>1, <2>5 DEF HolderStep, TakenByNobody
<1> QED
  BY <1>2, <1>3, <1>4, <1>5, <1>6, <1>7, <1>8 DEF LoopStep

-----------------------------------------------------------------------------
(* What interrupts the process interrupts exactly the holders.              *)
LEMMA WorkLemma ==
  ASSUME TaskType
  PROVE  /\ AtWork = {HeldId(h) : h \in {g \in Holding : Holds(g)}}
         /\ InHandOver = {HeldId(h) : h \in {g \in Holding : Phase(g) = "push"}}
<1>1. \A t \in Tasks : /\ <<"task", t>> \in Holding
                       /\ Phase(<<"task", t>>) = TaskPhase(t)
                       /\ HeldId(<<"task", t>>) = IdOf(t)
  BY DEF Holding, Phase, HeldId, Bytes, Dump, IdOf
<1>2. \A w \in Loops : /\ <<"loop", w>> \in Holding
                       /\ Phase(<<"loop", w>>) = LoopPhase(w)
                       /\ HeldId(<<"loop", w>>) = loop[w].raw.id
  BY DEF Holding, Phase, HeldId, Bytes
<1>3. \A h \in Holding : \/ \E t \in Tasks : h = <<"task", t>>
                         \/ \E w \in Loops : h = <<"loop", w>>
  BY DEF Holding
<1>4. \A t \in Tasks : t \in Active <=> TaskPhase(t) # "none"
  <2> SUFFICES ASSUME NEW t \in Tasks
               PROVE  task[t] # NoTask <=> task[t].at # "none"
    BY DEF Active, TaskPhase
  <2>1. task[t] \in {NoTask} \cup RunningTasks
    BY DEF TaskType
  <2>2. CASE task[t] = NoTask
    BY <2>2 DEF NoTask
  <2>3. CASE task[t] # NoTask
    <3>1. task[t].at \in TaskStates
      BY <2>1, <2>3 DEF RunningTasks
    <3> QED
      BY <2>3, <3>1 DEF TaskStates
  <2> QED
    BY <2>2, <2>3
<1>5. \A w \in Loops : w \in Parsing <=> LoopPhase(w) # "none"
  BY DEF Parsing, LoopPhase
<1>6. \A t \in Tasks : TaskPhase(t) = "push" <=> task[t].at \in Pushing
  BY DEF TaskPhase, Pushing
<1>7. \A w \in Loops : LoopPhase(w) = "push" <=> loop[w].at = "unparsed_push"
  BY DEF LoopPhase
<1> DEFINE Held == {HeldId(h) : h \in {g \in Holding : Holds(g)}}
           Hand == {HeldId(h) : h \in {g \in Holding : Phase(g) = "push"}}
<1>8. AtWork \subseteq Held
  <2>1. \A t \in Active : IdOf(t) \in Held
    BY <1>1, <1>4 DEF Active, Holds
  <2>2. \A w \in Parsing : loop[w].raw.id \in Held
    BY <1>2, <1>5 DEF Parsing, Holds
  <2> QED
    BY <2>1, <2>2 DEF AtWork
<1>9. Held \subseteq AtWork
  <2> SUFFICES ASSUME NEW h \in Holding, Holds(h)
               PROVE  HeldId(h) \in AtWork
    OBVIOUS
  <2>1. CASE \E t \in Tasks : h = <<"task", t>>
    BY <1>1, <1>4, <2>1 DEF AtWork, Holds
  <2>2. CASE \E w \in Loops : h = <<"loop", w>>
    BY <1>2, <1>5, <2>2 DEF AtWork, Holds
  <2> QED
    BY <1>3, <2>1, <2>2
<1>10. InHandOver \subseteq Hand
  <2>1. \A t \in Active : task[t].at \in Pushing => IdOf(t) \in Hand
    BY <1>1, <1>6 DEF Active
  <2>2. \A w \in Loops : loop[w].at = "unparsed_push" => loop[w].raw.id \in Hand
    BY <1>2, <1>7
  <2> QED
    BY <2>1, <2>2 DEF InHandOver, Pushing
<1>11. Hand \subseteq InHandOver
  <2> SUFFICES ASSUME NEW h \in Holding, Phase(h) = "push"
               PROVE  HeldId(h) \in InHandOver
    OBVIOUS
  <2>1. ASSUME NEW t \in Tasks, h = <<"task", t>>
        PROVE  HeldId(h) \in InHandOver
    BY <1>1, <1>4, <1>6, <2>1 DEF InHandOver, Pushing
  <2>2. ASSUME NEW w \in Loops, h = <<"loop", w>>
        PROVE  HeldId(h) \in InHandOver
    BY <1>2, <1>7, <2>2 DEF InHandOver
  <2> QED
    BY <1>3, <2>1, <2>2
<1> QED
  BY <1>8, <1>9, <1>10, <1>11

(* The loops of a process that is down have stopped, outside dequeue().     *)
DownIsIdle == ~up => \A w \in Loops : loop[w] = [at |-> "stopped"]

LEMMA DownStep ==
  ASSUME TypeInv, DownIsIdle, [Next]_vars
  PROVE  DownIsIdle'
<1> USE DEF dbVars, processVars, historyVars
<1>1. ASSUME up' = up, loop' = loop
      PROVE  DownIsIdle'
  BY <1>1 DEF DownIsIdle
<1>2. CASE \E j \in Jobs : Submit(j)
  BY <1>1, <1>2 DEF Submit
<1>3. CASE Signal \/ UNCHANGED vars
  BY <1>1, <1>3 DEF Signal, vars
<1>4. CASE Start
  BY <1>4 DEF Start, DownIsIdle
<1>5. CASE Exit \/ Crash
  BY <1>5 DEF Exit, Crash, ProcessEnds, DownIsIdle
<1>6. ASSUME NEW w \in Loops, LoopStep(w) \/ RedisFailsInLoop(w) \/ ReplyLost(w)
      PROVE  DownIsIdle'
  <2>1. loop[w].at # "stopped" /\ up' = up
    BY <1>6 DEF LoopStep, RedisFailsInLoop, ReplyLost, DequeueJob, DequeueMalformed,
       MalformedRemove, MalformedPush, DequeueTimeout, DequeueRaises, WakeUp, Parsing
  <2> QED
    BY <2>1 DEF DownIsIdle
<1>7. ASSUME NEW t \in Tasks, TaskStep(t) \/ RedisFailsInTask(t)
      PROVE  DownIsIdle'
  <2>1. up' = up /\ loop' = loop
    BY <1>7 DEF TaskStep, RedisFailsInTask, Acquire, SelectRows, CreateReview, DuplicateKey,
       CreateFails, Post, Persist, PersistFails, Autofix, AutofixFails, Ack, MarkFailed,
       RequeueRemove, RequeuePush, DeadLetterRemove, DeadLetterPush
  <2> QED
    BY <1>1, <2>1
<1> QED
  BY <1>2, <1>3, <1>4, <1>5, <1>6, <1>7 DEF Next

LEMMA NextKinds ==
  ASSUME TypeInv, Custody, DownIsIdle, [Next]_vars
  PROVE  HolderStep
<1> USE DEF dbVars, processVars, historyVars
<1>1. ASSUME task' = task, loop' = loop
      PROVE  AllSame
  BY <1>1 DEF AllSame, Same, Phase, Bytes, TaskPhase, LoopPhase
<1>2. ASSUME NEW j \in Jobs, Submit(j)
      PROVE  HolderStep
  BY <1>1, <1>2 DEF Submit, HolderStep, Submitted
<1>3. CASE Signal \/ UNCHANGED vars
  BY <1>1, <1>3 DEF Signal, vars, queueVars, HolderStep, Quiet, Kept
<1>4. CASE Start
  <2>1. /\ task' = task /\ UNCHANGED queueVars /\ Kept /\ ~up
        /\ loop' = [w \in Loops |-> [at |-> "poll"]]
    BY <1>4 DEF Start, Kept
  <2>2. \A w \in Loops : LoopPhase(w) = "none" /\ LoopPhase(w)' = "none"
    BY <2>1 DEF DownIsIdle, LoopPhase
  <2>3. ASSUME NEW t \in Tasks
        PROVE  Same(<<"task", t>>)
    BY <2>1 DEF Same, Phase, Bytes, TaskPhase
  <2>4. ASSUME NEW w \in Loops
        PROVE  Same(<<"loop", w>>)
    BY <2>2 DEF Same, Phase, Holds
  <2>5. AllSame
    BY <2>3, <2>4 DEF AllSame, Holding
  <2> QED
    BY <2>1, <2>5 DEF HolderStep, Quiet
<1>5. CASE Exit \/ Crash
  <2>1. /\ task' = [t \in Tasks |-> NoTask] /\ loop' = [w \in Loops |-> [at |-> "stopped"]]
        /\ abandoned' = abandoned \cup AtWork
        /\ UNCHANGED queueVars /\ submitted' = submitted
    BY <1>5 DEF Exit, Crash, ProcessEnds
  <2>2. \A t \in Tasks : TaskPhase(t)' = "none"
    BY <2>1 DEF TaskPhase, NoTask
  <2>3. \A w \in Loops : LoopPhase(w)' = "none"
    BY <2>1 DEF LoopPhase
  <2>4. \A h \in Holding : Phase(h)' = "none"
    BY <2>2, <2>3 DEF Holding, Phase
  <2>5. AtWork = {HeldId(h) : h \in {g \in Holding : Holds(g)}}
    BY WorkLemma DEF TypeInv
  <2> QED
    BY <2>1, <2>4, <2>5 DEF HolderStep, AllDropped
<1>6. ASSUME NEW w \in Loops, LoopStep(w) \/ RedisFailsInLoop(w) \/ ReplyLost(w)
      PROVE  HolderStep
  BY <1>6, LoopKinds
<1>7. ASSUME NEW t \in Tasks, TaskStep(t) \/ RedisFailsInTask(t)
      PROVE  HolderStep
  BY <1>7, TaskKinds
<1> QED
  BY <1>2, <1>3, <1>4, <1>5, <1>6, <1>7 DEF Next

-----------------------------------------------------------------------------
(* The theorems.                                                            *)

CustodyInv == TypeInv /\ Custody /\ Accounted /\ DownIsIdle

LEMMA CustodyInit ==
  Init => CustodyInv
<1> SUFFICES ASSUME Init
             PROVE  CustodyInv
  OBVIOUS
<1>1. TypeInv
  BY TypeInit
<1>2. /\ pending = <<>> /\ processing = <<>> /\ submitted = {}
      /\ Len(pending) = 0 /\ Len(processing) = 0
  BY DEF Init, QueueInit
<1>3. Ids(pending) = {} /\ Ids(processing) = {}
  BY <1>2 DEF Ids
<1>4. \A t \in Tasks : TaskPhase(t) = "none"
  BY DEF Init, TaskPhase, NoTask
<1>5. \A w \in Loops : LoopPhase(w) = "none"
  BY DEF Init, LoopPhase
<1>6. \A h \in Holding : ~Holds(h)
  BY <1>4, <1>5 DEF Holding, Holds, Phase
<1>7. Custody
  BY <1>2, <1>3, <1>6 DEF Custody, OneList, UniqueIn, OneHolder, HolderAndLists,
     OnlySubmitted, FormsKnown
<1>8. Accounted
  BY <1>2, <1>3 DEF Accounted, NothingMissing, NothingStranded
<1>9. DownIsIdle
  BY DEF Init, DownIsIdle
<1> QED
  BY <1>1, <1>7, <1>8, <1>9 DEF CustodyInv

LEMMA CustodyHolds == Spec => []CustodyInv
<1>1. CustodyInv /\ [Next]_vars => CustodyInv'
  <2> SUFFICES ASSUME CustodyInv, [Next]_vars
               PROVE  CustodyInv'
    OBVIOUS
  <2>1. HolderStep
    BY NextKinds DEF CustodyInv
  <2> QED
    BY <2>1, HolderStepKeeps, TypeStep, DownStep DEF CustodyInv
<1> QED
  BY <1>1, CustodyInit, PTL DEF Spec

(* No two tasks work on the same job, and a task's job is in the processing *)
(* list until the task itself removes it, for any number of jobs, loops,    *)
(* tasks, crashes and restarts (worker.py 214-224, 157-161; task_queue.py   *)
(* 145-168).                                                                *)
THEOREM OneTaskEach == Spec => []OneTaskPerJob
<1>1. CustodyInv => OneTaskPerJob
  <2> SUFFICES ASSUME CustodyInv
               PROVE  OneTaskPerJob
    OBVIOUS
  <2>1. \A t \in Active : /\ t \in Tasks /\ <<"task", t>> \in Holding
                          /\ Phase(<<"task", t>>) = TaskPhase(t)
                          /\ Bytes(<<"task", t>>).id = IdOf(t)
                          /\ HeldId(<<"task", t>>) = IdOf(t)
    BY DEF Active, Holding, Phase, HeldId, Bytes, Dump, IdOf
  <2>2. ASSUME NEW t \in Active
        PROVE  /\ task[t].at # "none" /\ IdOf(t) \in Jobs /\ Holds(<<"task", t>>)
               /\ TaskPhase(t) = IF task[t].at \in Pushing THEN "push" ELSE "listed"
    <3>1. task[t] \in {NoTask} \cup RunningTasks /\ task[t] # NoTask /\ t \in Tasks
      BY DEF CustodyInv, TypeInv, TaskType, Active
    <3>2. task[t].at # "none"
      BY <3>1 DEF RunningTasks, TaskStates
    <3>3. IdOf(t) \in Jobs
      BY <3>1, <3>2, RunningLemma DEF CustodyInv, TypeInv
    <3> QED
      BY <2>1, <3>2, <3>3 DEF TaskPhase, Holds
  <2>3. ASSUME NEW t \in Active, NEW u \in Active, t # u, IdOf(t) = IdOf(u)
        PROVE  IdOf(t) \in Extended
    <3>1. <<"task", t>> # <<"task", u>>
      BY <2>3
    <3>2. IdOf(t) \notin Tracked
      BY <2>1, <2>2, <2>3, <3>1 DEF CustodyInv, Custody, OneHolder
    <3> QED
      BY <2>2, <3>2 DEF Tracked
  <2>4. ASSUME NEW t \in Active, IdOf(t) \notin Extended
        PROVE  IdOf(t) \in Ids(processing) <=> task[t].at \notin Pushing
    <3>1. HeldId(<<"task", t>>) \in Tracked
      BY <2>1, <2>2, <2>4 DEF Tracked
    <3>2. CASE task[t].at \in Pushing
      BY <2>1, <2>2, <3>1, <3>2 DEF CustodyInv, Custody, HolderAndLists
    <3>3. CASE task[t].at \notin Pushing
      <4>1. PICK i \in 1..Len(processing) : processing[i] = Bytes(<<"task", t>>)
        BY <2>1, <2>2, <3>1, <3>3 DEF CustodyInv, Custody, HolderAndLists
      <4> QED
        BY <2>1, <3>3, <4>1 DEF Ids
    <3> QED
      BY <3>2, <3>3
  <2> QED
    BY <2>3, <2>4 DEF OneTaskPerJob, Pushing
<1> QED
  BY <1>1, CustodyHolds, PTL

(* A job that nothing interrupted is never lost and never left behind in    *)
(* the processing list, however many crashes, shutdowns and failures of     *)
(* Redis interrupt others (worker.py 63-239, 302-315).                      *)
THEOREM OnlyInterruptedSuffer == Spec => []OnlyAbandonedSuffer
<1>1. CustodyInv => OnlyAbandonedSuffer
  <2> SUFFICES ASSUME CustodyInv, NEW j \in Tracked, j \in Lost \cup Stranded
               PROVE  j \in abandoned
    BY DEF OnlyAbandonedSuffer
  <2>1. /\ AtWork = {HeldId(h) : h \in {g \in Holding : Holds(g)}}
        /\ InHandOver = {HeldId(h) : h \in {g \in Holding : Phase(g) = "push"}}
    BY WorkLemma DEF CustodyInv, TypeInv
  <2>2. CASE j \in Lost
    BY <2>1, <2>2 DEF CustodyInv, Accounted, NothingMissing, Lost
  <2>3. CASE j \in Stranded
    BY <2>1, <2>3 DEF CustodyInv, Accounted, NothingStranded, Stranded
  <2> QED
    BY <2>2, <2>3
<1> QED
  BY <1>1, CustodyHolds, PTL

(***************************************************************************)
(* The worker implements the abstract queue, for jobs with bytes of        *)
(* another version, too: a copy of one may stay in the processing list,    *)
(* but it has one holder at most, and does not wait, nor is it buried,     *)
(* while it is held.                                                       *)
(***************************************************************************)

Held == {HeldId(h) : h \in {g \in Holding : Holds(g)}}

HeldApart == Held \cap (Ids(pending) \cup Ids(deadLetter)) = {}

HeldByOne == \A g, h \in Holding : Holds(g) /\ Holds(h) /\ HeldId(g) = HeldId(h) => g = h

BuriedApart == Ids(pending) \cap Ids(deadLetter) = {}

SubmittedFirst ==
    Ids(pending) \cup Ids(processing) \cup Ids(deadLetter) \cup Held \subseteq submitted

Delivery == OnceIn(pending) /\ HeldApart /\ HeldByOne /\ BuriedApart /\ SubmittedFirst

(* Holders that stay as they are hold what they held.                       *)
LEMMA SameHeld ==
  ASSUME AllSame
  PROVE  Held' = Held /\ (HeldByOne => HeldByOne')
<1>1. \A h \in Holding : /\ Holds(h)' <=> Holds(h)
                         /\ Holds(h) => HeldId(h)' = HeldId(h)
  BY DEF AllSame, Same, Holds, HeldId
<1>2. Held' = Held
  BY <1>1 DEF Held
<1>3. HeldByOne => HeldByOne'
  BY <1>1 DEF HeldByOne
<1> QED
  BY <1>2, <1>3

(* One holder comes, stays or goes; the others are as before.               *)
LEMMA OthersHeld ==
  ASSUME NEW h \in Holding, OthersSame(h), HeldByOne
  PROVE  /\ ~Holds(h) /\ Holds(h)' /\ HeldId(h)' \notin Held
              => Held' = Held \cup {HeldId(h)'} /\ HeldByOne'
         /\ Holds(h) /\ Holds(h)' /\ HeldId(h)' = HeldId(h) => Held' = Held /\ HeldByOne'
         /\ Holds(h) /\ ~Holds(h)'
              => /\ Held = Held' \cup {HeldId(h)} /\ HeldByOne'
                 /\ HeldId(h) \notin Held'
<1>1. \A g \in Holding : g # h => /\ Holds(g)' <=> Holds(g)
                                  /\ Holds(g) => HeldId(g)' = HeldId(g)
  BY DEF OthersSame, Same, Holds, HeldId
<1>2. \A g \in Holding : Holds(g) => HeldId(g) \in Held
  BY DEF Held
<1>3. ASSUME ~Holds(h), Holds(h)', HeldId(h)' \notin Held
      PROVE  Held' = Held \cup {HeldId(h)'} /\ HeldByOne'
  <2>1. Held' = Held \cup {HeldId(h)'}
    BY <1>1, <1>3 DEF Held
  <2>2. HeldByOne'
    BY <1>1, <1>2, <1>3 DEF HeldByOne
  <2> QED
    BY <2>1, <2>2
<1>4. ASSUME Holds(h), Holds(h)', HeldId(h)' = HeldId(h)
      PROVE  Held' = Held /\ HeldByOne'
  <2>1. \A g \in Holding : (Holds(g)' <=> Holds(g)) /\ (Holds(g) => HeldId(g)' = HeldId(g))
    BY <1>1, <1>4
  <2>2. Held' = Held
    BY <2>1 DEF Held
  <2>3. HeldByOne'
    BY <2>1 DEF HeldByOne
  <2> QED
    BY <2>2, <2>3
<1>5. ASSUME Holds(h), ~Holds(h)'
      PROVE  Held = Held' \cup {HeldId(h)} /\ HeldByOne' /\ HeldId(h) \notin Held'
  <2>1. Held = Held' \cup {HeldId(h)}
    BY <1>1, <1>5 DEF Held
  <2>2. HeldByOne'
    BY <1>1, <1>5 DEF HeldByOne
  <2>3. HeldId(h) \notin Held'
    <3>1. \A g \in Holding : Holds(g)' => g # h /\ HeldId(g)' = HeldId(g) /\ Holds(g)
      BY <1>1, <1>5
    <3>2. \A g \in Holding : Holds(g)' => HeldId(g)' # HeldId(h)
      BY <1>5, <3>1 DEF HeldByOne
    <3> QED
      BY <3>2 DEF Held
  <2> QED
    BY <2>1, <2>2, <2>3
<1> QED
  BY <1>3, <1>4, <1>5

-----------------------------------------------------------------------------
(* What a step is to the abstract queue: a job goes somewhere, or is        *)
(* dropped with others, or none moves.                                      *)

Elsewhere(j) ==
    /\ j \in Ids(pending') <=> j \in Ids(pending)
    /\ j \in Ids(deadLetter') <=> j \in Ids(deadLetter)
    /\ j \in Ids(processing') \cup Held' <=> j \in Ids(processing) \cup Held
    /\ j \in submitted' <=> j \in submitted

Comes(k) ==
    /\ \A j \in Jobs \ {k} : Elsewhere(j)
    /\ k \notin Ids(pending) \cup Ids(deadLetter) \cup Ids(processing) \cup Held \cup submitted
    /\ k \in Ids(pending')

IsDelivered(k) ==
    /\ \A j \in Jobs \ {k} : Elsewhere(j)
    /\ k \in Ids(pending)
    /\ k \notin Ids(pending') \cup Ids(deadLetter') /\ k \in Ids(processing')

Returns(k) ==
    /\ \A j \in Jobs \ {k} : Elsewhere(j)
    /\ k \in Held /\ k \notin Ids(pending) \cup Ids(deadLetter)
    /\ k \in Ids(pending') \cup Ids(deadLetter')

NoneMoves == \A j \in Jobs : Elsewhere(j)

Dropped ==
    /\ UNCHANGED queueVars /\ submitted' = submitted
    /\ Held' \subseteq Held

JobMove ==
    \/ NoneMoves \/ Dropped
    \/ \E k \in Jobs : Comes(k) \/ IsDelivered(k) \/ Returns(k)

LEMMA SubmittedMoves ==
  ASSUME TypeInv, Delivery, NEW j \in Jobs, Submitted(j)
  PROVE  Delivery' /\ Comes(j)
<1>1. /\ processing' = processing /\ deadLetter' = deadLetter
      /\ submitted' = submitted \cup {j} /\ j \notin submitted
  BY PushNewStep DEF Submitted, TypeInv
<1>2. PICK e \in Entries : Pushed(pending', pending, e) /\ e.id = j
  BY PushNewStep DEF Submitted, TypeInv
<1>3. Held' = Held /\ HeldByOne'
  BY SameHeld DEF Submitted, Delivery
<1>4. j \notin Ids(pending) \cup Ids(deadLetter) \cup Ids(processing) \cup Held
  BY <1>1 DEF Delivery, SubmittedFirst
<1>5. Ids(pending') = {j} \cup Ids(pending) /\ OnceIn(pending')
  BY <1>2, <1>4 DEF Pushed, Delivery
<1>6. HeldApart' /\ BuriedApart' /\ SubmittedFirst'
  BY <1>1, <1>3, <1>4, <1>5 DEF Delivery, HeldApart, BuriedApart, SubmittedFirst
<1>7. Comes(j)
  BY <1>1, <1>3, <1>4, <1>5 DEF Comes, Elsewhere
<1> QED
  BY <1>3, <1>5, <1>6, <1>7 DEF Delivery

(* A transfer, whether or not somebody has its job then.                    *)
LEMMA TransferMoves ==
  ASSUME Delivery, NEW raw, raw = Last(pending), Moved(raw),
         HeldByOne', Held' \in {Held, Held \cup {raw.id}}
  PROVE  Delivery' /\ IsDelivered(raw.id)
<1>1. /\ Ids(pending) = {raw.id} \cup Ids(pending') /\ raw.id \notin Ids(pending')
      /\ OnceIn(pending') /\ Ids(processing') = {raw.id} \cup Ids(processing)
      /\ deadLetter' = deadLetter /\ submitted' = submitted
  BY DEF Moved, Popped, Pushed, Delivery
<1>2. raw.id \notin Ids(deadLetter')
  BY <1>1 DEF Delivery, BuriedApart
<1>3. HeldApart' /\ BuriedApart' /\ SubmittedFirst'
  BY <1>1, <1>2 DEF Delivery, HeldApart, BuriedApart, SubmittedFirst
<1>4. IsDelivered(raw.id)
  BY <1>1, <1>2 DEF IsDelivered, Elsewhere
<1> QED
  BY <1>1, <1>3, <1>4 DEF Delivery

(* An LREM: its job stays in the hands of its holder.                       *)
LEMMA RemovalMoves ==
  ASSUME Delivery, NEW h \in Holding, RemovedBy(h)
  PROVE  Delivery' /\ NoneMoves
<1>1. Holds(h) /\ Holds(h)' /\ HeldId(h)' = HeldId(h)
  BY DEF RemovedBy, Holds, HeldId
<1>2. Held' = Held /\ HeldByOne' /\ HeldId(h) \in Held
  <2>1. Held' = Held /\ HeldByOne'
    BY <1>1, OthersHeld DEF RemovedBy, Delivery
  <2> QED
    BY <1>1, <2>1 DEF Held
<1>3. /\ Ids(processing') \subseteq Ids(processing)
      /\ Ids(processing) \subseteq Ids(processing') \cup {HeldId(h)}
      /\ pending' = pending /\ deadLetter' = deadLetter /\ submitted' = submitted
  BY DEF RemovedBy, Removed, HeldId, Kept
<1>4. OnceIn(pending')
  BY <1>3 DEF Delivery
<1>5. HeldApart' /\ BuriedApart' /\ SubmittedFirst'
  BY <1>2, <1>3 DEF Delivery, HeldApart, BuriedApart, SubmittedFirst
<1>6. NoneMoves
  BY <1>2, <1>3 DEF NoneMoves, Elsewhere
<1> QED
  BY <1>2, <1>4, <1>5, <1>6 DEF Delivery

(* An LPUSH, to the pending or to the dead-letter list.                     *)
LEMMA PushMoves ==
  ASSUME Delivery, NEW h \in Holding, PushedBy(h)
  PROVE  Delivery' /\ Returns(HeldId(h))
<1> DEFINE k == HeldId(h)
<1>1. Holds(h) /\ ~Holds(h)'
  BY DEF PushedBy, Holds
<1>2. Held = Held' \cup {k} /\ HeldByOne' /\ k \notin Held'
  BY <1>1, OthersHeld DEF PushedBy, Delivery
<1> HIDE DEF k
<1>3. processing' = processing /\ submitted' = submitted
  BY DEF PushedBy, Kept
<1>4. k \notin Ids(pending) \cup Ids(deadLetter) /\ k \in submitted
  BY <1>2 DEF Delivery, HeldApart, SubmittedFirst
<1>5. \/ /\ Ids(pending') = {k} \cup Ids(pending) /\ OnceIn(pending')
         /\ deadLetter' = deadLetter
      \/ /\ Ids(deadLetter') = {k} \cup Ids(deadLetter)
         /\ pending' = pending /\ OnceIn(pending')
  <2>1. CASE /\ \E e \in Entries : Pushed(pending', pending, e) /\ e.id = k
             /\ deadLetter' = deadLetter
    BY <1>4, <2>1 DEF Pushed, Delivery
  <2>2. CASE /\ \E e \in DeadEntries : Pushed(deadLetter', deadLetter, e) /\ e.id = k
             /\ pending' = pending
    BY <2>2 DEF Pushed, Delivery
  <2> QED
    BY <2>1, <2>2 DEF PushedBy, k
<1>6. HeldApart' /\ BuriedApart' /\ SubmittedFirst'
  BY <1>2, <1>3, <1>4, <1>5 DEF Delivery, HeldApart, BuriedApart, SubmittedFirst
<1>7. Returns(k)
  BY <1>2, <1>3, <1>4, <1>5 DEF Returns, Elsewhere
<1> QED
  BY <1>2, <1>5, <1>6, <1>7 DEF Delivery, k

(* Holders that let go.                                                     *)
LEMMA DroppedMoves ==
  ASSUME Delivery, Dropped, HeldByOne'
  PROVE  Delivery'
BY DEF Delivery, Dropped, queueVars, HeldApart, BuriedApart, SubmittedFirst

LEMMA MoveKinds ==
  ASSUME TypeInv, Delivery, HolderStep
  PROVE  Delivery' /\ JobMove
<1>1. CASE Quiet
  <2>1. Held' = Held /\ HeldByOne'
    BY <1>1, SameHeld DEF Quiet, Delivery
  <2>2. Dropped
    BY <1>1, <2>1 DEF Quiet, Dropped, Kept
  <2> QED
    BY <2>1, <2>2, DroppedMoves DEF JobMove
<1>2. ASSUME NEW j \in Jobs, Submitted(j)
      PROVE  Delivery' /\ JobMove
  BY <1>2, SubmittedMoves DEF JobMove
<1> DEFINE raw == Last(pending)
<1>3. Moved(raw) => raw.id \in Jobs
  <2>1. Moved(raw) => raw.id \in Ids(pending)
    BY DEF Moved, Popped
  <2>2. Ids(pending) \subseteq Jobs
    BY DEF Delivery, SubmittedFirst, TypeInv, RestType
  <2> QED
    BY <2>1, <2>2
<1>4. ASSUME NEW h \in Holding, Taken(h, raw)
      PROVE  Delivery' /\ JobMove
  <2>1. /\ Moved(raw) /\ ~Holds(h) /\ OthersSame(h)
        /\ Holds(h)' /\ HeldId(h)' = raw.id
    BY <1>4 DEF Taken, Holds
  <2>2. raw.id \notin Held
    <3>1. raw.id \in Ids(pending)
      BY <2>1 DEF Moved, Popped
    <3> QED
      BY <3>1 DEF Delivery, HeldApart
  <2>3. Held' = Held \cup {raw.id} /\ HeldByOne'
    BY <2>1, <2>2, OthersHeld DEF Delivery
  <2> HIDE DEF raw
  <2>4. Delivery' /\ IsDelivered(raw.id)
    BY <2>1, <2>3, TransferMoves DEF raw
  <2> QED
    BY <1>3, <2>1, <2>4 DEF JobMove
<1>5. CASE TakenByNobody(raw)
  <2>1. Moved(raw) /\ Held' = Held /\ HeldByOne'
    BY <1>5, SameHeld DEF TakenByNobody, Delivery
  <2> HIDE DEF raw
  <2>2. Delivery' /\ IsDelivered(raw.id)
    BY <2>1, TransferMoves DEF raw
  <2> QED
    BY <1>3, <2>1, <2>2 DEF JobMove
<1>6. ASSUME NEW h \in Holding, RemovedBy(h)
      PROVE  Delivery' /\ JobMove
  BY <1>6, RemovalMoves DEF JobMove
<1>7. ASSUME NEW h \in Holding, PushedBy(h)
      PROVE  Delivery' /\ JobMove
  <2>1. Delivery' /\ Returns(HeldId(h))
    BY <1>7, PushMoves
  <2>2. HeldId(h) \in Jobs
    <3>1. HeldId(h) \in Held
      BY <2>1 DEF Returns
    <3> QED
      BY <3>1 DEF Delivery, SubmittedFirst, TypeInv, RestType
  <2> QED
    BY <2>1, <2>2 DEF JobMove
<1>8. ASSUME NEW h \in Holding, DroppedBy(h)
      PROVE  Delivery' /\ JobMove
  <2>1. Held = Held' \cup {HeldId(h)} /\ HeldByOne'
    BY <1>8, OthersHeld DEF DroppedBy, Holds, Delivery
  <2>2. Dropped
    BY <1>8, <2>1 DEF DroppedBy, Dropped
  <2> QED
    BY <2>1, <2>2, DroppedMoves DEF JobMove
<1>9. CASE AllDropped
  <2>1. \A h \in Holding : ~Holds(h)'
    BY <1>9 DEF AllDropped, Holds
  <2>2. Held' = {} /\ HeldByOne'
    BY <2>1 DEF Held, HeldByOne
  <2>3. Dropped
    BY <1>9, <2>2 DEF AllDropped, Dropped
  <2> QED
    BY <2>2, <2>3, DroppedMoves DEF JobMove
<1> QED
  BY <1>1, <1>2, <1>4, <1>5, <1>6, <1>7, <1>8, <1>9 DEF HolderStep

-----------------------------------------------------------------------------
(* The refinement.                                                          *)

Place == [j \in Jobs |-> PlaceOf(j)]

HeldIsAtWork == AtWork = Held

LEMMA PlaceStays ==
  ASSUME HeldIsAtWork, HeldIsAtWork', NEW j, Elsewhere(j)
  PROVE  PlaceOf(j)' = PlaceOf(j)
BY DEF HeldIsAtWork, Elsewhere, PlaceOf

Arrows == {<<"unsent", "pending">>, <<"pending", "inflight">>, <<"inflight", "pending">>,
           <<"inflight", "dead">>}

LEMMA OneMoves ==
  ASSUME HeldIsAtWork, HeldIsAtWork', NEW k \in Jobs, \A j \in Jobs \ {k} : Elsewhere(j),
         <<PlaceOf(k), PlaceOf(k)'>> \in Arrows
  PROVE  Abstract!ProcessNext
<1>1. \A j \in Jobs : j # k => PlaceOf(j)' = PlaceOf(j)
  BY PlaceStays
<1>2. Place' = [Place EXCEPT ![k] = PlaceOf(k)'] /\ Place[k] = PlaceOf(k)
  BY <1>1 DEF Place
<1>3. \/ Place[k] = "unsent"   /\ PlaceOf(k)' = "pending"
      \/ Place[k] = "pending"  /\ PlaceOf(k)' = "inflight"
      \/ Place[k] = "inflight" /\ PlaceOf(k)' = "pending"
      \/ Place[k] = "inflight" /\ PlaceOf(k)' = "dead"
  BY <1>2 DEF Arrows
<1>4. Abstract!Submit(k) \/ Abstract!Deliver(k) \/ Abstract!Retry(k) \/ Abstract!Bury(k)
  BY <1>2, <1>3 DEF Place, Abstract!Submit, Abstract!Deliver, Abstract!Retry, Abstract!Bury,
     Abstract!Move
<1> QED
  BY <1>4 DEF Abstract!Next, Abstract!ProcessNext

(* Jobs that a process drops stay in flight, if the processing list has     *)
(* them, or are lost.                                                       *)
LEMMA DroppedAreLost ==
  ASSUME HeldIsAtWork, HeldIsAtWork', Delivery, Dropped
  PROVE  Abstract!ProcessNext
<1>1. ASSUME NEW j \in Jobs, PlaceOf(j)' # PlaceOf(j)
      PROVE  PlaceOf(j) = "inflight" /\ PlaceOf(j)' = "lost"
  <2>1. /\ j \in Held /\ j \notin Held' /\ j \notin Ids(processing)
        /\ j \notin Ids(pending) \cup Ids(deadLetter)
    BY <1>1 DEF Dropped, queueVars, HeldIsAtWork, PlaceOf
  <2>2. j \in submitted
    BY <2>1 DEF Delivery, SubmittedFirst
  <2> QED
    BY <2>1, <2>2 DEF Dropped, queueVars, HeldIsAtWork, PlaceOf
<1>2. \A j \in Jobs : Place[j] = PlaceOf(j) /\ Place'[j] = PlaceOf(j)'
  BY DEF Place
<1>3. Place' = [j \in Jobs |-> IF Place[j] = "inflight" /\ Place'[j] = "lost"
                               THEN "lost" ELSE Place[j]]
  BY <1>1, <1>2 DEF Place
<1>4. Abstract!Abandon
  BY <1>3 DEF Abstract!Abandon, Place
<1> QED
  BY <1>4 DEF Abstract!ProcessNext

LEMMA AbstractStep ==
  ASSUME HeldIsAtWork, HeldIsAtWork', Delivery, JobMove
  PROVE  [Abstract!ProcessNext]_Place
<1>1. CASE NoneMoves
  <2>1. Place' = Place
    BY <1>1, PlaceStays DEF NoneMoves, Place
  <2> QED
    BY <2>1
<1>2. CASE Dropped
  BY <1>2, DroppedAreLost
<1>3. ASSUME NEW k \in Jobs, Comes(k)
      PROVE  Abstract!ProcessNext
  <2>1. PlaceOf(k) = "unsent" /\ PlaceOf(k)' = "pending"
    BY <1>3 DEF Comes, HeldIsAtWork, PlaceOf
  <2> QED
    BY <1>3, <2>1, OneMoves DEF Comes, Arrows
<1>4. ASSUME NEW k \in Jobs, IsDelivered(k)
      PROVE  Abstract!ProcessNext
  <2>1. PlaceOf(k) = "pending" /\ PlaceOf(k)' = "inflight"
    BY <1>4 DEF IsDelivered, PlaceOf
  <2> QED
    BY <1>4, <2>1, OneMoves DEF IsDelivered, Arrows
<1>5. ASSUME NEW k \in Jobs, Returns(k)
      PROVE  Abstract!ProcessNext
  <2>1. PlaceOf(k) = "inflight" /\ PlaceOf(k)' \in {"pending", "dead"}
    BY <1>5 DEF Returns, HeldIsAtWork, PlaceOf
  <2> QED
    BY <1>5, <2>1, OneMoves DEF Returns, Arrows
<1> QED
  BY <1>1, <1>2, <1>3, <1>4, <1>5 DEF JobMove

(* The worker keeps the promise of the queue, for any number of jobs,       *)
(* loops, tasks, crashes, restarts, shutdowns and failing commands: what    *)
(* waits is not lost, what is buried or lost never comes back, and no job   *)
(* waits and is worked on at once (task_queue.py 6-15, worker.py 63-239).   *)
THEOREM WorkerRefinement == Spec => ImplementsReliableQueue
<1>1. Init => Delivery
  <2> SUFFICES ASSUME Init
               PROVE  Delivery
    OBVIOUS
  <2>1. Ids(pending) = {} /\ Ids(processing) = {} /\ Ids(deadLetter) = {} /\ OnceIn(pending)
    BY DEF Init, QueueInit, Ids, OnceIn
  <2>2. \A t \in Tasks : TaskPhase(t) = "none"
    BY DEF Init, TaskPhase, NoTask
  <2>3. \A w \in Loops : LoopPhase(w) = "none"
    BY DEF Init, LoopPhase
  <2>4. \A h \in Holding : ~Holds(h)
    BY <2>2, <2>3 DEF Holding, Holds, Phase
  <2>5. Held = {} /\ HeldByOne
    BY <2>4 DEF Held, HeldByOne
  <2> QED
    BY <2>1, <2>5 DEF Delivery, HeldApart, BuriedApart, SubmittedFirst
<1>2. CustodyInv /\ Delivery /\ [Next]_vars => Delivery' /\ JobMove
  BY NextKinds, MoveKinds DEF CustodyInv
<1>3. CustodyInv => HeldIsAtWork
  BY WorkLemma DEF CustodyInv, TypeInv, HeldIsAtWork, Held
<1>4. Init => Abstract!Init
  <2> SUFFICES ASSUME Init
               PROVE  Abstract!Init
    OBVIOUS
  <2>1. /\ Ids(pending) = {} /\ Ids(processing) = {} /\ Ids(deadLetter) = {}
        /\ submitted = {}
    BY DEF Init, QueueInit, Ids
  <2>2. AtWork = {}
    BY DEF Init, AtWork, Active, Parsing
  <2> QED
    BY <2>1, <2>2 DEF PlaceOf, Abstract!Init
<1>5. HeldIsAtWork /\ HeldIsAtWork' /\ Delivery /\ JobMove => [Abstract!ProcessNext]_Place
  BY AbstractStep
<1> QED
  BY <1>1, <1>2, <1>3, <1>4, <1>5, CustodyHolds, PTL
     DEF Spec, ImplementsReliableQueue, Abstract!ProcessSpec, Place
=============================================================================
