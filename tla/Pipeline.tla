------------------------------ MODULE Pipeline ------------------------------
(***************************************************************************)
(* From a delivery of GitHub to the rows and comments of its review: the   *)
(* webhook accepts it, a worker process takes its job, and the nodes of    *)
(* the LangGraph graph (agents/orchestrator) run over a clone that every   *)
(* run of the same commit shares.                                          *)
(*                                                                         *)
(* A run is named by its delivery.  The runs of one process are            *)
(* coroutines of one event loop: git, the linter and the tests of a fix    *)
(* are called synchronously and hold the loop, analysis, the language      *)
(* model, GitHub and the database are awaited.  The tools of the analysis  *)
(* are subprocesses: they read the clone whoever holds the loop.           *)
(*                                                                         *)
(* A process takes jobs out of the queue whatever it is doing; the task of *)
(* a job then waits for the semaphore of its process, where another        *)
(* process may overtake it.  The lists of the queue, the restarts and the  *)
(* retries are in Worker; what the analysis finds is in Analysis and a     *)
(* free choice here.                                                       *)
(***************************************************************************)
EXTENDS WebhookIntake, CloneWorkspace, Lists

CONSTANTS Procs,       \* the number of worker processes
          WORKER_CONCURRENCY,   \* settings.worker_concurrency
          MaxFixes,    \* the 5 fixes of node_autofix
          Eligible,    \* how many findings of a run may reach the threshold of a fix
          MaxFaults,   \* bound on failing sessions, full disks and crashes
          MaxSent      \* bound on the deliveries of a behaviour

Commit(d) == Event[d].commit
Pr(d) == Event[d].pr
Prs == {Pr(d) : d \in Deliveries}

\* A file has the pull request's text, the default branch's, or a run's fix.
Contents == {"commit", "crlf", "default"} \cup Deliveries

\* Processes are numbered in the order in which they first take a job.
Processes == 1..Procs
NoProc == 0

NoHead == "no row"

ASSUME PipelineAssumption ==
  /\ \A d \in Deliveries : Commit(d) \in Commits
  /\ Eligible \in [Deliveries -> SUBSET Nat]
  /\ WORKER_CONCURRENCY \in Nat \ {0}
  /\ Procs \in Nat /\ MaxFixes \in Nat /\ MaxFaults \in Nat /\ MaxSent \in Nat
  /\ {"commit", "crlf", "default", NoFile, NoHead} \cap Deliveries = {}

VARIABLES
  at,          \* where each run is
  proc,        \* the process that took its job
  diff,        \* state.diff: "none" or "diff"
  todo,        \* the eligible findings that node_autofix has yet to fix
  base,        \* original_content of the fix in the making
  checked,     \* the file the linter and the tests of that fix read
  session,     \* the session of node_autofix: "ok" or "broken"
  drafts,      \* the patches added to this session
  \* the database and GitHub
  status,      \* the reviews row
  head,        \* the run whose payload the pull_requests row holds
  stored,      \* the runs whose findings rows are there
  patches,     \* the fix_patches rows
  posted,      \* the runs whose report GitHub shows
  \* history
  shared,      \* commits that two runs used at once
  spoiled,     \* commits whose directory an error, a crash or two processes touched
  overlapped,  \* pull requests with two jobs in the worker at once, or one retried
  faults

runVars == <<at, proc, diff, todo, base, checked, session, drafts>>
dbVars == <<status, head, stored, patches>>
historyVars == <<shared, spoiled, overlapped, faults>>
vars == <<intakeVars, cloneVars, runVars, dbVars, posted, historyVars>>

(* at of a run:                                                             *)
(*   waiting    in the queue                                                *)
(*   semaphore  taken by a process, at "async with semaphore"               *)
(*   create     process_job, before the session that creates the row        *)
(*   check, mkdir, clone, checkout    in clone_and_checkout                 *)
(*   extract    before DiffExtractor.extract                                *)
(*   analyze    in gather()                                                 *)
(*   post, fallback    before create_review, before create_issue_comment    *)
(*   persist    before the session of node_persist_results                  *)
(*   fix        at the loop of node_autofix                                 *)
(*   generate   in the call of the language model for a fix                 *)
(*   checks     in _validate_patch, the fix being in the clone              *)
(*   store      before patch_repo.create                                    *)
(*   mark       in the except block of process_job                          *)
(*   buried, dead    the job is in the dead-letter list; its process died   *)
Ended == {"buried", "dead"}
Places == {"none", "waiting", "semaphore", "create", "check", "mkdir", "clone", "checkout",
           "extract", "analyze", "post", "fallback", "persist", "fix", "generate", "checks",
           "store", "mark"} \cup Ended

\* Between two awaits: the event loop runs nothing else.
Holding == {"mkdir", "clone", "checkout", "extract", "checks"}

\* The run changes what is in the directory.
Changing == {"clone", "checkout", "checks"}

\* A process has the job, and its task holds the semaphore.
InProgress(r) == at[r] \notin {"none", "waiting"} \cup Ended
Admitted(r) == InProgress(r) /\ at[r] # "semaphore"

\* The run opens files of its clone, now or later.
Using(r) ==
  \/ at[r] \in {"mkdir", "clone", "checkout", "extract"}
  \/ diff[r] = "diff" /\ at[r] \in {"analyze", "post", "fallback", "persist", "fix",
                                    "generate", "checks", "store"}

Users(c) == {r \in Deliveries : Commit(r) = c /\ Using(r)}

(* Mutant: the calls of git and of the checks are awaited.                  *)
LoopFreeAlways(r) == TRUE

LoopFree(r) ==
  \A o \in Deliveries \ {r} : proc[o] = proc[r] => at[o] \notin Holding

Fault == faults < MaxFaults /\ faults' = faults + 1

Goto(r, place) == at' = [at EXCEPT ![r] = place]

Spoil(c) == spoiled' = spoiled \cup {c}

-----------------------------------------------------------------------------
Init ==
  /\ IntakeInit /\ CloneInit
  /\ at = [r \in Deliveries |-> "none"]
  /\ proc = [r \in Deliveries |-> NoProc]
  /\ diff = [r \in Deliveries |-> "none"]
  /\ todo = [r \in Deliveries |-> 0]
  /\ base = [r \in Deliveries |-> NoFile]
  /\ checked = [r \in Deliveries |-> NoFile]
  /\ session = [r \in Deliveries |-> "ok"]
  /\ drafts = [r \in Deliveries |-> {}]
  /\ status = [r \in Deliveries |-> "none"]
  /\ head = [q \in Prs |-> NoHead]
  /\ stored = {}
  /\ patches = [r \in Deliveries |-> {}]
  /\ posted = {}
  /\ shared = {} /\ spoiled = {} /\ overlapped = {}
  /\ faults = 0

-----------------------------------------------------------------------------
(* The webhook *)

\* The first of equal deliveries comes first.
MaySend(d) ==
  /\ Cardinality({o \in Deliveries : answer[o] # "none"}) < MaxSent
  /\ \A o \in Deliveries :
       Event[o] = [Event[d] EXCEPT !.attempt = @ - 1] => answer[o] # "none"

restOfDelivery == <<cloneVars, proc, diff, todo, base, checked, session, drafts,
                    dbVars, posted, shared, spoiled, overlapped>>

DeliverRefused(d) == MaySend(d) /\ Refuse(d) /\ UNCHANGED <<at, faults, restOfDelivery>>

DeliverAccepted(d) ==
  /\ MaySend(d) /\ Accept(d)
  /\ Goto(d, "waiting")
  /\ UNCHANGED <<faults, restOfDelivery>>

DeliverFails(d) ==
  /\ MaySend(d) /\ Fault
  /\ \E effect \in BOOLEAN :
       /\ EnqueueFails(d, effect)
       /\ IF effect THEN Goto(d, "waiting") ELSE UNCHANGED at
  /\ UNCHANGED restOfDelivery

-----------------------------------------------------------------------------
(* The worker *)

(* Mutant: the newest job first.                                            *)
NextInLineLast(r) ==
  /\ at[r] = "waiting"
  /\ \E i \in DOMAIN accepted :
       /\ accepted[i] = r
       /\ \A j \in DOMAIN accepted : j > i => at[accepted[j]] # "waiting"

NextInLine(r) ==
  /\ at[r] = "waiting"
  /\ \E i \in DOMAIN accepted :
       /\ accepted[i] = r
       /\ \A j \in DOMAIN accepted : j < i => at[accepted[j]] # "waiting"

\* A worker_loop of the process gets the job and creates its task.
Pop(p, r) ==
  /\ NextInLine(r)
  /\ \A q \in 1..(p - 1) : \E o \in Deliveries : proc[o] = q
  /\ Goto(r, "semaphore")
  /\ proc' = [proc EXCEPT ![r] = p]
  /\ overlapped' = IF \E o \in Deliveries : Pr(o) = Pr(r) /\ InProgress(o)
                   THEN overlapped \cup {Pr(r)} ELSE overlapped
  /\ UNCHANGED <<intakeVars, cloneVars, diff, todo, base, checked, session, drafts,
                 dbVars, posted, shared, spoiled, faults>>

afterPop == <<intakeVars, proc, base, checked, session>>

\* async with semaphore.  The tasks of a process come here in any order: each
\* of its loops has a connection to Redis of its own.
Start(r) ==
  /\ at[r] = "semaphore" /\ LoopFree(r)
  /\ Cardinality({o \in Deliveries : proc[o] = proc[r] /\ Admitted(o)})
       < WORKER_CONCURRENCY
  /\ Goto(r, "create")
  /\ UNCHANGED <<afterPop, cloneVars, diff, todo, drafts, dbVars, posted, historyVars>>

\* The rows of the pull request and of the review, in one transaction.
WriteReview(r) ==
  /\ status' = [status EXCEPT ![r] = "PENDING"]
  /\ head' = [head EXCEPT ![Pr(r)] = r]
  /\ UNCHANGED <<stored, patches>>

Create(r) ==
  /\ at[r] = "create" /\ LoopFree(r)
  /\ WriteReview(r)
  /\ Goto(r, "check")
  /\ UNCHANGED <<afterPop, cloneVars, diff, todo, drafts, posted, historyVars>>

\* A statement or the commit raises, or the answer to the commit is lost; two
\* first jobs of a repository are one way (Worker.DuplicateKey).
CreateFails(r) ==
  /\ at[r] = "create" /\ LoopFree(r) /\ Fault
  /\ WriteReview(r) \/ UNCHANGED dbVars
  /\ Goto(r, "mark")
  /\ UNCHANGED <<afterPop, cloneVars, diff, todo, drafts, posted,
                 shared, spoiled, overlapped>>

-----------------------------------------------------------------------------
(* node_clone_and_diff *)

cloneStep == <<afterPop, diff, todo, drafts, dbVars, posted, overlapped>>

\* clone_path.exists().  The history variables note who else uses the clone.
Check(r) ==
  LET c == Commit(r)
      others == Users(c) \ {r}
  IN
  /\ at[r] = "check" /\ LoopFree(r)
  /\ Goto(r, IF dir[c] = "absent" THEN "mkdir" ELSE "extract")
  /\ shared' = IF others = {} THEN shared ELSE shared \cup {c}
  /\ spoiled' = IF \E o \in others : proc[o] # proc[r] THEN spoiled \cup {c} ELSE spoiled
  /\ UNCHANGED <<cloneVars, cloneStep, faults>>

Mkdir(r) ==
  /\ at[r] = "mkdir"
  /\ MakeDir(Commit(r))
  /\ Goto(r, "clone")
  /\ UNCHANGED <<cloneStep, shared, spoiled, faults>>

Clone(r) ==
  /\ at[r] = "clone"
  /\ GitClone(Commit(r))
  /\ Goto(r, "checkout")
  /\ UNCHANGED <<cloneStep, shared, spoiled, faults>>

(* Mutant: a failed clone is tried again.                                   *)
GitFailsRetried(r) ==
  /\ at[r] \in {"clone", "checkout"}
  /\ RemoveTree(Commit(r))
  /\ Goto(r, "check")
  /\ UNCHANGED <<cloneStep, shared, spoiled, faults>>

\* GitCommandError (no network, no such commit, a repository is in the way): the
\* directory is removed, and the node swallows the exception.  The graph goes on
\* without a diff, no agent runs, and the merged result is empty.
GitFails(r) ==
  /\ at[r] \in {"clone", "checkout"}
  /\ RemoveTree(Commit(r))
  /\ Goto(r, "post")
  /\ UNCHANGED <<cloneStep, shared, spoiled, faults>>

\* Any other exception: nothing is removed.
CloneRaises(r) ==
  /\ at[r] \in {"clone", "checkout"} /\ Fault
  /\ Goto(r, "post")
  /\ Spoil(Commit(r))
  /\ UNCHANGED <<cloneVars, cloneStep, shared>>

Checkout(r) ==
  /\ at[r] = "checkout"
  /\ GitCheckout(Commit(r))
  /\ Goto(r, "extract")
  /\ UNCHANGED <<cloneStep, shared, spoiled, faults>>

\* git diff of the two commits: what is checked out does not matter.
Extract(r) ==
  /\ at[r] = "extract" /\ dir[Commit(r)] = "repo"
  /\ diff' = [diff EXCEPT ![r] = "diff"]
  /\ Goto(r, "analyze")
  /\ UNCHANGED <<cloneVars, afterPop, todo, drafts, dbVars, posted, overlapped,
                 shared, spoiled, faults>>

\* Not a repository, or git does not know one of the commits.
ExtractFails(r) ==
  /\ at[r] = "extract"
  /\ Goto(r, "post")
  /\ UNCHANGED <<cloneVars, cloneStep, shared, spoiled, faults>>

-----------------------------------------------------------------------------
(* node_concurrent_analysis, node_merge_results *)

(* Mutant: eligible instead of eligible[:5].                                *)
AnalysisEndsUncapped(r) ==
  /\ at[r] = "analyze" /\ LoopFree(r)
  /\ \E n \in Eligible[r] : todo' = [todo EXCEPT ![r] = n]
  /\ Goto(r, "post")
  /\ UNCHANGED <<cloneVars, afterPop, diff, drafts, dbVars, posted, historyVars>>

\* The tools are reading the clone all the time the run is here.
AnalysisEnds(r) ==
  /\ at[r] = "analyze" /\ LoopFree(r)
  /\ \E n \in Eligible[r] : todo' = [todo EXCEPT ![r] = IF n < MaxFixes THEN n ELSE MaxFixes]
  /\ Goto(r, "post")
  /\ UNCHANGED <<cloneVars, afterPop, diff, drafts, dbVars, posted, historyVars>>

-----------------------------------------------------------------------------
(* node_post_to_github: a thread of the executor calls GitHub *)

postStep == <<cloneVars, afterPop, diff, todo, drafts, dbVars, historyVars>>

Post(r) ==
  /\ at[r] = "post"
  /\ posted' = posted \cup {r}
  /\ Goto(r, "persist")
  /\ UNCHANGED postStep

\* GitHub refuses the review, line comments and all: the thread goes on to post
\* the report as a plain comment.
ReviewRefused(r) ==
  /\ at[r] = "post"
  /\ Goto(r, "fallback")
  /\ UNCHANGED <<postStep, posted>>

Fallback(r) ==
  /\ at[r] = "fallback"
  /\ posted' = posted \cup {r}
  /\ Goto(r, "persist")
  /\ UNCHANGED postStep

\* Another exception, a refused comment, or reviews are switched off; or the
\* answer to a call that had its effect is lost.  The node goes on regardless.
PostFails(r) ==
  /\ at[r] \in {"post", "fallback"}
  /\ posted' \in {posted, posted \cup {r}}
  /\ Goto(r, "persist")
  /\ UNCHANGED postStep

-----------------------------------------------------------------------------
(* node_persist_results: one session *)

persistStep == <<cloneVars, afterPop, diff, todo, drafts, posted, patches,
                 shared, spoiled, overlapped>>

\* get_or_create of the pull request, complete, bulk_insert and the usage row.
StoreResults(r) ==
  /\ head' = [head EXCEPT ![Pr(r)] = r]
  /\ status' = [status EXCEPT ![r] = "COMPLETED"]
  /\ stored' = stored \cup {r}

\* Without eligible findings node_autofix returns at once and so does ainvoke;
\* then task_queue.ack(job) raises for want of an argument (Worker.Ack).
Persist(r) ==
  /\ at[r] = "persist" /\ LoopFree(r)
  /\ StoreResults(r)
  /\ Goto(r, IF todo[r] > 0 THEN "fix" ELSE "mark")
  /\ UNCHANGED <<persistStep, faults>>

PersistFails(r) ==
  /\ at[r] = "persist" /\ LoopFree(r) /\ Fault
  /\ StoreResults(r) \/ UNCHANGED <<head, status, stored>>
  /\ Goto(r, "mark")
  /\ UNCHANGED persistStep

-----------------------------------------------------------------------------
(* node_autofix: one session around all fixes *)

fixStep == <<intakeVars, proc, diff, dbVars, posted, shared, overlapped>>

\* base and checked are locals of generate_fix.
NextFinding(r) ==
  /\ Goto(r, "fix")
  /\ todo' = [todo EXCEPT ![r] = @ - 1]
  /\ base' = [base EXCEPT ![r] = NoFile]
  /\ checked' = [checked EXCEPT ![r] = NoFile]

\* generate_fix reads the file and calls the language model.
ReadOriginal(r) ==
  /\ at[r] = "fix" /\ LoopFree(r) /\ todo[r] > 0
  /\ dir[Commit(r)] = "repo"
  /\ base' = [base EXCEPT ![r] = Universal(View(Commit(r)))]
  /\ Goto(r, "generate")
  /\ UNCHANGED <<fixStep, cloneVars, todo, checked, session, drafts, spoiled, faults>>

\* The file is not there, or is not text.
NoOriginal(r) ==
  /\ at[r] = "fix" /\ LoopFree(r) /\ todo[r] > 0
  /\ NextFinding(r)
  /\ UNCHANGED <<fixStep, cloneVars, session, drafts, spoiled, faults>>

\* The call fails, its reply cannot be read or is empty, or changes nothing.
NoFix(r) ==
  /\ at[r] = "generate" /\ LoopFree(r)
  /\ NextFinding(r)
  /\ UNCHANGED <<fixStep, cloneVars, session, drafts, spoiled, faults>>

\* _validate_patch writes the fix into the clone ...
WriteFix(r) ==
  /\ at[r] = "generate" /\ LoopFree(r)
  /\ Write(Commit(r), r)
  /\ Goto(r, "checks")
  /\ UNCHANGED <<fixStep, todo, base, checked, session, drafts, spoiled, faults>>

\* ... or cannot, and the fix is kept without a verdict.  A write that fails
\* half way is not undone.
CannotWriteFix(r) ==
  /\ at[r] = "generate" /\ LoopFree(r)
  /\ \/ ~CanWrite(Commit(r)) /\ UNCHANGED <<spoiled, faults>>
     \/ Fault /\ Spoil(Commit(r))
  /\ checked' = [checked EXCEPT ![r] = NoFile]
  /\ Goto(r, "store")
  /\ UNCHANGED <<fixStep, cloneVars, todo, base, session, drafts>>

\* The linter and the tests, whose failure or timeout is part of the patch; then
\* the finally clause writes the text of the original back, unless that fails.
Validate(r) ==
  /\ at[r] = "checks"
  /\ checked' = [checked EXCEPT ![r] = View(Commit(r))]
  /\ \/ Write(Commit(r), base[r]) /\ UNCHANGED <<spoiled, faults>>
     \/ ~CanWrite(Commit(r)) /\ UNCHANGED <<cloneVars, spoiled, faults>>
     \/ Fault /\ Spoil(Commit(r)) /\ UNCHANGED cloneVars
  /\ Goto(r, "store")
  /\ UNCHANGED <<fixStep, todo, base, session, drafts>>

(* Mutant: every patch is committed at once.                                *)
StorePatchCommitted(r) ==
  /\ at[r] = "store" /\ LoopFree(r) /\ session[r] = "ok"
  /\ drafts' = [drafts EXCEPT ![r] = @ \cup {[base |-> base[r], checked |-> checked[r]]}]
  /\ patches' = drafts'
  /\ NextFinding(r)
  /\ UNCHANGED <<intakeVars, proc, diff, status, head, stored, posted, shared,
                 overlapped, cloneVars, session, spoiled, faults>>

\* patch_repo.create adds the row and flushes.
StorePatch(r) ==
  /\ at[r] = "store" /\ LoopFree(r) /\ session[r] = "ok"
  /\ drafts' = [drafts EXCEPT ![r] = @ \cup {[base |-> base[r], checked |-> checked[r]]}]
  /\ NextFinding(r)
  /\ UNCHANGED <<fixStep, cloneVars, session, spoiled, faults>>

\* The flush raises: the session is unusable from now on, and the loop goes on.
FlushFails(r) ==
  /\ at[r] = "store" /\ LoopFree(r) /\ session[r] = "ok" /\ Fault
  /\ session' = [session EXCEPT ![r] = "broken"]
  /\ NextFinding(r)
  /\ UNCHANGED <<fixStep, cloneVars, drafts, spoiled>>

FlushRefused(r) ==
  /\ at[r] = "store" /\ LoopFree(r) /\ session[r] = "broken"
  /\ NextFinding(r)
  /\ UNCHANGED <<fixStep, cloneVars, session, drafts, spoiled, faults>>

commitStep == <<intakeVars, cloneVars, proc, diff, todo, base, checked, session, drafts,
                status, head, stored, posted, shared, spoiled, overlapped>>

\* The end of the session: all patches or none.  Whatever happens, an
\* exception reaches process_job: that of the session, or that of ack.
CommitFixes(r) ==
  /\ at[r] = "fix" /\ LoopFree(r) /\ todo[r] = 0
  /\ patches' = IF session[r] = "ok" THEN [patches EXCEPT ![r] = drafts[r]] ELSE patches
  /\ Goto(r, "mark")
  /\ UNCHANGED <<commitStep, faults>>

CommitFixesFails(r) ==
  /\ at[r] = "fix" /\ LoopFree(r) /\ todo[r] = 0 /\ Fault
  /\ UNCHANGED patches
  /\ Goto(r, "mark")
  /\ UNCHANGED commitStep

-----------------------------------------------------------------------------
(* The except block of process_job *)

\* The coroutines of these runs are gone, with their variables.
Forget(runs) ==
  /\ diff' = [r \in Deliveries |-> IF r \in runs THEN "none" ELSE diff[r]]
  /\ todo' = [r \in Deliveries |-> IF r \in runs THEN 0 ELSE todo[r]]
  /\ base' = [r \in Deliveries |-> IF r \in runs THEN NoFile ELSE base[r]]
  /\ checked' = [r \in Deliveries |-> IF r \in runs THEN NoFile ELSE checked[r]]
  /\ session' = [r \in Deliveries |-> IF r \in runs THEN "ok" ELSE session[r]]
  /\ drafts' = [r \in Deliveries |-> IF r \in runs THEN {} ELSE drafts[r]]

markStep == <<cloneVars, proc, head, stored, patches, posted, shared, spoiled>>

\* review_repo.fail updates the row if there is one; its failure is logged.
MarkFailed(r) ==
  \/ /\ status' = IF status[r] = "none" THEN status ELSE [status EXCEPT ![r] = "FAILED"]
     /\ UNCHANGED faults
  \/ UNCHANGED status /\ Fault

Bury(r) ==
  /\ at[r] = "mark" /\ LoopFree(r)
  /\ MarkFailed(r)
  /\ Goto(r, "buried")
  /\ Forget({r})
  /\ UNCHANGED <<markStep, intakeVars, overlapped>>

\* A transient error: the job goes behind those that wait.  With a row, the
\* next attempt could only fail (Worker.DuplicateKey).
AtTheEnd(r) == Append(Filter(accepted, LAMBDA d : d # r), r)
Requeue(r) ==
  /\ at[r] = "mark" /\ LoopFree(r) /\ status[r] = "none"
  /\ Goto(r, "waiting")
  /\ Forget({r})
  /\ accepted' = AtTheEnd(r)
  /\ overlapped' = overlapped \cup {Pr(r)}
  /\ UNCHANGED <<markStep, answer, status, faults>>

-----------------------------------------------------------------------------
\* A worker process dies and is started again.
Crash(p) ==
  LET dying == {r \in Deliveries : proc[r] = p /\ InProgress(r)} IN
  /\ dying # {} /\ Fault
  /\ at' = [r \in Deliveries |-> IF r \in dying THEN "dead" ELSE at[r]]
  /\ spoiled' = spoiled \cup {Commit(r) : r \in {q \in dying : at[q] \in Changing}}
  /\ Forget(dying)
  /\ UNCHANGED <<intakeVars, cloneVars, proc, dbVars, posted, shared, overlapped>>

-----------------------------------------------------------------------------
WorkspaceStep(r) ==
  \/ Check(r) \/ Mkdir(r) \/ Clone(r) \/ GitFails(r) \/ CloneRaises(r) \/ Checkout(r)
  \/ Extract(r) \/ ExtractFails(r)

FixStep(r) ==
  \/ ReadOriginal(r) \/ NoOriginal(r) \/ NoFix(r) \/ WriteFix(r) \/ CannotWriteFix(r)
  \/ Validate(r) \/ StorePatch(r) \/ FlushFails(r) \/ FlushRefused(r)
  \/ CommitFixes(r) \/ CommitFixesFails(r)

RunStep(r) ==
  \/ Start(r) \/ Create(r) \/ CreateFails(r) \/ WorkspaceStep(r)
  \/ AnalysisEnds(r) \/ Post(r) \/ ReviewRefused(r) \/ Fallback(r) \/ PostFails(r)
  \/ Persist(r) \/ PersistFails(r) \/ FixStep(r)
  \/ Bury(r) \/ Requeue(r)

Deliver(d) == DeliverRefused(d) \/ DeliverAccepted(d) \/ DeliverFails(d)

PopAny(r) == \E p \in Processes : Pop(p, r)

Next ==
  \/ \E d \in Deliveries : Deliver(d) \/ PopAny(d) \/ RunStep(d)
  \/ \E p \in Processes : Crash(p)

\* The loop of a worker polls for ever, asyncio runs a coroutine that can run,
\* and git, the tools and the services answer or time out.  Every run is
\* finite, so that it is enough that somebody goes on.
Fairness == WF_vars(\E r \in Deliveries : PopAny(r) \/ RunStep(r))

Spec == Init /\ [][Next]_vars /\ Fairness

-----------------------------------------------------------------------------
Patch == [base : Contents \cup {NoFile}, checked : Contents \cup {NoFile}]

(* Places, rows and history are well formed: in particular only runs that a *)
(* process has taken are anywhere in the graph.                            *)
TypeOK ==
  /\ answer \in [Deliveries -> Answers] /\ accepted \in Seq(Deliveries)
  /\ dir \in [Commits -> {"absent", "empty", "repo"}]
  /\ text \in [Commits -> Contents]
  /\ at \in [Deliveries -> Places]
  /\ proc \in [Deliveries -> Processes \cup {NoProc}]
  /\ diff \in [Deliveries -> {"none", "diff"}]
  /\ todo \in [Deliveries -> 0..MaxFixes]
  /\ base \in [Deliveries -> Contents \cup {NoFile}]
  /\ checked \in [Deliveries -> Contents \cup {NoFile}]
  /\ session \in [Deliveries -> {"ok", "broken"}]
  /\ drafts \in [Deliveries -> SUBSET Patch]
  /\ status \in [Deliveries -> {"none", "PENDING", "COMPLETED", "FAILED"}]
  /\ head \in [Prs -> Deliveries \cup {NoHead}]
  /\ stored \subseteq Deliveries
  /\ patches \in [Deliveries -> SUBSET Patch]
  /\ posted \subseteq Deliveries
  /\ shared \subseteq Commits /\ spoiled \subseteq Commits /\ overlapped \subseteq Prs
  /\ faults \in 0..MaxFaults
  /\ \A r \in Deliveries : proc[r] = NoProc => at[r] \in {"none", "waiting"}

(* A review on GitHub, or any row of it, is of an event GitHub signed and   *)
(* the endpoint reviews: no path leads into the graph past the checks of    *)
(* receive_github_webhook (webhook.py:54-75, dependencies.py:39-57).        *)
OnlySignedEventsReviewed ==
  \A d \in Deliveries : status[d] # "none" \/ d \in posted =>
     /\ Event[d].signature = "valid" /\ Event[d].event = "pull_request"
     /\ Event[d].action \in REVIEW_TRIGGER_ACTIONS
     /\ answer[d] \in {"202", "500"}

(* A stored patch changes the text of the commit under review, and what the *)
(* linter and the tests looked at was this very fix: although all runs of a *)
(* commit write into one directory (autofix:269-292, clone_repo.py:66), a   *)
(* process runs one validation at a time and puts the text back.            *)
PatchesFromCommit ==
  \A r \in Deliveries : Commit(r) \notin spoiled =>
     \A patch \in patches[r] : patch = [base |-> "commit", checked |-> r]

\* The file of the commit, or its text with "\n" at the ends of the lines.
AsCommitted(c) == {Committed(c), Universal(Committed(c))}

(* The tools of the analysis read the commit under review, not what the     *)
(* clone of the default branch or the fix of another run left there, unless *)
(* two runs of the commit were in the clone at once (clone_repo.py:66).     *)
(* What an earlier run put back has lost the line ends of the commit        *)
(* (autofix:104, 290); a file whose lines end in "\n" is read as it is.     *)
ToolsSeeCommit ==
  \A r \in Deliveries :
     at[r] = "analyze" /\ Commit(r) \notin shared \cup spoiled =>
        View(Commit(r)) \in AsCommitted(Commit(r))

(* The pull_requests row holds the payload of the newest of the jobs that   *)
(* got a row, as long as no job of the pull request was taken out of the    *)
(* queue while a worker had another one, be it only at the semaphore, and   *)
(* none was retried (repositories.py:126-129; every run writes the row      *)
(* twice, at its start and in persist_results).                             *)
HeadIsLatestUnlessOverlapping ==
  \A q \in Prs \ overlapped :
     LET rows == {i \in DOMAIN accepted : Pr(accepted[i]) = q /\ status[accepted[i]] # "none"}
     IN  rows # {} =>
           \E i \in rows : head[q] = accepted[i] /\ \A j \in rows : j <= i

(* Patches are stored all or none, and only beside the findings they fix,   *)
(* whichever flush or commit fails (orchestrator:296-320).                  *)
PatchesAllOrNone ==
  \A r \in Deliveries :
     /\ patches[r] # {} => r \in stored
     /\ InProgress(r) => patches[r] \in {{}, drafts[r]} /\ (patches[r] # {} => session[r] = "ok")

(* Every job reaches the end of process_job or dies with its process: no    *)
(* failure of a clone, an agent, GitHub or a session leaves a run in the    *)
(* graph for ever (orchestrator:349-357, worker.py:138-161).                *)
EveryRunEnds == <>[](\A r \in Deliveries : at[r] \in {"none"} \cup Ended)

(* "All checks passed. Great work!" (merger:274) is written under a report  *)
(* of no findings: then the changes were looked at.  They were not when the *)
(* clone failed, which the first node swallows (orchestrator:102-107).      *)
CleanMeansChecked ==
  \A r \in posted : at[r] = "persist" /\ todo[r] = 0 => diff[r] = "diff"
=============================================================================
