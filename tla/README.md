# FixPR in TLA+

FixPR reviews GitHub pull requests. A webhook API accepts `pull_request` events and pushes jobs
into Redis. A worker process takes jobs out of Redis, clones the repository, runs linters,
security scanners and an LLM over the diff, merges what they found, posts a review to GitHub,
stores it in PostgreSQL and proposes patches, which a person approves and the API applies.

These modules model FixPR from the delivery of an event to the applied fix: the job queue and the
worker, the pipeline with its shared clones, the analysis with the merge of its findings, and the
approval of fixes. The section *Plan* says what comes next, and *Not modelled* what stays out.

## Inventory

| Component | State | Operations | Talks to |
|---|---|---|---|
| Job queue (`task_queue/task_queue.py`) | three Redis lists: pending, processing, dead letter | `enqueue`, `dequeue`, `ack`, `requeue`, `dead_letter` | Redis; called by the webhook API and the worker |
| Worker (`apps/worker/worker.py`) | `_shutdown` flag, worker loops, `process_job` tasks, semaphore | `worker_loop`, `process_job`, signal handler, `main` | queue, pipeline, database |
| Review pipeline (`agents/orchestrator`) | `PipelineState` of one run | six nodes in sequence, the second a `gather` of three agents | all agents, GitHub, database |
| Database rows (`storage/`) | repositories, pull requests, reviews, findings, fix patches, usage | `get_or_create`, `create`, `complete`, `fail`, `bulk_insert`, `apply_approval`, `mark_applied` | worker, pipeline, API; sessions of `db.py` commit at the end of a block and roll back on an exception |
| Webhook intake (`apps/webhook_api/routes/webhook.py`) | none | signature check, event and action filter, `enqueue` | GitHub, queue |
| Fix approval (`apps/webhook_api/routes/reviews.py`) | `status` of a fix patch | approve, reject, apply | database, GitHub client |
| Merger (`agents/merger`) | none | key, deduplicate, rank, count, report | pipeline |
| LLM review (`agents/review`) | token counts of a run | batch files, build prompts, call the model, parse, retry | pipeline, LLM API |
| Autofix (`agents/autofix`) | files of the shared clone | ask for a fix, make a diff, validate, restore | pipeline, clone, LLM API |
| Clone workspace (`github_int/clone_repo.py`, `diff_extractor.py`) | a directory per repository and commit | clone, checkout, extract the diff; `cleanup` is never called | file system, git |
| Static and security analysis | none | run a tool, parse its output | clone |
| GitHub client, branch manager | none | post a review, branch, commit, open a pull request | GitHub |
| Configuration, schemas, logging, tracing | settings singleton | | everything |

### What is hard here

* **Interleaving.** Several consumers work on three shared lists, and `requeue`, `dead_letter` and
  the malformed branch of `dequeue` each take two Redis commands. Inside one worker, coroutines
  interleave at every await: tasks race in `get_or_create`, and a loop spawns a task and dequeues
  again without waiting for it.
* **Crash and restart.** A process dies between any two commands; nothing reads the processing list
  when it starts again. At an orderly shutdown `main` waits for the loops and not for the tasks.
* **Retry.** A job that failed with an error judged transient is pushed again and starts from the
  beginning, although its reviews row, and perhaps its GitHub review, exist already.
* **Partial failure.** Marking a review failed, acknowledging, requeueing are separate steps, each
  of which can fail after the others succeeded.
* **Shared directories.** All runs of a commit, in any process, use one clone: its existence is
  checked before it is complete, and the validation of a fix writes into it and restores it.
* **Order of events.** Deliveries are repeated, runs of one pull request overlap, and each writes the
  row of the pull request twice. A job that a process has taken may wait at its semaphore while
  another process takes the next one and finishes it.
* **Liveness.** Retries must be finite, the semaphore must be handed on, a run must come out of the
  graph whatever fails in it, and a process told to stop must stop.

`PROJECT.json` lists each hazard at its line, with the properties about it.

### What makes each component correct

* Job queue: a job is in one place; nothing is lost or stuck but by a failure, one job per failure;
  first deliveries keep their order; retries are bounded; every job is settled in the end.
* Worker: one task per job; at most one GitHub review per job; only jobs at work in an interrupted
  process suffer; a review stays PENDING only while somebody works on it; every job leaves the
  queue; a process told to stop ends.
* Pipeline: every run ends; a clean report means that something was looked at (it does not); patches
  are stored all or none, and beside the findings they fix.
* Rows: one row per repository, pull request and job; the pull request row has the newest commit,
  as far as no two jobs of the pull request are in the worker at once.
* Webhook intake: only a signed event of the right kind leads to a review.
* Clone workspace and autofix: the tools read the commit under review, but for its line ends; a fix
  starts from its text, and what is checked is this fix.
* Analysis and merger: every reported problem is in the merged list once; the table adds up; the cap
  on comments keeps the worst.
* LLM review: the batches cover the diff, a prompt keeps to its limit and shows the beginning of its
  batch, and a failed batch costs its own files.
* Fix approval: an approved patch can be applied (it cannot); nothing reaches GitHub that was not
  approved; a branch and its pull request belong to one request; a row never names work that is not
  on GitHub.

## Modules

```
ReliableQueue          what the queue promises: the place of each job
      ^  refinement, by both of
QueueClients ----+     the consumer loop of the TaskQueue docstring, with failures
                 +--> TaskQueue      the lists, and the steps of the TaskQueue methods
Worker ----------+     worker.py: loops, tasks, rows, shutdown, crash, restart

WebhookIntake ---+
                 +--> Pipeline       the graph: nodes, sessions, processes, rows
CloneWorkspace --+

Lists                  sorting and filtering, by what they promise; used by Pipeline, too
  |
Merger --> Analyzers --+             pure operators
      \--> LLMReview --+--> Analysis the tools and the model at once, then the merge

FixApproval            reviews.py: requests, patches, branches of GitHub

TaskQueue_proofs <-- QueueClients_proofs, Worker_proofs
Lists_proofs     <-- Merger_proofs <-- Analysis_proofs
Lists_proofs     <-- Pipeline_proofs
FixApproval_proofs
MCQueueClients, MCWorker, MCPipeline, MCAnalysis, MCFixApproval      small instances for TLC
```

**TaskQueue** models `task_queue.py`. An entry of a list stands for the bytes of a job: its id, its
retry count and the *form* of the encoding, because `LREM` compares bytes. `native` bytes are those
this version writes. `extended` bytes come from a producer whose schema has a field more: this
version parses them, drops the field and would write other bytes. `malformed` bytes do not parse.
`Transfer` is the transfer that `dequeue` is meant to make, `RemoveInFlight(raw)` the `LREM` that
`ack`, `requeue` and `dead_letter` begin with, and `Push...` the `LPUSH` they end with.
`LPUSH` and `LREM` are external: they do what Redis does.

**QueueClients** runs the loop that the docstring of `TaskQueue` shows: dequeue, then ack, requeue
or dead-letter, with the raw bytes given to `ack` as its signature asks. `client[c]` says at which
await consumer `c` is and which bytes it holds; `accepted` and `acked` are history. `Fail` is the
death of a consumer, or a Redis error that leaves its loop, at any of its awaits.

**ReliableQueue** is the abstract queue: `place[j]` goes from `unsent` to `pending`, `inflight`, and
then `done`, `dead`, `pending` again, or `lost`. `QueueClients!PlaceOf` is the refinement mapping.
The worker implements it too, with `Worker!PlaceOf`: a process has several jobs and may lose them at
once when it ends (`ProcessSpec`), and a job that a crash leaves in the processing list counts as in
flight, as the header of `task_queue.py` says.

**Worker** models `worker.py` over the same lists, with the reviews table and the repository rows.

| Module | Code |
|---|---|
| `loop[w]` | the `while` loop of `worker_loop`: polling, asleep for 2 s, in the malformed branch of `dequeue`, stopped |
| `task[t]` | one `process_job` task: at the semaphore, in session 1 before its SELECTs or INSERTs, before the post, persist or autofix node, before `ack`, in the `except` block before `fail`, the `LREM` or the `LPUSH` |
| `Holders`, `WORKER_CONCURRENCY` | the semaphore |
| `known`, `review` | rows of the repository (with its pull request), and the `status` of the reviews row of each job |
| `posted`, `abandoned` | history: GitHub reviews per job; jobs that an exit, a crash or a Redis failure interrupted |
| `Signal`, `Exit`, `Crash`, `Start` | `_handle_shutdown`, the end of `main`, the death of the process, `main` again |

asyncio runs one coroutine at a time, so an action is what happens between two awaits that somebody
else can tell apart. The unique keys of `models.py` are in `KeyTaken`. A session in `FailingSessions`
may raise before or after its commit took effect, and the error may be judged transient or not.

`CallTransfers` is the one switch between the code as it is written and as its comments describe it.
Line 101 of `task_queue.py` calls `brpoplpush(...)` with a literal ellipsis and no destination,
which raises; lines 99-100 hold the comment and the commented-out call that moves a job. With
`CallTransfers = FALSE` the worker is the one in the repository and takes no job at all. With `TRUE`
the transfer works and everything behind it can be examined; the call then raises only when Redis
fails (`DequeueRaises`, `ReplyLost`).

**Pipeline** follows deliveries from `receive_github_webhook` through a worker process and the six
nodes of `agents/orchestrator` to the rows and the report. A run is named by its delivery. The queue
is reduced to the order of its jobs; it is in `Worker` in detail, and so is the reason why every run,
also one that succeeds, ends in the `except` block of `process_job` (`Ack`). `Pop` is a `worker_loop`
that gets the first job of the line and creates its task, whatever else the process is doing. The
task then waits for the semaphore (`at[r] = "semaphore"`), and `Start` lets it in: the tasks of a
process in any order, since its loops have connections of their own, and those of two processes
without regard to each other. So a job may be overtaken by a newer one of its pull request that
another process took, and a crash costs the jobs at the semaphore, too.

| Module | Code |
|---|---|
| `answer`, `accepted` (WebhookIntake) | the HTTP answer to a delivery; the jobs pushed |
| `dir`, `text` (CloneWorkspace) | the directory of a commit: absent, made, or a repository; the text of the file in it |
| `at[r]`, `proc[r]` | the await a run is at, and its process |
| `diff`, `todo`, `base`, `checked`, `session`, `drafts` | `PipelineState` and locals of the nodes; they go when the coroutine does (`Forget`) |
| `status`, `head`, `stored`, `patches`, `posted` | the rows, and what GitHub shows |
| `shared`, `spoiled`, `overlapped` | history: commits two runs used at once; directories that an error, a crash or two processes touched; pull requests of which a job was taken while a worker had another, or one was retried |

The runs of a process are coroutines of one event loop. `clone_and_checkout` and `_validate_patch`
call git, the linter and the tests synchronously, so that nothing else of the process runs
(`Holding`, `LoopFree`), while another process may do anything. The linters and scanners of the
analysis are subprocesses that read the directory all the time between `Extract` and `AnalysisEnds`,
whoever holds the loop. Of a working tree one file is kept, with what is in it: the text of the
default branch, of the commit, or the fix of a run. `CrLf` are the commits in which the lines of this
file end in CRLF: `read_text` gives them LF (`Universal`), and with LF the validation of a fix writes
the original back.

**WebhookIntake** is `verify_github_signature` and `receive_github_webhook`: `Verdict` gives the
answer to each kind of delivery. Deliveries that differ only in `attempt` are one event sent again.

**CloneWorkspace** has one operation for each thing `RepoCloner` and `_validate_patch` do to a
directory. `git clone` into a directory that has a repository fails, and `GitFails` then removes
what is there, as the code does.

**Lists** has `Filter`, `Arrange` and `Ascending`. The library's `SelectSeq` and `SortSeq` are built
into TLC and leave a proof nothing to go by; these say the same by what they promise: an element
stands where as many come before it as are less.

**Merger** is `MergerAgent` as operators on lists of findings: `DedupKey`, `Kept` (which positions
survive deduplication), `RankKey` and `Ranked`, the counts and the table of the report, and
`Comments`, the cap that `GitHubClient` puts on line comments. **Analyzers** says which tool gets
which files, what each makes of a message, and how the agents zip results and exceptions with the
names of the tools. **LLMReview** is the filter, the batches, the prompt and the reply; lengths are
in characters. **Analysis** starts all tools and the first batch at once, lets each tool end
silently, with an exception or with messages, calls the model batch by batch, and merges when all
have returned. `InputAssumption` says what the pull request, the tools and the model may hand in:
records of the fields the code reads (`GitChange`, `ToolMessage`, `ReplyItem`), with any values.

**FixApproval** models the three POST endpoints of `reviews.py` over the `fix_patches` table and the
branches of GitHub. It does not touch the queue, and meets the worker only where `node_autofix`
stores a patch (`Generate`).

| Module | Code |
|---|---|
| `req[r]` | one request: before its `UPDATE` (`decide`), before `create_fix_branch`, `commit_fix`, `open_fix_pr` or `mark_applied`, answered, or ended by an error |
| `req[r].saw` | the status its session loaded; SQLAlchemy writes the column only if the new value differs |
| `status`, `recorded` | `status` and `fix_branch` (with the pull request's URL and number) of a patch |
| `creator`, `commits`, `prs` | GitHub: which requests created a branch, committed to it, opened a pull request from it |
| `BranchName` | `ai-fix/pr-{pr_number}/{patch_id[:8]}`: patches can share one |

A call of GitHub may raise before or after it took effect, and so may the last commit. A request
whose process dies is one whose next await fails without effect. `apply_fix` does not compare the
review in the URL with the patch's own, so a request may lead a patch to any pull request.

`PullRequestLoads` is the switch of this module between the code as it is written and as its
docstring describes it. Line 224 of `reviews.py` reads `review.pull_request`, a relationship that is
loaded on first use (`models.py:225`), of a row that came from `AsyncSession.get`
(`repositories.py:203`). Nothing loads it beforehand, the SELECT it needs is not awaited, and
SQLAlchemy raises `MissingGreenlet`. With `PullRequestLoads = FALSE` every application of an approved
patch ends there (`LoadRaises`), before the first call of GitHub. With `TRUE` the pull request is
loaded with its review, and what stands behind the line can be examined: the invariants of
`fix_safety` are about that code. They hold of the code as written as well, which does less.
`CallsFail` says whether GitHub and the database may fail; a name that GitHub refuses is no failure.

## Runs

| Run | Instance | What it shows |
|---|---|---|
| `queue_safety` | 2 consumers, 4 jobs (2 ordinary, 1 extended, 1 malformed), 2 failures, retry limit 1 | `TypeOK`, `OnePlace`, `OneJobPerFault`, `FirstDeliveriesInOrder`, `RetryBound` |
| `queue_refinement` | 2 consumers, 2 jobs, 1 failure, the retry limit 3 of the code | the lists implement `ReliableQueue`; without a failure every accepted job is acknowledged or buried |
| `worker_safety` | 2 jobs of one new repository, 1 loop, 2 tasks, semaphore of 2, failing database, 1 fault, SIGTERM | `TypeOK`, `OneTaskPerJob`, `PostedAtMostOnce`, `OnlyAbandonedSuffer` |
| `worker_live` | 3 jobs (1 ordinary, 1 extended, 1 malformed), semaphore of 1, failing create and persist sessions, 1 fault | `PendingReviewHasTask`; the worker implements `ReliableQueue` (`ProcessSpec`); `EveryJobSettles` under `FairSpec` |
| `worker_shutdown` | 2 loops, 2 jobs (1 ordinary, 1 malformed), every session failing, 3 faults, SIGTERM | `ShutdownEnds` under `FairSpec`: from the wait in Redis, its timeout, the malformed branch and the back-off the loops come to their end, and the process stops |
| `worker_as_written` | the dequeue call as written | violated: `WaitingJobIsTaken` |
| `worker_ack` | 1 job, nothing fails | violated: `AckOnSuccess` |
| `pipeline_safety` | 2 deliveries of 6 (opened, opened again, new commit, and three to be refused), 2 processes with a semaphore of 2, a file with CRLF, 1 fault | `TypeOK`, `OnlySignedEventsReviewed`, `PatchesFromCommit`, `ToolsSeeCommit`, `HeadIsLatestUnlessOverlapping`, `PatchesAllOrNone`; `EveryRunEnds` under its fairness |
| `pipeline_clean` | 1 delivery, no fault but a refused git command | violated: `CleanMeansChecked` |
| `analysis_safety` | 2 diffs with tools whose messages meet at one line; all diffs of up to 4 files over 5 patch sizes | `TypeOK`, `EveryReportIsRepresented`, `CapKeepsWorst`, `TableAddsUp`, `BatchesCoverDiff`, `PromptFits`, `FailedBatchCostsItsFiles` |
| `fix_safety` | 4 requests, 2 patches with one short id, 2 pull requests, any call failing before or after its effect | `TypeOK`, `OneRequestPerBranch`, `RowTellsTheTruth`, `OnlyApprovedReachGitHub`, `OnlyErrorsLeaveWork` |
| `fix_as_written` | 3 requests, 1 patch, the relationship as written, nothing fails | violated: `ApplyGoesThrough` |

The four violated runs check what a comment or docstring says and the code does not do; the property
quotes the line, and `PROJECT.json` says what happens. In short: `dequeue` raises, so nothing is
ever taken; once that works, `ack(job)` lacks an argument, so every success is recorded as a failure
and buried; a review whose clone failed says that all checks passed; and `apply_fix` raises before
it talks to GitHub, so no patch is ever applied.

Further disagreements between the code and its comments have no run of their own.

*Queue and worker.* A timeout makes `dequeue` return `(None, None)`, which the loop takes for a job,
fails on and sleeps (`DequeueTimeout`). A loop dequeues again before the job it took is done, so one
process holds any number of jobs (`DequeueJob`), where the module docstring says that each coroutine
processes one. `requeue` and `dead_letter` remove the bytes they would write themselves, so
`extended` bytes stay in the processing list; and a crash between their two commands leaves the job
in no list. What a crash leaves in the processing list stays there (`Stranded`), although
`task_queue.py:10` says that it remains "for requeue". SIGTERM cancels the running tasks that `main`
says it drains (`Exit`). Two first jobs of a repository race in `get_or_create`
(`repositories.py:57-59` calls it an upsert), and the retry of a job that has its row can only fail
at the key of that row (`DuplicateKey`), although `worker.py:169` calls such errors "worth retrying".

*Clones.* `clone_repo.py:39-40` promises concurrent jobs "without conflict", but runs of one commit
share a directory, a half clone left by a crash is taken as complete, and so is a fix that a crash
left in the file: `spoiled` and `shared` mark these cases. "Always restore original content"
(`autofix/__init__.py:288`) is not so for a file with CRLF: the text comes back with LF, so a later
run of the commit, with no overlap and no fault, reads a file that is not the committed one.
`ToolsSeeCommit` therefore says that the tools read the commit or its text with LF, and the former
alone where the file has no CRLF. `repositories.py:126` says "New commit pushed — update SHA", and a
run of the older commit that ends later writes the older one, also if it only waited at the
semaphore while another process reviewed the newer (`overlapped`).

*Analysis.* `constants.py:39` and `merger/__init__.py:14` describe the priority of a finding without
saying that its severity does not count in deduplication: of two findings with one key the more
confident stays, be it the milder (`Outranks`). `models.py:251` says that `dedup_key` prevents
inserting a finding again, and no unique constraint does. `review/__init__.py:119` says that every
API call records its tokens, and a call whose reply cannot be read loses them (`ReviewFails`).
A tool that times out, is missing or prints nothing that parses is in `analyzers_run` like one that
found nothing (`Silent`). Bandit's own confidence is never used.

*Fixes.* A decision writes the status only if it differs from the one it loaded, so an approval that
overlaps a rejection can answer "approved" and leave the patch rejected (`WriteDecision`). Behind
the error of line 224, `apply_fix` checks the status once, and the UPDATE at its end does not look
at it (`Mark`, `repositories.py:339`): a rejection committed while it talks to GitHub would be
overwritten, although `models.py:363` names `APPROVED/REJECTED → APPLIED` and `reviews.py:192` an
approved patch. A patch whose file cannot be written is stored without a verdict (`CannotWriteFix`).

### Bounds, and why they are enough

* Two consumers, or two tasks, are the smallest number that races; a third adds no new pair of
  steps. `Tasks` is as large as the number of jobs that parse, so no loop ever waits for a free
  task, as in the code.
* `queue_safety` and `worker_safety` use a retry limit of 1: a job is delivered, retried and
  exhausted. `queue_refinement` uses the limit of the code. The limit in `worker.py` is written
  again as 3 and is the constant `RetryLimit`; the runs give both constants the same value.
* `MaxFaults` bounds the crashes and Redis failures. Two in the queue let both consumers fail, or
  one fail twice; one in the worker is a crash anywhere, followed by a restart that finds what it
  left. The number of restarts is not bounded.
* `worker_shutdown` has two loops, so that one may stop while the other waits, and three faults: both
  loops may fail, and one of them twice, or a process that crashed is told to stop as it starts. A
  job that may be retried comes back to the list while the loops are stopping.
* `worker_live` leaves out SIGTERM (`worker_safety` and `worker_shutdown` have it) and the session
  that marks a review failed: its failure is dropped and does leave a row PENDING.
* `pipeline_safety` sends two of six deliveries: two runs of one commit, of two commits of one pull
  request, or one run beside a refused delivery. Two processes take them, together or apart; a
  process that has none is not told from another (processes are numbered in the order in which they
  take a first job). The semaphore of 2 is never full with two runs; a smaller one only takes
  behaviours away, because a run may stay at it as long as it likes, and that a full one is passed
  on in the end is `EveryJobSettles` of `worker_live`, with a semaphore of 1. One run of the commit
  with CRLF has three findings to fix and is allowed two, so that the cap acts and patches meet;
  another of this commit has none or one, and that of the new commit, with LF, none. One fault is
  one failing session, write or other exception, or one crash, anywhere; failing git commands,
  GitHub calls and fixes are not bounded.
* `analysis_safety` has limits of 6 characters and 2 files for sizes 0, 1, 4, 6 and 9, with headings,
  fences and notes of 1: files below, at and above each limit, and a patch above `MaxPatchBytes`.
  The messages of the tools agree and differ in path, line, confidence and words, with line 0 and no
  line; two comments are kept. What the merge makes of longer lists is proved.
* `fix_safety` has four requests: two that decide and two that apply, or one that decides and three
  that apply; two patches of one short id are the case where branches collide.
* `CHECK_DEADLOCK FALSE`: the jobs of an instance run out, and consumers of an empty queue wait.
* Symmetry is used over consumers, tasks and requests in the runs without liveness.

### Fairness

`FairSpec` assumes weak fairness of every consumer, loop and task step, and of `Exit` and `Start`.
asyncio runs every coroutine that is ready, and the semaphore wakes its waiters; the awaits on
Redis, PostgreSQL, GitHub and the tools are assumed to return or raise. `Start` stands for the
supervisor that keeps the worker running (`docker-compose up worker`). Nothing forces a
signal, a crash or a failure.

`Pipeline!Spec` assumes one weak fairness, of any step of a run or of a process taking a job: as long
as some coroutine can go on, one does. That is less than the event loop gives, and enough, because
every step brings its run closer to an end and a job that waits can be taken.

## Proofs

TLAPS checks the following for any number of jobs, consumers, loops and tasks, any retry limits and
any bound on failures, for any deliveries, commits, processes and numbers of fixes, for any diff, any
output of the tools and reply of the model, any limits of batches, prompts and comments, and for any
number of patches, requests and pull requests. The assumptions are `QueueAssumption`,
`ClientsAssumption`, `WorkerAssumption`, `IntakeAssumption`, `PipelineAssumption`,
`LimitsAssumption`, `InputAssumption` and `FixAssumption`, which only give the constants their kinds
(a limit of the batches is not 0, nor is the heading of a file in a prompt empty).

Every invariant that a run checks is stated by a theorem, and so are the two refinements.

| Theorem | Statement |
|---|---|
| `QueueClients_proofs!TypeCorrect` | `Spec => []TypeOK` |
| `QueueClients_proofs!JobsAreInOnePlace` | `Spec => []OnePlace` |
| `QueueClients_proofs!FirstInFirstOut` | `Spec => []FirstDeliveriesInOrder` |
| `QueueClients_proofs!RetriesAreBounded` | `Spec => []RetryBound` |
| `QueueClients_proofs!OneFaultCostsOneJob` | `Spec => []OneJobPerFault` |
| `QueueClients_proofs!QueueRefinement` | `Spec => ImplementsReliableQueue` |
| `Worker_proofs!TypeCorrect` | `Spec => []TypeOK` |
| `Worker_proofs!OneReviewPerJob` | `Spec => []PostedAtMostOnce` |
| `Worker_proofs!PendingIsWorkedOn` | `Spec => []PendingReviewHasTask`, if `"fail"` is not in `FailingSessions` |
| `Worker_proofs!OneTaskEach` | `Spec => []OneTaskPerJob` |
| `Worker_proofs!OnlyInterruptedSuffer` | `Spec => []OnlyAbandonedSuffer` |
| `Worker_proofs!WorkerRefinement` | `Spec => ImplementsReliableQueue` |
| `Pipeline_proofs!TypeCorrect` | `Spec => []TypeOK` |
| `Pipeline_proofs!HeadIsLatest` | `Spec => []HeadIsLatestUnlessOverlapping` |
| `Pipeline_proofs!PatchesComeFromCommit` | `Spec => []PatchesFromCommit` |
| `Pipeline_proofs!ToolsReadCommit` | `Spec => []ToolsSeeCommit` |
| `Pipeline_proofs!PatchesAreAllOrNone` | `Spec => []PatchesAllOrNone` |
| `Pipeline_proofs!OnlySignedGetIn` | `Spec => []OnlySignedEventsReviewed` |
| `Merger_proofs!DeduplicationRepresents` | every finding of a list has one survivor with its key, which it does not outrank |
| `Merger_proofs!SurvivorsAreOrdered` | two survivors have different sort keys |
| `Analysis_proofs!TypeCorrect` | `Spec => []TypeOK` |
| `Analysis_proofs!Representation` | `Spec => []EveryReportIsRepresented` |
| `Analysis_proofs!CapIsSafe` | `Spec => []CapKeepsWorst` |
| `Analysis_proofs!TableIsComplete` | `Spec => []TableAddsUp` |
| `Analysis_proofs!Coverage` | `Spec => []BatchesCoverDiff` |
| `Analysis_proofs!PromptLimit` | `Spec => []PromptFits` |
| `Analysis_proofs!FailureIsLocal` | `Spec => []FailedBatchCostsItsFiles` |
| `FixApproval_proofs!TypeCorrect` | `Spec => []TypeOK` |
| `FixApproval_proofs!BranchHasOneOwner` | `Spec => []OneRequestPerBranch` |
| `FixApproval_proofs!RowsAreTrue` | `Spec => []RowTellsTheTruth` |
| `FixApproval_proofs!ApprovalComesFirst` | `Spec => []OnlyApprovedReachGitHub` |
| `FixApproval_proofs!NoSilentWork` | `Spec => []OnlyErrorsLeaveWork` |

`TaskQueue_proofs` proves what `LPUSH`, the pop at the tail and `LREM` do to a list of any length:
to the set of ids in it, to its elements, and to their being unique. `LREM` removes the first match,
so the proof needs that a set of positions has a least element, which comes from `<` being well
founded. The other proofs see the lists only through `Pushed`, `Popped` and `Removed`.

*One place.* `OnePlace` is not inductive: nothing in it says that an `LREM` finds what it looks for.
`Safe` adds three facts. Every job that is anywhere was accepted (`OnlyAccepted`), so `enqueue`
cannot add a second copy. The pending bytes of a tracked job are native or malformed (`FormsKnown`),
so parsing and writing them again gives the same bytes. What a consumer holds is in the processing
list, byte for byte (`HeldIsInFlight`), so its `LREM` removes it. The four `LREM` steps are then one
lemma (`RemoveCase`) and the `LPUSH` steps another (`PushCase`). TLC checked `Safe` on the instance
of `queue_safety` before it was proved. A job is *tracked* if its bytes are not `extended`: for the
others the theorem is false, as said above.

*Order and retries.* Of two jobs that wait for their first delivery, the one nearer the head was
accepted later (`HeadIsLater`), and a job is accepted once (`AcceptedOnce`); so the tail, which the
transfer takes, is the oldest of them, and a retried job, whose count is not 0, is none of them.
`Counted` carries the retry count through the bytes that a consumer holds.

*What a fault costs.* A job is missing if it is tracked and nowhere, or in the processing list and
in nobody's hands. `RemovalMissesNone` and `PushMissesNone` show that the steps of the code add none:
an `LREM` leaves its job in a hand, or acknowledges it and takes its bytes out of the list because
they are there (`HeldIsInFlight`), and an `LPUSH` puts it into a list. Only `Fail` adds one, the job
of its consumer, and it counts one failure; so the invariant `FewMissing` compares the size of the
set with the count.

*The queue's promise.* Each step of `QueueClients` removes, pushes or drops the one job its consumer
holds, or is an `Enqueue` or a `Dequeue` (`StepKinds`). `Possession` says that a held job has one
holder, does not wait, and is listed until its holder removes it; so a step changes the place of one
job, along an arrow of the abstract queue, and `OneMove` makes that an abstract step or a stutter.
This needs nothing of the bytes, so it covers the jobs that are not tracked.

*One review.* The task that is about to post has a committed row, has not posted, and is the only
one there with its job (`PostInv`). A row never disappears, and `CreateReview` needs that there is
none; so a second task with the same job never gets there, whatever the queue did to deliver it
twice. The theorem therefore needs nothing of the lists but their types: it would hold over a
queue that duplicates.

*Pending reviews.* A row becomes `PENDING` only as its task goes on to the pipeline or to the
`except` block, and a task leaves those awaits only after it completed or marked the row
(`PendingTaskMove`). `MarkFailed` may drop its own error, so the theorem assumes that this one
session does not fail; `worker_live`, which checks the invariant, leaves it out for the same reason.

*Custody.* A job is held by a task, or by a loop in the malformed branch of `dequeue()`; both have it
listed until their `LREM`, then in hand until their `LPUSH`, and the proof sees them as one kind of
*holder*. Every step of the worker is then one of eight kinds (`HolderStep`): a holder takes, removes,
pushes or drops a job, a job is submitted, a transfer loses its reply and has no taker, the process
ends and all holders drop what they have, or nothing moves. `Custody` is the analogue of `Safe`: a
tracked job is in one list at most or in one hand, a holder that has not removed its bytes finds
them in the processing list, whatever else a crash left there. It gives `OneTaskPerJob`. `Accounted` adds that what is neither
in a list nor in a hand, or is in the processing list without a holder, was interrupted
(`OnlyAbandonedSuffer`). A restart is harmless because the loops of a process that is down have
stopped outside `dequeue()` (`DownIsIdle`) and `Start` reads nothing back.

*The worker and the queue's promise.* The same eight kinds of steps give the refinement. `Delivery`
says of all jobs, the extended ones too, that a held one has one holder and neither waits nor is
buried, that none waits twice, and that none that waits is buried. So a step brings a job in, takes one
out of the pending list, or lets its holder push it back or bury it (`JobMove`), and otherwise holders
only let go, which loses the jobs that the processing list does not have (`DroppedAreLost`). An
extended job may leave a copy in the processing list for ever, and is still never delivered twice at
a time nor after its burial.

*Patches come from the commit.* In a directory that is not spoiled, everybody who uses it is in one
process (`OneProcess`), and the event loop of a process has one holder (`OneHolder`); so whoever
clones is alone (`ClonerIsAlone`), and whoever writes a fix restores the text before another run
looks. `QuietDirectory` is the heart of it: while nobody changes it, the directory is gone or has
the commit, with its own line ends or with LF (`AsCommitted`). `PlaceAndDirectory` says what a run
finds at each place, `GoodFix` and `GoodPatches` carry what it read there into the rows. A step that touches no file (`OutsideStep`) keeps all of
this by one lemma; the check for the clone, the clone itself and the validation have one each.
`ToolsReadCommit` adds that users of a commit not in `shared` are alone (`OneUser`), `StoreInv` that
patches appear in one step at the end of their session. TLC checked the parts of the invariant on
the instance of `pipeline_safety` before they were proved.

*The line of jobs.* `TypeOK` of the pipeline needs that a run that makes a fix has a finding left and
a text to start from (`FixInHand`). For the commit in the row of a pull request, `LineInv` looks at
the line in which the jobs were accepted, where a retried job goes to the end. Jobs are taken out of
the queue in its order (`TakenInOrder`), and started in any: where no two jobs of a pull request were
in the worker at once, be it at the semaphore, the one in progress is the last of them that was taken
(`LastInProgress`), so a run that writes the row writes it for the last (`HeadIsLast`). A step moves
on a run and writes its row or none (`GraphStep`), lets a job join the line, takes the first or sends
one back, and there is a lemma for each. `overlapped` marks exactly the steps that would break
`LastInProgress`. Were it marked only by jobs that hold the semaphore, the property would be false:
the overtaking described above is in the model.

*Deduplication.* Of the best findings of a group, by confidence and then by source, the one with the
least position survives; that there is a least comes from `<` being well founded. Two survivors have
different keys, so their sort keys differ at the position of the first member of their groups. The
keys are therefore a total order, and `Ranked` is a list of the survivors, each once, in that order
(`RankedLemma`, from `ArrangeLemma`).

*Analysis.* The invariant has four parts. `DiffShape` and `ToolShape` say what the diff and the
results of the tools are, `LLMShape` what the review loop has done up to `nextBatch`, and
`MergedShape` that what was merged is `Merge` of what the tools and the model returned, all of which
has ended. Representation then follows from deduplication, the cap from the ranking, since severity
is the first component of the key, and the table from the counts: every survivor has a source, and
no tool is in the table twice. That an agent's `zip` meets the right names is `JoinLemma`.
`LLMShape` has to relate the files and tokens counted to a list of batches that grows by one at
every call, with a gap at every failed one (`Passed`, `CostsStep`).

*Folds.* Batches, prompts and sums are folds of the library, defined over sets of positions. `FoldIsLoop`
turns a fold over a list into the loop it stands for: a table of the accumulator after each element.
What such a loop computes is then proved by induction over the elements seen. The library's induction
theorem takes an operator, which the provers cannot instantiate; `InductionUpTo` is stated over a set
of numbers instead, and follows from a set of numbers having a least element. So `BatchStep` shows
that the open batch and the closed ones are the files seen so far, each batch within its limits
and none that would have fitted into the one before it, and `PromptStep` how far the prompt is.

*One owner per branch.* What a row says and who owns a branch hold each other up, so one invariant
has both. `Owned` says how far the owner of a branch has got: from `create_fix_branch` on the branch
is its own, then its commit is there, then its pull request. `Approved` keeps the approval that
`apply_fix` saw, which the status itself may lose. A row may change only to a branch whose owner is
at `mark`, and a branch never changes its owner, so what a row says stays true. `ApplyStep` proves
this once for every step of an application, `QuietStep` for all others. A request creates no branch
but the one it is about (`Home`) and answers without an error only from `mark`, so `NoSilentWork`
follows from the same facts.

Only model-checked are the properties under fairness, which TLAPS does not reach:
`EventuallySettled`, `EveryJobSettles`, `ShutdownEnds` and `EveryRunEnds`. The four properties of the
violated runs are false. The proofs trust the translations of TLAPS to Z3, Zenon and LS4.

## Plan

All components with steps of their own are modelled. What would add most next:

1. Theorems about what a run of the pipeline may never do in a step, and a measure that every step of
   a run lowers, from which `EveryRunEnds` would follow under its fairness.
2. The text of an applied fix (`_extract_fixed_content`, `reviews.py:291`): which lines of a file
   are committed.

## Not modelled

Configuration, schemas, logging and tracing are declarations and output. The regular expressions and
JSON readers of the analyzers, the text of prompts, reports and comments, and the prices of tokens
are formatting: a message, a reply or a report is modelled by its fields. `RepoCloner.cleanup` and
the length getters of the queue are never called, and the read-only routes change nothing. The
temporary file that bandit leaves when it times out, the branches of `node_concurrent_analysis` for
an agent that raises (the agents catch their own exceptions), and an error inside `shutil.rmtree`
(which ignores it) are left out. asyncio keeps only weak references to tasks, and `worker_loop`
keeps none: a task that the garbage collector removes is outside the model, like a call that never
returns.
