---------------------------- MODULE FixApproval -----------------------------
(***************************************************************************)
(* The approval workflow of apps/webhook_api/routes/reviews.py: requests   *)
(* that approve, reject and apply generated patches, each a coroutine with *)
(* a database session of its own, over the fix_patches table and GitHub.   *)
(*                                                                         *)
(* A request reads the patch once, at its start, and writes at its end;    *)
(* apply_fix makes three GitHub calls in between.  A request that dies     *)
(* between two awaits is one whose next await fails without effect.        *)
(***************************************************************************)
EXTENDS Naturals, FiniteSets

CONSTANTS
    Patches,
    Requests,       \* calls of the three POST endpoints
    Pulls,          \* pull requests a review_id of the URL may lead to
    ShortIds,
    ShortId,        \* patch_id[:8]
    Undiffable,     \* patches whose diff yields no content
    PullRequestLoads,   \* does review.pull_request of apply_fix yield the row?
    CallsFail,      \* may GitHub and the database fail?
    NoBranch,       \* fix_branch is NULL
    Nobody          \* the branch does not exist

(* generate_fix_branch_name.                                                *)
Branches == Pulls \X ShortIds
BranchName(p, pull) == <<pull, ShortId[p]>>

ASSUME FixAssumption ==
    /\ ShortId \in [Patches -> ShortIds]
    /\ Undiffable \subseteq Patches
    /\ PullRequestLoads \in BOOLEAN
    /\ CallsFail \in BOOLEAN
    /\ NoBranch \notin Branches
    /\ Nobody \notin Requests

VARIABLES
    status,      \* fix_patches.status of each patch
    recorded,    \* fix_branch (and fix_pr_url, fix_pr_number) of each patch
    req,         \* the requests
    creator,     \* GitHub: the request that created each branch
    commits,     \* GitHub: the requests whose commits are on each branch
    prs,         \* GitHub: the requests that opened a fix PR from each branch
    approvals    \* patches that somebody approved (history)

rowVars == <<status, recorded>>
gitHubVars == <<creator, commits, prs>>
vars == <<status, recorded, req, creator, commits, prs, approvals>>

Verdicts == {"APPROVED", "REJECTED"}
Statuses == Verdicts \cup {"none", "PENDING_APPROVAL", "APPLIED"}

(* at of a request: before its UPDATE (decide), before create_fix_branch,   *)
(* commit_fix, open_fix_pr or mark_applied, answered, or ended by an error. *)
NotSent == [at |-> "not sent"]
Decisions == [at : {"decide", "answered", "failed"}, patch : Patches,
              verdict : Verdicts, saw : Statuses]
Applications == [at : {"branch", "commit", "open", "mark", "answered", "failed"},
                 patch : Patches, branch : Branches]

InGitHub == {"branch", "commit", "open"}
Sent(r) == req[r] # NotSent
Goto(r, at) == req' = [req EXCEPT ![r] = [@ EXCEPT !.at = at]]

Init ==
    /\ status = [p \in Patches |-> "none"]
    /\ recorded = [p \in Patches |-> NoBranch]
    /\ req = [r \in Requests |-> NotSent]
    /\ creator = [b \in Branches |-> Nobody]
    /\ commits = [b \in Branches |-> {}]
    /\ prs = [b \in Branches |-> {}]
    /\ approvals = {}

(* Mutant: create() leaves the status to the column's default.              *)
GenerateDefault(p) ==
    /\ status[p] = "none"
    /\ status' = [status EXCEPT ![p] = "GENERATED"]
    /\ UNCHANGED <<recorded, req, gitHubVars, approvals>>

(* The worker: node_autofix stores a patch.                                 *)
Generate(p) ==
    /\ status[p] = "none"
    /\ status' = [status EXCEPT ![p] = "PENDING_APPROVAL"]
    /\ UNCHANGED <<recorded, req, gitHubVars, approvals>>

-----------------------------------------------------------------------------
(* approve_fix and reject_fix.                                              *)

(* apply_approval loads the row; a missing one is a 404 and no state.       *)
LoadToDecide(r, p, verdict) ==
    /\ ~Sent(r)
    /\ status[p] # "none"
    /\ req' = [req EXCEPT ![r] = [at |-> "decide", patch |-> p,
                                  verdict |-> verdict, saw |-> status[p]]]
    /\ UNCHANGED <<rowVars, gitHubVars, approvals>>

(* The flush and the commit.  There is no condition on the status that was  *)
(* loaded, and the UPDATE names the column only if its value is another one *)
(* than the session loaded.                                                 *)
WriteDecision(r) ==
    /\ req[r].at = "decide"
    /\ status' = IF req[r].verdict = req[r].saw
                 THEN status
                 ELSE [status EXCEPT ![req[r].patch] = req[r].verdict]
    /\ approvals' = IF req[r].verdict = "APPROVED" THEN approvals \cup {req[r].patch}
                                                   ELSE approvals
    /\ Goto(r, "answered")
    /\ UNCHANGED <<recorded, gitHubVars>>

DecisionFails(r) ==
    /\ CallsFail
    /\ req[r].at = "decide"
    /\ Goto(r, "failed")
    /\ UNCHANGED <<rowVars, gitHubVars, approvals>>

-----------------------------------------------------------------------------
(* apply_fix.                                                               *)

(* Mutant: the status is not checked.                                       *)
LoadToApplyUnchecked(r, p, pull) ==
    /\ ~Sent(r)
    /\ status[p] # "none" /\ p \notin Undiffable
    /\ PullRequestLoads
    /\ req' = [req EXCEPT ![r] = [at |-> "branch", patch |-> p, branch |-> BranchName(p, pull)]]
    /\ UNCHANGED <<rowVars, gitHubVars, approvals>>

(* Load the patch, check it, load the review of the URL with its pull       *)
(* request and make the new content.  Nothing compares the review with the  *)
(* patch's own.  A request refused here (404, 400 or 500) has changed       *)
(* nothing.                                                                 *)
LoadToApply(r, p, pull) ==
    /\ ~Sent(r)
    /\ status[p] = "APPROVED" /\ p \notin Undiffable
    /\ PullRequestLoads
    /\ req' = [req EXCEPT ![r] = [at |-> "branch", patch |-> p, branch |-> BranchName(p, pull)]]
    /\ UNCHANGED <<rowVars, gitHubVars, approvals>>

(* review.pull_request is a lazy relationship of a row that an AsyncSession *)
(* loaded: as written its SELECT is not awaited, and reading it raises.     *)
(* Where it is loaded with the review, the database may fail.               *)
LoadRaises(r, p, pull) ==
    /\ ~Sent(r)
    /\ status[p] = "APPROVED"
    /\ CallsFail \/ ~PullRequestLoads
    /\ req' = [req EXCEPT ![r] = [at |-> "failed", patch |-> p, branch |-> BranchName(p, pull)]]
    /\ UNCHANGED <<rowVars, gitHubVars, approvals>>

(* Mutant: a branch that exists is used as it is.                           *)
CreateRefAnyway(r) ==
    /\ creator' = [creator EXCEPT ![req[r].branch] = IF @ = Nobody THEN r ELSE @]
    /\ UNCHANGED <<commits, prs>>

(* create_git_ref: GitHub refuses a name that exists.                       *)
CreateRef(r) ==
    /\ creator[req[r].branch] = Nobody
    /\ creator' = [creator EXCEPT ![req[r].branch] = r]
    /\ UNCHANGED <<commits, prs>>

(* update_file, or create_file for a new file.                              *)
CommitFile(r) ==
    /\ commits' = [commits EXCEPT ![req[r].branch] = @ \cup {r}]
    /\ UNCHANGED <<creator, prs>>

(* create_pull.                                                             *)
CreatePull(r) ==
    /\ prs' = [prs EXCEPT ![req[r].branch] = @ \cup {r}]
    /\ UNCHANGED <<creator, commits>>

CreateFixBranch(r) ==
    /\ req[r].at = "branch"
    /\ CreateRef(r)
    /\ Goto(r, "commit")
    /\ UNCHANGED <<rowVars, approvals>>

(* Mutant: the patch is marked before its pull request is opened.           *)
CommitThenMark(r) ==
    /\ req[r].at = "commit"
    /\ CommitFile(r)
    /\ Goto(r, "mark")
    /\ UNCHANGED <<rowVars, approvals>>

CommitFix(r) ==
    /\ req[r].at = "commit"
    /\ CommitFile(r)
    /\ Goto(r, "open")
    /\ UNCHANGED <<rowVars, approvals>>

(* Mutant: the request answers without marking the patch.                   *)
OpenAndAnswer(r) ==
    /\ req[r].at = "open"
    /\ CreatePull(r)
    /\ Goto(r, "answered")
    /\ UNCHANGED <<rowVars, approvals>>

OpenFixPr(r) ==
    /\ req[r].at = "open"
    /\ CreatePull(r)
    /\ Goto(r, "mark")
    /\ UNCHANGED <<rowVars, approvals>>

(* A call that raises, a refused name or a failure before or after GitHub   *)
(* had done it: 500, and nothing that was done is undone.                   *)
GitHubFails(r) ==
    /\ req[r].at \in InGitHub
    /\ CallsFail \/ (req[r].at = "branch" /\ creator[req[r].branch] # Nobody)
    /\ \/ UNCHANGED gitHubVars
       \/ req[r].at = "branch" /\ CreateRef(r)
       \/ req[r].at = "commit" /\ CommitFile(r)
       \/ req[r].at = "open" /\ CreatePull(r)
    /\ Goto(r, "failed")
    /\ UNCHANGED <<rowVars, approvals>>

(* mark_applied and the commit: an UPDATE that does not look at the status. *)
Mark(r) ==
    /\ status' = [status EXCEPT ![req[r].patch] = "APPLIED"]
    /\ recorded' = [recorded EXCEPT ![req[r].patch] = req[r].branch]

MarkApplied(r) ==
    /\ req[r].at = "mark"
    /\ Mark(r)
    /\ Goto(r, "answered")
    /\ UNCHANGED <<gitHubVars, approvals>>

(* The UPDATE or the commit raises, with the row written or not.            *)
MarkFails(r) ==
    /\ CallsFail
    /\ req[r].at = "mark"
    /\ Mark(r) \/ UNCHANGED rowVars
    /\ Goto(r, "failed")
    /\ UNCHANGED <<gitHubVars, approvals>>

Next ==
    \/ \E p \in Patches : Generate(p)
    \/ \E r \in Requests :
        \/ \E p \in Patches, verdict \in Verdicts : LoadToDecide(r, p, verdict)
        \/ WriteDecision(r) \/ DecisionFails(r)
        \/ \E p \in Patches, pull \in Pulls : LoadToApply(r, p, pull) \/ LoadRaises(r, p, pull)
        \/ CreateFixBranch(r) \/ CommitFix(r) \/ OpenFixPr(r) \/ GitHubFails(r)
        \/ MarkApplied(r) \/ MarkFails(r)

Spec == Init /\ [][Next]_vars

-----------------------------------------------------------------------------
(* Properties.                                                              *)

TypeOK ==
    /\ status \in [Patches -> Statuses]
    /\ recorded \in [Patches -> Branches \cup {NoBranch}]
    /\ req \in [Requests -> {NotSent} \cup Decisions \cup Applications]
    /\ creator \in [Branches -> Requests \cup {Nobody}]
    /\ commits \in [Branches -> SUBSET Requests]
    /\ prs \in [Branches -> SUBSET Requests]
    /\ approvals \subseteq Patches

(* A fix branch belongs to one request: its commits and its pull request    *)
(* are of the request that created it, however many apply the same patch,   *)
(* or patches of one short id, at once or again after an error.  The name   *)
(* of the branch is the only lock (branch_manager.py 17-27, reviews.py      *)
(* 242-261).                                                                *)
OneRequestPerBranch ==
    \A b \in Branches : commits[b] \cup prs[b] \subseteq {creator[b]}

(* What a row says of GitHub is so: an APPLIED patch names a branch, and    *)
(* the branch it names, then or later, carries a commit of that patch and   *)
(* has a pull request, through rejections and re-approvals (reviews.py      *)
(* 242-275, repositories.py 336-349).                                       *)
RowTellsTheTruth ==
    \A p \in Patches :
        /\ status[p] = "APPLIED" => recorded[p] # NoBranch
        /\ recorded[p] # NoBranch =>
            \E r \in commits[recorded[p]] \cap prs[recorded[p]] : req[r].patch = p

(* Nothing of a patch reaches GitHub that no reviewer has approved, however *)
(* long the request runs after it looked (reviews.py 205-217).              *)
OnlyApprovedReachGitHub ==
    \A b \in Branches : creator[b] # Nobody => req[creator[b]].patch \in approvals

(* A branch without a pull request, or a pull request that no row names, is *)
(* the work of a request that is still running or met an error, unless the  *)
(* row names a later one of the same patch (reviews.py 242-275).            *)
OnlyErrorsLeaveWork ==
    \A b \in Branches :
        LET r == creator[b] IN
        r # Nobody =>
            \/ req[r].at # "answered"
            \/ prs[b] # {} /\ recorded[req[r].patch] # NoBranch

(* "Apply an APPROVED patch to GitHub" (reviews.py 192): as long as GitHub  *)
(* and the database do their part, nothing stops the application of an      *)
(* APPROVED patch but a branch of that name that another request created.   *)
ApplyGoesThrough ==
    ~CallsFail =>
        \A r \in Requests :
            req[r] \in Applications /\ req[r].at = "failed" =>
                creator[req[r].branch] \notin {Nobody, r}
=============================================================================
