------------------------- MODULE FixApproval_proofs -------------------------
(***************************************************************************)
(* What FixApproval guarantees for any patches, requests and pull requests.*)
(***************************************************************************)
EXTENDS FixApproval, TLAPS

(* What moving a request leaves of it, and of the others.                   *)
LEMMA GotoApply ==
  ASSUME TypeOK, NEW r \in Requests, req[r] \in Applications,
         NEW at \in {"branch", "commit", "open", "mark", "answered", "failed"}, Goto(r, at)
  PROVE  /\ req' \in [Requests -> {NotSent} \cup Decisions \cup Applications]
         /\ req'[r] \in Applications /\ req'[r].at = at
         /\ req'[r].patch = req[r].patch /\ req'[r].branch = req[r].branch
         /\ \A s \in Requests : s # r => req'[s] = req[s]
<1> DEFINE new == [req[r] EXCEPT !.at = at]
<1>1. new \in Applications /\ new.at = at /\ new.patch = req[r].patch /\ new.branch = req[r].branch
  BY DEF Applications
<1>2. req' = [req EXCEPT ![r] = new]
  BY DEF Goto
<1>3. req \in [Requests -> {NotSent} \cup Decisions \cup Applications]
  BY DEF TypeOK
<1> HIDE DEF new
<1> QED
  BY <1>1, <1>2, <1>3

LEMMA GotoDecide ==
  ASSUME TypeOK, NEW r \in Requests, req[r] \in Decisions,
         NEW at \in {"answered", "failed"}, Goto(r, at)
  PROVE  /\ req' \in [Requests -> {NotSent} \cup Decisions \cup Applications]
         /\ req'[r] \in Decisions /\ req'[r].at = at
         /\ \A s \in Requests : s # r => req'[s] = req[s]
<1> DEFINE new == [req[r] EXCEPT !.at = at]
<1>1. new \in Decisions /\ new.at = at
  BY DEF Decisions
<1>2. req' = [req EXCEPT ![r] = new]
  BY DEF Goto
<1>3. req \in [Requests -> {NotSent} \cup Decisions \cup Applications]
  BY DEF TypeOK
<1> HIDE DEF new
<1> QED
  BY <1>1, <1>2, <1>3

(* Where a request is says of what kind it is.                              *)
LEMMA KindOf ==
  ASSUME TypeOK, NEW r \in Requests
  PROVE  /\ req[r].at = "decide" => req[r] \in Decisions
         /\ req[r].at \in {"branch", "commit", "open", "mark"} => req[r] \in Applications
         /\ req[r] = NotSent => req[r].at = "not sent"
         /\ NotSent \notin Decisions /\ NotSent \notin Applications
         /\ req[r] \in Applications => req[r].at # "not sent" /\ req[r].at # "decide"
<1>1. req[r] \in {NotSent} \cup Decisions \cup Applications
  BY DEF TypeOK
<1>2. /\ NotSent.at = "not sent"
      /\ \A d \in Decisions : d.at \in {"decide", "answered", "failed"}
      /\ \A a \in Applications : a.at \in {"branch", "commit", "open", "mark", "answered", "failed"}
  BY DEF NotSent, Decisions, Applications
<1> HIDE DEF NotSent, Decisions, Applications
<1> QED
  BY <1>1, <1>2

LEMMA FieldsOf ==
  /\ \A d \in Decisions : d.patch \in Patches /\ d.verdict \in Verdicts /\ d.saw \in Statuses
  /\ \A a \in Applications : a.patch \in Patches /\ a.branch \in Branches
BY DEF Decisions, Applications

-----------------------------------------------------------------------------
(* The inductive invariant: the owner of a branch is known at every step of *)
(* its request, and approvals outlive whatever happens to the status.       *)

Approved ==
    /\ \A p \in Patches : status[p] = "APPROVED" => p \in approvals
    /\ \A r \in Requests : req[r] \in Applications => req[r].patch \in approvals

Owned ==
    /\ \A b \in Branches : creator[b] # Nobody => req[creator[b]] \in Applications
    /\ \A r \in Requests :
        /\ req[r].at \in {"commit", "open", "mark"} => creator[req[r].branch] = r
        /\ req[r].at \in {"open", "mark"} => r \in commits[req[r].branch]
        /\ req[r].at = "mark" => r \in prs[req[r].branch]

IInv == TypeOK /\ Approved /\ Owned /\ OneRequestPerBranch /\ RowTellsTheTruth

(* A step that leaves GitHub and what the rows say of it alone: of the      *)
(* worker, of a decision, or the first of an application.                   *)
LEMMA QuietStep ==
  ASSUME IInv, TypeOK', UNCHANGED <<gitHubVars, recorded>>,
         \A s \in Requests : req'[s] = req[s] \/
            /\ req[s] \notin Applications
            /\ \/ req'[s] \notin Applications
               \/ req'[s].at \in {"branch", "failed"} /\ req'[s].patch \in approvals',
         \A p \in Patches : status'[p] = "APPLIED" => status[p] = "APPLIED",
         \A p \in Patches : status'[p] = "APPROVED" => p \in approvals',
         approvals \subseteq approvals'
  PROVE  IInv'
<1> USE DEF IInv, gitHubVars
<1>1. Approved'
  BY DEF Approved
<1>2. \A b \in Branches : creator[b] # Nobody => creator[b] \in Requests
  BY DEF TypeOK
<1>3. Owned'
  <2>1. \A b \in Branches : creator'[b] # Nobody => req'[creator'[b]] \in Applications
    BY <1>2 DEF Owned
  <2>2. ASSUME NEW r \in Requests
        PROVE  /\ req'[r].at \in {"commit", "open", "mark"} => creator'[req'[r].branch] = r
               /\ req'[r].at \in {"open", "mark"} => r \in commits'[req'[r].branch]
               /\ req'[r].at = "mark" => r \in prs'[req'[r].branch]
    <3>1. CASE req'[r] = req[r]
      BY <3>1 DEF Owned
    <3>2. CASE req'[r] \notin Applications
      <4>1. req'[r].at \notin {"branch", "commit", "open", "mark"}
        <5>1. req'[r] \in {NotSent} \cup Decisions
          BY <3>2 DEF TypeOK
        <5>2. NotSent.at = "not sent" /\ \A d \in Decisions : d.at \in {"decide", "answered", "failed"}
          BY DEF NotSent, Decisions
        <5> HIDE DEF NotSent, Decisions
        <5> QED
          BY <5>1, <5>2
      <4> QED
        BY <4>1
    <3>3. CASE req'[r].at \in {"branch", "failed"}
      BY <3>3
    <3> QED
      BY <3>1, <3>2, <3>3
  <2> QED
    BY <2>1, <2>2 DEF Owned
<1>4. OneRequestPerBranch'
  BY DEF OneRequestPerBranch
<1>5. RowTellsTheTruth'
  <2>1. ASSUME NEW p \in Patches, recorded'[p] # NoBranch
        PROVE  \E r \in commits'[recorded'[p]] \cap prs'[recorded'[p]] : req'[r].patch = p
    <3>1. recorded[p] \in Branches /\ recorded'[p] = recorded[p]
      BY <2>1 DEF TypeOK
    <3>2. PICK r \in commits[recorded[p]] \cap prs[recorded[p]] : req[r].patch = p
      BY <2>1, <3>1 DEF RowTellsTheTruth
    <3>3. r \in Requests /\ r = creator[recorded[p]]
      BY <3>1, <3>2 DEF OneRequestPerBranch, TypeOK
    <3>4. req[r] \in Applications
      BY <3>1, <3>3, FixAssumption DEF Owned
    <3> QED
      BY <3>1, <3>2, <3>3, <3>4
  <2> QED
    BY <2>1 DEF RowTellsTheTruth
<1> QED
  BY <1>1, <1>3, <1>4, <1>5

(* A step of an application: its record moves on, GitHub only grows, and    *)
(* the branches it does not own stay as they are.                           *)
LEMMA ApplyStep ==
  ASSUME IInv, TypeOK', NEW r \in Requests, req[r] \in Applications,
         req'[r] \in Applications,
         req'[r].patch = req[r].patch, req'[r].branch = req[r].branch,
         \A s \in Requests : s # r => req'[s] = req[s],
         \A b \in Branches : creator[b] # Nobody => creator'[b] = creator[b],
         \A b \in Branches : creator'[b] = creator[b] \/ creator'[b] = r,
         \A b \in Branches : commits[b] \subseteq commits'[b] /\ prs[b] \subseteq prs'[b],
         \A b \in Branches : commits'[b] \cup prs'[b] \subseteq commits[b] \cup prs[b] \cup {r},
         \A b \in Branches : r \in commits'[b] \cup prs'[b] => creator'[b] = r,
         req'[r].at \in {"commit", "open", "mark"} => creator'[req[r].branch] = r,
         req'[r].at \in {"open", "mark"} => r \in commits'[req[r].branch],
         req'[r].at = "mark" => r \in prs'[req[r].branch],
         UNCHANGED approvals,
         \A p \in Patches : status'[p] = status[p] \/ (p = req[r].patch /\ status'[p] = "APPLIED"),
         \A p \in Patches :
            \/ recorded'[p] = recorded[p]
            \/ /\ p = req[r].patch /\ recorded'[p] = req[r].branch
               /\ r \in commits[req[r].branch] \cap prs[req[r].branch],
         \A p \in Patches : status'[p] # status[p] => recorded'[p] = req[r].branch
  PROVE  IInv'
<1> USE DEF IInv
<1>1. Approved'
  <2>1. \A p \in Patches : status'[p] = "APPROVED" => p \in approvals'
    BY DEF Approved
  <2>2. \A s \in Requests : req'[s] \in Applications => req'[s].patch \in approvals'
    BY DEF Approved
  <2> QED
    BY <2>1, <2>2 DEF Approved
<1>2. Owned'
  <2>1. \A b \in Branches : creator'[b] # Nobody => req'[creator'[b]] \in Applications
    <3>1. \A b \in Branches : creator[b] # Nobody => creator[b] \in Requests
      BY DEF TypeOK
    <3> QED
      BY <3>1 DEF Owned
  <2>2. ASSUME NEW s \in Requests, s # r, req[s].at \in {"commit", "open", "mark"}
        PROVE  /\ req[s].branch \in Branches
               /\ creator'[req[s].branch] = s
               /\ req[s].at \in {"open", "mark"} => s \in commits'[req[s].branch]
               /\ req[s].at = "mark" => s \in prs'[req[s].branch]
    <3>1. req[s].branch \in Branches
      BY <2>2, KindOf, FieldsOf
    <3>2. creator[req[s].branch] = s /\ s # Nobody
      BY <2>2, FixAssumption DEF Owned
    <3> QED
      BY <2>2, <3>1, <3>2 DEF Owned
  <2>3. ASSUME NEW s \in Requests
        PROVE  /\ req'[s].at \in {"commit", "open", "mark"} => creator'[req'[s].branch] = s
               /\ req'[s].at \in {"open", "mark"} => s \in commits'[req'[s].branch]
               /\ req'[s].at = "mark" => s \in prs'[req'[s].branch]
    <3>1. CASE s = r
      BY <3>1
    <3>2. CASE s # r
      BY <2>2, <3>2
    <3> QED
      BY <3>1, <3>2
  <2> QED
    BY <2>1, <2>3 DEF Owned
<1>3. OneRequestPerBranch'
  <2>1. ASSUME NEW b \in Branches, NEW s \in commits'[b] \cup prs'[b]
        PROVE  s = creator'[b]
    <3>1. CASE s = r
      BY <2>1, <3>1
    <3>2. CASE s # r
      <4>1. s \in commits[b] \cup prs[b] /\ s \in Requests
        BY <2>1, <3>2 DEF TypeOK
      <4>2. s = creator[b] /\ s # Nobody
        BY <4>1, FixAssumption DEF OneRequestPerBranch
      <4> QED
        BY <4>2
    <3> QED
      BY <3>1, <3>2
  <2> QED
    BY <2>1 DEF OneRequestPerBranch
<1>4. RowTellsTheTruth'
  <2>1. \A s \in Requests : req[s] \in Applications => req'[s].patch = req[s].patch
    OBVIOUS
  <2>2. ASSUME NEW p \in Patches, recorded'[p] # NoBranch
        PROVE  \E s \in commits'[recorded'[p]] \cap prs'[recorded'[p]] : req'[s].patch = p
    <3>1. CASE recorded'[p] = recorded[p]
      <4>1. recorded[p] \in Branches
        BY <2>2, <3>1 DEF TypeOK
      <4>2. PICK s \in commits[recorded[p]] \cap prs[recorded[p]] : req[s].patch = p
        BY <2>2, <3>1, <4>1 DEF RowTellsTheTruth
      <4>3. s \in Requests /\ s = creator[recorded[p]]
        BY <4>1, <4>2 DEF OneRequestPerBranch, TypeOK
      <4>4. req[s] \in Applications
        BY <4>1, <4>3, FixAssumption DEF Owned
      <4> QED
        BY <2>1, <3>1, <4>1, <4>2, <4>3, <4>4
    <3>2. CASE p = req[r].patch /\ recorded'[p] = req[r].branch
               /\ r \in commits[req[r].branch] \cap prs[req[r].branch]
      <4>1. req[r].branch \in Branches
        BY FieldsOf
      <4> QED
        BY <3>2, <4>1
    <3> QED
      BY <3>1, <3>2
  <2>3. ASSUME NEW p \in Patches, status'[p] = "APPLIED"
        PROVE  recorded'[p] # NoBranch
    <3>1. req[r].branch # NoBranch
      BY FieldsOf, FixAssumption
    <3>2. CASE status'[p] = status[p]
      BY <2>3, <3>1, <3>2 DEF RowTellsTheTruth
    <3>3. CASE status'[p] # status[p]
      BY <3>1, <3>3
    <3> QED
      BY <3>2, <3>3
  <2> QED
    BY <2>2, <2>3 DEF RowTellsTheTruth
<1> QED
  BY <1>1, <1>2, <1>3, <1>4

(* Every step of the workflow preserves the invariant.                      *)
LEMMA InvStep ==
  ASSUME IInv, [Next]_vars
  PROVE  IInv'
<1> USE DEF IInv
<1>1. CASE UNCHANGED vars
  <2>1. TypeOK'
    BY <1>1 DEF vars, TypeOK
  <2> QED
    BY <1>1, <2>1, QuietStep DEF vars, gitHubVars, Approved
<1>2. ASSUME NEW p \in Patches, Generate(p)
      PROVE  IInv'
  <2>1. TypeOK'
    BY <1>2 DEF Generate, TypeOK, gitHubVars, Statuses, Verdicts
  <2>2. /\ \A x \in Patches : status'[x] = "APPLIED" => status[x] = "APPLIED"
        /\ \A x \in Patches : status'[x] = "APPROVED" => x \in approvals'
    BY <1>2 DEF Generate, TypeOK, Approved
  <2> QED
    BY <1>2, <2>1, <2>2, QuietStep DEF Generate, gitHubVars
<1>3. ASSUME NEW r \in Requests, NEW p \in Patches, NEW v \in Verdicts, LoadToDecide(r, p, v)
      PROVE  IInv'
  <2> DEFINE new == [at |-> "decide", patch |-> p, verdict |-> v, saw |-> status[p]]
  <2>1. new \in Decisions /\ new \notin Applications
    <3>1. new \in Decisions /\ new.at = "decide"
      BY DEF Decisions, TypeOK
    <3>2. \A a \in Applications : a.at # "decide"
      BY DEF Applications
    <3> QED
      BY <3>1, <3>2
  <2>2. req' = [req EXCEPT ![r] = new] /\ req[r] = NotSent /\ NotSent \notin Applications
    BY <1>3, KindOf DEF LoadToDecide, Sent
  <2> HIDE DEF new
  <2>3. TypeOK'
    BY <1>3, <2>1, <2>2 DEF LoadToDecide, TypeOK, gitHubVars, rowVars
  <2>4. \A s \in Requests : req'[s] = req[s] \/ (req[s] \notin Applications /\ req'[s] \notin Applications)
    BY <2>1, <2>2 DEF TypeOK
  <2> QED
    BY <1>3, <2>3, <2>4, QuietStep DEF LoadToDecide, rowVars, Approved
<1>4. ASSUME NEW r \in Requests, WriteDecision(r)
      PROVE  IInv'
  <2>1. req[r] \in Decisions /\ req[r] \notin Applications
    BY <1>4, KindOf DEF WriteDecision
  <2>2. req[r].patch \in Patches /\ req[r].verdict \in Verdicts
    BY <2>1, FieldsOf
  <2>3. /\ req' \in [Requests -> {NotSent} \cup Decisions \cup Applications]
        /\ \A s \in Requests : s # r => req'[s] = req[s]
        /\ req'[r] \in Decisions /\ req'[r].at = "answered"
    BY <1>4, <2>1, GotoDecide DEF WriteDecision
  <2>4. req'[r] \notin Applications
    <3>1. req'[r] = [req[r] EXCEPT !.at = "answered"]
      BY <1>4 DEF WriteDecision, Goto, TypeOK
    <3>2. \A d \in Decisions : d \notin Applications
      BY DEF Decisions, Applications
    <3> QED
      BY <2>3, <3>2
  <2>5. /\ status' \in [Patches -> Statuses] /\ approvals' \subseteq Patches
        /\ approvals \subseteq approvals'
        /\ \A x \in Patches : status'[x] = "APPLIED" => status[x] = "APPLIED"
        /\ \A x \in Patches : status'[x] = "APPROVED" => x \in approvals'
    BY <1>4, <2>2 DEF WriteDecision, TypeOK, Statuses, Verdicts, Approved
  <2>6. TypeOK'
    BY <1>4, <2>3, <2>5 DEF WriteDecision, TypeOK, gitHubVars
  <2> QED
    BY <1>4, <2>1, <2>3, <2>4, <2>5, <2>6, QuietStep DEF WriteDecision
<1>5. ASSUME NEW r \in Requests, DecisionFails(r)
      PROVE  IInv'
  <2>1. req[r] \in Decisions /\ req[r] \notin Applications
    BY <1>5, KindOf DEF DecisionFails
  <2>2. /\ req' \in [Requests -> {NotSent} \cup Decisions \cup Applications]
        /\ \A s \in Requests : s # r => req'[s] = req[s]
        /\ req'[r] \in Decisions
    BY <1>5, <2>1, GotoDecide DEF DecisionFails
  <2>3. req'[r] \notin Applications
    <3>1. \A d \in Decisions : d \notin Applications
      BY DEF Decisions, Applications
    <3> QED
      BY <2>2, <3>1
  <2>4. TypeOK'
    BY <1>5, <2>2 DEF DecisionFails, TypeOK, gitHubVars, rowVars
  <2> QED
    BY <1>5, <2>1, <2>2, <2>3, <2>4, QuietStep DEF DecisionFails, rowVars, Approved
<1>6. ASSUME NEW r \in Requests, NEW p \in Patches, NEW pull \in Pulls,
             LoadToApply(r, p, pull) \/ LoadRaises(r, p, pull)
      PROVE  IInv'
  <2>1. PICK at \in {"branch", "failed"} :
          req' = [req EXCEPT ![r] = [at |-> at, patch |-> p, branch |-> BranchName(p, pull)]]
    BY <1>6 DEF LoadToApply, LoadRaises
  <2> DEFINE new == [at |-> at, patch |-> p, branch |-> BranchName(p, pull)]
  <2>2. new \in Applications /\ new.at = at /\ new.patch = p
    <3>1. BranchName(p, pull) \in Branches
      BY FixAssumption DEF BranchName, Branches
    <3> QED
      BY <3>1 DEF Applications
  <2>3. req' = [req EXCEPT ![r] = new] /\ req[r] \notin Applications /\ p \in approvals
    BY <1>6, <2>1, KindOf DEF LoadToApply, LoadRaises, Sent, Approved
  <2> HIDE DEF new
  <2>4. UNCHANGED <<rowVars, gitHubVars, approvals>>
    BY <1>6 DEF LoadToApply, LoadRaises
  <2>5. TypeOK'
    BY <2>2, <2>3, <2>4 DEF TypeOK, gitHubVars, rowVars
  <2>6. req'[r] = new /\ \A s \in Requests : s # r => req'[s] = req[s]
    BY <2>3 DEF TypeOK
  <2> QED
    BY <2>2, <2>3, <2>4, <2>5, <2>6, QuietStep DEF rowVars, Approved
<1>7. ASSUME NEW r \in Requests, req[r].at = "branch", CreateRef(r), UNCHANGED <<rowVars, approvals>>,
             NEW at \in {"commit", "failed"}, Goto(r, at)
      PROVE  IInv'
  <2>1. req[r] \in Applications /\ req[r].branch \in Branches
    BY <1>7, KindOf, FieldsOf
  <2>2. /\ req' \in [Requests -> {NotSent} \cup Decisions \cup Applications]
        /\ req'[r] \in Applications /\ req'[r].at = at
        /\ req'[r].patch = req[r].patch /\ req'[r].branch = req[r].branch
        /\ \A s \in Requests : s # r => req'[s] = req[s]
    BY <1>7, <2>1, GotoApply
  <2>3. /\ \A b \in Branches : creator[b] # Nobody => creator'[b] = creator[b]
        /\ \A b \in Branches : creator'[b] = creator[b] \/ creator'[b] = r
        /\ creator'[req[r].branch] = r
        /\ UNCHANGED <<commits, prs>>
    BY <1>7, <2>1 DEF CreateRef, TypeOK
  <2>4. \A b \in Branches : r \in commits[b] \cup prs[b] => creator[b] = r
    BY DEF OneRequestPerBranch
  <2>5. TypeOK'
    BY <1>7, <2>1, <2>2 DEF CreateRef, TypeOK, rowVars
  <2>6. \A b \in Branches : r \in commits'[b] \cup prs'[b] => creator'[b] = r
    BY <2>3, <2>4
  <2> QED
    BY <1>7, <2>1, <2>2, <2>3, <2>5, <2>6, ApplyStep DEF rowVars
<1>8. ASSUME NEW r \in Requests, req[r].at = "commit", CommitFile(r), UNCHANGED <<rowVars, approvals>>,
             NEW at \in {"open", "failed"}, Goto(r, at)
      PROVE  IInv'
  <2>1. req[r] \in Applications /\ req[r].branch \in Branches
    BY <1>8, KindOf, FieldsOf
  <2>2. /\ req' \in [Requests -> {NotSent} \cup Decisions \cup Applications]
        /\ req'[r] \in Applications /\ req'[r].at = at
        /\ req'[r].patch = req[r].patch /\ req'[r].branch = req[r].branch
        /\ \A s \in Requests : s # r => req'[s] = req[s]
    BY <1>8, <2>1, GotoApply
  <2>3. /\ \A b \in Branches : commits[b] \subseteq commits'[b] /\ prs[b] \subseteq prs'[b]
        /\ \A b \in Branches : commits'[b] \cup prs'[b] \subseteq commits[b] \cup prs[b] \cup {r}
        /\ \A b \in Branches : r \in commits'[b] \cup prs'[b]
              => b = req[r].branch \/ r \in commits[b] \cup prs[b]
        /\ r \in commits'[req[r].branch]
        /\ UNCHANGED creator
    BY <1>8, <2>1 DEF CommitFile, TypeOK
  <2>4. creator[req[r].branch] = r /\ \A b \in Branches : r \in commits[b] \cup prs[b] => creator[b] = r
    BY <1>8 DEF OneRequestPerBranch, Owned
  <2>5. TypeOK'
    BY <1>8, <2>1, <2>2 DEF CommitFile, TypeOK, rowVars
  <2>6. \A b \in Branches : r \in commits'[b] \cup prs'[b] => creator'[b] = r
    BY <2>3, <2>4
  <2> QED
    BY <1>8, <2>1, <2>2, <2>3, <2>4, <2>5, <2>6, ApplyStep DEF rowVars
<1>9. ASSUME NEW r \in Requests, req[r].at = "open", CreatePull(r), UNCHANGED <<rowVars, approvals>>,
             NEW at \in {"mark", "failed"}, Goto(r, at)
      PROVE  IInv'
  <2>1. req[r] \in Applications /\ req[r].branch \in Branches
    BY <1>9, KindOf, FieldsOf
  <2>2. /\ req' \in [Requests -> {NotSent} \cup Decisions \cup Applications]
        /\ req'[r] \in Applications /\ req'[r].at = at
        /\ req'[r].patch = req[r].patch /\ req'[r].branch = req[r].branch
        /\ \A s \in Requests : s # r => req'[s] = req[s]
    BY <1>9, <2>1, GotoApply
  <2>3. /\ \A b \in Branches : commits[b] \subseteq commits'[b] /\ prs[b] \subseteq prs'[b]
        /\ \A b \in Branches : commits'[b] \cup prs'[b] \subseteq commits[b] \cup prs[b] \cup {r}
        /\ \A b \in Branches : r \in commits'[b] \cup prs'[b]
              => b = req[r].branch \/ r \in commits[b] \cup prs[b]
        /\ r \in prs'[req[r].branch]
        /\ UNCHANGED <<creator, commits>>
    BY <1>9, <2>1 DEF CreatePull, TypeOK
  <2>4. /\ creator[req[r].branch] = r /\ r \in commits[req[r].branch]
        /\ \A b \in Branches : r \in commits[b] \cup prs[b] => creator[b] = r
    BY <1>9 DEF OneRequestPerBranch, Owned
  <2>5. TypeOK'
    BY <1>9, <2>1, <2>2 DEF CreatePull, TypeOK, rowVars
  <2>6. \A b \in Branches : r \in commits'[b] \cup prs'[b] => creator'[b] = r
    BY <2>3, <2>4
  <2> QED
    BY <1>9, <2>1, <2>2, <2>3, <2>4, <2>5, <2>6, ApplyStep DEF rowVars
<1>10. ASSUME NEW r \in Requests, req[r].at \in {"branch", "commit", "open", "mark"},
              UNCHANGED <<rowVars, gitHubVars, approvals>>, Goto(r, "failed")
       PROVE  IInv'
  <2>1. req[r] \in Applications
    BY <1>10, KindOf
  <2>2. /\ req' \in [Requests -> {NotSent} \cup Decisions \cup Applications]
        /\ req'[r] \in Applications /\ req'[r].at = "failed"
        /\ req'[r].patch = req[r].patch /\ req'[r].branch = req[r].branch
        /\ \A s \in Requests : s # r => req'[s] = req[s]
    BY <1>10, <2>1, GotoApply
  <2>3. UNCHANGED <<creator, commits, prs, status, recorded, approvals>>
    BY <1>10 DEF rowVars, gitHubVars
  <2>4. \A b \in Branches : r \in commits[b] \cup prs[b] => creator[b] = r
    BY DEF OneRequestPerBranch
  <2>5. TypeOK'
    BY <2>2, <2>3 DEF TypeOK
  <2> QED
    BY <2>1, <2>2, <2>3, <2>4, <2>5, ApplyStep
<1>11. ASSUME NEW r \in Requests, req[r].at = "mark", Mark(r), UNCHANGED <<gitHubVars, approvals>>,
              NEW at \in {"answered", "failed"}, Goto(r, at)
       PROVE  IInv'
  <2>1. req[r] \in Applications /\ req[r].branch \in Branches /\ req[r].patch \in Patches
    BY <1>11, KindOf, FieldsOf
  <2>2. /\ req' \in [Requests -> {NotSent} \cup Decisions \cup Applications]
        /\ req'[r] \in Applications /\ req'[r].at = at
        /\ req'[r].patch = req[r].patch /\ req'[r].branch = req[r].branch
        /\ \A s \in Requests : s # r => req'[s] = req[s]
    BY <1>11, <2>1, GotoApply
  <2>3. /\ \A p \in Patches : status'[p] = status[p] \/ (p = req[r].patch /\ status'[p] = "APPLIED")
        /\ \A p \in Patches : recorded'[p] = recorded[p]
                                \/ (p = req[r].patch /\ recorded'[p] = req[r].branch)
        /\ \A p \in Patches : status'[p] # status[p] => recorded'[p] = req[r].branch
    BY <1>11, <2>1 DEF Mark, TypeOK
  <2>4. /\ r \in commits[req[r].branch] \cap prs[req[r].branch]
        /\ \A b \in Branches : r \in commits[b] \cup prs[b] => creator[b] = r
    BY <1>11 DEF OneRequestPerBranch, Owned
  <2>5. TypeOK'
    BY <1>11, <2>1, <2>2 DEF Mark, TypeOK, gitHubVars, Statuses
  <2>6. UNCHANGED <<creator, commits, prs, approvals>>
    BY <1>11 DEF gitHubVars
  <2> QED
    BY <2>1, <2>2, <2>3, <2>4, <2>5, <2>6, ApplyStep
<1>12. ASSUME NEW r \in Requests,
              CreateFixBranch(r) \/ CommitFix(r) \/ OpenFixPr(r) \/ GitHubFails(r)
       PROVE  IInv'
  <2>1. CASE CreateFixBranch(r)
    BY <1>7, <2>1 DEF CreateFixBranch
  <2>2. CASE CommitFix(r)
    BY <1>8, <2>2 DEF CommitFix
  <2>3. CASE OpenFixPr(r)
    BY <1>9, <2>3 DEF OpenFixPr
  <2>4. CASE GitHubFails(r)
    BY <1>7, <1>8, <1>9, <1>10, <2>4 DEF GitHubFails, InGitHub
  <2> QED
    BY <1>12, <2>1, <2>2, <2>3, <2>4
<1>13. ASSUME NEW r \in Requests, MarkApplied(r) \/ MarkFails(r)
       PROVE  IInv'
  BY <1>10, <1>11, <1>13 DEF MarkApplied, MarkFails
<1> QED
  BY <1>1, <1>2, <1>3, <1>4, <1>5, <1>6, <1>12, <1>13 DEF Next

LEMMA InvInit == Init => IInv
<1>1. SUFFICES ASSUME Init PROVE IInv
  OBVIOUS
<1>2. TypeOK
  BY <1>1 DEF Init, TypeOK, Statuses
<1>3. Approved /\ Owned
  <2>1. \A r \in Requests : req[r].at = "not sent" /\ req[r] \notin Applications
    <3>1. NotSent.at = "not sent" /\ \A a \in Applications : a.at # "not sent"
      BY DEF NotSent, Applications
    <3> HIDE DEF NotSent, Applications
    <3> QED
      BY <1>1, <3>1 DEF Init
  <2> QED
    BY <1>1, <2>1 DEF Init, Approved, Owned
<1>4. OneRequestPerBranch /\ RowTellsTheTruth
  BY <1>1 DEF Init, OneRequestPerBranch, RowTellsTheTruth
<1> QED
  BY <1>2, <1>3, <1>4 DEF IInv

LEMMA Invariance == Spec => []IInv
BY InvInit, InvStep, PTL DEF Spec

(* The rows, the requests and GitHub are well formed for any number of      *)
(* patches, requests and pull requests (reviews.py 118-285).                *)
THEOREM TypeCorrect == Spec => []TypeOK
<1>1. IInv => TypeOK
  BY DEF IInv
<1> QED
  BY <1>1, Invariance, PTL

(* A fix branch carries the work of the one request that created it, for    *)
(* any requests, short ids that collide and calls that fail half done       *)
(* (reviews.py 242-261, branch_manager.py 17-27).                           *)
THEOREM BranchHasOneOwner == Spec => []OneRequestPerBranch
<1>1. IInv => OneRequestPerBranch
  BY DEF IInv
<1> QED
  BY <1>1, Invariance, PTL

(* The branch a row names has a commit of that patch and a pull request,    *)
(* whatever decisions and applications overlap (reviews.py 242-275).        *)
THEOREM RowsAreTrue == Spec => []RowTellsTheTruth
<1>1. IInv => RowTellsTheTruth
  BY DEF IInv
<1> QED
  BY <1>1, Invariance, PTL

(* What is on GitHub was approved by somebody before (reviews.py 205-261).  *)
THEOREM ApprovalComesFirst == Spec => []OnlyApprovedReachGitHub
<1>1. IInv => OnlyApprovedReachGitHub
  <2>1. SUFFICES ASSUME IInv, NEW b \in Branches, creator[b] # Nobody
                 PROVE  req[creator[b]].patch \in approvals
    BY DEF OnlyApprovedReachGitHub
  <2>2. creator[b] \in Requests
    BY <2>1 DEF IInv, TypeOK
  <2>3. req[creator[b]] \in Applications
    BY <2>1 DEF IInv, Owned
  <2> QED
    BY <2>1, <2>2, <2>3 DEF IInv, Approved
<1> QED
  BY <1>1, Invariance, PTL

-----------------------------------------------------------------------------
(* Work that is left behind *)

\* A request creates one branch: the one it is about.
Home == \A b \in Branches : creator[b] # Nobody => req[creator[b]].branch = b

WorkInv == IInv /\ Home /\ OnlyErrorsLeaveWork

(* An application that answers has passed through "mark".                   *)
FinishedAtMark(r) ==
  req[r] \in Applications =>
    /\ req'[r].branch = req[r].branch /\ req'[r].patch = req[r].patch
    /\ req'[r].at = "answered" =>
         req[r].at = "answered" \/ (req[r].at = "mark" /\ recorded'[req[r].patch] # NoBranch)

NewOwnerIsHome(b) ==
  \/ creator'[b] = creator[b]
  \/ \E r \in Requests : creator'[b] = r /\ req'[r].branch = b /\ req'[r].at # "answered"

(* Branches and rows stay accounted for by any step of this kind.           *)
LEMMA WorkFrame ==
  ASSUME WorkInv,
         \A r \in Requests : FinishedAtMark(r),
         \A b \in Branches : NewOwnerIsHome(b),
         \A b \in Branches : prs[b] \subseteq prs'[b],
         \A p \in Patches : recorded[p] # NoBranch => recorded'[p] # NoBranch
  PROVE  Home' /\ OnlyErrorsLeaveWork'
<1> USE DEF WorkInv, FinishedAtMark, NewOwnerIsHome
<1>1. ASSUME NEW b \in Branches, creator[b] # Nobody
      PROVE  creator[b] \in Requests /\ req[creator[b]] \in Applications
  BY <1>1 DEF IInv, TypeOK, Owned
<1>2. Home'
  BY <1>1 DEF Home
<1>3. ASSUME NEW b \in Branches, creator'[b] # Nobody, req'[creator'[b]].at = "answered"
      PROVE  prs'[b] # {} /\ recorded'[req'[creator'[b]].patch] # NoBranch
  <2> DEFINE r == creator[b]
  <2>1. creator'[b] = r /\ r \in Requests /\ req[r] \in Applications
        /\ req[r].patch \in Patches /\ req'[r].patch = req[r].patch /\ req[r].branch = b
    BY <1>1, <1>3, FieldsOf DEF Home
  <2>2. CASE req[r].at = "answered"
    BY <2>1, <2>2, <1>3 DEF OnlyErrorsLeaveWork
  <2>3. CASE req[r].at = "mark" /\ recorded'[req[r].patch] # NoBranch
    <3>1. r \in prs[b]
      BY <2>1, <2>3 DEF IInv, Owned
    <3> QED
      BY <2>1, <2>3, <3>1
  <2> QED
    BY <1>3, <2>1, <2>2, <2>3
<1> QED
  BY <1>2, <1>3 DEF OnlyErrorsLeaveWork

(* A step of an application that moves one request, from "mark" if to the   *)
(* answer.                                                                  *)
LEMMA WorkApply ==
  ASSUME WorkInv, NEW r \in Requests, req[r] \in Applications,
         NEW at \in {"branch", "commit", "open", "mark", "answered", "failed"}, Goto(r, at),
         at = "answered" => req[r].at = "mark" /\ recorded'[req[r].patch] # NoBranch,
         UNCHANGED creator \/ (at # "answered" /\ CreateRef(r)),
         \A b \in Branches : prs[b] \subseteq prs'[b],
         \A p \in Patches : recorded[p] # NoBranch => recorded'[p] # NoBranch
  PROVE  Home' /\ OnlyErrorsLeaveWork'
<1>1. /\ req'[r].at = at /\ req'[r].patch = req[r].patch /\ req'[r].branch = req[r].branch
      /\ \A s \in Requests : s # r => req'[s] = req[s]
  BY GotoApply DEF WorkInv, IInv
<1>2. \A s \in Requests : FinishedAtMark(s)
  BY <1>1 DEF FinishedAtMark
<1>3. \A b \in Branches : NewOwnerIsHome(b)
  BY <1>1 DEF NewOwnerIsHome, CreateRef, WorkInv, IInv, TypeOK
<1> QED
  BY <1>2, <1>3, WorkFrame

(* A step that leaves the applications and GitHub alone.                    *)
LEMMA WorkQuiet ==
  ASSUME WorkInv, UNCHANGED <<creator, prs, recorded>>,
         \A s \in Requests : req'[s] = req[s] \/ req[s] \notin Applications
  PROVE  Home' /\ OnlyErrorsLeaveWork'
<1>1. \A s \in Requests : FinishedAtMark(s)
  BY DEF FinishedAtMark
<1>2. \A b \in Branches : NewOwnerIsHome(b)
  BY DEF NewOwnerIsHome
<1> QED
  BY <1>1, <1>2, WorkFrame

(* Every step keeps branches and rows accounted for.                        *)
LEMMA WorkLemma ==
  ASSUME WorkInv, [Next]_vars
  PROVE  WorkInv'
<1> USE DEF gitHubVars, rowVars
<1>0. TypeOK
  BY DEF WorkInv, IInv
<1>1. CASE UNCHANGED vars \/ \E p \in Patches : Generate(p)
  BY <1>1, WorkQuiet, InvStep DEF WorkInv, vars, Generate
<1>2. ASSUME NEW r \in Requests, WriteDecision(r) \/ DecisionFails(r)
      PROVE  WorkInv'
  <2>1. req[r] \notin Applications
    BY <1>0, <1>2, KindOf DEF WriteDecision, DecisionFails
  <2>2. \A s \in Requests : s # r => req'[s] = req[s]
    BY <1>0, <1>2 DEF WriteDecision, DecisionFails, Goto, TypeOK
  <2> QED
    BY <1>2, <2>1, <2>2, WorkQuiet, InvStep DEF WorkInv, WriteDecision, DecisionFails
<1>3. ASSUME NEW r \in Requests, NEW p \in Patches,
             \/ \E verdict \in Verdicts : LoadToDecide(r, p, verdict)
             \/ \E pull \in Pulls : LoadToApply(r, p, pull) \/ LoadRaises(r, p, pull)
      PROVE  WorkInv'
  <2>1. req[r] \notin Applications
    BY <1>0, <1>3, KindOf DEF LoadToDecide, LoadToApply, LoadRaises, Sent
  <2>2. \A s \in Requests : s # r => req'[s] = req[s]
    BY <1>0, <1>3 DEF LoadToDecide, LoadToApply, LoadRaises, TypeOK
  <2> QED
    BY <1>3, <2>1, <2>2, WorkQuiet, InvStep DEF WorkInv, LoadToDecide, LoadToApply, LoadRaises
<1>4. ASSUME NEW r \in Requests, CreateFixBranch(r) \/ CommitFix(r) \/ OpenFixPr(r) \/ GitHubFails(r)
      PROVE  WorkInv'
  <2>1. req[r] \in Applications /\ recorded' = recorded
    BY <1>0, <1>4, KindOf DEF CreateFixBranch, CommitFix, OpenFixPr, GitHubFails, InGitHub
  <2>2. \A b \in Branches : prs[b] \subseteq prs'[b]
    BY <1>0, <1>4 DEF CreateFixBranch, CommitFix, OpenFixPr, GitHubFails,
       CreateRef, CommitFile, CreatePull, TypeOK
  <2>3. UNCHANGED creator \/ CreateRef(r)
    BY <1>4 DEF CreateFixBranch, CommitFix, OpenFixPr, GitHubFails, CommitFile, CreatePull
  <2>4. \E at \in {"commit", "open", "mark", "failed"} : Goto(r, at)
    BY <1>4 DEF CreateFixBranch, CommitFix, OpenFixPr, GitHubFails
  <2> QED
    BY <1>4, <2>1, <2>2, <2>3, <2>4, WorkApply, InvStep DEF WorkInv
<1>5. ASSUME NEW r \in Requests, MarkApplied(r) \/ MarkFails(r)
      PROVE  WorkInv'
  <2>1. req[r].at = "mark" /\ req[r] \in Applications /\ UNCHANGED <<creator, prs>>
    BY <1>0, <1>5, KindOf DEF MarkApplied, MarkFails
  <2>2. req[r].branch # NoBranch /\ req[r].patch \in Patches
    BY <2>1, FieldsOf, FixAssumption
  <2>3. \A p \in Patches : recorded[p] # NoBranch => recorded'[p] # NoBranch
    BY <1>0, <1>5, <2>2 DEF MarkApplied, MarkFails, Mark, TypeOK
  <2>4. \/ Goto(r, "failed")
        \/ Goto(r, "answered") /\ recorded'[req[r].patch] # NoBranch
    BY <1>0, <1>5, <2>2 DEF MarkApplied, MarkFails, Mark, TypeOK
  <2> QED
    BY <1>5, <2>1, <2>3, <2>4, WorkApply, InvStep DEF WorkInv
<1> QED
  BY <1>1, <1>2, <1>3, <1>4, <1>5 DEF Next

(* A branch without a pull request, or a pull request without a row, is the *)
(* work of a request that still runs or met an error, for any requests that *)
(* overlap (reviews.py 242-275).                                            *)
THEOREM NoSilentWork == Spec => []OnlyErrorsLeaveWork
<1>1. Init => WorkInv
  BY InvInit DEF Init, WorkInv, Home, OnlyErrorsLeaveWork
<1>2. WorkInv /\ [Next]_vars => WorkInv'
  BY WorkLemma
<1>3. WorkInv => OnlyErrorsLeaveWork
  BY DEF WorkInv
<1> QED
  BY <1>1, <1>2, <1>3, PTL DEF Spec
=============================================================================
