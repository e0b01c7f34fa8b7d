--------------------------- MODULE Pipeline_proofs ---------------------------
(***************************************************************************)
(* The pipeline, for any deliveries, processes and failures: what ends in  *)
(* fix_patches, although all runs of a commit work in one directory, and   *)
(* what the row of a pull request holds, although every run of it writes   *)
(* that row twice.                                                         *)
(*                                                                         *)
(* The files: as long as neither an error nor a crash nor a second         *)
(* process touched the directory of a commit, everybody who works in it    *)
(* shares an event loop, whose holder is alone.  Between two holders the   *)
(* directory is gone or has the commit, and so has what a fix starts from. *)
(*                                                                         *)
(* The line: jobs are taken in the order in which they stand in the queue, *)
(* so that where no job of a pull request was taken while a worker had     *)
(* another, the one in progress is behind all others of it that were ever  *)
(* taken, whatever it waits for at its semaphore, and so is the last to    *)
(* write the row.                                                          *)
(***************************************************************************)
EXTENDS Pipeline, Lists_proofs

Clean(r) == Commit(r) \notin spoiled

\* The variables are functions, which is all the argument needs of them.
Shape ==
  /\ at \in [Deliveries -> Places]
  /\ answer = [d \in Deliveries |-> answer[d]]
  /\ proc = [r \in Deliveries |-> proc[r]]
  /\ diff = [r \in Deliveries |-> diff[r]]
  /\ todo = [r \in Deliveries |-> todo[r]]
  /\ base = [r \in Deliveries |-> base[r]]
  /\ checked = [r \in Deliveries |-> checked[r]]
  /\ session = [r \in Deliveries |-> session[r]]
  /\ drafts = [r \in Deliveries |-> drafts[r]]
  /\ patches = [r \in Deliveries |-> patches[r]]
  /\ status = [r \in Deliveries |-> status[r]]
  /\ dir = [c \in Commits |-> dir[c]]
  /\ text = [c \in Commits |-> text[c]]

\* An event loop is held by one run at a time.
OneHolder ==
  \A r, o \in Deliveries :
     r # o /\ proc[r] = proc[o] => ~(at[r] \in Holding /\ at[o] \in Holding)

\* A delivery that was not answered has no run.
NoAnswerNoRun == \A d \in Deliveries : answer[d] = "none" => at[d] = "none"

\* Only a run with a diff gets to the fixes, or has any to make; there is none
\* before it is extracted.
FixesHaveDiff ==
  \A r \in Deliveries :
     /\ at[r] \in {"analyze", "fix", "generate", "checks", "store"} \/ todo[r] > 0
          => diff[r] = "diff"
     /\ at[r] \in {"none", "waiting", "semaphore", "create", "check", "mkdir", "clone", "checkout",
                 "extract"}
          => diff[r] = "none"

\* Those who work in a clean directory are in one process ...
OneProcess ==
  \A r, o \in Deliveries :
     Commit(r) = Commit(o) /\ Clean(r) /\ Using(r) /\ Using(o) => proc[r] = proc[o]

\* ... and who makes the clone is alone.
ClonerIsAlone ==
  \A r, o \in Deliveries :
     /\ r # o /\ Commit(r) = Commit(o) /\ Clean(r)
     /\ at[r] \in {"mkdir", "clone", "checkout"}
     => ~Using(o)

\* What a run finds in its directory at each place.
PlaceAndDirectory ==
  \A r \in Deliveries : Clean(r) =>
     /\ at[r] = "mkdir" => dir[Commit(r)] = "absent"
     /\ at[r] = "clone" => dir[Commit(r)] = "empty"
     /\ at[r] \in {"checkout", "extract"} => dir[Commit(r)] = "repo"
     /\ Using(r) /\ diff[r] = "diff" => dir[Commit(r)] = "repo"
     /\ at[r] = "checks" => text[Commit(r)] = r

\* While nobody changes it a clean directory is gone or has the commit.
QuietDirectory ==
  \A c \in Commits :
     c \notin spoiled /\ (\A o \in Deliveries : Commit(o) = c => at[o] \notin Changing)
       => dir[c] = "absent" \/ (dir[c] = "repo" /\ text[c] \in AsCommitted(c))

\* The fix in the making.
GoodFix ==
  \A r \in Deliveries : Clean(r) =>
     /\ at[r] \in {"generate", "checks", "store"} => base[r] = "commit"
     /\ at[r] = "store" => checked[r] = r

OwnFix(r) == [base |-> "commit", checked |-> r]

GoodPatches ==
  \A r \in Deliveries : Clean(r) =>
     drafts[r] \subseteq {OwnFix(r)} /\ patches[r] \subseteq {OwnFix(r)}

WorkspaceInv ==
  /\ NoAnswerNoRun /\ FixesHaveDiff /\ OneHolder /\ OneProcess /\ ClonerIsAlone
  /\ PlaceAndDirectory /\ QuietDirectory /\ GoodFix /\ GoodPatches

\* Patches appear in one step, at the end of the session, and stay.
StoreInv ==
  \A r \in Deliveries :
     /\ at[r] \in {"fix", "generate", "checks", "store"} => r \in stored
     /\ r \in stored => status[r] # "none"
     /\ patches[r] # {} =>
          /\ r \in stored
          /\ at[r] \in {"mark", "buried", "dead"}
          /\ at[r] = "mark" => session[r] = "ok" /\ patches[r] = drafts[r]

IInv == Shape /\ WorkspaceInv /\ StoreInv

(* Both are the text of the commit.                                         *)
LEMMA CommitTexts ==
  \A c : /\ Committed(c) \in AsCommitted(c) /\ "commit" \in AsCommitted(c)
         /\ \A content \in AsCommitted(c) : Universal(content) = "commit"
BY DEF AsCommitted, Committed, Universal

USE DEF Goto, Fault, Spoil, CanWrite, Forget, NextFinding,
        intakeVars, cloneVars, runVars, dbVars, historyVars, vars, restOfDelivery, afterPop,
        cloneStep, postStep, persistStep, fixStep, commitStep, markStep

-----------------------------------------------------------------------------
(* Steps that leave the files alone *)

Same(o) == at'[o] = at[o] /\ proc'[o] = proc[o] /\ diff'[o] = diff[o]

\* The run lets go of the event loop and of what it was changing, and does not
\* begin to use a directory.
Leaves(o) ==
  /\ at'[o] \notin Holding
  /\ at[o] \in Changing => Commit(o) \in spoiled'
  /\ Using(o)' => /\ Using(o) /\ proc'[o] = proc[o]
                  /\ diff'[o] = "diff" => dir[Commit(o)] = "repo" \/ diff[o] = "diff"

OutsideStep ==
  /\ UNCHANGED <<dir, text>> /\ spoiled \subseteq spoiled' /\ shared \subseteq shared'
  /\ \A o \in Deliveries : Same(o) \/ Leaves(o)

(* A step that changes no file, and lets go where it moves, keeps the       *)
(* directories as they have to be.                                          *)
LEMMA OutsideLemma ==
  ASSUME WorkspaceInv, OutsideStep
  PROVE  OneHolder' /\ OneProcess' /\ ClonerIsAlone' /\ PlaceAndDirectory' /\ QuietDirectory'
<1> USE DEF WorkspaceInv, OutsideStep, Clean
<1>0. ASSUME NEW o \in Deliveries, Using(o)'
      PROVE  Using(o) /\ proc'[o] = proc[o]
  BY <1>0 DEF Same, Leaves, Using
<1>1. OneHolder'
  BY DEF OneHolder, Same, Leaves
<1>2. OneProcess'
  BY <1>0 DEF OneProcess
<1>3. ClonerIsAlone'
  BY <1>0 DEF ClonerIsAlone, Same, Leaves, Holding
<1>4. PlaceAndDirectory'
  BY <1>0 DEF PlaceAndDirectory, Same, Leaves, Holding
<1>5. QuietDirectory'
  BY DEF QuietDirectory, Same, Leaves
<1> QED
  BY <1>1, <1>2, <1>3, <1>4, <1>5

(* A run that only walks on, or whose process dies, takes such a step.      *)
LEMMA WalkLemma ==
  ASSUME Shape, NEW r \in Deliveries,
         \/ Start(r) \/ Create(r) \/ CreateFails(r) \/ CloneRaises(r) \/ Extract(r) \/ ExtractFails(r)
         \/ AnalysisEnds(r) \/ Post(r) \/ ReviewRefused(r) \/ Fallback(r) \/ PostFails(r)
         \/ Persist(r) \/ PersistFails(r)
  PROVE  OutsideStep
<1> USE DEF OutsideStep, Same, Leaves, Using, Holding, Changing, Shape
<1>1. CASE Start(r) \/ Create(r) \/ CreateFails(r)
  BY <1>1 DEF Start, Create, CreateFails
<1>2. CASE CloneRaises(r) \/ Extract(r) \/ ExtractFails(r)
  BY <1>2 DEF CloneRaises, Extract, ExtractFails
<1>3. CASE AnalysisEnds(r)
  BY <1>3 DEF AnalysisEnds
<1>4. CASE Post(r) \/ ReviewRefused(r) \/ Fallback(r) \/ PostFails(r)
  BY <1>4 DEF Post, ReviewRefused, Fallback, PostFails
<1>5. CASE Persist(r) \/ PersistFails(r)
  BY <1>5 DEF Persist, PersistFails
<1> QED
  BY <1>1, <1>2, <1>3, <1>4, <1>5

LEMMA FixWalkLemma ==
  ASSUME Shape, WorkspaceInv, NEW r \in Deliveries,
         \/ ReadOriginal(r) \/ NoOriginal(r) \/ NoFix(r) \/ CannotWriteFix(r) \/ StorePatch(r)
         \/ FlushFails(r) \/ FlushRefused(r) \/ CommitFixes(r) \/ CommitFixesFails(r)
         \/ Bury(r) \/ Requeue(r)
  PROVE  OutsideStep
<1> USE DEF OutsideStep, Same, Leaves, Using, Holding, Changing, Shape
<1>1. at[r] \in {"fix", "generate", "store"} => diff[r] = "diff"
  BY DEF WorkspaceInv, FixesHaveDiff
<1>2. CASE ReadOriginal(r) \/ NoOriginal(r) \/ NoFix(r)
  BY <1>1, <1>2 DEF ReadOriginal, NoOriginal, NoFix
<1>3. CASE CannotWriteFix(r)
  BY <1>1, <1>3 DEF CannotWriteFix
<1>4. CASE StorePatch(r) \/ FlushFails(r) \/ FlushRefused(r)
  BY <1>1, <1>4 DEF StorePatch, FlushFails, FlushRefused
<1>5. CASE CommitFixes(r) \/ CommitFixesFails(r)
  BY <1>5 DEF CommitFixes, CommitFixesFails
<1>6. CASE Bury(r) \/ Requeue(r)
  BY <1>6 DEF Bury, Requeue
<1> QED
  BY <1>2, <1>3, <1>4, <1>5, <1>6

LEMMA OthersWalkLemma ==
  ASSUME Shape, WorkspaceInv,
         \/ \E d \in Deliveries : Deliver(d) \/ PopAny(d)
         \/ \E p \in Processes : Crash(p)
  PROVE  OutsideStep
<1> USE DEF OutsideStep, Same, Leaves, Using, Holding, Changing, Shape
<1>1. CASE \E d \in Deliveries : Deliver(d)
  BY <1>1 DEF Deliver, DeliverRefused, DeliverAccepted, DeliverFails, Accept, EnqueueFails,
     WorkspaceInv, NoAnswerNoRun
<1>2. CASE \E d \in Deliveries : PopAny(d)
  BY <1>2 DEF PopAny, Pop, NextInLine
<1>3. CASE \E p \in Processes : Crash(p)
  BY <1>3 DEF Crash, InProgress
<1> QED
  BY <1>1, <1>2, <1>3

-----------------------------------------------------------------------------
(* Steps that change a directory *)

FilesInv == OneHolder /\ OneProcess /\ ClonerIsAlone /\ PlaceAndDirectory /\ QuietDirectory

(* Who enters an existing clone finds the commit; who finds none is alone.  *)
LEMMA CheckLemma ==
  ASSUME Shape, WorkspaceInv, NEW r \in Deliveries, Check(r)
  PROVE  FilesInv'
<1> USE DEF Clean, Shape
<1> DEFINE c == Commit(r)
<1>1. /\ at[r] = "check"
      /\ at' = [at EXCEPT ![r] = IF dir[c] = "absent" THEN "mkdir" ELSE "extract"]
      /\ UNCHANGED <<dir, text, proc, diff>> /\ spoiled \subseteq spoiled'
      /\ \A o \in Deliveries \ {r} : proc[o] = proc[r] => at[o] \notin Holding
  BY DEF Check, LoopFree
<1>2. c \notin spoiled' =>
        \A o \in Deliveries \ {r} : Commit(o) = c /\ Using(o) => proc[o] = proc[r]
  BY DEF Check, Users
<1>3. c \notin spoiled' =>
        \A o \in Deliveries \ {r} : Commit(o) = c /\ Using(o) =>
           at[o] \notin Holding /\ diff[o] = "diff"
  BY <1>1, <1>2 DEF Using, Holding
<1>4. c \notin spoiled' => dir[c] = "absent" \/ (dir[c] = "repo" /\ text[c] \in AsCommitted(c))
  <2>1. ASSUME c \notin spoiled', NEW o \in Deliveries, Commit(o) = c
        PROVE  at[o] \notin Changing
    BY <1>1, <1>3, <2>1 DEF WorkspaceInv, FixesHaveDiff, Using, Holding, Changing
  <2> QED
    BY <1>1, <2>1, PipelineAssumption DEF WorkspaceInv, QuietDirectory
<1>5. c \notin spoiled' /\ dir[c] = "absent" =>
        \A o \in Deliveries \ {r} : Commit(o) = c => ~Using(o)
  BY <1>1, <1>3 DEF WorkspaceInv, PlaceAndDirectory
<1>6. \A o \in Deliveries \ {r} : at'[o] = at[o] /\ (Using(o)' <=> Using(o))
  BY <1>1 DEF Using
<1>7. at'[r] = IF dir[c] = "absent" THEN "mkdir" ELSE "extract"
  BY <1>1
<1>8. OneHolder'
  BY <1>1, <1>6 DEF WorkspaceInv, OneHolder
<1>9. OneProcess'
  BY <1>1, <1>2, <1>6 DEF WorkspaceInv, OneProcess
<1>10. ClonerIsAlone'
  BY <1>1, <1>3, <1>5, <1>6, <1>7 DEF WorkspaceInv, ClonerIsAlone, Using, Holding
<1>11. PlaceAndDirectory'
  BY <1>1, <1>4, <1>6, <1>7 DEF WorkspaceInv, PlaceAndDirectory, FixesHaveDiff
<1>12. QuietDirectory'
  BY <1>1, <1>6, <1>7 DEF WorkspaceInv, QuietDirectory, Changing
<1> QED
  BY <1>8, <1>9, <1>10, <1>11, <1>12 DEF FilesInv

(* Who makes the clone works in a directory nobody else is in.              *)
LEMMA CloneLemma ==
  ASSUME Shape, WorkspaceInv, NEW r \in Deliveries,
         Mkdir(r) \/ Clone(r) \/ GitFails(r) \/ Checkout(r)
  PROVE  FilesInv'
<1> USE DEF Clean, Shape
<1> DEFINE c == Commit(r)
<1>0. c \in Commits
  BY PipelineAssumption
<1>1. at[r] \in {"mkdir", "clone", "checkout"} /\ UNCHANGED <<proc, diff, spoiled>>
  BY DEF Mkdir, Clone, GitFails, Checkout
<1>2. diff[r] = "none"
  BY <1>1 DEF WorkspaceInv, FixesHaveDiff
<1>3. \A o \in Deliveries \ {r} : at'[o] = at[o] /\ (Using(o)' <=> Using(o))
  BY DEF Mkdir, Clone, GitFails, Checkout, Using
<1>4. \A q \in Commits : q # c => dir'[q] = dir[q] /\ text'[q] = text[q]
  BY DEF Mkdir, MakeDir, Clone, GitClone, GitFails, RemoveTree, Checkout, GitCheckout
<1>5. \/ at'[r] = "clone" /\ (dir[c] = "absent" => dir'[c] = "empty") /\ at[r] = "mkdir"
      \/ at'[r] = "checkout" /\ dir'[c] = "repo" /\ at[r] = "clone"
      \/ at'[r] = "post" /\ dir'[c] = "absent"
      \/ at'[r] = "extract" /\ dir'[c] = "repo" /\ text'[c] \in AsCommitted(c)
  BY <1>0, CommitTexts DEF Mkdir, MakeDir, Clone, GitClone, GitFails, RemoveTree, Checkout, GitCheckout
<1>6. Using(r)' => Using(r)
  BY <1>1, <1>2 DEF Using
<1>7. c \notin spoiled => \A o \in Deliveries \ {r} : Commit(o) = c => ~Using(o)
  BY <1>1 DEF WorkspaceInv, ClonerIsAlone
<1>8. OneHolder'
  BY <1>1, <1>3 DEF WorkspaceInv, OneHolder, Holding
<1>9. OneProcess'
  BY <1>1, <1>3, <1>6 DEF WorkspaceInv, OneProcess
<1>10. ClonerIsAlone'
  BY <1>1, <1>3, <1>6, <1>7 DEF WorkspaceInv, ClonerIsAlone, Using
<1>11. PlaceAndDirectory'
  <2> SUFFICES ASSUME NEW o \in Deliveries, Commit(o) \notin spoiled'
               PROVE  /\ at'[o] = "mkdir" => dir'[Commit(o)] = "absent"
                      /\ at'[o] = "clone" => dir'[Commit(o)] = "empty"
                      /\ at'[o] \in {"checkout", "extract"} => dir'[Commit(o)] = "repo"
                      /\ Using(o)' /\ diff'[o] = "diff" => dir'[Commit(o)] = "repo"
                      /\ at'[o] = "checks" => text'[Commit(o)] = o
    BY DEF PlaceAndDirectory
  <2>1. CASE o = r
    BY <1>1, <1>2, <1>5, <2>1 DEF WorkspaceInv, PlaceAndDirectory
  <2>2. CASE o # r /\ Commit(o) # c
    BY <1>1, <1>3, <1>4, <2>2, PipelineAssumption DEF WorkspaceInv, PlaceAndDirectory
  <2>3. CASE o # r /\ Commit(o) = c
    <3>1. ~Using(o) /\ ~Using(o)' /\ at'[o] = at[o]
      BY <1>1, <1>3, <1>7, <2>3
    <3>2. at[o] \notin {"mkdir", "clone", "checkout", "extract"} /\ ~(at[o] = "checks")
      BY <3>1 DEF Using, WorkspaceInv, FixesHaveDiff
    <3> QED
      BY <3>1, <3>2
  <2> QED
    BY <2>1, <2>2, <2>3
<1>12. QuietDirectory'
  <2> SUFFICES ASSUME NEW q \in Commits, q \notin spoiled',
                      \A o \in Deliveries : Commit(o) = q => at'[o] \notin Changing
               PROVE  dir'[q] = "absent" \/ (dir'[q] = "repo" /\ text'[q] \in AsCommitted(q))
    BY DEF QuietDirectory
  <2>1. CASE q = c
    BY <1>5, <2>1 DEF Changing
  <2>2. CASE q # c
    BY <1>1, <1>3, <1>4, <2>2 DEF WorkspaceInv, QuietDirectory
  <2> QED
    BY <2>1, <2>2
<1> QED
  BY <1>8, <1>9, <1>10, <1>11, <1>12 DEF FilesInv

(* A validation begins in a quiet directory and leaves one behind.          *)
LEMMA ValidationLemma ==
  ASSUME Shape, WorkspaceInv, GoodFix, NEW r \in Deliveries, WriteFix(r) \/ Validate(r)
  PROVE  FilesInv'
<1> USE DEF Clean, Shape
<1> DEFINE c == Commit(r)
<1>0. c \in Commits
  BY PipelineAssumption
<1>1. /\ at[r] \in {"generate", "checks"} /\ diff[r] = "diff"
      /\ UNCHANGED <<proc, diff>> /\ spoiled \subseteq spoiled'
  BY DEF WriteFix, Validate, WorkspaceInv, FixesHaveDiff
<1>2. Using(r)
  BY <1>1 DEF Using
<1>3. \A o \in Deliveries \ {r} : at'[o] = at[o] /\ (Using(o)' <=> Using(o))
  BY DEF WriteFix, Validate, Using
<1>4. /\ \A q \in Commits : dir'[q] = dir[q]
      /\ \A q \in Commits : q # c => text'[q] = text[q]
  BY DEF WriteFix, Validate, Write
<1>5. c \notin spoiled => dir[c] = "repo"
  BY <1>1, <1>2 DEF WorkspaceInv, PlaceAndDirectory
<1>6. c \notin spoiled' =>
        \/ at[r] = "generate" /\ at'[r] = "checks" /\ text'[c] = r
        \/ at[r] = "checks" /\ at'[r] = "store" /\ text'[c] \in AsCommitted(c)
  BY <1>0, <1>1, <1>5, CommitTexts DEF WriteFix, Validate, Write, GoodFix
<1>7. at'[r] \in {"checks", "store"}
  BY DEF WriteFix, Validate
<1>8. \A o \in Deliveries \ {r} : proc[o] = proc[r] => at[o] \notin Holding
  BY <1>1 DEF WriteFix, LoopFree, Validate, WorkspaceInv, OneHolder, Holding
<1>9. c \notin spoiled =>
        \A o \in Deliveries \ {r} : Commit(o) = c => at[o] \notin Holding
  <2> SUFFICES ASSUME c \notin spoiled, NEW o \in Deliveries \ {r}, Commit(o) = c,
                      at[o] \in Holding
               PROVE  FALSE
    OBVIOUS
  <2>1. Using(o)
    BY DEF Using, Holding, WorkspaceInv, FixesHaveDiff
  <2> QED
    BY <1>2, <1>8, <2>1 DEF WorkspaceInv, OneProcess
<1>10. OneHolder'
  BY <1>1, <1>3, <1>8 DEF WorkspaceInv, OneHolder
<1>11. OneProcess'
  BY <1>1, <1>2, <1>3 DEF WorkspaceInv, OneProcess
<1>12. ClonerIsAlone'
  BY <1>1, <1>2, <1>3, <1>7 DEF WorkspaceInv, ClonerIsAlone
<1>13. PlaceAndDirectory'
  <2> SUFFICES ASSUME NEW o \in Deliveries, Commit(o) \notin spoiled'
               PROVE  /\ at'[o] = "mkdir" => dir'[Commit(o)] = "absent"
                      /\ at'[o] = "clone" => dir'[Commit(o)] = "empty"
                      /\ at'[o] \in {"checkout", "extract"} => dir'[Commit(o)] = "repo"
                      /\ Using(o)' /\ diff'[o] = "diff" => dir'[Commit(o)] = "repo"
                      /\ at'[o] = "checks" => text'[Commit(o)] = o
    BY DEF PlaceAndDirectory
  <2>1. CASE o = r
    BY <1>0, <1>1, <1>4, <1>5, <1>6, <1>7, <2>1
  <2>2. CASE o # r /\ Commit(o) # c
    BY <1>1, <1>3, <1>4, <2>2, PipelineAssumption DEF WorkspaceInv, PlaceAndDirectory
  <2>3. CASE o # r /\ Commit(o) = c
    BY <1>0, <1>1, <1>3, <1>4, <1>9, <2>3 DEF WorkspaceInv, PlaceAndDirectory, Holding
  <2> QED
    BY <2>1, <2>2, <2>3
<1>14. QuietDirectory'
  <2> SUFFICES ASSUME NEW q \in Commits, q \notin spoiled',
                      \A o \in Deliveries : Commit(o) = q => at'[o] \notin Changing
               PROVE  dir'[q] = "absent" \/ (dir'[q] = "repo" /\ text'[q] \in AsCommitted(q))
    BY DEF QuietDirectory
  <2>1. CASE q = c
    BY <1>0, <1>1, <1>4, <1>5, <1>6, <2>1 DEF Changing
  <2>2. CASE q # c
    BY <1>1, <1>3, <1>4, <2>2 DEF WorkspaceInv, QuietDirectory
  <2> QED
    BY <2>1, <2>2
<1> QED
  BY <1>10, <1>11, <1>12, <1>13, <1>14 DEF FilesInv

(* Every step keeps the directories as they have to be.                     *)
LEMMA FilesLemma ==
  ASSUME Shape, WorkspaceInv, Next
  PROVE  FilesInv'
<1>1. OutsideStep => FilesInv'
  BY OutsideLemma DEF FilesInv
<1>2. ASSUME NEW r \in Deliveries, WorkspaceStep(r)
      PROVE  FilesInv'
  <2>1. CASE Check(r)
    BY <2>1, CheckLemma
  <2>2. CASE Mkdir(r) \/ Clone(r) \/ GitFails(r) \/ Checkout(r)
    BY <2>2, CloneLemma
  <2>3. CASE CloneRaises(r) \/ Extract(r) \/ ExtractFails(r)
    BY <1>1, <2>3, WalkLemma
  <2> QED
    BY <1>2, <2>1, <2>2, <2>3 DEF WorkspaceStep
<1>3. ASSUME NEW r \in Deliveries, FixStep(r)
      PROVE  FilesInv'
  <2>1. CASE WriteFix(r) \/ Validate(r)
    BY <2>1, ValidationLemma DEF WorkspaceInv
  <2>2. CASE ~(WriteFix(r) \/ Validate(r))
    BY <1>1, <1>3, <2>2, FixWalkLemma DEF FixStep
  <2> QED
    BY <2>1, <2>2
<1>4. ASSUME NEW r \in Deliveries, RunStep(r)
      PROVE  FilesInv'
  <2>1. CASE WorkspaceStep(r) \/ FixStep(r)
    BY <1>2, <1>3, <2>1
  <2>2. CASE Bury(r) \/ Requeue(r)
    BY <1>1, <2>2, FixWalkLemma
  <2>3. CASE ~(WorkspaceStep(r) \/ FixStep(r) \/ Bury(r) \/ Requeue(r))
    BY <1>1, <1>4, <2>3, WalkLemma DEF RunStep
  <2> QED
    BY <2>1, <2>2, <2>3
<1>5. CASE \/ \E d \in Deliveries : Deliver(d) \/ PopAny(d)
           \/ \E p \in Processes : Crash(p)
  BY <1>1, <1>5, OthersWalkLemma
<1> QED
  BY <1>4, <1>5 DEF Next

-----------------------------------------------------------------------------
(* Where the runs are *)

LocalInv == Shape /\ NoAnswerNoRun /\ FixesHaveDiff

(* The variables stay functions, a delivery is answered before it runs, and *)
(* a run has a diff when it comes to the fixes.                             *)
LEMMA LocalDeliver ==
  ASSUME LocalInv, NEW d \in Deliveries, Deliver(d) \/ PopAny(d)
  PROVE  LocalInv'
<1> USE DEF LocalInv, Places, Ended
<1>1. CASE Deliver(d)
  <2>1. /\ UNCHANGED <<dir, text, proc, diff, todo, base, checked, session, drafts, patches, status>>
        /\ at' = at \/ at' = [at EXCEPT ![d] = "waiting"]
        /\ \E v : answer' = [answer EXCEPT ![d] = v] /\ v # "none"
        /\ answer[d] = "none"
    <3>0. Verdict(d) # "none"
      BY DEF Verdict
    <3>1. CASE DeliverRefused(d)
      BY <3>0, <3>1 DEF DeliverRefused, Refuse
    <3>2. CASE DeliverAccepted(d)
      BY <3>2 DEF DeliverAccepted, Accept
    <3>3. CASE DeliverFails(d)
      BY <3>3 DEF DeliverFails, EnqueueFails
    <3> QED
      BY <1>1, <3>1, <3>2, <3>3 DEF Deliver
  <2>2. Shape'
    BY <2>1 DEF Shape
  <2>3. NoAnswerNoRun'
    BY <2>1 DEF Shape, NoAnswerNoRun
  <2>4. FixesHaveDiff'
    BY <2>1 DEF Shape, NoAnswerNoRun, FixesHaveDiff
  <2> QED
    BY <2>2, <2>3, <2>4
<1>2. CASE PopAny(d)
  <2>1. /\ UNCHANGED <<answer, dir, text, diff, todo, base, checked, session, drafts, patches, status>>
        /\ at[d] = "waiting" /\ at' = [at EXCEPT ![d] = "semaphore"]
        /\ \E p : proc' = [proc EXCEPT ![d] = p]
    BY <1>2 DEF PopAny, Pop, NextInLine
  <2>2. Shape'
    BY <2>1 DEF Shape
  <2>3. NoAnswerNoRun'
    BY <2>1 DEF Shape, NoAnswerNoRun
  <2>4. FixesHaveDiff'
    BY <2>1 DEF Shape, FixesHaveDiff
  <2> QED
    BY <2>2, <2>3, <2>4
<1> QED
  BY <1>1, <1>2

LEMMA LocalWalk ==
  ASSUME LocalInv, NEW r \in Deliveries,
         \/ Start(r) \/ Create(r) \/ CreateFails(r) \/ WorkspaceStep(r)
         \/ AnalysisEnds(r) \/ Post(r) \/ ReviewRefused(r) \/ Fallback(r) \/ PostFails(r)
         \/ Persist(r) \/ PersistFails(r)
  PROVE  LocalInv'
<1> USE DEF LocalInv, Shape, NoAnswerNoRun, FixesHaveDiff, Places, Ended
<1>1. CASE Start(r) \/ Create(r) \/ CreateFails(r)
  BY <1>1 DEF Start, Create, CreateFails, WriteReview
<1>2. CASE Check(r)
  BY <1>2 DEF Check
<1>3. CASE Mkdir(r) \/ Clone(r)
  BY <1>3 DEF Mkdir, MakeDir, Clone, GitClone
<1>4. CASE GitFails(r) \/ Checkout(r)
  BY <1>4 DEF GitFails, RemoveTree, Checkout, GitCheckout
<1>5. CASE CloneRaises(r) \/ Extract(r) \/ ExtractFails(r)
  BY <1>5 DEF CloneRaises, Extract, ExtractFails
<1>6. CASE AnalysisEnds(r)
  BY <1>6 DEF AnalysisEnds
<1>7. CASE Post(r) \/ ReviewRefused(r) \/ Fallback(r) \/ PostFails(r)
  BY <1>7 DEF Post, ReviewRefused, Fallback, PostFails
<1>8. CASE Persist(r) \/ PersistFails(r)
  BY <1>8 DEF Persist, PersistFails, StoreResults
<1> QED
  BY <1>1, <1>2, <1>3, <1>4, <1>5, <1>6, <1>7, <1>8 DEF WorkspaceStep

LEMMA LocalFix ==
  ASSUME LocalInv, NEW r \in Deliveries, FixStep(r)
  PROVE  LocalInv'
<1> USE DEF LocalInv, Shape, NoAnswerNoRun, FixesHaveDiff, Places, Ended
<1>1. CASE ReadOriginal(r)
  BY <1>1 DEF ReadOriginal
<1>2. CASE NoOriginal(r) \/ NoFix(r)
  BY <1>2 DEF NoOriginal, NoFix
<1>3. CASE WriteFix(r)
  BY <1>3 DEF WriteFix, Write
<1>4. CASE CannotWriteFix(r)
  BY <1>4 DEF CannotWriteFix
<1>5. CASE Validate(r)
  BY <1>5 DEF Validate, Write
<1>6. CASE StorePatch(r)
  BY <1>6 DEF StorePatch
<1>7. CASE FlushFails(r) \/ FlushRefused(r)
  BY <1>7 DEF FlushFails, FlushRefused
<1>8. CASE CommitFixes(r) \/ CommitFixesFails(r)
  BY <1>8 DEF CommitFixes, CommitFixesFails
<1> QED
  BY <1>1, <1>2, <1>3, <1>4, <1>5, <1>6, <1>7, <1>8 DEF FixStep

LEMMA LocalEnd ==
  ASSUME LocalInv,
         \/ \E r \in Deliveries : Bury(r) \/ Requeue(r)
         \/ \E p \in Processes : Crash(p)
  PROVE  LocalInv'
<1> USE DEF LocalInv, Shape, NoAnswerNoRun, FixesHaveDiff, Places, Ended
<1>1. CASE \E r \in Deliveries : Bury(r)
  BY <1>1 DEF Bury, MarkFailed
<1>2. CASE \E r \in Deliveries : Requeue(r)
  BY <1>2 DEF Requeue
<1>3. CASE \E p \in Processes : Crash(p)
  BY <1>3 DEF Crash, InProgress
<1> QED
  BY <1>1, <1>2, <1>3

(* Every step keeps this.                                                   *)
LEMMA LocalLemma ==
  ASSUME LocalInv, Next
  PROVE  LocalInv'
<1>1. CASE \E d \in Deliveries : Deliver(d) \/ PopAny(d)
  BY <1>1, LocalDeliver
<1>2. CASE \E r \in Deliveries : RunStep(r)
  BY <1>2, LocalWalk, LocalFix, LocalEnd DEF RunStep
<1>3. CASE \E p \in Processes : Crash(p)
  BY <1>3, LocalEnd
<1> QED
  BY <1>1, <1>2, <1>3 DEF Next

-----------------------------------------------------------------------------
(* The fix in the making, and the patches *)

Making == {"generate", "checks", "store"}

KeptFix(o) ==
  /\ patches'[o] = patches[o]
  /\ \/ drafts'[o] = drafts[o] /\ at'[o] = at[o] /\ base'[o] = base[o] /\ checked'[o] = checked[o]
     \/ drafts'[o] \subseteq drafts[o] /\ at'[o] \notin Making

KeepStep == spoiled \subseteq spoiled' /\ \A o \in Deliveries : KeptFix(o)

(* A step that makes no fix and no patch spoils none.                       *)
LEMMA KeepLemma ==
  ASSUME GoodFix, GoodPatches, KeepStep
  PROVE  GoodFix' /\ GoodPatches'
<1> USE DEF KeepStep, KeptFix, Making, Clean
<1>1. GoodFix'
  BY DEF GoodFix
<1>2. GoodPatches'
  BY DEF GoodPatches
<1> QED
  BY <1>1, <1>2

(* Before the fixes no step makes one.                                      *)
LEMMA EarlyKeeps ==
  ASSUME Shape, NEW r \in Deliveries,
         \/ Deliver(r) \/ PopAny(r) \/ Start(r) \/ Create(r) \/ CreateFails(r) \/ WorkspaceStep(r)
         \/ AnalysisEnds(r) \/ Post(r) \/ ReviewRefused(r) \/ Fallback(r) \/ PostFails(r)
         \/ Persist(r) \/ PersistFails(r)
  PROVE  KeepStep
<1> USE DEF KeepStep, KeptFix, Making, Shape
<1>1. CASE Deliver(r)
  BY <1>1 DEF Deliver, DeliverRefused, DeliverAccepted, DeliverFails
<1>2. CASE PopAny(r)
  BY <1>2 DEF PopAny, Pop
<1>3. CASE Start(r) \/ Create(r) \/ CreateFails(r)
  BY <1>3 DEF Start, Create, CreateFails, WriteReview
<1>4. CASE Check(r) \/ Mkdir(r) \/ Clone(r) \/ GitFails(r) \/ Checkout(r)
  BY <1>4 DEF Check, Mkdir, Clone, GitFails, Checkout
<1>5. CASE CloneRaises(r) \/ Extract(r) \/ ExtractFails(r)
  BY <1>5 DEF CloneRaises, Extract, ExtractFails
<1>6. CASE AnalysisEnds(r)
  BY <1>6 DEF AnalysisEnds
<1>7. CASE Post(r) \/ ReviewRefused(r) \/ Fallback(r) \/ PostFails(r)
  BY <1>7 DEF Post, ReviewRefused, Fallback, PostFails
<1>8. CASE Persist(r) \/ PersistFails(r)
  BY <1>8 DEF Persist, PersistFails
<1> QED
  BY <1>1, <1>2, <1>3, <1>4, <1>5, <1>6, <1>7, <1>8 DEF WorkspaceStep

LEMMA LateKeeps ==
  ASSUME Shape,
         \/ \E r \in Deliveries :
              \/ NoOriginal(r) \/ NoFix(r) \/ FlushFails(r) \/ FlushRefused(r)
              \/ CommitFixesFails(r) \/ Bury(r) \/ Requeue(r)
         \/ \E p \in Processes : Crash(p)
  PROVE  KeepStep
<1> USE DEF KeepStep, KeptFix, Making, Shape
<1>1. CASE \E r \in Deliveries : NoOriginal(r) \/ NoFix(r)
  BY <1>1 DEF NoOriginal, NoFix
<1>2. CASE \E r \in Deliveries : FlushFails(r) \/ FlushRefused(r) \/ CommitFixesFails(r)
  BY <1>2 DEF FlushFails, FlushRefused, CommitFixesFails
<1>3. CASE \E r \in Deliveries : Bury(r) \/ Requeue(r)
  BY <1>3 DEF Bury, Requeue
<1>4. CASE \E p \in Processes : Crash(p)
  BY <1>4 DEF Crash
<1> QED
  BY <1>1, <1>2, <1>3, <1>4

(* A fix starts from the commit, and what is checked is this fix.           *)
LEMMA MakingLemma ==
  ASSUME Shape, WorkspaceInv, NEW r \in Deliveries,
         ReadOriginal(r) \/ WriteFix(r) \/ CannotWriteFix(r) \/ Validate(r)
  PROVE  GoodFix' /\ GoodPatches'
<1> DEFINE c == Commit(r)
<1> USE DEF Clean, Shape
<1>0. c \in Commits
  BY PipelineAssumption
<1>1. /\ UNCHANGED <<drafts, patches>> /\ spoiled \subseteq spoiled'
      /\ \A o \in Deliveries \ {r} :
           at'[o] = at[o] /\ base'[o] = base[o] /\ checked'[o] = checked[o]
  BY DEF ReadOriginal, WriteFix, CannotWriteFix, Validate
<1>2. GoodPatches'
  BY <1>1 DEF WorkspaceInv, GoodPatches
<1>3. ASSUME c \notin spoiled'
      PROVE  /\ at'[r] \in {"generate", "checks", "store"} => base'[r] = "commit"
             /\ at'[r] = "store" => checked'[r] = r
  <2>0. c \notin spoiled
    BY <1>1, <1>3
  <2>1. CASE ReadOriginal(r)
    <3>1. at[r] = "fix" /\ LoopFree(r) /\ dir[c] = "repo" /\ diff[r] = "diff"
      BY <2>1 DEF ReadOriginal, WorkspaceInv, FixesHaveDiff
    <3>2. ASSUME NEW o \in Deliveries, Commit(o) = c
          PROVE  at[o] \notin Changing
      <4>1. CASE o = r
        BY <3>1, <4>1 DEF Changing
      <4>2. CASE o # r
        <5> SUFFICES ASSUME at[o] \in Changing PROVE FALSE
          OBVIOUS
        <5>1. Using(o) /\ Using(r) /\ at[o] \in Holding
          BY <3>1 DEF Using, Changing, Holding, WorkspaceInv, FixesHaveDiff
        <5>2. proc[o] = proc[r]
          BY <2>0, <3>2, <5>1 DEF WorkspaceInv, OneProcess
        <5> QED
          BY <3>1, <4>2, <5>1, <5>2 DEF LoopFree
      <4> QED
        BY <4>1, <4>2
    <3>3. text[c] \in AsCommitted(c)
      BY <1>0, <2>0, <3>1, <3>2 DEF WorkspaceInv, QuietDirectory
    <3>4. base'[r] = "commit" /\ at'[r] = "generate"
      BY <2>1, <3>1, <3>3, CommitTexts DEF ReadOriginal, View
    <3> QED
      BY <3>4
  <2>2. CASE WriteFix(r)
    BY <2>0, <2>2 DEF WriteFix, WorkspaceInv, GoodFix
  <2>3. CASE CannotWriteFix(r)
    <3>1. at[r] = "generate" /\ (~CanWrite(c) \/ c \in spoiled')
      BY <2>3 DEF CannotWriteFix
    <3>2. dir[c] = "repo"
      BY <2>0, <3>1 DEF WorkspaceInv, PlaceAndDirectory, FixesHaveDiff, Using
    <3> QED
      BY <1>3, <3>1, <3>2
  <2>4. CASE Validate(r)
    <3>1. at[r] = "checks" /\ base'[r] = base[r] /\ checked'[r] = View(c)
      BY <2>4 DEF Validate
    <3>2. dir[c] = "repo" /\ text[c] = r /\ base[r] = "commit"
      BY <2>0, <3>1 DEF WorkspaceInv, PlaceAndDirectory, FixesHaveDiff, Using, GoodFix
    <3> QED
      BY <3>1, <3>2 DEF View
  <2> QED
    BY <2>1, <2>2, <2>3, <2>4
<1>4. GoodFix'
  BY <1>1, <1>3 DEF WorkspaceInv, GoodFix
<1> QED
  BY <1>2, <1>4

(* A patch is the fix that was made.                                        *)
LEMMA StoringLemma ==
  ASSUME Shape, WorkspaceInv, NEW r \in Deliveries, StorePatch(r) \/ CommitFixes(r)
  PROVE  GoodFix' /\ GoodPatches'
<1> USE DEF Clean, Shape
<1>1. /\ UNCHANGED spoiled /\ at'[r] \notin Making
      /\ \A o \in Deliveries \ {r} :
           /\ at'[o] = at[o] /\ base'[o] = base[o] /\ checked'[o] = checked[o]
           /\ drafts'[o] = drafts[o] /\ patches'[o] = patches[o]
  BY DEF StorePatch, CommitFixes, Making
<1>2. GoodFix'
  BY <1>1 DEF WorkspaceInv, GoodFix, Making
<1>3. ASSUME Clean(r)
      PROVE  drafts'[r] \subseteq {OwnFix(r)} /\ patches'[r] \subseteq {OwnFix(r)}
  <2>1. drafts[r] \subseteq {OwnFix(r)} /\ patches[r] \subseteq {OwnFix(r)}
    BY <1>3 DEF WorkspaceInv, GoodPatches
  <2>2. CASE StorePatch(r)
    <3>1. at[r] = "store" /\ patches' = patches
      BY <2>2 DEF StorePatch
    <3>2. drafts'[r] = drafts[r] \cup {[base |-> base[r], checked |-> checked[r]]}
      BY <2>2 DEF StorePatch
    <3>3. base[r] = "commit" /\ checked[r] = r
      BY <1>3, <3>1 DEF WorkspaceInv, GoodFix
    <3> QED
      BY <2>1, <3>1, <3>2, <3>3 DEF OwnFix
  <2>3. CASE CommitFixes(r)
    <3>1. drafts' = drafts /\ patches'[r] \in {patches[r], drafts[r]}
      BY <2>3 DEF CommitFixes
    <3> QED
      BY <2>1, <3>1
  <2> QED
    BY <2>2, <2>3
<1>4. GoodPatches'
  BY <1>1, <1>3 DEF WorkspaceInv, GoodPatches
<1> QED
  BY <1>2, <1>4

(* Every step keeps the fixes and the patches good.                         *)
LEMMA FixLemma ==
  ASSUME Shape, WorkspaceInv, Next
  PROVE  GoodFix' /\ GoodPatches'
<1>1. KeepStep => GoodFix' /\ GoodPatches'
  BY KeepLemma DEF WorkspaceInv
<1>2. ASSUME NEW r \in Deliveries, FixStep(r)
      PROVE  GoodFix' /\ GoodPatches'
  <2>1. CASE ReadOriginal(r) \/ WriteFix(r) \/ CannotWriteFix(r) \/ Validate(r)
    BY <2>1, MakingLemma
  <2>2. CASE StorePatch(r) \/ CommitFixes(r)
    BY <2>2, StoringLemma
  <2>3. CASE NoOriginal(r) \/ NoFix(r) \/ FlushFails(r) \/ FlushRefused(r) \/ CommitFixesFails(r)
    BY <1>1, <2>3, LateKeeps
  <2> QED
    BY <1>2, <2>1, <2>2, <2>3 DEF FixStep
<1>3. ASSUME NEW r \in Deliveries, Deliver(r) \/ PopAny(r) \/ RunStep(r)
      PROVE  GoodFix' /\ GoodPatches'
  <2>1. CASE FixStep(r)
    BY <1>2, <2>1
  <2>2. CASE Bury(r) \/ Requeue(r)
    BY <1>1, <2>2, LateKeeps
  <2>3. CASE ~(FixStep(r) \/ Bury(r) \/ Requeue(r))
    BY <1>1, <1>3, <2>3, EarlyKeeps DEF RunStep
  <2> QED
    BY <2>1, <2>2, <2>3
<1>4. CASE \E p \in Processes : Crash(p)
  BY <1>1, <1>4, LateKeeps
<1> QED
  BY <1>3, <1>4 DEF Next

-----------------------------------------------------------------------------
(* Findings and patches *)

KeptRows(o) ==
  /\ at'[o] \in {"fix", "generate", "checks", "store"} =>
       at[o] \in {"fix", "generate", "checks", "store"} \/ o \in stored'
  /\ status'[o] = "none" => status[o] = "none" /\ (o \in stored' => o \in stored)
  /\ patches'[o] # {} =>
       \/ patches'[o] = patches[o] /\ at'[o] = at[o]
          /\ session'[o] = session[o] /\ drafts'[o] = drafts[o]
       \/ patches'[o] = patches[o] /\ at'[o] \in {"buried", "dead"}
       \/ at[o] = "fix" /\ at'[o] = "mark" /\ session'[o] = "ok" /\ patches'[o] = drafts'[o]

KeepRows == stored \subseteq stored' /\ \A o \in Deliveries : KeptRows(o)

(* A step that adds patches only at the end of the fixes, all together,     *)
(* keeps the rows as they have to be.                                       *)
LEMMA RowsLemma ==
  ASSUME StoreInv, KeepRows
  PROVE  StoreInv'
BY DEF StoreInv, KeepRows, KeptRows

(* The steps before the fixes and after them are such steps: a job with     *)
(* patches has a row, and is not tried again.                               *)
LEMMA OutsideRows ==
  ASSUME Shape, NoAnswerNoRun, StoreInv, NEW r \in Deliveries,
         \/ Deliver(r) \/ PopAny(r) \/ Start(r) \/ Create(r) \/ CreateFails(r) \/ WorkspaceStep(r)
         \/ AnalysisEnds(r) \/ Post(r) \/ ReviewRefused(r) \/ Fallback(r) \/ PostFails(r)
         \/ Persist(r) \/ PersistFails(r) \/ Bury(r) \/ Requeue(r)
  PROVE  KeepRows
<1> USE DEF KeepRows, KeptRows, StoreInv, Shape
<1>1. CASE Deliver(r)
  BY <1>1 DEF Deliver, DeliverRefused, DeliverAccepted, DeliverFails, Accept, EnqueueFails,
     NoAnswerNoRun
<1>2. CASE PopAny(r)
  BY <1>2 DEF PopAny, Pop, NextInLine
<1>3. CASE Start(r) \/ Create(r) \/ CreateFails(r)
  BY <1>3 DEF Start, Create, CreateFails, WriteReview
<1>4. CASE Check(r) \/ Mkdir(r) \/ Clone(r) \/ GitFails(r) \/ Checkout(r)
  BY <1>4 DEF Check, Mkdir, Clone, GitFails, Checkout
<1>5. CASE CloneRaises(r) \/ Extract(r) \/ ExtractFails(r)
  BY <1>5 DEF CloneRaises, Extract, ExtractFails
<1>6. CASE AnalysisEnds(r)
  BY <1>6 DEF AnalysisEnds
<1>7. CASE Post(r) \/ ReviewRefused(r) \/ Fallback(r) \/ PostFails(r)
  BY <1>7 DEF Post, ReviewRefused, Fallback, PostFails
<1>8. CASE Persist(r) \/ PersistFails(r)
  BY <1>8 DEF Persist, PersistFails, StoreResults
<1>9. CASE Bury(r)
  BY <1>9 DEF Bury, MarkFailed
<1>10. CASE Requeue(r)
  BY <1>10 DEF Requeue
<1> QED
  BY <1>1, <1>2, <1>3, <1>4, <1>5, <1>6, <1>7, <1>8, <1>9, <1>10 DEF WorkspaceStep

LEMMA FixRows ==
  ASSUME Shape, StoreInv,
         \/ \E r \in Deliveries : FixStep(r)
         \/ \E p \in Processes : Crash(p)
  PROVE  KeepRows
<1> USE DEF KeepRows, KeptRows, StoreInv, Shape
<1>1. CASE \E r \in Deliveries : ReadOriginal(r) \/ NoOriginal(r) \/ NoFix(r)
  BY <1>1 DEF ReadOriginal, NoOriginal, NoFix
<1>2. CASE \E r \in Deliveries : WriteFix(r) \/ CannotWriteFix(r) \/ Validate(r)
  BY <1>2 DEF WriteFix, CannotWriteFix, Validate
<1>3. CASE \E r \in Deliveries : StorePatch(r) \/ FlushFails(r) \/ FlushRefused(r)
  BY <1>3 DEF StorePatch, FlushFails, FlushRefused
<1>4. CASE \E r \in Deliveries : CommitFixes(r) \/ CommitFixesFails(r)
  BY <1>4 DEF CommitFixes, CommitFixesFails
<1>5. CASE \E p \in Processes : Crash(p)
  BY <1>5 DEF Crash
<1> QED
  BY <1>1, <1>2, <1>3, <1>4, <1>5 DEF FixStep

(* Every step keeps the rows as they have to be.                            *)
LEMMA StoreLemma ==
  ASSUME Shape, NoAnswerNoRun, StoreInv, Next
  PROVE  StoreInv'
<1>1. CASE \/ \E r \in Deliveries : FixStep(r)
           \/ \E p \in Processes : Crash(p)
  BY <1>1, FixRows, RowsLemma
<1>2. CASE \E r \in Deliveries : (Deliver(r) \/ PopAny(r) \/ RunStep(r)) /\ ~FixStep(r)
  BY <1>2, OutsideRows, RowsLemma DEF RunStep
<1> QED
  BY <1>1, <1>2 DEF Next

-----------------------------------------------------------------------------
(* Who uses a directory *)

\* Unless two runs of a commit were seen together, there is one at a time.
OneUser ==
  \A r, o \in Deliveries :
     r # o /\ Commit(r) = Commit(o) /\ Commit(r) \notin shared => ~(Using(r) /\ Using(o))

(* The check for the clone is where a run begins to use it.                 *)
LEMMA UserLemma ==
  ASSUME Shape, WorkspaceInv, OneUser, Next
  PROVE  OneUser'
<1>1. CASE OutsideStep
  BY <1>1 DEF OutsideStep, Same, Leaves, OneUser, Using
<1>2. ASSUME NEW r \in Deliveries, Check(r)
      PROVE  OneUser'
  <2>1. /\ shared \subseteq shared'
        /\ Commit(r) \notin shared' => Users(Commit(r)) \ {r} = {}
        /\ \A o \in Deliveries \ {r} : at'[o] = at[o] /\ diff'[o] = diff[o]
    BY <1>2 DEF Check, Shape
  <2>2. \A o \in Deliveries \ {r} :
           /\ Using(o)' <=> Using(o)
           /\ Commit(o) = Commit(r) /\ Commit(r) \notin shared' => ~Using(o)
    BY <2>1 DEF Using, Users
  <2> QED
    BY <2>1, <2>2 DEF OneUser
<1>3. ASSUME NEW r \in Deliveries, Mkdir(r) \/ Clone(r) \/ GitFails(r) \/ Checkout(r)
      PROVE  OneUser'
  <2>1. diff[r] = "none" /\ diff' = diff /\ shared' = shared /\ Using(r)
        /\ \A o \in Deliveries \ {r} : at'[o] = at[o]
    BY <1>3 DEF Mkdir, Clone, GitFails, Checkout, Using, Shape, WorkspaceInv, FixesHaveDiff
  <2> QED
    BY <2>1 DEF OneUser, Using
<1>4. ASSUME NEW r \in Deliveries, WriteFix(r) \/ Validate(r)
      PROVE  OneUser'
  <2>1. diff' = diff /\ shared' = shared /\ Using(r)
        /\ \A o \in Deliveries \ {r} : at'[o] = at[o]
    BY <1>4 DEF WriteFix, Validate, Using, Shape, WorkspaceInv, FixesHaveDiff
  <2> QED
    BY <2>1 DEF OneUser, Using
<1>5. ASSUME NEW r \in Deliveries, WorkspaceStep(r) \/ FixStep(r)
      PROVE  OneUser'
  BY <1>1, <1>2, <1>3, <1>4, <1>5, WalkLemma, FixWalkLemma DEF WorkspaceStep, FixStep
<1>6. ASSUME NEW r \in Deliveries, RunStep(r), ~(WorkspaceStep(r) \/ FixStep(r))
      PROVE  OneUser'
  BY <1>1, <1>6, WalkLemma, FixWalkLemma DEF RunStep
<1> QED
  BY <1>1, <1>5, <1>6, OthersWalkLemma DEF Next

(* A run that is alone in a clean directory finds the commit there.         *)
LEMMA AloneLemma ==
  ASSUME WorkspaceInv, OneUser
  PROVE  ToolsSeeCommit
<1> SUFFICES ASSUME NEW r \in Deliveries, at[r] = "analyze",
                    Commit(r) \notin shared, Commit(r) \notin spoiled
             PROVE  View(Commit(r)) \in AsCommitted(Commit(r))
  BY DEF ToolsSeeCommit
<1>1. Using(r) /\ diff[r] = "diff"
  BY DEF WorkspaceInv, FixesHaveDiff, Using
<1>2. ASSUME NEW o \in Deliveries, Commit(o) = Commit(r)
      PROVE  at[o] \notin Changing
  <2>1. CASE o = r
    BY <2>1 DEF Changing
  <2>2. CASE o # r
    BY <1>1, <1>2, <2>2 DEF OneUser, Using, Changing, WorkspaceInv, FixesHaveDiff
  <2> QED
    BY <2>1, <2>2
<1>3. dir[Commit(r)] = "repo"
  BY <1>1 DEF WorkspaceInv, PlaceAndDirectory, Clean
<1>4. text[Commit(r)] \in AsCommitted(Commit(r))
  BY <1>2, <1>3, PipelineAssumption DEF WorkspaceInv, QuietDirectory
<1> QED
  BY <1>3, <1>4 DEF View

-----------------------------------------------------------------------------
(* Who gets into the pipeline *)

\* Whoever is anywhere, or left a trace, was accepted.
Signed ==
  \A d \in Deliveries :
     /\ at[d] # "none" => answer[d] \in {"202", "500"} /\ Verdict(d) = "202"
     /\ status[d] # "none" \/ d \in posted => at[d] # "none"

(* Only the endpoint lets a delivery in, and nothing forgets where it was.  *)
LEMMA SignedLemma ==
  ASSUME Shape, NoAnswerNoRun, Signed, Next
  PROVE  Signed'
<1> USE DEF Signed, Shape
<1>1. ASSUME NEW d \in Deliveries, Deliver(d)
      PROVE  Signed'
  <2>1. CASE DeliverRefused(d)
    BY <2>1 DEF DeliverRefused, Refuse, NoAnswerNoRun
  <2>2. CASE DeliverAccepted(d)
    BY <2>2 DEF DeliverAccepted, Accept
  <2>3. CASE DeliverFails(d)
    BY <2>3 DEF DeliverFails, EnqueueFails
  <2> QED
    BY <1>1, <2>1, <2>2, <2>3 DEF Deliver
<1>2. ASSUME NEW r \in Deliveries, PopAny(r)
      PROVE  Signed'
  BY <1>2 DEF PopAny, Pop, NextInLine
<1>3. ASSUME NEW r \in Deliveries, RunStep(r)
      PROVE  Signed'
  <2>1. CASE Start(r) \/ Create(r) \/ CreateFails(r)
    BY <2>1 DEF Start, Create, CreateFails, WriteReview
  <2>2. CASE WorkspaceStep(r)
    BY <2>2 DEF WorkspaceStep, Check, Mkdir, Clone, GitFails, CloneRaises, Checkout,
       Extract, ExtractFails
  <2>3. CASE AnalysisEnds(r)
    BY <2>3 DEF AnalysisEnds
  <2>4. CASE Post(r) \/ ReviewRefused(r) \/ Fallback(r) \/ PostFails(r)
    BY <2>4 DEF Post, ReviewRefused, Fallback, PostFails
  <2>5. CASE Persist(r) \/ PersistFails(r)
    BY <2>5 DEF Persist, PersistFails, StoreResults
  <2>6. CASE ReadOriginal(r) \/ NoOriginal(r) \/ NoFix(r) \/ WriteFix(r) \/ CannotWriteFix(r)
    BY <2>6 DEF ReadOriginal, NoOriginal, NoFix, WriteFix, CannotWriteFix
  <2>7. CASE Validate(r) \/ StorePatch(r) \/ FlushFails(r) \/ FlushRefused(r)
    BY <2>7 DEF Validate, StorePatch, FlushFails, FlushRefused
  <2>8. CASE CommitFixes(r) \/ CommitFixesFails(r)
    BY <2>8 DEF CommitFixes, CommitFixesFails
  <2>9. CASE Bury(r) \/ Requeue(r)
    BY <2>9 DEF Bury, MarkFailed, Requeue
  <2> QED
    BY <1>3, <2>1, <2>2, <2>3, <2>4, <2>5, <2>6, <2>7, <2>8, <2>9 DEF RunStep, FixStep
<1>4. CASE \E p \in Processes : Crash(p)
  BY <1>4 DEF Crash, InProgress
<1> QED
  BY <1>1, <1>2, <1>3, <1>4 DEF Next

-----------------------------------------------------------------------------
(* The theorems *)

(* The invariant holds at the start, when nothing runs.                     *)
LEMMA InitLemma ==
  ASSUME Init
  PROVE  IInv
<1> USE DEF Init, IntakeInit, CloneInit
<1>1. Shape
  BY DEF Shape, Places
<1>2. NoAnswerNoRun /\ FixesHaveDiff /\ OneHolder /\ OneProcess /\ ClonerIsAlone
  BY DEF NoAnswerNoRun, FixesHaveDiff, OneHolder, OneProcess, ClonerIsAlone, Using, Holding
<1>3. PlaceAndDirectory /\ QuietDirectory /\ GoodFix /\ GoodPatches
  BY DEF PlaceAndDirectory, QuietDirectory, GoodFix, GoodPatches, Using
<1>4. StoreInv
  BY DEF StoreInv
<1> QED
  BY <1>1, <1>2, <1>3, <1>4 DEF IInv, WorkspaceInv

(* Every step keeps the invariant.                                          *)
LEMMA StepLemma ==
  ASSUME IInv, [Next]_vars
  PROVE  IInv'
<1>1. CASE Next
  <2>1. LocalInv'
    BY <1>1, LocalLemma DEF IInv, WorkspaceInv, LocalInv
  <2>2. FilesInv'
    BY <1>1, FilesLemma DEF IInv
  <2>3. GoodFix' /\ GoodPatches'
    BY <1>1, FixLemma DEF IInv
  <2>4. StoreInv'
    BY <1>1, StoreLemma DEF IInv, WorkspaceInv
  <2> QED
    BY <2>1, <2>2, <2>3, <2>4 DEF IInv, WorkspaceInv, LocalInv, FilesInv
<1>2. CASE UNCHANGED vars
  <2>1. Shape'
    BY <1>2 DEF IInv, Shape
  <2>2. (NoAnswerNoRun /\ FixesHaveDiff /\ OneHolder /\ OneProcess /\ ClonerIsAlone)'
    BY <1>2 DEF IInv, WorkspaceInv, NoAnswerNoRun, FixesHaveDiff, OneHolder, OneProcess,
       ClonerIsAlone, Using, Clean
  <2>3. (PlaceAndDirectory /\ QuietDirectory /\ GoodFix /\ GoodPatches)'
    BY <1>2 DEF IInv, WorkspaceInv, PlaceAndDirectory, QuietDirectory, GoodFix, GoodPatches,
       Using, Clean
  <2>4. StoreInv'
    BY <1>2 DEF IInv, StoreInv
  <2> QED
    BY <2>1, <2>2, <2>3, <2>4 DEF IInv, WorkspaceInv
<1> QED
  BY <1>1, <1>2

(* Whatever the deliveries, the processes and the failures: a patch of a    *)
(* commit whose directory no error, no crash and no second process touched  *)
(* starts from the text of the commit, and its linter and tests have looked *)
(* at this very patch (autofix:131-292, clone_repo.py:48-87).               *)
THEOREM PatchesComeFromCommit == Spec => []PatchesFromCommit
<1>1. Init => IInv
  BY InitLemma
<1>2. IInv /\ [Next]_vars => IInv'
  BY StepLemma
<1>3. IInv => PatchesFromCommit
  BY DEF IInv, WorkspaceInv, GoodPatches, PatchesFromCommit, OwnFix, Clean
<1> QED
  BY <1>1, <1>2, <1>3, PTL DEF Spec

(* Patches are stored all or none, and only when the findings they fix are, *)
(* for any number of fixes, failing flushes and commits                     *)
(* (orchestrator:246-323).                                                  *)
THEOREM PatchesAreAllOrNone == Spec => []PatchesAllOrNone
<1>1. Init => IInv
  BY InitLemma
<1>2. IInv /\ [Next]_vars => IInv'
  BY StepLemma
<1>3. IInv => PatchesAllOrNone
  BY DEF IInv, StoreInv, PatchesAllOrNone, InProgress, Ended
<1> QED
  BY <1>1, <1>2, <1>3, PTL DEF Spec

(* The tools of a run that is alone in its directory, and finds it clean,   *)
(* read the commit under review (clone_repo.py:66-87).                      *)
THEOREM ToolsReadCommit == Spec => []ToolsSeeCommit
<1> DEFINE Inv == IInv /\ OneUser
<1>1. Init => Inv
  <2>1. Init => OneUser
    BY DEF Init, OneUser, Using
  <2> QED
    BY <2>1, InitLemma
<1>2. Inv /\ [Next]_vars => Inv'
  <2> SUFFICES ASSUME Inv, [Next]_vars
               PROVE  Inv'
    OBVIOUS
  <2>1. CASE Next
    BY <2>1, StepLemma, UserLemma DEF IInv
  <2>2. CASE UNCHANGED vars
    BY <2>2, StepLemma DEF OneUser, Using
  <2> QED
    BY <2>1, <2>2
<1>3. Inv => ToolsSeeCommit
  BY AloneLemma DEF IInv
<1> QED
  BY <1>1, <1>2, <1>3, PTL DEF Spec

(* No delivery but one that GitHub signed, of an event to review, leaves a  *)
(* row or a report (webhook.py:54-75, dependencies.py:39-57).               *)
THEOREM OnlySignedGetIn == Spec => []OnlySignedEventsReviewed
<1> DEFINE Inv == IInv /\ Signed
<1>1. Init => Inv
  <2>1. Init => Signed
    BY DEF Init, Signed
  <2> QED
    BY <2>1, InitLemma
<1>2. Inv /\ [Next]_vars => Inv'
  <2> SUFFICES ASSUME Inv, [Next]_vars
               PROVE  Inv'
    OBVIOUS
  <2>1. CASE Next
    BY <2>1, StepLemma, SignedLemma DEF IInv, WorkspaceInv
  <2>2. CASE UNCHANGED vars
    BY <2>2, StepLemma DEF Signed
  <2> QED
    BY <2>1, <2>2
<1>3. Inv => OnlySignedEventsReviewed
  BY IntakeAssumption DEF Signed, Verdict, OnlySignedEventsReviewed
<1> QED
  BY <1>1, <1>2, <1>3, PTL DEF Spec

-----------------------------------------------------------------------------
(* Types *)

\* While a fix is made its finding is counted, and the original is a text.
FixInHand ==
  \A r \in Deliveries :
     /\ at[r] \in {"generate", "checks", "store"} => todo[r] > 0
     /\ at[r] \in {"generate", "checks"} => base[r] \in Contents

TypeInv == TypeOK /\ FixInHand

(* The end of the line is a line.                                           *)
LEMMA AtTheEndType ==
  ASSUME accepted \in Seq(Deliveries), NEW r \in Deliveries
  PROVE  AtTheEnd(r) \in Seq(Deliveries)
<1> DEFINE K == {n \in DOMAIN accepted : accepted[n] # r}
           rest == AtPositions(accepted, K)
<1>1. rest \in Seq(Deliveries)
  BY AtPositionsLemma
<1>2. AtTheEnd(r) = Append(rest, r)
  BY DEF AtTheEnd, Filter
<1> HIDE DEF rest
<1> QED
  BY <1>1, <1>2

(* A delivery and the pop of its job keep the types.                    *)
LEMMA TypeEntry ==
  ASSUME TypeInv, NEW r \in Deliveries, Deliver(r) \/ PopAny(r)
  PROVE  TypeInv'
<1> USE DEF TypeInv, TypeOK, FixInHand
<1>1. Verdict(r) \in Answers
  BY DEF Verdict, Answers
<1>2. CASE DeliverRefused(r)
  BY <1>1, <1>2 DEF DeliverRefused, Refuse
<1>3. CASE DeliverAccepted(r)
  BY <1>3 DEF DeliverAccepted, Accept, Answers, Places
<1>4. CASE DeliverFails(r)
  <2>1. faults' \in 0..MaxFaults
    BY <1>4, PipelineAssumption DEF DeliverFails
  <2>2. answer' \in [Deliveries -> Answers] /\ accepted' \in Seq(Deliveries)
    BY <1>4 DEF DeliverFails, EnqueueFails, Answers
  <2>3. at' = at \/ at' = [at EXCEPT ![r] = "waiting"]
    BY <1>4 DEF DeliverFails
  <2>4. at' \in [Deliveries -> Places]
    <3>1. CASE at' = at
      BY <3>1
    <3>2. CASE at' = [at EXCEPT ![r] = "waiting"]
      BY <3>2 DEF Places
    <3> QED
      BY <2>3, <3>1, <3>2
  <2>5. FixInHand' /\ \A o \in Deliveries : proc'[o] = NoProc => at'[o] \in {"none", "waiting"}
    <3>1. \A o \in Deliveries : at'[o] = at[o] \/ at'[o] = "waiting"
      BY <2>3
    <3> QED
      BY <1>4, <3>1 DEF DeliverFails
  <2> QED
    BY <1>4, <2>1, <2>2, <2>4, <2>5 DEF DeliverFails
<1>5. CASE PopAny(r)
  <2>1. PICK p \in Processes : Pop(p, r)
    BY <1>5 DEF PopAny
  <2>2. proc' \in [Deliveries -> Processes \cup {NoProc}] /\ at' \in [Deliveries -> Places]
    BY <2>1 DEF Pop, Goto, Places
  <2>3. /\ FixInHand'
        /\ \A o \in Deliveries : proc'[o] = NoProc => at'[o] \in {"none", "waiting"}
    BY <2>1, PipelineAssumption DEF Pop, Goto, Processes, NoProc
  <2>4. overlapped' \subseteq Prs
    BY <2>1 DEF Pop, Prs
  <2> QED
    BY <2>1, <2>2, <2>3, <2>4 DEF Pop, intakeVars, cloneVars, dbVars
<1> QED
  BY <1>2, <1>3, <1>4, <1>5 DEF Deliver

(* So do the first session, the clone, the analysis and GitHub ...          *)
LEMMA TypeGraph ==
  ASSUME TypeInv, NEW r \in Deliveries,
         \/ Start(r) \/ Create(r) \/ CreateFails(r) \/ WorkspaceStep(r) \/ AnalysisEnds(r)
         \/ Post(r) \/ ReviewRefused(r) \/ Fallback(r) \/ PostFails(r)
         \/ Persist(r) \/ PersistFails(r)
  PROVE  TypeInv'
<1> USE DEF TypeInv, TypeOK, FixInHand, Places
<1>0. Commit(r) \in Commits /\ Pr(r) \in Prs
  BY PipelineAssumption DEF Prs
<1>1. CASE Start(r) \/ Create(r)
  <2>1. CASE Start(r)
    BY <2>1 DEF Start, Goto, afterPop
  <2>2. CASE Create(r)
    BY <1>0, <2>2 DEF Create, WriteReview
  <2> QED
    BY <1>1, <2>1, <2>2
<1>2. CASE CreateFails(r)
  <2>1. faults' \in 0..MaxFaults
    BY <1>2, PipelineAssumption DEF CreateFails
  <2>2. CASE WriteReview(r)
    BY <1>0, <1>2, <2>1, <2>2 DEF CreateFails, WriteReview
  <2>3. CASE UNCHANGED dbVars
    BY <1>2, <2>1, <2>3 DEF CreateFails
  <2> QED
    BY <1>2, <2>2, <2>3 DEF CreateFails
<1>3. CASE Check(r)
  BY <1>0, <1>3 DEF Check
<1>4. CASE Mkdir(r) \/ Clone(r) \/ GitFails(r) \/ Checkout(r)
  <2>1. CASE Mkdir(r)
    BY <1>0, <2>1 DEF Mkdir, MakeDir
  <2>2. CASE Clone(r)
    BY <1>0, <2>2 DEF Clone, GitClone, Contents
  <2>3. CASE GitFails(r)
    BY <1>0, <2>3 DEF GitFails, RemoveTree
  <2>4. CASE Checkout(r)
    BY <1>0, <2>4 DEF Checkout, GitCheckout, Contents, Committed
  <2> QED
    BY <1>4, <2>1, <2>2, <2>3, <2>4
<1>5. CASE CloneRaises(r)
  BY <1>0, <1>5, PipelineAssumption DEF CloneRaises
<1>6. CASE Extract(r) \/ ExtractFails(r)
  <2>1. CASE Extract(r)
    BY <2>1 DEF Extract
  <2>2. CASE ExtractFails(r)
    BY <2>2 DEF ExtractFails
  <2> QED
    BY <1>6, <2>1, <2>2
<1>7. CASE AnalysisEnds(r)
  <2>1. PICK n \in Eligible[r] : todo' = [todo EXCEPT ![r] = IF n < MaxFixes THEN n ELSE MaxFixes]
    BY <1>7 DEF AnalysisEnds
  <2>2. n \in Nat /\ MaxFixes \in Nat
    BY PipelineAssumption
  <2>3. (IF n < MaxFixes THEN n ELSE MaxFixes) \in 0..MaxFixes
    BY <2>2
  <2> QED
    BY <1>7, <2>1, <2>3 DEF AnalysisEnds
<1>8. CASE Post(r) \/ ReviewRefused(r) \/ Fallback(r) \/ PostFails(r)
  <2>1. CASE Post(r)
    BY <2>1 DEF Post
  <2>2. CASE ReviewRefused(r)
    BY <2>2 DEF ReviewRefused
  <2>3. CASE Fallback(r)
    BY <2>3 DEF Fallback
  <2>4. CASE PostFails(r)
    BY <2>4 DEF PostFails
  <2> QED
    BY <1>8, <2>1, <2>2, <2>3, <2>4
<1>9. CASE Persist(r) \/ PersistFails(r)
  <2>1. CASE Persist(r)
    BY <1>0, <2>1 DEF Persist, StoreResults
  <2>2. CASE PersistFails(r)
    <3>1. faults' \in 0..MaxFaults
      BY <2>2, PipelineAssumption DEF PersistFails
    <3>2. CASE StoreResults(r)
      BY <1>0, <2>2, <3>1, <3>2 DEF PersistFails, StoreResults
    <3>3. CASE UNCHANGED <<head, status, stored>>
      BY <2>2, <3>1, <3>3 DEF PersistFails
    <3> QED
      BY <2>2, <3>2, <3>3 DEF PersistFails
  <2> QED
    BY <1>9, <2>1, <2>2
<1> QED
  BY <1>1, <1>2, <1>3, <1>4, <1>5, <1>6, <1>7, <1>8, <1>9 DEF WorkspaceStep

(* ... the fixes ...                                                        *)
LEMMA TypeFix ==
  ASSUME TypeInv, NEW r \in Deliveries, FixStep(r)
  PROVE  TypeInv'
<1> USE DEF TypeInv, TypeOK, FixInHand, Places
<1>0. Commit(r) \in Commits /\ MaxFixes \in Nat /\ MaxFaults \in Nat
  BY PipelineAssumption
<1>1. todo[r] > 0 => todo[r] - 1 \in 0..MaxFixes
  BY <1>0
<1>2. CASE ReadOriginal(r)
  BY <1>0, <1>2 DEF ReadOriginal, View, Universal, Contents
<1>3. CASE NoOriginal(r) \/ NoFix(r)
  <2>1. CASE NoOriginal(r)
    BY <1>1, <2>1 DEF NoOriginal
  <2>2. CASE NoFix(r)
    BY <1>1, <2>2 DEF NoFix
  <2> QED
    BY <1>3, <2>1, <2>2
<1>4. CASE WriteFix(r)
  BY <1>0, <1>4 DEF WriteFix, Write, Contents
<1>5. CASE CannotWriteFix(r)
  BY <1>0, <1>5 DEF CannotWriteFix
<1>6. CASE Validate(r)
  <2>1. faults' \in 0..MaxFaults /\ spoiled' \subseteq Commits
    BY <1>0, <1>6 DEF Validate
  <2>2. dir' = dir /\ text' \in [Commits -> Contents]
    BY <1>0, <1>6 DEF Validate, Write
  <2>3. View(Commit(r)) \in Contents \cup {NoFile}
    BY <1>0 DEF View
  <2> QED
    BY <1>6, <2>1, <2>2, <2>3 DEF Validate
<1>7. CASE StorePatch(r)
  <2>1. [base |-> base[r], checked |-> checked[r]] \in Patch
    BY DEF Patch
  <2> QED
    BY <1>1, <1>7, <2>1 DEF StorePatch
<1>8. CASE FlushFails(r) \/ FlushRefused(r)
  <2>1. CASE FlushFails(r)
    BY <1>0, <1>1, <2>1 DEF FlushFails
  <2>2. CASE FlushRefused(r)
    BY <1>1, <2>2 DEF FlushRefused
  <2> QED
    BY <1>8, <2>1, <2>2
<1>9. CASE CommitFixes(r) \/ CommitFixesFails(r)
  <2>1. CASE CommitFixes(r)
    BY <2>1 DEF CommitFixes
  <2>2. CASE CommitFixesFails(r)
    BY <1>0, <2>2 DEF CommitFixesFails
  <2> QED
    BY <1>9, <2>1, <2>2
<1> QED
  BY <1>2, <1>3, <1>4, <1>5, <1>6, <1>7, <1>8, <1>9 DEF FixStep

(* ... and the end of a run.                                                *)
LEMMA TypeEnd ==
  ASSUME TypeInv,
         \/ \E r \in Deliveries : Bury(r) \/ Requeue(r)
         \/ \E p \in Processes : Crash(p)
  PROVE  TypeInv'
<1> USE DEF TypeInv, TypeOK, FixInHand, Places
<1>0. MaxFixes \in Nat /\ MaxFaults \in Nat /\ 0 \in 0..MaxFixes
  BY PipelineAssumption
<1>1. ASSUME NEW r \in Deliveries, Bury(r)
      PROVE  TypeInv'
  <2>1. /\ status' \in [Deliveries -> {"none", "PENDING", "COMPLETED", "FAILED"}]
        /\ faults' \in 0..MaxFaults
    BY <1>0, <1>1 DEF Bury, MarkFailed
  <2>2. at' \in [Deliveries -> Places]
    BY <1>1 DEF Bury, Ended
  <2> QED
    BY <1>0, <1>1, <2>1, <2>2 DEF Bury, Ended
<1>2. ASSUME NEW r \in Deliveries, Requeue(r)
      PROVE  TypeInv'
  <2>1. accepted' \in Seq(Deliveries)
    BY <1>2, AtTheEndType DEF Requeue
  <2>2. Pr(r) \in Prs
    BY DEF Prs
  <2> QED
    BY <1>0, <1>2, <2>1, <2>2 DEF Requeue
<1>3. ASSUME NEW p \in Processes, Crash(p)
      PROVE  TypeInv'
  <2>1. \A r \in Deliveries : Commit(r) \in Commits
    BY PipelineAssumption
  <2> QED
    BY <1>0, <1>3, <2>1 DEF Crash, Ended, InProgress
<1> QED
  BY <1>1, <1>2, <1>3

(* At the start nothing runs, and every variable has its type.             *)
LEMMA TypeInit == Init => TypeInv
<1> SUFFICES ASSUME Init PROVE TypeInv
  OBVIOUS
<1>1. 0 \in 0..MaxFixes /\ 0 \in 0..MaxFaults
  BY PipelineAssumption
<1> QED
  BY <1>1 DEF Init, IntakeInit, CloneInit, TypeInv, TypeOK, FixInHand, Places, Answers, Contents

(* Every step keeps the types.                                              *)
LEMMA TypeStep == TypeInv /\ [Next]_vars => TypeInv'
<1> SUFFICES ASSUME TypeInv, [Next]_vars PROVE TypeInv'
  OBVIOUS
<1>1. CASE Next
  BY <1>1, TypeEntry, TypeGraph, TypeFix, TypeEnd DEF Next, RunStep
<1>2. CASE UNCHANGED vars
  BY <1>2 DEF TypeInv, TypeOK, FixInHand
<1> QED
  BY <1>1, <1>2

(* Every variable stays within its type for any deliveries, processes and   *)
(* failures: no fix is counted below zero or above the five of node_autofix *)
(* (orchestrator:263-320), the original that a validation puts back is a    *)
(* text somebody wrote, and only a run that a process has taken is in the   *)
(* graph.                                                                   *)
THEOREM TypeCorrect == Spec => []TypeOK
<1>1. TypeInv => TypeOK
  BY DEF TypeInv
<1> QED
  BY <1>1, TypeInit, TypeStep, PTL DEF Spec

-----------------------------------------------------------------------------
(* The line of the jobs *)

Started(d) == at[d] \notin {"none", "waiting"}

\* x stands before y.
Ahead(s, x, y) == \E i, j \in DOMAIN s : i < j /\ s[i] = x /\ s[j] = y
Earlier(x, y) == Ahead(accepted, x, y)

\* Who has been accepted is in line, once.
LineIsKnown ==
  /\ accepted \in Seq(Deliveries) /\ IsInjective(accepted)
  /\ \A d \in Deliveries : at[d] # "none" <=> d \in ToSet(accepted)

\* Jobs are taken in the order of the line, and a job with a row stays taken.
TakenInOrder ==
  /\ \A x, y \in Deliveries : at[x] = "waiting" /\ Started(y) => Earlier(y, x)
  /\ \A x \in Deliveries : status[x] # "none" => Started(x)

\* Where no runs overlapped, the run that is in progress is the last that started.
LastInProgress ==
  \A x, y \in Deliveries :
     Pr(x) = Pr(y) /\ Pr(x) \notin overlapped /\ InProgress(x) /\ Started(y) /\ x # y
        => Earlier(y, x)

\* The last that got a row wrote the row of the pull request.
HeadIsLast ==
  \A x \in Deliveries :
     /\ Pr(x) \notin overlapped /\ status[x] # "none"
     /\ \A y \in Deliveries : Pr(y) = Pr(x) /\ status[y] # "none" /\ x # y => Earlier(y, x)
     => head[Pr(x)] = x

LineInv == LineIsKnown /\ TakenInOrder /\ LastInProgress /\ HeadIsLast

(* Who stands once cannot be before and behind another.                     *)
LEMMA AheadOneWay ==
  ASSUME NEW V, NEW s \in Seq(V), IsInjective(s), NEW x, NEW y, Ahead(s, x, y)
  PROVE  ~Ahead(s, y, x)
<1>1. DOMAIN s \subseteq Int
  OBVIOUS
<1> QED
  BY <1>1 DEF Ahead, IsInjective

(* Who joins a line comes behind all the others, and changes nothing among  *)
(* them.                                                                    *)
LEMMA AheadAppend ==
  ASSUME NEW V, NEW s \in Seq(V), NEW d \in V, d \notin ToSet(s)
  PROVE  /\ ToSet(Append(s, d)) = ToSet(s) \cup {d}
         /\ IsInjective(s) => IsInjective(Append(s, d))
         /\ \A x \in ToSet(s) : Ahead(Append(s, d), x, d)
         /\ \A x, y : x # d /\ y # d => (Ahead(Append(s, d), x, y) <=> Ahead(s, x, y))
<1> DEFINE t == Append(s, d)
           N == Len(s)
<1>1. /\ N \in Nat /\ DOMAIN s = 1..N /\ DOMAIN t = 1..(N + 1)
      /\ t[N + 1] = d /\ \A n \in 1..N : t[n] = s[n]
  OBVIOUS
<1> HIDE DEF t, N
<1>2. /\ \A n \in 1..(N + 1) : n \in 1..N \/ n = N + 1
      /\ \A n \in 1..N : n \in 1..(N + 1) /\ n < N + 1 /\ n \in Int
      /\ N + 1 \in 1..(N + 1) /\ N + 1 \notin 1..N
  BY <1>1
<1>3. \A n \in 1..N : s[n] # d
  BY <1>1 DEF ToSet
<1>4. ToSet(t) = ToSet(s) \cup {d}
  BY <1>1, <1>2 DEF ToSet
<1>5. IsInjective(s) => IsInjective(t)
  BY <1>1, <1>2, <1>3 DEF IsInjective
<1>6. \A x \in ToSet(s) : Ahead(t, x, d)
  BY <1>1, <1>2 DEF ToSet, Ahead
<1>7. ASSUME NEW x, NEW y, x # d, y # d
      PROVE  Ahead(t, x, y) <=> Ahead(s, x, y)
  BY <1>1, <1>2, <1>7 DEF Ahead
<1> QED
  BY <1>4, <1>5, <1>6, <1>7 DEF t

(* Who goes to the end of a line comes behind all the others, and changes   *)
(* nothing among them.                                                      *)
LEMMA AheadAtTheEnd ==
  ASSUME accepted \in Seq(Deliveries), IsInjective(accepted), NEW r \in ToSet(accepted)
  PROVE  LET s == AtTheEnd(r)
         IN  /\ s \in Seq(Deliveries) /\ IsInjective(s) /\ ToSet(s) = ToSet(accepted)
             /\ \A x \in ToSet(accepted) : x # r => Ahead(s, x, r)
             /\ \A x, y : x # r /\ y # r => (Ahead(s, x, y) <=> Ahead(accepted, x, y))
<1> DEFINE K == {n \in DOMAIN accepted : accepted[n] # r}
           A == Ascending(K)
           rest == AtPositions(accepted, K)
<1>0. r \in Deliveries
  BY DEF ToSet
<1>1. /\ rest \in Seq(Deliveries) /\ DOMAIN rest = 1..Cardinality(K)
      /\ \A n \in 1..Cardinality(K) : rest[n] = accepted[A[n]]
      /\ ToSet(rest) = {accepted[k] : k \in K}
  BY AtPositionsLemma
<1>2. IsInjective(rest)
  BY AtPositionsInjective
<1>3. /\ A \in [1..Cardinality(K) -> K]
      /\ \A k \in K : \E n \in 1..Cardinality(K) : A[n] = k
      /\ \A m, n \in 1..Cardinality(K) : m < n <=> A[m] < A[n]
  BY PositionsOf, AscendingLemma
<1>4. AtTheEnd(r) = Append(rest, r)
  BY DEF AtTheEnd, Filter
<1>5. ToSet(rest) = ToSet(accepted) \ {r}
  BY <1>1 DEF ToSet
<1>6. ASSUME NEW x, NEW y, x # r, y # r
      PROVE  Ahead(rest, x, y) <=> Ahead(accepted, x, y)
  <2>1. ASSUME Ahead(rest, x, y)
        PROVE  Ahead(accepted, x, y)
    <3> HIDE DEF A, rest
    <3> QED
      BY <1>1, <1>3, <2>1 DEF Ahead
  <2>2. ASSUME Ahead(accepted, x, y)
        PROVE  Ahead(rest, x, y)
    <3>1. PICK i, j \in K : i < j /\ accepted[i] = x /\ accepted[j] = y
      BY <1>6, <2>2 DEF Ahead
    <3> HIDE DEF A, rest, K
    <3>2. PICK m, n \in 1..Cardinality(K) : A[m] = i /\ A[n] = j
      BY <1>3, <3>1
    <3> QED
      BY <1>1, <1>3, <3>1, <3>2 DEF Ahead
  <2> QED
    BY <2>1, <2>2
<1> HIDE DEF rest
<1>7. /\ ToSet(Append(rest, r)) = ToSet(rest) \cup {r}
      /\ IsInjective(Append(rest, r))
      /\ \A x \in ToSet(rest) : Ahead(Append(rest, r), x, r)
      /\ \A x, y : x # r /\ y # r => (Ahead(Append(rest, r), x, y) <=> Ahead(rest, x, y))
      /\ Append(rest, r) \in Seq(Deliveries)
  BY <1>0, <1>1, <1>2, <1>5, AheadAppend
<1> QED
  BY <1>4, <1>5, <1>6, <1>7

-----------------------------------------------------------------------------
(* The steps, as the line sees them *)

Moves(o) == \/ at'[o] = at[o]
            \/ Started(o) /\ Started(o)' /\ (InProgress(o)' => InProgress(o))

SameRows == head' = head /\ \A o \in Deliveries : status'[o] # "none" <=> status[o] # "none"

WritesRow(r) ==
  /\ InProgress(r) /\ status'[r] # "none" /\ head' = [head EXCEPT ![Pr(r)] = r]
  /\ \A o \in Deliveries \ {r} : status'[o] = status[o]

GraphStep ==
  /\ accepted' = accepted /\ overlapped' = overlapped
  /\ \A o \in Deliveries : Moves(o)
  /\ SameRows \/ \E r \in Deliveries : WritesRow(r)

Joins(d) ==
  /\ at[d] = "none" /\ accepted' = Append(accepted, d) /\ at' = [at EXCEPT ![d] = "waiting"]
  /\ UNCHANGED <<overlapped, head, status>>

(* A run that moves on, and writes its row or none, keeps the line.         *)
LEMMA GraphKeeps ==
  ASSUME TypeOK, LineInv, GraphStep
  PROVE  LineInv'
<1> USE DEF LineInv, GraphStep, Earlier
<1>1. LineIsKnown'
  BY DEF LineIsKnown, Moves, Started
<1>2. \A x \in Deliveries : /\ Started(x)' <=> Started(x)
                            /\ at'[x] = "waiting" <=> at[x] = "waiting"
                            /\ InProgress(x)' => InProgress(x)
  BY DEF Moves, Started, InProgress
<1>3. TakenInOrder'
  BY <1>2 DEF TakenInOrder, SameRows, WritesRow, InProgress, Started
<1>4. LastInProgress'
  BY <1>2 DEF LastInProgress
<1>5. HeadIsLast'
  <2>1. CASE SameRows
    BY <2>1 DEF HeadIsLast, SameRows
  <2>2. ASSUME NEW r \in Deliveries, WritesRow(r)
        PROVE  HeadIsLast'
    <3> SUFFICES ASSUME NEW x \in Deliveries, Pr(x) \notin overlapped, status'[x] # "none",
                        \A y \in Deliveries :
                           Pr(y) = Pr(x) /\ status'[y] # "none" /\ x # y => Earlier(y, x)
                 PROVE  head'[Pr(x)] = x
      BY DEF HeadIsLast
    <3>0. head \in [Prs -> Deliveries \cup {NoHead}] /\ Pr(r) \in Prs /\ Pr(x) \in Prs
      BY DEF TypeOK, Prs
    <3>1. CASE Pr(x) # Pr(r)
      BY <2>2, <3>0, <3>1 DEF HeadIsLast, WritesRow
    <3>2. CASE x = r
      BY <2>2, <3>0, <3>2 DEF WritesRow
    <3>3. CASE Pr(x) = Pr(r) /\ x # r
      <4>1. Ahead(accepted, r, x)
        BY <2>2, <3>3 DEF WritesRow
      <4>2. Started(x)
        BY <2>2, <3>3 DEF WritesRow, TakenInOrder
      <4>3. Ahead(accepted, x, r)
        BY <2>2, <3>3, <4>2 DEF WritesRow, LastInProgress
      <4> QED
        BY <4>1, <4>3, AheadOneWay DEF LineIsKnown
    <3> QED
      BY <3>1, <3>2, <3>3
  <2> QED
    BY <2>1, <2>2
<1> QED
  BY <1>1, <1>3, <1>4, <1>5

(* A delivery that is accepted joins the end of the line.                   *)
LEMMA JoinKeeps ==
  ASSUME TypeOK, LineInv, NEW d \in Deliveries, Joins(d)
  PROVE  LineInv'
<1> USE DEF LineInv, Joins, Earlier
<1>0. at \in [Deliveries -> Places] /\ accepted \in Seq(Deliveries)
  BY DEF TypeOK
<1>1. d \notin ToSet(accepted) /\ status[d] = "none"
  BY DEF LineIsKnown, TakenInOrder, Started
<1>2. /\ ToSet(accepted') = ToSet(accepted) \cup {d} /\ IsInjective(accepted')
      /\ \A x \in ToSet(accepted) : Ahead(accepted', x, d)
      /\ \A x, y : x # d /\ y # d => (Ahead(accepted', x, y) <=> Ahead(accepted, x, y))
  BY <1>0, <1>1, AheadAppend DEF LineIsKnown
<1>3. /\ at'[d] = "waiting" /\ \A o \in Deliveries : o # d => at'[o] = at[o]
      /\ accepted' \in Seq(Deliveries)
  BY <1>0
<1>4. \A x \in Deliveries : Started(x)' => x # d /\ Started(x) /\ x \in ToSet(accepted)
  BY <1>3 DEF Started, LineIsKnown
<1>5. \A x \in Deliveries : InProgress(x)' => x # d /\ InProgress(x)
  BY <1>3 DEF InProgress
<1>6. LineIsKnown'
  BY <1>2, <1>3 DEF LineIsKnown
<1>7. TakenInOrder'
  BY <1>1, <1>2, <1>3, <1>4 DEF TakenInOrder, Started
<1>8. LastInProgress'
  BY <1>2, <1>4, <1>5 DEF LastInProgress
<1>9. HeadIsLast'
  BY <1>1, <1>2 DEF HeadIsLast
<1> QED
  BY <1>6, <1>7, <1>8, <1>9

(* The next in line is taken: it is behind all that started.               *)
LEMMA PopKeeps ==
  ASSUME TypeOK, LineInv, NEW r \in Deliveries, PopAny(r)
  PROVE  LineInv'
<1> USE DEF LineInv, Earlier
<1>0. at \in [Deliveries -> Places] /\ accepted \in Seq(Deliveries)
  BY DEF TypeOK
<1>1. /\ at[r] = "waiting" /\ at' = [at EXCEPT ![r] = "semaphore"]
      /\ UNCHANGED <<accepted, head, status>> /\ overlapped \subseteq overlapped'
      /\ (\E o \in Deliveries : Pr(o) = Pr(r) /\ InProgress(o)) => Pr(r) \in overlapped'
  BY DEF PopAny, Pop, NextInLine
<1>2. at'[r] = "semaphore" /\ \A o \in Deliveries : o # r => at'[o] = at[o]
  BY <1>0, <1>1
<1>3. \A x \in Deliveries : at[x] = "waiting" /\ x # r => Earlier(r, x)
  <2>1. PICK i \in DOMAIN accepted :
          accepted[i] = r /\ \A j \in DOMAIN accepted : j < i => at[accepted[j]] # "waiting"
    BY DEF PopAny, Pop, NextInLine
  <2>2. SUFFICES ASSUME NEW x \in Deliveries, at[x] = "waiting", x # r
                 PROVE  Ahead(accepted, r, x)
    OBVIOUS
  <2>3. PICK k \in DOMAIN accepted : accepted[k] = x
    BY <2>2 DEF LineIsKnown, ToSet
  <2>4. i \in Int /\ k \in Int /\ i # k /\ ~(k < i)
    BY <1>0, <2>1, <2>2, <2>3
  <2> QED
    BY <2>1, <2>3, <2>4 DEF Ahead
<1>4. LineIsKnown'
  BY <1>1, <1>2 DEF LineIsKnown
<1>5. TakenInOrder'
  BY <1>1, <1>2, <1>3 DEF TakenInOrder, Started
<1>6. LastInProgress'
  BY <1>1, <1>2 DEF LastInProgress, TakenInOrder, Started, InProgress
<1>7. HeadIsLast'
  BY <1>1 DEF HeadIsLast
<1> QED
  BY <1>4, <1>5, <1>6, <1>7

(* A job that is queued again goes behind those that wait.                  *)
LEMMA RequeueKeeps ==
  ASSUME TypeOK, LineInv, NEW r \in Deliveries, Requeue(r)
  PROVE  LineInv'
<1> USE DEF LineInv, Earlier
<1>0. at \in [Deliveries -> Places] /\ accepted \in Seq(Deliveries)
  BY DEF TypeOK
<1>1. /\ at[r] = "mark" /\ status[r] = "none" /\ at' = [at EXCEPT ![r] = "waiting"]
      /\ accepted' = AtTheEnd(r) /\ overlapped' = overlapped \cup {Pr(r)}
      /\ UNCHANGED <<head, status>>
  BY DEF Requeue
<1>2. at'[r] = "waiting" /\ \A o \in Deliveries : o # r => at'[o] = at[o]
  BY <1>0, <1>1
<1>3. r \in ToSet(accepted)
  BY <1>1 DEF LineIsKnown
<1>4. /\ accepted' \in Seq(Deliveries) /\ IsInjective(accepted') /\ ToSet(accepted') = ToSet(accepted)
      /\ \A x \in ToSet(accepted) : x # r => Ahead(accepted', x, r)
      /\ \A x, y : x # r /\ y # r => (Ahead(accepted', x, y) <=> Ahead(accepted, x, y))
  BY <1>0, <1>1, <1>3, AheadAtTheEnd DEF LineIsKnown
<1>5. \A x \in Deliveries : Started(x)' => x # r /\ Started(x) /\ x \in ToSet(accepted)
  BY <1>2 DEF Started, LineIsKnown
<1>6. \A x \in Deliveries : InProgress(x)' => x # r /\ InProgress(x)
  BY <1>2 DEF InProgress
<1>7. LineIsKnown'
  BY <1>1, <1>2, <1>4 DEF LineIsKnown
<1>8. TakenInOrder'
  BY <1>1, <1>2, <1>4, <1>5 DEF TakenInOrder, Started
<1>9. LastInProgress'
  BY <1>1, <1>4, <1>5, <1>6 DEF LastInProgress
<1>10. HeadIsLast'
  BY <1>1, <1>4 DEF HeadIsLast
<1> QED
  BY <1>7, <1>8, <1>9, <1>10

(* A delivery joins the line, or nothing moves.                             *)
LEMMA DeliveryIsSeen ==
  ASSUME TypeOK, NoAnswerNoRun, NEW d \in Deliveries, Deliver(d)
  PROVE  GraphStep \/ Joins(d)
<1>1. CASE DeliverRefused(d)
  BY <1>1 DEF DeliverRefused, Refuse, GraphStep, Moves, SameRows
<1>2. CASE DeliverAccepted(d)
  BY <1>2 DEF DeliverAccepted, Accept, Joins, NoAnswerNoRun
<1>3. CASE DeliverFails(d)
  BY <1>3 DEF DeliverFails, EnqueueFails, GraphStep, Moves, SameRows, Joins, NoAnswerNoRun
<1> QED
  BY <1>1, <1>2, <1>3 DEF Deliver

(* Every step of a run in the graph moves it on and writes its row or none, *)
(* until it is queued again.                                                *)
LEMMA RunIsSeen ==
  ASSUME TypeOK, NEW r \in Deliveries, RunStep(r), ~Requeue(r)
  PROVE  GraphStep
<1> USE DEF GraphStep, Moves, SameRows, WritesRow, Started, InProgress, Ended
<1>0. /\ at \in [Deliveries -> Places] /\ head \in [Prs -> Deliveries \cup {NoHead}]
      /\ status \in [Deliveries -> {"none", "PENDING", "COMPLETED", "FAILED"}]
  BY DEF TypeOK
<1>1. CASE Start(r) \/ Create(r) \/ CreateFails(r)
  BY <1>0, <1>1 DEF Start, Create, CreateFails, WriteReview
<1>2. CASE Check(r) \/ Mkdir(r) \/ Clone(r) \/ GitFails(r)
  BY <1>0, <1>2 DEF Check, Mkdir, Clone, GitFails
<1>3. CASE CloneRaises(r) \/ Checkout(r) \/ Extract(r) \/ ExtractFails(r)
  BY <1>0, <1>3 DEF CloneRaises, Checkout, Extract, ExtractFails
<1>4. CASE AnalysisEnds(r)
  BY <1>0, <1>4 DEF AnalysisEnds
<1>5. CASE Post(r) \/ ReviewRefused(r) \/ Fallback(r) \/ PostFails(r)
  BY <1>0, <1>5 DEF Post, ReviewRefused, Fallback, PostFails
<1>6. CASE Persist(r) \/ PersistFails(r)
  BY <1>0, <1>6 DEF Persist, PersistFails, StoreResults
<1>7. CASE ReadOriginal(r) \/ NoOriginal(r) \/ NoFix(r) \/ WriteFix(r)
  BY <1>0, <1>7 DEF ReadOriginal, NoOriginal, NoFix, WriteFix
<1>8. CASE CannotWriteFix(r) \/ Validate(r) \/ StorePatch(r)
  BY <1>0, <1>8 DEF CannotWriteFix, Validate, StorePatch
<1>9. CASE FlushFails(r) \/ FlushRefused(r) \/ CommitFixes(r) \/ CommitFixesFails(r)
  BY <1>0, <1>9 DEF FlushFails, FlushRefused, CommitFixes, CommitFixesFails
<1>10. CASE Bury(r)
  BY <1>0, <1>10 DEF Bury, MarkFailed
<1> QED
  BY <1>1, <1>2, <1>3, <1>4, <1>5, <1>6, <1>7, <1>8, <1>9, <1>10
     DEF RunStep, WorkspaceStep, FixStep

(* A crash ends runs and writes nothing.                                    *)
LEMMA CrashIsSeen ==
  ASSUME NEW p \in Processes, Crash(p)
  PROVE  GraphStep
BY DEF Crash, GraphStep, Moves, SameRows, Started, InProgress, Ended

(* At the start the line is empty.                                          *)
LEMMA LineInit ==
  ASSUME Init
  PROVE  LineInv
<1>1. ToSet(<<>>) = {} /\ IsInjective(<<>>)
  BY DEF ToSet, IsInjective
<1> QED
  BY <1>1 DEF Init, IntakeInit, CloneInit, LineInv, LineIsKnown, TakenInOrder, LastInProgress,
     HeadIsLast, Started, InProgress

(* So it is after every step.                                               *)
LEMMA LineStep ==
  ASSUME TypeOK, NoAnswerNoRun, LineInv, [Next]_vars
  PROVE  LineInv'
<1>1. ASSUME NEW d \in Deliveries, Deliver(d)
      PROVE  LineInv'
  BY <1>1, DeliveryIsSeen, GraphKeeps, JoinKeeps
<1>2. ASSUME NEW r \in Deliveries, PopAny(r)
      PROVE  LineInv'
  BY <1>2, PopKeeps
<1>3. ASSUME NEW r \in Deliveries, RunStep(r)
      PROVE  LineInv'
  BY <1>3, RunIsSeen, GraphKeeps, RequeueKeeps
<1>4. ASSUME NEW p \in Processes, Crash(p)
      PROVE  LineInv'
  BY <1>4, CrashIsSeen, GraphKeeps
<1>5. CASE UNCHANGED vars
  BY <1>5, GraphKeeps DEF GraphStep, Moves, SameRows
<1> QED
  BY <1>1, <1>2, <1>3, <1>4, <1>5 DEF Next

(* Of the jobs that got a row one stands last in the line: it wrote the row *)
(* of the pull request.                                                     *)
LEMMA LineShowsHead ==
  ASSUME TypeOK, LineInv
  PROVE  HeadIsLatestUnlessOverlapping
<1> USE DEF LineInv
<1> SUFFICES ASSUME NEW q \in Prs \ overlapped,
                    NEW rows, rows = {i \in DOMAIN accepted :
                                        Pr(accepted[i]) = q /\ status[accepted[i]] # "none"},
                    rows # {}
             PROVE  \E i \in rows : head[q] = accepted[i] /\ \A j \in rows : j <= i
  BY DEF HeadIsLatestUnlessOverlapping
<1>1. accepted \in Seq(Deliveries) /\ Len(accepted) \in Nat /\ DOMAIN accepted = 1..Len(accepted)
  BY DEF TypeOK
<1>2. rows \in SUBSET (1..Len(accepted))
  BY <1>1
<1>3. PICK i \in rows : \A j \in rows : i >= j
  BY <1>1, <1>2, LastOfPart
<1> DEFINE x == accepted[i]
<1>4. x \in Deliveries /\ Pr(x) = q /\ status[x] # "none" /\ i \in DOMAIN accepted
  BY <1>1
<1>5. ASSUME NEW y \in Deliveries, Pr(y) = Pr(x), status[y] # "none", x # y
      PROVE  Earlier(y, x)
  <2>1. at[y] # "none"
    BY <1>5 DEF TakenInOrder, Started
  <2>2. PICK j \in DOMAIN accepted : accepted[j] = y
    BY <2>1 DEF LineIsKnown, ToSet
  <2>3. j \in rows
    BY <1>4, <1>5, <2>2
  <2>4. j < i
    BY <1>1, <1>3, <1>4, <1>5, <2>2, <2>3
  <2> QED
    BY <1>4, <2>2, <2>4 DEF Earlier, Ahead
<1>6. head[q] = x
  BY <1>4, <1>5 DEF HeadIsLast
<1>7. \A j \in rows : j <= i
  BY <1>1, <1>2, <1>3
<1> QED
  BY <1>6, <1>7

(* For any number of deliveries, workers, crashes and retries: the row of a *)
(* pull request has the payload of the newest job with a row of its own, if *)
(* the runs of this pull request came one after the other                   *)
(* (repositories.py:126-129, task_queue.py:51-73).                          *)
THEOREM HeadIsLatest == Spec => []HeadIsLatestUnlessOverlapping
<1> DEFINE Inv == IInv /\ TypeInv /\ LineInv
<1>1. Init => Inv
  BY InitLemma, TypeInit, LineInit
<1>2. Inv /\ [Next]_vars => Inv'
  BY StepLemma, TypeStep, LineStep DEF IInv, WorkspaceInv, TypeInv
<1>3. Inv => HeadIsLatestUnlessOverlapping
  BY LineShowsHead DEF TypeInv
<1> QED
  BY <1>1, <1>2, <1>3, PTL DEF Spec
=============================================================================
