----------------------------- MODULE MCPipeline -----------------------------
(***************************************************************************)
(* Instances of Pipeline: a pull request that is opened, the same event    *)
(* again, a new commit, and deliveries the endpoint turns down.            *)
(***************************************************************************)
EXTENDS Pipeline

CONSTANTS opened, again, pushed,     \* reviewed, with an answer of 202
          forged, closed, garbled,          \* turned down
          c1, c2, pr1

Reviewable(commit) == [signature |-> "valid", event |-> "pull_request", action |-> "opened",
                       body |-> "valid", pr |-> pr1, commit |-> commit, attempt |-> 1]

MCEvent ==
  [d \in Deliveries |->
     CASE d = opened   -> Reviewable(c1)
       [] d = again    -> [Reviewable(c1) EXCEPT !.attempt = 2]
       [] d = pushed   -> [Reviewable(c2) EXCEPT !.action = "synchronize"]
       [] d = forged   -> [Reviewable(c1) EXCEPT !.signature = "wrong"]
       [] d = closed   -> [Reviewable(c1) EXCEPT !.action = "closed"]
       [] OTHER        -> [Reviewable(c1) EXCEPT !.body = "unreadable"]]

\* One run has more findings to fix than are fixed, another of its commit one or none.
MCEligible ==
  [d \in Deliveries |-> CASE d = opened -> {3} [] d = again -> {0, 1} [] OTHER -> {0}]
=============================================================================
