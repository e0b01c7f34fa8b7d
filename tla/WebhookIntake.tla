---------------------------- MODULE WebhookIntake ----------------------------
(***************************************************************************)
(* The webhook endpoint (apps/webhook_api): what a delivery of GitHub is   *)
(* answered, and which deliveries become jobs.                             *)
(*                                                                         *)
(* Event[d] is what delivery d says: a record                              *)
(*    [signature, event, action, body, pr, commit, attempt]                *)
(* with signature "valid", "wrong" or "missing" and body "valid",          *)
(* "incomplete" (a required field is missing) or "unreadable".  GitHub     *)
(* sends an event again when somebody asks for it: deliveries that differ  *)
(* in their attempt alone.                                                 *)
(***************************************************************************)
EXTENDS Integers, Sequences

CONSTANTS Deliveries, Event

ASSUME IntakeAssumption ==
  \A d \in Deliveries : Event[d].signature \in {"valid", "wrong", "missing"}

VARIABLES answer,     \* the HTTP answer to each delivery, "none" before
          accepted    \* the deliveries whose job was pushed, oldest first

intakeVars == <<answer, accepted>>

\* Outcomes of the endpoint; "ignored" is a 202 without a job.
Answers == {"none", "401", "403", "ignored", "422", "500", "202"}

REVIEW_TRIGGER_ACTIONS == {"opened", "synchronize", "reopened"}

IntakeInit == answer = [d \in Deliveries |-> "none"] /\ accepted = <<>>

(* Mutant: the signature is looked for and not compared.                    *)
VerdictUnsigned(d) ==
  LET e == Event[d] IN
  CASE e.signature = "missing"      -> "401"
    [] e.signature # "missing" /\ e.event # "pull_request" -> "ignored"
    [] e.signature # "missing" /\ e.event = "pull_request" /\ e.body = "unreadable" -> "500"
    [] OTHER -> IF e.action \notin REVIEW_TRIGGER_ACTIONS THEN "ignored"
                ELSE IF e.body = "incomplete" THEN "422" ELSE "202"

\* verify_github_signature, then receive_github_webhook up to the enqueue.
Verdict(d) ==
  LET e == Event[d] IN
  CASE e.signature = "missing"      -> "401"
    [] e.signature = "wrong"        -> "403"
    [] e.signature = "valid" /\ e.event # "pull_request" -> "ignored"
    [] e.signature = "valid" /\ e.event = "pull_request" /\ e.body = "unreadable" -> "500"
    [] OTHER -> IF e.action \notin REVIEW_TRIGGER_ACTIONS THEN "ignored"
                ELSE IF e.body = "incomplete" THEN "422" ELSE "202"

Refuse(d) ==
  /\ answer[d] = "none" /\ Verdict(d) # "202"
  /\ answer' = [answer EXCEPT ![d] = Verdict(d)]
  /\ UNCHANGED accepted

\* A delivery is never compared with earlier ones: a new job every time.
Accept(d) ==
  /\ answer[d] = "none" /\ Verdict(d) = "202"
  /\ answer' = [answer EXCEPT ![d] = "202"]
  /\ accepted' = Append(accepted, d)

\* LPUSH raises, before its effect or after it: the sender sees a 500.
EnqueueFails(d, effect) ==
  /\ answer[d] = "none" /\ Verdict(d) = "202"
  /\ answer' = [answer EXCEPT ![d] = "500"]
  /\ accepted' = IF effect THEN Append(accepted, d) ELSE accepted
=============================================================================
