--------------------------- MODULE ReliableQueue ---------------------------
(***************************************************************************)
(* What the header of task_queue/task_queue.py promises its callers, with  *)
(* no lists, no bytes and no steps: every job is in exactly one place and  *)
(* moves along  unsent -> pending -> inflight -> done | dead | pending.    *)
(* A job may be lost, but only while it is in flight; one that waits, is   *)
(* done or is buried stays so until the next legal move.                   *)
(***************************************************************************)
CONSTANTS Jobs

VARIABLE place

Places == {"unsent", "pending", "inflight", "done", "dead", "lost"}

TypeOK == place \in [Jobs -> Places]

Init == place = [j \in Jobs |-> "unsent"]

Move(j, from, to) ==
    /\ place[j] = from
    /\ place' = [place EXCEPT ![j] = to]

Submit(j)  == Move(j, "unsent", "pending")
Deliver(j) == Move(j, "pending", "inflight")
Finish(j)  == Move(j, "inflight", "done")
Retry(j)   == Move(j, "inflight", "pending")
Bury(j)    == Move(j, "inflight", "dead")
Lose(j)    == Move(j, "inflight", "lost")

Next == \E j \in Jobs : \/ Submit(j) \/ Deliver(j) \/ Finish(j)
                        \/ Retry(j) \/ Bury(j) \/ Lose(j)

Spec == Init /\ [][Next]_place

(* A process that ends may lose several of the jobs it has in flight at     *)
(* once; the promise is otherwise the same.                                 *)
Abandon ==
    place' = [j \in Jobs |-> IF place[j] = "inflight" /\ place'[j] = "lost"
                             THEN "lost" ELSE place[j]]

ProcessNext == Abandon \/ Next

ProcessSpec == Init /\ [][ProcessNext]_place
=============================================================================
