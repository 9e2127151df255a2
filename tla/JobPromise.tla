------------------------------ MODULE JobPromise ------------------------------
(***************************************************************************)
(* What the queue strategy promises about a provisioning job: once it is   *)
(* in the work queue it stays owed until it is settled, and it is settled  *)
(* only by a run without errors or by a copy in the dead-letter queue.     *)
(***************************************************************************)
CONSTANT Jobs

VARIABLES
  job,     \* "none", "owed" or "settled"
  outcome  \* what has become of each job so far: subset of Ends

pvars == <<job, outcome>>

\* "done": a run ended without errors; "parked": copied to the dead-letter queue.
Ends == {"done", "parked"}

Init ==
  /\ job = [j \in Jobs |-> "none"]
  /\ outcome = [j \in Jobs |-> {}]

Promise(j) ==
  /\ job[j] = "none"
  /\ job' = [job EXCEPT ![j] = "owed"]
  /\ UNCHANGED outcome

\* An end may be reached twice, and after the job has been settled: a message
\* can be delivered again while an earlier delivery is still being processed.
Reach(j, e) ==
  /\ job[j] # "none"
  /\ outcome' = [outcome EXCEPT ![j] = @ \cup {e}]
  /\ UNCHANGED job

Settle(j) ==
  /\ job[j] = "owed"
  /\ outcome[j] # {}
  /\ job' = [job EXCEPT ![j] = "settled"]
  /\ UNCHANGED outcome

Next == \E j \in Jobs : Promise(j) \/ Settle(j) \/ \E e \in Ends : Reach(j, e)

Spec == Init /\ [][Next]_pvars

\* An owed job does not stay owed for ever.
EveryJobSettles == \A j \in Jobs : (job[j] = "owed") ~> (job[j] = "settled")
===============================================================================
