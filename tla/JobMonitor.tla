------------------------------ MODULE JobMonitor ------------------------------
(***************************************************************************)
(* Looking at jobs while they move: the lookup of one job (GET /jobs/{id}, *)
(* `vending jobs get`) peeks at the two storage queues one after the other,*)
(* and `vending jobs watch` polls the provisioning queue, while the        *)
(* dispatcher, the queue trigger, the worker and operators change both.    *)
(*                                                                         *)
(* Of the queues only what a peek can see matters here: whether a job's    *)
(* message is visible, and whether it has a copy in the dead-letter queue; *)
(* JobDelivery has what moves it.  A peek shows visible messages only, at  *)
(* most PeekLimit of them, and the storage promises nothing about which.   *)
(* Commands run in processes of their own, so everything interleaves.      *)
(***************************************************************************)
EXTENDS Naturals, Sequences, FiniteSets, FiniteSetsExt

CONSTANTS
  Jobs,       \* job ids, each with one message
  Lookups,    \* calls of find_job, or of `vending jobs get`
  PeekLimit,  \* max_messages of a peek: 32
  PeeksFail,  \* a peek may raise
  Remote      \* the watch asks the API (--remote)

ASSUME MonitorConstants ==
  /\ PeekLimit \in Nat \ {0}
  /\ {PeeksFail, Remote} \subseteq BOOLEAN

VARIABLES
  work,     \* each job's message in the provisioning queue
  taken,    \* jobs whose message the trigger has taken at least once
  done,     \* jobs with a run that ended without errors
  parked,   \* jobs that have been copied to the dead-letter queue
  dlq,      \* those whose copy is still there
  lookup,   \* local state of each lookup
  watch,    \* "on", "interrupted" by the user, "broken" or "ended"
  seen,     \* of the watch: what it has printed
  printed   \* how often each job has been printed

vars == <<work, taken, done, parked, dlq, lookup, watch, seen, printed>>

queueVars == <<work, taken, done, parked, dlq>>

watchVars == <<watch, seen, printed>>

-------------------------------------------------------------------------------
(***************************************************************************)
(* The queues                                                              *)
(***************************************************************************)

\* `vending enqueue --remote`, POST /jobs/enqueue or the dispatcher.  Without
\* --remote the command imports what is not there, and sends nothing.
Enqueue(j) ==
  /\ work[j] = "absent"
  /\ work' = [work EXCEPT ![j] = "visible"]
  /\ UNCHANGED <<taken, done, parked, dlq, lookup, watchVars>>

\* The queue trigger takes the message; nobody sees it now.
Lease(j) ==
  /\ work[j] = "visible"
  /\ work' = [work EXCEPT ![j] = "leased"]
  /\ taken' = taken \cup {j}
  /\ UNCHANGED <<done, parked, dlq, lookup, watchVars>>

\* The delivery failed, or its lease has ended.
Release(j) ==
  /\ work[j] = "leased"
  /\ work' = [work EXCEPT ![j] = "visible"]
  /\ UNCHANGED <<taken, done, parked, dlq, lookup, watchVars>>

\* A run may end after its lease, and after the message has been deleted.
RunSucceeds(j) ==
  /\ j \in taken
  /\ done' = done \cup {j}
  /\ UNCHANGED <<work, taken, parked, dlq, lookup, watchVars>>

\* move_to_dlq: a copy; the message itself stays where it is.
MoveToDlq(j) ==
  /\ parked' = parked \cup {j}
  /\ dlq' = dlq \cup {j}

\* The worker parks a job that the trigger has taken; the lease may have ended meanwhile.
Park(j) ==
  /\ j \in taken
  /\ MoveToDlq(j)
  /\ UNCHANGED <<work, taken, done, lookup, watchVars>>

\* The trigger deletes a message whose delivery was answered with 200.
Delete(j) ==
  /\ work[j] \in {"visible", "leased"}
  /\ j \in done \cup parked
  /\ work' = [work EXCEPT ![j] = "gone"]
  /\ UNCHANGED <<taken, done, parked, dlq, lookup, watchVars>>

\* `vending jobs purge`, DELETE /jobs/dlq
Purge ==
  /\ dlq # {}
  /\ dlq' = {}
  /\ UNCHANGED <<work, taken, done, parked, lookup, watchVars>>

Visible == {j \in Jobs : work[j] = "visible"}

InQueue(q) == IF q = "work" THEN Visible ELSE dlq

\* What peek_messages may return of queue q.
Peeks(q) ==
  LET there == InQueue(q)
  IN  IF Cardinality(there) <= PeekLimit THEN {there} ELSE kSubset(PeekLimit, there)

-------------------------------------------------------------------------------
(***************************************************************************)
(* Lookup of a job                                                         *)
(***************************************************************************)

\* Faulty variant: the dead-letter queue is looked at first.
DlqFirst == <<"dlq", "work">>

\* The queues in the order find_job peeks at them.
PeekOrder == <<"work", "dlq">>

StartLookup(l, j) ==
  /\ lookup[l].pc = "idle"
  /\ lookup' = [lookup EXCEPT ![l] = [@ EXCEPT !.pc = "peeking", !.job = j]]
  /\ UNCHANGED <<queueVars, watchVars>>

\* Why a peek at queue q has not shown job j, as far as only the queues know it.
Excuse(q, j) ==
  IF j \in InQueue(q) THEN "crowded" ELSE IF q = "work" /\ work[j] = "leased" THEN "leased"
  ELSE IF work[j] = "absent" THEN "absent"
  ELSE IF q = "dlq" /\ j \in parked THEN "purged" ELSE "elsewhere"

\* Faulty variant: the lookup does not notice the last queue.
MissedOffByOne(x, excuse) ==
  [x EXCEPT !.idx = @ + 1, !.excuses = @ \cup {excuse},
            !.pc = IF x.idx > Len(PeekOrder) THEN "not found" ELSE @]

\* The lookup goes on to the next queue, and gives up after the last one.
Missed(x, excuse) ==
  [x EXCEPT !.idx = @ + 1, !.excuses = @ \cup {excuse},
            !.pc = IF x.idx = Len(PeekOrder) THEN "not found" ELSE @]

\* A peek that raises is passed over.
Peek(l) ==
  /\ lookup[l].pc = "peeking"
  /\ LET x == lookup[l]
         q == PeekOrder[x.idx]
     IN  \/ \E shown \in Peeks(q) :
              lookup' = [lookup EXCEPT ![l] =
                           IF x.job \in shown THEN [x EXCEPT !.pc = q]
                                              ELSE Missed(x, Excuse(q, x.job))]
         \/ /\ PeeksFail
            /\ lookup' = [lookup EXCEPT ![l] = Missed(x, "failed")]
  /\ UNCHANGED <<queueVars, watchVars>>

-------------------------------------------------------------------------------
(***************************************************************************)
(* The watch                                                               *)
(***************************************************************************)

Poll ==
  /\ watch = "on"
  /\ \E shown \in Peeks("work") :
       /\ printed' = [j \in Jobs |-> IF j \in shown \ seen THEN printed[j] + 1 ELSE printed[j]]
       /\ seen' = seen \cup shown
  /\ UNCHANGED <<queueVars, lookup, watch>>

\* Faulty variant: a failing poll ends the watch.
StopsOnError == watch' = "ended" /\ UNCHANGED seen

\* Faulty variant: the watch starts again after a failing poll.
ForgetsOnError == seen' = {} /\ UNCHANGED watch

\* The error is printed, and the watch goes on as it was.
GoesOnAfterError == UNCHANGED <<watch, seen>>

PollFails ==
  /\ watch = "on"
  /\ PeeksFail
  /\ GoesOnAfterError
  /\ UNCHANGED <<queueVars, lookup, printed>>

\* _api_get turns refused connections, timeouts and error codes into the error that the
\* watch goes on after, but not an answer whose body it cannot read.
AnswerUnreadable ==
  /\ watch = "on"
  /\ Remote
  /\ watch' = "broken"
  /\ UNCHANGED <<queueVars, lookup, seen, printed>>

\* Ctrl+C
Interrupt ==
  /\ watch = "on"
  /\ watch' = "interrupted"
  /\ UNCHANGED <<queueVars, lookup, seen, printed>>

-------------------------------------------------------------------------------

Init ==
  /\ work = [j \in Jobs |-> "absent"]
  /\ taken = {}
  /\ done = {}
  /\ parked = {}
  /\ dlq = {}
  /\ lookup = [l \in Lookups |-> [pc |-> "idle", job |-> "none", idx |-> 1, excuses |-> {}]]
  /\ watch = "on"
  /\ seen = {}
  /\ printed = [j \in Jobs |-> 0]

Queue(j) ==
  Enqueue(j) \/ Lease(j) \/ Release(j) \/ RunSucceeds(j) \/ Park(j) \/ Delete(j)

Next ==
  \/ \E j \in Jobs : Queue(j) \/ \E l \in Lookups : StartLookup(l, j)
  \/ Purge
  \/ \E l \in Lookups : Peek(l)
  \/ Poll \/ PollFails \/ AnswerUnreadable \/ Interrupt

\* The watch keeps polling, and the storage answers again and again.
Fairness == WF_vars(Poll)

Spec == Init /\ [][Next]_vars

FairSpec == Spec /\ Fairness

-------------------------------------------------------------------------------
(***************************************************************************)
(* Properties                                                              *)
(***************************************************************************)

LookupState ==
  [pc : {"idle", "peeking", "work", "dlq", "not found"}, job : Jobs \cup {"none"}, idx : 1 .. 3,
   excuses : SUBSET {"crowded", "leased", "absent", "purged", "elsewhere", "failed"}]

TypeOK ==
  /\ work \in [Jobs -> {"absent", "visible", "leased", "gone"}]
  /\ done \subseteq taken
  /\ taken \subseteq Jobs
  /\ parked \subseteq Jobs
  /\ dlq \subseteq parked
  /\ lookup \in [Lookups -> LookupState]
  /\ \A l \in Lookups : lookup[l].pc = "peeking" => lookup[l].idx <= Len(PeekOrder)
  /\ watch \in {"on", "interrupted", "broken", "ended"}
  /\ seen \subseteq Jobs
  /\ printed \in [Jobs -> Nat]

\* A job never falls between the two peeks of a lookup: "not found" means that
\* it was not enqueued yet, was being processed as the lookup began, is done, or
\* was purged, unless a peek failed or the job was not among the PeekLimit
\* messages shown (jobs move from the provisioning to the dead-letter queue,
\* copy first, and find_job looks in the same order).
NotFoundIsExplained ==
  \A l \in Lookups :
    lookup[l].pc = "not found" =>
      \/ lookup[l].excuses \cap {"failed", "crowded", "leased", "absent", "purged"} # {}
      \/ lookup[l].job \in done

\* The watch prints a job once, however often its message is taken and comes
\* back, and whatever polls fail between (the set `seen` of jobs_watch).
WatchPrintsOnce == \A j \in Jobs : printed[j] <= 1

\* The watch does not overlook a job that waits: one that stays visible among no
\* more than PeekLimit messages is printed, whatever polls have failed before,
\* unless the user stops the watch or an answer of the API that is no JSON breaks it.
WatchSeesWaiting ==
  \A j \in Jobs :
    <>[](j \in Visible /\ Cardinality(Visible) <= PeekLimit /\ watch \notin {"interrupted", "broken"})
      => <>(printed[j] > 0)
===============================================================================
