----------------------------- MODULE JobDelivery ------------------------------
(***************************************************************************)
(* From an Event Grid delivery to a provisioned subscription: the webhook  *)
(* handler goes through the events of a delivery and hands each created    *)
(* subscription to the dispatcher, which runs the workflow inline or sends *)
(* a job to the storage queue; a queue trigger posts the jobs to the       *)
(* worker endpoint until the worker answers 200.                           *)
(*                                                                         *)
(* Event Grid, the two storage queues and the queue trigger are external;  *)
(* they are modelled from what the service relies on: Event Grid posts a   *)
(* delivery again when it gets no 200 in time, and a leased message        *)
(* reappears unless it is deleted under its last lease.                    *)
(*                                                                         *)
(* A run of the workflow is one await with three outcomes (WorkflowEngine  *)
(* has its insides).  Dispatching to the queue awaits nothing, but the     *)
(* process may die after any event, so each event is a step.               *)
(***************************************************************************)
EXTENDS Naturals, Sequences, FiniteSets, SequencesExt

CONSTANTS
  Subs,              \* subscriptions
  Batches,           \* Event Grid deliveries
  Content,           \* the events of a delivery: sequences of Subs and Skipped
  Skipped,           \* an event that is invalid, of another type or without an id
  Strategies,        \* the values of settings.retry_strategy to consider
  StorageAccount,    \* settings.storage_account_name is set
  SdkInstalled,      \* azure-storage-queue can be imported
  StorageFails,      \* calls to Azure Storage may fail
  MaxDeliveryCount,  \* settings.queue_max_delivery_count
  GridAttempts,      \* how often Event Grid posts a delivery
  MaxMessages,       \* bound: messages ever sent to the work queue
  MaxManual,         \* bound: messages sent by POST /jobs/enqueue
  MaxDeliveries,     \* bound: how often the trigger gets one message
  MaxExpiries,       \* bound: leases that end before their delivery is settled
  MaxRefusals,       \* bound: posts to the worker that start nothing
  MaxCrashes         \* bound: crashes of the process

ASSUME DeliveryConstants ==
  /\ Skipped \notin Subs
  /\ Content \in [Batches -> Seq(Subs \cup {Skipped})]
  /\ Strategies \subseteq {"none", "queue", "dead_letter"}
  /\ {StorageAccount, SdkInstalled, StorageFails} \subseteq BOOLEAN
  /\ {MaxDeliveryCount, GridAttempts, MaxMessages, MaxManual, MaxDeliveries,
      MaxExpiries, MaxRefusals, MaxCrashes} \subseteq Nat

Messages == 1 .. MaxMessages

Deliveries == 1 .. MaxDeliveries

Attempts == 1 .. GridAttempts

QueueNames == {"work", "dlq"}

RunOutcomes == {"ok", "errors", "raises"}

VARIABLES
  strategy,     \* settings.retry_strategy; never changes
  grid,         \* what Event Grid knows of a delivery, and how often it has posted it
  handler,      \* the webhook request of each post
  queues,       \* the storage queues that exist
  ensured,      \* _queues_ensured
  work,         \* the messages of the work queue
  task,         \* the worker request of each delivery of a message
  dlq,          \* the dead-letter queue: which delivery of which message put a job there
  purged,       \* messages whose dead-lettered job an operator has cleared
  tried,        \* subscriptions for which a run has been started by the webhook
  provisioned,  \* subscriptions with a run that ended without errors
  expiries, refusals, crashes

vars == <<strategy, grid, handler, queues, ensured, work, task, dlq, purged, tried,
          provisioned, expiries, refusals, crashes>>

gridVars == <<grid, handler, tried>>

queueVars == <<queues, ensured>>

jobVars == <<work, task, dlq, purged>>

bounds == <<expiries, refusals, crashes>>

-------------------------------------------------------------------------------
(***************************************************************************)
(* The webhook                                                             *)
(***************************************************************************)

\* dispatch runs the workflow in the request itself.
Inline == strategy # "queue" \/ ~ StorageAccount

Event(b, a) == Content[b][handler[b][a].idx]

Handling(b, a) == handler[b][a].pc = "handling" /\ handler[b][a].idx <= Len(Content[b])

NextEvent(b, a) ==
  handler' = [handler EXCEPT ![b][a] = [pc |-> "handling", idx |-> @.idx + 1]]

\* Event Grid posts the delivery again, until it gives up.
Refused(b, g) ==
  [g EXCEPT ![b].state = IF g[b].attempt < GridAttempts THEN "due" ELSE "dropped"]

\* The response to post a of delivery b; Event Grid takes no notice of it when
\* it has stopped waiting.
Respond(b, a, code) ==
  /\ handler' = [handler EXCEPT ![b][a].pc = IF code = 200 THEN "accepted" ELSE "refused"]
  /\ grid' = IF grid[b] # [state |-> "sent", attempt |-> a] THEN grid
             ELSE IF code = 200 THEN [grid EXCEPT ![b].state = "accepted"]
             ELSE Refused(b, grid)

Post(b) ==
  /\ grid[b].state = "due"
  /\ LET a == grid[b].attempt + 1
     IN  /\ grid' = [grid EXCEPT ![b] = [state |-> "sent", attempt |-> a]]
         /\ handler' = [handler EXCEPT ![b][a] = [pc |-> "handling", idx |-> 1]]
  /\ UNCHANGED <<tried, queueVars, jobVars, provisioned, bounds, strategy>>

\* Event Grid stops waiting; the handler, if it is alive, goes on.
PostTimesOut(b) ==
  /\ grid[b].state = "sent"
  /\ grid' = Refused(b, grid)
  /\ UNCHANGED <<handler, tried, queueVars, jobVars, provisioned, bounds, strategy>>

SkipEvent(b, a) ==
  /\ Handling(b, a)
  /\ Event(b, a) = Skipped
  /\ NextEvent(b, a)
  /\ UNCHANGED <<grid, tried, queueVars, jobVars, provisioned, bounds, strategy>>

RunInline(b, a) ==
  /\ Handling(b, a)
  /\ Event(b, a) \in Subs
  /\ Inline
  /\ handler' = [handler EXCEPT ![b][a].pc = "running"]
  /\ tried' = tried \cup {Event(b, a)}
  /\ UNCHANGED <<grid, queueVars, jobVars, provisioned, bounds, strategy>>

\* Faulty variant: only reported errors are answered with 500, not exceptions.
AnswersErrorOnResult(o) == strategy = "dead_letter" /\ o = "errors"

AnswersError(o) == strategy = "dead_letter" /\ o # "ok"

\* Faulty variant: the exception of one event ends the loop over the events.
LeavesLoopOnRaise(o) == o = "raises"

\* An outcome after which the remaining events are not looked at (never: the
\* try statement is inside the loop).
LeavesLoop(o) == FALSE

InlineEnds(b, a) ==
  /\ handler[b][a].pc = "running"
  /\ \E o \in RunOutcomes :
       /\ provisioned' = IF o = "ok" THEN provisioned \cup {Event(b, a)} ELSE provisioned
       /\ CASE AnswersError(o) -> Respond(b, a, 500)
            [] LeavesLoop(o)   -> Respond(b, a, 200)
            [] OTHER           -> NextEvent(b, a) /\ UNCHANGED grid
  /\ UNCHANGED <<tried, queueVars, jobVars, bounds, strategy>>

AllHandled(b, a) ==
  /\ handler[b][a].pc = "handling"
  /\ handler[b][a].idx > Len(Content[b])
  /\ Respond(b, a, 200)
  /\ UNCHANGED <<tried, queueVars, jobVars, provisioned, bounds, strategy>>

-------------------------------------------------------------------------------
(***************************************************************************)
(* The storage queues                                                      *)
(***************************************************************************)

Used == {m \in Messages : work[m].state # "unused"}

Manual == {m \in Used : work[m].origin = "api"}

\* client.send_message: fails for certain when the queue does not exist.
SendOutcomes(name, existing) ==
  {ok \in BOOLEAN : ok => name \in existing} \cap
  {ok \in BOOLEAN : ok \/ StorageFails \/ name \notin existing}

Send(s, origin) ==
  /\ Cardinality(Used) < MaxMessages
  /\ work' = [work EXCEPT ![Cardinality(Used) + 1] =
                [state |-> "visible", sub |-> s, origin |-> origin, count |-> 0]]

\* Faulty variant: the dead-letter queue is created under another name.
CreateWrongName == {{"work", "deadletter"}}

\* ensure_queues_exist swallows what create_queue raises.
CreateOutcomes ==
  IF StorageFails THEN {queues \cup new : new \in SUBSET QueueNames} ELSE {QueueNames}

\* Faulty variant: the queues are not created on first use.
EnsureNothing == {queues}

\* Faulty variant: only the work queue is created.
EnsureWorkQueueOnly == {queues \cup {"work"}}

EnsureOutcomes == IF ensured THEN {queues} ELSE CreateOutcomes

\* Without the SDK the first queue client raises before the flag is set.  No
\* exception reaches Event Grid: it is logged and the next event is handled.
Enqueue(b, a) ==
  /\ Handling(b, a)
  /\ Event(b, a) \in Subs
  /\ ~ Inline
  /\ IF SdkInstalled
     THEN /\ ensured' = TRUE
          /\ queues' \in EnsureOutcomes
          /\ \E ok \in SendOutcomes("work", queues') :
               IF ok THEN Send(Event(b, a), "event") ELSE UNCHANGED work
     ELSE UNCHANGED <<queueVars, work>>
  /\ NextEvent(b, a)
  /\ UNCHANGED <<grid, task, dlq, purged, tried, provisioned, bounds, strategy>>

\* POST /jobs/enqueue
EnqueueJob(s) ==
  /\ StorageAccount /\ SdkInstalled
  /\ Cardinality(Manual) < MaxManual
  /\ TRUE \in SendOutcomes("work", queues)
  /\ Send(s, "api")
  /\ UNCHANGED <<gridVars, queueVars, task, dlq, purged, provisioned, bounds, strategy>>

\* DELETE /jobs/dlq
PurgeDlq ==
  /\ dlq # {}
  /\ dlq' = {}
  /\ purged' = purged \cup {d[1] : d \in dlq}
  /\ UNCHANGED <<gridVars, queueVars, work, task, provisioned, bounds, strategy>>

-------------------------------------------------------------------------------
(***************************************************************************)
(* The queue trigger and the worker                                        *)
(***************************************************************************)

\* Faulty variant: a job is parked in place of its last run.
ExceedsEarly(n) == n >= MaxDeliveryCount

Exceeds(n) == n > MaxDeliveryCount

\* Faulty variant: a job over its limit is answered "dead_lettered" and dropped.
ParkNothing(m, n) == task' = [task EXCEPT ![m][n] = "parked"] /\ UNCHANGED dlq

\* move_to_dlq; when it raises the worker answers 500.
Park(m, n) ==
  \E ok \in IF StorageAccount THEN SendOutcomes("dlq", queues) ELSE {TRUE} :
    /\ task' = [task EXCEPT ![m][n] = IF ok THEN "parked" ELSE "unparked"]
    /\ dlq' = IF ok /\ StorageAccount THEN dlq \cup {<<m, n>>} ELSE dlq

\* The trigger leases a visible message, counts the delivery and posts it.
Lease(m) ==
  /\ work[m].state = "visible"
  /\ work[m].count < MaxDeliveries
  /\ LET n == work[m].count + 1
     IN  /\ work' = [work EXCEPT ![m].state = "leased", ![m].count = n]
         /\ task' = [task EXCEPT ![m][n] = "posted"]
  /\ UNCHANGED <<gridVars, queueVars, dlq, purged, provisioned, bounds, strategy>>

\* The secret or the message is not accepted (401, 400), or the post does not reach a
\* worker: the delivery has been counted, and there is no run.
Refuse(m, n) ==
  /\ task[m][n] = "posted"
  /\ refusals < MaxRefusals
  /\ refusals' = refusals + 1
  /\ task' = [task EXCEPT ![m][n] = "refused"]
  /\ UNCHANGED <<gridVars, queueVars, work, dlq, purged, provisioned, expiries, crashes, strategy>>

\* The worker takes the job, and decides by the count before its first await.
ProcessJob(m, n) ==
  /\ task[m][n] = "posted"
  /\ IF Exceeds(n) THEN Park(m, n)
     ELSE task' = [task EXCEPT ![m][n] = "running"] /\ UNCHANGED dlq
  /\ UNCHANGED <<gridVars, queueVars, work, purged, provisioned, bounds, strategy>>

JobEnds(m, n) ==
  /\ task[m][n] = "running"
  /\ \E o \in RunOutcomes :
       /\ task' = [task EXCEPT ![m][n] = IF o = "ok" THEN "ok" ELSE "failed"]
       /\ provisioned' = IF o = "ok" THEN provisioned \cup {work[m].sub} ELSE provisioned
  /\ UNCHANGED <<gridVars, queueVars, work, dlq, purged, bounds, strategy>>

\* Faulty variant: the worker answers 200 to a run with errors as well.
AnsweredAnyway == {"ok", "parked", "failed"}

\* The worker requests that were answered with 200.
Answered200 == {"ok", "parked"}

\* The trigger deletes a message after a 200, with the receipt of that delivery.
Delete(m, n) ==
  /\ task[m][n] \in Answered200
  /\ work[m].state \in {"visible", "leased"}
  /\ work[m].count = n
  /\ work' = [work EXCEPT ![m].state = "gone"]
  /\ UNCHANGED <<gridVars, queueVars, task, dlq, purged, provisioned, bounds, strategy>>

\* Answered with an error, or not at all.
Unanswered == {"failed", "unparked", "refused", "lost"}

\* After a failed delivery the message becomes visible again.
Reappear(m) ==
  /\ work[m].state = "leased"
  /\ task[m][work[m].count] \in Unanswered
  /\ work' = [work EXCEPT ![m].state = "visible"]
  /\ UNCHANGED <<gridVars, queueVars, task, dlq, purged, provisioned, bounds, strategy>>

\* The visibility timeout ends before the delivery is settled.
LeaseExpires(m) ==
  /\ work[m].state = "leased"
  /\ task[m][work[m].count] \notin Unanswered
  /\ expiries < MaxExpiries
  /\ work' = [work EXCEPT ![m].state = "visible"]
  /\ expiries' = expiries + 1
  /\ UNCHANGED <<gridVars, queueVars, task, dlq, purged, provisioned, refusals, crashes, strategy>>

\* The process dies and is started again: what it was doing is lost.
Crash ==
  /\ crashes < MaxCrashes
  /\ crashes' = crashes + 1
  /\ ensured' = FALSE
  /\ handler' = [b \in Batches |-> [a \in Attempts |->
                   IF handler[b][a].pc \in {"handling", "running"}
                   THEN [handler[b][a] EXCEPT !.pc = "lost"] ELSE handler[b][a]]]
  /\ task' = [m \in Messages |-> [n \in Deliveries |->
                IF task[m][n] = "running" THEN "lost" ELSE task[m][n]]]
  /\ UNCHANGED <<grid, tried, queues, work, dlq, purged, provisioned, expiries, refusals, strategy>>

-------------------------------------------------------------------------------

Init ==
  /\ strategy \in Strategies
  /\ grid = [b \in Batches |-> [state |-> "due", attempt |-> 0]]
  /\ handler = [b \in Batches |-> [a \in Attempts |-> [pc |-> "none", idx |-> 0]]]
  /\ queues \in {{}, QueueNames}
  /\ ensured = FALSE
  /\ work = [m \in Messages |->
               [state |-> "unused", sub |-> Skipped, origin |-> "event", count |-> 0]]
  /\ task = [m \in Messages |-> [n \in Deliveries |-> "none"]]
  /\ dlq = {}
  /\ purged = {}
  /\ tried = {}
  /\ provisioned = {}
  /\ expiries = 0
  /\ refusals = 0
  /\ crashes = 0

Handle(b, a) ==
  SkipEvent(b, a) \/ RunInline(b, a) \/ InlineEnds(b, a) \/ Enqueue(b, a) \/ AllHandled(b, a)

Next ==
  \/ \E b \in Batches : Post(b) \/ PostTimesOut(b) \/ \E a \in Attempts : Handle(b, a)
  \/ \E s \in Subs : EnqueueJob(s)
  \/ PurgeDlq
  \/ \E m \in Messages :
       \/ Lease(m) \/ Reappear(m) \/ LeaseExpires(m)
       \/ \E n \in Deliveries : Refuse(m, n) \/ ProcessJob(m, n) \/ JobEnds(m, n) \/ Delete(m, n)
  \/ Crash

\* A post whose handler is gone gets no answer.
PostUnanswered(b) ==
  handler[b][grid[b].attempt].pc = "lost" /\ PostTimesOut(b)

Fairness ==
  /\ \A b \in Batches :
       /\ WF_vars(Post(b))
       /\ WF_vars(grid[b].attempt \in Attempts /\ PostUnanswered(b))
       /\ \A a \in Attempts : WF_vars(Handle(b, a))
  /\ \A m \in Messages :
       /\ WF_vars(Lease(m))
       /\ WF_vars(Reappear(m))
       /\ \A n \in Deliveries :
            WF_vars(ProcessJob(m, n)) /\ WF_vars(JobEnds(m, n)) /\ WF_vars(Delete(m, n))

Spec == Init /\ [][Next]_vars

FairSpec == Spec /\ Fairness

-------------------------------------------------------------------------------
(***************************************************************************)
(* Properties                                                              *)
(***************************************************************************)

TypeOK ==
  /\ strategy \in Strategies
  /\ grid \in [Batches -> [state : {"due", "sent", "accepted", "dropped"}, attempt : Nat]]
  /\ handler \in [Batches -> [Attempts ->
                    [pc : {"none", "handling", "running", "accepted", "refused", "lost"}, idx : Nat]]]
  /\ queues \subseteq QueueNames
  /\ ensured \in BOOLEAN
  /\ work \in [Messages -> [state : {"unused", "visible", "leased", "gone"},
                            sub : Subs \cup {Skipped}, origin : {"event", "api"}, count : Nat]]
  /\ task \in [Messages -> [Deliveries -> {"none", "posted", "running", "ok", "parked"} \cup Unanswered]]
  /\ dlq \subseteq Messages \X Deliveries
  /\ purged \subseteq Messages
  /\ tried \cup provisioned \subseteq Subs
  /\ expiries \in Nat /\ refusals \in Nat /\ crashes \in Nat

Created(b) == ToSet(Content[b]) \ {Skipped}

DeadLettered == {d[1] : d \in dlq} \cup purged

\* With dead_letter Event Grid is told 200 only for a delivery whose
\* subscriptions have all been provisioned without errors, whatever crashes,
\* repeated posts and failing neighbours in the batch there were (the early 500
\* of handle_event_grid_delivery).
AcceptedMeansProvisioned ==
  strategy = "dead_letter" =>
    \A b \in Batches : grid[b].state = "accepted" => Created(b) \subseteq provisioned

\* Where the workflow runs in the request, one failing event of a delivery does
\* not cost the others their run: when Event Grid is told 200, every
\* subscription has been tried (the try statement inside the loop).
AcceptedMeansTried ==
  Inline =>
    \A b \in Batches : grid[b].state = "accepted" => Created(b) \subseteq tried

\* Somebody still answers for subscription s: it is provisioned, or a job for it
\* is in the work queue, or one is, or was, in the dead-letter queue.
Owed(s) ==
  \/ s \in provisioned
  \/ \E m \in Used : work[m].sub = s /\ (work[m].state # "gone" \/ m \in DeadLettered)

\* With the queue strategy no subscription of an accepted delivery is forgotten,
\* from the enqueue to the last retry.
AcceptedMeansOwed ==
  ~ Inline =>
    \A b \in Batches : grid[b].state = "accepted" => \A s \in Created(b) : Owed(s)

\* The retry budget: a job is given up only after all its runs have failed.  Each
\* lease that ran out, each refused delivery and each crash may have cost it one of
\* these runs, but no more than one, however deliveries of the message overlap
\* (delivery_count is the storage's count of leases, the worker's limit is on runs).
ParkedMeansRetried ==
  \A m \in DeadLettered :
    Cardinality({n \in 1 .. MaxDeliveryCount : task[m][n] # "failed"})
      <= expiries + refusals + crashes

\* What a job is, seen as in JobPromise.
JobStatus(m) ==
  CASE work[m].state = "unused" -> "none"
    [] work[m].state = "gone"   -> "settled"
    [] OTHER                    -> "owed"

JobOutcome(m) ==
  (IF \E n \in Deliveries : task[m][n] = "ok" THEN {"done"} ELSE {}) \cup
  (IF m \in DeadLettered THEN {"parked"} ELSE {})

Promised == INSTANCE JobPromise WITH
  Jobs <- Messages,
  job <- [m \in Messages |-> JobStatus(m)],
  outcome <- [m \in Messages |-> JobOutcome(m)]

\* The queue and its worker implement JobPromise: a job leaves the work queue
\* only after a run without errors or with a copy in the dead-letter queue.
JobsKept == Promised!Spec

\* A message as JobMonitor knows it, without its delivery count.
MessageSeen(m) ==
  IF work[m].state = "unused" THEN "absent" ELSE work[m].state

Monitored == INSTANCE JobMonitor WITH
  Jobs <- Messages, Lookups <- {}, PeekLimit <- 1, PeeksFail <- FALSE, Remote <- FALSE,
  work <- [m \in Messages |-> MessageSeen(m)],
  taken <- {m \in Messages : work[m].count > 0},
  done <- {m \in Messages : "done" \in JobOutcome(m)},
  parked <- DeadLettered,
  dlq <- {d[1] : d \in dlq},
  lookup <- [l \in {} |-> l], watch <- "on", seen <- {}, printed <- [m \in Messages |-> 0]

\* Dispatcher, trigger, worker and storage move messages only as the jobs of JobMonitor
\* move while a lookup searches for them: a message is hidden only while it is leased, and
\* its copy in the dead-letter queue, or a run without errors, comes before its deletion,
\* so a lookup that goes from queue to queue in that direction does not miss it.
MovesAsMonitored == Monitored!Spec

\* No job stays in the work queue for ever (the storage works, leases expire
\* early and the process crashes only finitely often).
JobsSettle == Promised!EveryJobSettles

\* End to end: a subscription Event Grid has announced is in time provisioned or
\* dead-lettered, unless Event Grid gives up posting it (same conditions).
SubscriptionsSettle ==
  \A b \in Batches : \A s \in Created(b) :
    <>(\/ s \in provisioned
       \/ \E m \in DeadLettered : work[m].sub = s
       \/ grid[b].state = "dropped")
===============================================================================
