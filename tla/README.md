# ITL Subscription Vending: TLA+ models and proofs

The service provisions new Azure subscriptions. Event Grid (or an operator) tells it of
a subscription, a workflow engine runs gates and steps for it, and with one of three
strategies failed runs are tried again. This directory holds TLA+ models of that, the TLC
configurations that check them on small instances, and TLAPS proofs that every safety property
they check holds for every instance. Paths without a prefix are relative to `src/subscription_vending/`.

## 1. Inventory

| Component | State it keeps | Operations | What is hard |
|---|---|---|---|
| Workflow engine (`workflow/engine.py`, `core/context.py`, `core/events.py`) | per run: configuration, `ProvisioningResult`, position; nothing persistent | `run`: tag read, gates, steps, lifecycle events | many runs at once in one event loop; a failing handler, gate or step; early returns |
| Registry (`core/registry.py`) | the module-level lists `_GATE_STEPS`, `_EXTRA_STEPS` | `register_gate`, `register_step`, `toposort` | repeated, missing and cyclic registrations; the lists are shared by all runs |
| Preflight (`handlers/preflight`) | an entry of its own in `_GATE_STEPS` during the run | dry run with a supplied ticket | mutates a list that other runs iterate over |
| Replay, mock (`handlers/replay`, `handlers/mock`) | none | a run, or a dry run | repeats what was done before, possibly at the same time |
| Built-in steps (`workflow/steps.py`, `infrastructure/azure/*`) | none; Azure has the state: group, initiative, roles, policies, budget | six steps, each with one or more Azure or HTTP calls | each call may fail, or succeed unanswered; each step catches its own failures |
| Tags and settings (`infrastructure/azure/tags.py`, `core/config.py`) | `SubscriptionConfig` of a run | tag read with defaults | a failed read looks like a subscription without tags; tags change |
| Extensions (`extensions/*`, `core/base.py`) | none | ServiceNow gate and feedback, API and webhook notifications | outcomes announced before the last step |
| Event Grid webhook (`handlers/event_grid`) | position in the batch | one dispatch per event, response | at-least-once delivery, timeouts, a batch that fails in the middle |
| Dispatcher, queues (`infrastructure/queue/*`, `core/job.py`) | `_queues_ensured`, work queue, dead-letter queue | strategies `none`, `queue`, `dead_letter` | swallowed exceptions, a flag that outlives its reason, crashes |
| Worker (`handlers/worker`) | none | run a job, or park it | repeated and overlapping deliveries, the delivery limit, failures of the storage |
| Jobs API (`handlers/jobs`), queue commands (`cli/monitor.py`) | none; a watch: the set of what it has seen | enqueue, purge, peek, stats, find, watch | act on the queues behind the worker's back; look at two queues one after the other while jobs move |
| Provisioning commands (`cli/main.py`) | a process of their own | local run, or a request to the service | a local run loads no extensions |
| Application (`main.py`) | the process | start, routing | crash and restart |
| Web UI (`cli/ui.py`) | none; the browser's cookie has the session: user, token, flow of a sign-in at Entra | pages and their polling, three ways to sign in, callback, sign-out | answers out of order write older sessions back; tabs share the session; restarts |
| API authentication (`api/auth.py`), protocols, exceptions | - | - | not modelled, see section 8 |

How they interact: the webhook calls the dispatcher, which awaits the engine or sends a
message to the work queue; a queue trigger (outside the repository) posts the messages to
the worker, which awaits the engine; preflight, replay and mock await the engine directly.
All of them share one process, one event loop and the two registration lists. The steps
share nothing but the result object of their run and the subscription in Azure. The web UI is
a process of its own that calls the API with the token of its session.

## 2. Modules

| Module | What it models | Checked with |
|---|---|---|
| `WorkflowEngine` | concurrent executions of `WorkflowEngine.run` on the shared gate list, with preflight's injection | `MCWorkflowEngine` |
| `WorkflowEngine_proofs` | theorems about its gate list, gates and tickets | TLAPS |
| `EngineOutcomes_proofs` | theorems about what its runs report and emit | TLAPS |
| `Toposort` | `toposort`, call by call, against a reference definition of a topological order | `MCToposort` |
| `Toposort_proofs` | theorems about it | TLAPS |
| `JobDelivery` | webhook, dispatcher, storage queues, trigger and worker | `MCJobDelivery` |
| `JobPromise` | abstract: what the queue strategy promises about a job | `JobDelivery` refines it |
| `JobDelivery_proofs` | theorems about the delivery, and the two refinements | TLAPS |
| `UiSession` | the session of the web UI: one browser, its tabs and its cookie, Entra, and the handlers | `MCUiSession` |
| `UiSession_proofs` | theorems about it | TLAPS |
| `JobMonitor` | the lookup of a job, the watch and the purge, beside the moving queues | `MCJobMonitor` |
| `JobMonitor_proofs` | theorems about it | TLAPS |
| `Provisioning` | the built-in and the shipped extension steps of several executions on one subscription, their calls and its tags, behind the gate list that preflights change | `MCProvisioning` |
| `Provisioning_proofs` | theorems about results, reports, gate, replay and dry runs | TLAPS |
| `ProvisioningEngine_proofs` | that `Provisioning` implements `WorkflowEngine` | TLAPS |

The modules compose by refinement. `Provisioning` has the insides of the steps that are
one await in `WorkflowEngine`, and `StepsRunByEngine` says that every behaviour of it is
one of `WorkflowEngine`, with the same gate list; `StepsRunByEngineHolds` proves it. `JobDelivery` sees a whole run as one await with the outcomes
`ok`, `errors` and `raises`, which is what `SuccessMeansComplete`, `EveryRunEnds` and the
two ways to leave `run` in `WorkflowEngine` justify. `StepOrder` of both is an output of
`Toposort`. `JobMonitor` has the queues of `JobDelivery` with no more of a job than whether a
peek can show it; its own commands are what it is about. `MovesAsMonitored` checks that the
real dispatcher, trigger, worker and storage move the jobs in no other way than `JobMonitor`
lets them, and `MovesAsMonitoredHolds` proves it, so what is proved of lookups is proved of
lookups in the real queues. `UiSession` stands alone: to the API it is one more client.

### Correspondence with the code

*`WorkflowEngine`.* asyncio switches tasks only at an `await` that suspends, so an action
is the code between two such points of one coroutine. `run[r].pc` names the await an
execution is in: `tags` (tag read), `handler` (of event `cur`), `gate`, `step`.
The operators `Fire`, `EmitTerminalEvents`, `RunSteps`, `GateLoop`, `EmitStarted` are the
code between the awaits as functions of the local state; they are named after the code.
`gateSteps` is `_GATE_STEPS`; an entry in `Runs` is the closure that this preflight has
inserted. A Python list iterator keeps an index, so `idx` is the position from which the
loop goes on in the list *as it is then*. An injected closure does not suspend, so `GateLoop`
applies it at once. `overlapped` is a history variable: the executions that iterated while
somebody else's entry was in the list, or whose list moved under them.
Error texts are abstracted to what `gate_passed` looks for (`mentions` a gate or
ticket, or is `silent`). `Record` and the `...Aborts` operators are `_run_step`.

*`Toposort`.* A stack frame of `_visit` is a record with the next dependency to look at;
`visiting`, `visited` and `order` are the variables of the code. `Named` are the functions
with a `__qualname__`: for the others the error path itself raises.

*`JobDelivery`.* `handler[b][a]` is the webhook request for post `a` of delivery `b`:
position in the batch, and whether it awaits a run. `task[m][n]` is the worker request for
delivery `n` of message `m`. The two storage queues are `work` and `dlq`; `queues` says which
of them exist. The storage calls of dispatcher and worker do not suspend, but the
process may die between two events, so each event is a step. External and modelled from how
the code relies on them: Event Grid posts again without a timely 200 and gives up after
`GridAttempts`; a leased message comes back unless it is deleted under its last lease; the
trigger deletes after a 200 (`handlers/worker/router.py` states that contract).
`Lease` is the trigger: it takes a message, counts the delivery and posts it (`posted`). What
becomes of the post is a step of its own: the worker runs or parks the job (`ProcessJob`), or
there is no run although the delivery counts (`Refuse`: 401, 400, or nobody to post to).

*`JobMonitor`.* `Peek` is one round of the loop in `find_job` (`handlers/jobs/controller.py:94`,
and the same loop in `vending jobs get`); `lookup[l].excuses` is a history variable that
records why a queue did not show the job. `Poll` and `PollFails` are one round of
`vending jobs watch`, `seen` is its set of that name. A peek shows at most `PeekLimit`
visible messages, in no promised order (external). Every command is a process of its own,
so anything may happen between two of its storage calls. `Park` is the worker's copy of a job
to the dead-letter queue; the message stays where it is until the trigger deletes it, and
may be visible again by then. The watch goes on after the errors that `_api_get` makes of
refused connections, timeouts and error codes (`PollFails`); an answer that is no JSON ends
the remote watch (`AnswerUnreadable`).

*`Provisioning`.* An action is one awaited call together with what the step makes of the
answer. An answer is `done`, `failed` (no effect) or `unanswered` (an effect, and an
exception). Effect and answer can be one action because only local state is touched between
them; a step that is planned only is one as well, with the dry-run branch of that step.
`azure` is the subscription, `sent` what has been reported to topic, API, webhook and
ticket. Policy definitions are a parameter: the shipped list is empty. An execution of kind
`local` is `vending provision` without `--remote`: it has the built-in steps only and no gate.
Azure may reject a role assignment the principal already has (external).
`gateSteps` is the list `_GATE_STEPS` with the ServiceNow gate and the closures of the preflights
that come with a ticket: `StartPreflight` inserts one, whoever iterates over it gets its ticket
(`GateLoop`), and it is removed when the preflight returns (`Commit`). `overlapped` is the history
variable of `WorkflowEngine`: executions whose gate loop met the closure of another one.
Each step of `steps.py` and of the extensions has its own dry-run branch in its own action, at
the place where the code has it; `PlanStep` is the line of the plan they share.
`StepsRunByEngine` maps every execution of the service, preflights included, to `WorkflowEngine`
with one gate and no lifecycle handlers, over the same list; local runs, which are processes of
their own and have no gate, are mapped to executions that never begin.

*`UiSession`.* A handler of `cli/ui.py` has the session of its request and nothing else, so
the handlers are operators from a session to an answer (`AuthLogin`, `AuthCallback`, ...), named
after the code, and run in the step in which the answer reaches the browser (`AnswerPage`,
`AnswerPoll`). The request holds the cookie of the moment it was sent. Starlette's
`SessionMiddleware` (external) sends the session back with every answer, changed or not, unless
it is and was empty, or the handler raised. Redirects are followed with a request of their own.
Tokens are people: whose token it is. A flow is the state and PKCE verifier MSAL makes for one
sign-in (external: fresh for each, MSAL raises for another one's state); numbers that are
nowhere in use any more are used again, so nothing bounds how long the browser is used.
History variables: `expected` is what the last sign-in or sign-out should have left, or
"overtaken" once a request that was sent before it has been answered; `mixed` and `excused`
record the two situations that `OneIdentity` and `SignInSurvives` except.
`Restart` takes the sessions with it (the key is made by `configure`).

## 3. Runs

Runs that pass:

| Run | Question | Instance and why it is enough |
|---|---|---|
| `engine_gates` | Is the gate list sound, can a gate be bypassed, whose ticket is checked? | 3 executions (two preflights and a third run that meets both), 2 gates, 2 tickets, 1 step; symmetric in the executions |
| `engine_lifecycle` | What do success, skipped steps, events and `gate_passed` mean, and does every execution end? | 2 executions, 2 gates of which only the second blocks, 3 steps of which the middle one stops on errors, a handler of STARTED and of COMPLETED and two of SUCCEEDED, each of which may fail; fairness |
| `toposort_all` | Is the order topological, and is exactly the unsortable rejected? | every list of up to 3 registrations of 3 functions with up to 2 dependencies: repeated, missing, self and cyclic ones |
| `delivery_accepted` | What is Event Grid's 200 worth under each strategy? | one delivery of two subscriptions with an event to skip between them, 2 posts, 4 messages, a crash, a limit of 1 run; the storage works |
| `delivery_jobs` | What has a job in the dead-letter queue had of its retries, is `JobPromise` implemented, and do the jobs move as `JobMonitor` assumes? | one subscription, announced by an event and enqueued by hand: 2 messages, limit 2, 3 deliveries, a failing storage, an expiring lease, a refused delivery, a crash |
| `delivery_settles` | Does everything settle? | 2 messages, limit 1, a lease expiry, a refused delivery, a crash, fairness |
| `monitor` | What may a job be that a lookup does not find, and does the watch print each waiting job, once? | 2 jobs and a `PeekLimit` of 1, so that a job may be crowded out, 1 lookup, peeks that fail, a remote watch; fairness of polling |
| `prov_reports` | Is only the truth announced, does success mean what the result says, does any step forget that it is in a dry run? | 1 execution of every kind, local ones included, every call faulty, 2 roles and policies, all endpoints, malformed and negative budgets, a tag change |
| `prov_repeat` | Does one more run repair the subscription, what does the gate keep out, and are these executions of `WorkflowEngine`? | 2 executions, provisioning, dry or preflight, over one gate list, 2 budgets and environments, faulty tag read, move and budget, a tag change. Two are enough for a preflight whose closure a run meets at the start of its loop, or for an entry that pushes the gate it awaits behind its iterator |
| `ui_session` | Who is signed in, whose token goes to the API, and what may cost a sign-in its flow? | 2 tabs, a member of the required group and somebody else, 2 flows; symmetric in the tabs. Two tabs are enough for a stale answer, for a flow that is replaced and for two sign-ins side by side |

Every bound is a constant whose declaration calls it one (`MaxMessages`, `MaxManual`,
`MaxDeliveries`, `MaxExpiries`, `MaxRefusals`, `MaxCrashes`, `Faulty`, `MaxTagChanges`, `MaxFlows`). `MaxDeliveries` is
larger than the delivery limit of the instance, so that parking and its repetition happen;
one crash and one expiry put two deliveries of a message side by side, and with the one refusal
they can take all its runs from a job whose limit is 2. In `delivery_jobs` one of the two messages may come
from `POST /jobs/enqueue`. In `UiSession` one fragment request of the browser is under way
at a time; nothing else there is bounded but the flows that exist side by side.

Only `ui_session` checks for deadlock. In the other instances there are finitely many requests,
deliveries and posts, and when all are over nothing is left to do.

Runs that find a documented statement violated (`findings` of `PROJECT.json` quotes both sides):

| Run | The code | The document |
|---|---|---|
| `doc_every_gate` | a gate is skipped when an entry leaves the list | gates run before any step |
| `doc_enqueue` | a failing enqueue is answered with 200 | enqueues and returns 200 |

`delivery_accepted` is the other side of `doc_enqueue`: with a storage that works nothing is
forgotten. Likewise `GateIsolation` and `ApprovedWhenIsolated` are the other side of
`doc_every_gate`: they hold for executions that overlap no preflight
of somebody else; `FirstGateNeverBypassed` holds for all, and says that one gate, as the
repository ships it, is never skipped.

Further disagreements between code and documents that the models show and no run is kept
for, most of them visible in the code itself:

| Code | Document |
|---|---|
| `core/events.py:77`: a failing SUCCEEDED handler makes the result a failure | provisioning-workflow.md:389: SUCCEEDED only without errors |
| `workflow/engine.py:128`: an exception of `toposort` other than `ValueError` leaves `run` between STARTED and COMPLETED | provisioning-workflow.md:388: COMPLETED always |
| `handlers/preflight/controller.py:52`: `gate_passed` looks for words in error texts, so it misses gates that use others (`GatePassedClearsTicket` is what holds) | api.md:165: true if all gates passed |
| `handlers/preflight/controller.py:33`: a run that iterates over the list meanwhile takes the supplied ticket too. A provisioning run whose tag read failed then passes the ServiceNow gate and moves the subscription by the defaults (the second conjunct of `NoDefaultsBehindGate` excepts such runs, the first does not) | api.md:146: for this preflight run only |
| `core/registry.py:143`: rejecting a step without `__qualname__` raises `AttributeError` | docstring: `ValueError` |
| `core/registry.py:159`: a custom step that depends on `STEP_RBAC` is registered after the built-in steps and so runs last. No property is stated about the order of steps that no dependency orders | `workflow/steps.py:8`, `workflow/engine.py:74`, provisioning-workflow.md:24: "after RBAC, before policy" |
| `infrastructure/queue/azure_queue.py:30`: the image lacks the queue SDK, so every job is dropped with a 200 | configuration.md:190 |
| `handlers/event_grid/controller.py:107`: `dead_letter` answers 500 | architecture.md:188: always 200 |
| `infrastructure/queue/dispatcher.py:97`: a queue whose creation fails is not created by later dispatches | configuration.md:196: on first dispatch |
| `handlers/worker/controller.py:48`: a delivery that was refused (401, 400), lost or overtaken by another one counts, so a job may be parked with fewer failed runs than the limit, or none (`ParkedMeansRetried` bounds it) | `handlers/worker/router.py:27`: after max_delivery_count failures |
| `handlers/worker/controller.py:33`: a message that cannot be decoded is answered with 400 before its count is looked at, so it is never parked and comes back until it expires | `handlers/worker/router.py:27`: poison messages go to the dead-letter queue |
| `handlers/worker/controller.py:67`: a job delivered twice is run twice | api.md:264: `job_id` is an idempotency key |
| `infrastructure/azure/rbac.py:166`: failed role assignments leave the run a success | architecture.md:186: failures are recorded |
| `infrastructure/azure/policy.py:72`: a replay assigns a policy a second time | api.md:174: steps are safe to repeat |
| `extensions/servicenow_feedback.py:218`: the webhook step runs after the ticket was told | same file, line 3: last step |
| `infrastructure/azure/tags.py:71`: the group of the event is used only when the mapping names an empty group | `core/context.py:57`: used without a tag |
| `cli/main.py:235`: a local run loads no extensions, so no ServiceNow gate stands before it (`NoDefaultsBehindGate` is about the service) | provisioning-workflow.md:50: gate checks run before Step 0 |
| `cli/main.py:378`: local `vending enqueue` imports `get_queue_client`, which does not exist, and always ends with status 2 | its help text: connects to the storage queue directly |
| `cli/ui.py:1142`: sign-out leaves `auth_flow` and `auth_next` in the session and ends on the dashboard; an answer to an older request can undo it (`SessionFollowsSignIns`) | web-ui.md:188: clears the session, redirects to the login page |
| `cli/ui.py:1136`: without an API scope a sign-in at Entra keeps the token somebody else has left (`OneIdentity`) | web-ui.md:90: session and API token stored |
| `cli/ui.py:750`: any non-empty variable counts as a token and hides the session of the Azure CLI | web-ui.md:71: any source that returns a valid JWT |
| `cli/ui.py:323`, `cli/ui.py:360`: the fragments read `queues` and `jobs`, which the API does not return, so the tables stay empty | web-ui.md:17: queue statistics and recent jobs |
| `workflow/engine.py:93-95`: a dry run reads no tags, so it plans for the sandbox group and does not see the subscription's ticket | api.md:126, provisioning-workflow.md:345 |

## 4. Fairness

`WorkflowEngine`: weak fairness of each execution's continuation. Every awaited call ends
(the HTTP clients and SDK calls have timeouts, and a ready coroutine is resumed by
asyncio); that a request arrives is not assumed.
`JobDelivery`: weak fairness of posting, handling, delivery, run end, deletion and
reappearance, because Event Grid, the trigger and the storage keep going and runs end
(`EveryRunEnds`). Event Grid is assumed to give up waiting only on a handler that is lost.
Nothing is assumed of crashes, expiring leases, refusals, the operator, or how runs end. They are
finitely many: a worker that refuses every delivery, say for a wrong secret, settles nothing.
The liveness run of `JobDelivery` has a storage that works: when the dead-letter queue cannot be
written a message comes back for ever.
`UiSession`: none; nothing obliges people to go on, and Entra or the server may not answer.
`JobMonitor`: weak fairness of `Poll`: the loop of the watch has no exit but Ctrl+C, and the
storage is assumed to answer again and again. Nothing is assumed of lookups and jobs.

## 5. Proofs

All theorems have the form `Spec => [](invariant)` or `Spec => (abstract specification)` and rest on
the named assumptions about constants only (`GatesAreNotRuns`, `GateConstants`, `StepConstants`,
`OtherConstants`; `ToposortConstants`; `DeliveryConstants`; `MonitorConstants`;
`ProvisioningConstants`; `UiConstants`). None of the
properties is inductive alone; each proof module strengthens them to an invariant that is,
shows that `Init` implies it and that each action keeps it, and concludes with a temporal step.

### The gates (`WorkflowEngine_proofs`)

For any sets of executions, gates and steps, any registration lists and any handlers:
`TypeOK`, `GateListSound`, `FirstGateNeverBypassed`, `BlockedMeansNoStep`, `GateIsolation` and
`ApprovedWhenIsolated`. `EngineInv` adds what a loop has already seen when it awaits a gate:

- `LoopInv`: before the gate loop nothing has happened; in it, the first registered gate is
  done or awaited and no blocking gate has failed; a step is awaited at its position.
- `IsolationInv`: for an execution that overlaps nobody, each gate behind its iterator is
  done or awaited, and no foreign entry is in the list.
- `TicketInv`: a ServiceNow gate that found nothing wrong with such an execution has checked
  its own ticket.
- `GateListSound`: the list is the injected entries of the running preflights, each
  once, followed by the registered gates. It makes insertion and removal move the
  registered gates as a block, so an iterator behind the head of the list can see a
  gate twice, or skip one, but never the first.

The proof goes bottom-up: what `RemoveFirst` returns (`UninjectPresent`, `UninjectAbsent`);
that inserting and removing keep the list sound; one lemma per coroutine segment that says
in which local states it ends (`GateLoopSegment` is the central one); a frame lemma for
the executions that do not move (`CommitKeepsInv`); one lemma per action. `EngineInv` is
checked by `engine_gates` as well.

### The outcomes (`EngineOutcomes_proofs`)

`SuccessMeansComplete`, `OnlyStopOnErrorSkipsSteps`, `LifecycleProtocol` and
`GatePassedClearsTicket`. `OutcomeInv` is inductive together with `EngineInv`. It says what must have been
recorded and emitted at each await: which events have been told (`Told`), in
which order, that the steps done are those up to the awaited one, and that a
result without errors has neither a failed step nor a blocked gate behind it. The argument is again a lemma per
segment (a segment that starts in a state that fits its position ends in one that fits the
next), then one per action.

### The order of the steps (`Toposort_proofs`)

All three properties, for any functions and any lists of registrations: `TypeOK`,
`OrderIsTopological` and `RejectsExactlyTheUnsortable`. The parts of `SortInv`:

- `StackInv`: the active calls of `_visit` are of different functions, each called by the one below
  it as the last dependency that one has looked at; the dependencies before it have returned.
- `OrderInv`: `order` has the functions whose calls have returned, once each, dependencies first.
- `ProgressInv`: no entry is passed over.
- `CycleInv`: in any topological order of the registered functions an active call is behind those
  it was called for. So there is none when the search meets an active function, or a function
  that is not registered: the algorithm rejects what the reference definition (some sequence of all
  functions respects the dependencies) calls unsortable, and nothing else.

That the algorithm ends is not part of these statements: they say what is true whenever it does.

### Provisioning (`Provisioning_proofs`)

`TypeOK`, `ResultsAreTrue`, `AnnouncedMeansConfigured`, `NoDefaultsBehindGate`, `LastRunSettles` and
`DryRunsTouchNothing`, for any number of executions of any kinds, any tags, mapping, roles and
policies, any subset of the calls failing, with or without the extensions, and any number of changes
of the tags. `ProvisioningConstants` asks of the settings no more than their types, and that the root
group has a name. The parts of `ProvInv`:

- `PlaceInv`: an execution is only in steps it has.
- `WorkInv`: an execution without errors has put in place what the steps behind its
  position put there (`WorkDone`, which names the positions as `BehindMg`, `BehindPolicy`, ...), for
  the policies item by item. Initiative, policies, roles and the presence of a budget are never taken
  back by anybody (`Grown`), so other executions keep it.
- `SentInv`: who has reported anything is behind the budget step, is no dry run, and what it reported is
  true. Group and configuration of an execution do not change there any more.
- `SoloInv`: group and amount of the budget do change under other executions, so for them
  only the latest execution can be relied on, while no other one is active.

Each step of the code has a lemma that says what it does to the local state and to Azure, and that
each part of `ProvInv` survives it. `StepLeaves` is what each of them, taken by itself, does in a dry
run; `DryRunsTouchNothing` follows step by step from it, so a branch that is missing in one step is a
lemma that fails.

`GateInv` is about the shared gate list, and inductive together with `ProvInv`: apart from the gate
there are closures of preflights in the list, and the gate is its last entry (`ListOk`). So a loop that goes
on anywhere in the list ends at the gate, whoever has inserted or removed entries before it, and no
execution of the service gets behind it without an approved ticket; and one that met no closure of
another execution still has the ticket of its own tags (`TicketOk`), which a failed tag read does not have.

### The engine under the steps (`ProvisioningEngine_proofs`)

`StepsRunByEngine`: the executions of the service in `Provisioning`, preflights included, are executions
of `WorkflowEngine`, gate list, tickets, order, errors and announced outcome included. `Moved` says
what any step of `Provisioning` does to what the engine knows of an execution: it leaves `idle`, begins,
leaves the gate, goes on within a step (a stutter of the engine) or leaves a step. The engine's operators
are evaluated on the mapped state (`LoopIs`, `TerminalEventsAre`, ...): `LoopIs` walks through the list
entry by entry, as the engine does, and comes to the gate that `GateLoop` of `Provisioning` jumps to, with
the same ticket. For each kind of move the result is shown to be the mapped new state, and the list the
same. `KnownInv` has what this needs beyond `ProvInv` and `GateInv`: no ticket and no error before the
tags are read, no error in the gate loop, and none of the gate behind it.
`EngineConstants` states that the assumptions of `WorkflowEngine` hold under the mapping, so what is
proved of the engine is true of these executions. A step that fails is mapped to an error text that
mentions neither gate nor ticket; of the built-in and shipped steps nothing looks at the text.

### Delivery (`JobDelivery_proofs`)

`TypeOK`, `AcceptedMeansProvisioned`, `AcceptedMeansTried`, `ParkedMeansRetried`;
`AcceptedMeansOwed` for a storage that answers and whose SDK is installed (`Working`; without
that it is wrong, see `doc_enqueue`); and the refinements `JobsKept` and `MovesAsMonitored`. The parts of
`DeliveryInv`:

- `HandlerInv`: a request has dispatched every subscription before its position in the batch,
  where `Dispatched` is what the strategy makes of that: provisioned, tried, or owed.
- `AcceptedInv`: all of an accepted delivery's subscriptions have been dispatched.
- `SentInv`: messages are numbered as they are sent, none without a storage account; with
  a working storage `_queues_ensured` means that the queues exist.
- `MessageInv`: the deliveries of a message up to its count are those that happened; only those up
  to the limit may run, only the others park it; a run without errors has provisioned the
  subscription; a message is gone only if it has been provisioned or parked. So a parked
  message has been delivered more often than the limit.

That does not say what became of these deliveries. `BudgetInv`, inductive on top of `DeliveryInv`, charges
each delivery within the limit that did not or will not end as a failed run (`Spent`: refused, lost, or
overtaken by a later one while it runs) to an expired lease, a refusal or a crash of its own. Deliveries
of one message may overlap and runs may end long after the message is gone, so the argument is by
cardinality: no step adds more than one delivery to `Spent` of any message, and one that adds any is a loss.

What `Dispatched` looks at is never taken back (`Grows`), so all steps but those of one handler
keep `HandlerInv` and `AcceptedInv` by the same lemma. For the refinements each step of
the delivery is shown to stutter or to be one action on one job (`PromisesJob`, `ReachesEnd`,
`SettlesJob`; `EnqueuesJob`, `LeasesJob`, ..., `PurgesCopies`). `Delivers` says for both what a
delivery to the worker changes.

### Lookups and the watch (`JobMonitor_proofs`)

`TypeOK`, `NotFoundIsExplained`, `WatchPrintsOnce`, for any jobs, lookups and limit of a
peek. The core of `MonitorInv` is that what the first peek of a lookup established is
stable: a message that is gone stays gone, and a deleted one was done or parked before. A
lookup whose first peek did not see the job and found no excuse is therefore about a settled job, and
the second peek finds its copy unless it has been purged or was not needed. For the watch: what
has been printed is exactly what it has seen.

### Sessions (`UiSession_proofs`)

`TypeOK`, `SessionFollowsSignIns`, `OneIdentity` and `SignInSurvives` for any tabs,
people and flows. `UiInv` says of every request under way what the properties say of the
cookie: the session that it carries has the user's own token unless tokens have been `mixed` (`Own`), and it is the expected one
unless the request has been overtaken (`Current`); `FlowInv` adds the tabs at Entra, whose
flow is in the session or excused. Each handler is shown to be `Faithful`: what it answers to a
session of that kind is one.

### Only model-checked

The liveness properties `EveryRunEnds`, `JobsSettle`, `SubscriptionsSettle` and `WatchSeesWaiting`: they
need fairness and `ENABLED`, which the prover does not handle. Every invariant, action property and
refinement of a passing run is the statement of a theorem.

## 6. Abstractions

- Texts, logging and the shape of responses are left out, except where `gate_passed` reads them.
- Settings are constants and do not change.
- A run of the workflow in `JobDelivery` does not tell which steps failed.
- An Azure call that failed for the caller does not take effect later.
- Authentication, SAS key and the validation handshake of the webhook and of the API change no state and
  are left out. The refusals of the worker (401 for a wrong secret, 400 for a message it cannot decode)
  are the action `Refuse`: they start no run, and the storage has counted the delivery. Each instance has finitely
  many of them, so that a message refused for ever, which is never parked, is not an infinite behaviour of
  the models.
- A message that cannot be decoded is listed by a peek under an identity of its own; it is no
  job and left out of `JobMonitor`.
- `UiSession` is the UI with sign-in switched on (without, there is no session); the guarded pages
  are one page, since they treat the session alike; a cookie larger than a browser accepts, and
  cookies of `localhost` and `127.0.0.1` side by side, are left out. MSAL is assumed to accept
  the scopes `openid` and `profile` that `cli/ui.py:982` asks for (releases that reserve them raise).
- With `VENDING_API_ENTRA_TENANT_ID` set every request to the API needs a token, those of
  Event Grid and of the trigger too; the models of the delivery begin behind that check.
- Owner e-mail, AKS flag and enforcement mode of a configuration play no role in the
  properties.

## 7. Plan

Done: the engine, toposort, the steps with local runs and preflights, the delivery with its abstract
specifications, lookup and watch, and the sessions of the web UI, all with proofs of their safety
properties and of the refinements between them.
Next, in this order:

1. A property for the policy assignments that a replay repeats, from an abstract
   specification that allows one assignment per policy and unanswered call.
2. That the calls of `toposort` become fewer: a measure that decreases with every step, which is the
   part of termination that can be proved without fairness.

## 8. Not modelled

- `api/auth.py`: validates tokens with a library; nothing but a cache of keys.
- What the pages and fragments of `cli/ui.py` show and what their buttons ask of the API, and the
  rendering of `cli/*`: views, and requests that are modelled where they arrive; queue statistics; local
  dry runs (a dry run touches nothing with or without extensions).
- `core/protocols.py`, `core/exceptions.py`, `domain/`: declarations nothing depends on at run time.
- `handlers/mock`: its engine run is covered by the requests of `WorkflowEngine`; its use of
  `results.values()` on a result object always fails after the run.
- `infra/`, `k8s/`, workflows: deployment. One replica is assumed, as deployed.
