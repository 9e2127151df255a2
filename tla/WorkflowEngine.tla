---------------------------- MODULE WorkflowEngine ----------------------------
(***************************************************************************)
(* Concurrent executions of WorkflowEngine.run in the service's event      *)
(* loop.  Every HTTP handler that provisions (webhook, worker, replay,     *)
(* mock) or previews (preflight) awaits one execution; they all iterate    *)
(* over the same module-level list _GATE_STEPS, and a preflight that comes *)
(* with a ServiceNow ticket inserts an entry of its own at the head of     *)
(* that list for as long as its execution lasts.                           *)
(*                                                                         *)
(* One action is what the event loop runs between two suspensions of one   *)
(* coroutine: tag read, gate, workflow step and lifecycle handler are the  *)
(* awaits that may suspend.  The operators of the section "Coroutine       *)
(* segments" map the local state of an execution to its local state at the *)
(* next suspension, or at the end.                                         *)
(***************************************************************************)
EXTENDS Naturals, Sequences, SequencesExt

CONSTANTS
  Runs,              \* executions of WorkflowEngine.run
  Tickets,           \* ServiceNow ticket numbers
  NoTicket,          \* the empty snow_ticket
  Approved,          \* tickets that exist and are in the required state
  Gates,             \* functions registered with register_gate
  RegisteredGates,   \* _GATE_STEPS at the end of startup, in registration order
  Blocking,          \* gates registered with stop_on_error=True
  TicketGates,       \* instances of ServiceNowCheckGate
  Steps,             \* functions registered with register_step
  StepOrder,         \* what toposort(_EXTRA_STEPS) returns
  SortOutcome,       \* how toposort ends: "ordered", "rejected" or "raises"
  StopSteps,         \* steps registered with stop_on_error=True
  Handlers,          \* number of handlers registered for each lifecycle event
  CredentialRaises,  \* get_credential(settings) raises (incomplete settings)
  None               \* nothing awaited yet

Events == {"STARTED", "COMPLETED", "SUCCEEDED", "FAILED"}

Kinds == {"provision", "dry_run", "preflight"}

\* How an awaited gate, step or handler ends: without a new error, or with one
\* whose text mentions "gate" or "ticket", or with one whose text does not.
Outcomes == {"ok", "mentions", "silent"}

ErrorTexts == Outcomes \ {"ok"}

ASSUME GatesAreNotRuns == Runs \cap Gates = {}

ASSUME GateConstants ==
  /\ RegisteredGates \in Seq(Gates)
  /\ Blocking \subseteq Gates
  /\ TicketGates \subseteq Gates

ASSUME StepConstants ==
  /\ StepOrder \in Seq(Steps)
  /\ StopSteps \subseteq Steps
  /\ SortOutcome \in {"ordered", "rejected", "raises"}

ASSUME OtherConstants ==
  /\ Handlers \in [Events -> Nat]
  /\ CredentialRaises \in BOOLEAN
  /\ Approved \subseteq Tickets
  /\ NoTicket \notin Tickets

VARIABLES
  request,     \* what each execution was asked to do; never changes
  gateSteps,   \* the list _GATE_STEPS; an entry in Runs is that preflight's injected closure
  run,         \* local state of each execution
  overlapped   \* executions whose gate loop met the injected entry of another one

vars == <<request, gateSteps, run, overlapped>>

-------------------------------------------------------------------------------
(***************************************************************************)
(* Coroutine segments                                                      *)
(***************************************************************************)

\* Faulty variant: an absent ticket is None instead of the empty string.
FreshWithoutDefault ==
  [pc |-> "idle", cur |-> None, idx |-> 0, ticket |-> None,
   errs |-> {}, gatesDone |-> {}, gateErrs |-> {},
   stepsDone |-> <<>>, stepErrs |-> {}, events |-> <<>>]

Fresh == [pc |-> "idle", cur |-> None, idx |-> 0, ticket |-> NoTicket,
          errs |-> {}, gatesDone |-> {}, gateErrs |-> {},
          stepsDone |-> <<>>, stepErrs |-> {}, events |-> <<>>]

Over(x) == x.pc \in {"returned", "raised"}

Return(x) == [x EXCEPT !.pc = "returned"]

\* Suspended in the first handler of event e.
Fire(x, e) ==
  [x EXCEPT !.pc = "handler", !.cur = e, !.idx = 1, !.events = Append(@, e)]

\* Faulty variant: the outcome is announced by whether the steps ran.
EmitOutcomeBySteps(x) ==
  LET e == IF x.stepsDone # <<>> THEN "SUCCEEDED" ELSE "FAILED"
  IN  IF Handlers[e] = 0 THEN Return(Fire(x, e)) ELSE Fire(x, e)

\* result.success is read after the COMPLETED handlers have run.
EmitOutcome(x) ==
  LET e == IF x.errs = {} THEN "SUCCEEDED" ELSE "FAILED"
  IN  IF Handlers[e] = 0 THEN Return(Fire(x, e)) ELSE Fire(x, e)

EmitTerminalEvents(x) ==
  IF Handlers["COMPLETED"] = 0
  THEN EmitOutcome(Fire(x, "COMPLETED"))
  ELSE Fire(x, "COMPLETED")

AwaitStep(x, i) == [x EXCEPT !.pc = "step", !.cur = StepOrder[i], !.idx = i]

\* The part of run() behind the gate loop.  A ValueError of toposort is
\* recorded and no step runs; any other exception leaves run().
RunSteps(x) ==
  CASE SortOutcome = "raises" -> [x EXCEPT !.pc = "raised"]
    [] SortOutcome = "rejected" ->
         EmitTerminalEvents([x EXCEPT !.errs = @ \cup {"silent"}])
    [] OTHER -> IF StepOrder = <<>> THEN EmitTerminalEvents(x) ELSE AwaitStep(x, 1)

GatePositions(list, i) == {k \in i .. Len(list) : list[k] \in Gates}

\* Faulty variant: the loop starts behind the head of the list.
GateLoopOffByOne(x, list, i) ==
  LET gates == GatePositions(list, i + 1)
      stop  == IF gates = {} THEN Len(list) + 1 ELSE Min(gates)
  IN  IF gates = {} THEN RunSteps(x)
      ELSE [x EXCEPT !.pc = "gate", !.cur = list[stop], !.idx = stop + 1]

\* Faulty variant: the loop starts again after every gate.
GateLoopRestart(x, list, i) == GateLoopOffByOne(x, list, 0)

\* `for entry in _GATE_STEPS`, resumed at position i of the list as it is now.
\* An injected closure does not suspend: it overwrites the ticket of whichever
\* execution iterates over it.
GateLoop(x, list, i) ==
  LET gates == GatePositions(list, i)
      stop  == IF gates = {} THEN Len(list) + 1 ELSE Min(gates)
      y     == IF i < stop
               THEN [x EXCEPT !.ticket = request[list[stop - 1]].ticket]
               ELSE x
  IN  IF gates = {} THEN RunSteps(y)
      ELSE [y EXCEPT !.pc = "gate", !.cur = list[stop], !.idx = stop + 1]

EmitStarted(x, list) ==
  LET y == Fire(x, "STARTED")
  IN  IF Handlers["STARTED"] = 0 THEN GateLoop(y, list, 1) ELSE y

\* The last handler of an event has returned.
AfterEvent(x) ==
  CASE x.cur = "STARTED"   -> GateLoop(x, gateSteps, 1)
    [] x.cur = "COMPLETED" -> EmitOutcome(x)
    [] OTHER               -> Return(x)

\* Faulty variant: an error is logged and not recorded.
RecordNothing(x, e) == x

Record(x, e) == IF e = "ok" THEN x ELSE [x EXCEPT !.errs = @ \cup {e}]

-------------------------------------------------------------------------------
(***************************************************************************)
(* Actions                                                                 *)
(***************************************************************************)

InjectedByOther(r, list) == \E k \in DOMAIN list : list[k] \in Runs \ {r}

\* Faulty variant: the injected entry stays in the list.
NeverRemove(list, r) == list

\* Faulty variant: the head of the list is taken for the injected entry.
RemoveHead(list, r) == IF list = <<>> THEN list ELSE Tail(list)

\* _GATE_STEPS.remove(_inject_entry), in the `finally` of handle_preflight.
Uninject(list, r) == RemoveFirst(list, r)

\* Execution r suspends or ends in local state y, having seen the gate list
\* `list`; when it ends its injected entry, if it has one, is removed.
Commit(r, y, list) ==
  /\ run' = [run EXCEPT ![r] = y]
  /\ gateSteps' = IF Over(y) THEN Uninject(list, r) ELSE list
  /\ UNCHANGED request

Touch(r, list) ==
  overlapped' = IF InjectedByOther(r, list) THEN overlapped \cup {r} ELSE overlapped

\* A request for a real provisioning run: engine.run suspends in the tag read.
ReceiveProvision(r) ==
  /\ run[r].pc = "idle"
  /\ request[r].kind = "provision"
  /\ Commit(r, [run[r] EXCEPT !.pc = IF CredentialRaises THEN "raised" ELSE "tags"],
            gateSteps)
  /\ UNCHANGED overlapped

\* A dry run (replay or mock with dry_run, preflight without a ticket) reads
\* no tags and goes on with a default SubscriptionConfig.
ReceiveDryRun(r) ==
  /\ run[r].pc = "idle"
  /\ \/ request[r].kind = "dry_run"
     \/ request[r].kind = "preflight" /\ request[r].ticket = NoTicket
  /\ Commit(r, EmitStarted(run[r], gateSteps), gateSteps)
  /\ Touch(r, gateSteps)

\* A preflight with a ticket inserts its closure at the head of the shared
\* list; the loops suspended in a gate see every entry move by one.
ReceivePreflight(r) ==
  /\ run[r].pc = "idle"
  /\ request[r].kind = "preflight"
  /\ request[r].ticket # NoTicket
  /\ LET list == <<r>> \o gateSteps
     IN  /\ Commit(r, EmitStarted(run[r], list), list)
         /\ overlapped' = overlapped
              \cup {s \in Runs : run[s].pc = "gate"}
              \cup (IF InjectedByOther(r, list) THEN {r} ELSE {})

\* The tag read ends; when it fails the configuration has no ticket.
ReadTags(r) ==
  /\ run[r].pc = "tags"
  /\ \E t \in {request[r].ticket, NoTicket} :
       Commit(r, EmitStarted([run[r] EXCEPT !.ticket = t], gateSteps), gateSteps)
  /\ Touch(r, gateSteps)

\* A lifecycle handler ends; its exception is recorded and the next one runs.
HandlerEnds(r) ==
  /\ run[r].pc = "handler"
  /\ \E e \in Outcomes :
       LET x == Record(run[r], e)
           y == IF x.idx < Handlers[x.cur] THEN [x EXCEPT !.idx = @ + 1]
                                           ELSE AfterEvent(x)
       IN  Commit(r, y, gateSteps)
  /\ Touch(r, gateSteps)

\* Faulty variant: the ticket is only checked for presence.
GateOutcomesPresenceOnly(g, ticket) ==
  IF g \in TicketGates /\ ticket = NoTicket THEN {"mentions"} ELSE Outcomes

\* What the check of gate g may find.  Every error text of the ServiceNow gate
\* mentions the ticket; the lookup of an approved ticket may still fail.
GateOutcomes(g, ticket) ==
  IF g \notin TicketGates THEN Outcomes
  ELSE IF ticket \in Approved THEN {"ok", "mentions"} ELSE {"mentions"}

\* Faulty variant: a failing gate never aborts the workflow.
NeverAborts(g, e) == FALSE

GateAborts(g, e) == e # "ok" /\ g \in Blocking

GateEnds(r) ==
  /\ run[r].pc = "gate"
  /\ \E e \in GateOutcomes(run[r].cur, run[r].ticket) :
       LET g == run[r].cur
           x == [Record(run[r], e) EXCEPT
                   !.gatesDone = @ \cup {g},
                   !.gateErrs  = IF e = "ok" THEN @ ELSE @ \cup {g}]
           y == IF GateAborts(g, e) THEN EmitTerminalEvents(x)
                                    ELSE GateLoop(x, gateSteps, x.idx)
       IN  Commit(r, y, gateSteps)
  /\ Touch(r, gateSteps)

\* Faulty variant: any failing step aborts the workflow.
StepAbortsAlways(s, e) == e # "ok"

StepAborts(s, e) == e # "ok" /\ s \in StopSteps

StepEnds(r) ==
  /\ run[r].pc = "step"
  /\ \E e \in Outcomes :
       LET s == run[r].cur
           x == [Record(run[r], e) EXCEPT
                   !.stepsDone = Append(@, s),
                   !.stepErrs  = IF e = "ok" THEN @ ELSE @ \cup {s}]
           y == IF StepAborts(s, e) \/ x.idx = Len(StepOrder)
                THEN EmitTerminalEvents(x) ELSE AwaitStep(x, x.idx + 1)
       IN  Commit(r, y, gateSteps)
  /\ UNCHANGED overlapped

Receive(r) == ReceiveProvision(r) \/ ReceiveDryRun(r) \/ ReceivePreflight(r)

Resume(r) == ReadTags(r) \/ HandlerEnds(r) \/ GateEnds(r) \/ StepEnds(r)

-------------------------------------------------------------------------------

Requests ==
  [kind : Kinds, ticket : Tickets \cup {NoTicket}]

Init ==
  /\ request \in [Runs -> Requests]
  /\ gateSteps = RegisteredGates
  /\ run = [r \in Runs |-> Fresh]
  /\ overlapped = {}

Next == \E r \in Runs : Receive(r) \/ Resume(r)

\* Every awaited call ends: the HTTP clients and the Azure SDK have timeouts.
Fairness == \A r \in Runs : WF_vars(Resume(r))

Spec == Init /\ [][Next]_vars

FairSpec == Spec /\ Fairness

-------------------------------------------------------------------------------
(***************************************************************************)
(* Properties                                                              *)
(***************************************************************************)

RunState ==
  [pc : {"idle", "tags", "handler", "gate", "step", "returned", "raised"},
   cur : Gates \cup Steps \cup Events \cup {None}, idx : Nat,
   ticket : Tickets \cup {NoTicket}, errs : SUBSET ErrorTexts,
   gatesDone : SUBSET Gates, gateErrs : SUBSET Gates,
   stepsDone : Seq(Steps), stepErrs : SUBSET Steps, events : Seq(Events)]

TypeOK ==
  /\ request \in [Runs -> Requests]
  /\ gateSteps \in Seq(Runs \cup Gates)
  /\ run \in [Runs -> RunState]
  /\ overlapped \subseteq Runs

Active(r) == run[r].pc # "idle" /\ ~Over(run[r])

\* Execution r keeps an entry in the shared gate list.
Injects(r) ==
  /\ request[r].kind = "preflight"
  /\ request[r].ticket # NoTicket
  /\ Active(r)

PastGates(r) == run[r].pc = "step" \/ run[r].stepsDone # <<>>

InjectedCount == Len(gateSteps) - Len(RegisteredGates)

\* No sequence of concurrent preflights loses, duplicates or reorders a
\* registered gate: _GATE_STEPS is always one entry per preflight with a ticket
\* that is still running, followed by the gates registered at startup
\* (handle_preflight inserts and removes in a list other executions iterate).
GateListSound ==
  /\ Len(gateSteps) >= Len(RegisteredGates)
  /\ \A i \in 1 .. Len(RegisteredGates) :
       gateSteps[InjectedCount + i] = RegisteredGates[i]
  /\ \A i \in 1 .. InjectedCount : gateSteps[i] \in Runs /\ Injects(gateSteps[i])
  /\ \A i, j \in 1 .. InjectedCount : gateSteps[i] = gateSteps[j] => i = j
  /\ \A r \in Runs : Injects(r) => \E i \in 1 .. InjectedCount : gateSteps[i] = r

\* However the shared list moves under the loops that iterate over it, the
\* first registered gate has run in every execution that reaches a workflow
\* step; with the one gate this repository ships, no execution bypasses it.
FirstGateNeverBypassed ==
  \A r \in Runs :
    PastGates(r) /\ RegisteredGates # <<>> => RegisteredGates[1] \in run[r].gatesDone

\* Once a gate with stop_on_error has recorded an error in an execution, that
\* execution never reaches a workflow step, whatever the list looks like when
\* the loop resumes (the early return of run() in its gate loop).
BlockedMeansNoStep ==
  \A r \in Runs : PastGates(r) => run[r].gateErrs \cap Blocking = {}

\* An execution that met no preflight of somebody else in its gate loop is
\* gated as if it were alone: it reaches its steps only with every registered
\* gate done and with its own ticket (or none, when the tag read failed).
GateIsolation ==
  \A r \in Runs \ overlapped :
    PastGates(r) =>
      /\ ToSet(RegisteredGates) \subseteq run[r].gatesDone
      /\ run[r].ticket \in {request[r].ticket, NoTicket}

\* The same for what the gate is for: without such an overlap a subscription
\* is provisioned only under an approved ticket of its own when a blocking
\* ServiceNow gate is registered.
ApprovedWhenIsolated ==
  \A r \in Runs \ overlapped :
    /\ PastGates(r)
    /\ request[r].kind = "provision"
    /\ ToSet(RegisteredGates) \cap TicketGates \cap Blocking # {}
    => request[r].ticket \in Approved

\* A caller that is told `success` can rely on the whole workflow: every step
\* ran, in dependency order, and the outcome was announced as SUCCEEDED
\* (ProvisioningResult.success, the early returns and breaks of run()).
SuccessMeansComplete ==
  \A r \in Runs :
    run[r].pc = "returned" /\ run[r].errs = {} =>
      /\ run[r].stepsDone = StepOrder
      /\ run[r].events = <<"STARTED", "COMPLETED", "SUCCEEDED">>

\* Errors of steps without stop_on_error do not keep later steps from running:
\* a returned execution ran all of them unless a stop_on_error gate or step
\* failed or the order could not be resolved.
OnlyStopOnErrorSkipsSteps ==
  \A r \in Runs :
    /\ run[r].pc = "returned"
    /\ run[r].gateErrs \cap Blocking = {}
    /\ run[r].stepErrs \cap StopSteps = {}
    /\ SortOutcome = "ordered"
    => run[r].stepsDone = StepOrder

\* The lifecycle protocol subscribers see: STARTED first, COMPLETED and then
\* exactly one of SUCCEEDED and FAILED, FAILED only with an error recorded,
\* SUCCEEDED only when no error is recorded as it is emitted, and the
\* terminal pair only for executions whose steps are over.
LifecycleProtocol ==
  \A r \in Runs :
    LET x == run[r]
    IN  /\ x.events \in {<<>>, <<"STARTED">>, <<"STARTED", "COMPLETED">>,
                         <<"STARTED", "COMPLETED", "SUCCEEDED">>,
                         <<"STARTED", "COMPLETED", "FAILED">>}
        /\ Len(x.events) > 1 => x.pc \notin {"gate", "step"}
        /\ Len(x.events) = 3 /\ x.events[3] = "FAILED" => x.errs # {}
        /\ x.pc = "handler" /\ x.cur = "SUCCEEDED" /\ x.idx = 1 => x.errs = {}
        /\ x.pc = "returned" => Len(x.events) = 3

\* gate_passed of PreflightResponse, derived from the text of the errors.
GatePassed(x) == "mentions" \notin x.errs

\* A preflight that answers gate_passed has no failed ServiceNow gate behind it,
\* whatever else has failed and whoever's ticket it was checked with: the words
\* handle_preflight looks for tell at least the gate the repository ships.
GatePassedClearsTicket ==
  \A r \in Runs :
    /\ request[r].kind = "preflight"
    /\ run[r].pc = "returned"
    /\ GatePassed(run[r])
    => run[r].gateErrs \cap TicketGates = {}

\* Every request that was received gets an answer (the engine awaits nothing
\* but calls that end, and nobody can keep its gate loop going for ever).
EveryRunEnds == \A r \in Runs : Active(r) ~> Over(run[r])

(***************************************************************************)
(* Why they hold: the inductive invariant                                  *)
(***************************************************************************)

BeforeGates(x) ==
  x.pc \in {"idle", "tags"} \/ (x.pc = "handler" /\ x.cur = "STARTED")

\* Nothing has happened to an execution that is not in its gate loop yet, and an
\* execution awaits a gate only when the first registered gate is done or is
\* the awaited one and no blocking gate has failed; it awaits the step at its
\* position of the order.
LoopInv ==
  \A r \in Runs :
    LET x == run[r]
    IN  /\ BeforeGates(x) => /\ x.stepsDone = <<>> /\ x.gateErrs = {}
                             /\ x.ticket \in {request[r].ticket, NoTicket}
        /\ x.pc = "gate" =>
             /\ x.cur \in Gates
             /\ x.idx > 0
             /\ x.stepsDone = <<>>
             /\ x.gateErrs \cap Blocking = {}
             /\ RegisteredGates # <<>>
             /\ RegisteredGates[1] \in x.gatesDone \cup {x.cur}
        /\ x.pc = "step" => x.idx \in 1 .. Len(StepOrder) /\ x.cur = StepOrder[x.idx]

\* The list stands still under the loop of an execution that overlaps nobody:
\* every gate behind its iterator is done or is the awaited one.
IsolationInv ==
  \A r \in Runs \ overlapped :
    LET x == run[r]
    IN  x.pc = "gate" =>
          /\ ~ InjectedByOther(r, gateSteps)
          /\ \A k \in 1 .. Len(gateSteps) :
               k < x.idx /\ gateSteps[k] \in Gates =>
                 gateSteps[k] \in x.gatesDone \cup {x.cur}
          /\ x.ticket \in {request[r].ticket, NoTicket}

\* A ServiceNow gate that found nothing wrong with an execution that overlaps
\* nobody has checked that execution's own ticket.
TicketInv ==
  \A r \in Runs \ overlapped :
    (run[r].gatesDone \cap TicketGates) \ run[r].gateErrs # {} =>
      request[r].ticket \in Approved

\* The inductive invariant behind the safety properties of this module: what
\* the gate list is, and what each loop over it has already seen.
EngineInv ==
  /\ TypeOK
  /\ GateListSound
  /\ LoopInv
  /\ IsolationInv
  /\ TicketInv
  /\ FirstGateNeverBypassed
  /\ BlockedMeansNoStep
  /\ GateIsolation

(***************************************************************************)
(* Statements of the documentation that the code does not keep             *)
(***************************************************************************)

\* docs/provisioning-workflow.md: gates "run before any Azure mutation", and a
\* failing blocking gate aborts entirely; so every gate runs before the steps.
EveryGateRuns ==
  \A r \in Runs : PastGates(r) => ToSet(RegisteredGates) \subseteq run[r].gatesDone
===============================================================================
