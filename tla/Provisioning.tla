----------------------------- MODULE Provisioning -----------------------------
(***************************************************************************)
(* What executions of the workflow do to one subscription: the six built-in*)
(* steps and the steps of the shipped extensions, with the calls they make *)
(* to Azure, the Authorization service, ServiceNow and the notification    *)
(* endpoints.  Several executions for the same subscription may run at the *)
(* same time (an event posted again, a job delivered again, a replay), and *)
(* its owner may change the tags meanwhile.                                *)
(*                                                                         *)
(* The engine that runs the steps is WorkflowEngine; here it is a position *)
(* in the shared gate list or in StepOrder, and StepsRunByEngine says that *)
(* this is what the engine does.  One action is one awaited call with what *)
(* the step does with its answer.                                          *)
(***************************************************************************)
EXTENDS Integers, Sequences, FiniteSets, SequencesExt

CONSTANTS
  Runs,            \* executions of WorkflowEngine.run for the subscription
  RequestKinds,    \* the kinds of requests there are
  Environments,    \* values of the itl-environment tag, lower-cased
  Sandbox,         \* the environment "sandbox"
  NoTag,           \* the tag is absent
  Malformed,       \* a budget tag that int() rejects
  Budgets,         \* values of the itl-budget tag
  MgMapping,       \* settings.mg_mapping: environments to management groups
  ItlSandbox,      \* the management group "ITL-Sandbox"
  EventMg,         \* managementGroupId of the requests
  RootMg,          \* settings.root_management_group
  NoMg,            \* the empty name of a management group
  Ticket,          \* value of the itl-snow-ticket tag
  PreflightTicket, \* the ticket the preflights come with
  NoTicket,        \* the empty ticket
  Approved,        \* the tickets that exist and are in the required state
  SnowInstance,    \* VENDING_SNOW_INSTANCE is set
  RoleSpecs,       \* the principals configured for default roles
  Policies,        \* DEFAULT_POLICY_DEFINITION_IDS
  Topic,           \* settings.event_grid_topic_endpoint is set
  ApiUrl,          \* VENDING_API_NOTIFY_URL is set
  WebhookUrl,      \* VENDING_WEBHOOK_URL is set
  Faulty,          \* bound: the calls that may fail
  MaxTagChanges    \* bound: how often the owner changes the tags

BuiltIn == <<"MG", "INITIATIVE", "RBAC", "POLICY", "BUDGET", "NOTIFY">>

\* toposort of the built-in steps and of the extensions in the order
\* autodiscover imports them.
StepOrder ==
  BuiltIn \o (IF SnowInstance THEN <<"API", "FEEDBACK", "WEBHOOK">> ELSE <<"API", "WEBHOOK">>)

Steps == ToSet(StepOrder)

Mgs == Range(MgMapping) \cup {ItlSandbox, EventMg, RootMg, NoMg}

ASSUME ProvisioningConstants ==
  /\ "gate" \notin Runs
  /\ RequestKinds \subseteq {"provision", "dry_run", "preflight", "local"}
  /\ Sandbox \in Environments
  /\ NoTag \notin Environments
  /\ DOMAIN MgMapping \subseteq Environments
  /\ Budgets \subseteq Int \cup {NoTag, Malformed}
  /\ RootMg # NoMg
  /\ RoleSpecs \in Seq(ToSet(RoleSpecs))
  /\ Policies \in Seq(ToSet(Policies))
  /\ Approved \subseteq {Ticket, PreflightTicket} \ {NoTicket}
  /\ {SnowInstance, Topic, ApiUrl, WebhookUrl} \subseteq BOOLEAN
  /\ Faulty \subseteq {"tags", "gate"} \cup Steps
  /\ MaxTagChanges \in Nat

VARIABLES
  kind,        \* what each execution was asked to do; never changes
  tags,        \* the tags of the subscription
  retags,      \* how often they have changed
  azure,       \* the state of the subscription in Azure
  gateSteps,   \* the list _GATE_STEPS; an entry in Runs is that preflight's closure
  run,         \* local state of each execution
  sent,        \* outcomes reported to the outside: who reported what to whom
  latest,      \* the execution that was started last, of those that change anything
  solo,        \* executions that have been the only one of those all the time
  overlapped   \* executions whose gate loop met the closure of another one

vars == <<kind, tags, retags, azure, gateSteps, run, sent, latest, solo, overlapped>>

env == <<kind, tags, retags, latest, solo>>

-------------------------------------------------------------------------------
(***************************************************************************)
(* Configuration                                                           *)
(***************************************************************************)

\* settings.default_mg
DefaultMg == IF Sandbox \in DOMAIN MgMapping THEN MgMapping[Sandbox] ELSE ItlSandbox

\* Faulty variant: the environment is taken for the name of the group.
ResolveToItself(e) == e

ResolveManagementGroup(e) == IF e \in DOMAIN MgMapping THEN MgMapping[e] ELSE DefaultMg

\* SubscriptionConfig(): what a dry run goes by.
DefaultConfig == [mg |-> ItlSandbox, budget |-> 0, ticket |-> NoTicket, read |-> FALSE]

BudgetOf(tag) == IF tag \in {NoTag, Malformed} THEN 0 ELSE tag

\* What read_subscription_config makes of the tags, or of none when it cannot
\* get them (`read` remembers which).
ConfigOf(t) ==
  [mg     |-> ResolveManagementGroup(IF t.env = NoTag THEN Sandbox ELSE t.env),
   budget |-> BudgetOf(t.budget), ticket |-> Ticket, read |-> TRUE]

ConfigWithoutTags ==
  [mg |-> ResolveManagementGroup(Sandbox), budget |-> 0, ticket |-> NoTicket, read |-> FALSE]

\* The group STEP_MG moves the subscription to.
TargetMg(cfg) ==
  IF cfg.mg # NoMg THEN cfg.mg ELSE IF EventMg # NoMg THEN EventMg ELSE RootMg

-------------------------------------------------------------------------------
(***************************************************************************)
(* The engine: how an execution gets from one step to the next             *)
(***************************************************************************)

Dry(r) == kind[r] \in {"dry_run", "preflight"}

\* `vending provision` without --remote runs the engine in a process that has
\* not loaded the extensions: neither their steps nor their gate.
WithExtensions(r) == kind[r] # "local"

Order(r) == IF WithExtensions(r) THEN StepOrder ELSE BuiltIn

Success(x) == x.errs = {}

Position(step) == CHOOSE i \in DOMAIN StepOrder : StepOrder[i] = step

Await(x, step) == [x EXCEPT !.pc = step, !.item = 1]

FirstStep(x) == Await(x, StepOrder[1])

\* `for entry in _GATE_STEPS`, resumed at position i of the list as it is now: the closure
\* of a preflight replaces the ticket of whichever execution iterates over it.
GateLoop(x, list, i) ==
  LET gates == {k \in i .. Len(list) : list[k] = "gate"}
      stop  == IF gates = {} THEN Len(list) + 1 ELSE Min(gates)
      y     == IF i < stop
               THEN [x EXCEPT !.cfg.ticket = PreflightTicket, !.plan = @ \cup {"ticket"}] ELSE x
  IN  IF gates = {} THEN FirstStep(y) ELSE [y EXCEPT !.pc = "gate", !.idx = stop + 1]

Started(r, x, list) == IF WithExtensions(r) THEN GateLoop(x, list, 1) ELSE FirstStep(x)

Meets(r, list) == WithExtensions(r) /\ \E k \in DOMAIN list : list[k] \in Runs \ {r}

Touch(r, list) ==
  overlapped' = IF Meets(r, list) THEN overlapped \cup {r} ELSE overlapped

\* Execution r goes on in local state y, having seen the gate list `list`; when it is over
\* its closure, if it has one there, is removed.
Commit(r, y, list) ==
  /\ run' = [run EXCEPT ![r] = y]
  /\ gateSteps' = IF y.pc = "returned" THEN RemoveFirst(list, r) ELSE list

\* Faulty variant: the first error ends the execution.
StepOverOrAbort(r, x, error) ==
  LET i == Position(x.pc)
  IN  IF error THEN [x EXCEPT !.errs = @ \cup {x.pc}, !.pc = "returned"]
      ELSE IF i = Len(Order(r)) THEN [x EXCEPT !.pc = "returned"]
      ELSE Await(x, Order(r)[i + 1])

\* The step that execution r is in, in local state x, has ended.
StepOver(r, x, error) ==
  LET y == IF error THEN [x EXCEPT !.errs = @ \cup {x.pc}] ELSE x
      i == Position(x.pc)
  IN  IF i = Len(Order(r)) THEN [y EXCEPT !.pc = "returned"] ELSE Await(y, Order(r)[i + 1])

Active(r) == run[r].pc \notin {"idle", "returned"}

StartProvision(r) ==
  /\ run[r].pc = "idle"
  /\ ~ Dry(r)
  /\ run' = [run EXCEPT ![r].pc = "tags"]
  /\ latest' = r
  /\ LET others == {s \in Runs \ {r} : Active(s) /\ ~ Dry(s)}
     IN  solo' = IF others = {} THEN solo \cup {r} ELSE solo \ others
  /\ UNCHANGED <<kind, tags, retags, azure, gateSteps, sent, overlapped>>

ReadTags(r) ==
  /\ run[r].pc = "tags"
  /\ \E cfg \in {ConfigOf(tags)} \cup (IF "tags" \in Faulty THEN {ConfigWithoutTags} ELSE {}) :
       Commit(r, Started(r, [run[r] EXCEPT !.cfg = cfg], gateSteps), gateSteps)
  /\ Touch(r, gateSteps)
  /\ UNCHANGED <<env, azure, sent>>

\* A preflight that comes with a ticket puts a closure into the gate list.
Injects(r) == kind[r] = "preflight" /\ PreflightTicket # NoTicket

StartDryRun(r) ==
  /\ run[r].pc = "idle"
  /\ Dry(r) /\ ~ Injects(r)
  /\ Commit(r, Started(r, run[r], gateSteps), gateSteps)
  /\ Touch(r, gateSteps)
  /\ UNCHANGED <<env, azure, sent>>

\* It is inserted at the head, and stays as long as the preflight runs.
StartPreflight(r) ==
  /\ run[r].pc = "idle"
  /\ Injects(r)
  /\ LET list == <<r>> \o gateSteps
     IN  /\ Commit(r, Started(r, run[r], list), list)
         /\ overlapped' = overlapped \cup {s \in Runs : run[s].pc = "gate"}
                            \cup (IF Meets(r, list) THEN {r} ELSE {})
  /\ UNCHANGED <<env, azure, sent>>

\* Faulty variant: a subscription without a ticket is let through.
GatePassesWithoutTicket(ticket) ==
  IF ticket = NoTicket \/ ticket \in Approved THEN BOOLEAN ELSE {FALSE}

\* ServiceNowCheckGate: without a ticket, or with one that is not approved or
\* cannot be looked up, there is an error.
GatePasses(ticket) ==
  IF ticket \notin Approved THEN {FALSE}
  ELSE IF "gate" \in Faulty THEN BOOLEAN ELSE {TRUE}

Gate(r) ==
  /\ run[r].pc = "gate"
  /\ \E passes \in GatePasses(run[r].cfg.ticket) :
       LET x == run[r]
           y == IF passes THEN GateLoop([x EXCEPT !.plan = @ \cup {"gate"}], gateSteps, x.idx)
                ELSE [x EXCEPT !.errs = {"gate"}, !.pc = "returned"]
       IN  Commit(r, y, gateSteps)
  /\ Touch(r, gateSteps)
  /\ UNCHANGED <<env, azure, sent>>

-------------------------------------------------------------------------------
(***************************************************************************)
(* The steps                                                               *)
(***************************************************************************)

\* How a call ends.  A call that is not answered has had its effect.
Answers(call) == IF call \in Faulty THEN {"done", "failed", "unanswered"} ELSE {"done"}

Effects == {"done", "unanswered"}

\* The step that r is in ends, in local state x.
EndStep(r, x, error) ==
  Commit(r, StepOver(r, x, error), gateSteps) /\ UNCHANGED <<env, overlapped>>

\* In a dry run it adds a line to the plan instead of doing anything.
PlanStep(r, x) ==
  EndStep(r, [x EXCEPT !.plan = @ \cup {x.pc}], FALSE) /\ UNCHANGED <<azure, sent>>

\* move_subscription_to_management_group
MoveSubscription(mg, o) == azure' = IF o \in Effects THEN [azure EXCEPT !.mg = mg] ELSE azure

\* Faulty variant: the group counts as assigned before the call has been answered.
StepMgEager(r) ==
  /\ run[r].pc = "MG"
  /\ LET mg == TargetMg(run[r].cfg)
         x  == [run[r] EXCEPT !.mg = mg]
     IN  IF Dry(r) THEN PlanStep(r, x)
         ELSE /\ \E o \in Answers("MG") : MoveSubscription(mg, o)
              /\ EndStep(r, x, FALSE)
              /\ UNCHANGED sent

StepMg(r) ==
  /\ run[r].pc = "MG"
  /\ LET mg == TargetMg(run[r].cfg)
         x  == [run[r] EXCEPT !.mg = mg]
     IN  IF Dry(r) THEN PlanStep(r, x)
         ELSE \E o \in Answers("MG") :
                /\ MoveSubscription(mg, o)
                /\ IF o = "done" THEN EndStep(r, x, FALSE) ELSE EndStep(r, run[r], TRUE)
                /\ UNCHANGED sent

\* attach_foundation_initiative
AttachInitiative(o) == azure' = [azure EXCEPT !.initiative = @ \/ o \in Effects]

StepInitiative(r) ==
  /\ run[r].pc = "INITIATIVE"
  /\ IF Dry(r) THEN PlanStep(r, run[r])
     ELSE \E o \in Answers("INITIATIVE") :
            /\ AttachInitiative(o)
            /\ EndStep(r, [run[r] EXCEPT !.initiative = (o = "done")], o # "done")
            /\ UNCHANGED sent

\* Azure may reject a role assignment the principal already has.
RoleAnswers(p) == Answers("RBAC") \cup (IF p \in azure.roles THEN {"failed"} ELSE {})

\* A failed assignment is only logged, and the next one is tried.
ListRole(x, p, o) ==
  [x EXCEPT !.roles = IF o = "done" THEN @ \cup {p} ELSE @, !.item = @ + 1]

AssignRole(r, p) ==
  \E o \in RoleAnswers(p) :
    /\ azure' = [azure EXCEPT !.roles = IF o \in Effects THEN @ \cup {p} ELSE @]
    /\ run' = [run EXCEPT ![r] = ListRole(@, p, o)]
    /\ UNCHANGED <<env, gateSteps, sent, overlapped>>

\* create_initial_rbac raises only before its loop, when it gets no credential or client.
RolesEnd(r) ==
  /\ \/ run[r].item > Len(RoleSpecs) /\ EndStep(r, run[r], FALSE)
     \/ run[r].item = 1 /\ "RBAC" \in Faulty /\ EndStep(r, run[r], TRUE)
  /\ UNCHANGED <<azure, sent>>

StepRbac(r) ==
  /\ run[r].pc = "RBAC"
  /\ IF Dry(r) THEN PlanStep(r, run[r])
     ELSE \/ RolesEnd(r)
          \/ run[r].item <= Len(RoleSpecs) /\ AssignRole(r, RoleSpecs[run[r].item])

\* assign_default_policies, for one policy: each assignment has a new name, so Azure
\* takes a second one of the same policy.
AssignPolicy(p, o) ==
  azure' = IF o \in Effects THEN [azure EXCEPT !.policies[p] = @ + 1] ELSE azure

\* On to the next policy of the list.
NextPolicy(x) == [x EXCEPT !.item = @ + 1]

\* The first assignment that fails ends the step.
StepPolicy(r) ==
  /\ run[r].pc = "POLICY"
  /\ LET i == run[r].item
     IN  CASE Dry(r)            -> PlanStep(r, run[r])
           [] ~ Dry(r) /\ i > Len(Policies) ->
                EndStep(r, run[r], FALSE) /\ UNCHANGED <<azure, sent>>
           [] OTHER             ->
                \E o \in Answers("POLICY") :
                  /\ AssignPolicy(Policies[i], o)
                  /\ IF o = "done"
                     THEN /\ run' = [run EXCEPT ![r] = NextPolicy(@)]
                          /\ UNCHANGED <<env, gateSteps, overlapped>>
                     ELSE EndStep(r, run[r], TRUE)
                  /\ UNCHANGED sent

\* Faulty variant: a failure to create the budget is only logged.
StepBudgetLogsOnly(r) ==
  /\ run[r].pc = "BUDGET"
  /\ LET amount == run[r].cfg.budget
     IN  IF Dry(r) THEN PlanStep(r, run[r])
         ELSE /\ EndStep(r, run[r], FALSE)
              /\ \E o \in Answers("BUDGET") :
                   azure' = IF o \in Effects /\ amount > 0 THEN [azure EXCEPT !.budget = amount]
                            ELSE azure
              /\ UNCHANGED sent

\* _create_budget_alert: creates the budget or replaces its amount.
CreateBudget(amount, o) ==
  azure' = IF o \in Effects THEN [azure EXCEPT !.budget = amount] ELSE azure

\* A dry run has a line for a subscription without a budget as well.
StepBudget(r) ==
  /\ run[r].pc = "BUDGET"
  /\ LET amount == run[r].cfg.budget
     IN  IF Dry(r) THEN PlanStep(r, run[r])
         ELSE IF amount <= 0 THEN EndStep(r, run[r], FALSE) /\ UNCHANGED <<azure, sent>>
         ELSE \E o \in Answers("BUDGET") :
                /\ CreateBudget(amount, o)
                /\ EndStep(r, run[r], o # "done")
                /\ UNCHANGED sent

\* A report of execution r, made up from its result so far, unless it gets nowhere.
Report(r, to) == [by |-> r, to |-> to, success |-> Success(run[r]), mg |-> run[r].mg]

Tell(r, to, o) == sent' = IF o \in Effects THEN sent \cup {Report(r, to)} ELSE sent

\* Faulty variant: a dry run publishes the event too.
StepNotifyAlways(r) ==
  /\ run[r].pc = "NOTIFY"
  /\ \E o \in IF Topic THEN Answers("NOTIFY") ELSE {"failed"} : Tell(r, "topic", o)
  /\ EndStep(r, run[r], FALSE)
  /\ UNCHANGED azure

\* The event of STEP_NOTIFY; a failure to publish it is only logged.
StepNotify(r) ==
  /\ run[r].pc = "NOTIFY"
  /\ IF Dry(r) THEN PlanStep(r, run[r])
     ELSE /\ \E o \in IF Topic THEN Answers("NOTIFY") ELSE {"failed"} : Tell(r, "topic", o)
          /\ EndStep(r, run[r], FALSE)
          /\ UNCHANGED azure

\* BaseStep._http_post of an extension step to its endpoint, if there is one; a dry run
\* has no line for it.
HttpPost(r, step, configured) ==
  /\ run[r].pc = step
  /\ IF configured /\ ~ Dry(r)
     THEN \E o \in Answers(step) : Tell(r, step, o) /\ EndStep(r, run[r], o # "done")
     ELSE EndStep(r, run[r], FALSE) /\ UNCHANGED sent
  /\ UNCHANGED azure

StepApi(r) == HttpPost(r, "API", ApiUrl)

StepWebhook(r) == HttpPost(r, "WEBHOOK", WebhookUrl)

\* ServiceNowFeedbackStep: note and state of the ticket follow the result as it
\* is before the lookup; failures are only logged.
StepFeedback(r) ==
  /\ run[r].pc = "FEEDBACK"
  /\ CASE run[r].cfg.ticket = NoTicket -> EndStep(r, run[r], FALSE) /\ UNCHANGED <<azure, sent>>
       [] run[r].cfg.ticket # NoTicket /\ Dry(r) -> PlanStep(r, run[r])
       [] OTHER ->
            /\ \E o \in Answers("FEEDBACK") : Tell(r, "ticket", o)
            /\ EndStep(r, run[r], FALSE)
            /\ UNCHANGED azure

Step(r) ==
  \/ StepMg(r) \/ StepInitiative(r) \/ StepRbac(r) \/ StepPolicy(r) \/ StepBudget(r)
  \/ StepNotify(r) \/ StepApi(r) \/ StepFeedback(r) \/ StepWebhook(r)

-------------------------------------------------------------------------------

TagValues == [env : Environments \cup {NoTag}, budget : Budgets]

\* The owner of the subscription changes its tags.
Retag ==
  /\ retags < MaxTagChanges
  /\ retags' = retags + 1
  /\ \E t \in TagValues \ {tags} : tags' = t
  /\ UNCHANGED <<kind, azure, gateSteps, run, sent, latest, solo, overlapped>>

Fresh ==
  [pc |-> "idle", idx |-> 0, item |-> 1, cfg |-> DefaultConfig, errs |-> {}, plan |-> {},
   mg |-> NoMg, initiative |-> FALSE, roles |-> {}]

\* The gates the service has registered.
RegisteredGates == IF SnowInstance THEN <<"gate">> ELSE <<>>

\* The subscription is new.
Init ==
  /\ kind \in [Runs -> RequestKinds]
  /\ tags \in TagValues
  /\ retags = 0
  /\ azure = [mg |-> NoMg, initiative |-> FALSE, roles |-> {},
              policies |-> [p \in ToSet(Policies) |-> 0], budget |-> 0]
  /\ gateSteps = RegisteredGates
  /\ run = [r \in Runs |-> Fresh]
  /\ sent = {}
  /\ latest = "nobody"
  /\ solo = {}
  /\ overlapped = {}

Next ==
  \/ \E r \in Runs :
       \/ StartProvision(r) \/ StartDryRun(r) \/ StartPreflight(r)
       \/ ReadTags(r) \/ Gate(r) \/ Step(r)
  \/ Retag

Spec == Init /\ [][Next]_vars

-------------------------------------------------------------------------------
(***************************************************************************)
(* Properties                                                              *)
(***************************************************************************)

Config ==
  [mg : Mgs, budget : Int, ticket : {Ticket, PreflightTicket, NoTicket}, read : BOOLEAN]

RunState ==
  [pc : {"idle", "tags", "gate", "returned"} \cup Steps, idx : Nat, item : Nat, cfg : Config,
   errs : SUBSET ({"gate"} \cup Steps), plan : SUBSET ({"ticket", "gate"} \cup Steps),
   mg : Mgs, initiative : BOOLEAN, roles : SUBSET ToSet(RoleSpecs)]

TypeOK ==
  /\ kind \in [Runs -> RequestKinds]
  /\ tags \in TagValues
  /\ retags \in Nat
  /\ azure \in [mg : Mgs, initiative : BOOLEAN, roles : SUBSET ToSet(RoleSpecs),
                policies : [ToSet(Policies) -> Nat], budget : Int]
  /\ gateSteps \in Seq(Runs \cup {"gate"})
  /\ run \in [Runs -> RunState]
  /\ sent \subseteq [by : Runs, to : {"topic", "ticket", "API", "WEBHOOK"},
                     success : BOOLEAN, mg : Mgs]
  /\ latest \in Runs \cup {"nobody"}
  /\ solo \cup overlapped \subseteq Runs

\* Everything the tags ask for that does not depend on other executions is in
\* place: the initiative, the policies and, for a positive budget, a budget.
Configured(cfg) ==
  /\ azure.initiative
  /\ \A p \in ToSet(Policies) : azure.policies[p] > 0
  /\ cfg.budget > 0 => azure.budget > 0

\* A caller that is told `success` finds the subscription set up, although every
\* step catches its own failures and executions overlap; and the roles and the
\* initiative a result names are there, whatever else went wrong.
ResultsAreTrue ==
  \A r \in Runs :
    ~ Dry(r) =>
      /\ run[r].pc = "returned" /\ Success(run[r]) => Configured(run[r].cfg)
      /\ run[r].roles \subseteq azure.roles
      /\ run[r].initiative => azure.initiative

\* A replay repairs: when the execution started last met no other one and was
\* successful, the subscription is where its tags said and has its budget, no
\* matter where earlier executions failed.
LastRunSettles ==
  \A r \in solo :
    latest = r /\ run[r].pc = "returned" /\ Success(run[r]) =>
      /\ azure.mg = TargetMg(run[r].cfg)
      /\ run[r].mg = azure.mg
      /\ run[r].cfg.budget > 0 => azure.budget = run[r].cfg.budget

\* Nobody outside is told of a success before the subscription is set up: not by
\* the SubscriptionProvisioned event, the notifications or the ticket.
AnnouncedMeansConfigured ==
  \A m \in sent : m.success => /\ Configured(run[m.by].cfg)
                               /\ m.mg = TargetMg(run[m.by].cfg)

\* With the ServiceNow gate the service gets to the steps only under an approved ticket,
\* whatever preflights put theirs into its gate loop; and a run that met none of them got
\* there under the ticket of its own tags, so a failing tag read does not put a
\* subscription under the defaults (run of the engine, handle_preflight).
NoDefaultsBehindGate ==
  SnowInstance =>
    \A r \in Runs :
      kind[r] = "provision" /\ run[r].pc \in Steps =>
        /\ run[r].cfg.ticket \in Approved
        /\ r \notin overlapped => run[r].cfg.read /\ run[r].cfg.ticket = Ticket

\* What a step of a dry run may do: nothing in Azure, no word to anybody, and a line of
\* the plan for each of the six built-in steps.
Rehearses(r) ==
  /\ UNCHANGED <<azure, sent>>
  /\ run[r].pc \in ToSet(BuiltIn) => run'[r].plan = run[r].plan \cup {run[r].pc}

\* No step forgets that it is in a dry run: each has a test of its own for it, at its own
\* place among its calls (STEP_MG to STEP_NOTIFY, _http_post, ServiceNowFeedbackStep).
DryRunsTouchNothing ==
  [][\A r \in Runs : Dry(r) /\ run'[r] # run[r] => Rehearses(r)]_vars

(***************************************************************************)
(* The engine that runs the steps                                          *)
(***************************************************************************)

\* How many of the steps x has behind it.
StepsPast(x) ==
  IF x.pc = "returned" THEN Len(StepOrder)
  ELSE IF x.pc \in Steps THEN Position(x.pc) - 1 ELSE 0

EngineEvents(x) ==
  CASE x.pc \in {"idle", "tags"} -> <<>>
    [] x.pc = "returned" -> <<"STARTED", "COMPLETED", IF Success(x) THEN "SUCCEEDED" ELSE "FAILED">>
    [] OTHER -> <<"STARTED">>

\* Local state x as the engine sees it.
EngineRun(x) ==
  [pc |-> IF x.pc \in Steps THEN "step" ELSE x.pc,
   cur |-> CASE x.pc \in {"idle", "tags"} -> "none"
             [] x.pc = "returned" -> EngineEvents(x)[3]
             [] OTHER -> x.pc,
   idx |-> CASE x.pc \in {"idle", "tags"} -> 0
             [] x.pc = "gate" -> x.idx
             [] x.pc = "returned" -> 1
             [] OTHER -> Position(x.pc),
   ticket |-> x.cfg.ticket,
   errs |-> (IF "gate" \in x.errs THEN {"mentions"} ELSE {}) \cup
            (IF x.errs \cap Steps # {} THEN {"silent"} ELSE {}),
   gatesDone |-> (x.plan \cup x.errs) \cap {"gate"},
   gateErrs |-> x.errs \cap {"gate"},
   stepsDone |-> IF "gate" \in x.errs THEN <<>>
                 ELSE SubSeq(StepOrder, 1, StepsPast(x)),
   stepErrs |-> x.errs \cap Steps,
   events |-> EngineEvents(x)]

\* Local executions are in processes of their own.
EngineRuns == [r \in Runs |-> EngineRun(IF WithExtensions(r) THEN run[r] ELSE Fresh)]

EngineRequests ==
  [r \in Runs |->
     CASE kind[r] = "preflight" -> [kind |-> "preflight", ticket |-> PreflightTicket]
       [] kind[r] = "dry_run"   -> [kind |-> "dry_run", ticket |-> NoTicket]
       [] OTHER                 -> [kind |-> "provision", ticket |-> Ticket]]

Engine == INSTANCE WorkflowEngine WITH
  Runs <- Runs, Tickets <- {Ticket, PreflightTicket} \ {NoTicket}, NoTicket <- NoTicket,
  Approved <- Approved, Gates <- {"gate"}, RegisteredGates <- RegisteredGates,
  Blocking <- {"gate"}, TicketGates <- {"gate"}, Steps <- Steps, StepOrder <- StepOrder,
  SortOutcome <- "ordered", StopSteps <- {}, CredentialRaises <- FALSE, None <- "none",
  Handlers <- [e \in {"STARTED", "COMPLETED", "SUCCEEDED", "FAILED"} |-> 0],
  request <- EngineRequests, gateSteps <- gateSteps, run <- EngineRuns,
  overlapped <- overlapped

\* The executions of the service are executions of WorkflowEngine, over one gate list that
\* preflights change: no step of the repository behaves in a way the engine model does not
\* allow for, and every step is reached however the steps before it have failed.
StepsRunByEngine == Engine!Spec
===============================================================================
