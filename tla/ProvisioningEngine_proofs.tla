----------------------- MODULE ProvisioningEngine_proofs -----------------------
(***************************************************************************)
(* The executions of the service in Provisioning are executions of         *)
(* WorkflowEngine, over one gate list into which the preflights put their  *)
(* closures: the gate loop stops where the engine's does and comes by the  *)
(* same ticket, every step, built-in or of an extension, behaves in a way  *)
(* the engine model allows for, and however it ends the engine goes on to  *)
(* the next one.  For any number of executions, any configuration and      *)
(* whatever calls fail.                                                    *)
(*                                                                         *)
(* First, what a step of Provisioning does to the part of the local state  *)
(* that the engine knows (Moved); then, what the engine's own operators    *)
(* make of that part; last, one against the other.                         *)
(***************************************************************************)
EXTENDS Provisioning_proofs

\* Execution r goes from local state x to y, having seen the gate list `list`.
LeavesIdle(r, x, y) == x.pc = "idle" /\ ~ Dry(r) /\ y = [x EXCEPT !.pc = "tags"]

Begins(r, x, y, list) ==
  \E w \in RunState :
    /\ w.errs = x.errs /\ w.plan = x.plan
    /\ \/ x.pc = "tags" /\ w.cfg.ticket \in {Ticket, NoTicket}
       \/ x.pc = "idle" /\ Dry(r) /\ w.cfg = x.cfg
    /\ y = Started(r, w, list)

LeavesGate(x, y, list) ==
  /\ x.pc = "gate"
  /\ \/ x.cfg.ticket \in Approved /\ y = GateLoop([x EXCEPT !.plan = @ \cup {"gate"}], list, x.idx)
     \/ y = [x EXCEPT !.errs = {"gate"}, !.pc = "returned"]

InStep(r, x, y) ==
  x.pc \in Steps /\ y.pc \in Steps \cup {"returned"} /\ y.cfg = x.cfg /\ StepLeaves(r, x, y)

Moved(r, x, y, list) ==
  LeavesIdle(r, x, y) \/ Begins(r, x, y, list) \/ LeavesGate(x, y, list) \/ InStep(r, x, y)

-------------------------------------------------------------------------------
(***************************************************************************)
(* The steps of Provisioning                                               *)
(***************************************************************************)

LEMMA StartMoves ==
  ASSUME ProvInv, NEW r \in Runs, StartProvision(r)
  PROVE  \E y \in RunState : LeavesIdle(r, run[r], y) /\ run' = [run EXCEPT ![r] = y]
<1>1. /\ run[r] \in RunState /\ run[r].pc = "idle" /\ ~ Dry(r)
      /\ run' = [run EXCEPT ![r].pc = "tags"]
  BY MovingRun DEF StartProvision
<1>2. PICK y : y = [run[r] EXCEPT !.pc = "tags"]
  OBVIOUS
<1>3. y \in RunState
  BY <1>1, <1>2 DEF RunState
<1>4. run' = [run EXCEPT ![r] = y]
  BY <1>1, <1>2 DEF ProvInv, CoreTypes
<1> QED
  BY <1>1, <1>2, <1>3, <1>4 DEF LeavesIdle

LEMMA ReadTagsMoves ==
  ASSUME ProvInv, gateSteps \in Lists, NEW r \in Runs, ReadTags(r)
  PROVE  \E y \in RunState : Begins(r, run[r], y, gateSteps) /\ Commit(r, y, gateSteps)
<1>1. PICK cfg \in {ConfigOf(tags)} \cup {ConfigWithoutTags} :
        Commit(r, Started(r, [run[r] EXCEPT !.cfg = cfg], gateSteps), gateSteps)
  BY DEF ReadTags
<1>2. run[r] \in RunState /\ run[r].pc = "tags"
  BY MovingRun DEF ReadTags
<1>3. cfg \in Config /\ cfg.ticket \in {Ticket, NoTicket}
  <2>1. tags \in TagValues
    BY DEF ProvInv, CoreTypes
  <2>2. cfg \in Config
    BY <1>1, <2>1, ConfigTypes
  <2>3. cfg.ticket \in {Ticket, NoTicket}
    BY <1>1 DEF ConfigOf, ConfigWithoutTags
  <2> QED
    BY <2>2, <2>3
<1>4. PICK w, y : w = [run[r] EXCEPT !.cfg = cfg] /\ y = Started(r, w, gateSteps)
  OBVIOUS
<1>5. w \in RunState /\ w.errs = run[r].errs /\ w.plan = run[r].plan /\ w.cfg = cfg
  BY <1>2, <1>3, <1>4 DEF RunState
<1>6. y \in RunState
  BY <1>4, <1>5, StartedIs
<1>7. Begins(r, run[r], y, gateSteps)
  BY <1>2, <1>3, <1>4, <1>5 DEF Begins
<1>8. Commit(r, y, gateSteps)
  BY <1>1, <1>4
<1> QED
  BY <1>6, <1>7, <1>8

LEMMA DryRunMoves ==
  ASSUME ProvInv, NEW r \in Runs, run[r].pc = "idle", Dry(r), NEW list \in Lists,
         Commit(r, Started(r, run[r], list), list)
  PROVE  \E y \in RunState : Begins(r, run[r], y, list) /\ Commit(r, y, list)
<1>1. run[r] \in RunState
  BY MovingRun
<1>2. PICK y : y = Started(r, run[r], list)
  OBVIOUS
<1>3. y \in RunState
  BY <1>1, <1>2, StartedIs
<1>4. Begins(r, run[r], y, list)
  BY <1>1, <1>2 DEF Begins
<1> QED
  BY <1>2, <1>3, <1>4

LEMMA GateMovesOn ==
  ASSUME ProvInv, gateSteps \in Lists, NEW r \in Runs, Gate(r)
  PROVE  \E y \in RunState : LeavesGate(run[r], y, gateSteps) /\ Commit(r, y, gateSteps)
<1>1. run[r] \in RunState /\ run[r].pc = "gate" /\ run[r].idx \in Nat \ {0}
  BY MovingRun DEF Gate, ProvInv, PlaceInv, PlaceOk
<1>2. CASE /\ run[r].cfg.ticket \in Approved
           /\ Commit(r, GateLoop([run[r] EXCEPT !.plan = @ \cup {"gate"}], gateSteps, run[r].idx),
                     gateSteps)
  <2>1. PICK w, y : /\ w = [run[r] EXCEPT !.plan = @ \cup {"gate"}]
                    /\ y = GateLoop(w, gateSteps, run[r].idx)
    OBVIOUS
  <2>2. w \in RunState
    BY <1>1, <2>1, PassedIs
  <2>3. y \in RunState
    BY <1>1, <2>1, <2>2, GateLoopIs
  <2>4. LeavesGate(run[r], y, gateSteps)
    BY <1>1, <1>2, <2>1 DEF LeavesGate
  <2> QED
    BY <1>2, <2>1, <2>3, <2>4
<1>3. CASE Commit(r, [run[r] EXCEPT !.errs = {"gate"}, !.pc = "returned"], gateSteps)
  <2>1. PICK y : y = [run[r] EXCEPT !.errs = {"gate"}, !.pc = "returned"]
    OBVIOUS
  <2>2. y \in RunState
    BY <1>1, <2>1 DEF RunState
  <2>3. LeavesGate(run[r], y, gateSteps)
    BY <1>1, <2>1 DEF LeavesGate
  <2> QED
    BY <1>3, <2>1, <2>2, <2>3
<1> QED
  BY <1>2, <1>3, GateEndIs

LEMMA StepMoves ==
  ASSUME ProvInv, NEW r \in Runs, Step(r)
  PROVE  \E y \in RunState :
           InStep(r, run[r], y) /\ Commit(r, y, gateSteps) /\ overlapped' = overlapped
<1>1. PICK y : run[r].pc \in Steps /\ Goes(r, y)
  BY StepGoes
<1> QED
  BY <1>1 DEF Goes, InStep

LEMMA NextMoves ==
  ASSUME ProvInv, GateInv, [Next]_vars
  PROVE  /\ kind' = kind
         /\ \/ run' = run
            \/ \E r \in Runs, y \in RunState, list \in Lists :
                 run' = [run EXCEPT ![r] = y] /\ Moved(r, run[r], y, list)
<1>1. gateSteps \in Lists
  BY DEF GateInv, ListOk
<1> DEFINE Goal(r) == /\ kind' = kind
                      /\ \E y \in RunState, list \in Lists :
                           run' = [run EXCEPT ![r] = y] /\ Moved(r, run[r], y, list)
<1>2. ASSUME NEW r \in Runs, StartProvision(r) PROVE Goal(r)
  <2>1. PICK y \in RunState : LeavesIdle(r, run[r], y) /\ run' = [run EXCEPT ![r] = y]
    BY <1>2, StartMoves
  <2> QED
    BY <1>1, <1>2, <2>1 DEF Moved, StartProvision
<1>3. ASSUME NEW r \in Runs, ReadTags(r) PROVE Goal(r)
  <2>1. PICK y \in RunState : Begins(r, run[r], y, gateSteps) /\ Commit(r, y, gateSteps)
    BY <1>1, <1>3, ReadTagsMoves
  <2> QED
    BY <1>1, <1>3, <2>1 DEF Moved, Commit, ReadTags, env
<1>4. ASSUME NEW r \in Runs, StartDryRun(r) \/ StartPreflight(r) PROVE Goal(r)
  <2>1. PICK list \in Lists : Commit(r, Started(r, run[r], list), list)
    BY <1>1, <1>4, InsertedIs DEF StartDryRun, StartPreflight
  <2>2. run[r].pc = "idle" /\ Dry(r) /\ kind' = kind
    BY <1>4 DEF StartDryRun, StartPreflight, Injects, Dry, env
  <2>3. PICK y \in RunState : Begins(r, run[r], y, list) /\ Commit(r, y, list)
    BY <2>1, <2>2, DryRunMoves
  <2> QED
    BY <2>2, <2>3 DEF Moved, Commit
<1>5. ASSUME NEW r \in Runs, Gate(r) PROVE Goal(r)
  <2>1. PICK y \in RunState : LeavesGate(run[r], y, gateSteps) /\ Commit(r, y, gateSteps)
    BY <1>1, <1>5, GateMovesOn
  <2> QED
    BY <1>1, <1>5, <2>1 DEF Moved, Commit, Gate, env
<1>6. ASSUME NEW r \in Runs, Step(r) PROVE Goal(r)
  <2>1. PICK y \in RunState : InStep(r, run[r], y) /\ Commit(r, y, gateSteps)
    BY <1>6, StepMoves
  <2>2. kind' = kind
    BY <1>6, StepGoes DEF Goes, env
  <2> QED
    BY <1>1, <2>1, <2>2 DEF Moved, Commit
<1>7. Retag \/ UNCHANGED vars => run' = run /\ kind' = kind
  BY DEF Retag, vars
<1> HIDE DEF Goal
<1>8. \/ run' = run /\ kind' = kind
      \/ \E r \in Runs : Goal(r)
  BY <1>2, <1>3, <1>4, <1>5, <1>6, <1>7 DEF Next
<1> QED
  BY <1>8 DEF Goal

\* What the engine takes for granted of an execution that has not ended: nothing has happened
\* before its tags are read, it has no error in its gate loop, and none of the gate behind it.
Known(r, x) ==
  /\ x.pc \in {"idle", "tags"} => x.cfg.ticket = NoTicket /\ x.errs = {} /\ "gate" \notin x.plan
  /\ x.pc = "tags" => ~ Dry(r)
  /\ x.pc = "gate" => x.errs = {}
  /\ x.pc \in Steps => "gate" \notin x.errs

KnownInv == \A r \in Runs : Known(r, run[r])

LEMMA KnownStays ==
  ASSUME NEW r \in Runs, NEW x \in RunState, NEW y \in RunState, NEW list \in Lists,
         x.pc = "gate" => x.idx \in Nat \ {0},
         Known(r, x), Moved(r, x, y, list)
  PROVE  Known(r, y)
<1>1. CASE LeavesIdle(r, x, y)
  <2>1. /\ x.pc = "idle" /\ ~ Dry(r) /\ y.pc = "tags" /\ y.cfg = x.cfg /\ y.errs = x.errs
        /\ y.plan = x.plan
    BY <1>1 DEF LeavesIdle, RunState
  <2> QED
    BY <2>1, Unplaced DEF Known
<1>2. CASE Begins(r, x, y, list)
  <2>1. PICK w \in RunState : w.errs = x.errs /\ y = Started(r, w, list)
    BY <1>2 DEF Begins
  <2>2. y.errs = x.errs /\ y.pc \in {"gate", "MG"}
    <3>1. SameWork(w, y) /\ y.pc \in {"gate", "MG"}
      BY <2>1, StartedIs
    <3> QED
      BY <2>1, <3>1 DEF SameWork
  <2>3. x.errs = {}
    BY <1>2 DEF Begins, Known
  <2> QED
    BY <2>2, <2>3 DEF Known
<1>3. CASE LeavesGate(x, y, list)
  <2>1. x.pc = "gate" /\ x.errs = {} /\ x.idx \in Nat \ {0}
    BY <1>3 DEF LeavesGate, Known
  <2>2. CASE y = GateLoop([x EXCEPT !.plan = @ \cup {"gate"}], list, x.idx)
    <3>1. PICK w : w = [x EXCEPT !.plan = @ \cup {"gate"}]
      OBVIOUS
    <3>2. w \in RunState /\ w.errs = {}
      BY <2>1, <3>1, PassedIs DEF SameWork
    <3>3. y = GateLoop(w, list, x.idx)
      BY <2>2, <3>1
    <3>4. y.pc \in {"gate", "MG"} /\ y.errs = {}
      BY <2>1, <3>2, <3>3, GateLoopIs DEF SameWork
    <3> QED
      BY <3>4 DEF Known
  <2>3. CASE y = [x EXCEPT !.errs = {"gate"}, !.pc = "returned"]
    <3>1. y.pc = "returned"
      BY <2>3 DEF RunState
    <3> QED
      BY <3>1, Unplaced DEF Known
  <2> QED
    BY <1>3, <2>2, <2>3 DEF LeavesGate
<1>4. CASE InStep(r, x, y)
  <2>1. /\ x.pc \in Steps /\ y.pc \in Steps \cup {"returned"}
        /\ y.errs \in {x.errs, x.errs \cup {x.pc}}
    BY <1>4 DEF InStep, StepLeaves
  <2>2. x.pc # "gate" /\ "gate" \notin x.errs
    BY <2>1, Unplaced DEF Known
  <2> QED
    BY <2>1, <2>2, Unplaced DEF Known
<1> QED
  BY <1>1, <1>2, <1>3, <1>4 DEF Moved

THEOREM KnownInvHolds == Spec => []KnownInv
<1>1. Init => KnownInv
  BY Unplaced DEF Init, Fresh, DefaultConfig, KnownInv, Known
<1>2. ProvInv /\ GateInv /\ KnownInv /\ [Next]_vars => KnownInv'
  <2> SUFFICES ASSUME ProvInv, GateInv, KnownInv, [Next]_vars, NEW s \in Runs
               PROVE  Known(s, run[s])'
    BY DEF KnownInv
  <2>1. \A x : Known(s, x) <=> Known(s, x)'
    BY NextMoves DEF Known, Dry
  <2>2. Known(s, run'[s])
    <3>1. CASE run' = run
      BY <3>1 DEF KnownInv
    <3>2. ASSUME NEW r \in Runs, NEW y \in RunState, NEW list \in Lists,
                 run' = [run EXCEPT ![r] = y], Moved(r, run[r], y, list)
          PROVE  Known(s, run'[s])
      <4>1. run \in [Runs -> RunState]
        BY DEF ProvInv, CoreTypes
      <4>2. CASE s = r
        <5>1. run'[s] = y
          BY <3>2, <4>1, <4>2
        <5>2. run[r] \in RunState /\ Known(r, run[r])
          BY <4>1 DEF KnownInv
        <5>3. run[r].pc = "gate" => run[r].idx \in Nat \ {0}
          BY DEF ProvInv, PlaceInv, PlaceOk
        <5>4. Known(r, y)
          BY <3>2, <5>2, <5>3, KnownStays
        <5> QED
          BY <4>2, <5>1, <5>4
      <4>3. CASE s # r
        BY <3>2, <4>1, <4>3 DEF KnownInv
      <4> QED
        BY <4>2, <4>3
    <3> QED
      BY <3>1, <3>2, NextMoves
  <2>3. PICK x : x = run'[s]
    OBVIOUS
  <2>4. Known(s, x)'
    BY <2>1, <2>2, <2>3
  <2> QED
    BY <2>3, <2>4 DEF Known
<1> QED
  BY <1>1, <1>2, ProvInvHolds, PTL DEF Spec

-------------------------------------------------------------------------------
(***************************************************************************)
(* The operators of the engine                                             *)
(***************************************************************************)

Events == {"STARTED", "COMPLETED", "SUCCEEDED", "FAILED"}

\* The local states of the engine.
EngineStates ==
  [pc : {"idle", "tags", "handler", "gate", "step", "returned"},
   cur : StepNames \cup Events \cup {"gate", "none"}, idx : Nat,
   ticket : {Ticket, PreflightTicket, NoTicket}, errs : SUBSET {"mentions", "silent"},
   gatesDone : SUBSET {"gate"}, gateErrs : SUBSET {"gate"},
   stepsDone : Seq(StepNames), stepErrs : SUBSET StepNames, events : Seq(Events)]

\* y and z are the same but for where the execution is.
SameRecords(y, z) ==
  /\ y.ticket = z.ticket /\ y.errs = z.errs
  /\ y.gatesDone = z.gatesDone /\ y.gateErrs = z.gateErrs
  /\ y.stepsDone = z.stepsDone /\ y.stepErrs = z.stepErrs

At(y, pc, cur, idx, events) ==
  y.pc = pc /\ y.cur = cur /\ y.idx = idx /\ y.events = events

LEMMA SameState ==
  ASSUME NEW y \in EngineStates, NEW z \in EngineStates, SameRecords(y, z),
         At(y, z.pc, z.cur, z.idx, z.events)
  PROVE  y = z
BY DEF EngineStates, SameRecords, At

\* t is s with e at its end.
LEMMA AppendIs ==
  ASSUME NEW S, NEW s \in Seq(S), NEW e \in S, NEW t \in Seq(S),
         Len(t) = Len(s) + 1, t[Len(s) + 1] = e, \A i \in 1 .. Len(s) : t[i] = s[i]
  PROVE  Append(s, e) = t
<1>1. /\ Append(s, e) \in Seq(S)
      /\ Len(Append(s, e)) = Len(s) + 1
      /\ \A i \in 1 .. Len(s) : Append(s, e)[i] = s[i]
      /\ Append(s, e)[Len(s) + 1] = e
  BY AppendProperties
<1>2. \A i \in 1 .. Len(s) + 1 : Append(s, e)[i] = t[i]
  <2>1. Len(s) \in Nat
    OBVIOUS
  <2> QED
    BY <1>1, <2>1
<1> QED
  BY <1>1, <1>2, SeqEqual

LEMMA Appended ==
  ASSUME NEW a, NEW b, NEW c
  PROVE  /\ Append(<<>>, a) = <<a>>
         /\ Append(<<a>>, b) = <<a, b>>
         /\ Append(<<a, b>>, c) = <<a, b, c>>
<1> DEFINE one == <<a>>
           two == <<a, b>>
           three == <<a, b, c>>
<1>1. /\ one \in Seq({a, b, c}) /\ two \in Seq({a, b, c}) /\ three \in Seq({a, b, c})
      /\ Len(one) = 1 /\ Len(two) = 2 /\ Len(three) = 3
      /\ one[1] = a /\ two[1] = a /\ two[2] = b
      /\ three[1] = a /\ three[2] = b /\ three[3] = c
  OBVIOUS
<1> HIDE DEF one, two, three
<1>2. Append(one, b) = two /\ Append(two, c) = three
  <2>1. Len(two) = Len(one) + 1 /\ Len(three) = Len(two) + 1
    BY <1>1
  <2>2. /\ two[Len(one) + 1] = b /\ three[Len(two) + 1] = c
        /\ \A i \in 1 .. Len(one) : two[i] = one[i]
        /\ \A i \in 1 .. Len(two) : three[i] = two[i]
    BY <1>1
  <2>3. Append(one, b) = two
    BY <1>1, <2>1, <2>2, AppendIs
  <2>4. Append(two, c) = three
    BY <1>1, <2>1, <2>2, AppendIs
  <2> QED
    BY <2>3, <2>4
<1>3. Append(<<>>, a) = <<a>>
  OBVIOUS
<1> QED
  BY <1>2, <1>3 DEF one, two, three

LEMMA EventLists ==
  /\ <<>> \in Seq(Events) /\ <<"STARTED">> \in Seq(Events)
  /\ <<"STARTED", "COMPLETED">> \in Seq(Events)
  /\ \A e \in Events : <<"STARTED", "COMPLETED", e>> \in Seq(Events)
BY DEF Events

\* The outcome that is announced.
Announced(z) == IF z.errs = {} THEN "SUCCEEDED" ELSE "FAILED"

LEMMA FireIs ==
  ASSUME NEW z \in EngineStates, NEW e \in Events, NEW events \in Seq(Events),
         events = Append(z.events, e)
  PROVE  LET y == Engine!Fire(z, e)
         IN  y \in EngineStates /\ At(y, "handler", e, 1, events) /\ SameRecords(y, z)
<1> DEFINE y == Engine!Fire(z, e)
<1>1. y = [z EXCEPT !.pc = "handler", !.cur = e, !.idx = 1, !.events = events]
  BY DEF Engine!Fire
<1> HIDE DEF y
<1>2. y \in EngineStates /\ At(y, "handler", e, 1, events)
  BY <1>1 DEF EngineStates, At
<1>3. SameRecords(y, z)
  BY <1>1 DEF EngineStates, SameRecords
<1> QED
  BY <1>2, <1>3 DEF y

LEMMA NoHandlers ==
  ASSUME NEW e \in Events
  PROVE  [f \in {"STARTED", "COMPLETED", "SUCCEEDED", "FAILED"} |-> 0][e] = 0
BY DEF Events

LEMMA TerminalEventsAre ==
  ASSUME NEW z \in EngineStates, z.events = <<"STARTED">>
  PROVE  LET y == Engine!EmitTerminalEvents(z)
         IN  /\ y \in EngineStates
             /\ At(y, "returned", Announced(z), 1, <<"STARTED", "COMPLETED", Announced(z)>>)
             /\ SameRecords(y, z)
<1>1. PICK u, v, w, e : /\ u = Engine!Fire(z, "COMPLETED") /\ e = Announced(z)
                       /\ v = Engine!Fire(u, e) /\ w = Engine!Return(v)
  OBVIOUS
<1>2. e \in {"SUCCEEDED", "FAILED"} /\ e \in Events
  BY <1>1 DEF Announced, Events
<1>3. u \in EngineStates /\ u.events = <<"STARTED", "COMPLETED">> /\ SameRecords(u, z)
  <2>1. <<"STARTED", "COMPLETED">> = Append(z.events, "COMPLETED") /\ "COMPLETED" \in Events
    BY Appended DEF Events
  <2>2. /\ u \in EngineStates /\ SameRecords(u, z)
        /\ At(u, "handler", "COMPLETED", 1, <<"STARTED", "COMPLETED">>)
    BY <1>1, <2>1, FireIs, EventLists
  <2> QED
    BY <2>2 DEF At
<1>4. /\ v \in EngineStates /\ SameRecords(v, u)
      /\ At(v, "handler", e, 1, <<"STARTED", "COMPLETED", e>>)
  <2>1. <<"STARTED", "COMPLETED", e>> = Append(u.events, e)
    BY <1>3, Appended
  <2> QED
    BY <1>1, <1>2, <1>3, <2>1, FireIs, EventLists
<1>5. /\ w \in EngineStates /\ SameRecords(w, v)
      /\ At(w, "returned", e, 1, <<"STARTED", "COMPLETED", e>>)
  <2>1. w = [v EXCEPT !.pc = "returned"]
    BY <1>1 DEF Engine!Return
  <2>2. w \in EngineStates /\ w.pc = "returned" /\ w.cur = v.cur /\ w.idx = v.idx /\ w.events = v.events
    BY <1>4, <2>1 DEF EngineStates
  <2>3. SameRecords(w, v)
    BY <1>4, <2>1 DEF EngineStates, SameRecords
  <2> QED
    BY <1>4, <2>2, <2>3 DEF At
<1>6. Engine!EmitTerminalEvents(z) = w
  <2>1. Engine!EmitTerminalEvents(z) = Engine!EmitOutcome(u)
    <3>1. "COMPLETED" \in Events
      BY DEF Events
    <3> QED
      BY <1>1, <3>1, NoHandlers DEF Engine!EmitTerminalEvents
  <2>2. u.errs = z.errs
    BY <1>3 DEF SameRecords
  <2>3. e = IF u.errs = {} THEN "SUCCEEDED" ELSE "FAILED"
    BY <1>1, <2>2 DEF Announced
  <2>4. Engine!EmitOutcome(u) = w
    BY <1>1, <1>2, <2>3, NoHandlers DEF Engine!EmitOutcome
  <2> QED
    BY <2>1, <2>4
<1>7. SameRecords(w, z)
  BY <1>3, <1>4, <1>5 DEF SameRecords
<1> QED
  BY <1>1, <1>5, <1>6, <1>7

LEMMA PlacesAre ==
  /\ StepOrder \in Seq(StepNames) /\ Len(StepOrder) \in Nat \ {0}
  /\ DOMAIN StepOrder = 1 .. Len(StepOrder)
  /\ StepOrder[1] = "MG" /\ Position("MG") = 1 /\ "MG" \in Steps
  /\ Steps \subseteq StepNames
  /\ \A step \in Steps : /\ Position(step) \in 1 .. Len(StepOrder)
                         /\ StepOrder[Position(step)] = step
<1>1. \A q \in Seq(StepNames) : DOMAIN q = 1 .. Len(q) /\ \A i \in 1 .. Len(q) : q[i] \in StepNames
  OBVIOUS
<1>2. /\ StepOrder \in Seq(StepNames) /\ Len(StepOrder) \in Nat \ {0}
      /\ DOMAIN StepOrder = 1 .. Len(StepOrder)
      /\ Steps \subseteq StepNames
  BY <1>1, StepOrderIs DEF Steps, ToSet
<1>3. ASSUME NEW step \in Steps
      PROVE  Position(step) \in DOMAIN StepOrder /\ StepOrder[Position(step)] = step
  <2>1. \E i \in DOMAIN StepOrder : StepOrder[i] = step
    BY DEF Steps, ToSet
  <2> QED
    BY <2>1 DEF Position
<1> QED
  BY <1>2, <1>3, StepOrderIs, StepsAre, PositionIs

\* No step has two places.
LEMMA PositionOf ==
  ASSUME NEW i \in 1 .. Len(StepOrder)
  PROVE  Position(StepOrder[i]) = i
<1>1. CASE SnowInstance
  <2>1. i \in {1, 2, 3, 4, 5, 6, 7, 8, 9}
    BY <1>1, StepOrderIs
  <2> QED
    BY <1>1, <2>1, StepOrderIs, PositionIs
<1>2. CASE ~ SnowInstance
  <2>1. i \in {1, 2, 3, 4, 5, 6, 7, 8}
    BY <1>2, StepOrderIs
  <2> QED
    BY <1>2, <2>1, StepOrderIs, PositionIs
<1> QED
  BY <1>1, <1>2

LEMMA FirstSteps ==
  /\ SubSeq(StepOrder, 1, 0) = <<>>
  /\ \A i \in 1 .. Len(StepOrder) :
       /\ SubSeq(StepOrder, 1, i - 1) \in Seq(StepNames)
       /\ SubSeq(StepOrder, 1, i) \in Seq(StepNames)
       /\ Append(SubSeq(StepOrder, 1, i - 1), StepOrder[i]) = SubSeq(StepOrder, 1, i)
<1>1. ASSUME NEW n \in 0 .. Len(StepOrder)
      PROVE  /\ SubSeq(StepOrder, 1, n) \in Seq(StepNames)
             /\ Len(SubSeq(StepOrder, 1, n)) = n
             /\ \A k \in 1 .. n : SubSeq(StepOrder, 1, n)[k] = StepOrder[k]
  <2>1. \A k \in 1 .. n : StepOrder[k] \in StepNames
    BY PlacesAre
  <2>2. n \in Nat
    BY PlacesAre
  <2>3. SubSeq(StepOrder, 1, n) = [k \in 1 .. n |-> StepOrder[k]]
    BY <2>2
  <2> QED
    BY <2>1, <2>2, <2>3
<1>2. SubSeq(StepOrder, 1, 0) = <<>>
  <2>1. 0 \in 0 .. Len(StepOrder)
    BY PlacesAre
  <2> QED
    BY <1>1, <2>1, EmptySeq
<1>3. ASSUME NEW i \in 1 .. Len(StepOrder)
      PROVE  /\ SubSeq(StepOrder, 1, i - 1) \in Seq(StepNames)
             /\ SubSeq(StepOrder, 1, i) \in Seq(StepNames)
             /\ Append(SubSeq(StepOrder, 1, i - 1), StepOrder[i]) = SubSeq(StepOrder, 1, i)
  <2>1. i - 1 \in 0 .. Len(StepOrder) /\ i \in 0 .. Len(StepOrder) /\ (i - 1) + 1 = i
    BY PlacesAre
  <2>2. StepOrder[i] \in StepNames
    BY PlacesAre
  <2> DEFINE a == SubSeq(StepOrder, 1, i - 1)
             b == SubSeq(StepOrder, 1, i)
  <2>3. /\ a \in Seq(StepNames) /\ Len(a) = i - 1 /\ \A k \in 1 .. i - 1 : a[k] = StepOrder[k]
        /\ b \in Seq(StepNames) /\ Len(b) = i /\ \A k \in 1 .. i : b[k] = StepOrder[k]
    BY <1>1, <2>1
  <2> HIDE DEF a, b
  <2>4. Len(b) = Len(a) + 1 /\ b[Len(a) + 1] = StepOrder[i] /\ \A k \in 1 .. Len(a) : b[k] = a[k]
    BY <2>1, <2>3
  <2>5. Append(a, StepOrder[i]) = b
    BY <2>2, <2>3, <2>4, AppendIs
  <2> QED
    BY <2>3, <2>5 DEF a, b
<1> QED
  BY <1>2, <1>3

LEMMA AwaitIs ==
  ASSUME NEW z \in EngineStates, NEW i \in 1 .. Len(StepOrder)
  PROVE  LET y == Engine!AwaitStep(z, i)
         IN  y \in EngineStates /\ At(y, "step", StepOrder[i], i, z.events) /\ SameRecords(y, z)
<1> DEFINE y == Engine!AwaitStep(z, i)
<1>1. PICK step : step = StepOrder[i]
  OBVIOUS
<1>2. y = [z EXCEPT !.pc = "step", !.cur = step, !.idx = i]
  BY <1>1 DEF Engine!AwaitStep
<1>3. step \in StepNames /\ i \in Nat
  BY <1>1, PlacesAre
<1> HIDE DEF y
<1>4. y \in EngineStates /\ At(y, "step", step, i, z.events)
  BY <1>2, <1>3 DEF EngineStates, At
<1>5. SameRecords(y, z)
  BY <1>2 DEF EngineStates, SameRecords
<1> QED
  BY <1>1, <1>4, <1>5 DEF y

LEMMA RunStepsIs ==
  ASSUME NEW z \in EngineStates
  PROVE  LET y == Engine!RunSteps(z)
         IN  y \in EngineStates /\ At(y, "step", "MG", 1, z.events) /\ SameRecords(y, z)
<1>1. StepOrder # <<>> /\ 1 \in 1 .. Len(StepOrder)
  <2>1. Len(StepOrder) # 0
    BY PlacesAre
  <2>2. StepOrder # <<>>
    BY <2>1
  <2> QED
    BY <2>2, PlacesAre
<1>2. Engine!RunSteps(z) = Engine!AwaitStep(z, 1)
  BY <1>1 DEF Engine!RunSteps
<1> QED
  BY <1>1, <1>2, AwaitIs, PlacesAre
-------------------------------------------------------------------------------
(***************************************************************************)
(* Local states as the engine sees them                                    *)
(***************************************************************************)

\* What has been recorded.
Recorded(z, x, stepsDone) ==
  /\ z.ticket = x.cfg.ticket
  /\ z.errs = (IF "gate" \in x.errs THEN {"mentions"} ELSE {}) \cup
              (IF x.errs \cap Steps # {} THEN {"silent"} ELSE {})
  /\ z.gateErrs = x.errs \cap {"gate"} /\ z.stepErrs = x.errs \cap Steps
  /\ z.gatesDone = (x.plan \cup x.errs) \cap {"gate"}
  /\ z.stepsDone = stepsDone

LEMMA RecordedIs ==
  ASSUME NEW x \in RunState
  PROVE  LET z == EngineRun(x)
         IN  /\ Recorded(z, x, z.stepsDone)
             /\ z.ticket \in {Ticket, PreflightTicket, NoTicket}
             /\ z.errs \in SUBSET {"mentions", "silent"}
             /\ z.gatesDone \in SUBSET {"gate"} /\ z.gateErrs \in SUBSET {"gate"}
             /\ z.stepErrs \in SUBSET StepNames
<1>1. x.cfg.ticket \in {Ticket, PreflightTicket, NoTicket} /\ x.errs \subseteq {"gate"} \cup Steps
  BY DEF RunState, Config
<1> QED
  BY <1>1, PlacesAre DEF EngineRun, Recorded

LEMMA IsEngineState ==
  ASSUME NEW x \in RunState, NEW z, z = EngineRun(x),
         z.pc \in {"idle", "tags", "gate", "step", "returned"},
         z.cur \in StepNames \cup Events \cup {"gate", "none"}, z.idx \in Nat,
         z.stepsDone \in Seq(StepNames), z.events \in Seq(Events)
  PROVE  z \in EngineStates
<1>1. z = [pc |-> z.pc, cur |-> z.cur, idx |-> z.idx, ticket |-> z.ticket, errs |-> z.errs,
           gatesDone |-> z.gatesDone, gateErrs |-> z.gateErrs, stepsDone |-> z.stepsDone,
           stepErrs |-> z.stepErrs, events |-> z.events]
  BY DEF EngineRun
<1>2. /\ z.ticket \in {Ticket, PreflightTicket, NoTicket}
      /\ z.errs \in SUBSET {"mentions", "silent"}
      /\ z.gatesDone \in SUBSET {"gate"} /\ z.gateErrs \in SUBSET {"gate"}
      /\ z.stepErrs \in SUBSET StepNames
  BY RecordedIs
<1> QED
  BY <1>1, <1>2 DEF EngineStates

LEMMA EarlyIs ==
  ASSUME NEW x \in RunState, x.pc \in {"idle", "tags"}, x.errs = {}
  PROVE  LET z == EngineRun(x)
         IN  z \in EngineStates /\ At(z, x.pc, "none", 0, <<>>) /\ Recorded(z, x, <<>>)
<1>1. x.pc \notin Steps /\ x.pc # "returned" /\ x.pc # "gate"
  BY Unplaced
<1>2. EngineEvents(x) = <<>> /\ StepsPast(x) = 0
  BY <1>1 DEF EngineEvents, StepsPast
<1>3. PICK z : z = EngineRun(x)
  OBVIOUS
<1>4. /\ z.pc = x.pc /\ z.cur = "none" /\ z.idx = 0 /\ z.events = <<>>
      /\ z.stepsDone = <<>>
  <2>1. z.pc = x.pc /\ z.cur = "none" /\ z.idx = 0 /\ z.events = <<>>
    BY <1>1, <1>2, <1>3 DEF EngineRun
  <2>2. z.stepsDone = <<>>
    BY <1>2, <1>3, FirstSteps DEF EngineRun
  <2> QED
    BY <2>1, <2>2
<1>5. Recorded(z, x, <<>>)
  <2>1. Recorded(z, x, z.stepsDone)
    BY <1>3, RecordedIs
  <2> QED
    BY <1>4, <2>1
<1>6. z \in EngineStates
  <2>1. /\ z.pc \in {"idle", "tags", "gate", "step", "returned"}
        /\ z.cur \in StepNames \cup Events \cup {"gate", "none"} /\ z.idx \in Nat
    BY <1>4
  <2>2. z.stepsDone \in Seq(StepNames) /\ z.events \in Seq(Events)
    BY <1>4, EventLists
  <2> QED
    BY <1>3, <2>1, <2>2, IsEngineState
<1> QED
  BY <1>3, <1>4, <1>5, <1>6 DEF At

LEMMA AtGateIs ==
  ASSUME NEW x \in RunState, x.pc = "gate", x.errs = {}
  PROVE  LET z == EngineRun(x)
         IN  z \in EngineStates /\ At(z, "gate", "gate", x.idx, <<"STARTED">>) /\ Recorded(z, x, <<>>)
<1>1. x.pc \notin Steps
  BY Unplaced
<1>2. EngineEvents(x) = <<"STARTED">> /\ StepsPast(x) = 0
  BY <1>1 DEF EngineEvents, StepsPast
<1>3. PICK z : z = EngineRun(x)
  OBVIOUS
<1>4. /\ z.pc = "gate" /\ z.cur = "gate" /\ z.idx = x.idx /\ z.events = <<"STARTED">>
      /\ z.stepsDone = <<>>
  <2>1. z.pc = "gate" /\ z.cur = "gate" /\ z.idx = x.idx /\ z.events = <<"STARTED">>
    BY <1>1, <1>2, <1>3 DEF EngineRun
  <2>2. z.stepsDone = <<>>
    BY <1>2, <1>3, FirstSteps DEF EngineRun
  <2> QED
    BY <2>1, <2>2
<1>5. Recorded(z, x, <<>>)
  <2>1. Recorded(z, x, z.stepsDone)
    BY <1>3, RecordedIs
  <2> QED
    BY <1>4, <2>1
<1>6. z \in EngineStates
  <2>1. x.idx \in Nat
    BY DEF RunState
  <2>2. /\ z.pc \in {"idle", "tags", "gate", "step", "returned"}
        /\ z.cur \in StepNames \cup Events \cup {"gate", "none"} /\ z.idx \in Nat
    BY <1>4, <2>1
  <2>3. z.stepsDone \in Seq(StepNames) /\ z.events \in Seq(Events)
    BY <1>4, EventLists
  <2> QED
    BY <1>3, <2>2, <2>3, IsEngineState
<1> QED
  BY <1>3, <1>4, <1>5, <1>6 DEF At

LEMMA InStepIs ==
  ASSUME NEW x \in RunState, x.pc \in Steps, "gate" \notin x.errs
  PROVE  LET z == EngineRun(x)
         IN  /\ z \in EngineStates /\ At(z, "step", x.pc, Position(x.pc), <<"STARTED">>)
             /\ Recorded(z, x, SubSeq(StepOrder, 1, Position(x.pc) - 1))
<1>1. x.pc \notin {"idle", "tags", "gate", "returned"}
  BY Unplaced
<1>2. EngineEvents(x) = <<"STARTED">> /\ StepsPast(x) = Position(x.pc) - 1
  BY <1>1 DEF EngineEvents, StepsPast
<1>3. PICK z : z = EngineRun(x)
  OBVIOUS
<1>4. /\ z.pc = "step" /\ z.cur = x.pc /\ z.idx = Position(x.pc) /\ z.events = <<"STARTED">>
      /\ z.stepsDone = SubSeq(StepOrder, 1, Position(x.pc) - 1)
  BY <1>1, <1>2, <1>3 DEF EngineRun
<1>5. Recorded(z, x, SubSeq(StepOrder, 1, Position(x.pc) - 1))
  <2>1. Recorded(z, x, z.stepsDone)
    BY <1>3, RecordedIs
  <2> QED
    BY <1>4, <2>1
<1>6. z \in EngineStates
  <2>1. Position(x.pc) \in 1 .. Len(StepOrder) /\ x.pc \in StepNames
    BY PlacesAre
  <2>2. SubSeq(StepOrder, 1, Position(x.pc) - 1) \in Seq(StepNames)
    BY <2>1, FirstSteps
  <2>3. Position(x.pc) \in Nat
    BY <2>1
  <2> QED
    BY <1>3, <1>4, <2>1, <2>2, <2>3, IsEngineState, EventLists
<1> QED
  BY <1>3, <1>4, <1>5, <1>6 DEF At

LEMMA ReturnedIs ==
  ASSUME NEW x \in RunState, x.pc = "returned"
  PROVE  LET z == EngineRun(x)
             done == IF "gate" \in x.errs THEN <<>> ELSE SubSeq(StepOrder, 1, Len(StepOrder))
         IN  /\ z \in EngineStates
             /\ At(z, "returned", Announced(z), 1, <<"STARTED", "COMPLETED", Announced(z)>>)
             /\ Recorded(z, x, done)
<1>1. x.pc \notin Steps
  BY Unplaced
<1>2. PICK z, done, e :
        /\ z = EngineRun(x) /\ e = Announced(z)
        /\ done = IF "gate" \in x.errs THEN <<>> ELSE SubSeq(StepOrder, 1, Len(StepOrder))
  OBVIOUS
<1>3. e = IF Success(x) THEN "SUCCEEDED" ELSE "FAILED"
  <2>1. x.errs \subseteq {"gate"} \cup Steps
    BY DEF RunState
  <2>2. z.errs = (IF "gate" \in x.errs THEN {"mentions"} ELSE {}) \cup
                 (IF x.errs \cap Steps # {} THEN {"silent"} ELSE {})
    BY <1>2, RecordedIs DEF Recorded
  <2>3. x.errs = {} <=> "gate" \notin x.errs /\ x.errs \cap Steps = {}
    BY <2>1
  <2>4. z.errs = {} <=> x.errs = {}
    BY <2>2, <2>3
  <2> QED
    BY <1>2, <2>4 DEF Announced, Success
<1>4. /\ EngineEvents(x) = <<"STARTED", "COMPLETED", e>> /\ StepsPast(x) = Len(StepOrder)
      /\ EngineEvents(x)[3] = e
  BY <1>1, <1>3 DEF EngineEvents, StepsPast
<1>5. /\ z.pc = "returned" /\ z.cur = e /\ z.idx = 1 /\ z.events = <<"STARTED", "COMPLETED", e>>
      /\ z.stepsDone = done
  BY <1>1, <1>2, <1>4 DEF EngineRun
<1>6. Recorded(z, x, done)
  <2>1. Recorded(z, x, z.stepsDone)
    BY <1>2, RecordedIs
  <2> QED
    BY <1>5, <2>1
<1>7. z \in EngineStates
  <2>1. e \in Events
    BY <1>3 DEF Events
  <2>2. done \in Seq(StepNames)
    <3>1. Len(StepOrder) \in 1 .. Len(StepOrder)
      BY PlacesAre
    <3> QED
      BY <1>2, <3>1, FirstSteps
  <2>3. /\ z.pc \in {"idle", "tags", "gate", "step", "returned"}
        /\ z.cur \in StepNames \cup Events \cup {"gate", "none"} /\ z.idx \in Nat
        /\ z.stepsDone \in Seq(StepNames) /\ z.events \in Seq(Events)
    BY <1>5, <2>1, <2>2, EventLists
  <2> QED
    BY <1>2, <2>3, IsEngineState
<1> QED
  BY <1>2, <1>5, <1>6, <1>7 DEF At

-------------------------------------------------------------------------------
(***************************************************************************)
(* The gate loop                                                           *)
(***************************************************************************)

\* z is what the engine knows of x in its gate loop.
InLoop(z, x) ==
  /\ z \in EngineStates /\ x \in RunState
  /\ z.events = <<"STARTED">> /\ x.errs = {}
  /\ Recorded(z, x, <<>>)

\* At the gate in front of position n of the list.
AtGate(x, n) == [x EXCEPT !.pc = "gate", !.idx = n]

EngineAtGate(z, n) == [z EXCEPT !.pc = "gate", !.cur = "gate", !.idx = n]

\* Both come to a gate,
LEMMA ComesToGate ==
  ASSUME NEW z, NEW x, InLoop(z, x), NEW n \in Nat
  PROVE  EngineAtGate(z, n) = EngineRun(AtGate(x, n))
<1>1. PICK v, y : /\ v = [z EXCEPT !.pc = "gate", !.cur = "gate", !.idx = n]
                  /\ y = [x EXCEPT !.pc = "gate", !.idx = n]
  OBVIOUS
<1> SUFFICES v = EngineRun(y)
  BY <1>1 DEF AtGate, EngineAtGate
<1>2. /\ y \in RunState /\ y.pc = "gate" /\ y.idx = n /\ y.errs = {} /\ y.cfg = x.cfg
      /\ y.plan = x.plan
  BY <1>1 DEF InLoop, RunState
<1>3. v \in EngineStates /\ At(v, "gate", "gate", n, <<"STARTED">>)
  BY <1>1 DEF InLoop, EngineStates, At
<1>4. SameRecords(v, z)
  BY <1>1 DEF InLoop, EngineStates, SameRecords
<1>5. PICK u : u = EngineRun(y)
  OBVIOUS
<1>6. u \in EngineStates /\ At(u, "gate", "gate", n, <<"STARTED">>) /\ Recorded(u, y, <<>>)
  BY <1>2, <1>5, AtGateIs
<1>7. SameRecords(v, u) /\ At(v, u.pc, u.cur, u.idx, u.events)
  BY <1>2, <1>3, <1>4, <1>6 DEF InLoop, SameRecords, Recorded, At
<1> QED
  BY <1>1, <1>3, <1>5, <1>6, <1>7, SameState

\* or behind the list and to the first step.
LEMMA ComesToSteps ==
  ASSUME NEW z, NEW x, InLoop(z, x)
  PROVE  Engine!RunSteps(z) = EngineRun(FirstStep(x))
<1>1. PICK v, y, u : v = Engine!RunSteps(z) /\ y = FirstStep(x) /\ u = EngineRun(y)
  OBVIOUS
<1>2. /\ y \in RunState /\ y.pc = "MG" /\ y.errs = {} /\ y.cfg = x.cfg
      /\ y.plan = x.plan
  <2>1. y = [x EXCEPT !.pc = "MG", !.item = 1] /\ "MG" \in Steps
    BY <1>1, PlacesAre DEF FirstStep, Await
  <2> QED
    BY <2>1 DEF InLoop, RunState
<1>3. v \in EngineStates /\ At(v, "step", "MG", 1, <<"STARTED">>) /\ SameRecords(v, z)
  <2>1. z \in EngineStates /\ z.events = <<"STARTED">>
    BY DEF InLoop
  <2> QED
    BY <1>1, <2>1, RunStepsIs
<1>4. u \in EngineStates /\ At(u, "step", "MG", 1, <<"STARTED">>) /\ Recorded(u, y, <<>>)
  <2>1. y.pc \in Steps /\ "gate" \notin y.errs /\ Position(y.pc) = 1
    BY <1>2, PlacesAre
  <2>2. /\ u \in EngineStates /\ At(u, "step", "MG", 1, <<"STARTED">>)
        /\ Recorded(u, y, SubSeq(StepOrder, 1, 1 - 1))
    BY <1>1, <1>2, <2>1, InStepIs
  <2>3. SubSeq(StepOrder, 1, 1 - 1) = <<>>
    BY FirstSteps
  <2> QED
    BY <2>2, <2>3
<1>5. SameRecords(v, u) /\ At(v, u.pc, u.cur, u.idx, u.events)
  BY <1>2, <1>3, <1>4 DEF InLoop, SameRecords, Recorded, At
<1> QED
  BY <1>1, <1>3, <1>4, <1>5, SameState

\* Whatever preflights have put into the list, both loops stop at the same place and with the
\* same ticket.
LEMMA LoopIs ==
  ASSUME NEW z, NEW x, InLoop(z, x), NEW list, ListOk(list), NEW i \in Nat \ {0}
  PROVE  Engine!GateLoop(z, list, i) = EngineRun(GateLoop(x, list, i))
<1> DEFINE gates == {k \in i .. Len(list) : list[k] = "gate"}
           stop  == IF gates = {} THEN Len(list) + 1 ELSE Min(gates)
           cfg   == [x.cfg EXCEPT !.ticket = PreflightTicket]
           plan  == x.plan \cup {"ticket"}
           xy    == IF i < stop THEN [x EXCEPT !.cfg = cfg, !.plan = plan] ELSE x
           zy    == IF i < stop THEN [z EXCEPT !.ticket = PreflightTicket] ELSE z
<1>1. Len(list) \in Nat /\ list \in Lists /\ \A k \in 1 .. Len(list) : list[k] \in Runs \cup {"gate"}
  BY DEF ListOk, Lists
<1>2. gates \in SUBSET Nat
  BY <1>1
<1>3. /\ stop \in Nat
      /\ gates # {} => stop \in gates
      /\ i < stop => stop - 1 \in i .. Len(list) /\ stop - 1 \notin gates
  <2>1. CASE gates = {}
    <3>1. stop = Len(list) + 1
      BY <2>1
    <3> HIDE DEF gates, stop
    <3> QED
      BY <1>1, <2>1, <3>1
  <2>2. CASE gates # {}
    <3>1. stop \in gates /\ \A n \in gates : stop <= n
      BY <1>2, <2>2, LeastIs
    <3>2. stop \in i .. Len(list)
      BY <3>1
    <3> HIDE DEF gates, stop
    <3> QED
      BY <1>1, <3>1, <3>2
  <2> QED
    BY <2>1, <2>2
<1>4. i < stop => EngineRequests[list[stop - 1]].ticket = PreflightTicket
  <2>1. ASSUME i < stop PROVE list[stop - 1] \in Runs /\ kind[list[stop - 1]] = "preflight"
    <3>1. stop - 1 \in 1 .. Len(list) /\ list[stop - 1] # "gate"
      BY <1>1, <1>3, <2>1
    <3> QED
      BY <1>1, <3>1 DEF ListOk
  <2> QED
    BY <2>1 DEF EngineRequests
<1>5. gates # {} => list[stop] = "gate"
  BY <1>3
<1>6. GateLoop(x, list, i) =
        IF gates = {} THEN FirstStep(xy) ELSE AtGate(xy, stop + 1)
  <2>1. [x EXCEPT !.cfg.ticket = PreflightTicket, !.plan = @ \cup {"ticket"}]
        = [x EXCEPT !.cfg = cfg, !.plan = plan]
    BY DEF InLoop, RunState
  <2> QED
    BY <2>1 DEF GateLoop, AtGate
<1>7. Engine!GateLoop(z, list, i) =
        IF gates = {} THEN Engine!RunSteps(zy) ELSE EngineAtGate(zy, stop + 1)
  <2>1. Engine!GatePositions(list, i) = gates
    BY DEF Engine!GatePositions
  <2>2. Engine!Min(gates) = Min(gates)
    BY DEF Engine!Min, Min
  <2> DEFINE zz == IF i < stop THEN [z EXCEPT !.ticket = EngineRequests[list[stop - 1]].ticket] ELSE z
  <2>3. Engine!GateLoop(z, list, i) =
          IF gates = {} THEN Engine!RunSteps(zz)
          ELSE [zz EXCEPT !.pc = "gate", !.cur = list[stop], !.idx = stop + 1]
    BY <2>1, <2>2, Zenon DEF Engine!GateLoop
  <2>4. zz = zy
    BY <1>4
  <2> HIDE DEF gates, stop, zz, zy
  <2> QED
    BY <1>5, <2>3, <2>4 DEF EngineAtGate
<1> HIDE DEF gates, stop
<1>8. x.cfg \in Config /\ cfg \in Config /\ cfg.ticket = PreflightTicket
  BY DEF InLoop, RunState, Config
<1>9. plan \in SUBSET ({"ticket", "gate"} \cup Steps) /\ plan \cap {"gate"} = x.plan \cap {"gate"}
  BY DEF InLoop, RunState
<1> HIDE DEF cfg, plan
<1>10. InLoop(zy, xy)
  <2>1. CASE i < stop
    <3>1. xy = [x EXCEPT !.cfg = cfg, !.plan = plan] /\ zy = [z EXCEPT !.ticket = PreflightTicket]
      BY <2>1
    <3> HIDE DEF xy, zy
    <3>2. xy \in RunState /\ xy.cfg = cfg /\ xy.plan = plan /\ xy.errs = {}
      BY <1>8, <1>9, <3>1 DEF InLoop, RunState
    <3>3. /\ zy \in EngineStates /\ zy.events = <<"STARTED">> /\ zy.ticket = PreflightTicket
          /\ zy.errs = z.errs /\ zy.gatesDone = z.gatesDone /\ zy.gateErrs = z.gateErrs
          /\ zy.stepErrs = z.stepErrs /\ zy.stepsDone = z.stepsDone
      BY <3>1 DEF InLoop, EngineStates
    <3>4. Recorded(zy, xy, <<>>)
      BY <1>8, <1>9, <3>2, <3>3 DEF InLoop, Recorded
    <3> QED
      BY <3>2, <3>3, <3>4 DEF InLoop
  <2>2. CASE ~ (i < stop)
    BY <2>2
  <2> QED
    BY <2>1, <2>2
<1> HIDE DEF xy, zy
<1>11. CASE gates = {}
  <2>1. Engine!RunSteps(zy) = EngineRun(FirstStep(xy))
    BY <1>10, ComesToSteps
  <2> QED
    BY <1>6, <1>7, <1>11, <2>1
<1>12. CASE gates # {}
  <2>1. PICK n : n = stop + 1
    OBVIOUS
  <2>2. n \in Nat
    BY <1>3, <2>1
  <2>3. EngineAtGate(zy, n) = EngineRun(AtGate(xy, n))
    BY <1>10, <2>2, ComesToGate
  <2> QED
    BY <1>6, <1>7, <1>12, <2>1, <2>3
<1> QED
  BY <1>11, <1>12

\* An execution announces that it starts and goes into its gate loop.
LEMMA EngineStarts ==
  ASSUME NEW u \in EngineStates, u.events = <<>>, NEW w \in RunState, w.errs = {},
         Recorded(u, w, <<>>), NEW list, ListOk(list)
  PROVE  Engine!EmitStarted(u, list) = EngineRun(GateLoop(w, list, 1))
<1>1. PICK v : v = Engine!Fire(u, "STARTED")
  OBVIOUS
<1>2. <<"STARTED">> = Append(u.events, "STARTED") /\ "STARTED" \in Events
  BY Appended DEF Events
<1>3. v \in EngineStates /\ SameRecords(v, u) /\ At(v, "handler", "STARTED", 1, <<"STARTED">>)
  BY <1>1, <1>2, FireIs, EventLists
<1>4. Engine!EmitStarted(u, list) = Engine!GateLoop(v, list, 1)
  BY <1>1, <1>2, NoHandlers DEF Engine!EmitStarted
<1>5. InLoop(v, w)
  BY <1>3 DEF InLoop, At, SameRecords, Recorded
<1>6. Engine!GateLoop(v, list, 1) = EngineRun(GateLoop(w, list, 1))
  <2>1. 1 \in Nat \ {0}
    OBVIOUS
  <2> QED
    BY <1>5, <2>1, LoopIs
<1> QED
  BY <1>4, <1>6

-------------------------------------------------------------------------------
(***************************************************************************)
(* One against the other                                                   *)
(***************************************************************************)

LEMMA SameRemoval ==
  ASSUME NEW list \in Lists, NEW r
  PROVE  Engine!Uninject(list, r) = RemoveFirst(list, r)
<1>1. \A S : Engine!Min(S) = Min(S)
  BY DEF Engine!Min, Min
<1>2. Engine!SelectInSeq(list, LAMBDA v : v = r) = SelectInSeq(list, LAMBDA v : v = r)
  BY <1>1 DEF Engine!SelectInSeq, SelectInSeq
<1>3. \A i : Engine!RemoveAt(list, i) = RemoveAt(list, i)
  BY DEF Engine!RemoveAt, RemoveAt
<1> QED
  BY <1>2, <1>3 DEF Engine!Uninject, Engine!RemoveFirst, RemoveFirst

LEMMA SameRequests ==
  ASSUME kind' = kind
  PROVE  /\ EngineRequests' = EngineRequests
         /\ \A s : WithExtensions(s)' <=> WithExtensions(s)
BY DEF EngineRequests, WithExtensions

\* Execution r of the service is one of the engine, and ends in it as it does here.
LEMMA RunsCommit ==
  ASSUME ProvInv, NEW r \in Runs, WithExtensions(r), NEW y \in RunState, NEW list \in Lists,
         Commit(r, y, list), kind' = kind
  PROVE  /\ EngineRuns[r] = EngineRun(run[r])
         /\ Engine!Commit(r, EngineRun(y), list)
<1>1. run \in [Runs -> RunState] /\ run' = [run EXCEPT ![r] = y]
  BY DEF ProvInv, CoreTypes, Commit
<1>2. EngineRuns' = [s \in Runs |-> EngineRun(IF WithExtensions(s) THEN run'[s] ELSE Fresh)]
  BY SameRequests DEF EngineRuns
<1>3. EngineRuns[r] = EngineRun(run[r])
  BY DEF EngineRuns
<1>4. EngineRuns' = [EngineRuns EXCEPT ![r] = EngineRun(y)]
  <2>1. \A s \in Runs : EngineRuns'[s] = IF s = r THEN EngineRun(y) ELSE EngineRuns[s]
    <3>1. run'[r] = y /\ \A s \in Runs \ {r} : run'[s] = run[s]
      BY <1>1
    <3>2. \A s \in Runs : EngineRuns'[s] = EngineRun(IF WithExtensions(s) THEN run'[s] ELSE Fresh)
      BY <1>2
    <3>3. \A s \in Runs : EngineRuns[s] = EngineRun(IF WithExtensions(s) THEN run[s] ELSE Fresh)
      BY DEF EngineRuns
    <3> QED
      BY <3>1, <3>2, <3>3
  <2>2. EngineRuns = [s \in Runs |-> EngineRuns[s]] /\ EngineRuns' = [s \in Runs |-> EngineRuns'[s]]
    BY <1>2 DEF EngineRuns
  <2> QED
    BY <2>1, <2>2
<1>5. Engine!Over(EngineRun(y)) <=> y.pc = "returned"
  <2>1. y.pc \in {"idle", "tags", "gate", "returned"} \cup Steps
    BY DEF RunState
  <2>2. EngineRun(y).pc = IF y.pc \in Steps THEN "step" ELSE y.pc
    BY DEF EngineRun
  <2> QED
    BY <2>1, <2>2, Unplaced DEF Engine!Over
<1>6. gateSteps' = IF Engine!Over(EngineRun(y)) THEN Engine!Uninject(list, r) ELSE list
  BY <1>5, SameRemoval DEF Commit
<1> QED
  BY <1>3, <1>4, <1>6, SameRequests DEF Engine!Commit

LEMMA SameTouch ==
  ASSUME NEW r \in Runs, WithExtensions(r), NEW list
  PROVE  /\ Engine!InjectedByOther(r, list) <=> Meets(r, list)
         /\ Touch(r, list) => Engine!Touch(r, list)
BY DEF Engine!InjectedByOther, Meets, Touch, Engine!Touch

\* WorkflowEngine.run is called and suspends in the tag read.
LEMMA EngineReceives ==
  ASSUME ProvInv, GateInv, KnownInv, NEW r \in Runs, WithExtensions(r), StartProvision(r)
  PROVE  Engine!ReceiveProvision(r)
<1>1. PICK x, y : /\ x = run[r] /\ y \in RunState
                  /\ LeavesIdle(r, x, y) /\ run' = [run EXCEPT ![r] = y]
  BY StartMoves
<1>2. /\ x \in RunState /\ y \in RunState
      /\ x.pc = "idle" /\ ~ Dry(r) /\ x.errs = {} /\ "gate" \notin x.plan
      /\ y.pc = "tags" /\ y.errs = {} /\ y.cfg = x.cfg /\ y.plan = x.plan
  <2>1. x \in RunState /\ Known(r, x)
    BY <1>1, MovingRun DEF KnownInv
  <2> QED
    BY <1>1, <2>1 DEF LeavesIdle, Known, RunState
<1>3. PICK u, z : u = EngineRun(x) /\ z = EngineRun(y)
  OBVIOUS
<1>4. /\ u \in EngineStates /\ At(u, "idle", "none", 0, <<>>) /\ Recorded(u, x, <<>>)
      /\ z \in EngineStates /\ At(z, "tags", "none", 0, <<>>) /\ Recorded(z, y, <<>>)
  BY <1>2, <1>3, EarlyIs
<1>5. z = [u EXCEPT !.pc = "tags"]
  <2>1. PICK w : w = [u EXCEPT !.pc = "tags"]
    OBVIOUS
  <2>2. /\ w \in EngineStates /\ w.pc = "tags" /\ w.cur = u.cur /\ w.idx = u.idx
        /\ w.events = u.events
    BY <1>4, <2>1 DEF EngineStates
  <2>3. SameRecords(w, u)
    BY <1>4, <2>1 DEF EngineStates, SameRecords
  <2>4. SameRecords(w, z)
    BY <1>2, <1>4, <2>3 DEF SameRecords, Recorded
  <2>5. At(w, z.pc, z.cur, z.idx, z.events)
    BY <1>4, <2>2 DEF At
  <2> QED
    BY <1>4, <2>1, <2>2, <2>4, <2>5, SameState
<1>6. /\ kind' = kind /\ gateSteps \in Lists /\ UNCHANGED overlapped
      /\ Commit(r, y, gateSteps)
  BY <1>1, <1>2 DEF StartProvision, GateInv, ListOk, Commit
<1>7. EngineRuns[r] = u /\ Engine!Commit(r, z, gateSteps)
  BY <1>1, <1>3, <1>6, RunsCommit
<1>8. EngineRequests[r].kind = "provision"
  BY <1>2 DEF EngineRequests, Dry
<1>9. u.pc = "idle"
  BY <1>4 DEF At
<1> QED
  BY <1>5, <1>6, <1>7, <1>8, <1>9 DEF Engine!ReceiveProvision

\* The engine starts execution x with the ticket it has, or gets from the tags.
StartsWith(x, z, list) ==
  \E t : /\ IF x.pc = "tags" THEN t \in {Ticket, NoTicket} ELSE t = x.cfg.ticket
         /\ z = Engine!EmitStarted([EngineRun(x) EXCEPT !.ticket = t], list)

\* What the engine does once it has the configuration.
LEMMA BeginsInEngine ==
  ASSUME NEW r \in Runs, WithExtensions(r), NEW x \in RunState, NEW y, Known(r, x),
         NEW list, ListOk(list), Begins(r, x, y, list)
  PROVE  /\ EngineRun(x) \in EngineStates
         /\ EngineRun(x).pc = x.pc /\ EngineRun(x).ticket = x.cfg.ticket
         /\ StartsWith(x, EngineRun(y), list)
<1>1. PICK w \in RunState :
        /\ w.errs = x.errs /\ w.plan = x.plan
        /\ \/ x.pc = "tags" /\ w.cfg.ticket \in {Ticket, NoTicket}
           \/ x.pc = "idle" /\ Dry(r) /\ w.cfg = x.cfg
        /\ y = Started(r, w, list)
  BY DEF Begins
<1>2. PICK u, t, v : u = EngineRun(x) /\ t = w.cfg.ticket /\ v = [u EXCEPT !.ticket = t]
  OBVIOUS
<1>3. x.pc \in {"idle", "tags"} /\ x.errs = {}
  BY <1>1 DEF Known
<1>4. u \in EngineStates /\ At(u, x.pc, "none", 0, <<>>) /\ Recorded(u, x, <<>>)
  BY <1>2, <1>3, EarlyIs
<1>5. t \in {Ticket, PreflightTicket, NoTicket}
  BY <1>2 DEF RunState, Config
<1>6. /\ v \in EngineStates /\ v.events = <<>> /\ v.ticket = t /\ v.errs = u.errs
      /\ v.gateErrs = u.gateErrs /\ v.stepErrs = u.stepErrs /\ v.gatesDone = u.gatesDone
      /\ v.stepsDone = u.stepsDone
  BY <1>2, <1>4, <1>5 DEF EngineStates, At
<1>7. Recorded(v, w, <<>>)
  BY <1>1, <1>2, <1>4, <1>6 DEF Recorded
<1>8. y = GateLoop(w, list, 1)
  BY <1>1 DEF Started
<1>9. EngineRun(y) = Engine!EmitStarted(v, list)
  BY <1>1, <1>3, <1>6, <1>7, <1>8, EngineStarts
<1>10. IF x.pc = "tags" THEN t \in {Ticket, NoTicket} ELSE t = x.cfg.ticket
  BY <1>1, <1>2
<1>11. u.pc = x.pc /\ u.ticket = x.cfg.ticket
  BY <1>4 DEF At, Recorded
<1> QED
  BY <1>2, <1>4, <1>9, <1>10, <1>11 DEF StartsWith

LEMMA EngineReadsTags ==
  ASSUME ProvInv, GateInv, KnownInv, NEW r \in Runs, WithExtensions(r), ReadTags(r)
  PROVE  Engine!ReadTags(r)
<1>1. PICK x, list : x = run[r] /\ list = gateSteps
  OBVIOUS
<1>2. /\ list \in Lists /\ ListOk(list) /\ x \in RunState /\ Known(r, x)
      /\ x.pc = "tags" /\ kind' = kind /\ Touch(r, list)
  BY <1>1, MovingRun DEF GateInv, ListOk, KnownInv, ReadTags, env
<1>3. PICK y \in RunState : Begins(r, x, y, list) /\ Commit(r, y, list)
  BY <1>1, <1>2, ReadTagsMoves
<1>4. PICK u, z : u = EngineRun(x) /\ z = EngineRun(y)
  OBVIOUS
<1>5. PICK t : /\ IF x.pc = "tags" THEN t \in {Ticket, NoTicket} ELSE t = x.cfg.ticket
               /\ z = Engine!EmitStarted([u EXCEPT !.ticket = t], list)
  <2>1. StartsWith(x, EngineRun(y), list)
    BY <1>2, <1>3, BeginsInEngine
  <2> QED
    BY <1>4, <2>1 DEF StartsWith
<1>6. u.pc = "tags"
  BY <1>2, <1>3, <1>4, BeginsInEngine
<1>7. EngineRuns[r] = u /\ Engine!Commit(r, z, list)
  BY <1>1, <1>2, <1>3, <1>4, RunsCommit
<1>8. EngineRequests[r].ticket = Ticket
  <2>1. ~ Dry(r)
    BY <1>2 DEF Known
  <2> QED
    BY <2>1 DEF EngineRequests, Dry
<1>9. Engine!Touch(r, list)
  BY <1>2, SameTouch
<1> QED
  BY <1>1, <1>2, <1>5, <1>6, <1>7, <1>8, <1>9 DEF Engine!ReadTags

\* A dry run goes by the configuration it has, and so does a preflight behind its entry.
LEMMA DryRunInEngine ==
  ASSUME ProvInv, GateInv, KnownInv, NEW r \in Runs, WithExtensions(r), run[r].pc = "idle",
         Dry(r), kind' = kind, NEW list \in Lists, ListOk(list),
         Commit(r, Started(r, run[r], list), list)
  PROVE  /\ EngineRuns[r].pc = "idle"
         /\ Engine!Commit(r, Engine!EmitStarted(EngineRuns[r], list), list)
<1>1. run[r] \in RunState /\ Known(r, run[r])
  BY MovingRun DEF KnownInv
<1>2. PICK y \in RunState : Begins(r, run[r], y, list) /\ Commit(r, y, list)
  BY DryRunMoves
<1>3. PICK u, z : u = EngineRun(run[r]) /\ z = EngineRun(y)
  OBVIOUS
<1>4. PICK t : /\ t = run[r].cfg.ticket /\ u \in EngineStates /\ u.pc = "idle" /\ u.ticket = t
               /\ z = Engine!EmitStarted([u EXCEPT !.ticket = t], list)
  <2>1. /\ u \in EngineStates /\ u.pc = run[r].pc /\ u.ticket = run[r].cfg.ticket
        /\ StartsWith(run[r], EngineRun(y), list)
    BY <1>1, <1>2, <1>3, BeginsInEngine
  <2>2. run[r].pc # "tags"
    OBVIOUS
  <2> QED
    BY <1>3, <2>1, <2>2 DEF StartsWith
<1>5. [u EXCEPT !.ticket = t] = u
  BY <1>4 DEF EngineStates
<1>6. EngineRuns[r] = u /\ Engine!Commit(r, z, list)
  BY <1>2, <1>3, RunsCommit
<1> QED
  BY <1>4, <1>5, <1>6

LEMMA EngineReceivesDryRun ==
  ASSUME ProvInv, GateInv, KnownInv, NEW r \in Runs, StartDryRun(r)
  PROVE  Engine!ReceiveDryRun(r)
<1>1. /\ gateSteps \in Lists /\ ListOk(gateSteps) /\ run[r].pc = "idle" /\ Dry(r) /\ ~ Injects(r)
      /\ kind' = kind /\ Touch(r, gateSteps)
      /\ Commit(r, Started(r, run[r], gateSteps), gateSteps)
  BY DEF GateInv, ListOk, StartDryRun, env
<1>2. WithExtensions(r)
  BY <1>1 DEF Dry, WithExtensions
<1>3. /\ EngineRuns[r].pc = "idle"
      /\ Engine!Commit(r, Engine!EmitStarted(EngineRuns[r], gateSteps), gateSteps)
  BY <1>1, <1>2, DryRunInEngine
<1>4. \/ EngineRequests[r].kind = "dry_run"
      \/ EngineRequests[r].kind = "preflight" /\ EngineRequests[r].ticket = NoTicket
  BY <1>1 DEF Dry, Injects, EngineRequests
<1>5. Engine!Touch(r, gateSteps)
  BY <1>1, <1>2, SameTouch
<1> QED
  BY <1>3, <1>4, <1>5 DEF Engine!ReceiveDryRun

\* An execution is suspended in a gate of the engine when it is in the gate here.
LEMMA SameWaiting ==
  ASSUME ProvInv, NEW s \in Runs
  PROVE  EngineRuns[s].pc = "gate" <=> run[s].pc = "gate"
<1>1. \A x : EngineRun(x).pc = IF x.pc \in Steps THEN "step" ELSE x.pc
  BY DEF EngineRun
<1>2. CASE WithExtensions(s)
  <2>1. EngineRuns[s] = EngineRun(run[s])
    BY <1>2 DEF EngineRuns
  <2> QED
    BY <1>1, <2>1, Unplaced
<1>3. CASE ~ WithExtensions(s)
  <2>1. EngineRuns[s] = EngineRun(Fresh) /\ Fresh.pc = "idle"
    BY <1>3 DEF EngineRuns, Fresh
  <2>2. run[s].pc # "gate"
    BY <1>3 DEF ProvInv, PlaceInv, PlaceOk
  <2> QED
    BY <1>1, <2>1, <2>2, Unplaced
<1> QED
  BY <1>2, <1>3

LEMMA EngineReceivesPreflight ==
  ASSUME ProvInv, GateInv, KnownInv, NEW r \in Runs, StartPreflight(r)
  PROVE  Engine!ReceivePreflight(r)
<1>1. PICK list : list = <<r>> \o gateSteps
  OBVIOUS
<1>2. /\ ListOk(gateSteps) /\ gateSteps \in Lists /\ run[r].pc = "idle" /\ Injects(r)
      /\ kind' = kind /\ Commit(r, Started(r, run[r], list), list)
      /\ overlapped' = overlapped \cup {s \in Runs : run[s].pc = "gate"}
                         \cup (IF Meets(r, list) THEN {r} ELSE {})
  BY <1>1 DEF GateInv, ListOk, StartPreflight, env
<1>3. WithExtensions(r) /\ Dry(r) /\ kind[r] = "preflight"
  BY <1>2 DEF Injects, Dry, WithExtensions
<1>4. list \in Lists /\ ListOk(list)
  <2>1. /\ list \in Lists /\ Len(list) = Len(gateSteps) + 1 /\ list[1] = r
        /\ \A k \in 1 .. Len(gateSteps) : list[k + 1] = gateSteps[k]
    BY <1>1, <1>2, InsertedIs
  <2>2. Len(gateSteps) \in Nat
    BY <1>2 DEF Lists
  <2>3. ASSUME NEW k \in 1 .. Len(list), list[k] # "gate" PROVE kind[list[k]] = "preflight"
    <3>1. CASE k = 1
      BY <1>3, <2>1, <3>1
    <3>2. CASE k # 1
      <4>1. k - 1 \in 1 .. Len(gateSteps) /\ (k - 1) + 1 = k
        BY <2>1, <2>2, <3>2
      <4>2. list[k] = gateSteps[k - 1]
        BY <2>1, <4>1
      <4> QED
        BY <1>2, <2>3, <4>1, <4>2 DEF ListOk
    <3> QED
      BY <3>1, <3>2
  <2>4. SnowInstance => Len(list) > 0 /\ list[Len(list)] = "gate"
    <3>1. ASSUME SnowInstance PROVE Len(list) > 0 /\ list[Len(list)] = "gate"
      <4>1. Len(gateSteps) \in 1 .. Len(gateSteps) /\ gateSteps[Len(gateSteps)] = "gate"
        BY <1>2, <2>2, <3>1 DEF ListOk
      <4> QED
        BY <2>1, <2>2, <4>1
    <3> QED
      BY <3>1
  <2> QED
    BY <2>1, <2>3, <2>4 DEF ListOk
<1>5. /\ EngineRuns[r].pc = "idle"
      /\ Engine!Commit(r, Engine!EmitStarted(EngineRuns[r], list), list)
  BY <1>2, <1>3, <1>4, DryRunInEngine
<1>6. EngineRequests[r].kind = "preflight" /\ EngineRequests[r].ticket # NoTicket
  BY <1>2, <1>3 DEF Injects, EngineRequests
<1>7. overlapped' = overlapped \cup {s \in Runs : EngineRuns[s].pc = "gate"}
                      \cup (IF Engine!InjectedByOther(r, list) THEN {r} ELSE {})
  <2>1. {s \in Runs : EngineRuns[s].pc = "gate"} = {s \in Runs : run[s].pc = "gate"}
    BY SameWaiting
  <2>2. Engine!InjectedByOther(r, list) <=> Meets(r, list)
    BY <1>3, SameTouch
  <2> QED
    BY <1>2, <2>1, <2>2
<1> QED
  BY <1>1, <1>5, <1>6, <1>7 DEF Engine!ReceivePreflight

\* A gate or a step is over: what it leaves in the state, before the engine goes on.
LEMMA RecordIs ==
  ASSUME NEW u \in EngineStates, NEW e \in {"ok", "mentions", "silent"}
  PROVE  LET w == Engine!Record(u, e)
         IN  /\ w \in EngineStates /\ w.errs = u.errs \cup ({e} \ {"ok"})
             /\ w.gateErrs = u.gateErrs /\ w.stepErrs = u.stepErrs /\ w.ticket = u.ticket
             /\ w.gatesDone = u.gatesDone /\ w.stepsDone = u.stepsDone
             /\ At(w, u.pc, u.cur, u.idx, u.events)
<1>1. CASE e = "ok"
  BY <1>1 DEF Engine!Record, At
<1>2. CASE e # "ok"
  <2>1. PICK w, errs : w = [u EXCEPT !.errs = errs] /\ errs = u.errs \cup {e}
    OBVIOUS
  <2>2. Engine!Record(u, e) = w
    BY <1>2, <2>1 DEF Engine!Record
  <2>3. errs \in SUBSET {"mentions", "silent"}
    BY <1>2, <2>1 DEF EngineStates
  <2>4. w \in EngineStates /\ w.errs = errs /\ At(w, u.pc, u.cur, u.idx, u.events)
    BY <2>1, <2>3 DEF EngineStates, At
  <2>5. /\ w.gateErrs = u.gateErrs /\ w.stepErrs = u.stepErrs /\ w.ticket = u.ticket
        /\ w.gatesDone = u.gatesDone /\ w.stepsDone = u.stepsDone
    BY <2>1 DEF EngineStates
  <2> QED
    BY <1>2, <2>1, <2>2, <2>4, <2>5
<1> QED
  BY <1>1, <1>2

\* The gate lets the execution back into the loop, or ends it.
LEMMA EngineGates ==
  ASSUME ProvInv, GateInv, KnownInv, NEW r \in Runs, WithExtensions(r), Gate(r)
  PROVE  Engine!GateEnds(r)
<1>1. PICK x : x = run[r]
  OBVIOUS
<1>2. /\ x \in RunState /\ x.pc = "gate" /\ x.errs = {} /\ x.idx \in Nat \ {0}
      /\ ListOk(gateSteps) /\ gateSteps \in Lists /\ kind' = kind /\ Touch(r, gateSteps)
  <2>1. x \in RunState /\ x.pc = "gate" /\ Known(r, x) /\ PlaceOk(r, x)
    BY <1>1, MovingRun DEF Gate, KnownInv, ProvInv, PlaceInv
  <2> QED
    BY <2>1 DEF Known, PlaceOk, Gate, GateInv, ListOk, env
<1>3. PICK y \in RunState : LeavesGate(x, y, gateSteps) /\ Commit(r, y, gateSteps)
  BY <1>1, <1>2, GateMovesOn
<1>4. PICK u, z : u = EngineRun(x) /\ z = EngineRun(y)
  OBVIOUS
<1>5. u \in EngineStates /\ At(u, "gate", "gate", x.idx, <<"STARTED">>) /\ Recorded(u, x, <<>>)
  BY <1>2, <1>4, AtGateIs
<1>6. /\ EngineRuns[r] = u /\ u.pc = "gate" /\ u.cur = "gate" /\ u.ticket = x.cfg.ticket
      /\ Engine!Commit(r, z, gateSteps) /\ Engine!Touch(r, gateSteps)
  BY <1>1, <1>2, <1>3, <1>4, <1>5, RunsCommit, SameTouch DEF At, Recorded
\* What the engine records of an outcome.
<1> DEFINE Ended_(e) == [Engine!Record(u, e) EXCEPT
                          !.gatesDone = @ \cup {"gate"},
                          !.gateErrs = IF e = "ok" THEN @ ELSE @ \cup {"gate"}]
<1>7. ASSUME NEW e \in {"ok", "mentions"}, NEW w, w = Ended_(e)
      PROVE  /\ w \in EngineStates /\ w.errs = {e} \ {"ok"} /\ w.gatesDone = {"gate"}
             /\ w.gateErrs = IF e = "ok" THEN {} ELSE {"gate"}
             /\ w.stepErrs = {} /\ w.stepsDone = <<>> /\ w.ticket = x.cfg.ticket
             /\ At(w, "gate", "gate", x.idx, <<"STARTED">>)
  <2>1. u.errs = {} /\ u.gateErrs = {} /\ u.stepErrs = {} /\ u.stepsDone = <<>>
        /\ u.gatesDone \subseteq {"gate"} /\ u.ticket = x.cfg.ticket
    BY <1>2, <1>5 DEF Recorded
  <2>2. PICK v : v = Engine!Record(u, e)
    OBVIOUS
  <2>3. /\ v \in EngineStates /\ v.errs = {e} \ {"ok"} /\ v.stepErrs = {} /\ v.stepsDone = <<>>
        /\ v.ticket = x.cfg.ticket /\ v.gateErrs = {} /\ v.gatesDone \subseteq {"gate"}
        /\ At(v, "gate", "gate", x.idx, <<"STARTED">>)
    <3>1. /\ v \in EngineStates /\ v.errs = u.errs \cup ({e} \ {"ok"})
          /\ v.gateErrs = u.gateErrs /\ v.stepErrs = u.stepErrs /\ v.ticket = u.ticket
          /\ v.gatesDone = u.gatesDone /\ v.stepsDone = u.stepsDone
          /\ At(v, u.pc, u.cur, u.idx, u.events)
      BY <1>5, <2>2, RecordIs
    <3> QED
      BY <1>5, <2>1, <3>1 DEF At
  <2>4. PICK ge : ge = IF e = "ok" THEN {} ELSE {"gate"}
    OBVIOUS
  <2>5. w = [v EXCEPT !.gatesDone = {"gate"}, !.gateErrs = ge] /\ ge \in SUBSET {"gate"}
    <3>1. /\ v.gatesDone \cup {"gate"} = {"gate"}
          /\ (IF e = "ok" THEN v.gateErrs ELSE v.gateErrs \cup {"gate"}) = ge
      BY <2>3, <2>4
    <3> QED
      BY <1>7, <2>2, <2>4, <3>1
  <2>6. w \in EngineStates /\ w.gatesDone = {"gate"} /\ w.gateErrs = ge
    BY <2>3, <2>5 DEF EngineStates
  <2>7. /\ w.errs = v.errs /\ w.stepErrs = v.stepErrs /\ w.stepsDone = v.stepsDone
        /\ w.ticket = v.ticket /\ At(w, v.pc, v.cur, v.idx, v.events)
    BY <2>3, <2>5 DEF EngineStates, At
  <2> QED
    BY <2>3, <2>4, <2>6, <2>7 DEF At
<1>8. CASE x.cfg.ticket \in Approved /\ y = GateLoop([x EXCEPT !.plan = @ \cup {"gate"}], gateSteps, x.idx)
  <2>1. PICK w, xp : w = Ended_("ok") /\ xp = [x EXCEPT !.plan = @ \cup {"gate"}]
    OBVIOUS
  <2>2. /\ w \in EngineStates /\ w.errs = {} /\ w.gatesDone = {"gate"} /\ w.gateErrs = {}
        /\ w.stepErrs = {} /\ w.stepsDone = <<>> /\ w.ticket = x.cfg.ticket
        /\ w.idx = x.idx /\ w.events = <<"STARTED">>
    <3> HIDE DEF Ended_
    <3>1. /\ w \in EngineStates /\ w.errs = {"ok"} \ {"ok"} /\ w.gatesDone = {"gate"}
          /\ w.gateErrs = IF "ok" = "ok" THEN {} ELSE {"gate"}
          /\ w.stepErrs = {} /\ w.stepsDone = <<>> /\ w.ticket = x.cfg.ticket
          /\ At(w, "gate", "gate", x.idx, <<"STARTED">>)
      BY <1>7, <2>1
    <3> QED
      BY <3>1 DEF At
  <2>3. xp \in RunState /\ xp.errs = {} /\ xp.cfg = x.cfg /\ xp.plan = x.plan \cup {"gate"}
    BY <1>2, <2>1, PassedIs DEF SameWork
  <2>4. InLoop(w, xp)
    BY <2>2, <2>3 DEF InLoop, Recorded
  <2>5. Engine!GateLoop(w, gateSteps, w.idx) = z
    BY <1>2, <1>4, <1>8, <2>1, <2>2, <2>4, LoopIs
  <2>6. "ok" \in Engine!GateOutcomes("gate", u.ticket) /\ ~ Engine!GateAborts("gate", "ok")
    BY <1>6, <1>8 DEF Engine!GateOutcomes, Engine!GateAborts
  <2> QED
    BY <1>6, <2>1, <2>5, <2>6 DEF Engine!GateEnds
<1>9. CASE y = [x EXCEPT !.errs = {"gate"}, !.pc = "returned"]
  <2>1. PICK w, v : w = Ended_("mentions") /\ v = Engine!EmitTerminalEvents(w)
    OBVIOUS
  <2>2. /\ w \in EngineStates /\ w.errs = {"mentions"} /\ w.gatesDone = {"gate"}
        /\ w.gateErrs = {"gate"}
        /\ w.stepErrs = {} /\ w.stepsDone = <<>> /\ w.ticket = x.cfg.ticket
        /\ w.events = <<"STARTED">>
    <3> HIDE DEF Ended_
    <3>1. /\ w \in EngineStates /\ w.errs = {"mentions"} \ {"ok"} /\ w.gatesDone = {"gate"}
          /\ w.gateErrs = IF "mentions" = "ok" THEN {} ELSE {"gate"}
          /\ w.stepErrs = {} /\ w.stepsDone = <<>> /\ w.ticket = x.cfg.ticket
          /\ At(w, "gate", "gate", x.idx, <<"STARTED">>)
      BY <1>7, <2>1
    <3> QED
      BY <3>1 DEF At
  <2>3. /\ v \in EngineStates /\ SameRecords(v, w)
        /\ At(v, "returned", "FAILED", 1, <<"STARTED", "COMPLETED", "FAILED">>)
    <3>1. Announced(w) = "FAILED"
      BY <2>2 DEF Announced
    <3> QED
      BY <2>1, <2>2, <3>1, TerminalEventsAre
  <2>4. y.pc = "returned" /\ y.errs = {"gate"} /\ y.cfg = x.cfg /\ y.plan = x.plan
    BY <1>2, <1>9 DEF RunState
  <2>5. /\ z \in EngineStates /\ Recorded(z, y, <<>>)
        /\ At(z, "returned", Announced(z), 1, <<"STARTED", "COMPLETED", Announced(z)>>)
    BY <1>4, <2>4, ReturnedIs
  <2>6. /\ z.ticket = x.cfg.ticket /\ z.errs = {"mentions"} /\ z.gateErrs = {"gate"}
        /\ z.stepErrs = {} /\ z.gatesDone = {"gate"} /\ z.stepsDone = <<>>
    <3>1. "gate" \notin Steps
      BY Unplaced
    <3> QED
      BY <2>4, <2>5, <3>1 DEF Recorded
  <2>7. Announced(z) = "FAILED"
    BY <2>6 DEF Announced
  <2>8. SameRecords(v, z)
    BY <2>2, <2>3, <2>6 DEF SameRecords
  <2>9. At(v, z.pc, z.cur, z.idx, z.events)
    BY <2>3, <2>5, <2>7 DEF At
  <2>10. v = z
    BY <2>3, <2>5, <2>8, <2>9, SameState
  <2>11. "mentions" \in Engine!GateOutcomes("gate", u.ticket) /\ Engine!GateAborts("gate", "mentions")
    BY DEF Engine!GateOutcomes, Engine!GateAborts
  <2> QED
    BY <1>6, <2>1, <2>10, <2>11 DEF Engine!GateEnds
<1> QED
  BY <1>3, <1>8, <1>9 DEF LeavesGate

\* A step goes on with its list: nothing changes for the engine.
LEMMA EngineWaits ==
  ASSUME NEW x \in RunState, NEW y \in RunState, "gate" \notin x.errs, x.pc \in Steps,
         y.pc = x.pc, y.cfg = x.cfg, y.errs = x.errs, y.plan \in {x.plan, x.plan \cup {x.pc}}
  PROVE  EngineRun(y) = EngineRun(x)
<1>1. PICK u, z : u = EngineRun(x) /\ z = EngineRun(y)
  OBVIOUS
<1>2. y.plan \cap {"gate"} = x.plan \cap {"gate"}
  BY Unplaced
<1>3. /\ u \in EngineStates /\ At(u, "step", x.pc, Position(x.pc), <<"STARTED">>)
      /\ Recorded(u, x, SubSeq(StepOrder, 1, Position(x.pc) - 1))
  BY <1>1, InStepIs
<1>4. /\ z \in EngineStates /\ At(z, "step", x.pc, Position(x.pc), <<"STARTED">>)
      /\ Recorded(z, y, SubSeq(StepOrder, 1, Position(x.pc) - 1))
  BY <1>1, InStepIs
<1>5. SameRecords(z, u) /\ At(z, u.pc, u.cur, u.idx, u.events)
  BY <1>2, <1>3, <1>4 DEF SameRecords, Recorded, At
<1> QED
  BY <1>1, <1>3, <1>4, <1>5, SameState

\* A step ends: the engine goes on to the next one, or announces the outcome.
LEMMA EngineSteps ==
  ASSUME NEW r \in Runs, WithExtensions(r), NEW x \in RunState, NEW y \in RunState,
         x.pc \in Steps, "gate" \notin x.errs, x.pc \in ToSet(Order(r)),
         y.pc = After(r, x.pc), y.cfg = x.cfg, y.errs \in {x.errs, x.errs \cup {x.pc}},
         y.plan \in {x.plan, x.plan \cup {x.pc}},
         EngineRuns[r] = EngineRun(x), Engine!Commit(r, EngineRun(y), gateSteps),
         UNCHANGED overlapped
  PROVE  Engine!StepEnds(r)
<1>1. PICK u, z, e, s, i, done, ers :
        /\ u = EngineRun(x) /\ z = EngineRun(y) /\ e = IF y.errs = x.errs THEN "ok" ELSE "silent"
        /\ s = x.pc /\ i = Position(s) /\ done = SubSeq(StepOrder, 1, i)
        /\ ers = IF e = "ok" THEN x.errs ELSE x.errs \cup {s}
  OBVIOUS
<1>2. s \in Steps /\ "gate" \notin x.errs /\ y.cfg = x.cfg /\ y.errs = ers /\ x.errs \subseteq Steps
  <2>1. x.errs \subseteq {"gate"} \cup Steps
    BY DEF RunState
  <2> QED
    BY <1>1, <2>1
<1>3. /\ i \in 1 .. Len(StepOrder) /\ StepOrder[i] = s /\ s \in StepNames
      /\ done \in Seq(StepNames) /\ Append(SubSeq(StepOrder, 1, i - 1), s) = done
  BY <1>1, <1>2, PlacesAre, FirstSteps
<1>4. /\ y.pc = After(r, s)
      /\ i = Len(StepOrder) <=> y.pc = "returned"
      /\ y.pc # "returned" => y.pc \in Steps /\ StepOrder[i + 1] = y.pc
  <2>2. y.pc = After(r, s) /\ s \in ToSet(Order(r)) /\ Order(r) = StepOrder /\ ToSet(Order(r)) = Steps
    BY <1>1, OrderIs
  <2> QED
    BY <1>1, <2>2, AfterIs
<1>5. /\ u \in EngineStates /\ At(u, "step", s, i, <<"STARTED">>)
      /\ Recorded(u, x, SubSeq(StepOrder, 1, i - 1))
  BY <1>1, <1>2, InStepIs
<1>6. PICK n, w :
        /\ n = Engine!Record(u, e)
        /\ w = [n EXCEPT !.stepsDone = done, !.stepErrs = ers]
  OBVIOUS
<1>7. /\ n \in EngineStates /\ n.errs = u.errs \cup ({e} \ {"ok"}) /\ n.gateErrs = {}
      /\ n.stepErrs = x.errs /\ n.ticket = x.cfg.ticket /\ n.gatesDone = x.plan \cap {"gate"}
      /\ n.stepsDone = SubSeq(StepOrder, 1, i - 1)
      /\ At(n, "step", s, i, <<"STARTED">>)
  <2>1. e \in {"ok", "mentions", "silent"}
    BY <1>1
  <2>2. /\ n \in EngineStates /\ n.errs = u.errs \cup ({e} \ {"ok"})
        /\ n.gateErrs = u.gateErrs /\ n.stepErrs = u.stepErrs /\ n.ticket = u.ticket
        /\ n.gatesDone = u.gatesDone /\ n.stepsDone = u.stepsDone
        /\ At(n, u.pc, u.cur, u.idx, u.events)
    BY <1>5, <1>6, <2>1, RecordIs
  <2>3. u.gateErrs = {} /\ u.stepErrs = x.errs /\ u.gatesDone = x.plan \cap {"gate"}
    BY <1>2, <1>5 DEF Recorded
  <2> QED
    BY <1>5, <2>2, <2>3 DEF Recorded, At
<1>8. /\ w \in EngineStates /\ w.errs = n.errs /\ w.gateErrs = {} /\ w.stepErrs = ers
      /\ w.ticket = x.cfg.ticket /\ w.gatesDone = x.plan \cap {"gate"} /\ w.stepsDone = done
      /\ At(w, "step", s, i, <<"STARTED">>)
  <2>1. ers \in SUBSET StepNames
    BY <1>1, <1>2, <1>3, PlacesAre
  <2>2. w \in EngineStates /\ w.stepErrs = ers /\ w.stepsDone = done
    BY <1>3, <1>6, <1>7, <2>1 DEF EngineStates
  <2>3. /\ w.errs = n.errs /\ w.gateErrs = n.gateErrs /\ w.ticket = n.ticket
        /\ w.gatesDone = n.gatesDone /\ w.pc = n.pc /\ w.cur = n.cur /\ w.idx = n.idx
        /\ w.events = n.events
    BY <1>6, <1>7 DEF EngineStates
  <2> QED
    BY <1>7, <2>2, <2>3 DEF At
\* What is recorded in w is what is recorded in z.
<1>9. Recorded(w, y, done)
  <2>1. u.errs = IF x.errs # {} THEN {"silent"} ELSE {}
    <3>1. x.errs \cap Steps = x.errs
      BY <1>2
    <3> QED
      BY <1>2, <1>5, <3>1 DEF Recorded
  <2>2. "gate" \notin y.errs /\ y.errs \cap Steps = ers /\ y.errs \cap {"gate"} = {}
    BY <1>1, <1>2, Unplaced
  <2>3. w.errs = IF ers # {} THEN {"silent"} ELSE {}
    <3>1. CASE e = "ok"
      BY <1>1, <1>7, <1>8, <2>1, <3>1
    <3>2. CASE e # "ok"
      <4>1. e = "silent" /\ ers # {}
        BY <1>1, <3>2
      <4> QED
        BY <1>7, <1>8, <2>1, <4>1
    <3> QED
      BY <3>1, <3>2
  <2>4. (y.plan \cup y.errs) \cap {"gate"} = x.plan \cap {"gate"}
    BY <2>2, Unplaced
  <2> QED
    BY <1>2, <1>8, <2>2, <2>3, <2>4 DEF Recorded
<1>10. PICK v : v = IF Engine!StepAborts(s, e) \/ i = Len(StepOrder)
                    THEN Engine!EmitTerminalEvents(w) ELSE Engine!AwaitStep(w, i + 1)
  OBVIOUS
<1>11. v = z
  <2>1. CASE y.pc = "returned"
    <3>1. v = Engine!EmitTerminalEvents(w) /\ i = Len(StepOrder)
      BY <1>4, <1>10, <2>1
    <3>2. /\ v \in EngineStates /\ SameRecords(v, w)
          /\ At(v, "returned", Announced(w), 1, <<"STARTED", "COMPLETED", Announced(w)>>)
      <4>1. w.events = <<"STARTED">>
        BY <1>8 DEF At
      <4> QED
        BY <1>8, <3>1, <4>1, TerminalEventsAre
    <3>3. /\ z \in EngineStates /\ Recorded(z, y, done)
          /\ At(z, "returned", Announced(z), 1, <<"STARTED", "COMPLETED", Announced(z)>>)
      <4>1. "gate" \notin y.errs
        BY <1>1, <1>2, Unplaced
      <4> QED
        BY <1>1, <2>1, <3>1, <4>1, ReturnedIs
    <3>4. SameRecords(v, z) /\ Announced(w) = Announced(z)
      BY <1>9, <3>2, <3>3 DEF SameRecords, Recorded, Announced
    <3>5. At(v, z.pc, z.cur, z.idx, z.events)
      BY <3>2, <3>3, <3>4 DEF At
    <3> QED
      BY <3>2, <3>3, <3>4, <3>5, SameState
  <2>2. CASE y.pc # "returned"
    <3>1. /\ i # Len(StepOrder) /\ y.pc \in Steps /\ StepOrder[i + 1] = y.pc
          /\ i + 1 \in 1 .. Len(StepOrder)
      <4>1. i # Len(StepOrder) /\ y.pc \in Steps /\ StepOrder[i + 1] = y.pc
        BY <1>4, <2>2
      <4>2. Len(StepOrder) \in Nat
        BY PlacesAre
      <4> QED
        BY <1>3, <4>1, <4>2
    <3>2. v = Engine!AwaitStep(w, i + 1)
      BY <1>10, <3>1 DEF Engine!StepAborts
    <3>3. /\ v \in EngineStates /\ SameRecords(v, w) /\ At(v, "step", y.pc, i + 1, <<"STARTED">>)
      <4>1. w.events = <<"STARTED">>
        BY <1>8 DEF At
      <4> QED
        BY <1>8, <3>1, <3>2, <4>1, AwaitIs
    <3>4. Position(y.pc) = i + 1
      BY <1>3, <3>1, PositionOf
    <3>5. "gate" \notin y.errs
      BY <1>1, <1>2, Unplaced
    <3>6. /\ z \in EngineStates /\ At(z, "step", y.pc, i + 1, <<"STARTED">>)
          /\ Recorded(z, y, SubSeq(StepOrder, 1, (i + 1) - 1))
      BY <1>1, <3>1, <3>4, <3>5, InStepIs
    <3>7. (i + 1) - 1 = i
      BY <1>3
    <3>8. Recorded(z, y, done)
      BY <1>1, <3>6, <3>7
    <3>9. SameRecords(v, z)
      BY <1>9, <3>3, <3>8 DEF SameRecords, Recorded
    <3>10. At(v, z.pc, z.cur, z.idx, z.events)
      BY <3>3, <3>6 DEF At
    <3> QED
      BY <3>3, <3>6, <3>9, <3>10, SameState
  <2> QED
    BY <2>1, <2>2
<1>12. /\ EngineRuns[r] = u /\ u.pc = "step" /\ u.cur = s /\ w.idx = i
       /\ Engine!Commit(r, z, gateSteps)
  BY <1>1, <1>5, <1>8 DEF At
<1>13. /\ e \in Engine!Outcomes
       /\ w = [Engine!Record(u, e) EXCEPT
                 !.stepsDone = Append(@, s),
                 !.stepErrs = IF e = "ok" THEN @ ELSE @ \cup {s}]
  <2>1. /\ Append(n.stepsDone, s) = done
        /\ (IF e = "ok" THEN n.stepErrs ELSE n.stepErrs \cup {s}) = ers
    BY <1>1, <1>3, <1>7
  <2>2. e \in Engine!Outcomes
    BY <1>1 DEF Engine!Outcomes
  <2> QED
    BY <1>6, <2>1, <2>2
<1> QED
  BY <1>10, <1>11, <1>12, <1>13 DEF Engine!StepEnds

LEMMA EngineTakesSteps ==
  ASSUME ProvInv, GateInv, KnownInv, NEW r \in Runs, WithExtensions(r), Step(r)
  PROVE  Engine!StepEnds(r) \/ UNCHANGED Engine!vars
<1>1. PICK y \in RunState : /\ InStep(r, run[r], y) /\ Commit(r, y, gateSteps)
                          /\ overlapped' = overlapped
  BY StepMoves
<1>2. kind' = kind /\ gateSteps \in Lists
  BY StepGoes DEF Goes, env, GateInv, ListOk
<1>3. PICK x : x = run[r]
  OBVIOUS
<1>4. /\ x \in RunState /\ x.pc \in Steps /\ x.pc \in ToSet(Order(r)) /\ "gate" \notin x.errs
      /\ y.cfg = x.cfg /\ StepLeaves(r, x, y)
  <2>1. x \in RunState /\ Known(r, x) /\ x.pc \in Steps
    BY <1>1, <1>3, MovingRun DEF KnownInv, InStep
  <2>2. x.pc \in ToSet(Order(r))
    BY <1>3, <2>1, MovingRun
  <2> QED
    BY <1>1, <1>3, <2>1, <2>2 DEF Known, InStep
<1>5. EngineRuns[r] = EngineRun(x) /\ Engine!Commit(r, EngineRun(y), gateSteps)
  BY <1>1, <1>2, <1>3, RunsCommit
<1>6. CASE y.pc = x.pc /\ y.errs = x.errs
  <2>1. EngineRun(y) = EngineRun(x)
    BY <1>4, <1>6, EngineWaits DEF StepLeaves
  <2>2. EngineRuns' = [EngineRuns EXCEPT ![r] = EngineRuns[r]] /\ EngineRequests' = EngineRequests
    BY <1>5, <2>1 DEF Engine!Commit
  <2>3. EngineRuns' = EngineRuns
    BY <2>2 DEF EngineRuns
  <2>4. gateSteps' = gateSteps
    BY <1>1, <1>4, <1>6, Unplaced DEF Commit
  <2> QED
    BY <1>1, <2>2, <2>3, <2>4 DEF Engine!vars
<1>7. CASE ~ (y.pc = x.pc /\ y.errs = x.errs)
  <2>1. /\ y.pc = After(r, x.pc) /\ y.errs \in {x.errs, x.errs \cup {x.pc}}
        /\ y.plan \in {x.plan, x.plan \cup {x.pc}}
    BY <1>4, <1>7 DEF StepLeaves
  <2> QED
    BY <1>1, <1>4, <1>5, <2>1, EngineSteps
<1> QED
  BY <1>6, <1>7

\* An execution in a process of its own is none of the engine's, and leaves its list alone.
LEMMA LocalIsApart ==
  ASSUME ProvInv, GateInv, NEW r \in Runs, ~ WithExtensions(r),
         \/ StartProvision(r) \/ StartDryRun(r) \/ StartPreflight(r)
         \/ ReadTags(r) \/ Gate(r) \/ Step(r)
  PROVE  UNCHANGED Engine!vars
<1>1. kind[r] = "local" /\ ~ Dry(r)
  BY DEF WithExtensions, Dry
<1>2. gateSteps \in Lists /\ RemoveFirst(gateSteps, r) = gateSteps
  <2>1. gateSteps \in Lists /\ \A k \in 1 .. Len(gateSteps) : gateSteps[k] # r
    <3>1. "gate" # r
      BY ProvisioningConstants
    <3> QED
      BY <1>1, <3>1 DEF GateInv, ListOk
  <2> QED
    BY <2>1 DEF RemoveFirst
<1>3. kind' = kind /\ gateSteps' = gateSteps /\ overlapped' = overlapped
  <2>1. CASE StartProvision(r)
    BY <2>1 DEF StartProvision
  <2>2. CASE ReadTags(r)
    BY <1>2, <2>2 DEF ReadTags, Commit, Touch, Meets, env
  <2>3. ~ StartDryRun(r) /\ ~ StartPreflight(r)
    BY <1>1 DEF StartDryRun, StartPreflight, Injects
  <2>4. ~ Gate(r)
    BY DEF Gate, ProvInv, PlaceInv, PlaceOk
  <2>5. CASE Step(r)
    <3>1. PICK y : Goes(r, y)
      BY <2>5, StepGoes
    <3> QED
      BY <1>2, <3>1 DEF Goes, Commit, env
  <2> QED
    BY <2>1, <2>2, <2>3, <2>4, <2>5
<1>4. \A s \in Runs \ {r} : run'[s] = run[s]
  BY OwnStep
<1>5. EngineRuns' = [s \in Runs |-> EngineRun(IF WithExtensions(s) THEN run'[s] ELSE Fresh)]
  BY <1>3, SameRequests DEF EngineRuns
<1>6. \A s \in Runs : (IF WithExtensions(s) THEN run'[s] ELSE Fresh)
                      = (IF WithExtensions(s) THEN run[s] ELSE Fresh)
  BY <1>4
<1>7. EngineRuns' = EngineRuns
  BY <1>5, <1>6 DEF EngineRuns
<1> QED
  BY <1>3, <1>7, SameRequests DEF Engine!vars

LEMMA EngineNext ==
  ASSUME ProvInv, GateInv, KnownInv, [Next]_vars
  PROVE  [Engine!Next]_(Engine!vars)
<1>1. ASSUME NEW r \in Runs,
             \/ StartProvision(r) \/ StartDryRun(r) \/ StartPreflight(r)
             \/ ReadTags(r) \/ Gate(r) \/ Step(r)
      PROVE  [Engine!Next]_(Engine!vars)
  <2>1. CASE ~ WithExtensions(r)
    BY <1>1, <2>1, LocalIsApart
  <2>2. CASE WithExtensions(r)
    <3>1. StartProvision(r) => Engine!Receive(r)
      BY <2>2, EngineReceives DEF Engine!Receive
    <3>2. StartDryRun(r) => Engine!Receive(r)
      BY EngineReceivesDryRun DEF Engine!Receive
    <3>3. StartPreflight(r) => Engine!Receive(r)
      BY EngineReceivesPreflight DEF Engine!Receive
    <3>4. ReadTags(r) => Engine!Resume(r)
      BY <2>2, EngineReadsTags DEF Engine!Resume
    <3>5. Gate(r) => Engine!Resume(r)
      BY <2>2, EngineGates DEF Engine!Resume
    <3>6. Step(r) => Engine!Resume(r) \/ UNCHANGED Engine!vars
      BY <2>2, EngineTakesSteps DEF Engine!Resume
    <3> QED
      BY <1>1, <3>1, <3>2, <3>3, <3>4, <3>5, <3>6 DEF Engine!Next
  <2> QED
    BY <2>1, <2>2
<1>2. CASE Retag \/ UNCHANGED vars
  <2>1. UNCHANGED <<kind, run, gateSteps, overlapped>>
    BY <1>2 DEF Retag, vars
  <2>2. EngineRuns' = EngineRuns
    BY <2>1, SameRequests DEF EngineRuns
  <2> QED
    BY <2>1, <2>2, SameRequests DEF Engine!vars
<1> QED
  BY <1>1, <1>2 DEF Next

\* What WorkflowEngine assumes of its constants is so for the engine of Provisioning:
\* GatesAreNotRuns, GateConstants, StepConstants and OtherConstants.
LEMMA EngineConstants ==
  /\ Runs \cap {"gate"} = {}
  /\ RegisteredGates \in Seq({"gate"})
  /\ StepOrder \in Seq(Steps)
  /\ [e \in {"STARTED", "COMPLETED", "SUCCEEDED", "FAILED"} |-> 0] \in [Engine!Events -> Nat]
  /\ Approved \subseteq {Ticket, PreflightTicket} \ {NoTicket}
  /\ NoTicket \notin {Ticket, PreflightTicket} \ {NoTicket}
<1>1. Runs \cap {"gate"} = {} /\ Approved \subseteq {Ticket, PreflightTicket} \ {NoTicket}
  BY ProvisioningConstants
<1>2. RegisteredGates \in Seq({"gate"})
  <2>1. <<>> \in Seq({"gate"}) /\ <<"gate">> \in Seq({"gate"})
    OBVIOUS
  <2> QED
    BY <2>1 DEF RegisteredGates
<1>3. StepOrder \in Seq(Steps)
  <2>1. \A i \in 1 .. Len(StepOrder) : StepOrder[i] \in Steps
    BY PlacesAre DEF Steps, ToSet
  <2> QED
    BY <2>1, PlacesAre
<1> QED
  BY <1>1, <1>2, <1>3 DEF Engine!Events

LEMMA EngineInit == Init => Engine!Init
<1> SUFFICES ASSUME Init PROVE Engine!Init
  OBVIOUS
<1>1. EngineRequests \in [Runs -> Engine!Requests]
  <2>1. \A r \in Runs : EngineRequests[r] \in Engine!Requests
    BY DEF EngineRequests, Engine!Requests, Engine!Kinds
  <2> QED
    BY <2>1 DEF EngineRequests
<1>2. \A r \in Runs : EngineRuns[r] = EngineRun(Fresh)
  BY DEF EngineRuns, Init
<1>3. EngineRun(Fresh) = Engine!Fresh
  <2>1. /\ Fresh \in RunState /\ Fresh.pc = "idle" /\ Fresh.errs = {} /\ Fresh.plan = {}
        /\ Fresh.cfg.ticket = NoTicket
    <3>1. Fresh \in RunState
      BY ConfigTypes DEF Fresh, RunState, Mgs
    <3> QED
      BY <3>1 DEF Fresh, DefaultConfig
  <2>2. PICK u, z : u = EngineRun(Fresh) /\ z = Engine!Fresh
    OBVIOUS
  <2>3. u \in EngineStates /\ At(u, "idle", "none", 0, <<>>) /\ Recorded(u, Fresh, <<>>)
    BY <2>1, <2>2, EarlyIs
  <2>4. /\ z \in EngineStates /\ At(z, "idle", "none", 0, <<>>)
        /\ z.ticket = NoTicket /\ z.errs = {} /\ z.gatesDone = {} /\ z.gateErrs = {}
        /\ z.stepsDone = <<>> /\ z.stepErrs = {}
    BY <2>2, EventLists DEF Engine!Fresh, EngineStates, At
  <2>5. SameRecords(u, z) /\ At(u, z.pc, z.cur, z.idx, z.events)
    BY <2>1, <2>3, <2>4 DEF SameRecords, Recorded, At
  <2> QED
    BY <2>2, <2>3, <2>4, <2>5, SameState
<1>4. EngineRuns = [r \in Runs |-> Engine!Fresh]
  BY <1>2, <1>3 DEF EngineRuns
<1>5. gateSteps = RegisteredGates /\ overlapped = {}
  BY DEF Init
<1> QED
  BY <1>1, <1>4, <1>5 DEF Engine!Init

\* What Provisioning takes for the engine is the engine: the executions of the service are
\* executions of WorkflowEngine.run over one gate list, with what preflights put into it; gate
\* loop, tickets, order, errors and announced outcome included.
THEOREM StepsRunByEngineHolds == Spec => StepsRunByEngine
<1>1. ProvInv /\ GateInv /\ KnownInv /\ [Next]_vars => [Engine!Next]_(Engine!vars)
  BY EngineNext
<1> QED
  BY <1>1, EngineInit, ProvInvHolds, KnownInvHolds, PTL DEF Spec, StepsRunByEngine, Engine!Spec
================================================================================
