----------------------- MODULE EngineOutcomes_proofs -----------------------
(***************************************************************************)
(* Proofs about what the engine reports: success, skipped steps, the       *)
(* lifecycle events and gate_passed.  They speak of one execution at a     *)
(* time, so the inductive invariant OutcomeInv says of each await of run() *)
(* what has been recorded and emitted when it is reached; one lemma per    *)
(* coroutine segment, then one per action.                                 *)
(***************************************************************************)
EXTENDS WorkflowEngine_proofs

\* The workflow of x is over: it is complete, or something was recorded, and only
\* what stops a workflow has kept a step from running.
Done(x) ==
  /\ x.errs = {} => x.stepsDone = StepOrder
  /\ /\ x.gateErrs \cap Blocking = {}
     /\ x.stepErrs \cap StopSteps = {}
     /\ SortOutcome = "ordered"
     => x.stepsDone = StepOrder

\* The steps of the order before position i, and no others, have run.
RanUpTo(x, i) ==
  /\ Len(x.stepsDone) = i - 1
  /\ \A k \in 1 .. (i - 1) : x.stepsDone[k] = StepOrder[k]

\* What has been recorded and emitted when an execution has come to x.
Told(x) ==
  /\ x.pc \in {"idle", "tags"} => x.events = <<>> /\ x.stepsDone = <<>>
  /\ x.pc = "handler" => x.idx > 0 /\ x.cur \in Events
  /\ x.pc = "handler" /\ x.cur = "STARTED" => x.events = <<"STARTED">> /\ x.stepsDone = <<>>
  /\ x.pc = "handler" /\ x.cur = "COMPLETED" =>
       x.events = <<"STARTED", "COMPLETED">> /\ Done(x)
  /\ x.pc = "handler" /\ x.cur = "SUCCEEDED" =>
       /\ x.events = <<"STARTED", "COMPLETED", "SUCCEEDED">>
       /\ Done(x)
       /\ x.idx = 1 => x.errs = {}
  /\ x.pc = "handler" /\ x.cur = "FAILED" =>
       x.events = <<"STARTED", "COMPLETED", "FAILED">> /\ Done(x) /\ x.errs # {}
  /\ x.pc = "gate" => x.events = <<"STARTED">> /\ x.stepsDone = <<>>
  /\ x.pc = "step" => x.events = <<"STARTED">> /\ RanUpTo(x, x.idx)
  /\ x.pc = "returned" =>
       /\ Done(x)
       /\ \/ x.events = <<"STARTED", "COMPLETED", "SUCCEEDED">>
          \/ x.events = <<"STARTED", "COMPLETED", "FAILED">> /\ x.errs # {}
  /\ x.pc = "raised" => x.events \in {<<>>, <<"STARTED">>}
  /\ x.gateErrs \cap TicketGates # {} => "mentions" \in x.errs

\* The inductive invariant of this module.
OutcomeInv == \A r \in Runs : Told(run[r])

\* A failed ServiceNow gate has left a word that gate_passed looks for.
Worded(x) == x.gateErrs \cap TicketGates # {} => "mentions" \in x.errs

-------------------------------------------------------------------------------
(***************************************************************************)
(* Coroutine segments.                                                     *)
(***************************************************************************)

\* A sequence that has the elements of another one and one more behind them.
LEMMA AppendIs ==
  ASSUME NEW S, NEW s \in Seq(S), NEW e \in S, NEW t \in Seq(S),
         Len(t) = Len(s) + 1, t[Len(s) + 1] = e, \A i \in 1 .. Len(s) : t[i] = s[i]
  PROVE  Append(s, e) = t
<1>1. /\ Append(s, e) \in Seq(S)
      /\ Len(Append(s, e)) = Len(s) + 1
      /\ \A i \in 1 .. Len(s) : Append(s, e)[i] = s[i]
      /\ Append(s, e)[Len(s) + 1] = e
  BY AppendProperties
<1>2. Len(s) \in Nat
  OBVIOUS
<1>3. \A i \in 1 .. (Len(s) + 1) : Append(s, e)[i] = t[i]
  BY <1>1, <1>2
<1> QED BY <1>1, <1>3, SeqEqual

\* The sequences of events, one event after the other.
LEMMA EventSequences ==
  ASSUME NEW a, NEW b, NEW c
  PROVE  /\ Append(<<>>, a) = <<a>>
         /\ Append(<<a>>, b) = <<a, b>>
         /\ Append(<<a, b>>, c) = <<a, b, c>>
<1> DEFINE S == {a, b, c}
           one == <<a>>
           two == <<a, b>>
           three == <<a, b, c>>
<1>1. /\ one \in Seq(S) /\ two \in Seq(S) /\ three \in Seq(S)
      /\ a \in S /\ b \in S /\ c \in S
  OBVIOUS
<1>2. /\ Len(one) = 1 /\ Len(two) = 2 /\ Len(three) = 3
      /\ one[1] = a /\ two[1] = a /\ two[2] = b
      /\ three[1] = a /\ three[2] = b /\ three[3] = c
  OBVIOUS
<1> HIDE DEF S, one, two, three
<1>3. /\ Len(two) = Len(one) + 1 /\ two[Len(one) + 1] = b
      /\ \A i \in 1 .. Len(one) : two[i] = one[i]
      /\ Len(three) = Len(two) + 1 /\ three[Len(two) + 1] = c
      /\ \A i \in 1 .. Len(two) : three[i] = two[i]
  BY <1>2
<1>4. Append(one, b) = two
  BY <1>1, <1>3, AppendIs
<1>5. Append(two, c) = three
  BY <1>1, <1>3, AppendIs
<1>6. Append(<<>>, a) = <<a>>
  OBVIOUS
<1> QED BY <1>4, <1>5, <1>6 DEF one, two, three

\* Emitting an event adds it and changes nothing of what has been recorded.
LEMMA FireTells ==
  ASSUME NEW x \in RunState, NEW e \in Events
  PROVE  LET y == Fire(x, e)
         IN  /\ y \in RunState /\ y.pc = "handler" /\ y.cur = e /\ y.idx = 1
             /\ y.events = Append(x.events, e)
             /\ y.errs = x.errs /\ y.gateErrs = x.gateErrs /\ y.stepErrs = x.stepErrs
             /\ y.stepsDone = x.stepsDone
<1>1. Fire(x, e) \in RunState
  BY FireSegment
<1> QED BY <1>1 DEF Fire, RunState

\* Done and Worded look at these fields only.
LEMMA DoneCarriesOver ==
  ASSUME NEW x, NEW y, y.errs = x.errs, y.gateErrs = x.gateErrs, y.stepErrs = x.stepErrs,
         y.stepsDone = x.stepsDone
  PROVE  (Done(x) => Done(y)) /\ (Worded(x) => Worded(y))
  BY DEF Done, Worded

\* The choice between SUCCEEDED and FAILED.
LEMMA OutcomeTells ==
  ASSUME NEW x \in RunState, x.events = <<"STARTED", "COMPLETED">>, Done(x), Worded(x)
  PROVE  Told(EmitOutcome(x))
<1> DEFINE e == IF x.errs = {} THEN "SUCCEEDED" ELSE "FAILED"
           z == Fire(x, e)
<1>1. e \in Events
  BY DEF Events
<1>2. EmitOutcome(x) = IF Handlers[e] = 0 THEN Return(z) ELSE z
  BY DEF EmitOutcome
<1>3. e \in {"SUCCEEDED", "FAILED"} /\ (e = "SUCCEEDED" <=> x.errs = {})
  OBVIOUS
<1> HIDE DEF e
<1>4. /\ z \in RunState /\ z.pc = "handler" /\ z.cur = e /\ z.idx = 1
      /\ z.events = Append(x.events, e)
      /\ z.errs = x.errs /\ z.gateErrs = x.gateErrs /\ z.stepErrs = x.stepErrs
      /\ z.stepsDone = x.stepsDone
  BY <1>1, FireTells
<1>5. /\ e = "SUCCEEDED" => z.events = <<"STARTED", "COMPLETED", "SUCCEEDED">>
      /\ e = "FAILED" => z.events = <<"STARTED", "COMPLETED", "FAILED">>
  <2>1. Append(x.events, e) = <<"STARTED", "COMPLETED", e>>
    BY EventSequences
  <2> QED BY <1>4, <2>1
<1>6. Done(z) /\ Worded(z)
  BY <1>4, DoneCarriesOver
<1> HIDE DEF z
<1>7. CASE Handlers[e] # 0
  BY <1>2, <1>3, <1>4, <1>5, <1>6, <1>7 DEF Told, Worded, Events
<1>8. CASE Handlers[e] = 0
  <2> DEFINE y == Return(z)
  <2>1. /\ y.pc = "returned" /\ y.events = z.events
        /\ y.errs = z.errs /\ y.gateErrs = z.gateErrs /\ y.stepErrs = z.stepErrs
        /\ y.stepsDone = z.stepsDone
    BY <1>4 DEF Return, RunState
  <2>2. EmitOutcome(x) = y
    BY <1>2, <1>8
  <2> HIDE DEF y
  <2>3. Done(y) /\ Worded(y)
    BY <1>6, <2>1, DoneCarriesOver
  <2> QED BY <1>3, <1>4, <1>5, <2>1, <2>2, <2>3 DEF Told, Worded
<1> QED BY <1>7, <1>8

\* The terminal events of a workflow that is over.
LEMMA TerminalTells ==
  ASSUME NEW x \in RunState, x.events = <<"STARTED">>, Done(x), Worded(x)
  PROVE  Told(EmitTerminalEvents(x))
<1> DEFINE z == Fire(x, "COMPLETED")
<1>1. /\ z \in RunState /\ z.pc = "handler" /\ z.cur = "COMPLETED" /\ z.idx = 1
      /\ z.events = Append(x.events, "COMPLETED")
      /\ z.errs = x.errs /\ z.gateErrs = x.gateErrs /\ z.stepErrs = x.stepErrs
      /\ z.stepsDone = x.stepsDone
  BY FireTells DEF Events
<1>2. Done(z) /\ Worded(z)
  BY <1>1, DoneCarriesOver
<1>3. EmitTerminalEvents(x) = IF Handlers["COMPLETED"] = 0 THEN EmitOutcome(z) ELSE z
  BY DEF EmitTerminalEvents
<1> HIDE DEF z
<1>6. z.events = <<"STARTED", "COMPLETED">>
  BY <1>1, EventSequences
<1>4. CASE Handlers["COMPLETED"] = 0
  BY <1>6, <1>1, <1>2, <1>3, <1>4, OutcomeTells
<1>5. CASE Handlers["COMPLETED"] # 0
  BY <1>1, <1>2, <1>3, <1>5, <1>6 DEF Told, Worded, Events
<1> QED BY <1>4, <1>5

\* The workflow behind the gates, with whatever order toposort has found.
LEMMA StepsTell ==
  ASSUME NEW x \in RunState, x.events = <<"STARTED">>, x.stepsDone = <<>>, Worded(x)
  PROVE  Told(RunSteps(x))
<1>1. CASE SortOutcome = "raises"
  BY <1>1 DEF RunSteps, RunState, Told, Worded
<1>2. CASE SortOutcome = "rejected"
  <2> DEFINE z == [x EXCEPT !.errs = @ \cup {"silent"}]
  <2>1. /\ z \in RunState /\ z.events = <<"STARTED">> /\ "silent" \in z.errs
        /\ x.errs \subseteq z.errs /\ z.gateErrs = x.gateErrs
    BY DEF RunState, ErrorTexts, Outcomes
  <2>2. RunSteps(x) = EmitTerminalEvents(z)
    BY <1>2 DEF RunSteps
  <2> HIDE DEF z
  <2>3. Done(z) /\ Worded(z)
    BY <1>2, <2>1 DEF Done, Worded
  <2> QED BY <2>1, <2>2, <2>3, TerminalTells
<1>3. CASE SortOutcome = "ordered" /\ StepOrder = <<>>
  <2>1. Done(x)
    BY <1>3 DEF Done
  <2> QED BY <1>3, <2>1, TerminalTells DEF RunSteps
<1>4. CASE SortOutcome = "ordered" /\ StepOrder # <<>>
  <2> DEFINE y == AwaitStep(x, 1)
  <2>1. RunSteps(x) = y
    BY <1>4 DEF RunSteps
  <2>2. /\ y.pc = "step" /\ y.idx = 1 /\ y.events = <<"STARTED">> /\ y.stepsDone = <<>>
        /\ y.errs = x.errs /\ y.gateErrs = x.gateErrs
    BY DEF AwaitStep, RunState
  <2> HIDE DEF y
  <2>3. RanUpTo(y, 1)
    BY <2>2 DEF RanUpTo
  <2> QED BY <2>1, <2>2, <2>3 DEF Told, Worded
<1> QED BY <1>1, <1>2, <1>3, <1>4, StepConstants

\* The gate loop awaits a gate or goes on behind the gates; it records nothing.
LEMMA GateLoopTells ==
  ASSUME request \in [Runs -> Requests], NEW x \in RunState,
         NEW list \in Seq(Runs \cup Gates), NEW i \in Nat \ {0},
         x.events = <<"STARTED">>, x.stepsDone = <<>>, Worded(x)
  PROVE  Told(GateLoop(x, list, i))
<1> DEFINE gates == GatePositions(list, i)
           stop  == IF gates = {} THEN Len(list) + 1 ELSE Min(gates)
           z     == IF i < stop
                    THEN [x EXCEPT !.ticket = request[list[stop - 1]].ticket] ELSE x
           y     == GateLoop(x, list, i)
<1>1. y = IF gates = {} THEN RunSteps(z)
          ELSE [z EXCEPT !.pc = "gate", !.cur = list[stop], !.idx = stop + 1]
  BY DEF GateLoop
<1>2. gates \in SUBSET Nat /\ \A k \in i .. Len(list) : list[k] \in Gates => k \in gates
  BY DEF GatePositions
<1>3. gates # {} => stop \in i .. Len(list) /\ \A k \in gates : stop <= k
  BY <1>2, MinOfNaturals DEF GatePositions
<1>4. i < stop => list[stop - 1] \in Runs
  <2> SUFFICES ASSUME i < stop PROVE list[stop - 1] \in Runs
    OBVIOUS
  <2>1. stop - 1 \in i .. Len(list) /\ stop - 1 \notin gates
    <3>1. CASE gates = {}
      BY <3>1
    <3>2. CASE gates # {}
      <4> HIDE DEF gates, stop
      <4> QED BY <1>3, <3>2
    <3> QED BY <3>1, <3>2
  <2> HIDE DEF gates, stop
  <2> QED BY <1>2, <2>1
<1> HIDE DEF gates, stop
<1>5. /\ z \in RunState /\ z.events = x.events /\ z.stepsDone = x.stepsDone
      /\ z.errs = x.errs /\ z.gateErrs = x.gateErrs
  <2>1. CASE i < stop
    <3>1. request[list[stop - 1]].ticket \in Tickets \cup {NoTicket}
      BY <1>4, <2>1 DEF Requests
    <3> QED BY <2>1, <3>1 DEF RunState
  <2>2. CASE ~ (i < stop)
    BY <2>2
  <2> QED BY <2>1, <2>2
<1> HIDE DEF z, y
<1>6. Worded(z)
  BY <1>5 DEF Worded
<1>7. CASE gates = {}
  BY <1>1, <1>5, <1>6, <1>7, StepsTell DEF y
<1>8. CASE gates # {}
  <2>1. y = [z EXCEPT !.pc = "gate", !.cur = list[stop], !.idx = stop + 1]
    BY <1>1, <1>8
  <2>2. /\ y.pc = "gate" /\ y.events = <<"STARTED">> /\ y.stepsDone = <<>>
        /\ y.errs = z.errs /\ y.gateErrs = z.gateErrs
    BY <1>5, <2>1 DEF RunState
  <2>3. Told(y)
    BY <1>6, <2>2 DEF Told, Worded
  <2> QED BY <2>3 DEF y
<1> QED BY <1>7, <1>8

\* The start of a workflow.
LEMMA StartedTells ==
  ASSUME request \in [Runs -> Requests], NEW x \in RunState,
         NEW list \in Seq(Runs \cup Gates),
         x.events = <<>>, x.stepsDone = <<>>, Worded(x)
  PROVE  Told(EmitStarted(x, list))
<1> DEFINE z == Fire(x, "STARTED")
<1>1. /\ z \in RunState /\ z.pc = "handler" /\ z.cur = "STARTED" /\ z.idx = 1
      /\ z.events = Append(x.events, "STARTED")
      /\ z.errs = x.errs /\ z.gateErrs = x.gateErrs /\ z.stepErrs = x.stepErrs
      /\ z.stepsDone = x.stepsDone
  BY FireTells DEF Events
<1>2. Worded(z)
  BY <1>1, DoneCarriesOver
<1>3. EmitStarted(x, list) = IF Handlers["STARTED"] = 0 THEN GateLoop(z, list, 1) ELSE z
  BY DEF EmitStarted
<1> HIDE DEF z
<1>6. z.events = <<"STARTED">>
  BY <1>1, EventSequences
<1>4. CASE Handlers["STARTED"] = 0
  <2>1. z.stepsDone = <<>> /\ 1 \in Nat \ {0}
    BY <1>1
  <2> QED BY <1>1, <1>2, <1>3, <1>4, <1>6, <2>1, GateLoopTells
<1>5. CASE Handlers["STARTED"] # 0
  BY <1>1, <1>2, <1>3, <1>5, <1>6 DEF Told, Worded, Events
<1> QED BY <1>4, <1>5

\* Recording an outcome.
LEMMA RecordTells ==
  ASSUME NEW x \in RunState, NEW e \in Outcomes
  PROVE  LET y == Record(x, e)
         IN  /\ y \in RunState
             /\ y.pc = x.pc /\ y.cur = x.cur /\ y.idx = x.idx /\ y.events = x.events
             /\ y.gateErrs = x.gateErrs /\ y.stepErrs = x.stepErrs
             /\ y.stepsDone = x.stepsDone /\ y.gatesDone = x.gatesDone
             /\ x.errs \subseteq y.errs
             /\ e # "ok" => e \in y.errs
  BY DEF Record, RunState, ErrorTexts

-------------------------------------------------------------------------------
(***************************************************************************)
(* The steps.                                                              *)
(***************************************************************************)

\* The execution that moves is told right, and the others do not change.
LEMMA CommitTells ==
  ASSUME TypeOK, OutcomeInv, NEW r \in Runs, NEW y, NEW list, Commit(r, y, list), Told(y)
  PROVE  OutcomeInv'
<1>1. run' = [run EXCEPT ![r] = y] /\ run \in [Runs -> RunState]
  BY DEF Commit, TypeOK
<1> SUFFICES ASSUME NEW s \in Runs PROVE Told(run'[s])
  BY DEF OutcomeInv, Told, Done, RanUpTo
<1>2. CASE s = r
  BY <1>1, <1>2
<1>3. CASE s # r
  BY <1>1, <1>3 DEF OutcomeInv
<1> QED BY <1>2, <1>3

\* A request arrives, or the tag read ends.
LEMMA StartsTell ==
  ASSUME TypeOK, OutcomeInv, NEW r \in Runs, Receive(r) \/ ReadTags(r)
  PROVE  OutcomeInv'
<1>1. /\ run[r] \in RunState /\ Told(run[r]) /\ request \in [Runs -> Requests]
      /\ gateSteps \in Seq(Runs \cup Gates)
  BY DEF TypeOK, OutcomeInv
<1>2. CASE ReceiveProvision(r)
  <2> DEFINE y == [run[r] EXCEPT !.pc = IF CredentialRaises THEN "raised" ELSE "tags"]
  <2>1. /\ y.pc \in {"raised", "tags"} /\ y.events = <<>> /\ y.stepsDone = <<>>
        /\ y.errs = run[r].errs /\ y.gateErrs = run[r].gateErrs
    BY <1>1, <1>2 DEF ReceiveProvision, Told, RunState
  <2>2. Commit(r, y, gateSteps)
    BY <1>2 DEF ReceiveProvision
  <2> HIDE DEF y
  <2>3. Told(y)
    BY <1>1, <2>1 DEF Told
  <2> QED BY <2>2, <2>3, CommitTells
<1>3. CASE ReceiveDryRun(r)
  <2>1. run[r].events = <<>> /\ run[r].stepsDone = <<>> /\ Worded(run[r])
    BY <1>1, <1>3 DEF ReceiveDryRun, Told, Worded
  <2>2. Commit(r, EmitStarted(run[r], gateSteps), gateSteps)
    BY <1>3 DEF ReceiveDryRun
  <2> QED BY <1>1, <2>1, <2>2, StartedTells, CommitTells
<1>4. CASE ReceivePreflight(r)
  <2> DEFINE list == <<r>> \o gateSteps
  <2>1. run[r].events = <<>> /\ run[r].stepsDone = <<>> /\ Worded(run[r])
    BY <1>1, <1>4 DEF ReceivePreflight, Told, Worded
  <2>2. Commit(r, EmitStarted(run[r], list), list)
    BY <1>4 DEF ReceivePreflight
  <2>3. list \in Seq(Runs \cup Gates)
    <3>1. <<r>> \in Seq(Runs \cup Gates)
      OBVIOUS
    <3> QED BY <1>1, <3>1, ConcatProperties
  <2> HIDE DEF list
  <2> QED BY <1>1, <2>1, <2>2, <2>3, StartedTells, CommitTells
<1>5. CASE ReadTags(r)
  <2>1. PICK t \in {request[r].ticket, NoTicket} :
          Commit(r, EmitStarted([run[r] EXCEPT !.ticket = t], gateSteps), gateSteps)
    BY <1>5 DEF ReadTags
  <2> DEFINE x == [run[r] EXCEPT !.ticket = t]
  <2>2. t \in Tickets \cup {NoTicket}
    BY <1>1 DEF Requests
  <2>3. /\ x \in RunState /\ x.events = <<>> /\ x.stepsDone = <<>>
        /\ x.errs = run[r].errs /\ x.gateErrs = run[r].gateErrs
    BY <1>1, <1>5, <2>2 DEF ReadTags, Told, RunState
  <2>4. Commit(r, EmitStarted(x, gateSteps), gateSteps)
    BY <2>1
  <2> HIDE DEF x
  <2>5. Worded(x)
    BY <1>1, <2>3 DEF Told, Worded
  <2> QED BY <1>1, <2>3, <2>4, <2>5, StartedTells, CommitTells
<1> QED BY <1>2, <1>3, <1>4, <1>5 DEF Receive

\* The end of a lifecycle handler.
LEMMA HandlerTells ==
  ASSUME TypeOK, OutcomeInv, NEW r \in Runs, HandlerEnds(r)
  PROVE  OutcomeInv'
<1>1. /\ run[r] \in RunState /\ Told(run[r]) /\ request \in [Runs -> Requests]
      /\ gateSteps \in Seq(Runs \cup Gates) /\ run[r].pc = "handler"
  BY DEF TypeOK, OutcomeInv, HandlerEnds
<1> DEFINE X(e) == Record(run[r], e)
           Y(e) == IF X(e).idx < Handlers[X(e).cur] THEN [X(e) EXCEPT !.idx = @ + 1]
                                                    ELSE AfterEvent(X(e))
<1>2. PICK e \in Outcomes : Commit(r, Y(e), gateSteps)
  BY DEF HandlerEnds
<1> DEFINE x == X(e)
           y == Y(e)
<1>3. /\ x \in RunState
      /\ x.pc = "handler" /\ x.cur = run[r].cur /\ x.idx = run[r].idx
      /\ x.events = run[r].events /\ x.gateErrs = run[r].gateErrs
      /\ x.stepErrs = run[r].stepErrs /\ x.stepsDone = run[r].stepsDone
      /\ run[r].errs \subseteq x.errs
  BY <1>1, RecordTells
<1>4. y = IF x.idx < Handlers[x.cur] THEN [x EXCEPT !.idx = @ + 1] ELSE AfterEvent(x)
  OBVIOUS
<1>5. Commit(r, y, gateSteps)
  BY <1>2
<1> HIDE DEF X, Y, x, y
<1>6. /\ Worded(x) /\ x.idx > 0 /\ x.cur \in Events
      /\ x.cur = "STARTED" => x.events = <<"STARTED">> /\ x.stepsDone = <<>>
      /\ x.cur # "STARTED" => Done(x)
      /\ x.cur = "COMPLETED" => x.events = <<"STARTED", "COMPLETED">>
      /\ x.cur = "SUCCEEDED" => x.events = <<"STARTED", "COMPLETED", "SUCCEEDED">>
      /\ x.cur = "FAILED" => x.events = <<"STARTED", "COMPLETED", "FAILED">> /\ x.errs # {}
  <2>1. Done(run[r]) => Done(x)
    BY <1>3 DEF Done
  <2> QED BY <1>1, <1>3, <2>1 DEF Told, Worded, Events
<1>7. CASE x.idx < Handlers[x.cur]
  <2>1. y = [x EXCEPT !.idx = @ + 1]
    BY <1>4, <1>7
  <2>2. /\ y.pc = "handler" /\ y.cur = x.cur /\ y.idx = x.idx + 1 /\ y.events = x.events
        /\ y.errs = x.errs /\ y.gateErrs = x.gateErrs /\ y.stepErrs = x.stepErrs
        /\ y.stepsDone = x.stepsDone
    BY <1>3, <2>1 DEF RunState
  <2>3. y.idx > 0 /\ y.idx # 1
    <3>1. x.idx \in Nat
      BY <1>3 DEF RunState
    <3> QED BY <1>6, <2>2, <3>1
  <2>4. (Done(x) => Done(y)) /\ Worded(y)
    BY <1>6, <2>2, DoneCarriesOver
  <2>5. Told(y)
    BY <1>6, <2>2, <2>3, <2>4 DEF Told, Worded
  <2> QED BY <1>5, <2>5, CommitTells
<1>8. CASE ~ (x.idx < Handlers[x.cur])
  <2>1. y = AfterEvent(x)
    BY <1>4, <1>8
  <2>2. CASE x.cur = "STARTED"
    <3>1. y = GateLoop(x, gateSteps, 1)
      BY <2>1, <2>2 DEF AfterEvent
    <3>2. Told(y)
      <4>1. 1 \in Nat \ {0}
        OBVIOUS
      <4> QED BY <1>1, <1>3, <1>6, <2>2, <3>1, <4>1, GateLoopTells
    <3> QED BY <1>5, <3>2, CommitTells
  <2>3. CASE x.cur = "COMPLETED"
    <3>1. y = EmitOutcome(x)
      BY <2>1, <2>3 DEF AfterEvent
    <3>2. Told(y)
      BY <1>3, <1>6, <2>3, <3>1, OutcomeTells
    <3> QED BY <1>5, <3>2, CommitTells
  <2>4. CASE x.cur \in {"SUCCEEDED", "FAILED"}
    <3>1. y = Return(x)
      BY <2>1, <2>4 DEF AfterEvent
    <3>2. /\ y.pc = "returned" /\ y.events = x.events
          /\ y.errs = x.errs /\ y.gateErrs = x.gateErrs /\ y.stepErrs = x.stepErrs
          /\ y.stepsDone = x.stepsDone
      BY <1>3, <3>1 DEF Return, RunState
    <3>3. Done(y) /\ Worded(y)
      BY <1>6, <2>4, <3>2, DoneCarriesOver
    <3>4. Told(y)
      BY <1>6, <2>4, <3>2, <3>3 DEF Told, Worded
    <3> QED BY <1>5, <3>4, CommitTells
  <2> QED BY <1>6, <2>2, <2>3, <2>4 DEF Events
<1> QED BY <1>7, <1>8

\* The end of a gate.
LEMMA GateTells ==
  ASSUME TypeOK, OutcomeInv, LoopInv, NEW r \in Runs, GateEnds(r)
  PROVE  OutcomeInv'
<1>1. /\ run[r] \in RunState /\ Told(run[r]) /\ request \in [Runs -> Requests]
      /\ gateSteps \in Seq(Runs \cup Gates)
      /\ run[r].pc = "gate" /\ run[r].cur \in Gates /\ run[r].idx > 0
  BY DEF TypeOK, OutcomeInv, GateEnds, LoopInv
<1> DEFINE g == run[r].cur
           X(e) == [Record(run[r], e) EXCEPT
                      !.gatesDone = @ \cup {g},
                      !.gateErrs  = IF e = "ok" THEN @ ELSE @ \cup {g}]
           Y(e) == IF GateAborts(g, e) THEN EmitTerminalEvents(X(e))
                                       ELSE GateLoop(X(e), gateSteps, X(e).idx)
<1>2. PICK e \in GateOutcomes(g, run[r].ticket) : Commit(r, Y(e), gateSteps)
  BY DEF GateEnds
<1>3. e \in Outcomes /\ (g \in TicketGates => e \in {"ok", "mentions"})
  BY DEF GateOutcomes, Outcomes
<1> DEFINE x == X(e)
           y == Y(e)
           z == Record(run[r], e)
<1>4. /\ z \in RunState /\ z.idx = run[r].idx /\ z.events = run[r].events
      /\ z.gateErrs = run[r].gateErrs /\ z.stepsDone = run[r].stepsDone
      /\ run[r].errs \subseteq z.errs /\ (e # "ok" => e \in z.errs)
  BY <1>1, <1>3, RecordTells
<1>5. x = [z EXCEPT !.gatesDone = @ \cup {g},
                    !.gateErrs  = IF e = "ok" THEN @ ELSE @ \cup {g}]
  OBVIOUS
<1>6. y = IF GateAborts(g, e) THEN EmitTerminalEvents(x) ELSE GateLoop(x, gateSteps, x.idx)
  OBVIOUS
<1>7. Commit(r, y, gateSteps)
  BY <1>2
<1>8. g \in Gates
  BY <1>1
<1> HIDE DEF X, Y, x, y, z, g
<1>9. /\ x \in RunState /\ x.idx = z.idx /\ x.events = z.events /\ x.stepsDone = z.stepsDone
      /\ x.errs = z.errs
      /\ x.gateErrs = IF e = "ok" THEN z.gateErrs ELSE z.gateErrs \cup {g}
  <2>1. z.gatesDone \cup {g} \in SUBSET Gates
        /\ (IF e = "ok" THEN z.gateErrs ELSE z.gateErrs \cup {g}) \in SUBSET Gates
    BY <1>4, <1>8 DEF RunState
  <2> QED BY <1>4, <1>5, <2>1 DEF RunState
<1>10. x.events = <<"STARTED">> /\ x.stepsDone = <<>>
  BY <1>1, <1>4, <1>9 DEF Told
<1>11. Worded(x)
  BY <1>1, <1>3, <1>4, <1>9 DEF Told, Worded
<1>12. CASE GateAborts(g, e)
  <2>1. e # "ok" /\ g \in Blocking
    BY <1>12 DEF GateAborts
  <2>2. Done(x)
    BY <1>4, <1>9, <2>1 DEF Done
  <2>3. Told(y)
    BY <1>6, <1>9, <1>10, <1>11, <1>12, <2>2, TerminalTells
  <2> QED BY <1>7, <2>3, CommitTells
<1>13. CASE ~ GateAborts(g, e)
  <2>1. x.idx \in Nat \ {0}
    BY <1>1, <1>4, <1>9 DEF RunState
  <2>2. Told(y)
    BY <1>1, <1>6, <1>9, <1>10, <1>11, <1>13, <2>1, GateLoopTells
  <2> QED BY <1>7, <2>2, CommitTells
<1> QED BY <1>12, <1>13

\* The end of a workflow step.
LEMMA StepTells ==
  ASSUME TypeOK, OutcomeInv, LoopInv, NEW r \in Runs, StepEnds(r)
  PROVE  OutcomeInv'
<1>1. /\ run[r] \in RunState /\ Told(run[r]) /\ run[r].pc = "step"
      /\ run[r].idx \in 1 .. Len(StepOrder) /\ run[r].cur = StepOrder[run[r].idx]
      /\ Len(StepOrder) \in Nat /\ StepOrder \in Seq(Steps)
  BY StepConstants DEF TypeOK, OutcomeInv, StepEnds, LoopInv
<1> DEFINE s == run[r].cur
           X(e) == [Record(run[r], e) EXCEPT
                      !.stepsDone = Append(@, s),
                      !.stepErrs  = IF e = "ok" THEN @ ELSE @ \cup {s}]
           Y(e) == IF StepAborts(s, e) \/ X(e).idx = Len(StepOrder)
                   THEN EmitTerminalEvents(X(e)) ELSE AwaitStep(X(e), X(e).idx + 1)
<1>2. PICK e \in Outcomes : Commit(r, Y(e), gateSteps)
  BY DEF StepEnds
<1> DEFINE x == X(e)
           y == Y(e)
           z == Record(run[r], e)
           i == run[r].idx
<1>3. /\ z \in RunState /\ z.idx = i /\ z.events = run[r].events
      /\ z.gateErrs = run[r].gateErrs /\ z.stepsDone = run[r].stepsDone
      /\ run[r].errs \subseteq z.errs /\ (e # "ok" => e \in z.errs)
  BY <1>1, RecordTells
<1>4. x = [z EXCEPT !.stepsDone = Append(@, s),
                    !.stepErrs  = IF e = "ok" THEN @ ELSE @ \cup {s}]
  OBVIOUS
<1>5. y = IF StepAborts(s, e) \/ x.idx = Len(StepOrder)
          THEN EmitTerminalEvents(x) ELSE AwaitStep(x, x.idx + 1)
  OBVIOUS
<1>6. Commit(r, y, gateSteps)
  BY <1>2
<1>7. s \in Steps /\ i \in 1 .. Len(StepOrder) /\ s = StepOrder[i]
  BY <1>1
<1>8. RanUpTo(run[r], i) /\ run[r].events = <<"STARTED">> /\ Worded(run[r])
  BY <1>1 DEF Told, Worded
<1> HIDE DEF X, Y, x, y, z, s, i
<1>9. /\ x \in RunState /\ x.idx = i /\ x.events = <<"STARTED">> /\ x.errs = z.errs
      /\ x.gateErrs = z.gateErrs
      /\ x.stepErrs = IF e = "ok" THEN z.stepErrs ELSE z.stepErrs \cup {s}
      /\ x.stepsDone = Append(z.stepsDone, s)
  <2>1. Append(z.stepsDone, s) \in Seq(Steps)
        /\ (IF e = "ok" THEN z.stepErrs ELSE z.stepErrs \cup {s}) \in SUBSET Steps
    BY <1>3, <1>7 DEF RunState
  <2> QED BY <1>3, <1>4, <1>8, <2>1 DEF RunState
<1>10. Worded(x)
  BY <1>3, <1>8, <1>9 DEF Worded
<1>11. Len(x.stepsDone) = i /\ \A k \in 1 .. i : x.stepsDone[k] = StepOrder[k]
  <2>1. run[r].stepsDone \in Seq(Steps) /\ i \in Nat
    BY <1>1, <1>7 DEF RunState
  <2>2. Len(run[r].stepsDone) = i - 1 /\ \A k \in 1 .. (i - 1) : run[r].stepsDone[k] = StepOrder[k]
    BY <1>8 DEF RanUpTo
  <2>3. /\ Len(Append(run[r].stepsDone, s)) = i
        /\ \A k \in 1 .. i : Append(run[r].stepsDone, s)[k] = StepOrder[k]
    BY <1>7, <2>1, <2>2
  <2> QED BY <1>3, <1>9, <2>3
<1>12. CASE StepAborts(s, e) \/ x.idx = Len(StepOrder)
  <2>1. Done(x)
    <3>1. CASE StepAborts(s, e)
      <4>1. e # "ok" /\ s \in StopSteps
        BY <3>1 DEF StepAborts
      <4> QED BY <1>3, <1>9, <4>1 DEF Done
    <3>2. CASE x.idx = Len(StepOrder)
      <4>1. /\ x.stepsDone \in Seq(Steps) /\ Len(x.stepsDone) = Len(StepOrder)
            /\ \A k \in 1 .. Len(StepOrder) : x.stepsDone[k] = StepOrder[k]
        <5>1. x.stepsDone \in Seq(Steps) /\ i = Len(StepOrder)
          BY <1>9, <3>2 DEF RunState
        <5> QED BY <1>11, <5>1
      <4>2. x.stepsDone = StepOrder
        BY <1>1, <4>1, SeqEqual
      <4> QED BY <4>2 DEF Done
    <3> QED BY <1>12, <3>1, <3>2
  <2>2. Told(y)
    BY <1>5, <1>9, <1>10, <1>12, <2>1, TerminalTells
  <2> QED BY <1>6, <2>2, CommitTells
<1>13. CASE ~ (StepAborts(s, e) \/ x.idx = Len(StepOrder))
  <2>1. y = AwaitStep(x, i + 1)
    BY <1>5, <1>9, <1>13
  <2>2. /\ y.pc = "step" /\ y.idx = i + 1 /\ y.events = x.events /\ y.errs = x.errs
        /\ y.gateErrs = x.gateErrs /\ y.stepsDone = x.stepsDone
    BY <1>9, <2>1 DEF AwaitStep, RunState
  <2>3. RanUpTo(y, y.idx)
    <3>1. y.idx - 1 = i
      BY <1>7, <2>2
    <3> QED BY <1>11, <2>2, <3>1 DEF RanUpTo
  <2>4. Told(y)
    BY <1>9, <1>10, <2>2, <2>3 DEF Told, Worded
  <2> QED BY <1>6, <2>4, CommitTells
<1> QED BY <1>12, <1>13

-------------------------------------------------------------------------------
(***************************************************************************)
(* The theorems.                                                           *)
(***************************************************************************)

\* Together with EngineInv, OutcomeInv is inductive.
THEOREM OutcomeInvHolds == Spec => []OutcomeInv
<1>1. Init => OutcomeInv
  <2> SUFFICES ASSUME Init, NEW r \in Runs PROVE Told(run[r])
    BY DEF OutcomeInv
  <2> QED BY DEF Init, Fresh, Told
<1>2. EngineInv /\ OutcomeInv /\ [Next]_vars => OutcomeInv'
  <2> SUFFICES ASSUME EngineInv, OutcomeInv, [Next]_vars PROVE OutcomeInv'
    OBVIOUS
  <2>1. TypeOK /\ LoopInv
    BY DEF EngineInv
  <2>2. CASE UNCHANGED vars
    BY <2>2 DEF vars, OutcomeInv, Told, Done, RanUpTo
  <2>3. CASE Next
    <3>1. PICK r \in Runs : Receive(r) \/ Resume(r)
      BY <2>3 DEF Next
    <3>2. CASE Receive(r) \/ ReadTags(r)
      BY <2>1, <3>2, StartsTell
    <3>3. CASE HandlerEnds(r)
      BY <2>1, <3>3, HandlerTells
    <3>4. CASE GateEnds(r)
      BY <2>1, <3>4, GateTells
    <3>5. CASE StepEnds(r)
      BY <2>1, <3>5, StepTells
    <3> QED BY <3>1, <3>2, <3>3, <3>4, <3>5 DEF Resume
  <2> QED BY <2>2, <2>3
<1> QED BY <1>1, <1>2, EngineInvHolds, PTL DEF Spec

\* Success means the whole workflow, announced as such, for every order of the
\* steps, every registration and every way in which toposort ends.
THEOREM SuccessHolds == Spec => []SuccessMeansComplete
<1>1. OutcomeInv => SuccessMeansComplete
  BY DEF OutcomeInv, Told, Done, SuccessMeansComplete
<1> QED BY <1>1, OutcomeInvHolds, PTL

\* Only what is registered to stop a workflow keeps a step from running.
THEOREM SkippingHolds == Spec => []OnlyStopOnErrorSkipsSteps
<1>1. OutcomeInv => OnlyStopOnErrorSkipsSteps
  BY DEF OutcomeInv, Told, Done, OnlyStopOnErrorSkipsSteps
<1> QED BY <1>1, OutcomeInvHolds, PTL

\* Subscribers see the events in the order of the protocol, with any number of
\* handlers that may fail.
THEOREM ProtocolHolds == Spec => []LifecycleProtocol
<1>1. TypeOK /\ OutcomeInv => LifecycleProtocol
  <2> SUFFICES ASSUME TypeOK, OutcomeInv, NEW r \in Runs
               PROVE  LET x == run[r]
                      IN  /\ x.events \in {<<>>, <<"STARTED">>, <<"STARTED", "COMPLETED">>,
                                           <<"STARTED", "COMPLETED", "SUCCEEDED">>,
                                           <<"STARTED", "COMPLETED", "FAILED">>}
                          /\ Len(x.events) > 1 => x.pc \notin {"gate", "step"}
                          /\ Len(x.events) = 3 /\ x.events[3] = "FAILED" => x.errs # {}
                          /\ x.pc = "handler" /\ x.cur = "SUCCEEDED" /\ x.idx = 1 => x.errs = {}
                          /\ x.pc = "returned" => Len(x.events) = 3
    BY DEF LifecycleProtocol
  <2> DEFINE x == run[r]
  <2>1. Told(x) /\ x.pc \in {"idle", "tags", "handler", "gate", "step", "returned", "raised"}
    BY DEF OutcomeInv, TypeOK, RunState
  <2>2. x.pc \in {"idle", "tags"} => x.events = <<>>
    BY <2>1 DEF Told
  <2>3. x.pc \in {"gate", "step"} => x.events = <<"STARTED">>
    BY <2>1 DEF Told
  <2>4. x.pc = "raised" => x.events \in {<<>>, <<"STARTED">>}
    BY <2>1 DEF Told
  <2>5. x.pc = "handler" =>
          \/ x.events = <<"STARTED">> /\ x.cur = "STARTED"
          \/ x.events = <<"STARTED", "COMPLETED">> /\ x.cur = "COMPLETED"
          \/ /\ x.events = <<"STARTED", "COMPLETED", "SUCCEEDED">>
             /\ x.idx = 1 => x.errs = {}
          \/ x.events = <<"STARTED", "COMPLETED", "FAILED">> /\ x.cur = "FAILED" /\ x.errs # {}
    BY <2>1 DEF Told, Events
  <2>6. x.pc = "returned" =>
          \/ x.events = <<"STARTED", "COMPLETED", "SUCCEEDED">>
          \/ x.events = <<"STARTED", "COMPLETED", "FAILED">> /\ x.errs # {}
    BY <2>1 DEF Told
  <2>7. /\ Len(<<>>) = 0 /\ Len(<<"STARTED">>) = 1 /\ Len(<<"STARTED", "COMPLETED">>) = 2
        /\ Len(<<"STARTED", "COMPLETED", "SUCCEEDED">>) = 3
        /\ Len(<<"STARTED", "COMPLETED", "FAILED">>) = 3
        /\ <<"STARTED", "COMPLETED", "SUCCEEDED">>[3] # "FAILED"
    OBVIOUS
  <2> HIDE DEF x
  <2>8. x.events \in {<<>>, <<"STARTED">>, <<"STARTED", "COMPLETED">>,
                      <<"STARTED", "COMPLETED", "SUCCEEDED">>,
                      <<"STARTED", "COMPLETED", "FAILED">>}
    BY <2>1, <2>2, <2>3, <2>4, <2>5, <2>6, Zenon
  <2>9. Len(x.events) > 1 => x.pc \notin {"gate", "step"}
    <3>1. x.pc \in {"gate", "step"} => Len(x.events) = 1
      BY <2>3, <2>7, Zenon
    <3>2. ~ (1 > 1)
      OBVIOUS
    <3> QED BY <3>1, <3>2, Zenon
  <2>10. Len(x.events) = 3 /\ x.events[3] = "FAILED" => x.errs # {}
    BY <2>1, <2>2, <2>3, <2>4, <2>5, <2>6, <2>7
  <2>11. x.pc = "handler" /\ x.cur = "SUCCEEDED" /\ x.idx = 1 => x.errs = {}
    BY <2>5
  <2>12. x.pc = "returned" => Len(x.events) = 3
    BY <2>6, <2>7
  <2> QED BY <2>8, <2>9, <2>10, <2>11, <2>12 DEF x
<1> QED BY <1>1, OutcomeInvHolds, EngineTypeCorrect, PTL

\* A preflight that answers gate_passed has no failed ServiceNow gate behind it.
THEOREM GatePassedHolds == Spec => []GatePassedClearsTicket
<1>1. OutcomeInv => GatePassedClearsTicket
  BY DEF OutcomeInv, Told, GatePassedClearsTicket, GatePassed
<1> QED BY <1>1, OutcomeInvHolds, PTL
===============================================================================
