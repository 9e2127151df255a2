------------------------ MODULE WorkflowEngine_proofs ------------------------
(***************************************************************************)
(* Proofs about the workflow engine: the gate list shared by concurrent    *)
(* executions keeps its shape, and with it every gate loop the safety      *)
(* properties of WorkflowEngine.  The argument is the inductive invariant  *)
(* EngineInv: first what RemoveFirst and insertion do to the list, then    *)
(* what each coroutine segment leaves, then one lemma per action.          *)
(***************************************************************************)
EXTENDS WorkflowEngine, SequenceTheorems, WellFoundedInduction, TLAPS

\* Removing an entry that is not in the list changes nothing.
LEMMA UninjectAbsent ==
  ASSUME NEW S, NEW s \in Seq(S), NEW e, \A i \in 1 .. Len(s) : s[i] # e
  PROVE  Uninject(s, e) = s
  BY DEF Uninject, RemoveFirst

\* Removing an entry that occurs once takes out that position and closes the gap.
LEMMA UninjectPresent ==
  ASSUME NEW S, NEW s \in Seq(S), NEW e, NEW k \in 1 .. Len(s), s[k] = e,
         \A i \in 1 .. Len(s) : s[i] = e => i = k
  PROVE  /\ Uninject(s, e) \in Seq(S)
         /\ Len(Uninject(s, e)) = Len(s) - 1
         /\ \A j \in 1 .. (Len(s) - 1) :
              Uninject(s, e)[j] = IF j < k THEN s[j] ELSE s[j + 1]
<1> DEFINE I == {i \in 1 .. Len(s) : s[i] = e}
<1>1. I = {k}
  OBVIOUS
<1>2. Min(I) = k
  BY <1>1 DEF Min
<1>3. SelectInSeq(s, LAMBDA v : v = e) = k
  BY <1>1, <1>2 DEF SelectInSeq
<1>4. RemoveFirst(s, e) = RemoveAt(s, k)
  BY <1>3 DEF RemoveFirst
<1> DEFINE a == SubSeq(s, 1, k - 1)
           b == SubSeq(s, k + 1, Len(s))
<1>5. Uninject(s, e) = a \o b
  BY <1>4 DEF Uninject, RemoveAt
<1> HIDE DEF I
<1>6. a \in Seq(S) /\ b \in Seq(S)
  OBVIOUS
<1>7. Len(a) = k - 1 /\ Len(b) = Len(s) - k
  OBVIOUS
<1>8. \A j \in 1 .. (k - 1) : a[j] = s[j]
  OBVIOUS
<1>9. \A j \in 1 .. (Len(s) - k) : b[j] = s[k + j]
  OBVIOUS
<1> HIDE DEF a, b
<1>10. Len(s) \in Nat /\ k \in Int
  OBVIOUS
<1>11. a \o b \in Seq(S) /\ Len(a \o b) = Len(a) + Len(b)
  BY <1>6, ConcatProperties
<1>12. Len(a \o b) = Len(s) - 1
  BY <1>7, <1>10, <1>11
<1>13. ASSUME NEW j \in 1 .. (Len(s) - 1)
       PROVE  (a \o b)[j] = IF j < k THEN s[j] ELSE s[j + 1]
  <2>1. CASE j < k
    BY <1>6, <1>7, <1>8, <1>10, <2>1, ConcatProperties
  <2>2. CASE j >= k
    <3>1. (a \o b)[j] = b[j - (k - 1)]
      BY <1>6, <1>7, <1>10, <2>2, ConcatProperties
    <3>2. j - (k - 1) \in 1 .. (Len(s) - k) /\ k + (j - (k - 1)) = j + 1
      BY <1>10, <2>2
    <3> QED BY <1>9, <1>10, <2>2, <3>1, <3>2
  <2>3. j < k \/ j >= k
    BY <1>10
  <2> QED BY <2>1, <2>2, <2>3, Zenon
<1> QED BY <1>5, <1>11, <1>12, <1>13

\* CHOOSE of Min finds the least element of a non-empty set of naturals.
LEMMA MinOfNaturals ==
  ASSUME NEW S \in SUBSET Nat, S # {}
  PROVE  Min(S) \in S /\ \A n \in S : Min(S) <= n
<1>1. \E m \in S : \A n \in S : m <= n
  <2> DEFINE R == OpToRel(<, Nat)
  <2>1. \A a, b \in Nat : a < b => <<a, b>> \in R
    BY DEF OpToRel
  <2>2. PICK m \in S : \A n \in S : ~ (<<n, m>> \in R)
    BY WFMin, NatLessThanWellFounded
  <2> HIDE DEF R
  <2>3. \A n \in S : n \in Nat /\ m \in Nat /\ ~ (n < m)
    BY <2>1, <2>2
  <2>4. \A n \in S : m <= n
    BY <2>3
  <2> QED BY <2>4
<1> QED BY <1>1 DEF Min

-------------------------------------------------------------------------------
(***************************************************************************)
(* Coroutine segments: what they keep, and where they end.                 *)
(***************************************************************************)

\* The fields no segment touches.
SameHistory(x, y) ==
  /\ y.gatesDone = x.gatesDone
  /\ y.gateErrs = x.gateErrs
  /\ y.stepsDone = x.stepsDone

\* An execution at a step is at that position of the order.
AtStep(x) ==
  x.pc = "step" => x.idx \in 1 .. Len(StepOrder) /\ x.cur = StepOrder[x.idx]

\* Emitting an event suspends in its first handler and keeps the history.
LEMMA FireSegment ==
  ASSUME NEW x \in RunState, NEW e \in Events
  PROVE  /\ Fire(x, e) \in RunState
         /\ Fire(x, e).pc = "handler"
         /\ Fire(x, e).cur = e
         /\ Fire(x, e).ticket = x.ticket
         /\ SameHistory(x, Fire(x, e))
<1>1. Append(x.events, e) \in Seq(Events)
  BY DEF RunState
<1> QED BY <1>1 DEF Fire, RunState, SameHistory

\* Returning keeps the history.
LEMMA ReturnSegment ==
  ASSUME NEW x \in RunState
  PROVE  /\ Return(x) \in RunState
         /\ Return(x).pc = "returned"
         /\ Return(x).cur = x.cur
         /\ Return(x).ticket = x.ticket
         /\ SameHistory(x, Return(x))
  BY DEF Return, RunState, SameHistory

\* Emitting the terminal events ends in a handler or at the end of run().
LEMMA TerminalSegment ==
  ASSUME NEW x \in RunState
  PROVE  /\ EmitOutcome(x) \in RunState
         /\ EmitOutcome(x).pc \in {"handler", "returned"}
         /\ EmitOutcome(x).cur # "STARTED"
         /\ EmitOutcome(x).ticket = x.ticket
         /\ SameHistory(x, EmitOutcome(x))
         /\ EmitTerminalEvents(x) \in RunState
         /\ EmitTerminalEvents(x).pc \in {"handler", "returned"}
         /\ EmitTerminalEvents(x).cur # "STARTED"
         /\ EmitTerminalEvents(x).ticket = x.ticket
         /\ SameHistory(x, EmitTerminalEvents(x))
<1>1. ASSUME NEW z \in RunState
      PROVE  /\ EmitOutcome(z) \in RunState
             /\ EmitOutcome(z).pc \in {"handler", "returned"}
             /\ EmitOutcome(z).cur # "STARTED"
             /\ EmitOutcome(z).ticket = z.ticket
             /\ SameHistory(z, EmitOutcome(z))
  <2> DEFINE e == IF z.errs = {} THEN "SUCCEEDED" ELSE "FAILED"
  <2>1. e \in Events /\ e # "STARTED"
    BY DEF Events
  <2>2. EmitOutcome(z) = IF Handlers[e] = 0 THEN Return(Fire(z, e)) ELSE Fire(z, e)
    BY DEF EmitOutcome
  <2> HIDE DEF e
  <2> QED BY <2>1, <2>2, FireSegment, ReturnSegment DEF SameHistory
<1>2. Fire(x, "COMPLETED") \in RunState
  BY FireSegment DEF Events
<1> QED BY <1>1, <1>2, FireSegment DEF EmitTerminalEvents, SameHistory, Events

\* Behind the gate loop an execution awaits the first step, ends or is in a handler.
LEMMA StepsSegment ==
  ASSUME NEW x \in RunState
  PROVE  /\ RunSteps(x) \in RunState
         /\ RunSteps(x).pc \in {"handler", "returned", "raised", "step"}
         /\ RunSteps(x).pc = "handler" => RunSteps(x).cur # "STARTED"
         /\ AtStep(RunSteps(x))
         /\ RunSteps(x).ticket = x.ticket
         /\ SameHistory(x, RunSteps(x))
<1>1. CASE SortOutcome = "raises"
  BY <1>1 DEF RunSteps, RunState, SameHistory, AtStep
<1>2. CASE SortOutcome = "rejected"
  <2> DEFINE z == [x EXCEPT !.errs = @ \cup {"silent"}]
  <2>1. z \in RunState /\ z.ticket = x.ticket /\ SameHistory(x, z)
    BY DEF RunState, SameHistory, ErrorTexts, Outcomes
  <2>2. RunSteps(x) = EmitTerminalEvents(z)
    BY <1>2 DEF RunSteps
  <2> HIDE DEF z
  <2> QED BY <2>1, <2>2, TerminalSegment DEF SameHistory, AtStep
<1>3. CASE SortOutcome = "ordered" /\ StepOrder = <<>>
  BY <1>3, TerminalSegment DEF RunSteps, AtStep
<1>4. CASE SortOutcome = "ordered" /\ StepOrder # <<>>
  <2>1. 1 \in 1 .. Len(StepOrder) /\ StepOrder[1] \in Steps
    BY <1>4, StepConstants
  <2> QED BY <1>4, <2>1 DEF RunSteps, AwaitStep, RunState, SameHistory, AtStep
<1> QED BY <1>1, <1>2, <1>3, <1>4, StepConstants

\* What GateLoop(x, list, i) = y means: y awaits the next gate of the list from
\* position i on, or the list has none; the ticket is that of x or of an
\* injected entry between.
LoopLeadsTo(x, list, i, y) ==
  /\ y \in RunState
  /\ AtStep(y)
  /\ y.pc \in {"gate", "step", "handler", "returned", "raised"}
  /\ y.pc = "handler" => y.cur # "STARTED"
  /\ SameHistory(x, y)
  /\ y.pc = "gate" =>
       /\ y.idx - 1 \in i .. Len(list)
       /\ y.cur = list[y.idx - 1]
       /\ y.cur \in Gates
       /\ \A k \in i .. (y.idx - 2) : list[k] \notin Gates
  /\ y.pc # "gate" => \A k \in i .. Len(list) : list[k] \notin Gates
  /\ \/ y.ticket = x.ticket
     \/ \E k \in i .. Len(list) :
          list[k] \in Runs /\ y.ticket = request[list[k]].ticket

\* The gate loop does what LoopLeadsTo says.
LEMMA GateLoopSegment ==
  ASSUME request \in [Runs -> Requests], NEW x \in RunState,
         NEW list \in Seq(Runs \cup Gates), NEW i \in Nat \ {0},
         NEW y, y = GateLoop(x, list, i)
  PROVE  LoopLeadsTo(x, list, i, y)
<1> DEFINE gates == GatePositions(list, i)
           stop  == IF gates = {} THEN Len(list) + 1 ELSE Min(gates)
           z     == IF i < stop
                    THEN [x EXCEPT !.ticket = request[list[stop - 1]].ticket] ELSE x
<1>1. y = IF gates = {} THEN RunSteps(z)
          ELSE [z EXCEPT !.pc = "gate", !.cur = list[stop], !.idx = stop + 1]
  BY DEF GateLoop
<1>2. gates \in SUBSET Nat /\ \A k \in i .. Len(list) : list[k] \in Gates => k \in gates
  BY DEF GatePositions
<1>3. gates # {} => stop \in i .. Len(list) /\ list[stop] \in Gates
  BY <1>2, MinOfNaturals DEF GatePositions
<1>4. stop \in Nat /\ stop <= Len(list) + 1 /\ \A k \in i .. (stop - 1) : list[k] \notin Gates
  <2>1. CASE gates = {}
    BY <1>2, <2>1
  <2>2. CASE gates # {}
    <3>1. stop \in i .. Len(list) /\ \A k \in gates : stop <= k
      BY <1>2, <1>3, <2>2, MinOfNaturals
    <3> HIDE DEF stop, gates
    <3> QED BY <1>2, <3>1
  <2> QED BY <2>1, <2>2
<1> HIDE DEF gates, stop
<1>5. i < stop => /\ stop - 1 \in i .. Len(list)
                  /\ list[stop - 1] \in Runs
                  /\ request[list[stop - 1]].ticket \in Tickets \cup {NoTicket}
  BY <1>4 DEF Requests
<1>6. /\ z \in RunState
      /\ SameHistory(x, z)
      /\ \/ z.ticket = x.ticket
         \/ \E k \in i .. Len(list) : list[k] \in Runs /\ z.ticket = request[list[k]].ticket
  <2>1. CASE i < stop
    <3>1. z = [x EXCEPT !.ticket = request[list[stop - 1]].ticket]
      BY <2>1
    <3>2. z \in RunState /\ SameHistory(x, z) /\ z.ticket = request[list[stop - 1]].ticket
      BY <1>5, <2>1, <3>1 DEF RunState, SameHistory
    <3> QED BY <1>5, <2>1, <3>2
  <2>2. CASE ~ (i < stop)
    BY <2>2 DEF SameHistory
  <2> QED BY <2>1, <2>2
<1> HIDE DEF z
<1>7. CASE gates = {}
  <2>1. \A k \in i .. Len(list) : list[k] \notin Gates
    BY <1>2, <1>7
  <2>2. y = RunSteps(z)
    BY <1>1, <1>7
  <2> QED BY <1>6, <2>1, <2>2, StepsSegment DEF SameHistory, LoopLeadsTo
<1>8. CASE gates # {}
  <2>1. y = [z EXCEPT !.pc = "gate", !.cur = list[stop], !.idx = stop + 1]
    BY <1>1, <1>8
  <2>2. y \in RunState
    <3>1. list[stop] \in Gates /\ stop + 1 \in Nat /\ z \in RunState
      BY <1>3, <1>4, <1>6, <1>8
    <3> QED BY <2>1, <3>1 DEF RunState
  <2>3. /\ y.pc = "gate" /\ y.cur = list[stop] /\ y.idx = stop + 1
        /\ y.ticket = z.ticket /\ SameHistory(z, y)
    BY <1>6, <2>1 DEF RunState, SameHistory
  <2>4. y.idx - 1 = stop /\ y.idx - 2 = stop - 1
    BY <1>4, <2>3
  <2> QED BY <1>3, <1>4, <1>6, <1>8, <2>2, <2>3, <2>4 DEF SameHistory, LoopLeadsTo, AtStep
<1> QED BY <1>7, <1>8

-------------------------------------------------------------------------------
(***************************************************************************)
(* The gate list: one entry per injector, then the registered gates.       *)
(***************************************************************************)

\* `list` has one entry for each execution in A, then the registered gates.
ListSound(list, A) ==
  /\ list \in Seq(Runs \cup Gates)
  /\ Len(list) >= Len(RegisteredGates)
  /\ \A i \in 1 .. Len(RegisteredGates) :
       list[Len(list) - Len(RegisteredGates) + i] = RegisteredGates[i]
  /\ \A i \in 1 .. (Len(list) - Len(RegisteredGates)) : list[i] \in A
  /\ \A i, j \in 1 .. (Len(list) - Len(RegisteredGates)) : list[i] = list[j] => i = j
  /\ \A r \in A : \E i \in 1 .. (Len(list) - Len(RegisteredGates)) : list[i] = r

Injectors == {r \in Runs : Injects(r)}

\* GateListSound is ListSound of the executions that inject.
LEMMA GateListSoundIsListSound ==
  TypeOK => (GateListSound <=> ListSound(gateSteps, Injectors))
  BY DEF TypeOK, GateListSound, ListSound, Injectors, InjectedCount

\* Where the entries of a sound list are.
LEMMA ListSoundPositions ==
  ASSUME NEW A \in SUBSET Runs, NEW list, ListSound(list, A)
  PROVE  /\ Len(list) \in Nat /\ Len(RegisteredGates) \in Nat
         /\ \A k \in 1 .. Len(list) :
              /\ k <= Len(list) - Len(RegisteredGates) => list[k] \in A
              /\ k > Len(list) - Len(RegisteredGates) =>
                   /\ list[k] \in Gates
                   /\ list[k] = RegisteredGates[k - (Len(list) - Len(RegisteredGates))]
<1>1. Len(list) \in Nat /\ Len(RegisteredGates) \in Nat
  BY GateConstants DEF ListSound
<1>2. ASSUME NEW k \in 1 .. Len(list), k > Len(list) - Len(RegisteredGates)
      PROVE  /\ list[k] \in Gates
             /\ list[k] = RegisteredGates[k - (Len(list) - Len(RegisteredGates))]
  <2> DEFINE i == k - (Len(list) - Len(RegisteredGates))
  <2>1. i \in 1 .. Len(RegisteredGates) /\ Len(list) - Len(RegisteredGates) + i = k
    BY <1>1, <1>2 DEF ListSound
  <2>2. RegisteredGates[i] \in Gates
    BY <2>1, GateConstants
  <2>3. list[Len(list) - Len(RegisteredGates) + i] = RegisteredGates[i]
    BY <2>1 DEF ListSound
  <2> QED BY <2>1, <2>2, <2>3
<1> QED BY <1>1, <1>2 DEF ListSound

\* _GATE_STEPS.insert(0, entry) by an execution with no entry in the list.
LEMMA InsertKeepsSound ==
  ASSUME NEW A \in SUBSET Runs, NEW list, ListSound(list, A), NEW r \in Runs \ A
  PROVE  ListSound(<<r>> \o list, A \cup {r})
<1> DEFINE new == <<r>> \o list
           n   == Len(list) - Len(RegisteredGates)
<1>1. list \in Seq(Runs \cup Gates) /\ <<r>> \in Seq(Runs \cup Gates) /\ Len(<<r>>) = 1
  BY DEF ListSound
<1>2. /\ new \in Seq(Runs \cup Gates)
      /\ Len(new) = Len(list) + 1
      /\ \A i \in 1 .. (Len(list) + 1) : new[i] = IF i = 1 THEN r ELSE list[i - 1]
  BY <1>1, ConcatProperties
<1>3. n \in Nat /\ Len(list) \in Nat /\ Len(RegisteredGates) \in Nat /\ Len(list) = n + Len(RegisteredGates)
  BY ListSoundPositions DEF ListSound
<1> HIDE DEF new
<1>4. Len(new) - Len(RegisteredGates) = n + 1
  BY <1>2, <1>3
<1>5. ASSUME NEW i \in 1 .. Len(RegisteredGates)
      PROVE  new[n + 1 + i] = RegisteredGates[i]
  <2>1. n + 1 + i \in 1 .. (Len(list) + 1) /\ n + 1 + i # 1 /\ n + 1 + i - 1 = n + i
    BY <1>3
  <2>2. list[n + i] = RegisteredGates[i]
    BY DEF ListSound
  <2> QED BY <1>2, <2>1, <2>2
<1>6. \A i \in 1 .. (n + 1) : i \in 1 .. (Len(list) + 1) /\ (i # 1 => i - 1 \in 1 .. n)
  BY <1>3
<1>7. \A i \in 1 .. n : list[i] \in A /\ list[i] # r
  BY DEF ListSound
<1>8. \A i \in 1 .. (n + 1) : new[i] \in A \cup {r}
  BY <1>2, <1>6, <1>7
<1>9. ASSUME NEW i \in 1 .. (n + 1), NEW j \in 1 .. (n + 1), new[i] = new[j]
      PROVE  i = j
  <2>1. \A a, b \in 1 .. n : list[a] = list[b] => a = b
    BY DEF ListSound
  <2>2. i \in 1 .. (Len(list) + 1) /\ j \in 1 .. (Len(list) + 1)
    BY <1>6
  <2>3. CASE i = 1
    <3>1. new[j] = r
      BY <1>2, <1>9, <2>2, <2>3
    <3>2. j # 1 => list[j - 1] = r /\ j - 1 \in 1 .. n
      BY <1>2, <1>6, <2>2, <3>1
    <3> QED BY <1>7, <2>3, <3>2
  <2>4. CASE j = 1
    <3>1. new[i] = r
      BY <1>2, <1>9, <2>2, <2>4
    <3>2. i # 1 => list[i - 1] = r /\ i - 1 \in 1 .. n
      BY <1>2, <1>6, <2>2, <3>1
    <3> QED BY <1>7, <2>4, <3>2
  <2>5. CASE i # 1 /\ j # 1
    <3>1. i - 1 \in 1 .. n /\ j - 1 \in 1 .. n /\ list[i - 1] = list[j - 1]
      BY <1>2, <1>6, <1>9, <2>2, <2>5
    <3>2. i - 1 = j - 1
      BY <2>1, <3>1
    <3> QED BY <1>3, <3>2
  <2> QED BY <2>3, <2>4, <2>5
<1>10. ASSUME NEW s \in A \cup {r}
       PROVE  \E i \in 1 .. (n + 1) : new[i] = s
  <2>1. CASE s = r
    BY <1>2, <1>3, <2>1
  <2>2. CASE s # r
    <3>1. PICK i \in 1 .. n : list[i] = s
      BY <2>2 DEF ListSound
    <3>2. i + 1 \in 1 .. (n + 1) /\ i + 1 \in 1 .. (Len(list) + 1) /\ i + 1 # 1 /\ i + 1 - 1 = i
      BY <1>3
    <3>3. new[i + 1] = s
      BY <1>2, <3>1, <3>2
    <3> QED BY <3>2, <3>3
  <2> QED BY <2>1, <2>2
<1>11. \A i \in 1 .. Len(RegisteredGates) :
         new[Len(new) - Len(RegisteredGates) + i] = RegisteredGates[i]
  BY <1>4, <1>5
<1>12. Len(new) >= Len(RegisteredGates)
  BY <1>2, <1>3
<1>13. ListSound(new, A \cup {r})
  BY <1>2, <1>4, <1>8, <1>9, <1>10, <1>11, <1>12 DEF ListSound
<1> QED BY <1>13 DEF new

\* _GATE_STEPS.remove(entry), whether or not the execution has an entry.
LEMMA RemoveKeepsSound ==
  ASSUME NEW A \in SUBSET Runs, NEW list, ListSound(list, A), NEW r \in Runs
  PROVE  ListSound(Uninject(list, r), A \ {r})
<1> DEFINE new == Uninject(list, r)
           n   == Len(list) - Len(RegisteredGates)
<1>1. n \in Nat /\ Len(list) \in Nat /\ Len(RegisteredGates) \in Nat /\ Len(list) = n + Len(RegisteredGates)
  BY ListSoundPositions DEF ListSound
<1>2. \A i \in 1 .. Len(list) : i > n => list[i] \in Gates /\ list[i] # r
  <2>1. \A i \in 1 .. Len(list) : i > n => list[i] \in Gates
    BY ListSoundPositions
  <2>2. r \notin Gates
    BY GatesAreNotRuns
  <2> QED BY <2>1, <2>2
<1>3. CASE r \notin A
  <2>1. \A i \in 1 .. Len(list) : list[i] # r
    BY <1>2, <1>3, ListSoundPositions
  <2>2. new = list /\ A \ {r} = A
    BY <1>3, <2>1, UninjectAbsent DEF ListSound
  <2> QED BY <2>2
<1>4. CASE r \in A
  <2>1. PICK k \in 1 .. n : list[k] = r
    BY <1>4 DEF ListSound
  <2>2. k \in 1 .. Len(list)
    BY <1>1
  <2>3. \A i \in 1 .. Len(list) : list[i] = r => i = k
    <3>1. \A i \in 1 .. n : list[i] = list[k] => i = k
      BY DEF ListSound
    <3> QED BY <1>1, <1>2, <2>1, <3>1
  <2>4. /\ new \in Seq(Runs \cup Gates)
        /\ Len(new) = Len(list) - 1
        /\ \A j \in 1 .. (Len(list) - 1) : new[j] = IF j < k THEN list[j] ELSE list[j + 1]
    BY <2>1, <2>2, <2>3, UninjectPresent, SMTT(20) DEF ListSound
  <2> HIDE DEF new
  <2>5. Len(new) - Len(RegisteredGates) = n - 1 /\ n - 1 \in Nat
    BY <1>1, <2>4
  <2>6. ASSUME NEW i \in 1 .. Len(RegisteredGates)
        PROVE  new[n - 1 + i] = RegisteredGates[i]
    <3>1. n - 1 + i \in 1 .. (Len(list) - 1) /\ ~ (n - 1 + i < k) /\ n - 1 + i + 1 = n + i
      BY <1>1
    <3>2. list[n + i] = RegisteredGates[i]
      BY DEF ListSound
    <3> QED BY <2>4, <3>1, <3>2
  <2>7. \A i \in 1 .. (n - 1) :
          /\ i \in 1 .. (Len(list) - 1) /\ i \in 1 .. n /\ i + 1 \in 1 .. n
          /\ i < k \/ i + 1 > k
    BY <1>1
  <2>8. \A i \in 1 .. n : list[i] \in A /\ (list[i] = r => i = k)
    BY <1>1, <2>3 DEF ListSound
  <2>9. \A i \in 1 .. (n - 1) : new[i] \in A \ {r}
    BY <1>1, <2>4, <2>7, <2>8
  <2>10. ASSUME NEW i \in 1 .. (n - 1), NEW j \in 1 .. (n - 1), new[i] = new[j]
         PROVE  i = j
    <3>1. \A a, b \in 1 .. n : list[a] = list[b] => a = b
      BY DEF ListSound
    <3> QED BY <1>1, <2>4, <2>7, <2>10, <3>1
  <2>11. ASSUME NEW s \in A \ {r}
         PROVE  \E i \in 1 .. (n - 1) : new[i] = s
    <3>1. PICK i \in 1 .. n : list[i] = s
      BY DEF ListSound
    <3>2. i # k
      BY <2>1, <3>1
    <3>3. CASE i < k
      <4>1. i \in 1 .. (n - 1) /\ i \in 1 .. (Len(list) - 1)
        BY <1>1, <3>3
      <4> QED BY <2>4, <3>1, <3>3, <4>1
    <3>4. CASE i > k
      <4>1. /\ i - 1 \in 1 .. (n - 1) /\ i - 1 \in 1 .. (Len(list) - 1)
            /\ ~ (i - 1 < k) /\ i - 1 + 1 = i
        BY <1>1, <3>4
      <4>2. new[i - 1] = s
        BY <2>4, <3>1, <4>1
      <4> QED BY <4>1, <4>2
    <3>5. i < k \/ i > k
      BY <3>2
    <3> QED BY <3>3, <3>4, <3>5
  <2> QED BY <1>1, <2>4, <2>5, <2>6, <2>9, <2>10, <2>11 DEF ListSound, new
<1> QED BY <1>3, <1>4

-------------------------------------------------------------------------------
(***************************************************************************)
(* The part of the invariant that speaks of one execution, as a predicate  *)
(* of its local state x, of the gate list, and of whether it has met no    *)
(* other execution's entry (alone).                                        *)
(***************************************************************************)

Past(x) == x.pc = "step" \/ x.stepsDone # <<>>

OwnTicket(x, r) == x.ticket \in {request[r].ticket, NoTicket}

TicketChecked(x, r) ==
  (x.gatesDone \cap TicketGates) \ x.gateErrs # {} => request[r].ticket \in Approved

Good(x, r, list, alone) ==
  /\ BeforeGates(x) => x.stepsDone = <<>> /\ x.gateErrs = {} /\ OwnTicket(x, r)
  /\ x.pc = "gate" =>
       /\ x.cur \in Gates /\ x.idx > 0 /\ x.stepsDone = <<>>
       /\ x.gateErrs \cap Blocking = {}
       /\ RegisteredGates # <<>>
       /\ RegisteredGates[1] \in x.gatesDone \cup {x.cur}
  /\ AtStep(x)
  /\ Past(x) => /\ RegisteredGates # <<>> => RegisteredGates[1] \in x.gatesDone
                /\ x.gateErrs \cap Blocking = {}
  /\ alone /\ x.pc = "gate" =>
       /\ ~ InjectedByOther(r, list)
       /\ \A k \in 1 .. Len(list) :
            k < x.idx /\ list[k] \in Gates => list[k] \in x.gatesDone \cup {x.cur}
       /\ OwnTicket(x, r)
  /\ alone => TicketChecked(x, r)
  /\ alone /\ Past(x) => ToSet(RegisteredGates) \subseteq x.gatesDone /\ OwnTicket(x, r)

\* EngineInv, execution by execution.
InvByRun ==
  /\ TypeOK
  /\ GateListSound
  /\ \A r \in Runs : Good(run[r], r, gateSteps, r \notin overlapped)

\* The conjuncts of EngineInv say the same as Good of every execution.
LEMMA EngineInvByRun == EngineInv <=> InvByRun
  BY DEF EngineInv, InvByRun, LoopInv, IsolationInv, FirstGateNeverBypassed, BlockedMeansNoStep,
         GateIsolation, PastGates, Good, Past, OwnTicket, AtStep, TicketInv, TicketChecked

\* An execution that runs no step and awaits no gate has nothing to account for.
LEMMA GoodWhenNoStep ==
  ASSUME NEW x, NEW r, NEW list, NEW alone \in BOOLEAN,
         x.pc \notin {"gate", "step"}, ~ BeforeGates(x), x.stepsDone = <<>>,
         alone => TicketChecked(x, r)
  PROVE  Good(x, r, list, alone)
  BY DEF Good, Past, AtStep

\* Behind the gates only the history counts.
LEMMA GoodCarriesOver ==
  ASSUME NEW x, NEW y, NEW r, NEW list, NEW list2, NEW alone \in BOOLEAN, NEW alone2 \in BOOLEAN,
         Good(x, r, list, alone), Past(x), alone2 => alone,
         y.pc # "gate", ~ BeforeGates(y), AtStep(y),
         y.gatesDone = x.gatesDone, y.gateErrs = x.gateErrs, y.ticket = x.ticket
  PROVE  Good(y, r, list2, alone2)
  BY DEF Good, OwnTicket, TicketChecked

\* A gate loop resumed at position i, with the gates before i done as far as it
\* matters, leaves a good execution.
LEMMA GateLoopGood ==
  ASSUME request \in [Runs -> Requests], NEW x \in RunState, NEW r \in Runs,
         NEW A \in SUBSET Runs, NEW list, ListSound(list, A),
         NEW i \in Nat \ {0}, NEW alone \in BOOLEAN,
         x.stepsDone = <<>>, x.gateErrs \cap Blocking = {},
         i = 1 \/ (RegisteredGates # <<>> /\ RegisteredGates[1] \in x.gatesDone),
         alone => /\ ~ InjectedByOther(r, list)
                  /\ \A k \in 1 .. Len(list) :
                       k < i /\ list[k] \in Gates => list[k] \in x.gatesDone
                  /\ OwnTicket(x, r)
                  /\ TicketChecked(x, r),
         NEW y, y = GateLoop(x, list, i)
  PROVE  Good(y, r, list, alone)
<1> DEFINE n == Len(list) - Len(RegisteredGates)
<1>1. /\ list \in Seq(Runs \cup Gates) /\ Len(list) \in Nat
      /\ n \in Nat /\ Len(RegisteredGates) \in Nat /\ Len(list) = n + Len(RegisteredGates)
  BY ListSoundPositions DEF ListSound
<1>2. \A k \in 1 .. Len(list) : list[k] \in Gates <=> k > n
  <2>1. \A k \in 1 .. Len(list) : k > n => list[k] \in Gates
    BY ListSoundPositions
  <2>2. \A k \in 1 .. Len(list) : k <= n => list[k] \in Runs
    BY ListSoundPositions
  <2>3. \A g \in Runs : g \notin Gates
    BY GatesAreNotRuns
  <2> HIDE DEF n
  <2> QED BY <1>1, <2>1, <2>2, <2>3
<1>3. \A m \in 1 .. Len(RegisteredGates) :
        /\ n + m \in 1 .. Len(list) /\ list[n + m] = RegisteredGates[m]
        /\ list[n + m] \in Gates
  <2> TAKE m \in 1 .. Len(RegisteredGates)
  <2>1. list[n + m] = RegisteredGates[m]
    BY DEF ListSound
  <2> HIDE DEF n
  <2>2. n + m \in 1 .. Len(list) /\ n + m > n
    BY <1>1
  <2> QED BY <1>2, <2>1, <2>2
<1>0. LoopLeadsTo(x, list, i, y)
  BY <1>1, GateLoopSegment
<1>4. /\ y \in RunState
      /\ y.pc \in {"gate", "step", "handler", "returned", "raised"}
      /\ y.pc = "handler" => y.cur # "STARTED"
      /\ AtStep(y)
      /\ SameHistory(x, y)
  BY <1>0 DEF LoopLeadsTo
<1>5. y.pc = "gate" =>
        /\ y.idx - 1 \in i .. Len(list)
        /\ y.cur = list[y.idx - 1]
        /\ y.cur \in Gates
        /\ \A k \in i .. (y.idx - 2) : list[k] \notin Gates
  BY <1>0 DEF LoopLeadsTo
<1>6. y.pc # "gate" => \A k \in i .. Len(list) : list[k] \notin Gates
  BY <1>0 DEF LoopLeadsTo
<1>7. \/ y.ticket = x.ticket
      \/ \E k \in i .. Len(list) : list[k] \in Runs /\ y.ticket = request[list[k]].ticket
  BY <1>0 DEF LoopLeadsTo
<1> HIDE DEF n
<1>8. ~ BeforeGates(y) /\ AtStep(y) /\ y.stepsDone = <<>> /\ y.gateErrs \cap Blocking = {}
      /\ y.gatesDone = x.gatesDone /\ y.idx \in Nat
  BY <1>4 DEF BeforeGates, SameHistory, RunState
<1>9. alone => OwnTicket(y, r)
  <2> SUFFICES ASSUME alone PROVE OwnTicket(y, r)
    OBVIOUS
  <2>1. \A k \in 1 .. Len(list) : list[k] \in Runs => list[k] = r
    BY <1>1 DEF InjectedByOther
  <2>2. \A k \in i .. Len(list) : list[k] \in Runs => list[k] = r
    BY <1>1, <2>1
  <2> QED BY <1>7, <2>2 DEF OwnTicket
<1>12. alone => TicketChecked(y, r)
  BY <1>4 DEF TicketChecked, SameHistory
<1>10. CASE y.pc = "gate"
  <2>1. RegisteredGates # <<>>
    <3>1. Len(RegisteredGates) > 0
      BY <1>1, <1>2, <1>5, <1>10
    <3> QED BY <3>1
  <2>2. RegisteredGates[1] \in y.gatesDone \cup {y.cur}
    <3>1. CASE i = 1
      <4>1. 1 \in 1 .. Len(RegisteredGates)
        BY <1>1, <2>1, GateConstants
      <4>2. n + 1 \in 1 .. Len(list) /\ list[n + 1] = RegisteredGates[1] /\ list[n + 1] \in Gates
        BY <1>3, <4>1
      <4>3. ~ (n + 1 \in 1 .. (y.idx - 2)) /\ y.idx - 1 > n /\ y.idx - 1 \in 1 .. Len(list)
        BY <1>2, <1>5, <1>10, <3>1, <4>2
      <4>4. y.idx - 1 = n + 1
        BY <1>1, <1>8, <4>2, <4>3
      <4> QED BY <1>5, <1>10, <4>2, <4>4
    <3>2. CASE i # 1
      BY <1>8, <3>2
    <3> QED BY <3>1, <3>2
  <2>3. y.idx > 0
    BY <1>5, <1>8, <1>10
  <2>4. alone => \A k \in 1 .. Len(list) :
          k < y.idx /\ list[k] \in Gates => list[k] \in y.gatesDone \cup {y.cur}
    <3> SUFFICES ASSUME alone, NEW k \in 1 .. Len(list), k < y.idx, list[k] \in Gates
                 PROVE  list[k] \in y.gatesDone \cup {y.cur}
      OBVIOUS
    <3>1. CASE k < i
      BY <1>8, <3>1
    <3>2. CASE k = y.idx - 1
      BY <1>5, <1>10, <3>2
    <3>3. k < i \/ k = y.idx - 1
      BY <1>1, <1>5, <1>8, <1>10
    <3> QED BY <3>1, <3>2, <3>3
  <2> QED BY <1>5, <1>8, <1>9, <1>10, <1>12, <2>1, <2>2, <2>3, <2>4 DEF Good, Past
<1>11. CASE y.pc # "gate"
  <2>1. ASSUME NEW m \in 1 .. Len(RegisteredGates)
        PROVE  n + m < i /\ n + m \in 1 .. Len(list)
    BY <1>1, <1>3, <1>6, <1>11
  <2>2. RegisteredGates # <<>> => RegisteredGates[1] \in y.gatesDone
    <3> SUFFICES ASSUME RegisteredGates # <<>> PROVE RegisteredGates[1] \in y.gatesDone
      OBVIOUS
    <3>1. 1 \in 1 .. Len(RegisteredGates)
      BY <1>1, GateConstants
    <3>2. i # 1
      BY <1>1, <2>1, <3>1
    <3> QED BY <1>8, <3>2
  <2>3. alone => ToSet(RegisteredGates) \subseteq y.gatesDone
    <3> SUFFICES ASSUME alone, NEW m \in 1 .. Len(RegisteredGates)
                 PROVE  RegisteredGates[m] \in y.gatesDone
      BY GateConstants DEF ToSet
    <3> QED BY <1>3, <1>8, <2>1
  <2> QED BY <1>8, <1>9, <1>11, <1>12, <2>2, <2>3 DEF Good, Past
<1> QED BY <1>10, <1>11

\* A loop entered from its start, directly or behind the STARTED handlers.
LEMMA EmitStartedGood ==
  ASSUME request \in [Runs -> Requests], NEW x \in RunState, NEW r \in Runs,
         NEW A \in SUBSET Runs, NEW list, ListSound(list, A), NEW alone \in BOOLEAN,
         x.stepsDone = <<>>, x.gateErrs = {}, OwnTicket(x, r),
         alone => ~ InjectedByOther(r, list) /\ TicketChecked(x, r),
         NEW y, y = EmitStarted(x, list)
  PROVE  /\ y \in RunState
         /\ y.pc \in {"gate", "step", "handler", "returned", "raised"}
         /\ Good(y, r, list, alone)
<1> DEFINE z == Fire(x, "STARTED")
<1>1. /\ z \in RunState /\ z.pc = "handler" /\ z.cur = "STARTED"
      /\ z.ticket = x.ticket /\ SameHistory(x, z)
  BY FireSegment DEF Events
<1>2. y = IF Handlers["STARTED"] = 0 THEN GateLoop(z, list, 1) ELSE z
  BY DEF EmitStarted
<1> HIDE DEF z
<1>3. /\ z.stepsDone = <<>> /\ z.gateErrs = {} /\ OwnTicket(z, r)
      /\ alone => TicketChecked(z, r)
  BY <1>1 DEF SameHistory, OwnTicket, TicketChecked
<1>4. CASE Handlers["STARTED"] = 0
  <2>1. y = GateLoop(z, list, 1)
    BY <1>2, <1>4
  <2>2. \A k \in 1 .. Len(list) : ~ (k < 1)
    BY DEF ListSound
  <2>3. z.gateErrs \cap Blocking = {}
    BY <1>3
  <2>4. 1 \in Nat \ {0}
    OBVIOUS
  <2>5. Good(y, r, list, alone)
    BY <1>1, <1>3, <2>1, <2>2, <2>3, <2>4, GateLoopGood
  <2>6. LoopLeadsTo(z, list, 1, y)
    BY <1>1, <2>1, <2>4, GateLoopSegment DEF ListSound
  <2> QED BY <2>5, <2>6 DEF LoopLeadsTo
<1>5. CASE Handlers["STARTED"] # 0
  BY <1>1, <1>2, <1>3, <1>5 DEF Good, Past, BeforeGates, AtStep
<1> QED BY <1>4, <1>5

-------------------------------------------------------------------------------
(***************************************************************************)
(* Every step of execution r ends in Commit(r, y, list): the invariant is  *)
(* kept when the new local state y is good, when `list` is sound, and when *)
(* the list has not moved under a loop that still counts as undisturbed.   *)
(***************************************************************************)

\* Execution r inserts an entry when it starts.
Inserts(r) == request[r].kind = "preflight" /\ request[r].ticket # NoTicket

\* The frame of every step.
LEMMA CommitKeepsInv ==
  ASSUME EngineInv, NEW r \in Runs, NEW y \in RunState, y.pc # "idle", NEW list,
         Commit(r, y, list),
         overlapped \subseteq overlapped', overlapped' \subseteq Runs,
         ListSound(list, Injectors \cup (IF Inserts(r) THEN {r} ELSE {})),
         \A s \in Runs \ {r} :
           run[s].pc = "gate" /\ s \notin overlapped' => list = gateSteps,
         Good(y, r, list, r \notin overlapped')
  PROVE  EngineInv'
<1> DEFINE A == Injectors \cup (IF Inserts(r) THEN {r} ELSE {})
<1>1. TypeOK /\ \A s \in Runs : Good(run[s], s, gateSteps, s \notin overlapped)
  BY EngineInvByRun DEF InvByRun
<1>2. /\ request' = request
      /\ run' = [run EXCEPT ![r] = y]
      /\ gateSteps' = IF Over(y) THEN Uninject(list, r) ELSE list
  BY DEF Commit
<1>3. A \in SUBSET Runs /\ ListSound(list, A)
  BY DEF Injectors
<1>4. Injectors' = IF Over(y) THEN A \ {r} ELSE A
  <2>1. run'[r] = y /\ \A s \in Runs \ {r} : run'[s] = run[s]
    BY <1>1, <1>2 DEF TypeOK
  <2>2. \A s \in Runs \ {r} : Injects(s)' <=> Injects(s)
    BY <1>2, <2>1 DEF Injects, Active, Over
  <2>3. Injects(r)' <=> Inserts(r) /\ ~ Over(y)
    BY <1>2, <2>1 DEF Injects, Active, Over, Inserts
  <2>4. Injects(r) => Inserts(r)
    BY DEF Injects, Inserts
  <2> QED BY <2>2, <2>3, <2>4 DEF Injectors
<1>5. ListSound(gateSteps', Injectors')
  <2>1. CASE Over(y)
    <3>1. ListSound(Uninject(list, r), A \ {r})
      BY <1>3, RemoveKeepsSound
    <3> QED BY <1>2, <1>4, <2>1, <3>1
  <2>2. CASE ~ Over(y)
    BY <1>2, <1>3, <1>4, <2>2
  <2> QED BY <2>1, <2>2
<1>6. TypeOK'
  <2>1. gateSteps' \in Seq(Runs \cup Gates)
    BY <1>5 DEF ListSound
  <2>2. run' \in [Runs -> RunState]
    BY <1>1, <1>2 DEF TypeOK
  <2> QED BY <1>1, <1>2, <2>1, <2>2 DEF TypeOK
<1>7. GateListSound'
  BY <1>5, <1>6 DEF TypeOK, GateListSound, ListSound, Injectors, InjectedCount
<1>8. ASSUME NEW s \in Runs
      PROVE  Good(run[s], s, gateSteps, s \notin overlapped)'
  <2>1. CASE s = r
    <3>1. run'[s] = y
      BY <1>1, <1>2, <2>1 DEF TypeOK
    <3>2. Over(y) => y.pc # "gate"
      BY DEF Over
    <3> QED BY <1>2, <2>1, <3>1, <3>2 DEF Good, Past, OwnTicket, BeforeGates, TicketChecked
  <2>2. CASE s # r
    <3>1. run'[s] = run[s]
      BY <1>1, <1>2, <2>2 DEF TypeOK
    <3>2. Good(run[s], s, gateSteps, s \notin overlapped)
      BY <1>1
    <3>3. run[s].pc = "gate" /\ s \notin overlapped' => gateSteps' = gateSteps
      <4> SUFFICES ASSUME run[s].pc = "gate", s \notin overlapped'
                   PROVE  gateSteps' = gateSteps
        OBVIOUS
      <4>1. list = gateSteps
        BY <2>2
      <4>2. \A k \in 1 .. Len(gateSteps) : gateSteps[k] # r
        BY <1>1, <2>2, <3>2 DEF Good, InjectedByOther, TypeOK
      <4>3. Uninject(gateSteps, r) = gateSteps
        BY <1>1, <4>2, UninjectAbsent DEF TypeOK
      <4> QED BY <1>2, <4>1, <4>3
    <3> QED BY <1>2, <3>1, <3>2, <3>3 DEF Good, Past, OwnTicket, BeforeGates, TicketChecked, InjectedByOther
  <2> QED BY <2>1, <2>2
<1>9. InvByRun'
  BY <1>6, <1>7, <1>8 DEF InvByRun
<1> QED BY <1>9, EngineInvByRun, PTL

-------------------------------------------------------------------------------
(***************************************************************************)
(* One lemma per action.                                                   *)
(***************************************************************************)

\* What the invariant says of an execution and of the list before a step; an
\* execution that is waiting for something has its entry in the list already.
LEMMA BeforeStep ==
  ASSUME EngineInv, NEW r \in Runs
  PROVE  /\ TypeOK /\ run[r] \in RunState /\ request[r] \in Requests
         /\ ListSound(gateSteps, Injectors) /\ Injectors \in SUBSET Runs
         /\ Good(run[r], r, gateSteps, r \notin overlapped)
         /\ ~ Inserts(r) \/ Active(r) =>
              ListSound(gateSteps, Injectors \cup (IF Inserts(r) THEN {r} ELSE {}))
<1>1. TypeOK /\ GateListSound /\ Good(run[r], r, gateSteps, r \notin overlapped)
  BY EngineInvByRun DEF InvByRun
<1>2. ListSound(gateSteps, Injectors) /\ Injectors \in SUBSET Runs
  BY <1>1, GateListSoundIsListSound DEF Injectors
<1>3. ~ Inserts(r) \/ Active(r) =>
        Injectors \cup (IF Inserts(r) THEN {r} ELSE {}) = Injectors
  BY DEF Injectors, Injects, Inserts
<1> QED BY <1>1, <1>2, <1>3 DEF TypeOK

\* Recording an outcome changes the errors only.
LEMMA RecordSegment ==
  ASSUME NEW x \in RunState, NEW e \in Outcomes
  PROVE  /\ Record(x, e) \in RunState
         /\ SameHistory(x, Record(x, e))
         /\ Record(x, e).pc = x.pc /\ Record(x, e).cur = x.cur
         /\ Record(x, e).idx = x.idx /\ Record(x, e).ticket = x.ticket
  BY DEF Record, RunState, SameHistory, ErrorTexts

\* A provisioning request.
LEMMA ReceiveProvisionKeepsInv ==
  ASSUME EngineInv, NEW r \in Runs, ReceiveProvision(r)
  PROVE  EngineInv'
<1> DEFINE y == [run[r] EXCEPT !.pc = IF CredentialRaises THEN "raised" ELSE "tags"]
<1>1. /\ run[r] \in RunState /\ Good(run[r], r, gateSteps, r \notin overlapped)
      /\ TypeOK
  BY BeforeStep
<1>2. ~ Inserts(r)
  BY DEF ReceiveProvision, Inserts
<1>3. y \in RunState /\ y.pc \in {"raised", "tags"} /\ SameHistory(run[r], y)
      /\ y.ticket = run[r].ticket
  BY <1>1 DEF RunState, SameHistory
<1>4. Commit(r, y, gateSteps) /\ overlapped' = overlapped /\ BeforeGates(run[r])
  BY DEF ReceiveProvision, BeforeGates
<1> HIDE DEF y
<1>5. Good(y, r, gateSteps, r \notin overlapped')
  BY <1>1, <1>3, <1>4 DEF Good, Past, OwnTicket, TicketChecked, AtStep, BeforeGates, SameHistory
<1> QED BY <1>1, <1>2, <1>3, <1>4, <1>5, BeforeStep, CommitKeepsInv DEF TypeOK

\* The three starts of a loop: x is the local state, `list` the gate list.
LEMMA StartKeepsInv ==
  ASSUME EngineInv, NEW r \in Runs, NEW x \in RunState, NEW list,
         BeforeGates(run[r]), SameHistory(run[r], x), OwnTicket(x, r),
         Commit(r, EmitStarted(x, list), list),
         overlapped \subseteq overlapped', overlapped' \subseteq Runs,
         ListSound(list, Injectors \cup (IF Inserts(r) THEN {r} ELSE {})),
         \A s \in Runs \ {r} :
           run[s].pc = "gate" /\ s \notin overlapped' => list = gateSteps,
         r \notin overlapped' => ~ InjectedByOther(r, list)
  PROVE  EngineInv'
<1> DEFINE A == Injectors \cup (IF Inserts(r) THEN {r} ELSE {})
           y == EmitStarted(x, list)
           alone == r \notin overlapped'
<1>1. TypeOK /\ Good(run[r], r, gateSteps, r \notin overlapped)
  BY BeforeStep
<1>2. A \in SUBSET Runs /\ ListSound(list, A) /\ alone \in BOOLEAN
  BY DEF Injectors
<1>3. x.stepsDone = <<>> /\ x.gateErrs = {}
  BY <1>1 DEF Good, SameHistory
<1>4. alone => ~ InjectedByOther(r, list) /\ TicketChecked(x, r)
  BY <1>1 DEF Good, SameHistory, TicketChecked
<1>5. request \in [Runs -> Requests]
  BY <1>1 DEF TypeOK
<1> HIDE DEF A
<1>6. y \in RunState /\ y.pc # "idle" /\ Good(y, r, list, alone)
  BY <1>2, <1>3, <1>4, <1>5, EmitStartedGood
<1> QED BY <1>6, CommitKeepsInv

\* Touch only adds executions, and adds r when it meets a foreign entry.
LEMMA TouchMarks ==
  ASSUME TypeOK, NEW r \in Runs, NEW list, Touch(r, list)
  PROVE  /\ overlapped \subseteq overlapped' /\ overlapped' \subseteq Runs
         /\ r \notin overlapped' => ~ InjectedByOther(r, list) /\ r \notin overlapped
  BY DEF Touch, TypeOK

\* A dry run, or a preflight without a ticket.
LEMMA ReceiveDryRunKeepsInv ==
  ASSUME EngineInv, NEW r \in Runs, ReceiveDryRun(r)
  PROVE  EngineInv'
<1>1. TypeOK /\ run[r] \in RunState /\ Good(run[r], r, gateSteps, r \notin overlapped)
  BY BeforeStep
<1>2. ~ Inserts(r) /\ BeforeGates(run[r])
  BY DEF ReceiveDryRun, Inserts, BeforeGates
<1>3. OwnTicket(run[r], r) /\ SameHistory(run[r], run[r])
  BY <1>1, <1>2 DEF Good, SameHistory
<1>4. Commit(r, EmitStarted(run[r], gateSteps), gateSteps) /\ Touch(r, gateSteps)
  BY DEF ReceiveDryRun
<1> QED BY <1>1, <1>2, <1>3, <1>4, BeforeStep, TouchMarks, StartKeepsInv

\* The end of the tag read.
LEMMA ReadTagsKeepsInv ==
  ASSUME EngineInv, NEW r \in Runs, ReadTags(r)
  PROVE  EngineInv'
<1>1. TypeOK /\ run[r] \in RunState /\ request[r] \in Requests
  BY BeforeStep
<1>2. BeforeGates(run[r]) /\ Active(r)
  BY DEF ReadTags, BeforeGates, Active, Over
<1>3. PICK t \in {request[r].ticket, NoTicket} :
        Commit(r, EmitStarted([run[r] EXCEPT !.ticket = t], gateSteps), gateSteps)
  BY DEF ReadTags
<1> DEFINE x == [run[r] EXCEPT !.ticket = t]
<1>4. x \in RunState /\ SameHistory(run[r], x) /\ OwnTicket(x, r)
  BY <1>1 DEF RunState, SameHistory, OwnTicket, Requests
<1>5. Touch(r, gateSteps) /\ Commit(r, EmitStarted(x, gateSteps), gateSteps)
  BY <1>3 DEF ReadTags
<1> HIDE DEF x
<1> QED BY <1>1, <1>2, <1>4, <1>5, BeforeStep, TouchMarks, StartKeepsInv

\* A preflight with a ticket: the list grows, and the loops suspended in it count
\* as overlapped from now on.
LEMMA ReceivePreflightKeepsInv ==
  ASSUME EngineInv, NEW r \in Runs, ReceivePreflight(r)
  PROVE  EngineInv'
<1> DEFINE list == <<r>> \o gateSteps
<1>1. /\ TypeOK /\ run[r] \in RunState /\ Good(run[r], r, gateSteps, r \notin overlapped)
      /\ ListSound(gateSteps, Injectors) /\ Injectors \in SUBSET Runs
  BY BeforeStep
<1>2. Inserts(r) /\ BeforeGates(run[r]) /\ r \notin Injectors
  BY DEF ReceivePreflight, Inserts, BeforeGates, Injectors, Injects, Active
<1>3. OwnTicket(run[r], r) /\ SameHistory(run[r], run[r])
  BY <1>1, <1>2 DEF Good, SameHistory
<1>4. /\ Commit(r, EmitStarted(run[r], list), list)
      /\ overlapped' = overlapped \cup {s \in Runs : run[s].pc = "gate"}
                         \cup (IF InjectedByOther(r, list) THEN {r} ELSE {})
  BY DEF ReceivePreflight
<1>5. ListSound(list, Injectors \cup (IF Inserts(r) THEN {r} ELSE {}))
  BY <1>1, <1>2, InsertKeepsSound
<1> HIDE DEF list
<1>6. /\ overlapped \subseteq overlapped' /\ overlapped' \subseteq Runs
      /\ r \notin overlapped' => ~ InjectedByOther(r, list)
      /\ \A s \in Runs \ {r} : run[s].pc = "gate" => s \in overlapped'
  BY <1>1, <1>4 DEF TypeOK
<1> QED BY <1>1, <1>2, <1>3, <1>4, <1>5, <1>6, StartKeepsInv

\* A step of an execution that leaves the list to the others.
LEMMA ResumeKeepsInv ==
  ASSUME EngineInv, NEW r \in Runs, Active(r), NEW y \in RunState, y.pc # "idle",
         Commit(r, y, gateSteps),
         overlapped \subseteq overlapped', overlapped' \subseteq Runs,
         Good(y, r, gateSteps, r \notin overlapped')
  PROVE  EngineInv'
  BY BeforeStep, CommitKeepsInv

\* The end of a gate: the abort, or the loop resumed in the list as it is now.
LEMMA GateEndsKeepsInv ==
  ASSUME EngineInv, NEW r \in Runs, GateEnds(r)
  PROVE  EngineInv'
<1>1. /\ TypeOK /\ run[r] \in RunState /\ Good(run[r], r, gateSteps, r \notin overlapped)
      /\ ListSound(gateSteps, Injectors) /\ Injectors \in SUBSET Runs
  BY BeforeStep
<1> DEFINE g == run[r].cur
           X(e) == [Record(run[r], e) EXCEPT
                      !.gatesDone = @ \cup {g},
                      !.gateErrs  = IF e = "ok" THEN @ ELSE @ \cup {g}]
           Y(e) == IF GateAborts(g, e) THEN EmitTerminalEvents(X(e))
                                       ELSE GateLoop(X(e), gateSteps, X(e).idx)
           alone == r \notin overlapped'
<1>2. PICK e \in GateOutcomes(g, run[r].ticket) : Commit(r, Y(e), gateSteps)
  BY DEF GateEnds
<1>3. /\ overlapped \subseteq overlapped' /\ overlapped' \subseteq Runs
      /\ alone => ~ InjectedByOther(r, gateSteps) /\ r \notin overlapped
  BY <1>1, TouchMarks DEF GateEnds
<1>4. e \in Outcomes
  BY DEF GateOutcomes, Outcomes
<1>5. /\ run[r].pc = "gate" /\ Active(r)
      /\ g \in Gates /\ run[r].idx > 0 /\ run[r].stepsDone = <<>>
      /\ run[r].gateErrs \cap Blocking = {}
      /\ RegisteredGates # <<>> /\ RegisteredGates[1] \in run[r].gatesDone \cup {g}
  BY <1>1 DEF GateEnds, Good, Active, Over
<1> DEFINE x == X(e)
           y == Y(e)
<1>6. /\ x \in RunState /\ x.stepsDone = <<>> /\ x.idx = run[r].idx /\ x.ticket = run[r].ticket
      /\ x.gatesDone = run[r].gatesDone \cup {g}
      /\ x.gateErrs = IF e = "ok" THEN run[r].gateErrs ELSE run[r].gateErrs \cup {g}
  <2> DEFINE z == Record(run[r], e)
  <2>1. /\ z \in RunState /\ z.stepsDone = <<>> /\ z.idx = run[r].idx
        /\ z.ticket = run[r].ticket
        /\ z.gatesDone = run[r].gatesDone /\ z.gateErrs = run[r].gateErrs
    BY <1>1, <1>4, <1>5, RecordSegment DEF SameHistory
  <2>2. x = [z EXCEPT !.gatesDone = @ \cup {g},
                      !.gateErrs  = IF e = "ok" THEN @ ELSE @ \cup {g}]
    OBVIOUS
  <2> HIDE DEF z, X, x, g
  <2>3. x.gatesDone \in SUBSET Gates /\ x.gateErrs \in SUBSET Gates
    BY <1>5, <2>1, <2>2 DEF RunState
  <2> QED BY <1>5, <2>1, <2>2, <2>3 DEF RunState
<1>7. y = IF GateAborts(g, e) THEN EmitTerminalEvents(x) ELSE GateLoop(x, gateSteps, x.idx)
  OBVIOUS
<1>8. Commit(r, y, gateSteps)
  BY <1>2
<1>9. alone => TicketChecked(x, r) /\ OwnTicket(x, r)
  <2> SUFFICES ASSUME alone PROVE TicketChecked(x, r) /\ OwnTicket(x, r)
    OBVIOUS
  <2>1. OwnTicket(run[r], r) /\ TicketChecked(run[r], r)
    BY <1>1, <1>3, <1>5 DEF Good
  <2>2. g \in TicketGates /\ e = "ok" => run[r].ticket \in Approved
    BY <1>2 DEF GateOutcomes
  <2>3. g \in TicketGates /\ e = "ok" => request[r].ticket \in Approved
    BY <2>1, <2>2, OtherConstants DEF OwnTicket
  <2> HIDE DEF X, Y, g
  <2> QED BY <1>6, <2>1, <2>3 DEF TicketChecked, OwnTicket
<1> HIDE DEF X, Y, x, y
<1>10. CASE GateAborts(g, e)
  <2>1. /\ y \in RunState /\ y.pc \in {"handler", "returned"} /\ y.cur # "STARTED"
        /\ SameHistory(x, y)
    BY <1>6, <1>7, <1>10, TerminalSegment
  <2>2. Good(y, r, gateSteps, alone)
    BY <1>6, <1>9, <2>1, GoodWhenNoStep DEF SameHistory, BeforeGates, TicketChecked
  <2> QED BY <1>3, <1>5, <1>8, <2>1, <2>2, ResumeKeepsInv
<1>11. CASE ~ GateAborts(g, e)
  <2>1. y = GateLoop(x, gateSteps, x.idx)
    BY <1>7, <1>11
  <2>2. x.idx \in Nat \ {0}
    BY <1>5, <1>6 DEF RunState
  <2>3. x.gateErrs \cap Blocking = {}
    BY <1>5, <1>6, <1>11 DEF GateAborts
  <2>4. RegisteredGates # <<>> /\ RegisteredGates[1] \in x.gatesDone
    BY <1>5, <1>6
  <2>5. alone => \A k \in 1 .. Len(gateSteps) :
          k < x.idx /\ gateSteps[k] \in Gates => gateSteps[k] \in x.gatesDone
    BY <1>1, <1>3, <1>5, <1>6 DEF Good
  <2>6. request \in [Runs -> Requests] /\ gateSteps \in Seq(Runs \cup Gates)
    BY <1>1 DEF TypeOK
  <2>7. Good(y, r, gateSteps, alone)
    BY <1>1, <1>3, <1>6, <1>9, <2>1, <2>2, <2>3, <2>4, <2>5, <2>6, GateLoopGood
  <2>8. LoopLeadsTo(x, gateSteps, x.idx, y)
    BY <1>6, <2>1, <2>2, <2>6, GateLoopSegment
  <2> QED BY <1>3, <1>5, <1>8, <2>7, <2>8, ResumeKeepsInv DEF LoopLeadsTo
<1> QED BY <1>10, <1>11

\* The end of a lifecycle handler.
LEMMA HandlerEndsKeepsInv ==
  ASSUME EngineInv, NEW r \in Runs, HandlerEnds(r)
  PROVE  EngineInv'
<1>1. /\ TypeOK /\ run[r] \in RunState /\ Good(run[r], r, gateSteps, r \notin overlapped)
      /\ ListSound(gateSteps, Injectors) /\ Injectors \in SUBSET Runs
  BY BeforeStep
<1> DEFINE X(e) == Record(run[r], e)
           Y(e) == IF X(e).idx < Handlers[X(e).cur] THEN [X(e) EXCEPT !.idx = @ + 1]
                                                    ELSE AfterEvent(X(e))
           alone == r \notin overlapped'
<1>2. PICK e \in Outcomes : Commit(r, Y(e), gateSteps)
  BY DEF HandlerEnds
<1>3. /\ overlapped \subseteq overlapped' /\ overlapped' \subseteq Runs
      /\ alone => ~ InjectedByOther(r, gateSteps) /\ r \notin overlapped
  BY <1>1, TouchMarks DEF HandlerEnds
<1>4. run[r].pc = "handler" /\ Active(r)
  BY DEF HandlerEnds, Active, Over
<1> DEFINE x == X(e)
           y == Y(e)
<1>5. /\ x \in RunState /\ SameHistory(run[r], x)
      /\ x.pc = "handler" /\ x.cur = run[r].cur /\ x.ticket = run[r].ticket
  BY <1>1, <1>4, RecordSegment
<1>6. y = IF x.idx < Handlers[x.cur] THEN [x EXCEPT !.idx = @ + 1] ELSE AfterEvent(x)
  OBVIOUS
<1>7. Commit(r, y, gateSteps)
  BY <1>2
<1> HIDE DEF X, Y, x, y
<1>8. Good(x, r, gateSteps, alone)
  BY <1>1, <1>3, <1>4, <1>5
     DEF Good, Past, OwnTicket, TicketChecked, AtStep, BeforeGates, SameHistory
<1>9. CASE x.idx < Handlers[x.cur]
  <2>1. y = [x EXCEPT !.idx = @ + 1]
    BY <1>6, <1>9
  <2>2. /\ y \in RunState /\ y.pc = "handler" /\ y.cur = x.cur /\ y.ticket = x.ticket
        /\ SameHistory(x, y)
    <3>1. x.idx + 1 \in Nat
      BY <1>5 DEF RunState
    <3> QED BY <1>5, <2>1, <3>1 DEF RunState, SameHistory
  <2>3. Good(y, r, gateSteps, alone)
    BY <1>5, <1>8, <2>2
       DEF Good, Past, OwnTicket, TicketChecked, AtStep, BeforeGates, SameHistory
  <2> QED BY <1>3, <1>4, <1>7, <2>2, <2>3, ResumeKeepsInv
<1>10. CASE ~ (x.idx < Handlers[x.cur]) /\ x.cur = "STARTED"
  <2>1. y = GateLoop(x, gateSteps, 1)
    BY <1>6, <1>10 DEF AfterEvent
  <2>2. /\ x.stepsDone = <<>> /\ x.gateErrs \cap Blocking = {} /\ OwnTicket(x, r)
        /\ alone => TicketChecked(x, r)
    BY <1>5, <1>8, <1>10 DEF Good, BeforeGates
  <2>3. 1 \in Nat \ {0} /\ \A k \in 1 .. Len(gateSteps) : ~ (k < 1)
    BY <1>1 DEF TypeOK
  <2>4. request \in [Runs -> Requests] /\ gateSteps \in Seq(Runs \cup Gates)
    BY <1>1 DEF TypeOK
  <2>5. Good(y, r, gateSteps, alone)
    BY <1>1, <1>3, <1>5, <2>1, <2>2, <2>3, <2>4, GateLoopGood
  <2>6. LoopLeadsTo(x, gateSteps, 1, y)
    BY <1>5, <2>1, <2>3, <2>4, GateLoopSegment
  <2> QED BY <1>3, <1>4, <1>7, <2>5, <2>6, ResumeKeepsInv DEF LoopLeadsTo
<1>11. CASE ~ (x.idx < Handlers[x.cur]) /\ x.cur # "STARTED"
  <2>1. y = EmitOutcome(x) \/ y = Return(x)
    BY <1>6, <1>11 DEF AfterEvent
  <2>2. /\ y \in RunState /\ y.pc \in {"handler", "returned"} /\ y.cur # "STARTED"
        /\ y.ticket = x.ticket /\ SameHistory(x, y)
    BY <1>5, <1>11, <2>1, TerminalSegment, ReturnSegment
  <2>3. Good(y, r, gateSteps, alone)
    BY <1>8, <2>2 DEF Good, Past, OwnTicket, TicketChecked, AtStep, BeforeGates, SameHistory
  <2> QED BY <1>3, <1>4, <1>7, <2>2, <2>3, ResumeKeepsInv
<1> QED BY <1>9, <1>10, <1>11

\* The end of a workflow step.
LEMMA StepEndsKeepsInv ==
  ASSUME EngineInv, NEW r \in Runs, StepEnds(r)
  PROVE  EngineInv'
<1>1. /\ TypeOK /\ run[r] \in RunState /\ Good(run[r], r, gateSteps, r \notin overlapped)
  BY BeforeStep
<1> DEFINE s == run[r].cur
           X(e) == [Record(run[r], e) EXCEPT
                      !.stepsDone = Append(@, s),
                      !.stepErrs  = IF e = "ok" THEN @ ELSE @ \cup {s}]
           Y(e) == IF StepAborts(s, e) \/ X(e).idx = Len(StepOrder)
                   THEN EmitTerminalEvents(X(e)) ELSE AwaitStep(X(e), X(e).idx + 1)
<1>2. PICK e \in Outcomes : Commit(r, Y(e), gateSteps)
  BY DEF StepEnds
<1>3. overlapped' = overlapped /\ overlapped \subseteq Runs
  BY <1>1 DEF StepEnds, TypeOK
<1>4. /\ run[r].pc = "step" /\ Active(r) /\ Past(run[r])
      /\ run[r].idx \in 1 .. Len(StepOrder) /\ s = StepOrder[run[r].idx]
      /\ Len(StepOrder) \in Nat
  BY <1>1, StepConstants DEF StepEnds, Active, Over, Past, Good, AtStep
<1>5. s \in Steps
  BY <1>4, StepConstants
<1> DEFINE x == X(e)
           y == Y(e)
<1>6. /\ x \in RunState /\ x.idx = run[r].idx /\ x.ticket = run[r].ticket
      /\ x.gatesDone = run[r].gatesDone /\ x.gateErrs = run[r].gateErrs
      /\ x.stepsDone = Append(run[r].stepsDone, s)
  <2> DEFINE z == Record(run[r], e)
  <2>1. /\ z \in RunState /\ z.stepsDone = run[r].stepsDone /\ z.idx = run[r].idx
        /\ z.ticket = run[r].ticket
        /\ z.gatesDone = run[r].gatesDone /\ z.gateErrs = run[r].gateErrs
    BY <1>1, RecordSegment DEF SameHistory
  <2>2. x = [z EXCEPT !.stepsDone = Append(@, s),
                      !.stepErrs  = IF e = "ok" THEN @ ELSE @ \cup {s}]
    OBVIOUS
  <2>3. Append(z.stepsDone, s) \in Seq(Steps)
    BY <1>5, <2>1 DEF RunState
  <2> HIDE DEF z, X, x, s
  <2> QED BY <1>5, <2>1, <2>2, <2>3 DEF RunState
<1>7. y = IF StepAborts(s, e) \/ x.idx = Len(StepOrder)
          THEN EmitTerminalEvents(x) ELSE AwaitStep(x, x.idx + 1)
  OBVIOUS
<1>8. Commit(r, y, gateSteps)
  BY <1>2
<1> HIDE DEF X, Y, x, y
<1>9. /\ y \in RunState /\ y.pc \in {"handler", "returned", "step"}
      /\ y.pc = "handler" => y.cur # "STARTED"
      /\ AtStep(y) /\ y.ticket = x.ticket /\ SameHistory(x, y)
  <2>1. CASE StepAborts(s, e) \/ x.idx = Len(StepOrder)
    BY <1>6, <1>7, <2>1, TerminalSegment DEF AtStep
  <2>2. CASE ~ (StepAborts(s, e) \/ x.idx = Len(StepOrder))
    <3>1. y = AwaitStep(x, x.idx + 1)
      BY <1>7, <2>2
    <3>2. x.idx + 1 \in 1 .. Len(StepOrder) /\ x.idx + 1 \in Nat
      BY <1>4, <1>6, <2>2
    <3>3. StepOrder[x.idx + 1] \in Steps
      BY <3>2, StepConstants
    <3> QED BY <1>6, <3>1, <3>2, <3>3 DEF AwaitStep, RunState, AtStep, SameHistory
  <2> QED BY <2>1, <2>2
<1>10. Good(y, r, gateSteps, r \notin overlapped')
  BY <1>1, <1>3, <1>4, <1>6, <1>9, GoodCarriesOver DEF SameHistory, BeforeGates
<1> QED BY <1>3, <1>4, <1>8, <1>9, <1>10, ResumeKeepsInv

-------------------------------------------------------------------------------
(***************************************************************************)
(* The theorems.                                                           *)
(***************************************************************************)

\* Before the first request nothing has been inserted.
LEMMA InitEstablishesInv == Init => EngineInv
<1> SUFFICES ASSUME Init PROVE InvByRun
  BY EngineInvByRun
<1>1. /\ Fresh \in RunState /\ Fresh.pc = "idle" /\ Fresh.stepsDone = <<>>
      /\ Fresh.gateErrs = {} /\ Fresh.gatesDone = {} /\ Fresh.ticket = NoTicket
  <2>1. <<>> \in Seq(Steps) /\ <<>> \in Seq(Events)
    OBVIOUS
  <2> QED BY <2>1 DEF Fresh, RunState
<1>2. gateSteps \in Seq(Runs \cup Gates) /\ run = [r \in Runs |-> Fresh]
  BY GateConstants DEF Init
<1>3. TypeOK
  BY <1>1, <1>2 DEF Init, TypeOK
<1>4. InjectedCount = 0
  BY GateConstants DEF Init, InjectedCount
<1>5. Len(gateSteps) >= Len(RegisteredGates)
  BY GateConstants DEF Init
<1>6. \A i \in 1 .. Len(RegisteredGates) : gateSteps[InjectedCount + i] = RegisteredGates[i]
  BY <1>4 DEF Init
<1>7. \A r \in Runs : ~ Injects(r)
  BY <1>1, <1>2 DEF Injects, Active
<1>8. GateListSound
  BY <1>4, <1>5, <1>6, <1>7 DEF GateListSound
<1>9. \A r \in Runs : Good(Fresh, r, gateSteps, r \notin overlapped)
  BY <1>1 DEF Good, Past, OwnTicket, TicketChecked, AtStep
<1> QED BY <1>2, <1>3, <1>8, <1>9 DEF InvByRun

\* Every step keeps the invariant.
LEMMA NextKeepsInv == EngineInv /\ [Next]_vars => EngineInv'
<1> SUFFICES ASSUME EngineInv, [Next]_vars PROVE EngineInv'
  OBVIOUS
<1>1. CASE UNCHANGED vars
  BY <1>1 DEF vars, EngineInv, TypeOK, GateListSound, InjectedCount, Injects, Active,
       LoopInv, IsolationInv, TicketInv, InjectedByOther, FirstGateNeverBypassed,
       BlockedMeansNoStep, GateIsolation, PastGates
<1>2. CASE Next
  <2>1. PICK r \in Runs : Receive(r) \/ Resume(r)
    BY <1>2 DEF Next
  <2>2. CASE ReceiveProvision(r)
    BY <2>2, ReceiveProvisionKeepsInv
  <2>3. CASE ReceiveDryRun(r)
    BY <2>3, ReceiveDryRunKeepsInv
  <2>4. CASE ReceivePreflight(r)
    BY <2>4, ReceivePreflightKeepsInv
  <2>5. CASE ReadTags(r)
    BY <2>5, ReadTagsKeepsInv
  <2>6. CASE HandlerEnds(r)
    BY <2>6, HandlerEndsKeepsInv
  <2>7. CASE GateEnds(r)
    BY <2>7, GateEndsKeepsInv
  <2>8. CASE StepEnds(r)
    BY <2>8, StepEndsKeepsInv
  <2> QED BY <2>1, <2>2, <2>3, <2>4, <2>5, <2>6, <2>7, <2>8 DEF Receive, Resume
<1> QED BY <1>1, <1>2

\* EngineInv is inductive, so it holds in every reachable state, for any number
\* of executions, gates, steps and handlers.
THEOREM EngineInvHolds == Spec => []EngineInv
<1> QED BY InitEstablishesInv, NextKeepsInv, PTL DEF Spec

\* Type correctness of the engine model.
THEOREM EngineTypeCorrect == Spec => []TypeOK
<1>1. EngineInv => TypeOK
  BY DEF EngineInv
<1> QED BY <1>1, EngineInvHolds, PTL

\* Whatever preflights arrive and end, the shared gate list keeps every gate
\* registered at startup, once per registration and in order, behind one entry
\* for each preflight that is still running.
THEOREM GateListKept == Spec => []GateListSound
<1>1. EngineInv => GateListSound
  BY DEF EngineInv
<1> QED BY <1>1, EngineInvHolds, PTL

\* No interleaving lets an execution reach a workflow step without its first
\* registered gate.
THEOREM FirstGateHolds == Spec => []FirstGateNeverBypassed
<1>1. EngineInv => FirstGateNeverBypassed
  BY DEF EngineInv
<1> QED BY <1>1, EngineInvHolds, PTL

\* An execution in which a blocking gate failed never reaches a workflow step.
THEOREM BlockedHolds == Spec => []BlockedMeansNoStep
<1>1. EngineInv => BlockedMeansNoStep
  BY DEF EngineInv
<1> QED BY <1>1, EngineInvHolds, PTL

\* An execution that overlaps no other execution's preflight passes every
\* registered gate, with its own ticket, before its first step.
THEOREM IsolationHolds == Spec => []GateIsolation
<1>1. EngineInv => GateIsolation
  BY DEF EngineInv
<1> QED BY <1>1, EngineInvHolds, PTL

\* Without such an overlap a subscription is provisioned only under an approved
\* ticket of its own, when a blocking ServiceNow gate is registered.
THEOREM ApprovedHolds == Spec => []ApprovedWhenIsolated
<1>1. EngineInv => ApprovedWhenIsolated
  <2> SUFFICES ASSUME EngineInv, NEW r \in Runs \ overlapped, PastGates(r),
                      NEW g \in ToSet(RegisteredGates) \cap TicketGates \cap Blocking
               PROVE  request[r].ticket \in Approved
    BY DEF ApprovedWhenIsolated
  <2>1. g \in run[r].gatesDone
    BY DEF EngineInv, GateIsolation
  <2>2. g \notin run[r].gateErrs
    BY DEF EngineInv, BlockedMeansNoStep
  <2> QED BY <2>1, <2>2 DEF EngineInv, TicketInv
<1> QED BY <1>1, EngineInvHolds, PTL
===============================================================================
