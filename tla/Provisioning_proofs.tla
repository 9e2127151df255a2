------------------------- MODULE Provisioning_proofs -------------------------
(***************************************************************************)
(* Proofs about the built-in and the extension steps, for any number of    *)
(* executions of any kind, any tags, policies and principals, and whatever *)
(* calls fail: a result that says success, and everything that is told the *)
(* outside, is true of the subscription; every step of a dry run stops at  *)
(* its line of the plan; the gate lets nobody through without an approved  *)
(* ticket, and not with the defaults unless a preflight interfered; and    *)
(* the last execution, when it met no other, leaves the subscription as    *)
(* its tags say.                                                           *)
(*                                                                         *)
(* Two inductive invariants: ProvInv, of what the executions do to the     *)
(* subscription, and GateInv, of the gate list they share.                 *)
(***************************************************************************)
EXTENDS Provisioning, SequenceTheorems, WellFoundedInduction, TLAPS

\* Where an execution is when the step has ended.
Ended == {"returned"}
BehindNotify     == {"API", "FEEDBACK", "WEBHOOK"} \cup Ended
BehindBudget     == {"NOTIFY"} \cup BehindNotify
BehindPolicy     == {"BUDGET"} \cup BehindBudget
BehindInitiative == {"RBAC", "POLICY"} \cup BehindPolicy
BehindMg         == {"INITIATIVE"} \cup BehindInitiative

\* Configured in the state a of Azure
ReadyIn(cfg, a) ==
  /\ a.initiative
  /\ \A p \in ToSet(Policies) : a.policies[p] > 0
  /\ cfg.budget > 0 => a.budget > 0

\* What an execution x without an error has put in place in a, step by step; and what its
\* result names.
WorkDone(x, a) ==
  /\ x.roles \subseteq a.roles
  /\ x.initiative => a.initiative
  /\ x.errs = {} =>
       /\ x.pc \in BehindMg => x.mg = TargetMg(x.cfg)
       /\ x.pc \in BehindInitiative => a.initiative
       /\ x.pc = "POLICY" =>
            \A i \in 1 .. x.item - 1 : i <= Len(Policies) => a.policies[Policies[i]] > 0
       /\ x.pc \in BehindPolicy => \A p \in ToSet(Policies) : a.policies[p] > 0
       /\ x.pc \in BehindBudget => (x.cfg.budget > 0 => a.budget > 0)

\* What no other execution may have changed since.
Settled(x, a) ==
  x.errs = {} =>
    /\ x.pc \in BehindMg => a.mg = TargetMg(x.cfg)
    /\ x.pc \in BehindBudget => (x.cfg.budget > 0 => a.budget = x.cfg.budget)

WorkInv == \A r \in Runs : ~ Dry(r) => WorkDone(run[r], azure)

\* Steps that the execution does not have are never reached, nor the gate by one that has
\* not loaded it.
PlaceOk(r, x) ==
  /\ x.item \in Nat \ {0}
  /\ x.pc \in Steps => x.pc \in ToSet(Order(r))
  /\ x.pc = "gate" => WithExtensions(r) /\ x.idx \in Nat \ {0}

PlaceInv == \A r \in Runs : PlaceOk(r, run[r])

\* A report was made by an execution that has its configuration for good, and was true.
ReportOk(m, x, a) ==
  /\ x.pc \in BehindBudget
  /\ m.success => ReadyIn(x.cfg, a) /\ m.mg = TargetMg(x.cfg)

SentInv == \A m \in sent : ~ Dry(m.by) /\ ReportOk(m, run[m.by], azure)

\* While an execution in `solo` is the latest, no other one changes anything.
Alone(r) == \A s \in Runs \ {r} : ~ Dry(s) => ~ Active(s)

SoloInv ==
  \A r \in solo :
    /\ ~ Dry(r)
    /\ run[r].pc # "idle"
    /\ latest = r => Alone(r) /\ Settled(run[r], azure)

\* The types of what is no part of the gate list.
CoreTypes ==
  /\ kind \in [Runs -> RequestKinds]
  /\ tags \in TagValues
  /\ retags \in Nat
  /\ azure \in [mg : Mgs, initiative : BOOLEAN, roles : SUBSET ToSet(RoleSpecs),
                policies : [ToSet(Policies) -> Nat], budget : Int]
  /\ run \in [Runs -> RunState]
  /\ sent \subseteq [by : Runs, to : {"topic", "ticket", "API", "WEBHOOK"},
                     success : BOOLEAN, mg : Mgs]
  /\ latest \in Runs \cup {"nobody"}
  /\ solo \subseteq Runs

\* The inductive invariant of the subscription.
ProvInv == CoreTypes /\ PlaceInv /\ WorkInv /\ SentInv /\ SoloInv

-------------------------------------------------------------------------------
(***************************************************************************)
(* The order of the steps                                                  *)
(***************************************************************************)

StepNames ==
  {"MG", "INITIATIVE", "RBAC", "POLICY", "BUDGET", "NOTIFY", "API", "FEEDBACK", "WEBHOOK"}

LEMMA BuiltInIs ==
  /\ BuiltIn \in Seq(StepNames) /\ Len(BuiltIn) = 6 /\ DOMAIN BuiltIn = 1 .. 6
  /\ BuiltIn[1] = "MG" /\ BuiltIn[2] = "INITIATIVE" /\ BuiltIn[3] = "RBAC"
  /\ BuiltIn[4] = "POLICY" /\ BuiltIn[5] = "BUDGET" /\ BuiltIn[6] = "NOTIFY"
BY DEF BuiltIn, StepNames

LEMMA StepOrderIs ==
  /\ StepOrder \in Seq(StepNames)
  /\ Len(StepOrder) = IF SnowInstance THEN 9 ELSE 8
  /\ StepOrder[1] = "MG" /\ StepOrder[2] = "INITIATIVE" /\ StepOrder[3] = "RBAC"
  /\ StepOrder[4] = "POLICY" /\ StepOrder[5] = "BUDGET" /\ StepOrder[6] = "NOTIFY"
  /\ StepOrder[7] = "API"
  /\ StepOrder[8] = IF SnowInstance THEN "FEEDBACK" ELSE "WEBHOOK"
  /\ SnowInstance => StepOrder[9] = "WEBHOOK"
<1> DEFINE ext == IF SnowInstance THEN <<"API", "FEEDBACK", "WEBHOOK">> ELSE <<"API", "WEBHOOK">>
<1>1. /\ ext \in Seq(StepNames)
      /\ Len(ext) = IF SnowInstance THEN 3 ELSE 2
      /\ ext[1] = "API"
      /\ ext[2] = IF SnowInstance THEN "FEEDBACK" ELSE "WEBHOOK"
      /\ SnowInstance => ext[3] = "WEBHOOK"
  <2>1. CASE SnowInstance
    <3>1. ext = <<"API", "FEEDBACK", "WEBHOOK">>
      BY <2>1
    <3> QED
      BY <2>1, <3>1 DEF StepNames
  <2>2. CASE ~ SnowInstance
    <3>1. ext = <<"API", "WEBHOOK">>
      BY <2>2
    <3> QED
      BY <2>2, <3>1 DEF StepNames
  <2> QED
    BY <2>1, <2>2
<1>2. StepOrder = BuiltIn \o ext
  BY DEF StepOrder
<1> HIDE DEF ext
<1>3. /\ BuiltIn \o ext \in Seq(StepNames)
      /\ Len(BuiltIn \o ext) = 6 + Len(ext)
      /\ \A i \in 1 .. 6 : (BuiltIn \o ext)[i] = BuiltIn[i]
      /\ \A i \in 1 .. Len(ext) : (BuiltIn \o ext)[6 + i] = ext[i]
  <2> HIDE DEF BuiltIn
  <2>1. BuiltIn \in Seq(StepNames) /\ Len(BuiltIn) = 6 /\ Len(ext) \in Nat
    BY <1>1, BuiltInIs
  <2>2. /\ BuiltIn \o ext \in Seq(StepNames)
        /\ Len(BuiltIn \o ext) = 6 + Len(ext)
        /\ \A i \in 1 .. 6 + Len(ext) :
             (BuiltIn \o ext)[i] = IF i <= 6 THEN BuiltIn[i] ELSE ext[i - 6]
    <3>1. /\ BuiltIn \o ext \in Seq(StepNames)
          /\ Len(BuiltIn \o ext) = Len(BuiltIn) + Len(ext)
          /\ \A i \in 1 .. Len(BuiltIn) + Len(ext) :
               (BuiltIn \o ext)[i] = IF i <= Len(BuiltIn) THEN BuiltIn[i] ELSE ext[i - Len(BuiltIn)]
      BY <1>1, <2>1, ConcatProperties
    <3> QED
      BY <2>1, <3>1
  <2>3. \A i \in 1 .. 6 : i \in 1 .. 6 + Len(ext) /\ i <= 6
    BY <2>1
  <2>4. \A i \in 1 .. Len(ext) : 6 + i \in 1 .. 6 + Len(ext) /\ ~ (6 + i <= 6) /\ 6 + i - 6 = i
    BY <2>1
  <2> QED
    BY <2>2, <2>3, <2>4
<1>4. /\ StepOrder[7] = ext[1] /\ StepOrder[8] = ext[2]
      /\ SnowInstance => StepOrder[9] = ext[3]
  <2>1. \A i \in 1 .. Len(ext) : StepOrder[6 + i] = ext[i]
    BY <1>2, <1>3
  <2>2. 1 \in 1 .. Len(ext) /\ 2 \in 1 .. Len(ext) /\ (SnowInstance => 3 \in 1 .. Len(ext))
    BY <1>1
  <2>3. StepOrder[6 + 1] = ext[1] /\ StepOrder[6 + 2] = ext[2] /\ (SnowInstance => StepOrder[6 + 3] = ext[3])
    BY <2>1, <2>2
  <2> QED
    BY <2>3
<1>5. \A i \in 1 .. 6 : StepOrder[i] = BuiltIn[i]
  BY <1>2, <1>3
<1>6. /\ StepOrder[1] = "MG" /\ StepOrder[2] = "INITIATIVE" /\ StepOrder[3] = "RBAC"
      /\ StepOrder[4] = "POLICY" /\ StepOrder[5] = "BUDGET" /\ StepOrder[6] = "NOTIFY"
  BY <1>5, BuiltInIs
<1>7. StepOrder \in Seq(StepNames) /\ Len(StepOrder) = IF SnowInstance THEN 9 ELSE 8
  BY <1>1, <1>2, <1>3
<1> QED
  BY <1>1, <1>4, <1>6, <1>7

LEMMA StepsAre ==
  /\ DOMAIN StepOrder = IF SnowInstance THEN 1 .. 9 ELSE 1 .. 8
  /\ Steps = {"MG", "INITIATIVE", "RBAC", "POLICY", "BUDGET", "NOTIFY", "API", "WEBHOOK"}
              \cup (IF SnowInstance THEN {"FEEDBACK"} ELSE {})
<1>1. DOMAIN StepOrder = 1 .. Len(StepOrder)
  <2>1. \A q \in Seq(StepNames) : DOMAIN q = 1 .. Len(q)
    OBVIOUS
  <2> QED
    BY <2>1, StepOrderIs
<1>2. CASE SnowInstance
  <2>1. DOMAIN StepOrder = 1 .. 9
    BY <1>1, <1>2, StepOrderIs
  <2>2. \A i : i \in 1 .. 9 <=> i \in {1, 2, 3, 4, 5, 6, 7, 8, 9}
    OBVIOUS
  <2>3. \A s : s \in Steps <=> \E i \in {1, 2, 3, 4, 5, 6, 7, 8, 9} : StepOrder[i] = s
    BY <2>1, <2>2 DEF Steps, ToSet
  <2> QED
    BY <1>2, <2>1, <2>3, StepOrderIs
<1>3. CASE ~ SnowInstance
  <2>1. DOMAIN StepOrder = 1 .. 8
    BY <1>1, <1>3, StepOrderIs
  <2>2. \A i : i \in 1 .. 8 <=> i \in {1, 2, 3, 4, 5, 6, 7, 8}
    OBVIOUS
  <2>3. \A s : s \in Steps <=> \E i \in {1, 2, 3, 4, 5, 6, 7, 8} : StepOrder[i] = s
    BY <2>1, <2>2 DEF Steps, ToSet
  <2> QED
    BY <1>3, <2>1, <2>3, StepOrderIs
<1> QED
  BY <1>2, <1>3

LEMMA PositionIs ==
  /\ Position("MG") = 1 /\ Position("INITIATIVE") = 2 /\ Position("RBAC") = 3
  /\ Position("POLICY") = 4 /\ Position("BUDGET") = 5 /\ Position("NOTIFY") = 6
  /\ Position("API") = 7 /\ Position("WEBHOOK") = IF SnowInstance THEN 9 ELSE 8
  /\ SnowInstance => Position("FEEDBACK") = 8
<1>1. ASSUME NEW i \in DOMAIN StepOrder PROVE Position(StepOrder[i]) = i
  <2>1. \A j \in DOMAIN StepOrder : StepOrder[j] = StepOrder[i] => j = i
    <3>1. CASE SnowInstance
      <4>1. \A j \in DOMAIN StepOrder : j \in {1, 2, 3, 4, 5, 6, 7, 8, 9}
        BY <3>1, StepsAre
      <4> QED
        BY <3>1, <4>1, StepOrderIs
    <3>2. CASE ~ SnowInstance
      <4>1. \A j \in DOMAIN StepOrder : j \in {1, 2, 3, 4, 5, 6, 7, 8}
        BY <3>2, StepsAre
      <4> QED
        BY <3>2, <4>1, StepOrderIs
    <3> QED
      BY <3>1, <3>2
  <2> QED
    BY <2>1 DEF Position
<1>2. \A i \in 1 .. 8 : i \in DOMAIN StepOrder
  BY StepsAre
<1>3. SnowInstance => 9 \in DOMAIN StepOrder
  BY StepsAre
<1> QED
  BY <1>1, <1>2, <1>3, StepOrderIs

LEMMA OrderIs ==
  ASSUME NEW r
  PROVE  /\ WithExtensions(r) => Order(r) = StepOrder /\ ToSet(Order(r)) = Steps
         /\ ~ WithExtensions(r) =>
              /\ Order(r) = BuiltIn
              /\ ToSet(Order(r)) = {"MG", "INITIATIVE", "RBAC", "POLICY", "BUDGET", "NOTIFY"}
<1>1. ToSet(BuiltIn) = {"MG", "INITIATIVE", "RBAC", "POLICY", "BUDGET", "NOTIFY"}
  <2>1. \A i : i \in 1 .. 6 <=> i \in {1, 2, 3, 4, 5, 6}
    OBVIOUS
  <2>2. \A s : s \in ToSet(BuiltIn) <=> \E i \in {1, 2, 3, 4, 5, 6} : BuiltIn[i] = s
    BY <2>1, BuiltInIs DEF ToSet
  <2> QED
    BY <2>2, BuiltInIs
<1> QED
  BY <1>1 DEF Order, Steps

\* Where execution r is after the step.
After(r, step) ==
  CASE step = "MG" -> "INITIATIVE"
    [] step = "INITIATIVE" -> "RBAC"
    [] step = "RBAC" -> "POLICY"
    [] step = "POLICY" -> "BUDGET"
    [] step = "BUDGET" -> "NOTIFY"
    [] step = "NOTIFY" -> IF WithExtensions(r) THEN "API" ELSE "returned"
    [] step = "API" -> IF SnowInstance THEN "FEEDBACK" ELSE "WEBHOOK"
    [] step = "FEEDBACK" -> "WEBHOOK"
    [] step = "WEBHOOK" -> "returned"

LEMMA AfterIs ==
  ASSUME NEW r, NEW step \in ToSet(Order(r))
  PROVE  /\ Position(step) = Len(Order(r)) <=> After(r, step) = "returned"
         /\ After(r, step) # "returned" =>
              /\ Order(r)[Position(step) + 1] = After(r, step)
              /\ After(r, step) \in ToSet(Order(r))
<1> DEFINE Fits(s) == /\ Position(s) = Len(Order(r)) <=> After(r, s) = "returned"
                      /\ After(r, s) # "returned" =>
                           /\ Order(r)[Position(s) + 1] = After(r, s)
                           /\ After(r, s) \in ToSet(Order(r))
<1>1. /\ After(r, "MG") = "INITIATIVE" /\ After(r, "INITIATIVE") = "RBAC"
      /\ After(r, "RBAC") = "POLICY" /\ After(r, "POLICY") = "BUDGET"
      /\ After(r, "BUDGET") = "NOTIFY"
      /\ After(r, "NOTIFY") = IF WithExtensions(r) THEN "API" ELSE "returned"
      /\ After(r, "API") = IF SnowInstance THEN "FEEDBACK" ELSE "WEBHOOK"
      /\ After(r, "FEEDBACK") = "WEBHOOK" /\ After(r, "WEBHOOK") = "returned"
  BY DEF After
<1>2. /\ Order(r)[1] = "MG" /\ Order(r)[2] = "INITIATIVE" /\ Order(r)[3] = "RBAC"
      /\ Order(r)[4] = "POLICY" /\ Order(r)[5] = "BUDGET" /\ Order(r)[6] = "NOTIFY"
      /\ {"MG", "INITIATIVE", "RBAC", "POLICY", "BUDGET", "NOTIFY"} \subseteq ToSet(Order(r))
  <2>1. CASE WithExtensions(r)
    BY <2>1, OrderIs, StepOrderIs, StepsAre
  <2>2. CASE ~ WithExtensions(r)
    BY <2>2, OrderIs, BuiltInIs
  <2> QED
    BY <2>1, <2>2
<1>3. Len(Order(r)) = IF WithExtensions(r) THEN IF SnowInstance THEN 9 ELSE 8 ELSE 6
  BY OrderIs, BuiltInIs, StepOrderIs
<1>4. Fits("MG") /\ Fits("INITIATIVE") /\ Fits("RBAC") /\ Fits("POLICY") /\ Fits("BUDGET")
  BY <1>1, <1>2, <1>3, PositionIs
<1>5. CASE WithExtensions(r)
  <2>1. /\ Order(r)[7] = "API" /\ Order(r)[8] = IF SnowInstance THEN "FEEDBACK" ELSE "WEBHOOK"
        /\ SnowInstance => Order(r)[9] = "WEBHOOK"
        /\ ToSet(Order(r)) = {"MG", "INITIATIVE", "RBAC", "POLICY", "BUDGET", "NOTIFY", "API", "WEBHOOK"}
                             \cup (IF SnowInstance THEN {"FEEDBACK"} ELSE {})
    BY <1>5, OrderIs, StepOrderIs, StepsAre
  <2>2. Fits("NOTIFY")
    BY <1>1, <1>3, <1>5, <2>1, PositionIs
  <2>3. Fits("API")
    BY <1>1, <1>3, <1>5, <2>1, PositionIs
  <2>4. SnowInstance => Fits("FEEDBACK")
    BY <1>1, <1>3, <1>5, <2>1, PositionIs
  <2>5. Fits("WEBHOOK")
    BY <1>1, <1>3, <1>5, <2>1, PositionIs
  <2> HIDE DEF Fits
  <2>6. Fits(step)
    BY <1>4, <2>1, <2>2, <2>3, <2>4, <2>5
  <2> QED
    BY <2>6 DEF Fits
<1>6. CASE ~ WithExtensions(r)
  <2>1. ToSet(Order(r)) = {"MG", "INITIATIVE", "RBAC", "POLICY", "BUDGET", "NOTIFY"}
    BY <1>6, OrderIs
  <2>2. Fits("NOTIFY")
    BY <1>1, <1>3, <1>6, PositionIs
  <2> HIDE DEF Fits
  <2>3. Fits(step)
    BY <1>4, <2>1, <2>2
  <2> QED
    BY <2>3 DEF Fits
<1> QED
  BY <1>5, <1>6

LEMMA OrderInSteps ==
  ASSUME NEW r
  PROVE  ToSet(Order(r)) \subseteq Steps
BY OrderIs, StepsAre

-------------------------------------------------------------------------------
(***************************************************************************)
(* One execution moves                                                     *)
(***************************************************************************)

\* What StepOver makes of the local state.
LEMMA StepOverIs ==
  ASSUME NEW r, NEW x \in RunState, x.pc \in ToSet(Order(r)), x.item \in Nat \ {0},
         NEW error \in BOOLEAN
  PROVE  LET y == StepOver(r, x, error)
         IN  /\ y \in RunState
             /\ y.pc = After(r, x.pc)
             /\ y.pc \in ToSet(Order(r)) \cup {"returned"}
             /\ y.item \in Nat \ {0} /\ (y.pc # "returned" => y.item = 1)
             /\ y.cfg = x.cfg /\ y.mg = x.mg /\ y.initiative = x.initiative /\ y.roles = x.roles
             /\ y.plan = x.plan
             /\ y.errs = IF error THEN x.errs \cup {x.pc} ELSE x.errs
<1> DEFINE z == IF error THEN [x EXCEPT !.errs = @ \cup {x.pc}] ELSE x
           y == StepOver(r, x, error)
           next == After(r, x.pc)
<1>1. x.pc \in Steps
  BY OrderInSteps
<1>2. /\ z \in RunState
      /\ z.item = x.item
      /\ z.cfg = x.cfg /\ z.mg = x.mg /\ z.initiative = x.initiative /\ z.roles = x.roles
      /\ z.plan = x.plan
      /\ z.errs = IF error THEN x.errs \cup {x.pc} ELSE x.errs
  BY <1>1 DEF RunState
<1>3. y = IF next = "returned" THEN [z EXCEPT !.pc = "returned"] ELSE Await(z, next)
  BY AfterIs DEF StepOver
<1>4. next # "returned" => next \in ToSet(Order(r)) /\ next \in Steps
  BY AfterIs, OrderInSteps
<1> HIDE DEF z, next
<1>5. CASE next = "returned"
  <2>1. y = [z EXCEPT !.pc = "returned"]
    BY <1>3, <1>5
  <2>2. /\ y \in RunState /\ y.pc = "returned" /\ y.item = z.item
        /\ y.cfg = z.cfg /\ y.mg = z.mg /\ y.initiative = z.initiative /\ y.roles = z.roles
        /\ y.plan = z.plan /\ y.errs = z.errs
    BY <1>2, <2>1 DEF RunState
  <2> HIDE DEF y
  <2>3. y.pc = After(r, x.pc)
    BY <1>5, <2>2 DEF next
  <2> QED
    BY <1>2, <2>2, <2>3 DEF y
<1>6. CASE next # "returned"
  <2>1. y = [z EXCEPT !.pc = next, !.item = 1]
    BY <1>3, <1>6 DEF Await
  <2>2. /\ y \in RunState /\ y.pc = next /\ y.item = 1
        /\ y.cfg = z.cfg /\ y.mg = z.mg /\ y.initiative = z.initiative /\ y.roles = z.roles
        /\ y.plan = z.plan /\ y.errs = z.errs
    <3> HIDE DEF y
    <3>1. next \in Steps /\ z \in RunState
      BY <1>2, <1>4, <1>6
    <3>2. y \in RunState
      BY <2>1, <3>1 DEF RunState
    <3>3. y.pc = next /\ y.item = 1 /\ y.cfg = z.cfg
      BY <2>1, <3>1 DEF RunState
    <3>4. y.mg = z.mg /\ y.initiative = z.initiative /\ y.roles = z.roles /\ y.errs = z.errs
          /\ y.plan = z.plan
      BY <2>1, <3>1 DEF RunState
    <3> QED
      BY <3>2, <3>3, <3>4
  <2> HIDE DEF y
  <2>3. y.pc = After(r, x.pc) /\ y.pc \in ToSet(Order(r))
    BY <1>4, <1>6, <2>2 DEF next
  <2> QED
    BY <1>2, <2>2, <2>3 DEF y
<1> QED
  BY <1>5, <1>6

AzureState ==
  [mg : Mgs, initiative : BOOLEAN, roles : SUBSET ToSet(RoleSpecs),
   policies : [ToSet(Policies) -> Nat], budget : Int]

Reports ==
  [by : Runs, to : {"topic", "ticket", "API", "WEBHOOK"}, success : BOOLEAN, mg : Mgs]

\* What is in place in a is so in b.
Grown(a, b) ==
  /\ a.roles \subseteq b.roles
  /\ a.initiative => b.initiative
  /\ \A p \in ToSet(Policies) : a.policies[p] > 0 => b.policies[p] > 0
  /\ a.budget > 0 => b.budget > 0

LEMMA WorkStays ==
  ASSUME NEW x \in RunState, NEW a, NEW b, WorkDone(x, a), Grown(a, b)
  PROVE  WorkDone(x, b)
<1>1. x.item \in Nat
  BY DEF RunState
<1>2. \A i \in 1 .. x.item - 1 : i <= Len(Policies) => Policies[i] \in ToSet(Policies)
  <2>1. Policies \in Seq(ToSet(Policies))
    BY ProvisioningConstants
  <2> QED
    BY <1>1, <2>1
<1>3. x.roles \subseteq b.roles /\ (x.initiative => b.initiative)
  BY DEF WorkDone, Grown
<1>4. ASSUME x.errs = {}
      PROVE  /\ x.pc \in BehindMg => x.mg = TargetMg(x.cfg)
             /\ x.pc \in BehindInitiative => b.initiative
             /\ x.pc \in BehindPolicy => \A p \in ToSet(Policies) : b.policies[p] > 0
             /\ x.pc \in BehindBudget => (x.cfg.budget > 0 => b.budget > 0)
  BY <1>4 DEF WorkDone, Grown
<1>5. ASSUME x.errs = {}, x.pc = "POLICY"
      PROVE  \A i \in 1 .. x.item - 1 : i <= Len(Policies) => b.policies[Policies[i]] > 0
  BY <1>2, <1>5 DEF WorkDone, Grown
<1> QED
  BY <1>3, <1>4, <1>5 DEF WorkDone

LEMMA ReportStays ==
  ASSUME NEW m, NEW x, NEW a, NEW b, ReportOk(m, x, a), Grown(a, b)
  PROVE  ReportOk(m, x, b)
BY DEF ReportOk, ReadyIn, Grown

\* What r has to see to when it moves to y, Azure to a, and it sends the reports `new`.
LEMMA OneMoves ==
  ASSUME ProvInv, NEW r \in Runs, NEW y \in RunState, NEW a \in AzureState, NEW new,
         run' = [run EXCEPT ![r] = y], azure' = a, sent' = sent \cup new, UNCHANGED env,
         Active(r) \/ Dry(r),
         Grown(azure, a),
         a # azure => ~ Dry(r),
         y.pc # "idle",
         run[r].pc \in BehindBudget => y.pc \in BehindBudget /\ y.cfg = run[r].cfg,
         PlaceOk(r, y),
         ~ Dry(r) => WorkDone(y, a),
         new \subseteq Reports,
         \A m \in new : m.by = r /\ ~ Dry(r) /\ ReportOk(m, y, a),
         r \in solo /\ latest = r => Settled(y, a)
  PROVE  ProvInv'
<1>1. /\ kind' = kind /\ tags' = tags /\ retags' = retags /\ latest' = latest /\ solo' = solo
  BY DEF env
<1>2. CoreTypes /\ run \in [Runs -> RunState]
  BY DEF ProvInv, CoreTypes
<1>3. /\ run'[r] = y
      /\ \A s \in Runs \ {r} : run'[s] = run[s]
      /\ run' \in [Runs -> RunState]
  BY <1>2
<1>4. \A s \in Runs : Dry(s)' <=> Dry(s)
  BY <1>1 DEF Dry
<1>5. CoreTypes'
  <2>1. sent' \subseteq Reports
    BY <1>2 DEF CoreTypes, Reports
  <2> QED
    BY <1>1, <1>2, <1>3, <2>1 DEF CoreTypes, AzureState, Reports
<1>6. PlaceInv'
  <2> SUFFICES ASSUME NEW s \in Runs PROVE PlaceOk(s, run[s])'
    BY DEF PlaceInv
  <2>1. ASSUME NEW x, PlaceOk(s, x) PROVE PlaceOk(s, x)'
    BY <1>1, <2>1 DEF PlaceOk, Order, WithExtensions
  <2>2. PICK x : x = run'[s]
    OBVIOUS
  <2>3. PlaceOk(s, x)
    BY <1>3, <2>2 DEF ProvInv, PlaceInv
  <2>4. PlaceOk(s, x)'
    BY <2>1, <2>3
  <2> QED
    BY <2>2, <2>4 DEF PlaceOk
<1>7. WorkInv'
  <2> SUFFICES ASSUME NEW s \in Runs, ~ Dry(s) PROVE WorkDone(run'[s], a)
    BY <1>4 DEF WorkInv
  <2>1. CASE s = r
    BY <1>3, <2>1
  <2>2. CASE s # r
    <3>1. WorkDone(run[s], azure) /\ run[s] \in RunState
      BY <1>2 DEF ProvInv, WorkInv
    <3> QED
      BY <1>3, <2>2, <3>1, WorkStays
  <2> QED
    BY <2>1, <2>2
<1>8. SentInv'
  <2> SUFFICES ASSUME NEW m \in sent' PROVE ~ Dry(m.by)' /\ ReportOk(m, run'[m.by], a)
    BY DEF SentInv
  <2>1. CASE m \in new
    BY <1>3, <1>4, <2>1
  <2>2. CASE m \in sent
    <3>1. /\ m.by \in Runs /\ ~ Dry(m.by) /\ ReportOk(m, run[m.by], azure)
      BY <1>2, <2>2 DEF ProvInv, SentInv, CoreTypes
    <3>2. ReportOk(m, run[m.by], a)
      BY <3>1, ReportStays
    <3>3. ReportOk(m, run'[m.by], a)
      <4>1. CASE m.by = r
        BY <1>3, <3>2, <4>1 DEF ReportOk
      <4>2. CASE m.by # r
        BY <1>3, <3>1, <3>2, <4>2
      <4> QED
        BY <4>1, <4>2
    <3> QED
      BY <1>4, <3>1, <3>3
  <2> QED
    BY <2>1, <2>2
<1>9. SoloInv'
  <2>1. \A s \in Runs \ {r} : Active(s)' <=> Active(s)
    BY <1>3 DEF Active
  <2> SUFFICES ASSUME NEW q \in solo
               PROVE  /\ ~ Dry(q)
                      /\ run'[q].pc # "idle"
                      /\ latest = q => Alone(q)' /\ Settled(run'[q], a)
    BY <1>1, <1>2, <1>4 DEF SoloInv, CoreTypes
  <2>2. /\ q \in Runs /\ ~ Dry(q) /\ run[q].pc # "idle"
        /\ latest = q => Alone(q) /\ Settled(run[q], azure)
    BY <1>2 DEF ProvInv, SoloInv, CoreTypes
  <2>3. CASE q = r
    <3>1. latest = q => Alone(q)'
      BY <1>4, <2>1, <2>2, <2>3 DEF Alone
    <3> QED
      BY <1>3, <2>2, <2>3, <3>1
  <2>4. CASE q # r
    <3>1. run'[q] = run[q]
      BY <1>3, <2>2, <2>4
    <3>2. ASSUME latest = q PROVE Alone(q)' /\ Settled(run'[q], a)
      <4>1. Dry(r)
        BY <2>2, <2>4, <3>2 DEF Alone
      <4>2. a = azure
        BY <4>1
      <4> QED
        BY <1>4, <2>1, <2>2, <2>4, <3>1, <3>2, <4>1, <4>2 DEF Alone
    <3> QED
      BY <2>2, <3>1, <3>2
  <2> QED
    BY <2>3, <2>4
<1> QED
  BY <1>5, <1>6, <1>7, <1>8, <1>9 DEF ProvInv

\* It moves without a call that has an effect.
LEMMA SilentMove ==
  ASSUME ProvInv, NEW r \in Runs, NEW y \in RunState,
         run' = [run EXCEPT ![r] = y], azure' = azure, sent' = sent, UNCHANGED env,
         Active(r) \/ Dry(r),
         y.pc # "idle",
         run[r].pc \notin BehindBudget,
         PlaceOk(r, y),
         ~ Dry(r) => WorkDone(y, azure),
         r \in solo /\ latest = r => Settled(y, azure)
  PROVE  ProvInv'
<1>1. PICK a, new : a = azure /\ new = {}
  OBVIOUS
<1>2. a \in AzureState /\ Grown(azure, a) /\ azure' = a /\ (a # azure => ~ Dry(r))
  BY <1>1 DEF ProvInv, CoreTypes, AzureState, Grown
<1>3. sent' = sent \cup new /\ new \subseteq Reports
  BY <1>1
<1>4. \A m \in new : m.by = r /\ ~ Dry(r) /\ ReportOk(m, y, a)
  BY <1>1
<1>5. /\ ~ Dry(r) => WorkDone(y, a)
      /\ r \in solo /\ latest = r => Settled(y, a)
  BY <1>1
<1> QED
  BY <1>2, <1>3, <1>4, <1>5, OneMoves

-------------------------------------------------------------------------------
(***************************************************************************)
(* A step ends                                                             *)
(***************************************************************************)

LEMMA AfterSets ==
  ASSUME NEW r, NEW step \in ToSet(Order(r))
  PROVE  LET n == After(r, step)
         IN  /\ n \in BehindMg
             /\ n \in BehindInitiative <=> step \in {"INITIATIVE"} \cup BehindInitiative
             /\ n = "POLICY" <=> step = "RBAC"
             /\ n \in BehindPolicy <=> step \in {"POLICY"} \cup BehindPolicy
             /\ n \in BehindBudget <=> step \in {"BUDGET"} \cup BehindBudget
             /\ step # "MG" => step \in BehindMg
<1> USE DEF BehindMg, BehindInitiative, BehindPolicy, BehindBudget, BehindNotify, Ended
<1>1. step \in StepNames
  BY OrderIs, StepsAre DEF StepNames
<1>2. /\ After(r, "MG") = "INITIATIVE" /\ After(r, "INITIATIVE") = "RBAC"
      /\ After(r, "RBAC") = "POLICY" /\ After(r, "POLICY") = "BUDGET"
      /\ After(r, "BUDGET") = "NOTIFY"
      /\ After(r, "NOTIFY") \in {"API", "returned"}
      /\ After(r, "API") \in {"FEEDBACK", "WEBHOOK"}
      /\ After(r, "FEEDBACK") = "WEBHOOK" /\ After(r, "WEBHOOK") = "returned"
  BY DEF After
<1> DEFINE n == After(r, step)
<1>3. CASE step \in {"MG", "INITIATIVE", "RBAC"}
  BY <1>2, <1>3
<1>4. CASE step \in {"POLICY", "BUDGET", "NOTIFY"}
  BY <1>2, <1>4
<1>5. CASE step \in {"API", "FEEDBACK", "WEBHOOK"}
  BY <1>2, <1>5
<1> QED
  BY <1>1, <1>3, <1>4, <1>5 DEF StepNames

LEMMA MovingRun ==
  ASSUME ProvInv, NEW r \in Runs
  PROVE  /\ run[r] \in RunState /\ run[r].item \in Nat \ {0} /\ azure \in AzureState
         /\ run[r].pc \in Steps => run[r].pc \in ToSet(Order(r)) /\ Active(r)
         /\ ~ Dry(r) => WorkDone(run[r], azure)
         /\ r \in solo => ~ Dry(r)
         /\ r \in solo /\ latest = r => Settled(run[r], azure)
<1>1. "idle" \notin Steps /\ "returned" \notin Steps
  BY StepsAre
<1>2. run[r] \in RunState /\ azure \in AzureState
  BY DEF ProvInv, CoreTypes, AzureState
<1>3. PlaceOk(r, run[r])
  BY DEF ProvInv, PlaceInv
<1> QED
  BY <1>1, <1>2, <1>3 DEF ProvInv, PlaceOk, WorkInv, SoloInv, Active

\* How a step that is at its end leaves x, with Azure in the state a: without an error it
\* has done what it is for.
EndsWell(x, y, error, a) ==
  /\ y.roles \subseteq a.roles
  /\ y.initiative => a.initiative
  /\ ~ error /\ x.errs = {} =>
       /\ y.mg = IF x.pc = "MG" THEN TargetMg(x.cfg) ELSE x.mg
       /\ x.pc = "INITIATIVE" => a.initiative
       /\ x.pc = "POLICY" => \A p \in ToSet(Policies) : a.policies[p] > 0
       /\ x.pc = "BUDGET" => (x.cfg.budget > 0 => a.budget = x.cfg.budget)
       /\ IF x.pc = "MG" THEN a.mg = TargetMg(x.cfg) ELSE a.mg = azure.mg
       /\ x.pc # "BUDGET" => a.budget = azure.budget

LEMMA StepEnds ==
  ASSUME ProvInv, NEW r \in Runs, run[r].pc \in Steps,
         NEW x \in RunState, x.pc = run[r].pc, x.cfg = run[r].cfg, x.errs = run[r].errs,
         x.item = run[r].item,
         NEW error \in BOOLEAN, NEW a \in AzureState, NEW new,
         run' = [run EXCEPT ![r] = StepOver(r, x, error)], azure' = a, sent' = sent \cup new,
         UNCHANGED env,
         Grown(azure, a),
         a # azure => ~ Dry(r),
         ~ Dry(r) => EndsWell(run[r], x, error, a),
         new \subseteq Reports,
         new # {} => run[r].pc \in BehindBudget /\ ~ Dry(r) /\ a = azure,
         \A m \in new : m.by = r /\ m.success = Success(run[r]) /\ m.mg = run[r].mg
  PROVE  ProvInv'
<1> DEFINE y == StepOver(r, x, error)
<1>1. /\ run[r] \in RunState /\ run[r].item \in Nat \ {0} /\ run[r].pc \in ToSet(Order(r)) /\ Active(r)
      /\ ~ Dry(r) => WorkDone(run[r], azure)
      /\ r \in solo => ~ Dry(r)
      /\ r \in solo /\ latest = r => Settled(run[r], azure)
  BY MovingRun
<1>2. /\ y \in RunState /\ y.pc = After(r, run[r].pc)
      /\ y.pc \in ToSet(Order(r)) \cup {"returned"}
      /\ y.item \in Nat \ {0} /\ (y.pc # "returned" => y.item = 1)
      /\ y.cfg = run[r].cfg /\ y.mg = x.mg /\ y.initiative = x.initiative /\ y.roles = x.roles
      /\ y.errs = IF error THEN run[r].errs \cup {run[r].pc} ELSE run[r].errs
  <2>1. x.pc \in ToSet(Order(r)) /\ x.item \in Nat \ {0}
    BY <1>1
  <2>2. LET z == StepOver(r, x, error)
        IN  /\ z \in RunState
            /\ z.pc = After(r, x.pc)
            /\ z.pc \in ToSet(Order(r)) \cup {"returned"}
            /\ z.item \in Nat \ {0} /\ (z.pc # "returned" => z.item = 1)
            /\ z.cfg = x.cfg /\ z.mg = x.mg /\ z.initiative = x.initiative /\ z.roles = x.roles
            /\ z.plan = x.plan
            /\ z.errs = IF error THEN x.errs \cup {x.pc} ELSE x.errs
    BY <2>1, StepOverIs, Z3
  <2>3. x.pc = run[r].pc /\ x.cfg = run[r].cfg /\ x.errs = run[r].errs
    OBVIOUS
  <2>4. /\ y \in RunState /\ y.pc = After(r, x.pc)
        /\ y.pc \in ToSet(Order(r)) \cup {"returned"}
        /\ y.item \in Nat \ {0} /\ (y.pc # "returned" => y.item = 1)
        /\ y.cfg = x.cfg /\ y.mg = x.mg /\ y.initiative = x.initiative /\ y.roles = x.roles
        /\ y.errs = IF error THEN x.errs \cup {x.pc} ELSE x.errs
    BY <2>2
  <2> HIDE DEF y
  <2> QED
    BY <2>3, <2>4
<1>3. /\ y.pc \in BehindMg
      /\ y.pc \in BehindInitiative <=> run[r].pc \in {"INITIATIVE"} \cup BehindInitiative
      /\ y.pc = "POLICY" <=> run[r].pc = "RBAC"
      /\ y.pc \in BehindPolicy <=> run[r].pc \in {"POLICY"} \cup BehindPolicy
      /\ y.pc \in BehindBudget <=> run[r].pc \in {"BUDGET"} \cup BehindBudget
      /\ run[r].pc # "MG" => run[r].pc \in BehindMg
  BY <1>1, <1>2, AfterSets
<1> HIDE DEF y
<1>4. y.errs = {} => ~ error /\ run[r].errs = {}
  BY <1>2
<1>5. y.pc # "idle"
  BY <1>2, OrderInSteps, StepsAre
<1>6. PlaceOk(r, y)
  <2>1. PlaceOk(r, run[r])
    BY DEF ProvInv, PlaceInv
  <2>2. (y.pc \in Steps => y.pc \in ToSet(Order(r))) /\ y.pc # "gate"
    BY <1>2, OrderInSteps, StepsAre
  <2> QED
    BY <1>2, <2>1, <2>2 DEF PlaceOk
<1>7. ASSUME ~ Dry(r) PROVE WorkDone(y, a)
  <2>1. WorkDone(run[r], azure) /\ EndsWell(run[r], x, error, a)
    BY <1>1, <1>7
  <2>2. WorkDone(run[r], a)
    BY <1>1, <2>1, WorkStays
  <2>3. y.roles \subseteq a.roles /\ (y.initiative => a.initiative)
    BY <1>2, <2>1 DEF EndsWell
  <2>4. ASSUME y.errs = {}
        PROVE  /\ y.mg = TargetMg(y.cfg)
               /\ y.pc \in BehindInitiative => a.initiative
               /\ y.pc \in BehindPolicy => \A p \in ToSet(Policies) : a.policies[p] > 0
               /\ y.pc \in BehindBudget => (y.cfg.budget > 0 => a.budget > 0)
    <3>1. ~ error /\ run[r].errs = {} /\ y.cfg = run[r].cfg /\ y.mg = x.mg
      BY <1>2, <1>4, <2>4
    <3>2. y.mg = TargetMg(y.cfg)
      BY <1>3, <2>1, <2>2, <3>1 DEF EndsWell, WorkDone
    <3>3. y.pc \in BehindInitiative => a.initiative
      BY <1>3, <2>1, <2>2, <3>1 DEF EndsWell, WorkDone
    <3>4. y.pc \in BehindPolicy => \A p \in ToSet(Policies) : a.policies[p] > 0
      BY <1>3, <2>1, <2>2, <3>1 DEF EndsWell, WorkDone
    <3>5. y.pc \in BehindBudget => (y.cfg.budget > 0 => a.budget > 0)
      BY <1>3, <2>1, <2>2, <3>1 DEF EndsWell, WorkDone
    <3> QED
      BY <3>2, <3>3, <3>4, <3>5
  <2>5. y.pc = "POLICY" => \A i \in 1 .. y.item - 1 : FALSE
    BY <1>2
  <2> QED
    BY <2>3, <2>4, <2>5 DEF WorkDone
<1>8. ASSUME r \in solo, latest = r PROVE Settled(y, a)
  BY <1>1, <1>2, <1>3, <1>4, <1>8 DEF Settled, EndsWell
<1>9. ASSUME NEW m \in new PROVE m.by = r /\ ~ Dry(r) /\ ReportOk(m, y, a)
  <2>1. run[r].pc \in BehindBudget /\ ~ Dry(r) /\ a = azure
    BY <1>9
  <2>2. /\ run[r].pc \in BehindPolicy /\ run[r].pc \in BehindInitiative
        /\ run[r].pc \in BehindMg
    BY <2>1 DEF BehindPolicy, BehindInitiative, BehindMg
  <2>3. m.success => run[r].errs = {}
    BY <1>9 DEF Success
  <2> QED
    BY <1>1, <1>2, <1>3, <1>9, <2>1, <2>2, <2>3 DEF ReportOk, ReadyIn, WorkDone
<1>10. run' = [run EXCEPT ![r] = y]
  BY DEF y
<1> QED
  BY <1>1, <1>2, <1>3, <1>5, <1>6, <1>7, <1>8, <1>9, <1>10, OneMoves

-------------------------------------------------------------------------------
(***************************************************************************)
(* The start of an execution                                               *)
(***************************************************************************)

LEMMA ConfigTypes ==
  /\ DefaultConfig \in Config
  /\ ConfigWithoutTags \in Config
  /\ \A t \in TagValues : ConfigOf(t) \in Config
  /\ \A cfg \in Config : TargetMg(cfg) \in Mgs
<1>1. /\ ItlSandbox \in Mgs /\ EventMg \in Mgs /\ RootMg \in Mgs /\ NoMg \in Mgs
      /\ \A e \in DOMAIN MgMapping : MgMapping[e] \in Mgs
  BY DEF Mgs, Range
<1>2. \A e : ResolveManagementGroup(e) \in Mgs
  BY <1>1 DEF ResolveManagementGroup, DefaultMg
<1>3. \A t \in TagValues : BudgetOf(t.budget) \in Int
  <2>1. Budgets \subseteq Int \cup {NoTag, Malformed}
    BY ProvisioningConstants
  <2>2. \A t \in TagValues : t.budget \in Budgets
    BY DEF TagValues
  <2>3. 0 \in Int
    OBVIOUS
  <2>4. \A b \in Budgets : BudgetOf(b) \in Int
    BY <2>1, <2>3 DEF BudgetOf
  <2> QED
    BY <2>2, <2>4
<1>4. DefaultConfig \in Config
  BY <1>1 DEF DefaultConfig, Config
<1>5. ConfigWithoutTags \in Config
  BY <1>2 DEF ConfigWithoutTags, Config
<1>6. \A t \in TagValues : ConfigOf(t) \in Config
  BY <1>2, <1>3 DEF ConfigOf, Config
<1>7. \A cfg \in Config : TargetMg(cfg) \in Mgs
  BY <1>1 DEF TargetMg, Config
<1> QED
  BY <1>4, <1>5, <1>6, <1>7

LEMMA FirstStepIs ==
  ASSUME NEW x \in RunState
  PROVE  LET y == FirstStep(x)
         IN  /\ y \in RunState /\ y.pc = "MG" /\ y.item = 1
             /\ y.cfg = x.cfg /\ y.mg = x.mg /\ y.initiative = x.initiative /\ y.roles = x.roles
             /\ y.errs = x.errs
<1> DEFINE y == FirstStep(x)
<1>1. y = [x EXCEPT !.pc = "MG", !.item = 1] /\ "MG" \in Steps
  BY StepOrderIs, StepsAre DEF FirstStep, Await
<1> HIDE DEF y
<1>2. y \in RunState /\ y.pc = "MG" /\ y.item = 1
  BY <1>1 DEF RunState
<1>3. /\ y.cfg = x.cfg /\ y.mg = x.mg /\ y.initiative = x.initiative /\ y.roles = x.roles
      /\ y.errs = x.errs
  BY <1>1 DEF RunState
<1> QED
  BY <1>2, <1>3 DEF y

\* CHOOSE of Min finds the least element of a non-empty set of naturals.
LEMMA LeastIs ==
  ASSUME NEW S \in SUBSET Nat, S # {}
  PROVE  Min(S) \in S /\ \A n \in S : Min(S) <= n
<1>1. \E m \in S : \A n \in S : m <= n
  <2> DEFINE R == OpToRel(<, Nat)
  <2>1. \A a, b \in Nat : a < b => <<a, b>> \in R
    BY DEF OpToRel
  <2>2. PICK m \in S : \A n \in S : ~ (<<n, m>> \in R)
    BY WFMin, NatLessThanWellFounded
  <2> HIDE DEF R
  <2>3. \A n \in S : n \in Nat /\ m \in Nat /\ ~ (n < m)
    BY <2>1, <2>2
  <2> QED
    BY <2>3
<1> QED
  BY <1>1 DEF Min

\* What the gate loop leaves alone.
SameWork(x, y) ==
  y.mg = x.mg /\ y.initiative = x.initiative /\ y.roles = x.roles /\ y.errs = x.errs

Lists == Seq(Runs \cup {"gate"})

\* The loop comes to the next entry "gate", or behind a list that has none any more; the ticket
\* is replaced only where the loop meets an entry of a preflight.
LEMMA GateLoopIs ==
  ASSUME NEW x \in RunState, NEW list \in Lists, NEW i \in Nat \ {0}
  PROVE  LET y == GateLoop(x, list, i)
         IN  /\ y \in RunState /\ SameWork(x, y)
             /\ y.pc \in {"gate", "MG"}
             /\ y.pc = "gate" => y.idx \in Nat \ {0}
             /\ y.item = x.item \/ y.item = 1
             /\ y.cfg = x.cfg \/
                  /\ y.cfg.ticket = PreflightTicket
                  /\ i \in 1 .. Len(list) /\ list[i] # "gate"
             /\ y.pc = "MG" => \A k \in i .. Len(list) : list[k] # "gate"
<1> DEFINE gates == {k \in i .. Len(list) : list[k] = "gate"}
           stop  == IF gates = {} THEN Len(list) + 1 ELSE Min(gates)
           cfg   == [x.cfg EXCEPT !.ticket = PreflightTicket]
           plan  == x.plan \cup {"ticket"}
           z     == IF i < stop THEN [x EXCEPT !.cfg = cfg, !.plan = plan] ELSE x
           y     == IF gates = {} THEN FirstStep(z) ELSE [z EXCEPT !.pc = "gate", !.idx = stop + 1]
<1>1. Len(list) \in Nat
  BY DEF Lists
<1>2. gates \in SUBSET Nat
  BY <1>1
<1>3. /\ stop \in Nat
      /\ gates # {} => stop \in gates
      /\ i < stop => i \in 1 .. Len(list) /\ i \notin gates
  <2>1. CASE gates = {}
    <3>1. stop = Len(list) + 1
      BY <2>1
    <3> HIDE DEF gates, stop
    <3> QED
      BY <1>1, <2>1, <3>1
  <2>2. CASE gates # {}
    <3>1. stop \in gates /\ \A n \in gates : stop <= n
      BY <1>2, <2>2, LeastIs
    <3>2. stop \in i .. Len(list)
      BY <3>1
    <3> HIDE DEF gates, stop
    <3> QED
      BY <1>1, <3>1, <3>2
  <2> QED
    BY <2>1, <2>2
<1>4. i < stop => list[i] # "gate"
  BY <1>1, <1>3
<1>5. gates = {} => \A k \in i .. Len(list) : list[k] # "gate"
  OBVIOUS
<1>6. x.cfg \in Config /\ cfg \in Config /\ cfg.ticket = PreflightTicket
  BY DEF RunState, Config
<1>7. plan \in SUBSET ({"ticket", "gate"} \cup Steps)
  BY DEF RunState
<1>8. GateLoop(x, list, i) = y
  <2>1. [x EXCEPT !.cfg.ticket = PreflightTicket, !.plan = @ \cup {"ticket"}]
        = [x EXCEPT !.cfg = cfg, !.plan = plan]
    BY DEF RunState
  <2> QED
    BY <2>1 DEF GateLoop
<1> HIDE DEF gates, stop, cfg, plan
<1>9. /\ z \in RunState /\ SameWork(x, z) /\ z.item = x.item
      /\ z.cfg = IF i < stop THEN cfg ELSE x.cfg
  <2>1. CASE i < stop
    <3>1. z = [x EXCEPT !.cfg = cfg, !.plan = plan]
      BY <2>1
    <3> HIDE DEF z
    <3>2. z \in RunState /\ z.item = x.item /\ z.cfg = cfg
      BY <1>6, <1>7, <3>1 DEF RunState
    <3>3. SameWork(x, z)
      BY <3>1 DEF RunState, SameWork
    <3> QED
      BY <2>1, <3>2, <3>3
  <2>2. CASE ~ (i < stop)
    BY <2>2 DEF SameWork
  <2> QED
    BY <2>1, <2>2
<1> HIDE DEF z
<1>10. /\ y \in RunState /\ SameWork(z, y) /\ y.cfg = z.cfg
       /\ y.pc = IF gates = {} THEN "MG" ELSE "gate"
       /\ y.pc = "gate" => y.idx \in Nat \ {0}
       /\ y.item = z.item \/ y.item = 1
  <2>1. CASE gates = {}
    <3>1. y = FirstStep(z)
      BY <2>1
    <3> QED
      BY <1>9, <2>1, <3>1, FirstStepIs DEF SameWork
  <2>2. CASE gates # {}
    <3>1. PICK n : n = stop + 1
      OBVIOUS
    <3>2. y = [z EXCEPT !.pc = "gate", !.idx = n] /\ n \in Nat \ {0}
      BY <1>3, <2>2, <3>1
    <3> HIDE DEF y
    <3>3. y \in RunState /\ y.pc = "gate" /\ y.idx = n /\ y.item = z.item /\ y.cfg = z.cfg
      BY <1>9, <3>2 DEF RunState
    <3>4. SameWork(z, y)
      BY <1>9, <3>2 DEF RunState, SameWork
    <3> QED
      BY <2>2, <3>2, <3>3, <3>4
  <2> QED
    BY <2>1, <2>2
<1> HIDE DEF y
<1>11. y.cfg = x.cfg \/
         (y.cfg.ticket = PreflightTicket /\ i \in 1 .. Len(list) /\ list[i] # "gate")
  BY <1>3, <1>4, <1>6, <1>9, <1>10
<1>12. SameWork(x, y)
  BY <1>9, <1>10 DEF SameWork
<1> QED
  BY <1>5, <1>8, <1>9, <1>10, <1>11, <1>12

LEMMA StartedIs ==
  ASSUME NEW r, NEW x \in RunState, NEW list \in Lists
  PROVE  LET y == Started(r, x, list)
         IN  /\ y \in RunState /\ SameWork(x, y)
             /\ y.pc \in {"gate", "MG"}
             /\ y.pc = "gate" => WithExtensions(r) /\ y.idx \in Nat \ {0}
             /\ y.item = x.item \/ y.item = 1
<1>1. CASE WithExtensions(r)
  BY <1>1, GateLoopIs DEF Started
<1>2. CASE ~ WithExtensions(r)
  BY <1>2, FirstStepIs DEF Started, SameWork
<1> QED
  BY <1>1, <1>2

LEMMA FirstInOrder ==
  ASSUME NEW r
  PROVE  "MG" \in ToSet(Order(r))
BY OrderIs, StepsAre

LEMMA Unplaced ==
  /\ "gate" \notin Steps /\ "tags" \notin Steps /\ "idle" \notin Steps /\ "returned" \notin Steps
  /\ \A s \in {"gate", "tags", "idle", "MG"} : s \notin BehindMg
  /\ \A s \in {"gate", "tags", "idle", "MG"} : s \notin BehindInitiative
  /\ \A s \in {"gate", "tags", "idle", "MG"} : s \notin BehindPolicy
  /\ \A s \in {"gate", "tags", "idle", "MG"} : s \notin BehindBudget
<1>1. "gate" \notin Steps /\ "tags" \notin Steps /\ "idle" \notin Steps /\ "returned" \notin Steps
  BY StepsAre
<1> QED
  BY <1>1 DEF BehindMg, BehindInitiative, BehindPolicy, BehindBudget, BehindNotify, Ended

\* Before its first step an execution has done nothing.
LEMMA NothingDone ==
  ASSUME NEW x, NEW y, NEW a, WorkDone(x, a), y.roles = x.roles, y.initiative = x.initiative,
         y.pc \in {"gate", "tags", "MG"} \/ y.errs # {}
  PROVE  WorkDone(y, a) /\ Settled(y, a)
BY Unplaced DEF WorkDone, Settled

\* An execution gets its configuration and goes into the gate loop.
LEMMA BeginningKeepsInv ==
  ASSUME ProvInv, NEW r \in Runs, NEW x \in RunState, NEW list \in Lists,
         SameWork(run[r], x), x.item = run[r].item,
         run[r].pc = "tags" \/ (run[r].pc = "idle" /\ Dry(r)),
         run' = [run EXCEPT ![r] = Started(r, x, list)],
         azure' = azure, sent' = sent, UNCHANGED env
  PROVE  ProvInv'
<1>1. /\ run[r] \in RunState /\ run[r].item \in Nat \ {0} /\ azure \in AzureState
      /\ ~ Dry(r) => WorkDone(run[r], azure)
  BY MovingRun
<1>2. PICK y : y = Started(r, x, list)
  OBVIOUS
<1>3. /\ y \in RunState /\ SameWork(x, y) /\ y.pc \in {"gate", "MG"} /\ y.item \in Nat \ {0}
      /\ y.pc = "gate" => WithExtensions(r) /\ y.idx \in Nat \ {0}
  <2>1. LET z == Started(r, x, list)
        IN  /\ z \in RunState /\ SameWork(x, z)
            /\ z.pc \in {"gate", "MG"}
            /\ z.pc = "gate" => WithExtensions(r) /\ z.idx \in Nat \ {0}
            /\ z.item = x.item \/ z.item = 1
    BY StartedIs
  <2>2. y.item = x.item \/ y.item = 1
    BY <1>2, <2>1
  <2>3. y.item \in Nat \ {0}
    BY <1>1, <2>2
  <2> QED
    BY <1>2, <2>1, <2>3
<1>4. PlaceOk(r, y)
  BY <1>3, FirstInOrder, Unplaced DEF PlaceOk
<1>5. ~ Dry(r) => WorkDone(y, azure)
  BY <1>1, <1>3, NothingDone DEF SameWork
<1>6. Settled(y, azure)
  BY <1>3, Unplaced DEF Settled
<1>7. (Active(r) \/ Dry(r)) /\ run[r].pc \notin BehindBudget /\ y.pc # "idle"
  BY <1>3, Unplaced DEF Active
<1>8. run' = [run EXCEPT ![r] = y]
  BY <1>2
<1> QED
  BY <1>3, <1>4, <1>5, <1>6, <1>7, <1>8, SilentMove

LEMMA ReadTagsKeepsInv ==
  ASSUME ProvInv, gateSteps \in Lists, NEW r \in Runs, ReadTags(r)
  PROVE  ProvInv'
<1>1. PICK cfg, list :
        /\ cfg \in {ConfigOf(tags)} \cup {ConfigWithoutTags} /\ list = gateSteps
        /\ run' = [run EXCEPT ![r] = Started(r, [run[r] EXCEPT !.cfg = cfg], list)]
  BY DEF ReadTags, Commit
<1>2. run[r] \in RunState
  BY MovingRun
<1>3. run[r].pc = "tags" /\ azure' = azure /\ sent' = sent /\ UNCHANGED env
  BY DEF ReadTags
<1>4. cfg \in Config
  <2>1. tags \in TagValues
    BY DEF ProvInv, CoreTypes
  <2> QED
    BY <1>1, <2>1, ConfigTypes
<1>5. PICK x : x = [run[r] EXCEPT !.cfg = cfg]
  OBVIOUS
<1>6. x \in RunState /\ x.item = run[r].item /\ SameWork(run[r], x)
  BY <1>2, <1>4, <1>5 DEF RunState, SameWork
<1>7. list \in Lists /\ run' = [run EXCEPT ![r] = Started(r, x, list)]
  BY <1>1, <1>5
<1> QED
  BY <1>3, <1>6, <1>7, BeginningKeepsInv

\* A preflight sees the list with its own entry at the head.
LEMMA InsertedIs ==
  ASSUME NEW list \in Lists, NEW r \in Runs
  PROVE  /\ <<r>> \o list \in Lists
         /\ Len(<<r>> \o list) = Len(list) + 1
         /\ (<<r>> \o list)[1] = r
         /\ \A k \in 1 .. Len(list) : (<<r>> \o list)[k + 1] = list[k]
<1>1. <<r>> \in Lists /\ Len(<<r>>) = 1 /\ <<r>>[1] = r /\ Len(list) \in Nat
  BY DEF Lists
<1>2. /\ <<r>> \o list \in Lists
      /\ Len(<<r>> \o list) = 1 + Len(list)
      /\ \A i \in 1 .. 1 + Len(list) :
           (<<r>> \o list)[i] = IF i <= 1 THEN <<r>>[i] ELSE list[i - 1]
  <2>1. /\ <<r>> \o list \in Lists
        /\ Len(<<r>> \o list) = Len(<<r>>) + Len(list)
        /\ \A i \in 1 .. Len(<<r>>) + Len(list) :
             (<<r>> \o list)[i] = IF i <= Len(<<r>>) THEN <<r>>[i] ELSE list[i - Len(<<r>>)]
    BY <1>1, ConcatProperties DEF Lists
  <2> QED
    BY <1>1, <2>1
<1>3. /\ 1 \in 1 .. 1 + Len(list)
      /\ \A k \in 1 .. Len(list) : k + 1 \in 1 .. 1 + Len(list) /\ ~ (k + 1 <= 1) /\ (k + 1) - 1 = k
  BY <1>1
<1>4. (<<r>> \o list)[1] = r /\ \A k \in 1 .. Len(list) : (<<r>> \o list)[k + 1] = list[k]
  BY <1>1, <1>2, <1>3
<1> QED
  BY <1>1, <1>2, <1>4

LEMMA StartDryRunKeepsInv ==
  ASSUME ProvInv, gateSteps \in Lists, NEW r \in Runs, StartDryRun(r) \/ StartPreflight(r)
  PROVE  ProvInv'
<1>1. /\ run[r].pc = "idle" /\ Dry(r) /\ azure' = azure /\ sent' = sent /\ UNCHANGED env
  BY DEF StartDryRun, StartPreflight, Injects, Dry
<1>2. run[r] \in RunState /\ SameWork(run[r], run[r])
  BY MovingRun DEF SameWork
<1>3. PICK list \in Lists : run' = [run EXCEPT ![r] = Started(r, run[r], list)]
  <2>1. CASE StartDryRun(r)
    BY <2>1 DEF StartDryRun, Commit
  <2>2. CASE StartPreflight(r)
    <3>1. run' = [run EXCEPT ![r] = Started(r, run[r], <<r>> \o gateSteps)]
      BY <2>2 DEF StartPreflight, Commit
    <3> QED
      BY <3>1, InsertedIs
  <2> QED
    BY <2>1, <2>2
<1> QED
  BY <1>1, <1>2, <1>3, BeginningKeepsInv

\* The gate lets the execution through, back into the gate loop, or ends it.
LEMMA GateEndIs ==
  ASSUME NEW r, Gate(r)
  PROVE  \/ /\ run[r].cfg.ticket \in Approved
            /\ Commit(r, GateLoop([run[r] EXCEPT !.plan = @ \cup {"gate"}], gateSteps, run[r].idx),
                      gateSteps)
         \/ Commit(r, [run[r] EXCEPT !.errs = {"gate"}, !.pc = "returned"], gateSteps)
<1>1. PICK passes \in GatePasses(run[r].cfg.ticket) :
        Commit(r, IF passes
                  THEN GateLoop([run[r] EXCEPT !.plan = @ \cup {"gate"}], gateSteps, run[r].idx)
                  ELSE [run[r] EXCEPT !.errs = {"gate"}, !.pc = "returned"], gateSteps)
  BY DEF Gate
<1>2. CASE passes
  <2>1. run[r].cfg.ticket \in Approved
    BY <1>2 DEF GatePasses
  <2> QED
    BY <1>1, <1>2, <2>1
<1>3. CASE ~ passes
  BY <1>1, <1>3
<1> QED
  BY <1>2, <1>3

LEMMA PassedIs ==
  ASSUME NEW x \in RunState
  PROVE  LET y == [x EXCEPT !.plan = @ \cup {"gate"}]
         IN  /\ y \in RunState /\ SameWork(x, y) /\ y.cfg = x.cfg /\ y.item = x.item
             /\ y.plan = x.plan \cup {"gate"}
<1> DEFINE plan == x.plan \cup {"gate"}
<1>1. plan \in SUBSET ({"ticket", "gate"} \cup Steps)
  BY DEF RunState
<1>2. PICK y : y = [x EXCEPT !.plan = plan]
  OBVIOUS
<1> HIDE DEF plan
<1>3. y \in RunState /\ y.plan = plan /\ y.cfg = x.cfg /\ y.item = x.item
  BY <1>1, <1>2 DEF RunState
<1>4. SameWork(x, y)
  BY <1>2 DEF RunState, SameWork
<1> QED
  BY <1>2, <1>3, <1>4 DEF plan

LEMMA GateKeepsInv ==
  ASSUME ProvInv, gateSteps \in Lists, NEW r \in Runs, Gate(r)
  PROVE  ProvInv'
<1>1. /\ run[r] \in RunState /\ run[r].item \in Nat \ {0} /\ azure \in AzureState
      /\ ~ Dry(r) => WorkDone(run[r], azure)
      /\ PlaceOk(r, run[r])
  BY MovingRun DEF ProvInv, PlaceInv
<1>2. /\ run[r].pc = "gate" /\ azure' = azure /\ sent' = sent /\ UNCHANGED env
  BY DEF Gate
<1>3. WithExtensions(r) /\ run[r].idx \in Nat \ {0}
  BY <1>1, <1>2 DEF PlaceOk
<1>4. PICK y : /\ run' = [run EXCEPT ![r] = y]
               /\ y \in RunState /\ y.item \in Nat \ {0}
               /\ y.roles = run[r].roles /\ y.initiative = run[r].initiative
               /\ y.pc \in {"gate", "MG"} \/ (y.pc = "returned" /\ y.errs # {})
               /\ y.pc = "gate" => y.idx \in Nat \ {0}
  <2>1. CASE Commit(r, GateLoop([run[r] EXCEPT !.plan = @ \cup {"gate"}], gateSteps, run[r].idx),
                    gateSteps)
    <3>1. PICK x, i, y : /\ x = [run[r] EXCEPT !.plan = @ \cup {"gate"}] /\ i = run[r].idx
                         /\ y = GateLoop(x, gateSteps, i)
      OBVIOUS
    <3>2. x \in RunState /\ SameWork(run[r], x) /\ x.item = run[r].item
      BY <1>1, <3>1, PassedIs
    <3>3. /\ y \in RunState /\ SameWork(x, y) /\ y.pc \in {"gate", "MG"}
          /\ y.pc = "gate" => y.idx \in Nat \ {0}
          /\ y.item = x.item \/ y.item = 1
      BY <1>3, <3>1, <3>2, GateLoopIs
    <3>4. run' = [run EXCEPT ![r] = y]
      BY <2>1, <3>1 DEF Commit
    <3>5. y.roles = run[r].roles /\ y.initiative = run[r].initiative
      BY <3>2, <3>3 DEF SameWork
    <3>6. y.item \in Nat \ {0}
      BY <1>1, <3>2, <3>3
    <3> QED
      BY <3>3, <3>4, <3>5, <3>6
  <2>2. CASE Commit(r, [run[r] EXCEPT !.errs = {"gate"}, !.pc = "returned"], gateSteps)
    <3>1. PICK y : y = [run[r] EXCEPT !.errs = {"gate"}, !.pc = "returned"]
      OBVIOUS
    <3>2. /\ y \in RunState /\ y.item = run[r].item /\ y.roles = run[r].roles
          /\ y.initiative = run[r].initiative /\ y.pc = "returned" /\ y.errs # {}
      BY <1>1, <3>1 DEF RunState
    <3>3. run' = [run EXCEPT ![r] = y]
      BY <2>2, <3>1 DEF Commit
    <3> QED
      BY <1>1, <3>2, <3>3
  <2> QED
    BY <2>1, <2>2, GateEndIs
<1>5. PlaceOk(r, y)
  BY <1>3, <1>4, FirstInOrder, Unplaced DEF PlaceOk
<1>6. (~ Dry(r) => WorkDone(y, azure)) /\ Settled(y, azure)
  <2>1. ~ Dry(r) => WorkDone(y, azure)
    BY <1>1, <1>4, NothingDone
  <2> QED
    BY <1>4, <2>1, Unplaced DEF Settled
<1>7. Active(r) /\ run[r].pc \notin BehindBudget /\ y.pc # "idle"
  BY <1>2, <1>4, Unplaced DEF Active
<1> QED
  BY <1>2, <1>4, <1>5, <1>6, <1>7, SilentMove

-------------------------------------------------------------------------------
(***************************************************************************)
(* The steps                                                               *)
(***************************************************************************)

\* A step ends that tells nobody.
LEMMA QuietEnd ==
  ASSUME ProvInv, NEW r \in Runs, run[r].pc \in Steps,
         NEW x \in RunState, x.pc = run[r].pc, x.cfg = run[r].cfg, x.errs = run[r].errs,
         x.item = run[r].item,
         NEW error \in BOOLEAN, NEW a \in AzureState,
         run' = [run EXCEPT ![r] = StepOver(r, x, error)], azure' = a, sent' = sent,
         UNCHANGED env,
         Grown(azure, a),
         a # azure => ~ Dry(r),
         ~ Dry(r) => EndsWell(run[r], x, error, a)
  PROVE  ProvInv'
<1>1. PICK new : new = {}
  OBVIOUS
<1>2. /\ sent' = sent \cup new /\ new \subseteq Reports
      /\ new # {} => run[r].pc \in BehindBudget /\ ~ Dry(r) /\ a = azure
      /\ \A m \in new : m.by = r /\ m.success = Success(run[r]) /\ m.mg = run[r].mg
  BY <1>1
<1> QED
  BY <1>2, StepEnds

\* And one that leaves Azure as it is.
LEMMA SilentEnd ==
  ASSUME ProvInv, NEW r \in Runs, run[r].pc \in Steps,
         NEW x \in RunState, x.pc = run[r].pc, x.cfg = run[r].cfg, x.errs = run[r].errs,
         x.item = run[r].item,
         NEW error \in BOOLEAN,
         run' = [run EXCEPT ![r] = StepOver(r, x, error)], azure' = azure, sent' = sent,
         UNCHANGED env,
         ~ Dry(r) => EndsWell(run[r], x, error, azure)
  PROVE  ProvInv'
<1>1. PICK a : a = azure
  OBVIOUS
<1>2. /\ a \in AzureState /\ Grown(azure, a) /\ azure' = a
      /\ a # azure => ~ Dry(r)
      /\ ~ Dry(r) => EndsWell(run[r], x, error, a)
  BY <1>1 DEF ProvInv, CoreTypes, AzureState, Grown
<1> QED
  BY <1>2, QuietEnd

LEMMA PlannedIs ==
  ASSUME NEW x \in RunState, x.pc \in Steps
  PROVE  LET y == [x EXCEPT !.plan = @ \cup {x.pc}]
         IN  /\ y \in RunState /\ y.pc = x.pc /\ y.cfg = x.cfg /\ y.errs = x.errs
             /\ y.item = x.item /\ y.plan = x.plan \cup {x.pc}
<1> DEFINE plan == x.plan \cup {x.pc}
<1>1. plan \in SUBSET ({"ticket", "gate"} \cup Steps)
  BY DEF RunState
<1>2. PICK y : y = [x EXCEPT !.plan = plan]
  OBVIOUS
<1> HIDE DEF plan
<1>3. /\ y \in RunState /\ y.pc = x.pc /\ y.cfg = x.cfg /\ y.errs = x.errs
      /\ y.item = x.item /\ y.plan = plan
  BY <1>1, <1>2 DEF RunState
<1> QED
  BY <1>2, <1>3 DEF plan

\* A step of a dry run adds its line to the plan.
LEMMA PlanKeepsInv ==
  ASSUME ProvInv, NEW r \in Runs, run[r].pc \in Steps, Dry(r),
         NEW x \in RunState, x.pc = run[r].pc, x.cfg = run[r].cfg, x.errs = run[r].errs,
         x.item = run[r].item,
         PlanStep(r, x)
  PROVE  ProvInv'
<1>1. PICK y : y = [x EXCEPT !.plan = @ \cup {x.pc}]
  OBVIOUS
<1>2. /\ y \in RunState /\ y.pc = run[r].pc /\ y.cfg = run[r].cfg /\ y.errs = run[r].errs
      /\ y.item = run[r].item
  BY <1>1, PlannedIs
<1>3. run' = [run EXCEPT ![r] = StepOver(r, y, FALSE)] /\ azure' = azure /\ sent' = sent /\ UNCHANGED env
  BY <1>1 DEF PlanStep, EndStep, Commit
<1> QED
  BY <1>2, <1>3, SilentEnd

LEMMA MovedKeepsInv ==
  ASSUME ProvInv, NEW r \in Runs, ~ Dry(r), run[r].pc = "MG", NEW mg, mg = TargetMg(run[r].cfg),
         NEW o, MoveSubscription(mg, o), sent' = sent,
         IF o = "done" THEN EndStep(r, [run[r] EXCEPT !.mg = mg], FALSE)
                       ELSE EndStep(r, run[r], TRUE)
  PROVE  ProvInv'
<1>1. run' = [run EXCEPT ![r] = IF o = "done" THEN StepOver(r, [run[r] EXCEPT !.mg = mg], FALSE)
                                ELSE StepOver(r, run[r], TRUE)]
  BY DEF EndStep, Commit
<1>2. /\ run[r] \in RunState /\ azure \in AzureState /\ run[r].pc \in Steps
      /\ WorkDone(run[r], azure)
      /\ UNCHANGED env
  BY MovingRun, StepsAre DEF EndStep
<1>3. mg \in Mgs
  BY <1>1, <1>2, ConfigTypes DEF RunState
<1>4. PICK a : a = IF o \in Effects THEN [azure EXCEPT !.mg = mg] ELSE azure
  OBVIOUS
<1>5. /\ a \in AzureState /\ Grown(azure, a) /\ azure' = a
      /\ a.roles = azure.roles /\ a.initiative = azure.initiative /\ a.budget = azure.budget
      /\ o \in Effects => a.mg = mg
  BY <1>1, <1>2, <1>3, <1>4 DEF AzureState, Grown, MoveSubscription
<1>7. CASE o = "done"
  <2>1. PICK x : x = [run[r] EXCEPT !.mg = mg]
    OBVIOUS
  <2>2. /\ x \in RunState /\ x.pc = run[r].pc /\ x.cfg = run[r].cfg /\ x.errs = run[r].errs
        /\ x.item = run[r].item /\ x.mg = mg /\ x.roles = run[r].roles
        /\ x.initiative = run[r].initiative
    BY <1>2, <1>3, <2>1 DEF RunState
  <2>3. a.mg = mg
    BY <1>5, <1>7 DEF Effects
  <2>4. EndsWell(run[r], x, FALSE, a)
    BY <1>1, <1>2, <1>5, <2>2, <2>3 DEF EndsWell, WorkDone
  <2>5. run' = [run EXCEPT ![r] = StepOver(r, x, FALSE)]
    BY <1>1, <1>7, <2>1
  <2> QED
    BY <1>2, <1>5, <2>2, <2>4, <2>5, QuietEnd
<1>8. CASE o # "done"
  <2>1. EndsWell(run[r], run[r], TRUE, a)
    BY <1>2, <1>5 DEF EndsWell, WorkDone
  <2>2. run' = [run EXCEPT ![r] = StepOver(r, run[r], TRUE)]
    BY <1>1, <1>8
  <2> QED
    BY <1>2, <1>5, <2>1, <2>2, QuietEnd
<1> QED
  BY <1>7, <1>8
LEMMA StepMgKeepsInv ==
  ASSUME ProvInv, NEW r \in Runs, StepMg(r)
  PROVE  ProvInv'
<1>1. CASE Dry(r)
  <2>1. PICK x : x = [run[r] EXCEPT !.mg = TargetMg(run[r].cfg)]
    OBVIOUS
  <2>2. run[r] \in RunState /\ run[r].pc \in Steps /\ TargetMg(run[r].cfg) \in Mgs
    <3>1. run[r] \in RunState /\ run[r].pc = "MG"
      BY MovingRun DEF StepMg
    <3> QED
      BY <3>1, StepsAre, ConfigTypes DEF RunState
  <2>3. /\ x \in RunState /\ x.pc = run[r].pc /\ x.cfg = run[r].cfg /\ x.errs = run[r].errs
        /\ x.item = run[r].item
    BY <2>1, <2>2 DEF RunState
  <2>4. PlanStep(r, x)
    BY <1>1, <2>1 DEF StepMg
  <2> QED
    BY <1>1, <2>2, <2>3, <2>4, PlanKeepsInv
<1>2. CASE ~ Dry(r)
  <2>1. PICK mg, o : /\ mg = TargetMg(run[r].cfg)
                     /\ MoveSubscription(mg, o)
                     /\ IF o = "done" THEN EndStep(r, [run[r] EXCEPT !.mg = mg], FALSE)
                                     ELSE EndStep(r, run[r], TRUE)
                     /\ sent' = sent
    BY <1>2 DEF StepMg
  <2> QED
    BY <1>2, <2>1, MovedKeepsInv DEF StepMg
<1> QED
  BY <1>1, <1>2

LEMMA StepInitiativeKeepsInv ==
  ASSUME ProvInv, NEW r \in Runs, ~ Dry(r), StepInitiative(r)
  PROVE  ProvInv'
<1>1. PICK o : /\ AttachInitiative(o)
               /\ EndStep(r, [run[r] EXCEPT !.initiative = (o = "done")], o # "done")
               /\ sent' = sent
  BY DEF StepInitiative
<1>2. /\ run[r] \in RunState /\ azure \in AzureState
      /\ run[r].pc = "INITIATIVE" /\ run[r].pc \in Steps
      /\ WorkDone(run[r], azure)
      /\ UNCHANGED env
  BY <1>1, MovingRun, StepsAre DEF StepInitiative, EndStep
<1>3. PICK a, x, error : /\ a = [azure EXCEPT !.initiative = @ \/ o \in Effects]
                         /\ x = [run[r] EXCEPT !.initiative = (o = "done")]
                         /\ error = (o # "done")
  OBVIOUS
<1>4. /\ a \in AzureState /\ azure' = a
      /\ a.roles = azure.roles /\ a.mg = azure.mg /\ a.budget = azure.budget
      /\ a.policies = azure.policies
  BY <1>1, <1>2, <1>3 DEF AzureState, AttachInitiative
<1>5. a.initiative <=> azure.initiative \/ o \in Effects
  BY <1>2, <1>3 DEF AzureState
<1>6. Grown(azure, a)
  BY <1>4, <1>5 DEF Grown
<1>7. /\ x \in RunState /\ x.pc = run[r].pc /\ x.cfg = run[r].cfg /\ x.errs = run[r].errs
      /\ x.item = run[r].item /\ x.mg = run[r].mg /\ x.roles = run[r].roles
      /\ x.initiative <=> o = "done"
      /\ error \in BOOLEAN /\ (error <=> o # "done")
  BY <1>2, <1>3 DEF RunState
<1>8. EndsWell(run[r], x, error, a)
  BY <1>2, <1>4, <1>5, <1>7 DEF EndsWell, WorkDone, Effects
<1>9. run' = [run EXCEPT ![r] = StepOver(r, x, error)] /\ sent' = sent
  BY <1>1, <1>3 DEF EndStep, Commit
<1> QED
  BY <1>2, <1>4, <1>6, <1>7, <1>8, <1>9, QuietEnd

\* An execution goes on to the next item of its step.
LEMMA NextItem ==
  ASSUME ProvInv, NEW r \in Runs, run[r].pc \in {"RBAC", "POLICY"}, ~ Dry(r),
         NEW y \in RunState, y.pc = run[r].pc, y.cfg = run[r].cfg, y.errs = run[r].errs,
         y.mg = run[r].mg, y.item = run[r].item + 1,
         NEW a \in AzureState, Grown(azure, a), a.mg = azure.mg, a.budget = azure.budget,
         run' = [run EXCEPT ![r] = y], azure' = a, sent' = sent, UNCHANGED env,
         WorkDone(y, a)
  PROVE  ProvInv'
<1>1. /\ run[r].item \in Nat \ {0} /\ PlaceOk(r, run[r])
      /\ r \in solo /\ latest = r => Settled(run[r], azure)
      /\ run[r].pc \in Steps /\ Active(r)
  BY MovingRun, StepsAre DEF ProvInv, PlaceInv
<1>2. PlaceOk(r, y)
  BY <1>1 DEF PlaceOk
<1>3. r \in solo /\ latest = r => Settled(y, a)
  BY <1>1 DEF Settled
<1>4. run[r].pc \notin BehindBudget /\ y.pc # "idle"
  BY DEF BehindBudget, BehindNotify, Ended
<1>5. PICK new : new = {}
  OBVIOUS
<1>6. /\ sent' = sent \cup new /\ new \subseteq Reports
      /\ \A m \in new : m.by = r /\ ~ Dry(r) /\ ReportOk(m, y, a)
  BY <1>5
<1> QED
  BY <1>1, <1>2, <1>3, <1>4, <1>6, OneMoves

LEMMA ItemsAre ==
  /\ \A i \in Nat \ {0} : ~ (i > Len(RoleSpecs)) => RoleSpecs[i] \in ToSet(RoleSpecs)
  /\ \A i \in Nat \ {0} : ~ (i > Len(Policies)) => Policies[i] \in ToSet(Policies)
  /\ Len(Policies) \in Nat
  /\ \A p \in ToSet(Policies) : \E i \in 1 .. Len(Policies) : p = Policies[i]
<1>1. /\ Len(RoleSpecs) \in Nat /\ DOMAIN RoleSpecs = 1 .. Len(RoleSpecs)
      /\ Len(Policies) \in Nat /\ DOMAIN Policies = 1 .. Len(Policies)
  BY ProvisioningConstants
<1> QED
  BY <1>1 DEF ToSet

LEMMA AssignRoleKeepsInv ==
  ASSUME ProvInv, NEW r \in Runs, ~ Dry(r), run[r].pc = "RBAC",
         NEW p \in ToSet(RoleSpecs), AssignRole(r, p)
  PROVE  ProvInv'
<1>1. /\ run[r] \in RunState /\ azure \in AzureState /\ run[r].item \in Nat \ {0}
      /\ run[r].pc \in Steps
      /\ WorkDone(run[r], azure)
      /\ sent' = sent /\ UNCHANGED env
  BY MovingRun, StepsAre DEF AssignRole
<1>2. PICK o :
        /\ azure' = [azure EXCEPT !.roles = IF o \in Effects THEN @ \cup {p} ELSE @]
        /\ run' = [run EXCEPT ![r] = ListRole(run[r], p, o)]
  <2>1. PICK o :
          /\ azure' = [azure EXCEPT !.roles = IF o \in Effects THEN @ \cup {p} ELSE @]
          /\ run' = [run EXCEPT ![r] = ListRole(@, p, o)]
    BY DEF AssignRole
  <2> QED
    BY <2>1
<1>3. PICK a, y : /\ a = [azure EXCEPT !.roles = IF o \in Effects THEN @ \cup {p} ELSE @]
                  /\ y = ListRole(run[r], p, o)
  OBVIOUS
<1>4. /\ a \in AzureState /\ a.mg = azure.mg /\ a.budget = azure.budget
      /\ a.initiative = azure.initiative /\ a.policies = azure.policies
      /\ a.roles = IF o \in Effects THEN azure.roles \cup {p} ELSE azure.roles
  BY <1>1, <1>3 DEF AzureState
<1> DEFINE roles == IF o = "done" THEN run[r].roles \cup {p} ELSE run[r].roles
         next == run[r].item + 1
<1>5. /\ y = [run[r] EXCEPT !.roles = roles, !.item = next]
      /\ roles \in SUBSET ToSet(RoleSpecs) /\ next \in Nat
  BY <1>1, <1>3 DEF ListRole, RunState
<1> HIDE DEF roles, next
<1>6. /\ y \in RunState /\ y.pc = run[r].pc /\ y.cfg = run[r].cfg
  BY <1>1, <1>5 DEF RunState
<1>7. /\ y.errs = run[r].errs /\ y.mg = run[r].mg /\ y.item = run[r].item + 1
      /\ y.initiative = run[r].initiative
      /\ y.roles = IF o = "done" THEN run[r].roles \cup {p} ELSE run[r].roles
  BY <1>1, <1>5 DEF RunState, roles, next
<1>8. Grown(azure, a)
  BY <1>4 DEF Grown
<1>9. WorkDone(y, a)
  <2>1. WorkDone(run[r], a)
    BY <1>1, <1>8, WorkStays
  <2>2. y.roles \subseteq a.roles
    BY <1>1, <1>4, <1>7 DEF WorkDone, Effects
  <2> QED
    BY <1>1, <1>6, <1>7, <2>1, <2>2 DEF WorkDone
<1>10. azure' = a /\ run' = [run EXCEPT ![r] = y]
  BY <1>2, <1>3
<1> QED
  BY <1>1, <1>4, <1>6, <1>7, <1>8, <1>9, <1>10, NextItem

LEMMA StepRbacKeepsInv ==
  ASSUME ProvInv, NEW r \in Runs, ~ Dry(r), StepRbac(r)
  PROVE  ProvInv'
<1>1. /\ run[r] \in RunState /\ azure \in AzureState /\ run[r].item \in Nat \ {0}
      /\ run[r].pc = "RBAC" /\ run[r].pc \in Steps
      /\ WorkDone(run[r], azure)
  BY MovingRun, StepsAre DEF StepRbac
<1>2. CASE RolesEnd(r)
  <2>1. PICK error \in BOOLEAN : EndStep(r, run[r], error)
    BY <1>2 DEF RolesEnd
  <2>2. /\ run' = [run EXCEPT ![r] = StepOver(r, run[r], error)]
        /\ azure' = azure /\ sent' = sent /\ UNCHANGED env
    BY <1>2, <2>1 DEF RolesEnd, EndStep, Commit
  <2>3. EndsWell(run[r], run[r], error, azure)
    BY <1>1 DEF EndsWell, WorkDone
  <2> QED
    BY <1>1, <2>2, <2>3, SilentEnd
<1>3. CASE run[r].item <= Len(RoleSpecs) /\ AssignRole(r, RoleSpecs[run[r].item])
  <2>1. RoleSpecs[run[r].item] \in ToSet(RoleSpecs)
    <3>1. Len(RoleSpecs) \in Nat
      BY ProvisioningConstants
    <3> QED
      BY <1>1, <1>3, <3>1, ItemsAre
  <2> QED
    BY <1>1, <1>3, <2>1, AssignRoleKeepsInv
<1> QED
  BY <1>2, <1>3 DEF StepRbac

LEMMA StepPolicyKeepsInv ==
  ASSUME ProvInv, NEW r \in Runs, ~ Dry(r), StepPolicy(r)
  PROVE  ProvInv'
<1>1. /\ run[r] \in RunState /\ azure \in AzureState /\ run[r].item \in Nat \ {0}
      /\ run[r].pc = "POLICY" /\ run[r].pc \in Steps
      /\ WorkDone(run[r], azure)
  BY MovingRun, StepsAre DEF StepPolicy
<1>2. CASE run[r].item > Len(Policies)
  <2>1. /\ run' = [run EXCEPT ![r] = StepOver(r, run[r], FALSE)]
        /\ azure' = azure /\ sent' = sent /\ UNCHANGED env
    <3>1. EndStep(r, run[r], FALSE) /\ UNCHANGED <<azure, sent>>
      BY <1>2 DEF StepPolicy
    <3> QED
      BY <3>1 DEF EndStep, Commit
  <2>2. run[r].errs = {} => \A p \in ToSet(Policies) : azure.policies[p] > 0
    <3> SUFFICES ASSUME run[r].errs = {}, NEW i \in 1 .. Len(Policies)
                 PROVE  azure.policies[Policies[i]] > 0
      BY ItemsAre
    <3>1. i \in 1 .. run[r].item - 1 /\ i <= Len(Policies)
      BY <1>1, <1>2, ItemsAre
    <3> QED
      BY <1>1, <3>1 DEF WorkDone
  <2>3. EndsWell(run[r], run[r], FALSE, azure)
    <3>1. run[r].errs = {} => run[r].mg = TargetMg(run[r].cfg)
      BY <1>1 DEF WorkDone, BehindMg, BehindInitiative
    <3> QED
      BY <1>1, <2>2, <3>1 DEF EndsWell, WorkDone
  <2> QED
    BY <1>1, <2>1, <2>3, SilentEnd
<1>3. CASE ~ (run[r].item > Len(Policies))
  <2>1. PICK p, o :
          /\ p = Policies[run[r].item]
          /\ AssignPolicy(p, o)
          /\ run' = [run EXCEPT ![r] = IF o = "done" THEN NextPolicy(run[r])
                                       ELSE StepOver(r, run[r], TRUE)]
          /\ sent' = sent /\ UNCHANGED env
    <3>1. PICK o : /\ AssignPolicy(Policies[run[r].item], o)
                   /\ IF o = "done"
                      THEN run' = [run EXCEPT ![r] = NextPolicy(@)] /\ UNCHANGED <<env, gateSteps, overlapped>>
                      ELSE EndStep(r, run[r], TRUE)
                   /\ sent' = sent
      BY <1>3 DEF StepPolicy
    <3>2. UNCHANGED env
      BY <3>1 DEF EndStep
    <3>3. run' = [run EXCEPT ![r] = IF o = "done" THEN NextPolicy(run[r])
                                    ELSE StepOver(r, run[r], TRUE)]
      BY <3>1 DEF EndStep, Commit
    <3> QED
      BY <3>1, <3>2, <3>3
  <2>2. p \in ToSet(Policies)
    BY <1>1, <1>3, <2>1, ItemsAre
  <2>3. PICK a : a = IF o \in Effects THEN [azure EXCEPT !.policies[p] = @ + 1] ELSE azure
    OBVIOUS
  <2>4. /\ a \in AzureState /\ a.mg = azure.mg /\ a.budget = azure.budget
        /\ a.initiative = azure.initiative /\ a.roles = azure.roles
        /\ Grown(azure, a)
        /\ o \in Effects => a.policies[p] > 0
    <3>1. azure.policies \in [ToSet(Policies) -> Nat]
      BY <1>1 DEF AzureState
    <3>2. PICK f : f = [azure.policies EXCEPT ![p] = @ + 1]
      OBVIOUS
    <3>3. /\ f \in [ToSet(Policies) -> Nat] /\ f[p] > 0
          /\ \A q \in ToSet(Policies) : azure.policies[q] > 0 => f[q] > 0
      BY <2>2, <3>1, <3>2
    <3>4. CASE o \in Effects
      <4>1. a = [azure EXCEPT !.policies = f]
        BY <1>1, <2>3, <3>2, <3>4 DEF AzureState
      <4>2. /\ a \in AzureState /\ a.mg = azure.mg /\ a.budget = azure.budget
            /\ a.initiative = azure.initiative /\ a.roles = azure.roles /\ a.policies = f
        BY <1>1, <3>3, <4>1 DEF AzureState
      <4> QED
        BY <3>3, <4>2 DEF Grown
    <3>5. CASE o \notin Effects
      BY <1>1, <2>3, <3>5 DEF Grown
    <3> QED
      BY <3>4, <3>5
  <2>5. azure' = a
    BY <2>1, <2>3 DEF AssignPolicy
  <2>6. CASE o = "done"
    <3>1. PICK y : y = NextPolicy(run[r])
      OBVIOUS
    <3>2. /\ y \in RunState /\ y.pc = run[r].pc /\ y.cfg = run[r].cfg
          /\ y.errs = run[r].errs /\ y.mg = run[r].mg /\ y.item = run[r].item + 1
          /\ y.initiative = run[r].initiative /\ y.roles = run[r].roles
      BY <1>1, <3>1 DEF RunState, NextPolicy
    <3>3. WorkDone(run[r], a)
      BY <1>1, <2>4, WorkStays
    <3>4. y.errs = {} =>
            \A i \in 1 .. y.item - 1 : i <= Len(Policies) => a.policies[Policies[i]] > 0
      <4> SUFFICES ASSUME run[r].errs = {}, NEW i \in 1 .. y.item - 1, i <= Len(Policies)
                   PROVE  a.policies[Policies[i]] > 0
        BY <3>2
      <4>1. i \in 1 .. run[r].item - 1 \/ i = run[r].item
        BY <1>1, <3>2
      <4>2. CASE i = run[r].item
        BY <2>1, <2>4, <2>6, <4>2 DEF Effects
      <4>3. CASE i \in 1 .. run[r].item - 1
        BY <1>1, <3>3, <4>3 DEF WorkDone
      <4> QED
        BY <4>1, <4>2, <4>3
    <3>5. WorkDone(y, a)
      BY <3>2, <3>3, <3>4 DEF WorkDone
    <3>6. run' = [run EXCEPT ![r] = y]
      BY <2>1, <2>6, <3>1
    <3> QED
      BY <1>1, <2>1, <2>4, <2>5, <3>2, <3>5, <3>6, NextItem
  <2>7. CASE o # "done"
    <3>1. EndsWell(run[r], run[r], TRUE, a)
      BY <1>1, <2>4 DEF EndsWell, WorkDone
    <3>2. run' = [run EXCEPT ![r] = StepOver(r, run[r], TRUE)]
      BY <2>1, <2>7
    <3> QED
      BY <1>1, <2>1, <2>4, <2>5, <3>1, <3>2, QuietEnd
  <2> QED
    BY <2>6, <2>7
<1> QED
  BY <1>2, <1>3

LEMMA StepBudgetKeepsInv ==
  ASSUME ProvInv, NEW r \in Runs, ~ Dry(r), StepBudget(r)
  PROVE  ProvInv'
<1>1. /\ run[r] \in RunState /\ azure \in AzureState
      /\ run[r].pc = "BUDGET" /\ run[r].pc \in Steps
      /\ WorkDone(run[r], azure)
  BY MovingRun, StepsAre DEF StepBudget
<1>2. run[r].cfg.budget \in Int
  BY <1>1 DEF RunState, Config
<1>3. CASE run[r].cfg.budget <= 0
  <2>1. /\ run' = [run EXCEPT ![r] = StepOver(r, run[r], FALSE)]
        /\ azure' = azure /\ sent' = sent /\ UNCHANGED env
    BY <1>3 DEF StepBudget, EndStep, Commit
  <2>2. EndsWell(run[r], run[r], FALSE, azure)
    BY <1>1, <1>2, <1>3 DEF EndsWell, WorkDone
  <2> QED
    BY <1>1, <2>1, <2>2, SilentEnd
<1>4. CASE ~ (run[r].cfg.budget <= 0)
  <2>1. PICK o : /\ CreateBudget(run[r].cfg.budget, o)
                 /\ run' = [run EXCEPT ![r] = StepOver(r, run[r], o # "done")]
                 /\ sent' = sent /\ UNCHANGED env
    BY <1>4 DEF StepBudget, EndStep, Commit
  <2>2. PICK a, error : /\ a = IF o \in Effects THEN [azure EXCEPT !.budget = run[r].cfg.budget] ELSE azure
                        /\ error = (o # "done")
    OBVIOUS
  <2>3. /\ a \in AzureState /\ azure' = a /\ a.mg = azure.mg
        /\ a.initiative = azure.initiative /\ a.roles = azure.roles /\ a.policies = azure.policies
        /\ a.budget = IF o \in Effects THEN run[r].cfg.budget ELSE azure.budget
    BY <1>1, <1>2, <2>1, <2>2 DEF AzureState, CreateBudget
  <2>4. error \in BOOLEAN /\ (error <=> o # "done")
    BY <2>2
  <2>5. Grown(azure, a)
    BY <1>2, <1>4, <2>3 DEF Grown
  <2>6. ~ error => a.budget = run[r].cfg.budget
    BY <2>3, <2>4 DEF Effects
  <2>7. EndsWell(run[r], run[r], error, a)
    BY <1>1, <2>3, <2>6 DEF EndsWell, WorkDone
  <2>8. run' = [run EXCEPT ![r] = StepOver(r, run[r], error)]
    BY <2>1, <2>2
  <2> QED
    BY <1>1, <2>1, <2>3, <2>4, <2>5, <2>7, <2>8, QuietEnd
<1> QED
  BY <1>3, <1>4

\* A step ends that reports to `to`, or to nobody; Azure is left as it is.
LEMMA ReportingEnd ==
  ASSUME ProvInv, NEW r \in Runs, run[r].pc \in Steps, run[r].pc \in BehindBudget, ~ Dry(r),
         NEW error \in BOOLEAN, NEW to \in {"topic", "ticket", "API", "WEBHOOK"},
         run' = [run EXCEPT ![r] = StepOver(r, run[r], error)], UNCHANGED <<env, azure>>,
         sent' = sent \/ sent' = sent \cup {Report(r, to)}
  PROVE  ProvInv'
<1>1. /\ run[r] \in RunState /\ azure \in AzureState /\ WorkDone(run[r], azure)
  BY MovingRun
<1>2. Report(r, to) \in Reports /\ Report(r, to).by = r
      /\ Report(r, to).success = Success(run[r]) /\ Report(r, to).mg = run[r].mg
  <2>1. Success(run[r]) \in BOOLEAN /\ run[r].mg \in Mgs
    BY <1>1 DEF Success, RunState
  <2> QED
    BY <2>1 DEF Report, Reports
<1>3. PICK a, new : a = azure /\ sent' = sent \cup new /\ new \in {{}, {Report(r, to)}}
  OBVIOUS
<1>4. /\ a \in AzureState /\ azure' = a /\ Grown(azure, a) /\ UNCHANGED env
      /\ a # azure => ~ Dry(r)
      /\ new # {} => run[r].pc \in BehindBudget /\ ~ Dry(r) /\ a = azure
  BY <1>1, <1>3 DEF Grown, AzureState
<1>5. /\ new \subseteq Reports
      /\ \A m \in new : m.by = r /\ m.success = Success(run[r]) /\ m.mg = run[r].mg
  BY <1>2, <1>3
<1>6. run[r].pc \notin {"MG", "INITIATIVE", "POLICY", "BUDGET"}
  BY DEF BehindBudget, BehindNotify, Ended
<1>7. EndsWell(run[r], run[r], error, a)
  BY <1>1, <1>3, <1>6 DEF EndsWell, WorkDone
<1> QED
  BY <1>1, <1>3, <1>4, <1>5, <1>7, StepEnds

LEMMA StepNotifyKeepsInv ==
  ASSUME ProvInv, NEW r \in Runs, ~ Dry(r), StepNotify(r)
  PROVE  ProvInv'
<1>1. /\ run[r].pc = "NOTIFY" /\ UNCHANGED <<env, azure>>
      /\ run' = [run EXCEPT ![r] = StepOver(r, run[r], FALSE)]
      /\ sent' = sent \/ sent' = sent \cup {Report(r, "topic")}
  BY DEF StepNotify, EndStep, Commit, Tell
<1>2. run[r].pc \in Steps /\ run[r].pc \in BehindBudget
  BY <1>1, StepsAre DEF BehindBudget
<1> QED
  BY <1>1, <1>2, ReportingEnd

LEMMA HttpPostKeepsInv ==
  ASSUME ProvInv, NEW r \in Runs, NEW step \in {"API", "WEBHOOK"}, NEW configured,
         HttpPost(r, step, configured)
  PROVE  ProvInv'
<1>1. run[r].pc = step /\ run[r] \in RunState /\ azure' = azure
  BY MovingRun DEF HttpPost
<1>2. run[r].pc \in Steps /\ run[r].pc \in BehindBudget
  BY <1>1, StepsAre DEF BehindBudget, BehindNotify
<1>3. PICK error \in BOOLEAN :
        /\ EndStep(r, run[r], error)
        /\ sent' = sent \/ sent' = sent \cup {Report(r, step)}
        /\ Dry(r) => ~ error /\ sent' = sent
  <2>1. CASE configured /\ ~ Dry(r)
    <3>1. PICK o : Tell(r, step, o) /\ EndStep(r, run[r], o # "done")
      BY <2>1 DEF HttpPost
    <3> QED
      BY <2>1, <3>1 DEF Tell
  <2>2. CASE ~ (configured /\ ~ Dry(r))
    BY <2>2 DEF HttpPost
  <2> QED
    BY <2>1, <2>2
<1>4. run' = [run EXCEPT ![r] = StepOver(r, run[r], error)] /\ UNCHANGED env
  BY <1>3 DEF EndStep, Commit
<1>5. CASE ~ Dry(r)
  BY <1>1, <1>2, <1>3, <1>4, <1>5, ReportingEnd
<1>6. CASE Dry(r)
  BY <1>1, <1>2, <1>3, <1>4, <1>6, SilentEnd
<1> QED
  BY <1>5, <1>6

LEMMA StepFeedbackKeepsInv ==
  ASSUME ProvInv, NEW r \in Runs, ~ Dry(r), StepFeedback(r)
  PROVE  ProvInv'
<1>1. /\ run[r].pc = "FEEDBACK" /\ UNCHANGED <<env, azure>>
      /\ run' = [run EXCEPT ![r] = StepOver(r, run[r], FALSE)]
      /\ sent' = sent \/ sent' = sent \cup {Report(r, "ticket")}
  <2>1. CASE run[r].cfg.ticket = NoTicket
    BY <2>1 DEF StepFeedback, EndStep, Commit
  <2>2. CASE run[r].cfg.ticket # NoTicket
    <3>1. /\ \E o \in Answers("FEEDBACK") : Tell(r, "ticket", o)
          /\ EndStep(r, run[r], FALSE) /\ azure' = azure
      BY <2>2 DEF StepFeedback
    <3> QED
      BY <3>1 DEF StepFeedback, EndStep, Commit, Tell
  <2> QED
    BY <2>1, <2>2
<1>2. run[r].pc \in BehindBudget
  BY <1>1 DEF BehindBudget, BehindNotify
<1>3. CASE run[r].pc \in Steps
  BY <1>1, <1>2, <1>3, ReportingEnd
<1>4. CASE run[r].pc \notin Steps
  <2>1. run[r] \in RunState
    BY MovingRun
  <2> QED
    BY <1>1, <1>4, <2>1 DEF RunState
<1> QED
  BY <1>3, <1>4

\* In a dry run each of them adds its line and does nothing else, but for the posts, which
\* have no line, and the report to a ticket there is none of.
LEMMA RehearsalKeepsInv ==
  ASSUME ProvInv, NEW r \in Runs, Dry(r),
         \/ StepInitiative(r) \/ StepRbac(r) \/ StepPolicy(r) \/ StepBudget(r)
         \/ StepNotify(r) \/ StepFeedback(r)
  PROVE  ProvInv'
<1>1. run[r] \in RunState /\ run[r].pc \in Steps
  <2>1. /\ run[r] \in RunState
        /\ run[r].pc \in {"INITIATIVE", "RBAC", "POLICY", "BUDGET", "NOTIFY", "FEEDBACK"}
    BY MovingRun DEF StepInitiative, StepRbac, StepPolicy, StepBudget, StepNotify, StepFeedback
  <2> QED
    BY <2>1, StepsAre DEF RunState
<1>2. CASE PlanStep(r, run[r])
  BY <1>1, <1>2, PlanKeepsInv
<1>3. CASE EndStep(r, run[r], FALSE) /\ UNCHANGED <<azure, sent>>
  BY <1>1, <1>3, SilentEnd DEF EndStep, Commit
<1>4. PlanStep(r, run[r]) \/ (EndStep(r, run[r], FALSE) /\ UNCHANGED <<azure, sent>>)
  <2>1. CASE StepInitiative(r) \/ StepRbac(r) \/ StepBudget(r) \/ StepNotify(r)
    BY <2>1 DEF StepInitiative, StepRbac, StepBudget, StepNotify
  <2>2. CASE StepPolicy(r)
    BY <2>2 DEF StepPolicy
  <2>3. CASE StepFeedback(r)
    BY <2>3 DEF StepFeedback
  <2> QED
    BY <2>1, <2>2, <2>3
<1> QED
  BY <1>2, <1>3, <1>4

LEMMA StepKeepsInv ==
  ASSUME ProvInv, NEW r \in Runs, Step(r)
  PROVE  ProvInv'
<1>1. CASE StepApi(r)
  BY <1>1, HttpPostKeepsInv DEF StepApi
<1>2. CASE StepWebhook(r)
  BY <1>2, HttpPostKeepsInv DEF StepWebhook
<1> QED
  BY <1>1, <1>2, StepMgKeepsInv, StepInitiativeKeepsInv, StepRbacKeepsInv, StepPolicyKeepsInv,
     StepBudgetKeepsInv, StepNotifyKeepsInv, StepFeedbackKeepsInv, RehearsalKeepsInv DEF Step

\* Only an execution that has met no other since it started can be in `solo` and the latest:
\* one that starts beside others takes them out.
LEMMA StartProvisionKeepsInv ==
  ASSUME ProvInv, NEW r \in Runs, StartProvision(r)
  PROVE  ProvInv'
<1> DEFINE others == {s \in Runs \ {r} : Active(s) /\ ~ Dry(s)}
<1>1. /\ run[r].pc = "idle" /\ ~ Dry(r)
      /\ run' = [run EXCEPT ![r].pc = "tags"]
      /\ latest' = r
      /\ solo' = IF others = {} THEN solo \cup {r} ELSE solo \ others
      /\ kind' = kind /\ tags' = tags /\ retags' = retags /\ azure' = azure /\ sent' = sent
  BY DEF StartProvision
<1>2. /\ CoreTypes /\ run \in [Runs -> RunState] /\ run[r] \in RunState
      /\ run[r].item \in Nat \ {0} /\ WorkDone(run[r], azure)
  BY <1>1, MovingRun DEF ProvInv, CoreTypes
<1>3. PICK y : y = [run[r] EXCEPT !.pc = "tags"]
  OBVIOUS
<1>4. /\ y \in RunState /\ y.pc = "tags" /\ y.item = run[r].item /\ y.cfg = run[r].cfg
      /\ y.errs = run[r].errs /\ y.roles = run[r].roles /\ y.initiative = run[r].initiative
  BY <1>2, <1>3 DEF RunState
<1>5. /\ run'[r] = y
      /\ \A s \in Runs \ {r} : run'[s] = run[s]
      /\ run' \in [Runs -> RunState]
  BY <1>1, <1>2, <1>3, <1>4
<1>6. \A s \in Runs : Dry(s)' <=> Dry(s)
  BY <1>1 DEF Dry
<1>7. CoreTypes'
  <2>1. solo' \subseteq Runs
    BY <1>1, <1>2 DEF CoreTypes
  <2> QED
    BY <1>1, <1>2, <1>5, <2>1 DEF CoreTypes
<1>8. PlaceInv'
  <2> SUFFICES ASSUME NEW s \in Runs PROVE PlaceOk(s, run[s])'
    BY DEF PlaceInv
  <2>1. PlaceOk(s, run'[s])
    <3>1. PlaceOk(s, run[s])
      BY DEF ProvInv, PlaceInv
    <3>2. CASE s = r
      BY <1>2, <1>4, <1>5, <3>1, <3>2, Unplaced DEF PlaceOk
    <3>3. CASE s # r
      BY <1>5, <3>1, <3>3
    <3> QED
      BY <3>2, <3>3
  <2>2. ASSUME NEW x, PlaceOk(s, x) PROVE PlaceOk(s, x)'
    BY <1>1, <2>2 DEF PlaceOk, Order, WithExtensions
  <2>3. PICK x : x = run'[s]
    OBVIOUS
  <2>4. PlaceOk(s, x)'
    BY <2>1, <2>2, <2>3
  <2> QED
    BY <2>3, <2>4 DEF PlaceOk
<1>9. WorkInv'
  <2> SUFFICES ASSUME NEW s \in Runs, ~ Dry(s) PROVE WorkDone(run'[s], azure)
    BY <1>1, <1>6 DEF WorkInv
  <2>1. CASE s = r
    BY <1>2, <1>4, <1>5, <2>1, NothingDone
  <2>2. CASE s # r
    BY <1>5, <2>2 DEF ProvInv, WorkInv
  <2> QED
    BY <2>1, <2>2
<1>10. SentInv'
  <2> SUFFICES ASSUME NEW m \in sent PROVE ~ Dry(m.by)' /\ ReportOk(m, run'[m.by], azure)
    BY <1>1 DEF SentInv
  <2>1. m.by \in Runs /\ ~ Dry(m.by) /\ ReportOk(m, run[m.by], azure)
    BY <1>2 DEF ProvInv, SentInv, CoreTypes
  <2>2. m.by # r
    BY <1>1, <2>1, Unplaced DEF ReportOk
  <2> QED
    BY <1>5, <1>6, <2>1, <2>2
<1>11. SoloInv'
  <2>1. r \notin solo
    BY <1>1 DEF ProvInv, SoloInv
  <2>2. \A s \in Runs \ {r} : Active(s)' <=> Active(s)
    BY <1>5 DEF Active
  <2> SUFFICES ASSUME NEW q \in solo'
               PROVE  /\ ~ Dry(q)
                      /\ run'[q].pc # "idle"
                      /\ r = q => Alone(q)' /\ Settled(run'[q], azure)
    BY <1>1, <1>2, <1>6, <1>7 DEF SoloInv, CoreTypes
  <2>3. CASE q = r
    <3>1. others = {}
      BY <1>1, <2>1, <2>3
    <3>2. Alone(q)'
      BY <1>6, <2>2, <2>3, <3>1 DEF Alone
    <3>3. Settled(y, azure)
      BY <1>4, Unplaced DEF Settled
    <3> QED
      BY <1>1, <1>4, <1>5, <2>3, <3>2, <3>3
  <2>4. CASE q # r
    <3>1. q \in solo /\ q \in Runs
      BY <1>1, <1>2, <2>4 DEF CoreTypes
    <3> QED
      BY <1>5, <2>4, <3>1 DEF ProvInv, SoloInv
  <2> QED
    BY <2>3, <2>4
<1> QED
  BY <1>7, <1>8, <1>9, <1>10, <1>11 DEF ProvInv

\* What the invariant speaks about, apart from the tags, stays as it is.
LEMMA SameKeepsInv ==
  ASSUME ProvInv, CoreTypes',
         UNCHANGED <<kind, azure, run, sent, latest, solo>>
  PROVE  ProvInv'
<1>1. \A r \in Runs : (Dry(r)' <=> Dry(r)) /\ (Active(r)' <=> Active(r))
  BY DEF Dry, Active
<1>2. \A s \in solo : s \in Runs
  BY DEF ProvInv, CoreTypes
<1>3. PlaceInv'
  <2>1. \A r \in Runs : PlaceOk(r, run[r])
    BY DEF ProvInv, PlaceInv
  <2> QED
    BY <2>1 DEF PlaceInv, PlaceOk, Order, WithExtensions
<1>4. WorkInv'
  BY <1>1 DEF ProvInv, WorkInv, WorkDone
<1>5. SentInv'
  BY <1>1 DEF ProvInv, CoreTypes, SentInv, ReportOk, ReadyIn
<1>6. SoloInv'
  BY <1>1, <1>2 DEF ProvInv, SoloInv, Alone, Settled
<1> QED
  BY <1>3, <1>4, <1>5, <1>6 DEF ProvInv

LEMMA RetagKeepsInv ==
  ASSUME ProvInv, Retag
  PROVE  ProvInv'
<1>1. CoreTypes'
  BY DEF ProvInv, CoreTypes, Retag
<1> QED
  BY <1>1, SameKeepsInv DEF Retag

LEMMA InitInv ==
  ASSUME Init
  PROVE  ProvInv
<1>1. \A r \in Runs : run[r] = Fresh
  BY DEF Init
<1>2. Fresh \in RunState
  BY ConfigTypes DEF Fresh, RunState, Mgs
<1>3. CoreTypes
  <2>1. azure \in AzureState
    BY DEF Init, AzureState, Mgs
  <2> QED
    BY <1>2, <2>1 DEF Init, CoreTypes, AzureState
<1>4. PlaceInv
  <2>1. /\ Fresh.pc = "idle" /\ Fresh.item = 1 /\ Fresh.cfg.ticket = NoTicket
    BY DEF Fresh, DefaultConfig
  <2> QED
    BY <1>1, <2>1, Unplaced DEF PlaceInv, PlaceOk
<1>5. WorkInv
  <2>1. WorkDone(Fresh, azure)
    BY Unplaced DEF Fresh, WorkDone
  <2> QED
    BY <1>1, <2>1 DEF WorkInv
<1>6. SentInv /\ SoloInv
  BY DEF Init, SentInv, SoloInv
<1> QED
  BY <1>3, <1>4, <1>5, <1>6 DEF ProvInv

-------------------------------------------------------------------------------
(***************************************************************************)
(* The shape of a step                                                     *)
(***************************************************************************)

\* What of a step of execution r, which takes it from x to y, the engine gets to know: the step
\* goes on, or it is over, with or without an error of its own, and the next one is reached.
StepLeaves(r, x, y) ==
  /\ y.plan \in {x.plan, x.plan \cup {x.pc}}
  /\ \/ y.pc = x.pc /\ y.errs = x.errs
     \/ /\ y.pc = After(r, x.pc)
        /\ y.errs \in {x.errs, x.errs \cup {x.pc}}

\* Execution r goes on to y, in a step or behind the last one, with the configuration it has.
Goes(r, y) ==
  /\ y \in RunState
  /\ y.pc \in Steps \cup {"returned"}
  /\ y.cfg = run[r].cfg
  /\ StepLeaves(r, run[r], y)
  /\ Commit(r, y, gateSteps)
  /\ overlapped' = overlapped /\ UNCHANGED env

LEMMA EndGoes ==
  ASSUME ProvInv, NEW r \in Runs, run[r].pc \in Steps,
         NEW x \in RunState, x.pc = run[r].pc, x.cfg = run[r].cfg, x.item = run[r].item,
         x.errs = run[r].errs, x.plan \in {run[r].plan, run[r].plan \cup {run[r].pc}},
         NEW error \in BOOLEAN, EndStep(r, x, error)
  PROVE  \E y : Goes(r, y) /\ y.plan = x.plan
<1>1. x.pc \in ToSet(Order(r)) /\ x.item \in Nat \ {0}
  BY MovingRun
<1>2. LET z == StepOver(r, x, error)
      IN  /\ z \in RunState
          /\ z.pc = After(r, x.pc)
          /\ z.pc \in ToSet(Order(r)) \cup {"returned"}
          /\ z.item \in Nat \ {0} /\ (z.pc # "returned" => z.item = 1)
          /\ z.cfg = x.cfg /\ z.mg = x.mg /\ z.initiative = x.initiative /\ z.roles = x.roles
          /\ z.plan = x.plan
          /\ z.errs = IF error THEN x.errs \cup {x.pc} ELSE x.errs
  BY <1>1, StepOverIs, Z3
<1>3. PICK y : y = StepOver(r, x, error)
  OBVIOUS
<1>4. /\ y \in RunState /\ y.pc \in Steps \cup {"returned"} /\ y.cfg = run[r].cfg
      /\ y.plan = x.plan /\ StepLeaves(r, run[r], y)
  BY <1>2, <1>3, OrderInSteps DEF StepLeaves
<1>5. Commit(r, y, gateSteps) /\ overlapped' = overlapped /\ UNCHANGED env
  BY <1>3 DEF EndStep
<1> QED
  BY <1>4, <1>5 DEF Goes

LEMMA PlanGoes ==
  ASSUME ProvInv, NEW r \in Runs, run[r].pc \in Steps,
         NEW x \in RunState, x.pc = run[r].pc, x.cfg = run[r].cfg, x.item = run[r].item,
         x.errs = run[r].errs, x.plan = run[r].plan,
         PlanStep(r, x)
  PROVE  \E y : Goes(r, y) /\ y.plan = run[r].plan \cup {run[r].pc} /\ UNCHANGED <<azure, sent>>
<1>1. PICK z : z = [x EXCEPT !.plan = @ \cup {x.pc}]
  OBVIOUS
<1>2. /\ z \in RunState /\ z.pc = run[r].pc /\ z.cfg = run[r].cfg /\ z.item = run[r].item
      /\ z.errs = run[r].errs /\ z.plan = run[r].plan \cup {run[r].pc}
  BY <1>1, PlannedIs
<1>3. EndStep(r, z, FALSE) /\ UNCHANGED <<azure, sent>>
  BY <1>1 DEF PlanStep
<1>4. \E y : Goes(r, y) /\ y.plan = z.plan
  BY <1>2, <1>3, EndGoes
<1> QED
  BY <1>2, <1>3, <1>4

\* Within a step there is no end.
LEMMA ItemGoes ==
  ASSUME ProvInv, NEW r \in Runs, run[r].pc \in Steps,
         NEW y \in RunState, y.pc = run[r].pc, y.cfg = run[r].cfg, y.errs = run[r].errs,
         y.plan = run[r].plan, run' = [run EXCEPT ![r] = y], UNCHANGED <<env, gateSteps, overlapped>>
  PROVE  Goes(r, y)
<1>1. y.pc # "returned"
  BY StepsAre
<1> QED
  BY <1>1 DEF Goes, StepLeaves, Commit

\* What every step of an execution has in common; and a step of a dry run adds its line, if it
\* is a built-in one, and does nothing else.
LEMMA StepGoes ==
  ASSUME ProvInv, NEW r \in Runs, Step(r)
  PROVE  /\ run[r].pc \in Steps
         /\ \E y : /\ Goes(r, y)
                   /\ Dry(r) =>
                        /\ UNCHANGED <<azure, sent>>
                        /\ run[r].pc \in ToSet(BuiltIn) => y.plan = run[r].plan \cup {run[r].pc}
<1> DEFINE Done(y) == Dry(r) =>
                        /\ UNCHANGED <<azure, sent>>
                        /\ run[r].pc \in ToSet(BuiltIn) => y.plan = run[r].plan \cup {run[r].pc}
<1>1. run[r] \in RunState /\ run[r].item \in Nat \ {0}
  BY MovingRun
<1>2. run[r].pc \in Steps
  <2>1. run[r].pc \in StepNames
    BY DEF Step, StepMg, StepInitiative, StepRbac, StepPolicy, StepBudget, StepNotify, StepApi,
       StepFeedback, StepWebhook, HttpPost, StepNames
  <2> QED
    BY <1>1, <2>1 DEF RunState, StepNames
<1>3. ASSUME PlanStep(r, run[r]) PROVE \E y : Goes(r, y) /\ Done(y)
  <2>1. \E y : Goes(r, y) /\ y.plan = run[r].plan \cup {run[r].pc} /\ UNCHANGED <<azure, sent>>
    BY <1>1, <1>2, <1>3, PlanGoes
  <2> QED
    BY <2>1
<1>4. ASSUME NEW x \in RunState, x.pc = run[r].pc, x.cfg = run[r].cfg, x.item = run[r].item,
             x.errs = run[r].errs, x.plan = run[r].plan,
             NEW error \in BOOLEAN, EndStep(r, x, error), ~ Dry(r)
      PROVE  \E y : Goes(r, y) /\ Done(y)
  <2>1. \E y : Goes(r, y)
    BY <1>1, <1>2, <1>4, EndGoes
  <2> QED
    BY <1>4, <2>1
<1>5. ASSUME EndStep(r, run[r], FALSE), UNCHANGED <<azure, sent>>, run[r].pc \notin ToSet(BuiltIn)
      PROVE  \E y : Goes(r, y) /\ Done(y)
  <2>1. \E y : Goes(r, y)
    BY <1>1, <1>2, <1>5, EndGoes
  <2> QED
    BY <1>5, <2>1
<1>6. ASSUME NEW y \in RunState, y.pc = run[r].pc, y.cfg = run[r].cfg, ~ Dry(r),
             y.errs = run[r].errs, y.plan = run[r].plan, run' = [run EXCEPT ![r] = y], UNCHANGED <<env, gateSteps, overlapped>>
      PROVE  \E z : Goes(r, z) /\ Done(z)
  <2>1. Goes(r, y)
    BY <1>2, <1>6, ItemGoes
  <2> QED
    BY <1>6, <2>1
<1>7. "API" \notin ToSet(BuiltIn) /\ "WEBHOOK" \notin ToSet(BuiltIn) /\ "FEEDBACK" \notin ToSet(BuiltIn)
  <2>1. \A i : i \in 1 .. 6 <=> i \in {1, 2, 3, 4, 5, 6}
    OBVIOUS
  <2>2. \A s \in ToSet(BuiltIn) : \E i \in {1, 2, 3, 4, 5, 6} : BuiltIn[i] = s
    BY <2>1, BuiltInIs DEF ToSet
  <2> QED
    BY <2>2, BuiltInIs
<1>8. \E y : Goes(r, y) /\ Done(y)
  <2> HIDE DEF Done
  <2>1. CASE StepMg(r)
    <3>1. PICK x : x = [run[r] EXCEPT !.mg = TargetMg(run[r].cfg)]
      OBVIOUS
    <3>2. TargetMg(run[r].cfg) \in Mgs
      BY <1>1, ConfigTypes DEF RunState
    <3>3. /\ x \in RunState /\ x.pc = run[r].pc /\ x.cfg = run[r].cfg /\ x.item = run[r].item
          /\ x.errs = run[r].errs /\ x.plan = run[r].plan
      BY <1>1, <3>1, <3>2 DEF RunState
    <3>4. CASE Dry(r)
      <4>1. PlanStep(r, x)
        BY <2>1, <3>1, <3>4 DEF StepMg
      <4>2. \E y : Goes(r, y) /\ y.plan = run[r].plan \cup {run[r].pc} /\ UNCHANGED <<azure, sent>>
        BY <1>2, <3>3, <4>1, PlanGoes
      <4> QED
        BY <4>2 DEF Done
    <3>5. CASE ~ Dry(r)
      <4>1. EndStep(r, x, FALSE) \/ EndStep(r, run[r], TRUE)
        BY <2>1, <3>1, <3>5 DEF StepMg
      <4> QED
        BY <1>1, <1>4, <3>3, <3>5, <4>1
    <3> QED
      BY <3>4, <3>5
  <2>2. CASE StepInitiative(r)
    <3>1. CASE Dry(r)
      BY <1>3, <2>2, <3>1 DEF StepInitiative
    <3>2. CASE ~ Dry(r)
      <4>1. PICK o : EndStep(r, [run[r] EXCEPT !.initiative = (o = "done")], o # "done")
        BY <2>2, <3>2 DEF StepInitiative
      <4>2. PICK x, error : /\ x = [run[r] EXCEPT !.initiative = (o = "done")]
                            /\ error = (o # "done")
        OBVIOUS
      <4>3. /\ x \in RunState /\ x.pc = run[r].pc /\ x.cfg = run[r].cfg /\ x.item = run[r].item
            /\ x.errs = run[r].errs /\ x.plan = run[r].plan /\ error \in BOOLEAN
        BY <1>1, <4>2 DEF RunState
      <4> QED
        BY <1>4, <3>2, <4>1, <4>2, <4>3
    <3> QED
      BY <3>1, <3>2
  <2>3. CASE StepRbac(r)
    <3>1. CASE Dry(r)
      BY <1>3, <2>3, <3>1 DEF StepRbac
    <3>2. CASE ~ Dry(r) /\ RolesEnd(r)
      BY <1>1, <1>4, <3>2 DEF RolesEnd
    <3>3. CASE ~ Dry(r) /\ ~ RolesEnd(r)
      <4>1. run[r].item <= Len(RoleSpecs) /\ AssignRole(r, RoleSpecs[run[r].item])
        BY <2>3, <3>3 DEF StepRbac
      <4>2. PICK p, o : /\ p = RoleSpecs[run[r].item]
                        /\ run' = [run EXCEPT ![r] = ListRole(run[r], p, o)]
                        /\ UNCHANGED <<env, gateSteps, overlapped>>
        BY <4>1 DEF AssignRole
      <4>3. p \in ToSet(RoleSpecs)
        <5>1. Len(RoleSpecs) \in Nat
          BY ProvisioningConstants
        <5> QED
          BY <1>1, <4>1, <4>2, <5>1, ItemsAre
      <4> DEFINE roles == IF o = "done" THEN run[r].roles \cup {p} ELSE run[r].roles
                 next == run[r].item + 1
      <4>4. PICK y : y = ListRole(run[r], p, o)
        OBVIOUS
      <4>5. /\ y = [run[r] EXCEPT !.roles = roles, !.item = next]
            /\ roles \in SUBSET ToSet(RoleSpecs) /\ next \in Nat
        BY <1>1, <4>3, <4>4 DEF ListRole, RunState
      <4> HIDE DEF roles, next
      <4>6. /\ y \in RunState /\ y.pc = run[r].pc /\ y.cfg = run[r].cfg
            /\ y.errs = run[r].errs /\ y.plan = run[r].plan
        BY <1>1, <4>5 DEF RunState
      <4> QED
        BY <1>6, <3>3, <4>2, <4>4, <4>6
    <3> QED
      BY <3>1, <3>2, <3>3
  <2>4. CASE StepPolicy(r)
    <3>1. CASE Dry(r)
      BY <1>3, <2>4, <3>1 DEF StepPolicy
    <3>2. CASE ~ Dry(r) /\ run[r].item > Len(Policies)
      BY <1>1, <1>4, <2>4, <3>2 DEF StepPolicy
    <3>3. CASE ~ Dry(r) /\ ~ (run[r].item > Len(Policies))
      <4>1. PICK o : IF o = "done"
                     THEN run' = [run EXCEPT ![r] = NextPolicy(@)] /\ UNCHANGED <<env, gateSteps, overlapped>>
                     ELSE EndStep(r, run[r], TRUE)
        BY <2>4, <3>3 DEF StepPolicy
      <4>2. CASE o = "done"
        <5>1. PICK y : y = NextPolicy(run[r])
          OBVIOUS
        <5>2. /\ y \in RunState /\ y.pc = run[r].pc /\ y.cfg = run[r].cfg
              /\ y.errs = run[r].errs /\ y.plan = run[r].plan
          BY <1>1, <5>1 DEF RunState, NextPolicy
        <5>3. run' = [run EXCEPT ![r] = y]
          BY <4>1, <4>2, <5>1
        <5> QED
          BY <1>6, <3>3, <4>1, <4>2, <5>2, <5>3
      <4>3. CASE o # "done"
        BY <1>1, <1>4, <3>3, <4>1, <4>3
      <4> QED
        BY <4>2, <4>3
    <3> QED
      BY <3>1, <3>2, <3>3
  <2>5. CASE StepBudget(r)
    <3>1. CASE Dry(r)
      BY <1>3, <2>5, <3>1 DEF StepBudget
    <3>2. CASE ~ Dry(r)
      <4>1. PICK error \in BOOLEAN : EndStep(r, run[r], error)
        BY <2>5, <3>2 DEF StepBudget
      <4> QED
        BY <1>1, <1>4, <3>2, <4>1
    <3> QED
      BY <3>1, <3>2
  <2>6. CASE StepNotify(r)
    <3>1. CASE Dry(r)
      BY <1>3, <2>6, <3>1 DEF StepNotify
    <3>2. CASE ~ Dry(r)
      BY <1>1, <1>4, <2>6, <3>2 DEF StepNotify
    <3> QED
      BY <3>1, <3>2
  <2>7. ASSUME NEW step \in {"API", "WEBHOOK"}, NEW configured, HttpPost(r, step, configured)
        PROVE  \E y : Goes(r, y) /\ Done(y)
    <3>1. run[r].pc = step /\ azure' = azure
      BY <2>7 DEF HttpPost
    <3>2. CASE configured /\ ~ Dry(r)
      <4>1. PICK error \in BOOLEAN : EndStep(r, run[r], error)
        BY <2>7, <3>2 DEF HttpPost
      <4> QED
        BY <1>1, <1>4, <3>2, <4>1
    <3>3. CASE ~ (configured /\ ~ Dry(r))
      <4>1. EndStep(r, run[r], FALSE) /\ sent' = sent
        BY <2>7, <3>3 DEF HttpPost
      <4> QED
        BY <1>5, <1>7, <3>1, <4>1
    <3> QED
      BY <3>2, <3>3
  <2>8. CASE StepApi(r)
    BY <2>7, <2>8 DEF StepApi
  <2>9. CASE StepWebhook(r)
    BY <2>7, <2>9 DEF StepWebhook
  <2>10. CASE StepFeedback(r)
    <3>1. run[r].pc = "FEEDBACK"
      BY <2>10 DEF StepFeedback
    <3>2. CASE run[r].cfg.ticket = NoTicket
      <4>1. EndStep(r, run[r], FALSE) /\ UNCHANGED <<azure, sent>>
        BY <2>10, <3>2 DEF StepFeedback
      <4> QED
        BY <1>5, <1>7, <3>1, <4>1
    <3>3. CASE run[r].cfg.ticket # NoTicket /\ Dry(r)
      BY <1>3, <2>10, <3>3 DEF StepFeedback
    <3>4. CASE run[r].cfg.ticket # NoTicket /\ ~ Dry(r)
      <4>1. EndStep(r, run[r], FALSE)
        BY <2>10, <3>4 DEF StepFeedback
      <4> QED
        BY <1>1, <1>4, <3>4, <4>1
    <3> QED
      BY <3>2, <3>3, <3>4
  <2> QED
    BY <2>1, <2>2, <2>3, <2>4, <2>5, <2>6, <2>8, <2>9, <2>10 DEF Step
<1> QED
  BY <1>2, <1>8

-------------------------------------------------------------------------------
(***************************************************************************)
(* The gate list                                                           *)
(***************************************************************************)

\* Apart from the gate there are closures of preflights in the list, and the gate is the last.
ListOk(list) ==
  /\ list \in Lists
  /\ \A k \in 1 .. Len(list) : list[k] # "gate" => kind[list[k]] = "preflight"
  /\ SnowInstance => Len(list) > 0 /\ list[Len(list)] = "gate"

\* How a request to provision comes by its ticket, when the executions in o have met a
\* preflight, and that it needs an approved one to get behind the gate.
TicketOk(r, x, o) ==
  kind[r] = "provision" =>
    /\ r \notin o /\ x.cfg.ticket # NoTicket => x.cfg.read /\ x.cfg.ticket = Ticket
    /\ SnowInstance /\ x.pc \in Steps => x.cfg.ticket \in Approved

\* The inductive invariant of the gate list.
GateInv ==
  /\ ListOk(gateSteps)
  /\ overlapped \subseteq Runs
  /\ \A r \in Runs : TicketOk(r, run[r], overlapped)

\* new is list without the entry at k: the gap is closed and all others are in their order.
Without(list, k, new) ==
  /\ new \in Lists
  /\ Len(new) = Len(list) - 1
  /\ \A i \in 1 .. Len(list) - 1 : new[i] = IF i < k THEN list[i] ELSE list[i + 1]

LEMMA RemovedIs ==
  ASSUME NEW list \in Lists, NEW r, NEW j \in 1 .. Len(list), list[j] = r
  PROVE  \E k \in 1 .. Len(list) : list[k] = r /\ Without(list, k, RemoveFirst(list, r))
<1> DEFINE I == {i \in 1 .. Len(list) : list[i] = r}
<1>1. Len(list) \in Nat
  BY DEF Lists
<1>2. PICK k : k = Min(I)
  OBVIOUS
<1>3. k \in 1 .. Len(list) /\ list[k] = r
  <2>1. I \in SUBSET Nat /\ I # {}
    BY <1>1
  <2> HIDE DEF I
  <2>2. k \in I
    BY <1>2, <2>1, LeastIs
  <2> QED
    BY <2>2 DEF I
<1>4. RemoveFirst(list, r) = RemoveAt(list, k)
  <2>1. SelectInSeq(list, LAMBDA v : v = r) = k
    BY <1>2 DEF SelectInSeq
  <2> QED
    BY <2>1 DEF RemoveFirst
<1> HIDE DEF I
<1> DEFINE a == SubSeq(list, 1, k - 1)
           b == SubSeq(list, k + 1, Len(list))
<1>5. RemoveFirst(list, r) = a \o b
  BY <1>4 DEF RemoveAt
<1>6. /\ a \in Lists /\ Len(a) = k - 1 /\ \A i \in 1 .. k - 1 : a[i] = list[i]
      /\ b \in Lists /\ Len(b) = Len(list) - k
      /\ \A i \in 1 .. Len(list) - k : b[i] = list[k + i]
  BY <1>1, <1>3 DEF Lists
<1> HIDE DEF a, b
<1>7. /\ a \o b \in Lists /\ Len(a \o b) = Len(a) + Len(b)
      /\ \A i \in 1 .. Len(a) + Len(b) :
           (a \o b)[i] = IF i <= Len(a) THEN a[i] ELSE b[i - Len(a)]
  BY <1>6, ConcatProperties DEF Lists
<1>8. Len(a \o b) = Len(list) - 1
  BY <1>1, <1>3, <1>6, <1>7
<1>9. ASSUME NEW i \in 1 .. Len(list) - 1
      PROVE  (a \o b)[i] = IF i < k THEN list[i] ELSE list[i + 1]
  <2>1. CASE i < k
    <3>1. i \in 1 .. Len(a) + Len(b) /\ i <= Len(a) /\ i \in 1 .. k - 1
      BY <1>1, <1>3, <1>6, <2>1
    <3> QED
      BY <1>6, <1>7, <2>1, <3>1
  <2>2. CASE ~ (i < k)
    <3>1. /\ i \in 1 .. Len(a) + Len(b) /\ ~ (i <= Len(a))
          /\ i - Len(a) \in 1 .. Len(list) - k /\ k + (i - Len(a)) = i + 1
      BY <1>1, <1>3, <1>6, <2>2
    <3>2. (a \o b)[i] = b[i - Len(a)]
      BY <1>7, <3>1
    <3>3. b[i - Len(a)] = list[k + (i - Len(a))]
      BY <1>6, <3>1
    <3> QED
      BY <2>2, <3>1, <3>2, <3>3
  <2> QED
    BY <2>1, <2>2
<1>10. Without(list, k, a \o b)
  BY <1>7, <1>8, <1>9 DEF Without
<1> QED
  BY <1>3, <1>5, <1>10

LEMMA RemovalKeepsList ==
  ASSUME NEW list, ListOk(list), NEW r \in Runs
  PROVE  ListOk(RemoveFirst(list, r))
<1>1. /\ list \in Lists /\ Len(list) \in Nat
      /\ \A k \in 1 .. Len(list) : list[k] # "gate" => kind[list[k]] = "preflight"
      /\ SnowInstance => Len(list) > 0 /\ list[Len(list)] = "gate"
      /\ r # "gate"
  BY ProvisioningConstants DEF ListOk, Lists
<1>2. CASE \A j \in 1 .. Len(list) : list[j] # r
  <2>1. RemoveFirst(list, r) = list
    BY <1>2 DEF RemoveFirst
  <2> QED
    BY <2>1
<1>3. ASSUME NEW j \in 1 .. Len(list), list[j] = r
      PROVE  ListOk(RemoveFirst(list, r))
  <2>1. list \in Lists
    BY <1>1
  <2>2. PICK k \in 1 .. Len(list) : list[k] = r /\ Without(list, k, RemoveFirst(list, r))
    BY <1>3, <2>1, RemovedIs
  <2>3. PICK new : new = RemoveFirst(list, r)
    OBVIOUS
  <2>4. /\ new \in Lists /\ Len(new) = Len(list) - 1
        /\ \A i \in 1 .. Len(list) - 1 : new[i] = IF i < k THEN list[i] ELSE list[i + 1]
    BY <2>2, <2>3 DEF Without
  <2>5. \A i \in 1 .. Len(new) : new[i] # "gate" => kind[new[i]] = "preflight"
    <3> SUFFICES ASSUME NEW i \in 1 .. Len(new), new[i] # "gate"
                 PROVE  kind[new[i]] = "preflight"
      OBVIOUS
    <3>1. i \in 1 .. Len(list) - 1 /\ i \in 1 .. Len(list) /\ i + 1 \in 1 .. Len(list)
      BY <1>1, <2>4
    <3> QED
      BY <1>1, <2>4, <3>1
  <2>6. ASSUME SnowInstance
        PROVE  Len(new) > 0 /\ new[Len(new)] = "gate"
    <3>1. Len(list) > 0 /\ list[Len(list)] = "gate"
      BY <1>1, <2>6
    <3>2. k # Len(list)
      BY <1>1, <2>2, <3>1
    <3>3. /\ Len(list) - 1 > 0 /\ Len(list) - 1 \in 1 .. Len(list) - 1
          /\ (Len(list) - 1) + 1 = Len(list)
          /\ ~ (Len(list) - 1 < k)
      BY <1>1, <3>1, <3>2
    <3>4. new[Len(list) - 1] = list[(Len(list) - 1) + 1]
      BY <2>4, <3>3
    <3> QED
      BY <2>4, <3>1, <3>3, <3>4
  <2> QED
    BY <2>3, <2>4, <2>5, <2>6 DEF ListOk
<1> QED
  BY <1>2, <1>3

\* Execution r goes on to y after it has seen the list `list`; o have met a preflight by then.
LEMMA GateMoves ==
  ASSUME ProvInv, GateInv, NEW r \in Runs, NEW y \in RunState, NEW list, ListOk(list),
         NEW o \in SUBSET Runs, overlapped \subseteq o, overlapped' = o,
         Commit(r, y, list), kind' = kind,
         TicketOk(r, y, o)
  PROVE  GateInv'
<1>1. PICK new : new = gateSteps'
  OBVIOUS
<1>2. ListOk(new)
  <2>1. CASE y.pc = "returned"
    BY <1>1, <2>1, RemovalKeepsList DEF Commit
  <2>2. CASE y.pc # "returned"
    BY <1>1, <2>2 DEF Commit
  <2> QED
    BY <2>1, <2>2
<1>3. ListOk(gateSteps)'
  BY <1>1, <1>2 DEF ListOk
<1>4. run'[r] = y /\ \A s \in Runs \ {r} : run'[s] = run[s]
  <2>1. run \in [Runs -> RunState]
    BY DEF ProvInv, CoreTypes
  <2> QED
    BY <2>1 DEF Commit
<1>5. ASSUME NEW s \in Runs
      PROVE  TicketOk(s, run'[s], o)
  <2>1. CASE s = r
    BY <1>4, <2>1
  <2>2. CASE s # r
    <3>1. TicketOk(s, run[s], overlapped)
      BY DEF GateInv
    <3> QED
      BY <1>4, <2>2, <3>1 DEF TicketOk
  <2> QED
    BY <2>1, <2>2
<1>6. \A s \in Runs : TicketOk(s, run[s], overlapped)'
  BY <1>5 DEF TicketOk
<1> QED
  BY <1>3, <1>6 DEF GateInv

\* A gate loop that stops at no gate ends behind the gate of the list, so the last entry it saw
\* is not a closure; and one that replaces a ticket has met a preflight.
LEMMA LoopKeepsTicket ==
  ASSUME NEW r \in Runs, NEW list, ListOk(list), NEW i \in Nat \ {0}, NEW x \in RunState,
         NEW o \in SUBSET Runs, Meets(r, list) => r \in o,
         kind[r] = "provision" /\ r \notin o /\ x.cfg.ticket # NoTicket
           => x.cfg.read /\ x.cfg.ticket = Ticket,
         kind[r] = "provision" /\ SnowInstance /\ i > Len(list) => x.cfg.ticket \in Approved
  PROVE  TicketOk(r, GateLoop(x, list, i), o)
<1>1. /\ list \in Lists /\ Len(list) \in Nat /\ DOMAIN list = 1 .. Len(list)
      /\ \A k \in 1 .. Len(list) : list[k] # "gate" => kind[list[k]] = "preflight"
      /\ \A k \in 1 .. Len(list) : list[k] \in Runs \cup {"gate"}
      /\ SnowInstance => Len(list) > 0 /\ list[Len(list)] = "gate"
  BY DEF ListOk, Lists
<1>2. PICK y : y = GateLoop(x, list, i)
  OBVIOUS
<1>3. /\ y \in RunState /\ y.pc \in {"gate", "MG"}
      /\ y.cfg = x.cfg \/
           (y.cfg.ticket = PreflightTicket /\ i \in 1 .. Len(list) /\ list[i] # "gate")
      /\ y.pc = "MG" => \A k \in i .. Len(list) : list[k] # "gate"
  <2>1. list \in Lists
    BY <1>1
  <2>2. LET z == GateLoop(x, list, i)
        IN  /\ z \in RunState /\ SameWork(x, z)
            /\ z.pc \in {"gate", "MG"}
            /\ z.pc = "gate" => z.idx \in Nat \ {0}
            /\ z.item = x.item \/ z.item = 1
            /\ z.cfg = x.cfg \/
                 /\ z.cfg.ticket = PreflightTicket
                 /\ i \in 1 .. Len(list) /\ list[i] # "gate"
            /\ z.pc = "MG" => \A k \in i .. Len(list) : list[k] # "gate"
    BY <2>1, GateLoopIs, Z3
  <2> QED
    BY <1>2, <2>2, Z3
<1>4. SUFFICES ASSUME kind[r] = "provision"
               PROVE  /\ r \notin o /\ y.cfg.ticket # NoTicket => y.cfg.read /\ y.cfg.ticket = Ticket
                      /\ SnowInstance /\ y.pc \in Steps => y.cfg.ticket \in Approved
  BY <1>2 DEF TicketOk
<1>5. ASSUME i \in 1 .. Len(list), list[i] # "gate"
      PROVE  r \in o
  <2>1. list[i] \in Runs \ {r}
    BY <1>1, <1>4, <1>5
  <2>2. WithExtensions(r)
    BY <1>4 DEF WithExtensions
  <2> QED
    BY <1>1, <1>5, <2>1, <2>2 DEF Meets
<1>6. r \notin o /\ y.cfg.ticket # NoTicket => y.cfg.read /\ y.cfg.ticket = Ticket
  BY <1>3, <1>4, <1>5
<1>7. ASSUME SnowInstance, y.pc \in Steps
      PROVE  y.cfg.ticket \in Approved
  <2>1. y.pc = "MG"
    BY <1>3, <1>7, Unplaced
  <2>2. i > Len(list)
    <3>1. Len(list) \notin i .. Len(list)
      BY <1>1, <1>3, <1>7, <2>1
    <3> QED
      BY <1>1, <3>1
  <2>3. y.cfg = x.cfg
    BY <1>1, <1>3, <2>2
  <2> QED
    BY <1>4, <1>7, <2>2, <2>3
<1> QED
  BY <1>6, <1>7

\* An execution begins its gate loop.
LEMMA BeginningKeepsGate ==
  ASSUME ProvInv, GateInv, NEW r \in Runs, NEW x \in RunState, NEW list, ListOk(list),
         Commit(r, Started(r, x, list), list),
         NEW o \in SUBSET Runs, overlapped \subseteq o, Meets(r, list) => r \in o,
         overlapped' = o, kind' = kind,
         x.cfg.ticket # NoTicket => x.cfg.read /\ x.cfg.ticket = Ticket
  PROVE  GateInv'
<1>1. list \in Lists /\ Len(list) \in Nat
  BY DEF ListOk, Lists
<1>2. PICK y : y = Started(r, x, list)
  OBVIOUS
<1>3. y \in RunState
  BY <1>1, <1>2, StartedIs
<1>4. TicketOk(r, y, o)
  <2>1. CASE kind[r] = "provision"
    <3>1. y = GateLoop(x, list, 1)
      BY <1>2, <2>1 DEF Started, WithExtensions
    <3>2. ~ (SnowInstance /\ 1 > Len(list))
      BY <1>1 DEF ListOk
    <3> QED
      BY <3>1, <3>2, LoopKeepsTicket
  <2>2. CASE kind[r] # "provision"
    BY <2>2 DEF TicketOk
  <2> QED
    BY <2>1, <2>2
<1> QED
  BY <1>2, <1>3, <1>4, GateMoves

LEMMA ReadTagsKeepsGate ==
  ASSUME ProvInv, GateInv, NEW r \in Runs, ReadTags(r)
  PROVE  GateInv'
<1>1. PICK cfg \in {ConfigOf(tags)} \cup {ConfigWithoutTags} :
        Commit(r, Started(r, [run[r] EXCEPT !.cfg = cfg], gateSteps), gateSteps)
  BY DEF ReadTags
<1>2. run[r] \in RunState /\ cfg \in Config
  <2>1. tags \in TagValues
    BY DEF ProvInv, CoreTypes
  <2> QED
    BY <1>1, <2>1, MovingRun, ConfigTypes
<1>3. cfg.ticket # NoTicket => cfg.read /\ cfg.ticket = Ticket
  BY <1>1 DEF ConfigOf, ConfigWithoutTags
<1>4. PICK x : x = [run[r] EXCEPT !.cfg = cfg]
  OBVIOUS
<1>5. x \in RunState /\ x.cfg = cfg
  BY <1>2, <1>4 DEF RunState
<1>6. PICK list, o : list = gateSteps /\ o = overlapped'
  OBVIOUS
<1>7. /\ ListOk(list) /\ o \in SUBSET Runs /\ overlapped \subseteq o
      /\ Meets(r, list) => r \in o
      /\ Commit(r, Started(r, x, list), list)
      /\ kind' = kind
  BY <1>1, <1>4, <1>6 DEF GateInv, ReadTags, Touch, env
<1> QED
  BY <1>3, <1>5, <1>6, <1>7, BeginningKeepsGate

LEMMA StartDryRunKeepsGate ==
  ASSUME ProvInv, GateInv, NEW r \in Runs, StartDryRun(r) \/ StartPreflight(r)
  PROVE  GateInv'
<1>1. run[r] \in RunState /\ Dry(r) /\ kind' = kind
  BY MovingRun DEF StartDryRun, StartPreflight, Injects, Dry, env
<1>2. PICK list : /\ ListOk(list) /\ Commit(r, Started(r, run[r], list), list)
                  /\ overlapped \subseteq overlapped' /\ overlapped' \subseteq Runs
  <2>1. CASE StartDryRun(r)
    BY <2>1 DEF StartDryRun, Touch, GateInv
  <2>2. CASE StartPreflight(r)
    <3>1. PICK list : list = <<r>> \o gateSteps
      OBVIOUS
    <3>2. /\ list \in Lists /\ Len(list) = Len(gateSteps) + 1 /\ list[1] = r
          /\ \A k \in 1 .. Len(gateSteps) : list[k + 1] = gateSteps[k]
          /\ Len(gateSteps) \in Nat
      BY <3>1, InsertedIs DEF GateInv, ListOk, Lists
    <3>3. kind[r] = "preflight"
      BY <2>2 DEF StartPreflight, Injects
    <3>4. \A k \in 1 .. Len(list) : list[k] # "gate" => kind[list[k]] = "preflight"
      <4> SUFFICES ASSUME NEW k \in 1 .. Len(list), list[k] # "gate"
                   PROVE  kind[list[k]] = "preflight"
        OBVIOUS
      <4>1. CASE k = 1
        BY <3>2, <3>3, <4>1
      <4>2. CASE k # 1
        <5>1. PICK j \in 1 .. Len(gateSteps) : k = j + 1
          <6>1. k - 1 \in 1 .. Len(gateSteps) /\ k = (k - 1) + 1
            BY <3>2, <4>2
          <6> QED
            BY <6>1
        <5>2. list[k] = gateSteps[j]
          BY <3>2, <5>1
        <5> QED
          BY <5>1, <5>2 DEF GateInv, ListOk
      <4> QED
        BY <4>1, <4>2
    <3>5. ASSUME SnowInstance PROVE Len(list) > 0 /\ list[Len(list)] = "gate"
      <4>1. Len(gateSteps) > 0 /\ gateSteps[Len(gateSteps)] = "gate"
        BY <3>5 DEF GateInv, ListOk
      <4>2. Len(gateSteps) \in 1 .. Len(gateSteps)
        BY <3>2, <4>1
      <4> QED
        BY <3>2, <4>1, <4>2
    <3>6. ListOk(list)
      BY <3>2, <3>4, <3>5 DEF ListOk
    <3>7. Commit(r, Started(r, run[r], list), list)
      BY <2>2, <3>1 DEF StartPreflight
    <3>8. overlapped \subseteq overlapped' /\ overlapped' \subseteq Runs
      BY <2>2 DEF StartPreflight, GateInv
    <3> QED
      BY <3>6, <3>7, <3>8
  <2> QED
    BY <2>1, <2>2
<1>3. PICK y, o : y = Started(r, run[r], list) /\ o = overlapped'
  OBVIOUS
<1>4. y \in RunState
  BY <1>1, <1>2, <1>3, StartedIs DEF ListOk
<1>5. TicketOk(r, y, o)
  BY <1>1 DEF TicketOk, Dry
<1> QED
  BY <1>1, <1>2, <1>3, <1>4, <1>5, GateMoves

LEMMA GateKeepsGate ==
  ASSUME ProvInv, GateInv, NEW r \in Runs, Gate(r)
  PROVE  GateInv'
<1>1. PICK list, o : list = gateSteps /\ o = overlapped'
  OBVIOUS
<1>2. /\ ListOk(list) /\ o \in SUBSET Runs /\ overlapped \subseteq o
      /\ Meets(r, list) => r \in o
      /\ kind' = kind
  BY <1>1 DEF GateInv, Gate, Touch, env
<1>3. run[r] \in RunState /\ run[r].idx \in Nat \ {0}
  BY MovingRun DEF ProvInv, PlaceInv, PlaceOk, Gate
<1>4. TicketOk(r, run[r], o)
  BY <1>2 DEF GateInv, TicketOk
<1>5. CASE /\ run[r].cfg.ticket \in Approved
           /\ Commit(r, GateLoop([run[r] EXCEPT !.plan = @ \cup {"gate"}], gateSteps, run[r].idx),
                     gateSteps)
  <2>1. PICK x, i, y : /\ x = [run[r] EXCEPT !.plan = @ \cup {"gate"}] /\ i = run[r].idx
                       /\ y = GateLoop(x, list, i)
    OBVIOUS
  <2>2. x \in RunState /\ x.cfg = run[r].cfg
    BY <1>3, <2>1, PassedIs
  <2>3. y \in RunState
    BY <1>2, <1>3, <2>1, <2>2, GateLoopIs DEF ListOk
  <2>4. TicketOk(r, GateLoop(x, list, i), o)
    <3>1. kind[r] = "provision" /\ r \notin o /\ x.cfg.ticket # NoTicket
             => x.cfg.read /\ x.cfg.ticket = Ticket
      BY <1>4, <2>2 DEF TicketOk
    <3>2. x.cfg.ticket \in Approved
      BY <1>5, <2>2
    <3>3. i \in Nat \ {0}
      BY <1>3, <2>1
    <3> QED
      BY <1>2, <2>2, <3>1, <3>2, <3>3, LoopKeepsTicket
  <2>5. Commit(r, y, list)
    BY <1>1, <1>5, <2>1
  <2> QED
    BY <1>1, <1>2, <2>1, <2>3, <2>4, <2>5, GateMoves
<1>6. CASE Commit(r, [run[r] EXCEPT !.errs = {"gate"}, !.pc = "returned"], gateSteps)
  <2>1. PICK y : y = [run[r] EXCEPT !.errs = {"gate"}, !.pc = "returned"]
    OBVIOUS
  <2>2. y \in RunState /\ y.cfg = run[r].cfg /\ y.pc \notin Steps
    BY <1>3, <2>1, Unplaced DEF RunState
  <2>3. TicketOk(r, y, o)
    BY <1>4, <2>2 DEF TicketOk
  <2>4. Commit(r, y, list)
    BY <1>1, <1>6, <2>1
  <2> QED
    BY <1>1, <1>2, <2>2, <2>3, <2>4, GateMoves
<1> QED
  BY <1>5, <1>6, GateEndIs

LEMMA StepKeepsGate ==
  ASSUME ProvInv, GateInv, NEW r \in Runs, Step(r)
  PROVE  GateInv'
<1>1. run[r].pc \in Steps
  BY StepGoes
<1>2. PICK y : Goes(r, y)
  BY StepGoes
<1>3. TicketOk(r, y, overlapped)
  <2>1. TicketOk(r, run[r], overlapped)
    BY DEF GateInv
  <2> QED
    BY <1>1, <1>2, <2>1 DEF TicketOk, Goes
<1>4. PICK list, o : list = gateSteps /\ o = overlapped
  OBVIOUS
<1>5. /\ ListOk(list) /\ o \in SUBSET Runs /\ overlapped \subseteq o /\ overlapped' = o
      /\ y \in RunState /\ Commit(r, y, list) /\ kind' = kind /\ TicketOk(r, y, o)
  BY <1>2, <1>3, <1>4 DEF GateInv, Goes, env
<1> QED
  BY <1>5, GateMoves

LEMMA StartProvisionKeepsGate ==
  ASSUME ProvInv, GateInv, NEW r \in Runs, StartProvision(r)
  PROVE  GateInv'
<1>1. PICK y : y = [run[r] EXCEPT !.pc = "tags"]
  OBVIOUS
<1>2. y \in RunState /\ y.pc = "tags" /\ y.cfg = run[r].cfg
  BY <1>1, MovingRun DEF RunState
<1>3. TicketOk(r, y, overlapped)
  <2>1. TicketOk(r, run[r], overlapped)
    BY DEF GateInv
  <2> QED
    BY <1>2, <2>1, Unplaced DEF TicketOk
<1>4. PICK list, o : list = gateSteps /\ o = overlapped
  OBVIOUS
<1>5. Commit(r, y, list)
  <2>1. run' = [run EXCEPT ![r] = y]
    <3>1. run' = [run EXCEPT ![r].pc = "tags"]
      BY DEF StartProvision
    <3> QED
      BY <1>1, <3>1
  <2> QED
    BY <1>2, <1>4, <2>1 DEF Commit, StartProvision
<1>6. /\ ListOk(list) /\ o \in SUBSET Runs /\ overlapped \subseteq o /\ overlapped' = o
      /\ kind' = kind /\ TicketOk(r, y, o)
  BY <1>3, <1>4 DEF GateInv, StartProvision
<1> QED
  BY <1>2, <1>5, <1>6, GateMoves

LEMMA SameKeepsGate ==
  ASSUME GateInv, UNCHANGED <<kind, gateSteps, run, overlapped>>
  PROVE  GateInv'
<1>1. ListOk(gateSteps)'
  BY DEF GateInv, ListOk
<1>2. \A r \in Runs : TicketOk(r, run[r], overlapped)'
  BY DEF GateInv, TicketOk
<1> QED
  BY <1>1, <1>2 DEF GateInv

LEMMA InitGate ==
  ASSUME Init
  PROVE  GateInv
<1>1. ListOk(gateSteps)
  <2>1. CASE SnowInstance
    <3>1. gateSteps = <<"gate">>
      BY <2>1 DEF Init, RegisteredGates
    <3> QED
      BY <3>1 DEF ListOk, Lists
  <2>2. CASE ~ SnowInstance
    <3>1. gateSteps = <<>>
      BY <2>2 DEF Init, RegisteredGates
    <3> QED
      BY <2>2, <3>1 DEF ListOk, Lists
  <2> QED
    BY <2>1, <2>2
<1>2. Fresh.cfg.ticket = NoTicket /\ Fresh.pc \notin Steps
  BY Unplaced DEF Fresh, DefaultConfig
<1>3. \A r \in Runs : run[r] = Fresh
  BY DEF Init
<1> QED
  BY <1>1, <1>2, <1>3 DEF Init, GateInv, TicketOk

\* Both invariants hold in every reachable state.
THEOREM ProvInvHolds == Spec => [](ProvInv /\ GateInv)
<1>1. Init => ProvInv /\ GateInv
  BY InitInv, InitGate
<1>2. ProvInv /\ GateInv /\ [Next]_vars => ProvInv' /\ GateInv'
  <2> SUFFICES ASSUME ProvInv, GateInv, [Next]_vars PROVE ProvInv' /\ GateInv'
    OBVIOUS
  <2>1. gateSteps \in Lists
    BY DEF GateInv, ListOk
  <2>2. ASSUME NEW r \in Runs, StartProvision(r) PROVE ProvInv' /\ GateInv'
    BY <2>2, StartProvisionKeepsInv, StartProvisionKeepsGate
  <2>3. ASSUME NEW r \in Runs, StartDryRun(r) \/ StartPreflight(r) PROVE ProvInv' /\ GateInv'
    BY <2>1, <2>3, StartDryRunKeepsInv, StartDryRunKeepsGate
  <2>4. ASSUME NEW r \in Runs, ReadTags(r) PROVE ProvInv' /\ GateInv'
    BY <2>1, <2>4, ReadTagsKeepsInv, ReadTagsKeepsGate
  <2>5. ASSUME NEW r \in Runs, Gate(r) PROVE ProvInv' /\ GateInv'
    BY <2>1, <2>5, GateKeepsInv, GateKeepsGate
  <2>6. ASSUME NEW r \in Runs, Step(r) PROVE ProvInv' /\ GateInv'
    BY <2>6, StepKeepsInv, StepKeepsGate
  <2>7. CASE Retag
    BY <2>7, RetagKeepsInv, SameKeepsGate DEF Retag
  <2>8. CASE UNCHANGED vars
    <3>1. CoreTypes'
      BY <2>8 DEF ProvInv, CoreTypes, vars
    <3> QED
      BY <2>8, <3>1, SameKeepsInv, SameKeepsGate DEF vars
  <2> QED
    BY <2>2, <2>3, <2>4, <2>5, <2>6, <2>7, <2>8 DEF Next
<1> QED
  BY <1>1, <1>2, PTL DEF Spec

-------------------------------------------------------------------------------
(***************************************************************************)
(* The properties                                                          *)
(***************************************************************************)

\* The variables have their types: budgets are numbers, groups are groups of the
\* configuration, and only executions there are report anything or are in the gate list.
THEOREM TypesOfProvisioning == Spec => []TypeOK
<1>1. ProvInv /\ GateInv => TypeOK
  BY DEF ProvInv, CoreTypes, GateInv, ListOk, Lists, TypeOK
<1> QED
  BY <1>1, ProvInvHolds, PTL

LEMMA ReadyIsConfigured ==
  ASSUME NEW cfg
  PROVE  ReadyIn(cfg, azure) <=> Configured(cfg)
BY DEF ReadyIn, Configured

\* An execution that returns `success` has left everything in place that its tags ask for,
\* whichever calls failed and whatever ran beside it, and what its result names is there.
THEOREM ResultsHold == Spec => []ResultsAreTrue
<1>1. ProvInv => ResultsAreTrue
  <2> SUFFICES ASSUME ProvInv, NEW r \in Runs, ~ Dry(r)
               PROVE  /\ run[r].pc = "returned" /\ Success(run[r]) => Configured(run[r].cfg)
                      /\ run[r].roles \subseteq azure.roles
                      /\ run[r].initiative => azure.initiative
    BY DEF ResultsAreTrue
  <2>1. WorkDone(run[r], azure)
    BY DEF ProvInv, WorkInv
  <2>2. run[r].pc = "returned" => /\ run[r].pc \in BehindInitiative /\ run[r].pc \in BehindPolicy
                                  /\ run[r].pc \in BehindBudget
    BY DEF BehindInitiative, BehindPolicy, BehindBudget, BehindNotify, Ended
  <2> QED
    BY <2>1, <2>2 DEF WorkDone, Success, Configured
<1> QED
  BY <1>1, ProvInvHolds, PTL

\* Nobody outside is told of a success before the subscription is set up, and the group
\* that is named is the one the tags ask for.
THEOREM AnnouncementsHold == Spec => []AnnouncedMeansConfigured
<1>1. ProvInv => AnnouncedMeansConfigured
  BY ReadyIsConfigured DEF ProvInv, SentInv, ReportOk, AnnouncedMeansConfigured
<1> QED
  BY <1>1, ProvInvHolds, PTL

\* With the gate no execution of the service gets to a step without an approved ticket, and
\* none that met no preflight in its gate loop without having read the tags.
THEOREM GateKeepsDefaultsOut == Spec => []NoDefaultsBehindGate
<1>1. GateInv => NoDefaultsBehindGate
  <2> SUFFICES ASSUME GateInv, SnowInstance, NEW r \in Runs, kind[r] = "provision",
                      run[r].pc \in Steps
               PROVE  /\ run[r].cfg.ticket \in Approved
                      /\ r \notin overlapped => run[r].cfg.read /\ run[r].cfg.ticket = Ticket
    BY DEF NoDefaultsBehindGate
  <2>1. TicketOk(r, run[r], overlapped)
    BY DEF GateInv
  <2>2. NoTicket \notin Approved
    BY ProvisioningConstants
  <2> QED
    BY <2>1, <2>2 DEF TicketOk
<1> QED
  BY <1>1, ProvInvHolds, PTL

\* A replay repairs: after a successful last execution that met no other the subscription
\* is where the tags it read said and has their budget, wherever earlier ones failed.
THEOREM ReplayRepairs == Spec => []LastRunSettles
<1>1. ProvInv => LastRunSettles
  <2> SUFFICES ASSUME ProvInv, NEW r \in solo, latest = r, run[r].pc = "returned", Success(run[r])
               PROVE  /\ azure.mg = TargetMg(run[r].cfg)
                      /\ run[r].mg = azure.mg
                      /\ run[r].cfg.budget > 0 => azure.budget = run[r].cfg.budget
    BY DEF LastRunSettles
  <2>1. /\ r \in Runs /\ ~ Dry(r) /\ Settled(run[r], azure) /\ WorkDone(run[r], azure)
    BY DEF ProvInv, CoreTypes, SoloInv, WorkInv
  <2>2. run[r].pc \in BehindMg /\ run[r].pc \in BehindBudget
    BY DEF BehindMg, BehindInitiative, BehindPolicy, BehindBudget, BehindNotify, Ended
  <2> QED
    BY <2>1, <2>2 DEF Settled, WorkDone, Success
<1> QED
  BY <1>1, ProvInvHolds, PTL

\* The step of one execution leaves the local state of the others alone; and a step of a dry
\* run only adds to the plan.
LEMMA OwnStep ==
  ASSUME ProvInv, NEW r \in Runs,
         \/ StartProvision(r) \/ StartDryRun(r) \/ StartPreflight(r)
         \/ ReadTags(r) \/ Gate(r) \/ Step(r)
  PROVE  /\ \A s \in Runs \ {r} : run'[s] = run[s]
         /\ Dry(r) => Rehearses(r)
<1>1. run \in [Runs -> RunState] /\ run[r] \in RunState
  BY DEF ProvInv, CoreTypes
<1>2. "idle" \notin ToSet(BuiltIn) /\ "tags" \notin ToSet(BuiltIn) /\ "gate" \notin ToSet(BuiltIn)
  <2>1. \A i : i \in 1 .. 6 <=> i \in {1, 2, 3, 4, 5, 6}
    OBVIOUS
  <2>2. \A s \in ToSet(BuiltIn) : \E i \in {1, 2, 3, 4, 5, 6} : BuiltIn[i] = s
    BY <2>1, BuiltInIs DEF ToSet
  <2> QED
    BY <2>2, BuiltInIs
<1>3. CASE StartProvision(r)
  BY <1>1, <1>3 DEF StartProvision
<1>4. CASE StartDryRun(r) \/ StartPreflight(r) \/ ReadTags(r) \/ Gate(r)
  <2>1. \E y : run' = [run EXCEPT ![r] = y]
    <3>1. CASE StartDryRun(r)
      BY <3>1 DEF StartDryRun, Commit
    <3>2. CASE StartPreflight(r)
      BY <3>2 DEF StartPreflight, Commit
    <3>3. CASE ReadTags(r)
      BY <3>3 DEF ReadTags, Commit
    <3>4. CASE Gate(r)
      BY <3>4 DEF Gate, Commit
    <3> QED
      BY <1>4, <3>1, <3>2, <3>3, <3>4
  <2>2. run[r].pc \in {"idle", "tags", "gate"} /\ UNCHANGED <<azure, sent>>
    BY <1>4 DEF StartDryRun, StartPreflight, ReadTags, Gate
  <2> QED
    BY <1>1, <1>2, <2>1, <2>2 DEF Rehearses
<1>5. CASE Step(r)
  <2>1. PICK y : /\ Goes(r, y)
                 /\ Dry(r) =>
                      /\ UNCHANGED <<azure, sent>>
                      /\ run[r].pc \in ToSet(BuiltIn) => y.plan = run[r].plan \cup {run[r].pc}
    BY <1>5, StepGoes
  <2>2. run'[r] = y /\ \A s \in Runs \ {r} : run'[s] = run[s]
    BY <1>1, <2>1 DEF Goes, Commit
  <2> QED
    BY <2>1, <2>2 DEF Rehearses
<1> QED
  BY <1>3, <1>4, <1>5

\* In whatever step it is, a dry run or a preflight changes nothing in Azure and tells nobody,
\* and no built-in step is missing from its plan.
THEOREM DryRunsOnlyPlan == Spec => DryRunsTouchNothing
<1>1. ProvInv /\ [Next]_vars =>
        [\A r \in Runs : Dry(r) /\ run'[r] # run[r] => Rehearses(r)]_vars
  <2> SUFFICES ASSUME ProvInv, Next, NEW r \in Runs, Dry(r), run'[r] # run[r]
               PROVE  Rehearses(r)
    OBVIOUS
  <2>1. CASE Retag
    BY <2>1 DEF Retag
  <2>2. ASSUME NEW s \in Runs,
               \/ StartProvision(s) \/ StartDryRun(s) \/ StartPreflight(s)
               \/ ReadTags(s) \/ Gate(s) \/ Step(s)
        PROVE  Rehearses(r)
    <3>1. s = r
      BY <2>2, OwnStep
    <3> QED
      BY <2>2, <3>1, OwnStep
  <2> QED
    BY <2>1, <2>2 DEF Next
<1> QED
  BY <1>1, ProvInvHolds, PTL DEF Spec, DryRunsTouchNothing
==============================================================================
