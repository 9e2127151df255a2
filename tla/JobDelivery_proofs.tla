------------------------- MODULE JobDelivery_proofs -------------------------
(***************************************************************************)
(* Proofs about the delivery of subscriptions: what Event Grid's 200 is    *)
(* worth, the retry budget, and that the queue and its worker implement    *)
(* JobPromise, for any deliveries, subscriptions, limits and bounds.       *)
(***************************************************************************)
EXTENDS JobDelivery, FiniteSetTheorems, TLAPS

\* The storage answers, and its SDK is installed.
Working == SdkInstalled /\ ~ StorageFails

\* What the 200 of a post says of a subscription that was in it.
Dispatched(s) ==
  /\ strategy = "dead_letter" => s \in provisioned
  /\ Inline => s \in tried
  /\ Working /\ ~ Inline => Owed(s)

\* A handler has dispatched every subscription before its position in the delivery.
HandlerInv(b, a) ==
  /\ handler[b][a].pc \in {"handling", "running"} =>
       /\ handler[b][a].idx \in Nat \ {0}
       /\ \A i \in 1 .. Len(Content[b]) :
            i < handler[b][a].idx /\ Content[b][i] \in Subs => Dispatched(Content[b][i])
  /\ handler[b][a].pc = "running" =>
       /\ Inline
       /\ handler[b][a].idx <= Len(Content[b])
       /\ Event(b, a) \in Subs \cap tried

AcceptedInv(b) == grid[b].state = "accepted" => \A s \in Created(b) : Dispatched(s)

\* Messages are numbered as they are sent, and only with a storage account.
SentInv ==
  /\ \E k \in 0 .. MaxMessages : Used = 1 .. k
  /\ ~ StorageAccount => Used = {}
  /\ Working /\ ensured => queues = QueueNames

\* The deliveries of a message are numbered as they happen: those up to the limit may be
\* runs, the others may park its job.
MessageInv(m) ==
  /\ work[m].count <= MaxDeliveries
  /\ work[m].state = "unused" => work[m].count = 0
  /\ work[m].state # "unused" => work[m].sub \in Subs
  /\ \A n \in Deliveries :
       /\ n <= work[m].count <=> task[m][n] # "none"
       /\ task[m][n] \in {"running", "ok", "failed", "lost"} => n <= MaxDeliveryCount
       /\ task[m][n] \in {"parked", "unparked"} => n > MaxDeliveryCount
       /\ task[m][n] = "ok" => work[m].sub \in provisioned
       /\ task[m][n] = "parked" => m \in DeadLettered
  /\ m \in DeadLettered => work[m].count > MaxDeliveryCount
  /\ work[m].state = "gone" => work[m].sub \in provisioned \/ m \in DeadLettered

\* The inductive invariant.
DeliveryInv ==
  /\ TypeOK
  /\ SentInv
  /\ \A m \in Messages : MessageInv(m)
  /\ \A b \in Batches : AcceptedInv(b) /\ \A a \in Attempts : HandlerInv(b, a)

-------------------------------------------------------------------------------
(***************************************************************************)
(* The bounds, and how messages are numbered.                              *)
(***************************************************************************)

LEMMA Bounds ==
  /\ MaxMessages \in Nat /\ MaxDeliveries \in Nat /\ MaxDeliveryCount \in Nat
  /\ GridAttempts \in Nat
  /\ StorageAccount \in BOOLEAN /\ SdkInstalled \in BOOLEAN /\ StorageFails \in BOOLEAN
  /\ \A b \in Batches : Len(Content[b]) \in Nat
BY DeliveryConstants

\* The next message to be sent has not been used.
LEMMA NextMessage ==
  ASSUME SentInv, Cardinality(Used) < MaxMessages
  PROVE  /\ Cardinality(Used) + 1 \in Messages \ Used
         /\ Used \cup {Cardinality(Used) + 1} = 1 .. (Cardinality(Used) + 1)
<1>1. PICK k \in 0 .. MaxMessages : Used = 1 .. k
  BY DEF SentInv
<1>2. Cardinality(Used) = k
  BY <1>1, FS_Interval
<1> QED BY <1>1, <1>2, Bounds DEF Messages

\* A job is sent when the storage works, and only to a queue that exists.
LEMMA Sends ==
  ASSUME NEW name, NEW existing, NEW ok \in SendOutcomes(name, existing)
  PROVE  /\ ok \in BOOLEAN
         /\ ok => name \in existing
         /\ ~ StorageFails /\ name \in existing => ok
BY DEF SendOutcomes

\* The subscriptions of a delivery are at its positions.
LEMMA CreatedAt ==
  ASSUME NEW b \in Batches
  PROVE  \A s \in Created(b) :
           s \in Subs /\ \E i \in 1 .. Len(Content[b]) : Content[b][i] = s
<1>1. Content[b] \in Seq(Subs \cup {Skipped})
  BY DeliveryConstants
<1>2. DOMAIN Content[b] = 1 .. Len(Content[b])
      /\ \A i \in 1 .. Len(Content[b]) : Content[b][i] \in Subs \cup {Skipped}
  BY <1>1
<1> QED BY <1>2 DEF Created, ToSet

\* Used, as seen from one message.
LEMMA UsedMessages == \A m \in Messages : m \in Used <=> work[m].state # "unused"
BY DEF Used

-------------------------------------------------------------------------------
(***************************************************************************)
(* Types                                                                   *)
(***************************************************************************)

GridState == [state : {"due", "sent", "accepted", "dropped"}, attempt : Nat]

HandlerState ==
  [pc : {"none", "handling", "running", "accepted", "refused", "lost"}, idx : Nat]

MessageState ==
  [state : {"unused", "visible", "leased", "gone"}, sub : Subs \cup {Skipped},
   origin : {"event", "api"}, count : Nat]

TaskState ==
  {"none", "posted", "running", "ok", "parked", "failed", "unparked", "refused", "lost"}

LEMMA Types ==
  ASSUME TypeOK
  PROVE  /\ strategy \in Strategies
         /\ grid \in [Batches -> GridState]
         /\ handler \in [Batches -> [Attempts -> HandlerState]]
         /\ queues \subseteq QueueNames
         /\ ensured \in BOOLEAN
         /\ work \in [Messages -> MessageState]
         /\ task \in [Messages -> [Deliveries -> TaskState]]
         /\ dlq \subseteq Messages \X Deliveries
         /\ purged \subseteq Messages
         /\ tried \subseteq Subs /\ provisioned \subseteq Subs
         /\ expiries \in Nat /\ refusals \in Nat /\ crashes \in Nat
<1>1. TaskState = {"none", "posted", "running", "ok", "parked"} \cup Unanswered
  BY DEF TaskState, Unanswered
<1> QED BY <1>1 DEF TypeOK, GridState, HandlerState, MessageState

\* One handler moves, the others stay.
LEMMA HandlerMoves ==
  ASSUME handler \in [Batches -> [Attempts -> HandlerState]],
         NEW b \in Batches, NEW a \in Attempts, NEW h \in HandlerState,
         handler' = [handler EXCEPT ![b][a] = h]
  PROVE  /\ handler' \in [Batches -> [Attempts -> HandlerState]]
         /\ handler'[b][a] = h
         /\ \A c \in Batches, d \in Attempts : c # b \/ d # a => handler'[c][d] = handler[c][d]
OBVIOUS

-------------------------------------------------------------------------------
(***************************************************************************)
(* What stays                                                              *)
(***************************************************************************)

\* Nothing that Dispatched looks at is ever taken back.
Grows ==
  /\ strategy' = strategy
  /\ tried \subseteq tried' /\ provisioned \subseteq provisioned'
  /\ \A s \in Subs : Owed(s) => Owed(s)'

LEMMA DispatchedStays ==
  ASSUME Grows, NEW s \in Subs, Dispatched(s)
  PROVE  Dispatched(s)'
BY DEF Grows, Dispatched, Inline

\* A job is owed as long as its message keeps what it has.
LEMMA OwedStays ==
  ASSUME provisioned \subseteq provisioned',
         \A m \in Used : /\ m \in Used' /\ work'[m].sub = work[m].sub
                         /\ work[m].state # "gone" \/ m \in DeadLettered =>
                              \/ work'[m].state # "gone" \/ m \in DeadLettered'
                              \/ work'[m].sub \in provisioned'
  PROVE  \A s \in Subs : Owed(s) => Owed(s)'
BY DEF Owed

LEMMA HandlerStays ==
  ASSUME DeliveryInv, Grows, NEW b \in Batches, NEW a \in Attempts, handler'[b][a] = handler[b][a]
  PROVE  HandlerInv(b, a)'
<1>1. HandlerInv(b, a)
  BY DEF DeliveryInv
<1>2. \A s \in Subs : Dispatched(s) => Dispatched(s)'
  BY DispatchedStays
<1>3. Inline' = Inline /\ tried \subseteq tried'
  BY DEF Grows, Inline
<1> QED BY <1>1, <1>2, <1>3 DEF HandlerInv, Event

LEMMA AcceptedStays ==
  ASSUME DeliveryInv, Grows, NEW b \in Batches, grid'[b].state = "accepted" => grid[b].state = "accepted"
  PROVE  AcceptedInv(b)'
<1>1. AcceptedInv(b)
  BY DEF DeliveryInv
<1>2. \A s \in Subs : Dispatched(s) => Dispatched(s)'
  BY DispatchedStays
<1>3. \A s \in Created(b) : s \in Subs
  BY CreatedAt
<1>4. Created(b)' = Created(b)
  BY DEF Created
<1> QED BY <1>1, <1>2, <1>3, <1>4 DEF AcceptedInv

\* The handlers and Event Grid have not moved.
LEMMA EventsStay ==
  ASSUME DeliveryInv, Grows, UNCHANGED <<grid, handler>>
  PROVE  \A b \in Batches : AcceptedInv(b)' /\ \A a \in Attempts : HandlerInv(b, a)'
BY HandlerStays, AcceptedStays

\* The messages have not moved, though more may be provisioned.
LEMMA MessagesStay ==
  ASSUME DeliveryInv, UNCHANGED jobVars, provisioned \subseteq provisioned'
  PROVE  /\ \A m \in Messages : MessageInv(m)'
         /\ Used' = Used
         /\ \A s \in Subs : Owed(s) => Owed(s)'
<1>1. Used' = Used /\ DeadLettered' = DeadLettered
  BY DEF jobVars, Used, DeadLettered
<1>2. \A m \in Messages : MessageInv(m)'
  BY <1>1 DEF DeliveryInv, MessageInv, jobVars
<1>3. \A s \in Subs : Owed(s) => Owed(s)'
  BY <1>1, OwedStays DEF jobVars
<1> QED BY <1>1, <1>2, <1>3

LEMMA SentStays ==
  ASSUME SentInv, UNCHANGED queueVars, Used' = Used
  PROVE  SentInv'
BY DEF SentInv, queueVars

-------------------------------------------------------------------------------
(***************************************************************************)
(* The webhook                                                             *)
(***************************************************************************)

\* Every subscription of delivery b has been dispatched.
AllDispatched(b) == \A s \in Created(b) : Dispatched(s)

\* The response of a handler: 200 only when all have been dispatched.
LEMMA RespondKeeps ==
  ASSUME DeliveryInv, Grows, NEW b \in Batches, NEW a \in Attempts, NEW code,
         handler[b][a] \in HandlerState, Respond(b, a, code),
         code = 200 => AllDispatched(b)'
  PROVE  /\ grid' \in [Batches -> GridState]
         /\ handler' \in [Batches -> [Attempts -> HandlerState]]
         /\ \A c \in Batches : AcceptedInv(c)' /\ \A d \in Attempts : HandlerInv(c, d)'
<1> DEFINE h == [handler[b][a] EXCEPT !.pc = IF code = 200 THEN "accepted" ELSE "refused"]
<1>1. grid \in [Batches -> GridState] /\ handler \in [Batches -> [Attempts -> HandlerState]]
  BY Types DEF DeliveryInv
<1>2. h \in HandlerState /\ h.pc \in {"accepted", "refused"}
  BY DEF HandlerState
<1>3. handler' = [handler EXCEPT ![b][a] = h]
  BY <1>1 DEF Respond
<1> HIDE DEF h
<1>4. /\ handler' \in [Batches -> [Attempts -> HandlerState]]
      /\ handler'[b][a] = h
      /\ \A c \in Batches, d \in Attempts : c # b \/ d # a => handler'[c][d] = handler[c][d]
  BY <1>1, <1>2, <1>3, HandlerMoves
<1>5. /\ grid' \in [Batches -> GridState]
      /\ \A c \in Batches : grid'[c].state = "accepted" =>
           grid[c].state = "accepted" \/ (c = b /\ code = 200)
  <2>1. grid[b].attempt \in Nat
    BY <1>1 DEF GridState
  <2>2. PICK st \in {"due", "accepted", "dropped"} :
          \/ grid' = grid
          \/ grid' = [grid EXCEPT ![b].state = st] /\ (st = "accepted" => code = 200)
    BY DEF Respond, Refused
  <2>3. CASE grid' = grid
    BY <1>1, <2>3
  <2>4. CASE grid' = [grid EXCEPT ![b].state = st] /\ (st = "accepted" => code = 200)
    <3> DEFINE g == [grid[b] EXCEPT !.state = st]
    <3>1. g \in GridState /\ g.state = st
      BY <1>1 DEF GridState
    <3>2. grid' = [grid EXCEPT ![b] = g]
      BY <1>1, <2>4
    <3> HIDE DEF g
    <3> QED BY <1>1, <2>4, <3>1, <3>2
  <2> QED BY <2>2, <2>3, <2>4
<1>6. ASSUME NEW c \in Batches, NEW d \in Attempts
      PROVE  HandlerInv(c, d)'
  <2>1. CASE c # b \/ d # a
    BY <1>4, <2>1, HandlerStays
  <2>2. CASE c = b /\ d = a
    BY <1>2, <1>4, <2>2 DEF HandlerInv
  <2> QED BY <2>1, <2>2
<1>7. ASSUME NEW c \in Batches
      PROVE  AcceptedInv(c)'
  <2>1. CASE grid'[c].state = "accepted" => grid[c].state = "accepted"
    BY <2>1, AcceptedStays
  <2>2. CASE c = b /\ code = 200
    BY <2>2 DEF AllDispatched, AcceptedInv
  <2> QED BY <1>5, <2>1, <2>2
<1> QED BY <1>4, <1>5, <1>6, <1>7

\* A handler goes on to the next event when it has dispatched this one.
LEMMA NextEventKeeps ==
  ASSUME DeliveryInv, Grows, UNCHANGED grid, NEW b \in Batches, NEW a \in Attempts,
         handler[b][a].pc \in {"handling", "running"}, handler[b][a].idx <= Len(Content[b]),
         NextEvent(b, a), NEW s, s = Event(b, a), s \in Subs => Dispatched(s)'
  PROVE  /\ handler' \in [Batches -> [Attempts -> HandlerState]]
         /\ \A c \in Batches : AcceptedInv(c)' /\ \A d \in Attempts : HandlerInv(c, d)'
<1>0. PICK i : i = handler[b][a].idx
  OBVIOUS
<1> DEFINE h == [pc |-> "handling", idx |-> i + 1]
<1>1. handler \in [Batches -> [Attempts -> HandlerState]] /\ HandlerInv(b, a)
  BY Types DEF DeliveryInv
<1>2. i \in Nat \ {0} /\ h \in HandlerState /\ h.pc = "handling" /\ h.idx = i + 1
  BY <1>0, <1>1 DEF HandlerInv, HandlerState
<1>3. handler' = [handler EXCEPT ![b][a] = h]
  BY <1>0, <1>1 DEF NextEvent
<1>4. \A k \in 1 .. Len(Content[b]) :
        k < i /\ Content[b][k] \in Subs => Dispatched(Content[b][k])
  BY <1>0, <1>1 DEF HandlerInv
<1>5. Content[b][i] = s
  BY <1>0 DEF Event
<1> HIDE DEF h
<1>6. /\ handler' \in [Batches -> [Attempts -> HandlerState]]
      /\ handler'[b][a] = h
      /\ \A c \in Batches, d \in Attempts : c # b \/ d # a => handler'[c][d] = handler[c][d]
  BY <1>1, <1>2, <1>3, HandlerMoves
<1>7. ASSUME NEW c \in Batches, NEW d \in Attempts
      PROVE  HandlerInv(c, d)'
  <2>1. CASE c # b \/ d # a
    BY <1>6, <2>1, HandlerStays
  <2>2. CASE c = b /\ d = a
    <3>1. ASSUME NEW k \in 1 .. Len(Content[b]), k < i + 1, Content[b][k] \in Subs
          PROVE  Dispatched(Content[b][k])'
      <4>1. CASE k < i
        BY <1>4, <3>1, <4>1, DispatchedStays
      <4>2. CASE k = i
        <5>1. s \in Subs
          BY <1>5, <3>1, <4>2
        <5> QED BY <1>5, <4>2, <5>1
      <4>3. k < i \/ k = i
        BY <1>2, <3>1, Bounds
      <4> QED BY <4>1, <4>2, <4>3
    <3> QED BY <1>2, <1>6, <2>2, <3>1 DEF HandlerInv
  <2> QED BY <2>1, <2>2
<1> QED BY <1>6, <1>7, AcceptedStays

\* Event Grid posts a delivery, or stops waiting: the handlers go on, and there is one more.
LEMMA GridKeeps ==
  ASSUME DeliveryInv, NEW b \in Batches, Post(b) \/ PostTimesOut(b)
  PROVE  DeliveryInv'
<1>1. /\ UNCHANGED <<tried, queueVars, jobVars, provisioned, bounds, strategy>>
      /\ UNCHANGED handler \/ Post(b)
  BY DEF Post, PostTimesOut
<1>2. /\ \A m \in Messages : MessageInv(m)'
      /\ Used' = Used
      /\ \A s \in Subs : Owed(s) => Owed(s)'
  BY <1>1, MessagesStay
<1>3. Grows
  BY <1>1, <1>2 DEF Grows
<1>4. SentInv'
  BY <1>1, <1>2, SentStays DEF DeliveryInv
<1>5. grid \in [Batches -> GridState] /\ handler \in [Batches -> [Attempts -> HandlerState]]
  BY Types DEF DeliveryInv
<1>6. CASE Post(b)
  <2> DEFINE n == grid[b].attempt + 1
             h == [pc |-> "handling", idx |-> 1]
             g == [state |-> "sent", attempt |-> n]
  <2>1. n \in Nat /\ h \in HandlerState /\ h.pc = "handling" /\ h.idx = 1
        /\ g \in GridState /\ g.state = "sent"
    BY <1>5 DEF GridState, HandlerState
  <2>2. grid' = [grid EXCEPT ![b] = g] /\ handler' = [handler EXCEPT ![b][n] = h]
    BY <1>6 DEF Post
  <2> HIDE DEF g, h, n
  <2>3. /\ grid' \in [Batches -> GridState]
        /\ \A c \in Batches : grid'[c].state = "accepted" => grid[c].state = "accepted"
    BY <1>5, <2>1, <2>2
  <2>4. CASE n \in Attempts
    <3>1. /\ handler' \in [Batches -> [Attempts -> HandlerState]]
          /\ handler'[b][n] = h
          /\ \A c \in Batches, d \in Attempts : c # b \/ d # n => handler'[c][d] = handler[c][d]
      BY <1>5, <2>1, <2>2, <2>4, HandlerMoves
    <3>2. ASSUME NEW c \in Batches, NEW d \in Attempts
          PROVE  HandlerInv(c, d)'
      <4>1. CASE c # b \/ d # n
        BY <1>3, <3>1, <4>1, HandlerStays
      <4>2. CASE c = b /\ d = n
        BY <2>1, <3>1, <4>2, Bounds DEF HandlerInv
      <4> QED BY <4>1, <4>2
    <3>3. TypeOK'
      BY <1>1, <2>3, <3>1 DEF DeliveryInv, TypeOK, GridState, HandlerState, queueVars, jobVars, bounds
    <3> QED BY <1>2, <1>3, <1>4, <2>3, <3>2, <3>3, AcceptedStays DEF DeliveryInv
  <2>5. CASE n \notin Attempts
    <3>1. handler' = handler
      BY <1>5, <2>2, <2>5
    <3>2. TypeOK'
      BY <1>1, <2>3, <3>1 DEF DeliveryInv, TypeOK, GridState, queueVars, jobVars, bounds
    <3>3. \A c \in Batches : \A d \in Attempts : HandlerInv(c, d)'
      BY <1>3, <3>1, HandlerStays
    <3> QED BY <1>2, <1>3, <1>4, <2>3, <3>2, <3>3, AcceptedStays DEF DeliveryInv
  <2> QED BY <2>4, <2>5
<1>7. CASE PostTimesOut(b)
  <2>1. PICK st \in {"due", "dropped"} : grid' = [grid EXCEPT ![b].state = st]
    BY <1>7 DEF PostTimesOut, Refused
  <2> DEFINE g == [grid[b] EXCEPT !.state = st]
  <2>2. g \in GridState /\ g.state = st
    BY <1>5 DEF GridState
  <2>3. grid' = [grid EXCEPT ![b] = g] /\ handler' = handler
    BY <1>5, <1>7, <2>1 DEF PostTimesOut
  <2> HIDE DEF g
  <2>4. /\ grid' \in [Batches -> GridState]
        /\ \A c \in Batches : grid'[c].state = "accepted" => grid[c].state = "accepted"
    BY <1>5, <2>1, <2>2, <2>3
  <2>5. TypeOK'
    BY <1>1, <2>3, <2>4 DEF DeliveryInv, TypeOK, GridState, queueVars, jobVars, bounds
  <2>6. \A c \in Batches : \A d \in Attempts : HandlerInv(c, d)'
    BY <1>3, <2>3, HandlerStays
  <2> QED BY <1>2, <1>3, <1>4, <2>4, <2>5, <2>6, AcceptedStays DEF DeliveryInv
<1> QED BY <1>6, <1>7

\* A handler dispatches inline, or skips an event, or answers.
LEMMA HandleInlineKeeps ==
  ASSUME DeliveryInv, NEW b \in Batches, NEW a \in Attempts,
         SkipEvent(b, a) \/ RunInline(b, a) \/ InlineEnds(b, a) \/ AllHandled(b, a)
  PROVE  DeliveryInv'
<1>0. PICK s : s = Event(b, a)
  OBVIOUS
<1>1. /\ UNCHANGED <<queueVars, jobVars, bounds, strategy>>
      /\ tried \subseteq tried' /\ provisioned \subseteq provisioned'
  BY DEF SkipEvent, RunInline, InlineEnds, AllHandled
<1>2. /\ \A m \in Messages : MessageInv(m)'
      /\ Used' = Used
      /\ \A x \in Subs : Owed(x) => Owed(x)'
  BY <1>1, MessagesStay
<1>3. Grows
  BY <1>1, <1>2 DEF Grows
<1>4. SentInv'
  BY <1>1, <1>2, SentStays DEF DeliveryInv
<1>5. /\ grid \in [Batches -> GridState] /\ handler \in [Batches -> [Attempts -> HandlerState]]
      /\ handler[b][a] \in HandlerState /\ HandlerInv(b, a)
  BY Types DEF DeliveryInv
<1>6. /\ handler[b][a].pc \in {"handling", "running"}
      /\ handler[b][a].pc = "running" => Inline /\ s \in Subs \cap tried
                                         /\ handler[b][a].idx <= Len(Content[b])
  BY <1>0, <1>5 DEF SkipEvent, RunInline, InlineEnds, AllHandled, Handling, HandlerInv
<1>7. tried' \subseteq Subs /\ provisioned' \subseteq Subs
  BY <1>0, <1>6, Types DEF DeliveryInv, SkipEvent, RunInline, InlineEnds, AllHandled
<1>8. ASSUME /\ grid' \in [Batches -> GridState]
             /\ handler' \in [Batches -> [Attempts -> HandlerState]]
             /\ \A c \in Batches : AcceptedInv(c)' /\ \A d \in Attempts : HandlerInv(c, d)'
      PROVE  DeliveryInv'
  <2>1. TypeOK'
    BY <1>1, <1>7, <1>8 DEF DeliveryInv, TypeOK, GridState, HandlerState, queueVars, jobVars, bounds
  <2> QED BY <1>2, <1>4, <1>8, <2>1 DEF DeliveryInv
<1>9. CASE SkipEvent(b, a)
  <2>1. s \notin Subs /\ UNCHANGED grid /\ NextEvent(b, a) /\ handler[b][a].idx <= Len(Content[b])
    BY <1>0, <1>9, DeliveryConstants DEF SkipEvent, Handling
  <2>2. /\ handler' \in [Batches -> [Attempts -> HandlerState]]
        /\ \A c \in Batches : AcceptedInv(c)' /\ \A d \in Attempts : HandlerInv(c, d)'
    BY <1>0, <1>3, <1>6, <2>1, NextEventKeeps
  <2> QED BY <1>5, <1>8, <2>1, <2>2
<1>10. CASE RunInline(b, a)
  <2> DEFINE h == [handler[b][a] EXCEPT !.pc = "running"]
  <2>1. /\ handler[b][a].pc = "handling" /\ handler[b][a].idx <= Len(Content[b])
        /\ s \in Subs /\ Inline /\ UNCHANGED grid /\ tried' = tried \cup {s}
    BY <1>0, <1>10 DEF RunInline, Handling
  <2>2. h \in HandlerState /\ h.pc = "running" /\ h.idx = handler[b][a].idx
    BY <1>5 DEF HandlerState
  <2>3. handler' = [handler EXCEPT ![b][a] = h]
    BY <1>5, <1>10 DEF RunInline
  <2> HIDE DEF h
  <2>4. /\ handler' \in [Batches -> [Attempts -> HandlerState]]
        /\ handler'[b][a] = h
        /\ \A c \in Batches, d \in Attempts : c # b \/ d # a => handler'[c][d] = handler[c][d]
    BY <1>5, <2>2, <2>3, HandlerMoves
  <2>5. HandlerInv(b, a)'
    <3>1. \A k \in 1 .. Len(Content[b]) :
            k < handler[b][a].idx /\ Content[b][k] \in Subs => Dispatched(Content[b][k])'
      BY <1>3, <1>5, <2>1, DispatchedStays DEF HandlerInv
    <3>2. Inline' = Inline
      BY <1>1 DEF Inline
    <3>3. Event(b, a)' = s
      BY <1>0, <2>2, <2>4 DEF Event
    <3>4. handler[b][a].idx \in Nat \ {0}
      BY <1>5, <2>1 DEF HandlerInv
    <3> QED BY <2>1, <2>2, <2>4, <3>1, <3>2, <3>3, <3>4 DEF HandlerInv
  <2>6. \A c \in Batches : AcceptedInv(c)' /\ \A d \in Attempts : HandlerInv(c, d)'
    BY <1>3, <2>1, <2>4, <2>5, HandlerStays, AcceptedStays
  <2> QED BY <1>5, <1>8, <2>1, <2>4, <2>6
<1>11. CASE InlineEnds(b, a)
  <2>1. PICK o \in RunOutcomes :
          /\ provisioned' = IF o = "ok" THEN provisioned \cup {s} ELSE provisioned
          /\ CASE AnswersError(o) -> Respond(b, a, 500)
               [] LeavesLoop(o)   -> Respond(b, a, 200)
               [] OTHER           -> NextEvent(b, a) /\ UNCHANGED grid
    BY <1>0, <1>11 DEF InlineEnds
  <2>2. handler[b][a].pc = "running"
    BY <1>11 DEF InlineEnds
  <2>3. CASE AnswersError(o)
    <3>1. Respond(b, a, 500)
      BY <2>1, <2>3 DEF LeavesLoop
    <3>2. /\ grid' \in [Batches -> GridState]
          /\ handler' \in [Batches -> [Attempts -> HandlerState]]
          /\ \A c \in Batches : AcceptedInv(c)' /\ \A d \in Attempts : HandlerInv(c, d)'
      BY <1>3, <1>5, <3>1, RespondKeeps
    <3> QED BY <1>8, <3>2
  <2>4. CASE ~ AnswersError(o)
    <3>1. NextEvent(b, a) /\ UNCHANGED grid
      BY <2>1, <2>4 DEF LeavesLoop
    <3>2. Dispatched(s)'
      <4>1. strategy' = strategy /\ Inline' = Inline
        BY <1>1 DEF Inline
      <4>2. strategy = "dead_letter" => o = "ok"
        BY <2>4 DEF AnswersError
      <4>3. strategy = "dead_letter" => s \in provisioned'
        BY <2>1, <4>2
      <4>4. Inline /\ s \in tried'
        BY <1>1, <1>6, <2>2
      <4> QED BY <4>1, <4>3, <4>4 DEF Dispatched
    <3>3. /\ handler' \in [Batches -> [Attempts -> HandlerState]]
          /\ \A c \in Batches : AcceptedInv(c)' /\ \A d \in Attempts : HandlerInv(c, d)'
      BY <1>0, <1>3, <1>6, <2>2, <3>1, <3>2, NextEventKeeps
    <3> QED BY <1>5, <1>8, <3>1, <3>3
  <2> QED BY <2>3, <2>4
<1>12. CASE AllHandled(b, a)
  <2>1. /\ Respond(b, a, 200) /\ handler[b][a].idx > Len(Content[b])
        /\ handler[b][a].pc = "handling"
    BY <1>12 DEF AllHandled
  <2>2. ASSUME NEW x \in Created(b)
        PROVE  Dispatched(x)'
    <3>1. PICK k \in 1 .. Len(Content[b]) : Content[b][k] = x /\ x \in Subs
      BY CreatedAt
    <3>2. k < handler[b][a].idx
      BY <1>5, <2>1, Bounds DEF HandlerState
    <3>3. Dispatched(x)
      BY <1>5, <2>1, <3>1, <3>2 DEF HandlerInv
    <3> QED BY <1>3, <3>1, <3>3, DispatchedStays
  <2>3. AllDispatched(b)'
    BY <2>2 DEF AllDispatched, Created
  <2>4. /\ grid' \in [Batches -> GridState]
        /\ handler' \in [Batches -> [Attempts -> HandlerState]]
        /\ \A c \in Batches : AcceptedInv(c)' /\ \A d \in Attempts : HandlerInv(c, d)'
    BY <1>3, <1>5, <2>1, <2>3, RespondKeeps
  <2> QED BY <1>8, <2>4
<1> QED BY <1>9, <1>10, <1>11, <1>12

-------------------------------------------------------------------------------
(***************************************************************************)
(* The queues                                                              *)
(***************************************************************************)

\* Sending a job: there is one more message, and its subscription is owed.
LEMMA SendKeeps ==
  ASSUME DeliveryInv, StorageAccount, NEW s \in Subs, NEW origin \in {"event", "api"},
         Send(s, origin), UNCHANGED <<task, dlq, purged, provisioned>>
  PROVE  /\ work' \in [Messages -> MessageState]
         /\ \A m \in Messages : MessageInv(m)'
         /\ \E k \in 0 .. MaxMessages : Used' = 1 .. k
         /\ Owed(s)'
         /\ \A x \in Subs : Owed(x) => Owed(x)'
<1>0. PICK k : k = Cardinality(Used) + 1
  OBVIOUS
<1> DEFINE w == [state |-> "visible", sub |-> s, origin |-> origin, count |-> 0]
<1>1. /\ k \in Messages \ Used /\ Used \cup {k} = 1 .. k
      /\ work' = [work EXCEPT ![k] = w]
      /\ work \in [Messages -> MessageState]
  BY <1>0, NextMessage, Types DEF Send, DeliveryInv
<1>2. /\ w \in MessageState /\ w.state = "visible" /\ w.sub = s /\ w.count = 0
  BY DEF MessageState
<1> HIDE DEF w
<1>3. /\ work' \in [Messages -> MessageState]
      /\ work'[k] = w
      /\ \A m \in Messages \ {k} : work'[m] = work[m]
  BY <1>1, <1>2
<1>4. DeadLettered' = DeadLettered
  BY DEF DeadLettered
<1>5. work[k].state = "unused" /\ work[k].count = 0 /\ MessageInv(k)
  BY <1>1, UsedMessages DEF DeliveryInv, MessageInv
<1>6. ASSUME NEW m \in Messages
      PROVE  MessageInv(m)'
  <2>1. CASE m # k
    BY <1>3, <1>4, <2>1 DEF DeliveryInv, MessageInv
  <2>2. CASE m = k
    <3>1. \A n \in Deliveries : task[k][n] = "none"
      <4> SUFFICES ASSUME NEW n \in Deliveries PROVE task[k][n] = "none"
        OBVIOUS
      <4>1. ~ n <= work[k].count
        BY <1>5, Bounds DEF Deliveries
      <4> QED BY <1>5, <4>1 DEF MessageInv
    <3>2. k \notin DeadLettered
      BY <1>5, Bounds DEF MessageInv
    <3>3. \A n \in Deliveries : ~ n <= 0
      BY Bounds DEF Deliveries
    <3> QED BY <1>2, <1>3, <1>4, <2>2, <3>1, <3>2, <3>3, Bounds DEF MessageInv
  <2> QED BY <2>1, <2>2
<1>7. Used' = Used \cup {k}
  BY <1>1, <1>2, <1>3 DEF Used
<1>8. k \in 0 .. MaxMessages
  BY <1>1, Bounds DEF Messages
<1>9. Owed(s)'
  BY <1>2, <1>3, <1>7 DEF Owed
<1>10. \A x \in Subs : Owed(x) => Owed(x)'
  <2>1. \A m \in Used : m \in Messages \ {k}
    BY <1>1 DEF Used
  <2> QED BY <1>3, <1>4, <1>7, <2>1, OwedStays
<1> QED BY <1>1, <1>3, <1>6, <1>7, <1>8, <1>9, <1>10

LEMMA EnqueueKeeps ==
  ASSUME DeliveryInv, NEW b \in Batches, NEW a \in Attempts, Enqueue(b, a)
  PROVE  DeliveryInv'
<1>0. PICK s : s = Event(b, a)
  OBVIOUS
<1>1. /\ handler[b][a].pc = "handling" /\ handler[b][a].idx <= Len(Content[b])
      /\ s \in Subs /\ strategy = "queue" /\ StorageAccount /\ NextEvent(b, a)
      /\ UNCHANGED <<grid, task, dlq, purged, tried, provisioned, bounds, strategy>>
  BY <1>0 DEF Enqueue, Handling, Inline
<1>2. /\ ensured' \in BOOLEAN /\ queues' \subseteq QueueNames
      /\ Working => ensured' /\ queues' = QueueNames
      /\ Working /\ ensured' => queues' = QueueNames
  <2>1. CASE SdkInstalled
    <3>1. ensured' = TRUE /\ queues' \in EnsureOutcomes
      BY <2>1 DEF Enqueue
    <3>2. queues \subseteq QueueNames /\ (Working /\ ensured => queues = QueueNames)
      BY Types DEF DeliveryInv, SentInv
    <3> QED BY <2>1, <3>1, <3>2 DEF EnsureOutcomes, CreateOutcomes, Working
  <2>2. CASE ~ SdkInstalled
    <3>1. UNCHANGED <<queues, ensured>>
      BY <2>2 DEF Enqueue, queueVars
    <3> QED BY <2>2, <3>1, Types DEF DeliveryInv, Working
  <2> QED BY <2>1, <2>2
<1>3. Send(s, "event") \/ (UNCHANGED work /\ ~ Working)
  <2>1. CASE SdkInstalled
    <3>1. PICK ok \in SendOutcomes("work", queues') :
            IF ok THEN Send(Event(b, a), "event") ELSE UNCHANGED work
      BY <2>1 DEF Enqueue
    <3>2. Working => ok
      BY <1>2, <3>1, Sends DEF Working, QueueNames
    <3> QED BY <1>0, <3>1, <3>2
  <2>2. CASE ~ SdkInstalled
    BY <2>2 DEF Enqueue, Working
  <2> QED BY <2>1, <2>2
<1>4. /\ work' \in [Messages -> MessageState]
      /\ \A m \in Messages : MessageInv(m)'
      /\ \E k \in 0 .. MaxMessages : Used' = 1 .. k
      /\ Working => Owed(s)'
      /\ \A x \in Subs : Owed(x) => Owed(x)'
  <2>1. CASE Send(s, "event")
    BY <1>1, <2>1, SendKeeps
  <2>2. CASE UNCHANGED work /\ ~ Working
    <3>1. /\ \A m \in Messages : MessageInv(m)' /\ Used' = Used
          /\ \A x \in Subs : Owed(x) => Owed(x)'
      BY <1>1, <2>2, MessagesStay DEF jobVars
    <3>2. \E k \in 0 .. MaxMessages : Used' = 1 .. k
      <4>1. PICK k \in 0 .. MaxMessages : Used = 1 .. k
        BY DEF DeliveryInv, SentInv
      <4>2. Used' = Used
        BY <2>2 DEF Used
      <4>3. Used' = 1 .. k
        BY <4>1, <4>2, Zenon
      <4> QED BY <4>3, Zenon
    <3>3. work' \in [Messages -> MessageState]
      BY <2>2, Types DEF DeliveryInv
    <3> QED BY <2>2, <3>1, <3>2, <3>3
  <2> QED BY <1>3, <2>1, <2>2
<1>5. Grows
  BY <1>1, <1>4 DEF Grows
<1>6. Dispatched(s)'
  BY <1>1, <1>4 DEF Dispatched, Inline
<1>7. /\ handler' \in [Batches -> [Attempts -> HandlerState]]
      /\ \A c \in Batches : AcceptedInv(c)' /\ \A d \in Attempts : HandlerInv(c, d)'
  BY <1>0, <1>1, <1>5, <1>6, NextEventKeeps
<1>8. SentInv'
  BY <1>1, <1>2, <1>4 DEF SentInv
<1>9. TypeOK'
  BY <1>1, <1>2, <1>4, <1>7 DEF DeliveryInv, TypeOK, HandlerState, MessageState, bounds
<1> QED BY <1>4, <1>7, <1>8, <1>9 DEF DeliveryInv

LEMMA EnqueueJobKeeps ==
  ASSUME DeliveryInv, NEW s \in Subs, EnqueueJob(s)
  PROVE  DeliveryInv'
<1>1. /\ StorageAccount /\ Send(s, "api")
      /\ UNCHANGED <<gridVars, queueVars, task, dlq, purged, provisioned, bounds, strategy>>
  BY DEF EnqueueJob
<1>2. /\ work' \in [Messages -> MessageState]
      /\ \A m \in Messages : MessageInv(m)'
      /\ \E k \in 0 .. MaxMessages : Used' = 1 .. k
      /\ \A x \in Subs : Owed(x) => Owed(x)'
  BY <1>1, SendKeeps
<1>3. Grows
  BY <1>1, <1>2 DEF Grows, gridVars
<1>4. \A c \in Batches : AcceptedInv(c)' /\ \A d \in Attempts : HandlerInv(c, d)'
  BY <1>1, <1>3, EventsStay DEF gridVars
<1>5. SentInv'
  BY <1>1, <1>2 DEF DeliveryInv, SentInv, queueVars
<1>6. TypeOK'
  BY <1>1, <1>2 DEF DeliveryInv, TypeOK, MessageState, gridVars, queueVars, bounds
<1> QED BY <1>2, <1>4, <1>5, <1>6 DEF DeliveryInv

\* A purge leaves on record what was there.
LEMMA PurgeKeeps ==
  ASSUME DeliveryInv, PurgeDlq
  PROVE  DeliveryInv'
<1>1. /\ dlq' = {} /\ purged' = purged \cup {d[1] : d \in dlq}
      /\ UNCHANGED <<gridVars, queueVars, work, task, provisioned, bounds, strategy>>
  BY DEF PurgeDlq
<1>2. DeadLettered' = DeadLettered
  BY <1>1 DEF DeadLettered
<1>3. purged' \subseteq Messages
  BY <1>1, Types DEF DeliveryInv
<1>4. Used' = Used
  BY <1>1 DEF Used
<1>5. \A m \in Messages : MessageInv(m)'
  BY <1>1, <1>2 DEF DeliveryInv, MessageInv
<1>6. Grows
  BY <1>1, <1>2, <1>4, OwedStays DEF Grows, gridVars
<1>7. \A c \in Batches : AcceptedInv(c)' /\ \A d \in Attempts : HandlerInv(c, d)'
  BY <1>1, <1>6, EventsStay DEF gridVars
<1>8. SentInv'
  BY <1>1, <1>4, SentStays DEF DeliveryInv
<1>9. TypeOK'
  BY <1>1, <1>3 DEF DeliveryInv, TypeOK, gridVars, queueVars, bounds
<1> QED BY <1>5, <1>7, <1>8, <1>9 DEF DeliveryInv

-------------------------------------------------------------------------------
(***************************************************************************)
(* The worker                                                              *)
(***************************************************************************)

\* A step of message m: the other messages keep what they have, and m keeps the invariant.
LEMMA MessageMoves ==
  ASSUME DeliveryInv, NEW m \in Messages, UNCHANGED <<gridVars, queueVars, strategy>>,
         TypeOK', provisioned \subseteq provisioned',
         \A k \in Messages \ {m} : /\ work'[k] = work[k] /\ task'[k] = task[k]
                                   /\ k \in DeadLettered' <=> k \in DeadLettered,
         MessageInv(m)',
         work[m].state # "unused" /\ work'[m].state # "unused" /\ work'[m].sub = work[m].sub,
         m \in DeadLettered => m \in DeadLettered',
         work[m].state = "gone" => work'[m].state = "gone"
  PROVE  DeliveryInv'
<1>1. \A k \in Messages : MessageInv(k)'
  BY DEF DeliveryInv, MessageInv
<1>2. Used' = Used
  BY DEF Used
<1>3. Grows
  <2>1. \A k \in Used : /\ k \in Used' /\ work'[k].sub = work[k].sub
                        /\ work[k].state # "gone" \/ k \in DeadLettered =>
                             \/ work'[k].state # "gone" \/ k \in DeadLettered'
                             \/ work'[k].sub \in provisioned'
    BY <1>1, <1>2 DEF MessageInv, Used
  <2> QED BY <2>1, OwedStays DEF Grows, gridVars
<1>4. \A c \in Batches : AcceptedInv(c)' /\ \A d \in Attempts : HandlerInv(c, d)'
  BY <1>3, EventsStay DEF gridVars
<1>5. SentInv'
  BY <1>2, SentStays DEF DeliveryInv
<1> QED BY <1>1, <1>4, <1>5 DEF DeliveryInv

\* A message changes its state only; nothing else moves but a bound.
LEMMA StateMoves ==
  ASSUME DeliveryInv, NEW m \in Messages, NEW st \in {"visible", "gone"},
         work' = [work EXCEPT ![m].state = st], work[m].state \in {"visible", "leased"},
         st = "gone" => work[m].sub \in provisioned \/ m \in DeadLettered,
         UNCHANGED <<gridVars, queueVars, task, dlq, purged, provisioned, strategy, refusals, crashes>>,
         expiries' \in Nat
  PROVE  DeliveryInv'
<1> DEFINE w == [work[m] EXCEPT !.state = st]
<1>1. work \in [Messages -> MessageState] /\ work[m] \in MessageState /\ MessageInv(m)
  BY Types DEF DeliveryInv
<1>2. /\ w \in MessageState /\ w.state = st /\ w.sub = work[m].sub /\ w.count = work[m].count
  BY <1>1 DEF MessageState
<1>3. work' = [work EXCEPT ![m] = w]
  BY <1>1
<1> HIDE DEF w
<1>4. /\ work' \in [Messages -> MessageState] /\ work'[m] = w
      /\ \A k \in Messages \ {m} : work'[k] = work[k]
  BY <1>1, <1>2, <1>3
<1>5. DeadLettered' = DeadLettered
  BY DEF DeadLettered
<1>6. TypeOK'
  BY <1>4 DEF DeliveryInv, TypeOK, MessageState, gridVars, queueVars
<1>7. MessageInv(m)'
  BY <1>1, <1>2, <1>4, <1>5 DEF MessageInv
<1> QED BY <1>2, <1>4, <1>5, <1>6, <1>7, MessageMoves

LEMMA DeleteKeeps ==
  ASSUME DeliveryInv, NEW m \in Messages, NEW n \in Deliveries, Delete(m, n)
  PROVE  DeliveryInv'
<1>1. task[m][n] \in {"ok", "parked"} /\ work[m].state \in {"visible", "leased"}
  BY DEF Delete, Answered200
<1>2. work[m].sub \in provisioned \/ m \in DeadLettered
  BY <1>1 DEF DeliveryInv, MessageInv
<1>3. expiries' \in Nat
  BY Types DEF DeliveryInv, Delete, bounds
<1> QED BY <1>1, <1>2, <1>3, StateMoves DEF Delete, bounds

LEMMA ReappearKeeps ==
  ASSUME DeliveryInv, NEW m \in Messages, Reappear(m) \/ LeaseExpires(m)
  PROVE  DeliveryInv'
<1>1. /\ work[m].state \in {"visible", "leased"}
      /\ work' = [work EXCEPT ![m].state = "visible"]
      /\ UNCHANGED <<gridVars, queueVars, task, dlq, purged, provisioned, strategy, refusals, crashes>>
  BY DEF Reappear, LeaseExpires, bounds
<1>2. expiries' \in Nat
  BY Types DEF DeliveryInv, Reappear, LeaseExpires, bounds
<1> QED BY <1>1, <1>2, StateMoves

\* A delivery that was made is one of a message that is in use.
LEMMA TaskOfUsed ==
  ASSUME DeliveryInv, NEW m \in Messages, NEW n \in Deliveries, task[m][n] # "none"
  PROVE  /\ n \in Nat \ {0} /\ work[m].count \in Nat /\ n <= work[m].count
         /\ work[m].state # "unused" /\ work[m].sub \in Subs
         /\ StorageAccount
<1>1. MessageInv(m) /\ work[m].count \in Nat
  BY Types DEF DeliveryInv, MessageState
<1>2. n <= work[m].count /\ n \in Nat \ {0}
  BY <1>1, Bounds DEF MessageInv, Deliveries
<1>3. work[m].count # 0
  BY <1>1, <1>2
<1>4. work[m].state # "unused" /\ work[m].sub \in Subs
  BY <1>1, <1>3 DEF MessageInv
<1>5. StorageAccount
  BY <1>4 DEF DeliveryInv, SentInv, Used
<1> QED BY <1>1, <1>2, <1>4, <1>5

\* One request to the worker moves, the others stay.
LEMMA TaskChanges ==
  ASSUME task \in [Messages -> [Deliveries -> TaskState]],
         NEW m \in Messages, NEW n \in Deliveries, NEW t \in TaskState,
         task' = [task EXCEPT ![m][n] = t]
  PROVE  /\ task' \in [Messages -> [Deliveries -> TaskState]] /\ task'[m][n] = t
         /\ \A l \in Deliveries \ {n} : task'[m][l] = task[m][l]
         /\ \A k \in Messages \ {m} : task'[k] = task[k]
OBVIOUS

\* A request to the worker moves in a way its number allows: the message keeps the invariant.
LEMMA TaskMoves ==
  ASSUME DeliveryInv, NEW m \in Messages, NEW n \in Deliveries, NEW t \in TaskState \ {"none"},
         task[m][n] # "none", task' = [task EXCEPT ![m][n] = t],
         UNCHANGED <<gridVars, queueVars, work, strategy>>,
         provisioned \subseteq provisioned', provisioned' \subseteq Subs,
         dlq' \subseteq Messages \X Deliveries, purged' = purged,
         expiries' \in Nat, refusals' \in Nat, crashes' \in Nat,
         t \in {"running", "ok", "failed", "lost"} => n <= MaxDeliveryCount,
         t \in {"parked", "unparked"} => n > MaxDeliveryCount,
         t = "ok" => work[m].sub \in provisioned',
         DeadLettered' = IF t = "parked" THEN DeadLettered \cup {m} ELSE DeadLettered
  PROVE  DeliveryInv'
<1>1. task \in [Messages -> [Deliveries -> TaskState]] /\ MessageInv(m)
  BY Types DEF DeliveryInv
<1>2. /\ task' \in [Messages -> [Deliveries -> TaskState]] /\ task'[m][n] = t
      /\ \A l \in Deliveries \ {n} : task'[m][l] = task[m][l]
      /\ \A k \in Messages \ {m} : task'[k] = task[k]
  BY <1>1, TaskChanges
<1>3. /\ n \in Nat \ {0} /\ work[m].count \in Nat /\ n <= work[m].count
      /\ work[m].state # "unused" /\ work[m].sub \in Subs
  BY TaskOfUsed
<1>4. TypeOK'
  BY <1>2 DEF DeliveryInv, TypeOK, TaskState, Unanswered, gridVars, queueVars
<1>5. m \in DeadLettered' => m \in DeadLettered \/ t = "parked"
  OBVIOUS
<1>6. m \in DeadLettered => m \in DeadLettered'
  OBVIOUS
<1>7. MessageInv(m)'
  <2>1. ASSUME NEW l \in Deliveries
        PROVE  /\ l <= work[m].count <=> task'[m][l] # "none"
               /\ task'[m][l] \in {"running", "ok", "failed", "lost"} => l <= MaxDeliveryCount
               /\ task'[m][l] \in {"parked", "unparked"} => l > MaxDeliveryCount
               /\ task'[m][l] = "ok" => work[m].sub \in provisioned'
               /\ task'[m][l] = "parked" => m \in DeadLettered'
    <3>1. CASE l = n
      BY <1>2, <1>3, <3>1
    <3>2. CASE l # n
      BY <1>1, <1>2, <1>6, <3>2 DEF MessageInv
    <3> QED BY <3>1, <3>2
  <2>2. m \in DeadLettered' => work[m].count > MaxDeliveryCount
    <3>1. CASE m \in DeadLettered
      BY <1>1, <3>1 DEF MessageInv
    <3>2. CASE t = "parked"
      BY <1>3, <3>2, Bounds
    <3> QED BY <1>5, <3>1, <3>2
  <2>3. work'[m] = work[m]
    OBVIOUS
  <2> QED BY <1>1, <1>3, <1>6, <2>1, <2>2, <2>3 DEF MessageInv
<1>8. \A k \in Messages \ {m} : k \in DeadLettered' <=> k \in DeadLettered
  OBVIOUS
<1> QED BY <1>2, <1>3, <1>4, <1>6, <1>7, <1>8, MessageMoves

\* A run of a job ends; when it had no errors the subscription is provisioned.
LEMMA JobEndsKeeps ==
  ASSUME DeliveryInv, NEW m \in Messages, NEW n \in Deliveries, JobEnds(m, n)
  PROVE  DeliveryInv'
<1>1. PICK o \in RunOutcomes :
        /\ task' = [task EXCEPT ![m][n] = IF o = "ok" THEN "ok" ELSE "failed"]
        /\ provisioned' = IF o = "ok" THEN provisioned \cup {work[m].sub} ELSE provisioned
  BY DEF JobEnds
<1>2. PICK t \in {"ok", "failed"} :
        /\ task' = [task EXCEPT ![m][n] = t]
        /\ t = "ok" => o = "ok"
  BY <1>1
<1>3. /\ task[m][n] = "running" /\ MessageInv(m)
      /\ UNCHANGED <<gridVars, queueVars, work, dlq, purged, bounds, strategy>>
  BY DEF JobEnds, DeliveryInv
<1>4. work[m].sub \in Subs
  BY <1>3, TaskOfUsed
<1>5. provisioned \subseteq provisioned' /\ provisioned' \subseteq Subs
  BY <1>1, <1>4, Types DEF DeliveryInv
<1>6. DeadLettered' = DeadLettered
  BY <1>3 DEF DeadLettered
<1>7. t = "ok" => work[m].sub \in provisioned'
  BY <1>1, <1>2
<1>8. n <= MaxDeliveryCount
  BY <1>3 DEF MessageInv
<1>9. /\ dlq' \subseteq Messages \X Deliveries /\ purged' = purged
      /\ expiries' \in Nat /\ refusals' \in Nat /\ crashes' \in Nat
  BY <1>3, Types DEF DeliveryInv, bounds
<1>10. t \in TaskState \ {"none"} /\ t \notin {"parked", "unparked"}
  BY DEF TaskState
<1> QED BY <1>2, <1>3, <1>5, <1>6, <1>7, <1>8, <1>9, <1>10, TaskMoves

\* A delivery that is refused, or never reaches a worker, leaves everything else.
LEMMA RefuseKeeps ==
  ASSUME DeliveryInv, NEW m \in Messages, NEW n \in Deliveries, Refuse(m, n)
  PROVE  DeliveryInv'
<1>1. /\ task[m][n] = "posted" /\ task' = [task EXCEPT ![m][n] = "refused"]
      /\ refusals' = refusals + 1
      /\ UNCHANGED <<gridVars, queueVars, work, dlq, purged, provisioned, expiries, crashes,
                     strategy>>
  BY DEF Refuse
<1>2. /\ dlq' \subseteq Messages \X Deliveries /\ purged' = purged
      /\ expiries' \in Nat /\ refusals' \in Nat /\ crashes' \in Nat
      /\ provisioned \subseteq provisioned' /\ provisioned' \subseteq Subs
  BY <1>1, Types DEF DeliveryInv
<1>3. DeadLettered' = DeadLettered
  BY <1>1 DEF DeadLettered
<1>4. "refused" \in TaskState \ {"none"}
  BY DEF TaskState
<1> QED BY <1>1, <1>2, <1>3, <1>4, TaskMoves

\* The worker takes a job: it is run, or parked when its deliveries have been counted out.
LEMMA Processes ==
  ASSUME DeliveryInv, NEW m \in Messages, NEW n \in Deliveries, ProcessJob(m, n)
  PROVE  \E t \in {"running", "parked", "unparked"} :
           /\ task[m][n] = "posted"
           /\ task' = [task EXCEPT ![m][n] = t]
           /\ t = "running" <=> n <= MaxDeliveryCount
           /\ dlq' = IF t = "parked" THEN dlq \cup {<<m, n>>} ELSE dlq
           /\ DeadLettered' = IF t = "parked" THEN DeadLettered \cup {m} ELSE DeadLettered
<1>1. /\ task[m][n] = "posted"
      /\ UNCHANGED <<gridVars, queueVars, work, purged, provisioned, bounds, strategy>>
  BY DEF ProcessJob
<1>2. n \in Nat /\ StorageAccount
  BY <1>1, TaskOfUsed
<1>3. PICK t \in {"running", "parked", "unparked"} :
        /\ task' = [task EXCEPT ![m][n] = t]
        /\ t = "running" <=> n <= MaxDeliveryCount
        /\ dlq' = IF t = "parked" THEN dlq \cup {<<m, n>>} ELSE dlq
  <2>1. CASE Exceeds(n)
    <3>1. Park(m, n)
      BY <2>1 DEF ProcessJob
    <3>2. PICK ok \in SendOutcomes("dlq", queues) :
            /\ task' = [task EXCEPT ![m][n] = IF ok THEN "parked" ELSE "unparked"]
            /\ dlq' = IF ok THEN dlq \cup {<<m, n>>} ELSE dlq
      BY <1>2, <3>1 DEF Park
    <3>3. ~ n <= MaxDeliveryCount
      BY <1>2, <2>1, Bounds DEF Exceeds
    <3>4. CASE ok
      BY <3>2, <3>3, <3>4
    <3>5. CASE ~ ok
      BY <3>2, <3>3, <3>5
    <3> QED BY <3>4, <3>5
  <2>2. CASE ~ Exceeds(n)
    <3>1. task' = [task EXCEPT ![m][n] = "running"] /\ dlq' = dlq
      BY <2>2 DEF ProcessJob
    <3>2. n <= MaxDeliveryCount
      BY <1>2, <2>2, Bounds DEF Exceeds
    <3> QED BY <3>1, <3>2
  <2> QED BY <2>1, <2>2
<1>4. DeadLettered' = IF t = "parked" THEN DeadLettered \cup {m} ELSE DeadLettered
  <2>1. CASE t = "parked"
    <3>1. dlq' = dlq \cup {<<m, n>>} /\ purged' = purged
      BY <1>1, <1>3, <2>1
    <3>2. {d[1] : d \in dlq'} = {d[1] : d \in dlq} \cup {m}
      <4>1. <<m, n>>[1] = m
        OBVIOUS
      <4>2. \A x : (\E d \in dlq' : x = d[1]) <=> (\E d \in dlq : x = d[1]) \/ x = m
        BY <3>1, <4>1, Zenon
      <4> QED BY <4>2, Zenon
    <3> QED BY <2>1, <3>1, <3>2 DEF DeadLettered
  <2>2. CASE t # "parked"
    BY <1>1, <1>3, <2>2 DEF DeadLettered
  <2> QED BY <2>1, <2>2
<1> QED BY <1>1, <1>3, <1>4

LEMMA ProcessJobKeeps ==
  ASSUME DeliveryInv, NEW m \in Messages, NEW n \in Deliveries, ProcessJob(m, n)
  PROVE  DeliveryInv'
<1>1. PICK t \in {"running", "parked", "unparked"} :
        /\ task[m][n] = "posted"
        /\ task' = [task EXCEPT ![m][n] = t]
        /\ t = "running" <=> n <= MaxDeliveryCount
        /\ dlq' = IF t = "parked" THEN dlq \cup {<<m, n>>} ELSE dlq
        /\ DeadLettered' = IF t = "parked" THEN DeadLettered \cup {m} ELSE DeadLettered
  BY Processes
<1>2. UNCHANGED <<gridVars, queueVars, work, purged, provisioned, bounds, strategy>>
  BY DEF ProcessJob
<1>3. /\ dlq' \subseteq Messages \X Deliveries /\ purged' = purged
      /\ expiries' \in Nat /\ refusals' \in Nat /\ crashes' \in Nat
      /\ provisioned \subseteq provisioned' /\ provisioned' \subseteq Subs
  BY <1>1, <1>2, Types DEF DeliveryInv, bounds
<1>4. n \in Nat
  BY <1>1, TaskOfUsed
<1>5. t \in TaskState \ {"none"} /\ t # "ok"
  BY DEF TaskState
<1>6. /\ t \in {"running", "ok", "failed", "lost"} => n <= MaxDeliveryCount
      /\ t \in {"parked", "unparked"} => n > MaxDeliveryCount
  BY <1>1, <1>4, Bounds
<1> QED BY <1>1, <1>2, <1>3, <1>5, <1>6, TaskMoves

\* A message is leased: its next delivery is counted and posted.
LEMMA Delivers ==
  ASSUME DeliveryInv, NEW m \in Messages, Lease(m)
  PROVE  \E n \in Deliveries :
           /\ n = work[m].count + 1 /\ work[m].count \in Nat /\ work[m].state = "visible"
           /\ work' \in [Messages -> MessageState]
           /\ work'[m].state = "leased" /\ work'[m].sub = work[m].sub /\ work'[m].count = n
           /\ \A k \in Messages \ {m} : work'[k] = work[k]
           /\ task[m][n] = "none"
           /\ task' \in [Messages -> [Deliveries -> TaskState]] /\ task'[m][n] = "posted"
           /\ \A l \in Deliveries \ {n} : task'[m][l] = task[m][l]
           /\ \A k \in Messages \ {m} : task'[k] = task[k]
<1>0. PICK n : n = work[m].count + 1
  OBVIOUS
<1>1. /\ work \in [Messages -> MessageState] /\ work[m] \in MessageState /\ MessageInv(m)
      /\ task \in [Messages -> [Deliveries -> TaskState]]
  BY Types DEF DeliveryInv
<1>2. work[m].state = "visible" /\ work[m].count < MaxDeliveries
  BY DEF Lease
<1>3. work[m].count \in Nat /\ n \in Deliveries /\ n \in Nat
  BY <1>0, <1>1, <1>2, Bounds DEF MessageState, Deliveries
<1> DEFINE w == [work[m] EXCEPT !.state = "leased", !.count = n]
<1>4. /\ w \in MessageState /\ w.state = "leased" /\ w.sub = work[m].sub /\ w.count = n
  BY <1>1, <1>3 DEF MessageState
<1>5. work' = [work EXCEPT ![m] = w] /\ task' = [task EXCEPT ![m][n] = "posted"]
  BY <1>0, <1>1 DEF Lease
<1> HIDE DEF w
<1>6. /\ work' \in [Messages -> MessageState] /\ work'[m] = w
      /\ \A k \in Messages \ {m} : work'[k] = work[k]
  BY <1>1, <1>4, <1>5
<1>7. "posted" \in TaskState
  BY DEF TaskState
<1>8. /\ task' \in [Messages -> [Deliveries -> TaskState]] /\ task'[m][n] = "posted"
      /\ \A l \in Deliveries \ {n} : task'[m][l] = task[m][l]
      /\ \A k \in Messages \ {m} : task'[k] = task[k]
  BY <1>1, <1>3, <1>5, <1>7, TaskChanges
<1>9. task[m][n] = "none"
  <2>1. ~ n <= work[m].count
    BY <1>0, <1>3
  <2> QED BY <1>1, <1>3, <2>1 DEF MessageInv
<1> QED BY <1>0, <1>2, <1>3, <1>4, <1>6, <1>8, <1>9

LEMMA LeaseKeeps ==
  ASSUME DeliveryInv, NEW m \in Messages, Lease(m)
  PROVE  DeliveryInv'
<1>0. PICK n \in Deliveries :
        /\ n = work[m].count + 1 /\ work[m].count \in Nat /\ work[m].state = "visible"
        /\ work' \in [Messages -> MessageState]
        /\ work'[m].state = "leased" /\ work'[m].sub = work[m].sub /\ work'[m].count = n
        /\ \A k \in Messages \ {m} : work'[k] = work[k]
        /\ task' \in [Messages -> [Deliveries -> TaskState]] /\ task'[m][n] = "posted"
        /\ \A l \in Deliveries \ {n} : task'[m][l] = task[m][l]
        /\ \A k \in Messages \ {m} : task'[k] = task[k]
  BY Delivers
<1>1. MessageInv(m)
      /\ UNCHANGED <<gridVars, queueVars, dlq, purged, provisioned, bounds, strategy>>
  BY DEF DeliveryInv, Lease
<1>2. n \in Nat
  BY <1>0
<1>3. DeadLettered' = DeadLettered
  BY <1>1 DEF DeadLettered
<1>4. TypeOK'
  BY <1>0, <1>1
     DEF DeliveryInv, TypeOK, MessageState, TaskState, Unanswered, gridVars, queueVars, bounds
<1>5. MessageInv(m)'
  <2>1. ASSUME NEW l \in Deliveries
        PROVE  /\ l <= n <=> task'[m][l] # "none"
               /\ task'[m][l] \in {"running", "ok", "failed", "lost"} => l <= MaxDeliveryCount
               /\ task'[m][l] \in {"parked", "unparked"} => l > MaxDeliveryCount
               /\ task'[m][l] = "ok" => work[m].sub \in provisioned
               /\ task'[m][l] = "parked" => m \in DeadLettered
    <3>1. CASE l = n
      BY <1>0, <1>2, <3>1
    <3>2. CASE l # n
      <4>1. l <= n <=> l <= work[m].count
        BY <1>0, <3>2, Bounds DEF Deliveries
      <4>2. task'[m][l] = task[m][l]
        BY <1>0, <3>2
      <4> QED BY <1>0, <1>1, <4>1, <4>2 DEF MessageInv
    <3> QED BY <3>1, <3>2
  <2>2. n <= MaxDeliveries
    BY Bounds DEF Deliveries
  <2>3. m \in DeadLettered => n > MaxDeliveryCount
    BY <1>0, <1>1, Bounds DEF MessageInv
  <2> QED BY <1>0, <1>1, <1>3, <2>1, <2>2, <2>3 DEF MessageInv
<1> QED BY <1>0, <1>1, <1>3, <1>4, <1>5, MessageMoves

\* A crash loses what the process was doing, and nothing that was promised.
LEMMA CrashKeeps ==
  ASSUME DeliveryInv, Crash
  PROVE  DeliveryInv'
<1>1. /\ ensured' = FALSE /\ crashes' \in Nat
      /\ UNCHANGED <<grid, tried, queues, work, dlq, purged, provisioned, expiries, refusals,
                     strategy>>
  BY Types DEF Crash, DeliveryInv
<1>2. /\ handler \in [Batches -> [Attempts -> HandlerState]]
      /\ task \in [Messages -> [Deliveries -> TaskState]]
  BY Types DEF DeliveryInv
<1>3. ASSUME NEW b \in Batches, NEW a \in Attempts
      PROVE  /\ handler'[b][a] \in HandlerState
             /\ \/ handler'[b][a] = handler[b][a]
                \/ handler'[b][a].pc = "lost"
  <2>1. handler[b][a] \in HandlerState
    BY <1>2
  <2>2. [handler[b][a] EXCEPT !.pc = "lost"] \in HandlerState
        /\ [handler[b][a] EXCEPT !.pc = "lost"].pc = "lost"
    BY <2>1 DEF HandlerState
  <2>3. \/ handler'[b][a] = handler[b][a]
        \/ handler'[b][a] = [handler[b][a] EXCEPT !.pc = "lost"]
    BY DEF Crash
  <2> QED BY <2>1, <2>2, <2>3
<1>4. handler' \in [Batches -> [Attempts -> HandlerState]]
  <2>1. handler' = [b \in Batches |-> [a \in Attempts |-> handler'[b][a]]]
    BY DEF Crash
  <2> QED BY <1>3, <2>1
<1>5. \A m \in Messages, n \in Deliveries :
        task'[m][n] = IF task[m][n] = "running" THEN "lost" ELSE task[m][n]
  BY DEF Crash
<1>6. task' \in [Messages -> [Deliveries -> TaskState]]
  BY <1>2 DEF Crash, TaskState
<1>7. TypeOK'
  BY <1>1, <1>4, <1>6 DEF DeliveryInv, TypeOK, HandlerState, TaskState, Unanswered
<1>8. DeadLettered' = DeadLettered /\ Used' = Used
  BY <1>1 DEF DeadLettered, Used
<1>9. \A m \in Messages : MessageInv(m)'
  BY <1>1, <1>5, <1>8 DEF DeliveryInv, MessageInv
<1>10. Grows
  BY <1>1, <1>8, OwedStays DEF Grows
<1>11. ASSUME NEW b \in Batches, NEW a \in Attempts
       PROVE  HandlerInv(b, a)'
  <2>1. CASE handler'[b][a] = handler[b][a]
    BY <1>10, <2>1, HandlerStays
  <2>2. CASE handler'[b][a].pc = "lost"
    BY <2>2 DEF HandlerInv
  <2> QED BY <1>3, <2>1, <2>2
<1>12. SentInv'
  BY <1>1, <1>8 DEF DeliveryInv, SentInv
<1> QED BY <1>1, <1>7, <1>9, <1>10, <1>11, <1>12, AcceptedStays DEF DeliveryInv

-------------------------------------------------------------------------------
(***************************************************************************)
(* The invariant                                                           *)
(***************************************************************************)

LEMMA InitDelivery == Init => DeliveryInv
<1> SUFFICES ASSUME Init PROVE DeliveryInv
  OBVIOUS
<1>1. \A m \in Messages : work[m].state = "unused" /\ work[m].count = 0
                          /\ work[m].sub = Skipped /\ work[m].origin = "event"
  BY DEF Init
<1>2. TypeOK
  <2>1. /\ grid \in [Batches -> GridState]
        /\ handler \in [Batches -> [Attempts -> HandlerState]]
        /\ work \in [Messages -> MessageState]
        /\ task \in [Messages -> [Deliveries -> TaskState]]
    BY DEF Init, GridState, HandlerState, MessageState, TaskState
  <2>2. queues \subseteq QueueNames /\ strategy \in Strategies /\ ensured \in BOOLEAN
    BY DEF Init
  <2>3. /\ dlq \subseteq Messages \X Deliveries /\ purged \subseteq Messages
        /\ tried \subseteq Subs /\ provisioned \subseteq Subs
        /\ expiries \in Nat /\ refusals \in Nat /\ crashes \in Nat
    BY DEF Init
  <2> QED BY <2>1, <2>2, <2>3
          DEF TypeOK, GridState, HandlerState, MessageState, TaskState, Unanswered
<1>3. SentInv
  <2>1. Used = {}
    BY <1>1 DEF Used
  <2>2. 0 \in 0 .. MaxMessages /\ {} = 1 .. 0
    BY Bounds
  <2>3. ~ ensured
    BY DEF Init
  <2> QED BY <2>1, <2>2, <2>3 DEF SentInv
<1>4. DeadLettered = {}
  BY DEF Init, DeadLettered
<1>5. ASSUME NEW m \in Messages
      PROVE  MessageInv(m)
  <2>1. \A n \in Deliveries : task[m][n] = "none" /\ ~ n <= 0
    BY Bounds DEF Init, Deliveries
  <2> QED BY <1>1, <1>4, <2>1, Bounds DEF MessageInv
<1>6. \A b \in Batches : AcceptedInv(b) /\ \A a \in Attempts : HandlerInv(b, a)
  BY DEF Init, AcceptedInv, HandlerInv
<1> QED BY <1>2, <1>3, <1>5, <1>6 DEF DeliveryInv

LEMMA UnchangedKeeps ==
  ASSUME DeliveryInv, UNCHANGED vars
  PROVE  DeliveryInv'
<1>1. UNCHANGED <<strategy, grid, handler, tried, provisioned>> /\ UNCHANGED queueVars
      /\ UNCHANGED jobVars /\ UNCHANGED bounds
  BY DEF vars, queueVars, jobVars, bounds
<1>2. /\ \A m \in Messages : MessageInv(m)'
      /\ Used' = Used
      /\ \A s \in Subs : Owed(s) => Owed(s)'
  BY <1>1, MessagesStay
<1>3. SentInv'
  BY <1>1, <1>2, SentStays DEF DeliveryInv
<1>4. Grows
  BY <1>1, <1>2 DEF Grows
<1>5. TypeOK'
  BY <1>1 DEF DeliveryInv, TypeOK, queueVars, jobVars, bounds
<1> QED BY <1>1, <1>2, <1>3, <1>4, <1>5, EventsStay DEF DeliveryInv

LEMMA NextDelivery ==
  ASSUME DeliveryInv, [Next]_vars
  PROVE  DeliveryInv'
<1>1. ASSUME NEW b \in Batches, Post(b) \/ PostTimesOut(b)
      PROVE  DeliveryInv'
  BY <1>1, GridKeeps
<1>2. ASSUME NEW b \in Batches, NEW a \in Attempts, Handle(b, a)
      PROVE  DeliveryInv'
  BY <1>2, HandleInlineKeeps, EnqueueKeeps DEF Handle
<1>3. ASSUME NEW s \in Subs, EnqueueJob(s)
      PROVE  DeliveryInv'
  BY <1>3, EnqueueJobKeeps
<1>4. ASSUME NEW m \in Messages, Lease(m) \/ Reappear(m) \/ LeaseExpires(m)
      PROVE  DeliveryInv'
  BY <1>4, LeaseKeeps, ReappearKeeps
<1>5. ASSUME NEW m \in Messages, NEW n \in Deliveries,
             Refuse(m, n) \/ ProcessJob(m, n) \/ JobEnds(m, n) \/ Delete(m, n)
      PROVE  DeliveryInv'
  BY <1>5, RefuseKeeps, ProcessJobKeeps, JobEndsKeeps, DeleteKeeps
<1> QED BY <1>1, <1>2, <1>3, <1>4, <1>5, PurgeKeeps, CrashKeeps, UnchangedKeeps DEF Next

\* What has been dispatched, run, counted and parked stays consistent in every state,
\* for any deliveries and any limits.
THEOREM DeliveryInvHolds == Spec => []DeliveryInv
<1>1. DeliveryInv /\ [Next]_vars => DeliveryInv'
  BY NextDelivery
<1> QED BY InitDelivery, <1>1, PTL DEF Spec

\* The webhook, the queues and the worker keep values of their types.
THEOREM DeliveryTypeHolds == Spec => []TypeOK
<1>1. DeliveryInv => TypeOK
  BY DEF DeliveryInv
<1> QED BY DeliveryInvHolds, <1>1, PTL

\* With dead_letter a 200 of the webhook means that every subscription of the delivery
\* has been provisioned without errors (the early 500 of handle_event_grid_delivery).
THEOREM ProvisionedHolds == Spec => []AcceptedMeansProvisioned
<1>1. DeliveryInv => AcceptedMeansProvisioned
  BY DEF DeliveryInv, AcceptedInv, Dispatched, AcceptedMeansProvisioned
<1> QED BY DeliveryInvHolds, <1>1, PTL

\* Where the workflow runs in the request, a 200 of the webhook means that every
\* subscription of the delivery has been tried, whatever the others' runs did (the try
\* statement inside the loop of handle_event_grid_delivery).
THEOREM TriedHolds == Spec => []AcceptedMeansTried
<1>1. DeliveryInv => AcceptedMeansTried
  BY DEF DeliveryInv, AcceptedInv, Dispatched, AcceptedMeansTried
<1> QED BY DeliveryInvHolds, <1>1, PTL

\* With the queue strategy, a storage that answers and its SDK, no subscription of an
\* accepted delivery is forgotten (EventDispatcher._enqueue_job to the worker).
THEOREM OwedHolds == Spec => [](Working => AcceptedMeansOwed)
<1>1. DeliveryInv => (Working => AcceptedMeansOwed)
  BY DEF DeliveryInv, AcceptedInv, Dispatched, AcceptedMeansOwed
<1> QED BY DeliveryInvHolds, <1>1, PTL

-------------------------------------------------------------------------------
(***************************************************************************)
(* The retry budget                                                        *)
(***************************************************************************)

\* What may have cost a job one of its runs.
Losses == expiries + refusals + crashes

\* The deliveries of message m within its limit that it will not get a failed run out of:
\* another has begun or may begin, or the request was refused or lost.
Spent(m) ==
  {n \in 1 .. MaxDeliveryCount :
     /\ n <= work[m].count
     /\ task[m][n] # "failed"
     /\ n < work[m].count \/ work[m].state = "visible" \/ task[m][n] \in {"lost", "refused"}}

\* Each of them is charged to a loss of its own.
BudgetInv == \A m \in Messages : Cardinality(Spent(m)) <= Losses

LEMMA SpentFinite ==
  \A m \in Messages : IsFiniteSet(Spent(m)) /\ Cardinality(Spent(m)) \in Nat
<1>1. IsFiniteSet(1 .. MaxDeliveryCount)
  BY Bounds, FS_Interval
<1>2. \A m \in Messages : Spent(m) \subseteq 1 .. MaxDeliveryCount
  BY DEF Spent
<1> QED BY <1>1, <1>2, FS_Subset, FS_CardinalityType

\* What is spent has been delivered.
LEMMA SpentDelivered ==
  ASSUME DeliveryInv, NEW m \in Messages, NEW n \in Spent(m)
  PROVE  n \in Deliveries /\ n \in Nat /\ work[m].count \in Nat
<1>1. work[m].count \in Nat /\ work[m].count <= MaxDeliveries
  BY Types DEF DeliveryInv, MessageState, MessageInv
<1> QED BY <1>1, Bounds DEF Spent, Deliveries

\* No message has more spent than before.
LEMMA NoneSpent ==
  ASSUME BudgetInv, DeliveryInv, \A m \in Messages : Spent(m)' \subseteq Spent(m),
         Losses' = Losses
  PROVE  BudgetInv'
<1> SUFFICES ASSUME NEW m \in Messages PROVE Cardinality(Spent(m)') <= Losses'
  BY DEF BudgetInv
<1>1. /\ IsFiniteSet(Spent(m)) /\ Cardinality(Spent(m)) \in Nat
      /\ Spent(m)' \subseteq Spent(m)
  BY SpentFinite
<1>2. Cardinality(Spent(m)') <= Cardinality(Spent(m)) /\ Cardinality(Spent(m)') \in Nat
  BY <1>1, FS_Subset, FS_CardinalityType
<1>3. Cardinality(Spent(m)) <= Losses /\ Losses \in Nat
  BY Types DEF BudgetInv, DeliveryInv, Losses
<1> QED BY <1>1, <1>2, <1>3

\* One more loss, and every message has at most one more delivery spent.
LEMMA OneSpent ==
  ASSUME BudgetInv, DeliveryInv, \A m \in Messages : \E n : Spent(m)' \subseteq Spent(m) \cup {n},
         Losses' = Losses + 1
  PROVE  BudgetInv'
<1> SUFFICES ASSUME NEW m \in Messages PROVE Cardinality(Spent(m)') <= Losses'
  BY DEF BudgetInv
<1>1. PICK n : Spent(m)' \subseteq Spent(m) \cup {n}
  OBVIOUS
<1>2. IsFiniteSet(Spent(m)) /\ Cardinality(Spent(m)) \in Nat
  BY SpentFinite
<1>3. /\ IsFiniteSet(Spent(m) \cup {n})
      /\ \/ Cardinality(Spent(m) \cup {n}) = Cardinality(Spent(m))
         \/ Cardinality(Spent(m) \cup {n}) = Cardinality(Spent(m)) + 1
  BY <1>2, FS_AddElement
<1>4. /\ Cardinality(Spent(m)') <= Cardinality(Spent(m) \cup {n})
      /\ Cardinality(Spent(m)') \in Nat
  BY <1>1, <1>3, FS_Subset, FS_CardinalityType
<1>5. Cardinality(Spent(m)) <= Losses /\ Losses \in Nat
  BY Types DEF BudgetInv, DeliveryInv, Losses
<1> QED BY <1>2, <1>3, <1>4, <1>5

\* A message that has not moved has spent nothing.
LEMMA IdleSpends ==
  ASSUME NEW m, work'[m] = work[m], task'[m] = task[m]
  PROVE  Spent(m)' = Spent(m)
BY DEF Spent

\* A new message has no deliveries.
LEMMA SendSpends ==
  ASSUME BudgetInv, DeliveryInv, NEW s, NEW origin, Send(s, origin), UNCHANGED <<task, bounds>>
  PROVE  BudgetInv'
<1>0. PICK k : k = Cardinality(Used) + 1
  OBVIOUS
<1>1. /\ k \in Messages /\ work \in [Messages -> MessageState]
      /\ work' = [work EXCEPT ![k] =
                    [state |-> "visible", sub |-> s, origin |-> origin, count |-> 0]]
  BY <1>0, NextMessage, Types DEF Send, DeliveryInv
<1>2. work'[k].count = 0 /\ \A m \in Messages \ {k} : work'[m] = work[m]
  BY <1>1
<1>3. Spent(k)' = {}
  BY <1>2 DEF Spent
<1>4. \A m \in Messages \ {k} : Spent(m)' = Spent(m)
  BY <1>2, IdleSpends
<1>5. Losses' = Losses
  BY DEF Losses, bounds
<1> QED BY <1>3, <1>4, <1>5, NoneSpent

\* A message is leased when it is visible: what may be spent is already charged.
LEMMA LeaseSpends ==
  ASSUME BudgetInv, DeliveryInv, NEW m \in Messages, Lease(m)
  PROVE  BudgetInv'
<1>1. PICK n \in Deliveries :
        /\ n = work[m].count + 1 /\ work[m].count \in Nat /\ work[m].state = "visible"
        /\ work'[m].state = "leased" /\ work'[m].count = n
        /\ \A k \in Messages \ {m} : work'[k] = work[k]
        /\ task'[m][n] = "posted"
        /\ \A l \in Deliveries \ {n} : task'[m][l] = task[m][l]
        /\ \A k \in Messages \ {m} : task'[k] = task[k]
  BY Delivers
<1>2. ASSUME NEW l \in Spent(m)'
      PROVE  l \in Spent(m)
  <2>1. /\ l \in 1 .. MaxDeliveryCount /\ l <= n /\ task'[m][l] # "failed"
        /\ l < n \/ task'[m][l] \in {"lost", "refused"}
    BY <1>1 DEF Spent
  <2>2. l # n
    BY <1>1, <2>1
  <2>3. l <= work[m].count /\ l \in Deliveries
    BY <1>1, <2>1, <2>2, Bounds DEF Deliveries
  <2> QED BY <1>1, <2>1, <2>2, <2>3 DEF Spent
<1>3. \A k \in Messages \ {m} : Spent(k)' = Spent(k)
  BY <1>1, IdleSpends
<1>4. Losses' = Losses
  BY DEF Losses, bounds, Lease
<1> QED BY <1>2, <1>3, <1>4, NoneSpent

\* A request that goes on, or ends, spends nothing that was not charged before.
LEMMA TaskSpends ==
  ASSUME BudgetInv, DeliveryInv, NEW m \in Messages, NEW n \in Deliveries,
         NEW t \in {"running", "parked", "unparked", "ok", "failed"},
         task[m][n] # "failed", task' = [task EXCEPT ![m][n] = t], UNCHANGED <<work, bounds>>
  PROVE  BudgetInv'
<1>1. t \in TaskState /\ task \in [Messages -> [Deliveries -> TaskState]]
  BY Types DEF DeliveryInv, TaskState
<1>2. /\ task'[m][n] = t /\ \A l \in Deliveries \ {n} : task'[m][l] = task[m][l]
      /\ \A k \in Messages \ {m} : task'[k] = task[k]
  BY <1>1, TaskChanges
<1>3. ASSUME NEW l \in Spent(m)'
      PROVE  l \in Spent(m)
  <2>1. /\ l \in 1 .. MaxDeliveryCount /\ l <= work[m].count /\ task'[m][l] # "failed"
        /\ \/ l < work[m].count \/ work[m].state = "visible"
           \/ task'[m][l] \in {"lost", "refused"}
    BY DEF Spent
  <2>2. l \in Deliveries
    <3>1. work[m].count \in Nat /\ work[m].count <= MaxDeliveries
      BY Types DEF DeliveryInv, MessageState, MessageInv
    <3> QED BY <2>1, <3>1, Bounds DEF Deliveries
  <2>3. CASE l = n
    BY <1>2, <2>1, <2>3 DEF Spent
  <2>4. CASE l # n
    BY <1>2, <2>1, <2>2, <2>4 DEF Spent
  <2> QED BY <2>3, <2>4
<1>4. \A k \in Messages \ {m} : Spent(k)' = Spent(k)
  BY <1>2, IdleSpends
<1>5. Losses' = Losses
  BY DEF Losses, bounds
<1> QED BY <1>3, <1>4, <1>5, NoneSpent

LEMMA WorkerSpends ==
  ASSUME BudgetInv, DeliveryInv, NEW m \in Messages, NEW n \in Deliveries,
         ProcessJob(m, n) \/ JobEnds(m, n)
  PROVE  BudgetInv'
<1>1. CASE ProcessJob(m, n)
  <2>1. PICK t \in {"running", "parked", "unparked"} :
          task[m][n] = "posted" /\ task' = [task EXCEPT ![m][n] = t]
    BY <1>1, Processes
  <2>2. UNCHANGED <<work, bounds>>
    BY <1>1 DEF ProcessJob
  <2> QED BY <2>1, <2>2, TaskSpends
<1>2. CASE JobEnds(m, n)
  <2>1. PICK t \in {"ok", "failed"} : task' = [task EXCEPT ![m][n] = t]
    BY <1>2 DEF JobEnds
  <2>2. task[m][n] = "running" /\ UNCHANGED <<work, bounds>>
    BY <1>2 DEF JobEnds
  <2> QED BY <2>1, <2>2, TaskSpends
<1> QED BY <1>1, <1>2

\* A refused delivery is charged to its refusal.
LEMMA RefuseSpends ==
  ASSUME BudgetInv, DeliveryInv, NEW m \in Messages, NEW n \in Deliveries, Refuse(m, n)
  PROVE  BudgetInv'
<1>1. /\ task' = [task EXCEPT ![m][n] = "refused"] /\ refusals' = refusals + 1
      /\ UNCHANGED <<work, expiries, crashes>>
  BY DEF Refuse
<1>2. "refused" \in TaskState /\ task \in [Messages -> [Deliveries -> TaskState]]
  BY Types DEF DeliveryInv, TaskState
<1>3. /\ \A l \in Deliveries \ {n} : task'[m][l] = task[m][l]
      /\ \A k \in Messages \ {m} : task'[k] = task[k]
  BY <1>1, <1>2, TaskChanges
<1>4. ASSUME NEW l \in Spent(m)', l # n
      PROVE  l \in Spent(m)
  <2>1. l \in Deliveries
    <3>1. l \in 1 .. MaxDeliveryCount /\ l <= work[m].count
      BY <1>1 DEF Spent
    <3>2. work[m].count \in Nat /\ work[m].count <= MaxDeliveries
      BY Types DEF DeliveryInv, MessageState, MessageInv
    <3> QED BY <3>1, <3>2, Bounds DEF Deliveries
  <2> QED BY <1>1, <1>3, <1>4, <2>1 DEF Spent
<1>5. Spent(m)' \subseteq Spent(m) \cup {n}
  BY <1>4
<1>6. \A k \in Messages \ {m} : Spent(k)' = Spent(k)
  BY <1>1, <1>3, IdleSpends
<1>7. \A k \in Messages : \E x : Spent(k)' \subseteq Spent(k) \cup {x}
  BY <1>5, <1>6
<1>8. Losses' = Losses + 1
  BY <1>1, Types DEF Losses, DeliveryInv
<1> QED BY <1>7, <1>8, OneSpent

\* A message is visible again: its last delivery is charged to the lease that ran out, unless
\* it has been answered with an error, or refused or lost and charged to that.
LEMMA VisibleSpends ==
  ASSUME BudgetInv, DeliveryInv, NEW m \in Messages, Reappear(m) \/ LeaseExpires(m)
  PROVE  BudgetInv'
<1>1. /\ work' = [work EXCEPT ![m].state = "visible"] /\ UNCHANGED <<task, refusals, crashes>>
      /\ work \in [Messages -> MessageState] /\ MessageInv(m)
  BY Types DEF Reappear, LeaseExpires, DeliveryInv, bounds
<1>2. work'[m].count = work[m].count /\ \A k \in Messages \ {m} : work'[k] = work[k]
  BY <1>1 DEF MessageState
<1>3. ASSUME NEW l \in Spent(m)', l # work[m].count
      PROVE  l \in Spent(m)
  <2>1. /\ l \in 1 .. MaxDeliveryCount /\ l <= work[m].count /\ task[m][l] # "failed"
    BY <1>1, <1>2 DEF Spent
  <2>2. work[m].count \in Nat
    BY <1>1 DEF MessageState
  <2>3. l < work[m].count
    BY <1>3, <2>1, <2>2
  <2> QED BY <2>1, <2>3 DEF Spent
<1>4. \A k \in Messages \ {m} : Spent(k)' = Spent(k)
  BY <1>1, <1>2, IdleSpends
<1>5. CASE LeaseExpires(m)
  <2>1. \A k \in Messages : \E x : Spent(k)' \subseteq Spent(k) \cup {x}
    BY <1>3, <1>4
  <2>2. Losses' = Losses + 1
    BY <1>1, <1>5, Types DEF Losses, DeliveryInv, LeaseExpires
  <2> QED BY <2>1, <2>2, OneSpent
<1>6. CASE Reappear(m)
  <2>1. task[m][work[m].count] \in Unanswered /\ UNCHANGED <<expiries, refusals, crashes>>
    BY <1>6 DEF Reappear, bounds
  <2>2. ASSUME NEW l \in Spent(m)', l = work[m].count
        PROVE  l \in Spent(m)
    <3>1. l \in 1 .. MaxDeliveryCount /\ l <= work[m].count /\ task[m][l] # "failed"
      BY <1>1, <1>2 DEF Spent
    <3>2. l \in Deliveries /\ ~ l > MaxDeliveryCount
      BY <1>1, <2>2, <3>1, Bounds DEF Deliveries, MessageInv
    <3>3. task[m][l] \in {"lost", "refused"}
      BY <1>1, <2>1, <2>2, <3>1, <3>2 DEF Unanswered, MessageInv
    <3> QED BY <3>1, <3>3 DEF Spent
  <2>3. Losses' = Losses
    BY <2>1 DEF Losses
  <2> QED BY <1>3, <1>4, <2>2, <2>3, NoneSpent
<1> QED BY <1>5, <1>6

\* A message that is deleted is not delivered again.
LEMMA DeleteSpends ==
  ASSUME BudgetInv, DeliveryInv, NEW m \in Messages, NEW n \in Deliveries, Delete(m, n)
  PROVE  BudgetInv'
<1>1. /\ work' = [work EXCEPT ![m].state = "gone"] /\ UNCHANGED <<task, bounds>>
      /\ work \in [Messages -> MessageState]
  BY Types DEF Delete, DeliveryInv
<1>2. /\ work'[m].count = work[m].count /\ work'[m].state = "gone"
      /\ \A k \in Messages \ {m} : work'[k] = work[k]
  BY <1>1 DEF MessageState
<1>3. Spent(m)' \subseteq Spent(m)
  BY <1>1, <1>2 DEF Spent
<1>4. \A k \in Messages \ {m} : Spent(k)' = Spent(k)
  BY <1>1, <1>2, IdleSpends
<1>5. Losses' = Losses
  BY <1>1 DEF Losses, bounds
<1> QED BY <1>3, <1>4, <1>5, NoneSpent

\* A crash loses the last delivery of a message; the runs of its other deliveries have been
\* charged to the lease each has outlived.
LEMMA CrashSpends ==
  ASSUME BudgetInv, DeliveryInv, Crash
  PROVE  BudgetInv'
<1>1. /\ crashes' = crashes + 1 /\ UNCHANGED <<work, expiries, refusals>>
      /\ \A m \in Messages, n \in Deliveries :
           task'[m][n] = IF task[m][n] = "running" THEN "lost" ELSE task[m][n]
  BY DEF Crash
<1>2. ASSUME NEW m \in Messages, NEW l \in Spent(m)', l # work[m].count
      PROVE  l \in Spent(m)
  <2>1. l \in 1 .. MaxDeliveryCount /\ l <= work[m].count /\ task'[m][l] # "failed"
    BY <1>1 DEF Spent
  <2>2. work[m].count \in Nat /\ work[m].count <= MaxDeliveries
    BY Types DEF DeliveryInv, MessageState, MessageInv
  <2>3. l \in Deliveries /\ l < work[m].count
    BY <1>2, <2>1, <2>2, Bounds DEF Deliveries
  <2>4. task[m][l] # "failed"
    BY <1>1, <2>1, <2>3
  <2> QED BY <2>1, <2>3, <2>4 DEF Spent
<1>3. \A m \in Messages : \E x : Spent(m)' \subseteq Spent(m) \cup {x}
  BY <1>2
<1>4. Losses' = Losses + 1
  BY <1>1, Types DEF Losses, DeliveryInv
<1> QED BY <1>3, <1>4, OneSpent

LEMMA NextBudget ==
  ASSUME BudgetInv, DeliveryInv, [Next]_vars
  PROVE  BudgetInv'
<1>1. ASSUME UNCHANGED <<work, task, bounds>>
      PROVE  BudgetInv'
  <2>1. \A m \in Messages : Spent(m)' = Spent(m)
    BY <1>1, IdleSpends
  <2>2. Losses' = Losses
    BY <1>1 DEF Losses, bounds
  <2> QED BY <2>1, <2>2, NoneSpent
<1>2. ASSUME NEW b \in Batches, \/ Post(b) \/ PostTimesOut(b)
                                \/ \E a \in Attempts : Handle(b, a) /\ ~ Enqueue(b, a)
      PROVE  BudgetInv'
  <2>1. UNCHANGED <<jobVars, bounds>>
    BY <1>2 DEF Post, PostTimesOut, Handle, SkipEvent, RunInline, InlineEnds, AllHandled
  <2> QED BY <1>1, <2>1 DEF jobVars
<1>3. ASSUME NEW b \in Batches, NEW a \in Attempts, Enqueue(b, a)
      PROVE  BudgetInv'
  <2>1. UNCHANGED <<task, bounds>> /\ (Send(Event(b, a), "event") \/ UNCHANGED work)
    BY <1>3 DEF Enqueue
  <2> QED BY <1>1, <2>1, SendSpends
<1>4. ASSUME NEW s \in Subs, EnqueueJob(s)
      PROVE  BudgetInv'
  BY <1>4, SendSpends DEF EnqueueJob
<1>5. ASSUME PurgeDlq \/ UNCHANGED vars
      PROVE  BudgetInv'
  BY <1>1, <1>5 DEF PurgeDlq, vars, bounds
<1>6. ASSUME NEW m \in Messages, Lease(m) \/ Reappear(m) \/ LeaseExpires(m)
      PROVE  BudgetInv'
  BY <1>6, LeaseSpends, VisibleSpends
<1>7. ASSUME NEW m \in Messages, NEW n \in Deliveries,
             Refuse(m, n) \/ ProcessJob(m, n) \/ JobEnds(m, n) \/ Delete(m, n)
      PROVE  BudgetInv'
  BY <1>7, RefuseSpends, WorkerSpends, DeleteSpends
<1> QED BY <1>2, <1>3, <1>4, <1>5, <1>6, <1>7, CrashSpends DEF Next, Handle

LEMMA InitBudget == Init => BudgetInv
<1> SUFFICES ASSUME Init PROVE BudgetInv
  OBVIOUS
<1>1. \A m \in Messages : work[m].count = 0
  BY DEF Init
<1>2. \A m \in Messages : Spent(m) = {}
  BY <1>1 DEF Spent
<1>3. Losses = 0
  BY DEF Init, Losses
<1> QED BY <1>2, <1>3, FS_EmptySet DEF BudgetInv

\* A job that has been parked has had all the deliveries of its limit.
LEMMA ParkedSpent ==
  ASSUME DeliveryInv, NEW m \in DeadLettered
  PROVE  m \in Messages
         /\ {n \in 1 .. MaxDeliveryCount : task[m][n] # "failed"} = Spent(m)
<1>1. m \in Messages
  BY Types DEF DeliveryInv, DeadLettered
<1>2. work[m].count > MaxDeliveryCount /\ work[m].count \in Nat
  BY <1>1, Types DEF DeliveryInv, MessageInv, MessageState
<1>3. \A n \in 1 .. MaxDeliveryCount : n < work[m].count /\ n <= work[m].count
  BY <1>2, Bounds
<1> QED BY <1>1, <1>3 DEF Spent

\* A job is given up only after all the runs of its limit have failed, but for at most one
\* per lease that ran out, refused delivery and crash: no loss is charged to two deliveries
\* of a message, whatever deliveries of it overlap (the delivery_count of process_job, and
\* the storage that counts leases).
THEOREM BudgetHolds == Spec => []ParkedMeansRetried
<1>1. Init => DeliveryInv /\ BudgetInv
  BY InitDelivery, InitBudget
<1>2. DeliveryInv /\ BudgetInv /\ [Next]_vars => DeliveryInv' /\ BudgetInv'
  BY NextDelivery, NextBudget
<1>3. DeliveryInv /\ BudgetInv => ParkedMeansRetried
  BY ParkedSpent DEF BudgetInv, ParkedMeansRetried, Losses
<1> QED BY <1>1, <1>2, <1>3, PTL DEF Spec

-------------------------------------------------------------------------------
(***************************************************************************)
(* The refinement of JobPromise: a step promises, reaches an end of, or    *)
(* settles one job, or does nothing to any.                                *)
(***************************************************************************)

JobStays(m) == JobStatus(m)' = JobStatus(m) /\ JobOutcome(m)' = JobOutcome(m)

LEMMA StuttersPromise ==
  ASSUME \A m \in Messages : JobStays(m)
  PROVE  UNCHANGED Promised!pvars
BY DEF JobStays, Promised!pvars

LEMMA PromisesJob ==
  ASSUME NEW k \in Messages, \A m \in Messages \ {k} : JobStays(m),
         JobStatus(k) = "none", JobStatus(k)' = "owed", JobOutcome(k)' = JobOutcome(k)
  PROVE  Promised!Next
BY DEF JobStays, Promised!Next, Promised!Promise

LEMMA ReachesEnd ==
  ASSUME NEW k \in Messages, \A m \in Messages \ {k} : JobStays(m), NEW e \in {"done", "parked"},
         JobStatus(k) # "none", JobStatus(k)' = JobStatus(k),
         JobOutcome(k)' = JobOutcome(k) \cup {e}
  PROVE  Promised!Next
BY DEF JobStays, Promised!Next, Promised!Reach, Promised!Ends

LEMMA SettlesJob ==
  ASSUME NEW k \in Messages, \A m \in Messages \ {k} : JobStays(m),
         JobStatus(k) = "owed", JobOutcome(k) # {},
         JobStatus(k)' = "settled", JobOutcome(k)' = JobOutcome(k)
  PROVE  Promised!Next
BY DEF JobStays, Promised!Next, Promised!Settle

\* The runs and the copies of a message decide its outcome.
LEMMA OutcomeStays ==
  ASSUME NEW m, \A n \in Deliveries : task'[m][n] = "ok" <=> task[m][n] = "ok",
         m \in DeadLettered' <=> m \in DeadLettered
  PROVE  JobOutcome(m)' = JobOutcome(m)
BY DEF JobOutcome

LEMMA InitPromise == Init => Promised!Init
<1> SUFFICES ASSUME Init PROVE Promised!Init
  OBVIOUS
<1>1. DeadLettered = {}
  BY DEF Init, DeadLettered
<1>2. \A m \in Messages : JobStatus(m) = "none" /\ JobOutcome(m) = {}
  BY <1>1 DEF Init, JobStatus, JobOutcome
<1> QED BY <1>2 DEF Promised!Init

\* The dispatcher sends a job, or does not touch the jobs.
LEMMA EnqueueSends ==
  ASSUME NEW b, NEW a, Enqueue(b, a), NEW s, s = Event(b, a)
  PROVE  UNCHANGED <<task, dlq, purged>> /\ (Send(s, "event") \/ UNCHANGED work)
<1>1. CASE SdkInstalled
  <2>1. PICK ok \in SendOutcomes("work", queues') :
          IF ok THEN Send(Event(b, a), "event") ELSE UNCHANGED work
    BY <1>1 DEF Enqueue
  <2> QED BY <2>1 DEF Enqueue
<1>2. CASE ~ SdkInstalled
  BY <1>2 DEF Enqueue
<1> QED BY <1>1, <1>2

\* Event Grid and the rest of the webhook leave the jobs alone.
LEMMA GridLeavesJobs ==
  ASSUME NEW b, \/ Post(b) \/ PostTimesOut(b)
                \/ \E a \in Attempts :
                     SkipEvent(b, a) \/ RunInline(b, a) \/ InlineEnds(b, a) \/ AllHandled(b, a)
  PROVE  UNCHANGED jobVars
BY DEF Post, PostTimesOut, SkipEvent, RunInline, InlineEnds, AllHandled

LEMMA NextPromise ==
  ASSUME DeliveryInv, [Next]_vars
  PROVE  [Promised!Next]_Promised!pvars
<1>1. ASSUME UNCHANGED jobVars
      PROVE  UNCHANGED Promised!pvars
  <2>1. \A m \in Messages : JobStays(m)
    BY <1>1 DEF jobVars, JobStays, JobStatus, JobOutcome, DeadLettered
  <2> QED BY <2>1, StuttersPromise
<1>2. ASSUME NEW s, NEW origin, Send(s, origin), UNCHANGED <<task, dlq, purged>>
      PROVE  Promised!Next
  <2>0. PICK k : k = Cardinality(Used) + 1
    OBVIOUS
  <2>1. /\ k \in Messages \ Used /\ work \in [Messages -> MessageState]
        /\ work' = [work EXCEPT ![k] =
                      [state |-> "visible", sub |-> s, origin |-> origin, count |-> 0]]
    BY <1>2, <2>0, NextMessage, Types DEF Send, DeliveryInv
  <2>2. work[k].state = "unused" /\ work'[k].state = "visible"
    BY <2>1, UsedMessages
  <2>3. DeadLettered' = DeadLettered
    BY <1>2 DEF DeadLettered
  <2>4. \A m \in Messages : JobOutcome(m)' = JobOutcome(m)
    BY <1>2, <2>3, OutcomeStays
  <2>5. \A m \in Messages \ {k} : JobStays(m)
    BY <2>1, <2>4 DEF JobStays, JobStatus
  <2>6. JobStatus(k) = "none" /\ JobStatus(k)' = "owed"
    BY <2>2 DEF JobStatus
  <2> QED BY <2>1, <2>4, <2>5, <2>6, PromisesJob
<1>3. ASSUME NEW m \in Messages, NEW st \in {"visible", "leased"},
             work' = [work EXCEPT ![m].state = "visible"], work[m].state = st,
             UNCHANGED <<task, dlq, purged>>
      PROVE  UNCHANGED Promised!pvars
  <2>1. work \in [Messages -> MessageState] /\ DeadLettered' = DeadLettered
    BY <1>3, Types DEF DeliveryInv, DeadLettered
  <2>2. work'[m].state = "visible" /\ \A k \in Messages \ {m} : work'[k] = work[k]
    BY <1>3, <2>1 DEF MessageState
  <2>3. \A k \in Messages : JobOutcome(k)' = JobOutcome(k)
    BY <1>3, <2>1, OutcomeStays
  <2>4. \A k \in Messages : JobStatus(k)' = JobStatus(k)
    BY <1>3, <2>2 DEF JobStatus
  <2> QED BY <2>3, <2>4, StuttersPromise DEF JobStays
<1>4. ASSUME NEW m \in Messages, NEW n \in Deliveries, Delete(m, n)
      PROVE  Promised!Next
  <2>1. /\ work \in [Messages -> MessageState]
        /\ work' = [work EXCEPT ![m].state = "gone"] /\ UNCHANGED <<task, dlq, purged>>
        /\ work[m].state \in {"visible", "leased"} /\ task[m][n] \in {"ok", "parked"}
    BY <1>4, Types DEF DeliveryInv, Delete, Answered200
  <2>2. work'[m].state = "gone" /\ \A k \in Messages \ {m} : work'[k] = work[k]
    BY <2>1 DEF MessageState
  <2>3. DeadLettered' = DeadLettered
    BY <2>1 DEF DeadLettered
  <2>4. \A k \in Messages : JobOutcome(k)' = JobOutcome(k)
    BY <2>1, <2>3, OutcomeStays
  <2>5. JobOutcome(m) # {}
    <3>1. task[m][n] = "parked" => m \in DeadLettered
      BY DEF DeliveryInv, MessageInv
    <3> QED BY <2>1, <3>1 DEF JobOutcome
  <2>6. \A k \in Messages \ {m} : JobStays(k)
    BY <2>2, <2>4 DEF JobStays, JobStatus
  <2>7. JobStatus(m) = "owed" /\ JobStatus(m)' = "settled"
    BY <2>1, <2>2 DEF JobStatus
  <2> QED BY <2>4, <2>5, <2>6, <2>7, SettlesJob
<1>5. ASSUME NEW m \in Messages, NEW n \in Deliveries, JobEnds(m, n)
      PROVE  [Promised!Next]_Promised!pvars
  <2>1. PICK t \in {"ok", "failed"} : task' = [task EXCEPT ![m][n] = t]
    BY <1>5 DEF JobEnds
  <2>2. /\ task \in [Messages -> [Deliveries -> TaskState]] /\ task[m][n] = "running"
        /\ UNCHANGED <<work, dlq, purged>> /\ MessageInv(m)
    BY <1>5, Types DEF JobEnds, DeliveryInv
  <2>3. /\ task'[m][n] = t
        /\ \A l \in Deliveries \ {n} : task'[m][l] = task[m][l]
        /\ \A k \in Messages \ {m} : task'[k] = task[k]
    BY <2>1, <2>2
  <2>4. DeadLettered' = DeadLettered
    BY <2>2 DEF DeadLettered
  <2>5. \A k \in Messages : JobStatus(k)' = JobStatus(k)
    BY <2>2 DEF JobStatus
  <2>6. \A k \in Messages \ {m} : JobStays(k)
    BY <2>3, <2>4, <2>5, OutcomeStays DEF JobStays
  <2>7. CASE t = "ok"
    <3>1. JobOutcome(m)' = JobOutcome(m) \cup {"done"}
      BY <2>3, <2>4, <2>7 DEF JobOutcome
    <3>2. work[m].count # 0
      BY <2>2, Bounds DEF MessageInv, Deliveries
    <3>3. JobStatus(m) # "none"
      BY <2>2, <3>2 DEF MessageInv, JobStatus
    <3> QED BY <2>5, <2>6, <3>1, <3>3, ReachesEnd
  <2>8. CASE t = "failed"
    <3>1. \A l \in Deliveries : task'[m][l] = "ok" <=> task[m][l] = "ok"
      BY <2>2, <2>3, <2>8
    <3>2. JobOutcome(m)' = JobOutcome(m)
      BY <2>4, <3>1, OutcomeStays
    <3> QED BY <2>5, <2>6, <3>2, StuttersPromise DEF JobStays
  <2> QED BY <2>7, <2>8
<1>6. ASSUME NEW m \in Messages, NEW n \in Deliveries, ProcessJob(m, n)
      PROVE  [Promised!Next]_Promised!pvars
  <2>1. PICK t \in {"running", "parked", "unparked"} :
          /\ task[m][n] = "posted"
          /\ task' = [task EXCEPT ![m][n] = t]
          /\ DeadLettered' = IF t = "parked" THEN DeadLettered \cup {m} ELSE DeadLettered
    BY <1>6, Processes
  <2>2. \A k \in Messages, l \in Deliveries : task'[k][l] = "ok" <=> task[k][l] = "ok"
    BY <2>1, Types DEF DeliveryInv
  <2>3. \A k \in Messages : JobStatus(k)' = JobStatus(k)
    BY <1>6 DEF ProcessJob, JobStatus
  <2>4. \A k \in Messages \ {m} : JobStays(k)
    BY <2>1, <2>2, <2>3, OutcomeStays DEF JobStays
  <2>5. CASE t = "parked"
    <3>1. JobOutcome(m)' = JobOutcome(m) \cup {"parked"}
      BY <2>1, <2>2, <2>5 DEF JobOutcome
    <3>2. JobStatus(m) # "none"
      BY <2>1, TaskOfUsed DEF JobStatus
    <3> QED BY <2>3, <2>4, <3>1, <3>2, ReachesEnd
  <2>6. CASE t # "parked"
    <3>1. JobOutcome(m)' = JobOutcome(m)
      BY <2>1, <2>2, <2>6, OutcomeStays
    <3> QED BY <2>3, <2>4, <3>1, StuttersPromise DEF JobStays
  <2> QED BY <2>5, <2>6
<1>14. ASSUME NEW m \in Messages, Lease(m)
       PROVE  UNCHANGED Promised!pvars
  <2>1. PICK n \in Deliveries :
          /\ work[m].state = "visible" /\ work'[m].state = "leased"
          /\ \A k \in Messages \ {m} : work'[k] = work[k]
          /\ task[m][n] = "none" /\ task'[m][n] = "posted"
          /\ \A l \in Deliveries \ {n} : task'[m][l] = task[m][l]
          /\ \A k \in Messages \ {m} : task'[k] = task[k]
    BY <1>14, Delivers
  <2>2. \A k \in Messages, l \in Deliveries : task'[k][l] = "ok" <=> task[k][l] = "ok"
    BY <2>1
  <2>3. DeadLettered' = DeadLettered
    BY <1>14 DEF Lease, DeadLettered
  <2>4. \A k \in Messages : JobStatus(k)' = JobStatus(k)
    BY <2>1 DEF JobStatus
  <2> QED BY <2>2, <2>3, <2>4, OutcomeStays, StuttersPromise DEF JobStays
<1>15. ASSUME NEW m \in Messages, NEW n \in Deliveries, Refuse(m, n)
       PROVE  UNCHANGED Promised!pvars
  <2>1. DeadLettered' = DeadLettered /\ UNCHANGED work
    BY <1>15 DEF Refuse, DeadLettered
  <2>2. \A k \in Messages, l \in Deliveries : task'[k][l] = "ok" <=> task[k][l] = "ok"
    BY <1>15, Types DEF Refuse, DeliveryInv
  <2> QED BY <2>1, <2>2, OutcomeStays, StuttersPromise DEF JobStays, JobStatus
<1>7. ASSUME PurgeDlq
      PROVE  UNCHANGED Promised!pvars
  <2>1. DeadLettered' = DeadLettered /\ UNCHANGED <<work, task>>
    BY <1>7 DEF PurgeDlq, DeadLettered
  <2> QED BY <2>1, OutcomeStays, StuttersPromise DEF JobStays, JobStatus
<1>8. ASSUME Crash
      PROVE  UNCHANGED Promised!pvars
  <2>1. DeadLettered' = DeadLettered /\ UNCHANGED work
    BY <1>8 DEF Crash, DeadLettered
  <2>2. \A m \in Messages, n \in Deliveries : task'[m][n] = "ok" <=> task[m][n] = "ok"
    BY <1>8 DEF Crash
  <2> QED BY <2>1, <2>2, OutcomeStays, StuttersPromise DEF JobStays, JobStatus
<1>9. ASSUME NEW b \in Batches, NEW a \in Attempts, Enqueue(b, a)
      PROVE  [Promised!Next]_Promised!pvars
  <2>1. PICK s : s = Event(b, a)
    OBVIOUS
  <2>2. UNCHANGED <<task, dlq, purged>> /\ (Send(s, "event") \/ UNCHANGED work)
    BY <1>9, <2>1, EnqueueSends
  <2> QED BY <1>1, <1>2, <2>2 DEF jobVars
<1>10. ASSUME NEW b \in Batches, Post(b) \/ PostTimesOut(b) \/ \E a \in Attempts : Handle(b, a)
       PROVE  [Promised!Next]_Promised!pvars
  BY <1>1, <1>9, <1>10, GridLeavesJobs DEF Handle
<1>11. ASSUME NEW s \in Subs, EnqueueJob(s)
       PROVE  Promised!Next
  BY <1>2, <1>11 DEF EnqueueJob
<1>12. ASSUME NEW m \in Messages, Reappear(m) \/ LeaseExpires(m)
       PROVE  UNCHANGED Promised!pvars
  BY <1>3, <1>12 DEF Reappear, LeaseExpires
<1>13. ASSUME UNCHANGED vars
       PROVE  UNCHANGED Promised!pvars
  BY <1>1, <1>13 DEF vars, jobVars
<1> QED BY <1>4, <1>5, <1>6, <1>7, <1>8, <1>10, <1>11, <1>12, <1>13, <1>14, <1>15 DEF Next

\* The queue and its worker implement JobPromise, for any limits and bounds: a job leaves
\* the work queue only after a run without errors or with a copy in the dead-letter queue
\* (the answers of process_job and the trigger that deletes on them).
THEOREM JobsKeptHolds == Spec => JobsKept
<1>1. DeliveryInv /\ [Next]_vars => [Promised!Next]_Promised!pvars
  BY NextPromise
<1> QED BY InitPromise, DeliveryInvHolds, <1>1, PTL DEF Spec, JobsKept, Promised!Spec

-------------------------------------------------------------------------------
(***************************************************************************)
(* The refinement of JobMonitor: what a lookup or a watch assumes of the   *)
(* way messages move is what the dispatcher, the trigger and the worker do.*)
(***************************************************************************)

Taken == {m \in Messages : work[m].count > 0}

Done == {m \in Messages : "done" \in JobOutcome(m)}

Copies == {d[1] : d \in dlq}

LEMMA StuttersMonitor ==
  ASSUME \A m \in Messages : MessageSeen(m)' = MessageSeen(m),
         UNCHANGED <<Taken, Done, DeadLettered, Copies>>
  PROVE  UNCHANGED Monitored!vars
BY DEF Monitored!vars, Taken, Done, Copies

\* The shape of a step of message k: where it was, and where it is seen now.
Moves(k, from, to) ==
  /\ MessageSeen(k) = from /\ MessageSeen(k)' = to
  /\ \A m \in Messages \ {k} : MessageSeen(m)' = MessageSeen(m)

LEMMA EnqueuesJob ==
  ASSUME NEW k \in Messages, Moves(k, "absent", "visible"),
         UNCHANGED <<Taken, Done, DeadLettered, Copies>>
  PROVE  Monitored!Next
BY DEF Moves, Taken, Done, Copies, Monitored!Next, Monitored!Queue, Monitored!Enqueue,
       Monitored!watchVars

LEMMA LeasesJob ==
  ASSUME NEW k \in Messages, Moves(k, "visible", "leased"), Taken' = Taken \cup {k},
         UNCHANGED <<Done, DeadLettered, Copies>>
  PROVE  Monitored!Next
BY DEF Moves, Taken, Done, Copies, Monitored!Next, Monitored!Queue, Monitored!Lease,
       Monitored!watchVars

LEMMA ReleasesJob ==
  ASSUME NEW k \in Messages, Moves(k, "leased", "visible"),
         UNCHANGED <<Taken, Done, DeadLettered, Copies>>
  PROVE  Monitored!Next
BY DEF Moves, Taken, Done, Copies, Monitored!Next, Monitored!Queue, Monitored!Release,
       Monitored!watchVars

LEMMA CompletesJob ==
  ASSUME NEW k \in Messages, \A m \in Messages : MessageSeen(m)' = MessageSeen(m),
         k \in Taken, Done' = Done \cup {k}, UNCHANGED <<Taken, DeadLettered, Copies>>
  PROVE  Monitored!Next
BY DEF Taken, Done, Copies, Monitored!Next, Monitored!Queue, Monitored!RunSucceeds,
       Monitored!watchVars

LEMMA ParksJob ==
  ASSUME NEW k \in Messages, \A m \in Messages : MessageSeen(m)' = MessageSeen(m),
         k \in Taken, DeadLettered' = DeadLettered \cup {k}, Copies' = Copies \cup {k},
         UNCHANGED <<Taken, Done>>
  PROVE  Monitored!Next
BY DEF Taken, Done, Copies, Monitored!Next, Monitored!Queue, Monitored!Park,
       Monitored!MoveToDlq, Monitored!watchVars

LEMMA DeletesJob ==
  ASSUME NEW k \in Messages, NEW from \in {"visible", "leased"}, Moves(k, from, "gone"),
         k \in Done \cup DeadLettered, UNCHANGED <<Taken, Done, DeadLettered, Copies>>
  PROVE  Monitored!Next
BY DEF Moves, Taken, Done, Copies, Monitored!Next, Monitored!Queue, Monitored!Delete,
       Monitored!watchVars

LEMMA PurgesCopies ==
  ASSUME \A m \in Messages : MessageSeen(m)' = MessageSeen(m),
         Copies # {}, Copies' = {}, UNCHANGED <<Taken, Done, DeadLettered>>
  PROVE  Monitored!Next
BY DEF Taken, Done, Copies, Monitored!Next, Monitored!Purge, Monitored!watchVars

LEMMA InitMonitor == Init => Monitored!Init
<1> SUFFICES ASSUME Init PROVE Monitored!Init
  OBVIOUS
<1>1. DeadLettered = {} /\ Copies = {}
  BY DEF Init, DeadLettered, Copies
<1>2. \A m \in Messages : MessageSeen(m) = "absent" /\ JobOutcome(m) = {} /\ work[m].count = 0
  BY <1>1 DEF Init, MessageSeen, JobOutcome
<1>3. Taken = {} /\ Done = {}
  BY <1>2 DEF Taken, Done
<1>4. [l \in {} |-> l] = [l \in {} |-> [pc |-> "idle", job |-> "none", idx |-> 1, excuses |-> {}]]
  OBVIOUS
<1> QED BY <1>1, <1>2, <1>3, <1>4 DEF Monitored!Init, Taken, Done, Copies

\* What is recorded of the messages, when neither their runs nor their copies change.
LEMMA RecordsStay ==
  ASSUME UNCHANGED <<dlq, purged>>,
         \A m \in Messages, n \in Deliveries : task'[m][n] = "ok" <=> task[m][n] = "ok"
  PROVE  UNCHANGED <<Done, DeadLettered, Copies>>
<1>1. DeadLettered' = DeadLettered /\ Copies' = Copies
  BY DEF DeadLettered, Copies
<1>2. \A m \in Messages : JobOutcome(m)' = JobOutcome(m)
  BY <1>1, OutcomeStays
<1> QED BY <1>1, <1>2 DEF Done

LEMMA NextMonitor ==
  ASSUME DeliveryInv, [Next]_vars
  PROVE  [Monitored!Next]_Monitored!vars
<1>1. ASSUME UNCHANGED jobVars
      PROVE  UNCHANGED Monitored!vars
  <2>1. UNCHANGED <<Taken, Done, DeadLettered, Copies>>
    BY <1>1, RecordsStay DEF jobVars, Taken
  <2> QED BY <1>1, <2>1, StuttersMonitor DEF jobVars, MessageSeen
<1>2. ASSUME NEW s, NEW origin, Send(s, origin), UNCHANGED <<task, dlq, purged>>
      PROVE  Monitored!Next
  <2>0. PICK k : k = Cardinality(Used) + 1
    OBVIOUS
  <2> DEFINE w == [state |-> "visible", sub |-> s, origin |-> origin, count |-> 0]
  <2>1. /\ k \in Messages \ Used /\ work \in [Messages -> MessageState]
        /\ work' = [work EXCEPT ![k] = w]
    BY <1>2, <2>0, NextMessage, Types DEF Send, DeliveryInv
  <2>2. w.state = "visible" /\ w.count = 0
    OBVIOUS
  <2> HIDE DEF w
  <2>3. work'[k] = w /\ \A m \in Messages \ {k} : work'[m] = work[m]
    BY <2>1
  <2>4. work[k].state = "unused" /\ work[k].count = 0
    BY <2>1, UsedMessages DEF DeliveryInv, MessageInv
  <2>5. Taken' = Taken
    BY <2>2, <2>3, <2>4 DEF Taken
  <2>6. UNCHANGED <<Done, DeadLettered, Copies>>
    BY <1>2, RecordsStay
  <2>7. Moves(k, "absent", "visible")
    BY <2>2, <2>3, <2>4 DEF Moves, MessageSeen
  <2> QED BY <2>1, <2>5, <2>6, <2>7, EnqueuesJob
<1>3. ASSUME NEW m \in Messages, NEW from \in {"visible", "leased"}, NEW to \in {"visible", "gone"},
             work[m].state = from, work' = [work EXCEPT ![m].state = to],
             UNCHANGED <<task, dlq, purged>>
      PROVE  Moves(m, from, to) /\ UNCHANGED <<Taken, Done, DeadLettered, Copies>>
  <2>1. work \in [Messages -> MessageState]
    BY Types DEF DeliveryInv
  <2>2. /\ work'[m].state = to /\ work'[m].count = work[m].count
        /\ \A k \in Messages \ {m} : work'[k] = work[k]
    BY <1>3, <2>1 DEF MessageState
  <2>3. Taken' = Taken
    BY <2>2 DEF Taken
  <2>4. UNCHANGED <<Done, DeadLettered, Copies>>
    BY <1>3, RecordsStay
  <2>5. Moves(m, from, to)
    BY <1>3, <2>2 DEF Moves, MessageSeen
  <2> QED BY <2>3, <2>4, <2>5
<1>4. ASSUME NEW m \in Messages, NEW n \in Deliveries, Delete(m, n)
      PROVE  Monitored!Next
  <2>1. PICK from \in {"visible", "leased"} : work[m].state = from
    BY <1>4 DEF Delete
  <2>2. /\ work' = [work EXCEPT ![m].state = "gone"] /\ UNCHANGED <<task, dlq, purged>>
        /\ task[m][n] \in {"ok", "parked"}
    BY <1>4 DEF Delete, Answered200
  <2>3. task[m][n] = "parked" => m \in DeadLettered
    BY DEF DeliveryInv, MessageInv
  <2>4. m \in Done \cup DeadLettered
    BY <2>2, <2>3 DEF Done, JobOutcome
  <2>5. Moves(m, from, "gone") /\ UNCHANGED <<Taken, Done, DeadLettered, Copies>>
    BY <1>3, <2>1, <2>2
  <2> QED BY <2>4, <2>5, DeletesJob
<1>5. ASSUME NEW m \in Messages, Reappear(m) \/ LeaseExpires(m)
      PROVE  Monitored!Next
  <2>1. /\ work[m].state = "leased" /\ work' = [work EXCEPT ![m].state = "visible"]
        /\ UNCHANGED <<task, dlq, purged>>
    BY <1>5 DEF Reappear, LeaseExpires
  <2>2. Moves(m, "leased", "visible") /\ UNCHANGED <<Taken, Done, DeadLettered, Copies>>
    BY <1>3, <2>1
  <2> QED BY <2>2, ReleasesJob
<1>6. ASSUME NEW m \in Messages, NEW n \in Deliveries, JobEnds(m, n)
      PROVE  [Monitored!Next]_Monitored!vars
  <2>1. PICK t \in {"ok", "failed"} : task' = [task EXCEPT ![m][n] = t]
    BY <1>6 DEF JobEnds
  <2>2. /\ task \in [Messages -> [Deliveries -> TaskState]] /\ task[m][n] = "running"
        /\ UNCHANGED <<work, dlq, purged>> /\ MessageInv(m) /\ work[m].count \in Nat
    BY <1>6, Types DEF JobEnds, DeliveryInv, MessageState
  <2>3. /\ task'[m][n] = t
        /\ \A l \in Deliveries \ {n} : task'[m][l] = task[m][l]
        /\ \A k \in Messages \ {m} : task'[k] = task[k]
    BY <2>1, <2>2
  <2>4. \A k \in Messages : MessageSeen(k)' = MessageSeen(k)
    BY <2>2 DEF MessageSeen
  <2>5. UNCHANGED <<Taken, DeadLettered, Copies>>
    BY <2>2 DEF Taken, DeadLettered, Copies
  <2>6. CASE t = "ok"
    <3>1. "done" \in JobOutcome(m)'
      BY <2>3, <2>6 DEF JobOutcome
    <3>2. \A k \in Messages \ {m} : JobOutcome(k)' = JobOutcome(k)
      BY <2>3, <2>5 DEF JobOutcome
    <3>3. Done' = Done \cup {m}
      BY <3>1, <3>2 DEF Done
    <3>4. m \in Taken
      <4>1. n <= work[m].count
        BY <2>2 DEF MessageInv
      <4> QED BY <2>2, <4>1, Bounds DEF Taken, Deliveries
    <3> QED BY <2>4, <2>5, <3>3, <3>4, CompletesJob
  <2>7. CASE t = "failed"
    <3>1. \A k \in Messages, l \in Deliveries : task'[k][l] = "ok" <=> task[k][l] = "ok"
      BY <2>2, <2>3, <2>7
    <3>2. Done' = Done
      BY <2>2, <3>1, RecordsStay
    <3> QED BY <2>4, <2>5, <3>2, StuttersMonitor
  <2> QED BY <2>6, <2>7
<1>7. ASSUME NEW m \in Messages, NEW n \in Deliveries, ProcessJob(m, n)
      PROVE  [Monitored!Next]_Monitored!vars
  <2>1. PICK t \in {"running", "parked", "unparked"} :
          /\ task[m][n] = "posted"
          /\ task' = [task EXCEPT ![m][n] = t]
          /\ dlq' = IF t = "parked" THEN dlq \cup {<<m, n>>} ELSE dlq
          /\ DeadLettered' = IF t = "parked" THEN DeadLettered \cup {m} ELSE DeadLettered
    BY <1>7, Processes
  <2>2. \A k \in Messages, l \in Deliveries : task'[k][l] = "ok" <=> task[k][l] = "ok"
    BY <2>1, Types DEF DeliveryInv
  <2>3. Done' = Done
    <3>1. \A k \in Messages : "done" \in JobOutcome(k)' <=> "done" \in JobOutcome(k)
      BY <2>2 DEF JobOutcome
    <3> QED BY <3>1 DEF Done
  <2>4. Taken' = Taken /\ \A k \in Messages : MessageSeen(k)' = MessageSeen(k)
    BY <1>7 DEF ProcessJob, Taken, MessageSeen
  <2>5. CASE t = "parked"
    <3>1. dlq' = dlq \cup {<<m, n>>} /\ <<m, n>>[1] = m
      BY <2>1, <2>5
    <3>2. \A x : (\E d \in dlq' : x = d[1]) <=> (\E d \in dlq : x = d[1]) \/ x = m
      BY <3>1, Zenon
    <3>3. Copies' = Copies \cup {m}
      BY <3>2, Zenon DEF Copies
    <3>4. DeadLettered' = DeadLettered \cup {m}
      BY <2>1, <2>5
    <3>5. m \in Taken
      BY <2>1, TaskOfUsed DEF Taken
    <3> QED BY <2>3, <2>4, <3>3, <3>4, <3>5, ParksJob
  <2>6. CASE t # "parked"
    <3>1. DeadLettered' = DeadLettered /\ Copies' = Copies
      BY <2>1, <2>6 DEF Copies
    <3> QED BY <2>3, <2>4, <3>1, StuttersMonitor
  <2> QED BY <2>5, <2>6
<1>14. ASSUME NEW m \in Messages, Lease(m)
       PROVE  Monitored!Next
  <2>1. PICK n \in Deliveries :
          /\ n = work[m].count + 1 /\ work[m].count \in Nat /\ work[m].state = "visible"
          /\ work'[m].state = "leased" /\ work'[m].count = n
          /\ \A k \in Messages \ {m} : work'[k] = work[k]
          /\ task[m][n] = "none" /\ task'[m][n] = "posted"
          /\ \A l \in Deliveries \ {n} : task'[m][l] = task[m][l]
          /\ \A k \in Messages \ {m} : task'[k] = task[k]
    BY <1>14, Delivers
  <2>2. \A k \in Messages, l \in Deliveries : task'[k][l] = "ok" <=> task[k][l] = "ok"
    BY <2>1
  <2>3. UNCHANGED <<Done, DeadLettered, Copies>>
    BY <1>14, <2>2, RecordsStay DEF Lease
  <2>4. Taken' = Taken \cup {m}
    BY <2>1 DEF Taken
  <2>5. Moves(m, "visible", "leased")
    BY <2>1 DEF Moves, MessageSeen
  <2> QED BY <2>3, <2>4, <2>5, LeasesJob
<1>15. ASSUME NEW m \in Messages, NEW n \in Deliveries, Refuse(m, n)
       PROVE  UNCHANGED Monitored!vars
  <2>1. \A k \in Messages, l \in Deliveries : task'[k][l] = "ok" <=> task[k][l] = "ok"
    BY <1>15, Types DEF Refuse, DeliveryInv
  <2>2. UNCHANGED <<Done, DeadLettered, Copies>>
    BY <1>15, <2>1, RecordsStay DEF Refuse
  <2>3. Taken' = Taken /\ \A k \in Messages : MessageSeen(k)' = MessageSeen(k)
    BY <1>15 DEF Refuse, Taken, MessageSeen
  <2> QED BY <2>2, <2>3, StuttersMonitor
<1>8. ASSUME PurgeDlq
      PROVE  Monitored!Next
  <2>1. /\ dlq # {} /\ dlq' = {} /\ UNCHANGED <<work, task>>
        /\ purged' = purged \cup {d[1] : d \in dlq}
    BY <1>8 DEF PurgeDlq
  <2>2. DeadLettered' = DeadLettered /\ Copies' = {} /\ Copies # {}
    BY <2>1 DEF DeadLettered, Copies
  <2>3. Taken' = Taken /\ \A m \in Messages : MessageSeen(m)' = MessageSeen(m)
    BY <2>1 DEF Taken, MessageSeen
  <2>4. Done' = Done
    BY <2>1, <2>2, OutcomeStays DEF Done
  <2> QED BY <2>2, <2>3, <2>4, PurgesCopies
<1>9. ASSUME Crash
      PROVE  UNCHANGED Monitored!vars
  <2>1. \A m \in Messages, n \in Deliveries : task'[m][n] = "ok" <=> task[m][n] = "ok"
    BY <1>9 DEF Crash
  <2>2. UNCHANGED <<Done, DeadLettered, Copies>>
    BY <1>9, <2>1, RecordsStay DEF Crash
  <2>3. Taken' = Taken /\ \A m \in Messages : MessageSeen(m)' = MessageSeen(m)
    BY <1>9 DEF Crash, Taken, MessageSeen
  <2> QED BY <2>2, <2>3, StuttersMonitor
<1>10. ASSUME NEW b \in Batches, NEW a \in Attempts, Enqueue(b, a)
       PROVE  [Monitored!Next]_Monitored!vars
  <2>1. PICK s : s = Event(b, a)
    OBVIOUS
  <2>2. UNCHANGED <<task, dlq, purged>> /\ (Send(s, "event") \/ UNCHANGED work)
    BY <1>10, <2>1, EnqueueSends
  <2> QED BY <1>1, <1>2, <2>2 DEF jobVars
<1>11. ASSUME NEW b \in Batches, Post(b) \/ PostTimesOut(b) \/ \E a \in Attempts : Handle(b, a)
       PROVE  [Monitored!Next]_Monitored!vars
  BY <1>1, <1>10, <1>11, GridLeavesJobs DEF Handle
<1>12. ASSUME NEW s \in Subs, EnqueueJob(s)
       PROVE  Monitored!Next
  BY <1>2, <1>12 DEF EnqueueJob
<1>13. ASSUME UNCHANGED vars
       PROVE  UNCHANGED Monitored!vars
  BY <1>1, <1>13 DEF vars, jobVars
<1> QED BY <1>4, <1>5, <1>6, <1>7, <1>8, <1>9, <1>11, <1>12, <1>13, <1>14, <1>15 DEF Next

\* The queue, the trigger and the worker implement the queues of JobMonitor, for any limits
\* and bounds: a message is hidden only while it is leased, and goes only after a run
\* without errors or its copy, so what is proved of lookups holds of these queues
\* (process_job, move_to_dlq and the trigger).
THEOREM MovesAsMonitoredHolds == Spec => MovesAsMonitored
<1>1. DeliveryInv /\ [Next]_vars => [Monitored!Next]_Monitored!vars
  BY NextMonitor
<1> QED BY InitMonitor, DeliveryInvHolds, <1>1, PTL DEF Spec, MovesAsMonitored, Monitored!Spec
===============================================================================
