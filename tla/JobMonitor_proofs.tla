-------------------------- MODULE JobMonitor_proofs --------------------------
(***************************************************************************)
(* Proofs about looking at jobs while they move.  A lookup peeks at two    *)
(* queues at two moments, so the inductive invariant says what its first   *)
(* peek has established that is still true when it comes to the second     *)
(* one; of the watch it says that the count of each job and the set `seen` *)
(* agree.                                                                  *)
(***************************************************************************)
EXTENDS JobMonitor, TLAPS

\* What explains by itself that a peek did not show the job.
Accounted == {"failed", "crowded", "leased", "absent", "purged"}

\* A lookup that nothing else explains has found its job's message gone, for good.
Explained(x) == x.excuses \cap Accounted # {} \/ work[x.job] = "gone"

LookupInv(x) ==
  /\ x.pc # "idle" => x.job \in Jobs
  /\ x.pc = "idle" => x.idx = 1 /\ x.excuses = {}
  /\ x.pc = "peeking" => x.idx \in 1 .. 2
  /\ x.pc = "peeking" /\ x.idx = 2 => Explained(x)
  /\ x.pc = "not found" =>
       /\ Explained(x)
       /\ \/ x.excuses \cap Accounted # {}
          \/ x.job \in done

\* A message is only deleted for a job that is done or has been parked.
DeletedMeansSettled == \A j \in Jobs : work[j] = "gone" => j \in done \cup parked

\* The watch has printed what it has seen, once.
SeenMeansPrinted == \A j \in Jobs : printed[j] = IF j \in seen THEN 1 ELSE 0

\* The inductive invariant.
MonitorInv ==
  /\ TypeOK
  /\ DeletedMeansSettled
  /\ SeenMeansPrinted
  /\ \A l \in Lookups : LookupInv(lookup[l])

-------------------------------------------------------------------------------

\* The two queues of a lookup.
LEMMA TwoQueues ==
  /\ Len(PeekOrder) = 2
  /\ PeekOrder[1] = "work"
  /\ PeekOrder[2] = "dlq"
BY DEF PeekOrder

\* A peek shows messages of its queue only.
LEMMA PeekShowsQueue ==
  ASSUME NEW q, NEW shown \in Peeks(q)
  PROVE  shown \subseteq InQueue(q)
<1>1. CASE Cardinality(InQueue(q)) <= PeekLimit
  BY <1>1 DEF Peeks
<1>2. CASE ~ Cardinality(InQueue(q)) <= PeekLimit
  <2>1. shown \in kSubset(PeekLimit, InQueue(q))
    BY <1>2 DEF Peeks
  <2> QED BY <2>1 DEF kSubset
<1> QED BY <1>1, <1>2

-------------------------------------------------------------------------------
(***************************************************************************)
(* Initial states and actions.                                             *)
(***************************************************************************)

LEMMA InitMonitor == Init => MonitorInv
<1> SUFFICES ASSUME Init PROVE MonitorInv
  OBVIOUS
<1>1. TypeOK
  BY TwoQueues DEF Init, TypeOK, LookupState
<1>2. DeletedMeansSettled /\ SeenMeansPrinted
  BY DEF Init, DeletedMeansSettled, SeenMeansPrinted
<1>3. \A l \in Lookups : LookupInv(lookup[l])
  BY DEF Init, LookupInv
<1> QED BY <1>1, <1>2, <1>3 DEF MonitorInv

\* What moves messages preserves the invariant: it deletes none but those of
\* settled jobs, and a job stays settled.
LEMMA QueueMonitor ==
  ASSUME MonitorInv, NEW j \in Jobs, Queue(j)
  PROVE  MonitorInv'
<1> USE DEF MonitorInv
<1>1. UNCHANGED <<lookup, watchVars>>
  BY DEF Queue, Enqueue, Lease, Release, RunSucceeds, Park, Delete
<1>2. /\ work' \in [Jobs -> {"absent", "visible", "leased", "gone"}]
      /\ done' \subseteq taken' /\ taken' \subseteq Jobs
      /\ parked' \subseteq Jobs /\ dlq' \subseteq parked'
  BY DEF Queue, Enqueue, Lease, Release, RunSucceeds, Park, MoveToDlq, Delete, TypeOK
<1>3. /\ \A k \in Jobs : work[k] = "gone" => work'[k] = "gone"
      /\ done \subseteq done' /\ parked \subseteq parked'
  BY DEF Queue, Enqueue, Lease, Release, RunSucceeds, Park, MoveToDlq, Delete, TypeOK
<1>4. \A k \in Jobs : work'[k] = "gone" => work[k] = "gone" \/ k \in done' \cup parked'
  BY DEF Queue, Enqueue, Lease, Release, RunSucceeds, Park, MoveToDlq, Delete, TypeOK
<1>5. TypeOK'
  BY <1>1, <1>2 DEF TypeOK, watchVars
<1>6. DeletedMeansSettled' /\ SeenMeansPrinted'
  BY <1>1, <1>3, <1>4 DEF DeletedMeansSettled, SeenMeansPrinted, watchVars
<1>7. ASSUME NEW l \in Lookups
      PROVE  LookupInv(lookup[l])'
  <2>1. LookupInv(lookup[l])
    OBVIOUS
  <2>2. lookup[l].pc # "idle" => lookup[l].job \in Jobs
    BY <2>1 DEF LookupInv
  <2>3. LookupInv(lookup[l])'
    BY <1>1, <1>3, <2>1, <2>2 DEF LookupInv, Explained
  <2> QED BY <2>3
<1> QED BY <1>5, <1>6, <1>7

\* A purge takes parked jobs out of the dead-letter queue, and nothing else.
LEMMA PurgeMonitor ==
  ASSUME MonitorInv, Purge
  PROVE  MonitorInv'
<1> USE DEF MonitorInv
<1>1. TypeOK'
  BY DEF Purge, TypeOK, watchVars
<1>2. DeletedMeansSettled' /\ SeenMeansPrinted'
  BY DEF Purge, DeletedMeansSettled, SeenMeansPrinted, watchVars
<1>3. \A l \in Lookups : LookupInv(lookup[l])'
  BY DEF Purge, LookupInv, Explained
<1> QED BY <1>1, <1>2, <1>3

LEMMA StartLookupMonitor ==
  ASSUME MonitorInv, NEW l \in Lookups, NEW j \in Jobs, StartLookup(l, j)
  PROVE  MonitorInv'
<1> USE DEF MonitorInv
<1>1. lookup[l] \in LookupState /\ lookup[l].pc = "idle" /\ lookup[l].idx = 1
  BY DEF StartLookup, TypeOK, LookupInv
<1> DEFINE x == [lookup[l] EXCEPT !.pc = "peeking", !.job = j]
<1>2. x \in LookupState /\ x.pc = "peeking" /\ x.job = j /\ x.idx = 1
  BY <1>1 DEF LookupState
<1>3. lookup' = [lookup EXCEPT ![l] = x]
  BY DEF StartLookup
<1> HIDE DEF x
<1>4. lookup' \in [Lookups -> LookupState] /\ lookup'[l] = x
      /\ \A k \in Lookups \ {l} : lookup'[k] = lookup[k]
  BY <1>2, <1>3 DEF TypeOK
<1>5. TypeOK'
  <2>1. UNCHANGED <<queueVars, watchVars>>
    BY DEF StartLookup
  <2>2. \A k \in Lookups : lookup'[k].pc = "peeking" => lookup'[k].idx <= Len(PeekOrder)
    BY <1>2, <1>4, TwoQueues DEF TypeOK
  <2> QED BY <1>4, <2>1, <2>2 DEF queueVars, watchVars, TypeOK
<1>6. DeletedMeansSettled' /\ SeenMeansPrinted'
  BY DEF StartLookup, queueVars, watchVars, DeletedMeansSettled, SeenMeansPrinted
<1>7. LookupInv(lookup[l])'
  <2>1. lookup'[l].pc = "peeking" /\ lookup'[l].job = j
        /\ lookup'[l].idx \in 1 .. 2 /\ lookup'[l].idx # 2
    BY <1>2, <1>4
  <2> QED BY <2>1, Zenon DEF LookupInv
<1>8. \A k \in Lookups \ {l} : LookupInv(lookup[k])'
  BY <1>4 DEF StartLookup, queueVars, LookupInv, Explained
<1> QED BY <1>5, <1>6, <1>7, <1>8

\* A lookup that goes on records why; that keeps its type.
LEMMA MissedType ==
  ASSUME NEW x \in LookupState, x.pc = "peeking", x.idx \in 1 .. 2,
         NEW e \in Accounted \cup {"elsewhere"}
  PROVE  /\ Missed(x, e) \in LookupState
         /\ Missed(x, e).job = x.job
         /\ Missed(x, e).idx = x.idx + 1
         /\ Missed(x, e).excuses = x.excuses \cup {e}
         /\ Missed(x, e).pc = IF x.idx = 2 THEN "not found" ELSE "peeking"
<1>1. Missed(x, e) = [x EXCEPT !.idx = @ + 1, !.excuses = @ \cup {e},
                                !.pc = IF x.idx = 2 THEN "not found" ELSE x.pc]
  BY TwoQueues DEF Missed
<1>2. x.excuses \cup {e} \in SUBSET {"crowded", "leased", "absent", "purged", "elsewhere", "failed"}
  BY DEF LookupState, Accounted
<1>3. x.idx + 1 \in 1 .. 3
  OBVIOUS
<1> QED BY <1>1, <1>2, <1>3 DEF LookupState

\* An excuse that does not account for the job tells where the job is: its
\* message is gone, or it has not been parked.
LEMMA ExcuseTells ==
  ASSUME TypeOK, NEW q \in {"work", "dlq"}, NEW j \in Jobs
  PROVE  /\ Excuse(q, j) \in Accounted \cup {"elsewhere"}
         /\ Excuse(q, j) \notin Accounted =>
              IF q = "work" THEN work[j] = "gone" ELSE j \notin parked
BY DEF Excuse, InQueue, Visible, Accounted, TypeOK

\* One peek, from either queue, leads to a lookup that satisfies the invariant.
LEMMA PeekedLookup ==
  ASSUME TypeOK, DeletedMeansSettled, NEW x \in LookupState, x.pc = "peeking", LookupInv(x),
         NEW e \in Accounted \cup {"elsewhere"},
         e \notin Accounted => e = Excuse(PeekOrder[x.idx], x.job)
  PROVE  LookupInv(Missed(x, e))
<1> DEFINE y == Missed(x, e)
<1>1. x.idx \in 1 .. 2 /\ x.job \in Jobs
  BY DEF LookupInv
<1>2. /\ y.job = x.job /\ y.idx = x.idx + 1 /\ y.excuses = x.excuses \cup {e}
      /\ y.pc = IF x.idx = 2 THEN "not found" ELSE "peeking"
  BY <1>1, MissedType
<1> HIDE DEF y
<1>3. CASE x.idx = 1
  <2>1. PeekOrder[x.idx] = "work"
    BY <1>3, TwoQueues
  <2>2. e \notin Accounted => work[x.job] = "gone"
    BY <1>1, <2>1, ExcuseTells
  <2>3. LookupInv(y)
    BY <1>1, <1>2, <1>3, <2>2 DEF LookupInv, Explained
  <2> QED BY <2>3 DEF y
<1>4. CASE x.idx = 2
  <2>1. PeekOrder[x.idx] = "dlq"
    BY <1>4, TwoQueues
  <2>2. e \notin Accounted => x.job \notin parked
    BY <1>1, <2>1, ExcuseTells
  <2>3. Explained(x)
    BY <1>4 DEF LookupInv
  <2>4. x.excuses \cap Accounted = {} => x.job \in done \cup parked
    BY <1>1, <2>3 DEF Explained, DeletedMeansSettled
  <2>5. Explained(y)
    BY <1>2, <2>3 DEF Explained
  <2>6. \/ y.excuses \cap Accounted # {}
        \/ y.job \in done
    BY <1>2, <2>2, <2>4
  <2>7. LookupInv(y)
    BY <1>1, <1>2, <1>4, <2>5, <2>6 DEF LookupInv
  <2> QED BY <2>7 DEF y
<1> QED BY <1>1, <1>3, <1>4

LEMMA PeekMonitor ==
  ASSUME MonitorInv, NEW l \in Lookups, Peek(l)
  PROVE  MonitorInv'
<1> USE DEF MonitorInv
<1> DEFINE x == lookup[l]
           q == PeekOrder[x.idx]
<1>1. x \in LookupState /\ x.pc = "peeking" /\ LookupInv(x) /\ UNCHANGED <<queueVars, watchVars>>
  BY DEF Peek, TypeOK
<1>2. x.idx \in 1 .. 2 /\ x.job \in Jobs
  BY <1>1 DEF LookupInv
<1>3. q \in {"work", "dlq"}
  BY <1>2, TwoQueues
<1>4. PICK y : /\ lookup' = [lookup EXCEPT ![l] = y]
               /\ \/ y = [x EXCEPT !.pc = q]
                  \/ y = Missed(x, Excuse(q, x.job))
                  \/ y = Missed(x, "failed")
  <2>1. CASE \E shown \in Peeks(q) :
               lookup' = [lookup EXCEPT ![l] =
                            IF x.job \in shown THEN [x EXCEPT !.pc = q]
                                               ELSE Missed(x, Excuse(q, x.job))]
    BY <2>1
  <2>2. CASE lookup' = [lookup EXCEPT ![l] = Missed(x, "failed")]
    BY <2>2
  <2> QED BY <2>1, <2>2 DEF Peek
<1>5. y \in LookupState /\ LookupInv(y) /\ (y.pc = "peeking" => y.idx <= 2)
  <2>1. CASE y = [x EXCEPT !.pc = q]
    <3>1. y \in LookupState /\ y.pc = q /\ y.job = x.job
      BY <1>1, <1>3, <2>1 DEF LookupState
    <3> QED BY <1>2, <1>3, <3>1 DEF LookupInv
  <2>2. ASSUME NEW e \in Accounted \cup {"elsewhere"}, y = Missed(x, e),
               e \notin Accounted => e = Excuse(q, x.job)
        PROVE  y \in LookupState /\ LookupInv(y) /\ (y.pc = "peeking" => y.idx <= 2)
    <3>1. y \in LookupState /\ y.idx = x.idx + 1
          /\ y.pc = IF x.idx = 2 THEN "not found" ELSE "peeking"
      BY <1>1, <1>2, <2>2, MissedType
    <3>2. LookupInv(y)
      BY <1>1, <2>2, PeekedLookup
    <3>3. y.pc = "peeking" => y.idx <= 2
      <4>1. CASE x.idx = 2
        BY <3>1, <4>1
      <4>2. CASE x.idx = 1
        BY <3>1, <4>2
      <4> QED BY <1>2, <4>1, <4>2
    <3> QED BY <3>1, <3>2, <3>3
  <2>3. Excuse(q, x.job) \in Accounted \cup {"elsewhere"}
    BY <1>2, <1>3, ExcuseTells
  <2>4. "failed" \in Accounted
    BY DEF Accounted
  <2>5. CASE y = Missed(x, Excuse(q, x.job))
    BY <2>2, <2>3, <2>5
  <2>6. CASE y = Missed(x, "failed")
    BY <2>2, <2>4, <2>6
  <2> QED BY <1>4, <2>1, <2>5, <2>6
<1> HIDE DEF x, q
<1>6. lookup' \in [Lookups -> LookupState] /\ lookup'[l] = y
      /\ \A k \in Lookups \ {l} : lookup'[k] = lookup[k]
  BY <1>4, <1>5 DEF TypeOK
<1>7. TypeOK'
  BY <1>1, <1>5, <1>6, TwoQueues DEF queueVars, watchVars, TypeOK
<1>8. DeletedMeansSettled' /\ SeenMeansPrinted'
  BY <1>1 DEF queueVars, watchVars, DeletedMeansSettled, SeenMeansPrinted
<1>9. LookupInv(lookup[l])'
  BY <1>1, <1>5, <1>6 DEF queueVars, LookupInv, Explained
<1>10. \A k \in Lookups \ {l} : LookupInv(lookup[k])'
  BY <1>1, <1>6, ZenonT(30) DEF queueVars, LookupInv, Explained
<1> QED BY <1>7, <1>8, <1>9, <1>10

\* The watch prints what a poll shows and it has not seen, and has then seen it.
LEMMA PollMonitor ==
  ASSUME MonitorInv, Poll
  PROVE  MonitorInv'
<1> USE DEF MonitorInv
<1>1. PICK shown \in Peeks("work") :
        /\ printed' = [j \in Jobs |-> IF j \in shown \ seen THEN printed[j] + 1 ELSE printed[j]]
        /\ seen' = seen \cup shown
  BY DEF Poll
<1>2. shown \subseteq Jobs
  <2>1. shown \subseteq InQueue("work")
    BY PeekShowsQueue
  <2> QED BY <2>1 DEF InQueue, Visible
<1>3. TypeOK'
  <2>1. printed' \in [Jobs -> Nat] /\ seen' \subseteq Jobs
    BY <1>1, <1>2 DEF TypeOK
  <2> QED BY <2>1 DEF Poll, queueVars, TypeOK
<1>4. SeenMeansPrinted'
  BY <1>1 DEF SeenMeansPrinted
<1>5. DeletedMeansSettled' /\ \A l \in Lookups : LookupInv(lookup[l])'
  BY DEF Poll, queueVars, DeletedMeansSettled, LookupInv, Explained
<1> QED BY <1>3, <1>4, <1>5

\* A failing poll, an unreadable answer or the user's interrupt leaves what the watch has seen.
LEMMA WatchGoesOnMonitor ==
  ASSUME MonitorInv, PollFails \/ AnswerUnreadable \/ Interrupt
  PROVE  MonitorInv'
<1> USE DEF MonitorInv
<1>1. TypeOK'
  BY DEF PollFails, GoesOnAfterError, AnswerUnreadable, Interrupt, queueVars, TypeOK
<1>2. DeletedMeansSettled' /\ SeenMeansPrinted'
  BY DEF PollFails, GoesOnAfterError, AnswerUnreadable, Interrupt, queueVars, DeletedMeansSettled, SeenMeansPrinted
<1>3. \A l \in Lookups : LookupInv(lookup[l])'
  BY DEF PollFails, GoesOnAfterError, AnswerUnreadable, Interrupt, queueVars, LookupInv, Explained
<1> QED BY <1>1, <1>2, <1>3

LEMMA NextMonitor == MonitorInv /\ [Next]_vars => MonitorInv'
<1> SUFFICES ASSUME MonitorInv, [Next]_vars PROVE MonitorInv'
  OBVIOUS
<1>1. CASE UNCHANGED vars
  BY <1>1 DEF vars, MonitorInv, TypeOK, DeletedMeansSettled, SeenMeansPrinted, LookupInv, Explained
<1>2. ASSUME NEW j \in Jobs, Queue(j) \/ \E l \in Lookups : StartLookup(l, j)
      PROVE  MonitorInv'
  BY <1>2, QueueMonitor, StartLookupMonitor
<1>3. CASE Purge
  BY <1>3, PurgeMonitor
<1>4. ASSUME NEW l \in Lookups, Peek(l)
      PROVE  MonitorInv'
  BY <1>4, PeekMonitor
<1>5. CASE Poll
  BY <1>5, PollMonitor
<1>6. CASE PollFails \/ AnswerUnreadable \/ Interrupt
  BY <1>6, WatchGoesOnMonitor
<1> QED BY <1>1, <1>2, <1>3, <1>4, <1>5, <1>6 DEF Next

-------------------------------------------------------------------------------

\* MonitorInv holds in every reachable state, for any jobs, lookups and limit of
\* a peek (find_job and jobs_watch next to everything that moves messages).
THEOREM MonitorInvHolds == Spec => []MonitorInv
<1>1. Init => MonitorInv
  BY InitMonitor
<1>2. MonitorInv /\ [Next]_vars => MonitorInv'
  BY NextMonitor
<1> QED BY <1>1, <1>2, PTL DEF Spec

\* The variables of JobMonitor keep their types.
THEOREM MonitorTypeHolds == Spec => []TypeOK
<1>1. MonitorInv => TypeOK
  BY DEF MonitorInv
<1> QED BY <1>1, MonitorInvHolds, PTL

\* A job never falls between the two peeks of a lookup (find_job).
THEOREM NotFoundHolds == Spec => []NotFoundIsExplained
<1>1. MonitorInv => NotFoundIsExplained
  BY DEF MonitorInv, LookupInv, NotFoundIsExplained, Accounted
<1> QED BY <1>1, MonitorInvHolds, PTL

\* The watch prints a job once (jobs_watch).
THEOREM WatchPrintsOnceHolds == Spec => []WatchPrintsOnce
<1>1. MonitorInv => WatchPrintsOnce
  BY DEF MonitorInv, SeenMeansPrinted, WatchPrintsOnce
<1> QED BY <1>1, MonitorInvHolds, PTL
===============================================================================
