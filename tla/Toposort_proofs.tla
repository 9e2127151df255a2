--------------------------- MODULE Toposort_proofs ---------------------------
(***************************************************************************)
(* Proofs about toposort, for any registrations: the order it returns is   *)
(* topological and complete, and it gives up exactly when there is none.   *)
(***************************************************************************)
EXTENDS Toposort, FiniteSetTheorems, FunctionTheorems, SequenceTheorems, WellFoundedInduction, TLAPS

\* The calls that are active: each of a function of its own, called by the one below it as
\* its last dependency so far; the dependencies before that one have returned.
CallsInv(calls, active, returned) ==
  /\ \A i \in 1 .. Len(calls) :
       /\ calls[i].fn \in Registered
       /\ calls[i].next \in 1 .. Len(Deps(calls[i].fn)) + 1
       /\ \A k \in 1 .. Len(Deps(calls[i].fn)) :
            k < calls[i].next =>
              \/ Deps(calls[i].fn)[k] \in returned
              \/ i < Len(calls) /\ calls[i + 1].fn = Deps(calls[i].fn)[k]
  /\ \A i, j \in 1 .. Len(calls) : calls[i].fn = calls[j].fn => i = j
  /\ active = {calls[i].fn : i \in 1 .. Len(calls)}
  /\ active \cap returned = {}

StackInv == CallsInv(stack, visiting, visited)

\* What has been appended: the functions whose calls have returned, once each, in a
\* topological order.
OrderInv ==
  /\ visited = ToSet(order)
  /\ \A i, j \in 1 .. Len(order) : order[i] = order[j] => i = j
  /\ Respects(order)

\* No entry is passed over.
ProgressInv ==
  /\ \A i \in 1 .. pos - 1 : entries[i].fn \in visited \cup visiting
  /\ outcome = "ordered" => stack = <<>> /\ pos = Len(entries) + 1

\* In any topological order of the registered functions an active call is behind those that
\* it was called for; so a search that meets an active function has found a cycle.
Behind(fns) ==
  \A i, j \in 1 .. Len(stack) : i < j =>
    \A p, q \in DOMAIN fns : fns[p] = stack[i].fn /\ fns[q] = stack[j].fn => q < p

CycleInv ==
  /\ \A fns \in SetToSeqs(Registered) : Respects(fns) => Behind(fns)
  /\ outcome \in {"rejected", "raises"} => ~ Sortable

\* The inductive invariant.
SortInv == TypeOK /\ StackInv /\ OrderInv /\ ProgressInv /\ CycleInv

-------------------------------------------------------------------------------
(***************************************************************************)
(* What the entries are                                                    *)
(***************************************************************************)

\* A set of numbers up to n has a greatest element: the one whose interval up to n is least.
LEMMA HasGreatest ==
  ASSUME NEW n \in Nat, NEW S, S \subseteq 1 .. n, S # {}
  PROVE  \E m \in S : \A k \in S : k <= m
<1> DEFINE Above == {m .. n : m \in S}
           R == StrictSubsetOrdering(Nat)
<1>1. Above \subseteq FiniteSubsetsOf(Nat)
  <2> SUFFICES ASSUME NEW m \in S PROVE m .. n \in FiniteSubsetsOf(Nat)
    OBVIOUS
  <2>1. m \in Nat /\ m \in Int /\ n \in Int
    OBVIOUS
  <2>2. IsFiniteSet(m .. n)
    BY <2>1, FS_Interval
  <2> QED
    BY <2>1, <2>2 DEF FiniteSubsetsOf
<1>2. Above # {}
  OBVIOUS
<1>3. IsWellFoundedOn(R, FiniteSubsetsOf(Nat))
  BY FS_StrictSubsetOrderingWellFounded
<1>4. PICK I \in Above : \A J \in Above : ~ (<<J, I>> \in R)
  <2> HIDE DEF R, Above
  <2> QED
    BY <1>1, <1>2, <1>3, WFMin
<1>5. PICK m \in S : I = m .. n
  OBVIOUS
<1>6. ASSUME NEW k \in S, ~ (k <= m) PROVE FALSE
  <2>1. m \in 1 .. n /\ k \in 1 .. n /\ m < k
    BY <1>6
  <2>2. k .. n \subseteq m .. n /\ k .. n # m .. n
    BY <2>1
  <2>3. <<k .. n, m .. n>> \in R
    BY <2>1, <2>2 DEF StrictSubsetOrdering
  <2> QED
    BY <2>3, <1>4, <1>5
<1> QED
  BY <1>6

LEMMA LastEntryFound ==
  ASSUME entries \in Seq(Entries), NEW fn \in Registered
  PROVE  /\ LastEntry(fn) \in DOMAIN entries
         /\ entries[LastEntry(fn)].fn = fn
         /\ Deps(fn) \in Seq(Fns)
<1> DEFINE S == {i \in DOMAIN entries : entries[i].fn = fn}
<1>1. Len(entries) \in Nat /\ DOMAIN entries = 1 .. Len(entries)
  OBVIOUS
<1>2. S \subseteq 1 .. Len(entries) /\ S # {}
  BY <1>1 DEF Registered
<1>3. PICK m \in S : \A k \in S : k <= m
  <2> HIDE DEF S
  <2> QED
    BY <1>1, <1>2, HasGreatest
<1>4. LastEntry(fn) \in DOMAIN entries /\ entries[LastEntry(fn)].fn = fn
  BY <1>3 DEF LastEntry
<1>5. entries[LastEntry(fn)] \in Entries
  BY <1>1, <1>4
<1> QED
  BY <1>4, <1>5 DEF Deps, Entries

\* There are as many functions as entries exactly when none is registered twice.
LEMMA RegisteredFinite ==
  ASSUME entries \in Seq(Entries)
  PROVE  /\ IsFiniteSet(Registered)
         /\ Cardinality(Registered) \in Nat
         /\ Cardinality(Registered) = Len(entries) =>
              \A i, j \in DOMAIN entries : entries[i].fn = entries[j].fn => i = j
<1> DEFINE D == 1 .. Len(entries)
           f == [i \in D |-> entries[i].fn]
<1>1. Len(entries) \in Nat /\ DOMAIN entries = D
  OBVIOUS
<1>2. IsFiniteSet(D) /\ Cardinality(D) = Len(entries)
  <2>1. \A n \in Nat : IsFiniteSet(1 .. n) /\ Cardinality(1 .. n) = n
    BY FS_Interval
  <2> QED
    BY <1>1, <2>1
<1>3. f \in Surjection(D, Registered)
  <2>1. f \in [D -> Registered]
    BY <1>1 DEF Registered
  <2>2. \A t \in Registered : \E i \in D : f[i] = t
    BY <1>1 DEF Registered
  <2> QED
    BY <2>1, <2>2, Fun_IsSurj
<1>4. /\ IsFiniteSet(Registered)
      /\ Cardinality(Registered) = Cardinality(D) <=> f \in Injection(D, Registered)
  <2> HIDE DEF f, D
  <2> QED
    BY <1>2, <1>3, FS_Surjection
<1>5. f \in Injection(D, Registered) => \A i, j \in D : f[i] = f[j] => i = j
  BY DEF Injection, IsInjective
<1> QED
  BY <1>1, <1>2, <1>4, <1>5, FS_CardinalityType

\* An order in SetToSeqs(Registered) has every function in it, at one place.
LEMMA SequenceOfAll ==
  ASSUME entries \in Seq(Entries), NEW fns \in SetToSeqs(Registered)
  PROVE  /\ DOMAIN fns \subseteq Nat
         /\ \A p \in DOMAIN fns : fns[p] \in Registered
         /\ \A fn \in Registered : \E p \in DOMAIN fns : fns[p] = fn
         /\ \A p, q \in DOMAIN fns : fns[p] = fns[q] => p = q
<1> DEFINE D == 1 .. Cardinality(Registered)
<1>1. IsFiniteSet(Registered) /\ Cardinality(Registered) \in Nat
  BY RegisteredFinite
<1>2. fns \in [D -> Registered] /\ \A p, q \in D : p # q => fns[p] # fns[q]
  BY DEF SetToSeqs
<1>3. fns \in Injection(D, Registered)
  BY <1>2, Fun_IsInj
<1>4. Cardinality(D) = Cardinality(Registered)
  BY <1>1, FS_Interval
<1>5. fns \in Surjection(D, Registered)
  <2> HIDE DEF D
  <2> QED
    BY <1>1, <1>3, <1>4, FS_Injection
<1>6. \A fn \in Registered : \E p \in D : fns[p] = fn
  BY <1>5 DEF Surjection
<1> QED
  BY <1>1, <1>2, <1>6

\* Nothing that is defined by the entries changes, because they do not.
LEMMA EntriesFixed ==
  ASSUME entries' = entries
  PROVE  /\ Registered' = Registered
         /\ \A fn : Deps(fn)' = Deps(fn)
<1>1. Registered' = Registered
  BY DEF Registered
<1>2. \A fn : Deps(fn)' = Deps(fn)
  BY DEF Deps, LastEntry
<1> QED
  BY <1>1, <1>2

LEMMA CallsFixed ==
  ASSUME entries' = entries, CallsInv(stack', visiting', visited')
  PROVE  StackInv'
<1>1. \A fn : Deps(fn)' = Deps(fn)
  BY EntriesFixed
<1>2. Registered' = Registered
  BY EntriesFixed
<1>3. \A calls, active, returned : CallsInv(calls, active, returned) => CallsInv(calls, active, returned)'
  BY <1>1, <1>2 DEF CallsInv
<1> QED
  BY <1>3 DEF StackInv

LEMMA RespectsFixed ==
  ASSUME entries' = entries, NEW fns
  PROVE  Respects(fns)' <=> Respects(fns)
<1>1. \A fn : Deps(fn)' = Deps(fn)
  BY EntriesFixed
<1> QED
  BY <1>1 DEF Respects

-------------------------------------------------------------------------------
(***************************************************************************)
(* The stack                                                               *)
(***************************************************************************)

\* The frames with the top one moved on to its next dependency.
MovedOn == Append(Front(stack), [Last(stack) EXCEPT !.next = @ + 1])

LEMMA StackShape ==
  ASSUME TypeOK, StackInv
  PROVE  /\ Len(stack) \in Nat
         /\ DOMAIN stack = 1 .. Len(stack)
         /\ \A i \in 1 .. Len(stack) : stack[i] \in Frames
         /\ \A i \in 1 .. Len(stack) : /\ stack[i].fn \in visiting
                                      /\ stack[i].fn \in Registered
                                      /\ Deps(stack[i].fn) \in Seq(Fns)
<1>1. stack \in Seq(Frames) /\ entries \in Seq(Entries)
  BY DEF TypeOK
<1>2. \A i \in 1 .. Len(stack) : stack[i].fn \in visiting /\ stack[i].fn \in Registered
  BY DEF StackInv, CallsInv
<1>3. \A fn \in Registered : Deps(fn) \in Seq(Fns)
  BY <1>1, LastEntryFound
<1> QED
  BY <1>1, <1>2, <1>3

LEMMA TopFrame ==
  ASSUME TypeOK, StackInv, stack # <<>>
  PROVE  /\ Len(stack) \in Nat \ {0}
         /\ Last(stack) = stack[Len(stack)]
         /\ Last(stack) \in Frames
         /\ Front(stack) \in Seq(Frames)
         /\ Len(Front(stack)) = Len(stack) - 1
         /\ \A i \in 1 .. Len(stack) - 1 : Front(stack)[i] = stack[i]
<1>1. stack \in Seq(Frames)
  BY DEF TypeOK
<1>2. Len(stack) \in Nat \ {0}
  BY <1>1, EmptySeq
<1>3. Last(stack) = stack[Len(stack)] /\ Last(stack) \in Frames
  BY <1>1, <1>2 DEF Last
<1>4. \A i \in 1 .. Len(stack) - 1 : stack[i] \in Frames
  BY <1>1, <1>2
<1>5. Len(stack) - 1 \in Int /\ 1 \in Int
  BY <1>2
<1> DEFINE last == Len(stack) - 1
<1>6. /\ SubSeq(stack, 1, last) \in Seq(Frames)
      /\ Len(SubSeq(stack, 1, last)) = IF 1 <= last THEN last - 1 + 1 ELSE 0
      /\ \A i \in 1 .. last - 1 + 1 : SubSeq(stack, 1, last)[i] = stack[1 + i - 1]
  <2> HIDE DEF last
  <2> QED
    BY <1>4, <1>5, SubSeqProperties DEF last
<1>7. Front(stack) = SubSeq(stack, 1, last)
  BY DEF Front
<1>8. /\ last - 1 + 1 = last
      /\ (IF 1 <= last THEN last - 1 + 1 ELSE 0) = last
      /\ \A i \in 1 .. last : stack[1 + i - 1] = stack[i]
  <2>1. last \in Nat
    BY <1>2
  <2> HIDE DEF last
  <2>2. \A i \in 1 .. last : 1 + i - 1 = i
    BY <2>1
  <2> QED
    BY <2>1, <2>2
<1>9. /\ Front(stack) \in Seq(Frames)
      /\ Len(Front(stack)) = last
      /\ \A i \in 1 .. last : Front(stack)[i] = stack[i]
  <2> HIDE DEF last
  <2> QED
    BY <1>6, <1>7, <1>8
<1> QED
  BY <1>2, <1>3, <1>9

LEMMA MovedOnShape ==
  ASSUME TypeOK, StackInv, stack # <<>>
  PROVE  /\ MovedOn \in Seq(Frames)
         /\ Len(MovedOn) = Len(stack)
         /\ \A i \in 1 .. Len(stack) - 1 : MovedOn[i] = stack[i]
         /\ \A i \in 1 .. Len(stack) : MovedOn[i].fn = stack[i].fn
         /\ MovedOn[Len(stack)].next = stack[Len(stack)].next + 1
<1> DEFINE top == [Last(stack) EXCEPT !.next = @ + 1]
<1>1. /\ Len(stack) \in Nat \ {0}
      /\ Last(stack) = stack[Len(stack)]
      /\ Last(stack) \in Frames
      /\ Front(stack) \in Seq(Frames)
      /\ Len(Front(stack)) = Len(stack) - 1
      /\ \A i \in 1 .. Len(stack) - 1 : Front(stack)[i] = stack[i]
  BY TopFrame
<1>2. top \in Frames /\ top.fn = Last(stack).fn /\ top.next = Last(stack).next + 1
  BY <1>1 DEF Frames
<1> HIDE DEF top
<1>3. /\ Append(Front(stack), top) \in Seq(Frames)
      /\ Len(Append(Front(stack), top)) = Len(stack)
      /\ \A i \in 1 .. Len(stack) - 1 : Append(Front(stack), top)[i] = stack[i]
      /\ Append(Front(stack), top)[Len(stack)] = top
  BY <1>1, <1>2
<1>4. MovedOn = Append(Front(stack), top)
  BY DEF MovedOn, top
<1> QED
  BY <1>1, <1>2, <1>3, <1>4

\* What the call of fn from the frames `calls` adds to them.
LEMMA PushShape ==
  ASSUME NEW calls \in Seq(Frames), NEW fn \in Fns
  PROVE  LET s == Append(calls, [fn |-> fn, next |-> 1])
         IN  /\ s \in Seq(Frames)
             /\ Len(s) = Len(calls) + 1
             /\ \A i \in 1 .. Len(calls) : s[i] = calls[i]
             /\ s[Len(calls) + 1].fn = fn
             /\ s[Len(calls) + 1].next = 1
<1> DEFINE top == [fn |-> fn, next |-> 1]
<1>1. top \in Frames /\ top.fn = fn /\ top.next = 1
  BY DEF Frames
<1> HIDE DEF top
<1>2. /\ Append(calls, top) \in Seq(Frames)
      /\ Len(Append(calls, top)) = Len(calls) + 1
      /\ \A i \in 1 .. Len(calls) : Append(calls, top)[i] = calls[i]
      /\ Append(calls, top)[Len(calls) + 1] = top
  BY <1>1
<1> QED
  BY <1>1, <1>2 DEF top

-------------------------------------------------------------------------------
(***************************************************************************)
(* The actions                                                             *)
(***************************************************************************)

\* The parts of the invariant that say nothing of the stack.
LEMMA OrderKept ==
  ASSUME OrderInv, UNCHANGED <<entries, visited, order>>
  PROVE  OrderInv'
<1>1. \A fns : Respects(fns)' <=> Respects(fns)
  BY RespectsFixed
<1> QED
  BY <1>1 DEF OrderInv

LEMMA FinishKeepsInv ==
  ASSUME SortInv, Finish
  PROVE  SortInv'
<1> USE DEF Finish
<1>1. /\ Registered' = Registered
      /\ \A fn : Deps(fn)' = Deps(fn)
  BY EntriesFixed
<1>2. \A fns : Respects(fns)' <=> Respects(fns)
  BY RespectsFixed
<1>3. TypeOK'
  BY <1>1 DEF SortInv, TypeOK
<1>4. StackInv'
  BY <1>1 DEF SortInv, StackInv, CallsInv
<1>5. OrderInv'
  BY OrderKept DEF SortInv
<1>6. ProgressInv'
  BY DEF SortInv, ProgressInv, TypeOK
<1>7. CycleInv'
  BY <1>1, <1>2 DEF SortInv, CycleInv, Behind
<1> QED
  BY <1>3, <1>4, <1>5, <1>6, <1>7 DEF SortInv

\* Before an entry is visited no call is active: it can only be passed over, or called.
LEMMA NextEntryCases ==
  ASSUME SortInv, NextEntry
  PROVE  /\ pos \in 1 .. Len(entries)
         /\ entries[pos].fn \in Registered
         /\ entries[pos].fn \in Fns
         /\ visiting = {}
         /\ Len(stack) = 0
         /\ outcome' = "none"
         /\ \/ /\ entries[pos].fn \in visited
               /\ stack' = <<>> /\ visiting' = visiting
            \/ /\ entries[pos].fn \notin visited
               /\ visiting' = {entries[pos].fn}
               /\ stack' \in Seq(Frames) /\ Len(stack') = 1
               /\ stack'[1].fn = entries[pos].fn /\ stack'[1].next = 1
<1>1. /\ stack = <<>> /\ Len(stack) = 0 /\ outcome = "none"
      /\ stack \in Seq(Frames)
  BY DEF NextEntry, SortInv, TypeOK
<1>2. visiting = {}
  BY <1>1 DEF SortInv, StackInv, CallsInv
<1>3. pos \in 1 .. Len(entries) /\ entries \in Seq(Entries)
  BY DEF NextEntry, SortInv, TypeOK
<1>4. entries[pos] \in Entries
  BY <1>3
<1>5. entries[pos].fn \in Registered /\ entries[pos].fn \in Fns
  BY <1>3, <1>4 DEF Registered, Entries
<1>6. Visit(entries[pos].fn, stack)
  BY DEF NextEntry
<1>7. CASE entries[pos].fn \in visited
  BY <1>1, <1>2, <1>3, <1>5, <1>6, <1>7 DEF Visit
<1>8. CASE entries[pos].fn \notin visited
  <2>1. /\ visiting' = {entries[pos].fn}
        /\ stack' = Append(stack, [fn |-> entries[pos].fn, next |-> 1])
        /\ outcome' = "none"
    BY <1>1, <1>2, <1>6, <1>8 DEF Visit
  <2>2. /\ stack' \in Seq(Frames) /\ Len(stack') = 1
        /\ stack'[1].fn = entries[pos].fn /\ stack'[1].next = 1
    <3> DEFINE f == entries[pos].fn
    <3>1. f \in Fns /\ stack' = Append(stack, [fn |-> f, next |-> 1])
      BY <1>5, <2>1
    <3> HIDE DEF f
    <3>2. /\ stack' \in Seq(Frames) /\ Len(stack') = Len(stack) + 1
          /\ stack'[Len(stack) + 1].fn = f /\ stack'[Len(stack) + 1].next = 1
      BY <1>1, <3>1, PushShape
    <3> QED
      BY <1>1, <3>2 DEF f
  <2> QED
    BY <1>1, <1>2, <1>3, <1>5, <1>8, <2>1, <2>2
<1> QED
  BY <1>7, <1>8

LEMMA NextEntryKeepsInv ==
  ASSUME SortInv, NextEntry
  PROVE  SortInv'
<1> DEFINE f == entries[pos].fn
<1>1. /\ pos \in 1 .. Len(entries) /\ f \in Registered /\ visiting = {} /\ Len(stack) = 0
      /\ outcome' = "none"
      /\ \/ f \in visited /\ stack' = <<>> /\ visiting' = visiting
         \/ /\ f \notin visited
            /\ visiting' = {f}
            /\ stack' \in Seq(Frames) /\ Len(stack') = 1
            /\ stack'[1].fn = f /\ stack'[1].next = 1
  BY NextEntryCases
<1>2. /\ entries' = entries /\ pos' = pos + 1 /\ visited' = visited /\ order' = order
  BY DEF NextEntry
<1>3. /\ Registered' = Registered
      /\ \A fn : Deps(fn)' = Deps(fn)
  BY <1>2, EntriesFixed
<1>4. \A fns : Respects(fns)' <=> Respects(fns)
  BY <1>2, RespectsFixed
<1>5. Len(entries) \in Nat /\ Deps(f) \in Seq(Fns)
  BY <1>1, LastEntryFound DEF SortInv, TypeOK
<1>6. f = entries[pos].fn
  OBVIOUS
<1> HIDE DEF f
<1>7. TypeOK'
  <2>1. stack' \in Seq(Frames)
    <3>1. <<>> \in Seq(Frames)
      OBVIOUS
    <3> QED
      BY <1>1, <3>1
  <2>2. visiting' \subseteq Registered
    BY <1>1
  <2>3. pos' \in 1 .. Len(entries) + 1
    BY <1>1, <1>2, <1>5
  <2> QED
    BY <1>1, <1>2, <1>3, <2>1, <2>2, <2>3 DEF SortInv, TypeOK
<1>8. StackInv'
  <2>1. CASE stack' = <<>> /\ visiting' = visiting
    BY <1>1, <1>2, <2>1 DEF StackInv, CallsInv
  <2>2. CASE /\ f \notin visited /\ visiting' = {f}
             /\ Len(stack') = 1 /\ stack'[1].fn = f /\ stack'[1].next = 1
    <3>1. \A i \in 1 .. Len(stack') : i = 1
      BY <2>2
    <3>2. \A i \in 1 .. Len(stack') :
            /\ stack'[i].fn \in Registered
            /\ stack'[i].next \in 1 .. Len(Deps(stack'[i].fn)) + 1
            /\ \A k \in 1 .. Len(Deps(stack'[i].fn)) : ~ (k < stack'[i].next)
      BY <1>1, <1>5, <2>2
    <3>3. visiting' = {stack'[i].fn : i \in 1 .. Len(stack')}
      BY <2>2
    <3>4. visiting' \cap visited' = {}
      BY <1>2, <2>2
    <3>5. CallsInv(stack', visiting', visited')
      BY <3>1, <3>2, <3>3, <3>4 DEF CallsInv
    <3> QED
      BY <1>2, <3>5, CallsFixed
  <2> QED
    BY <1>1, <2>1, <2>2
<1>9. OrderInv'
  BY <1>2, OrderKept DEF SortInv
<1>10. ProgressInv'
  <2> SUFFICES ASSUME NEW i \in 1 .. pos PROVE entries[i].fn \in visited \cup visiting'
    BY <1>1, <1>2 DEF ProgressInv
  <2>1. CASE i = pos
    BY <1>1, <1>6, <2>1
  <2>2. CASE i # pos
    BY <1>1, <2>2 DEF SortInv, ProgressInv
  <2> QED
    BY <2>1, <2>2
<1>11. CycleInv'
  <2>1. Len(stack') \in {0, 1}
    BY <1>1
  <2>2. ASSUME NEW i \in 1 .. Len(stack'), NEW j \in 1 .. Len(stack') PROVE ~ (i < j)
    <3> DEFINE n == Len(stack')
    <3>1. n \in {0, 1} /\ i \in 1 .. n /\ j \in 1 .. n
      BY <2>1
    <3> HIDE DEF n
    <3> QED
      BY <3>1
  <2> QED
    BY <1>1, <2>2 DEF CycleInv, Behind
<1> QED
  BY <1>7, <1>8, <1>9, <1>10, <1>11 DEF SortInv

\* The active function, its place in its dependencies, and the dependency there.
Top == stack[Len(stack)].fn
TopNext == stack[Len(stack)].next
Dep == Deps(Top)[TopNext]

LEMMA TopIsRegistered ==
  ASSUME TypeOK, StackInv, stack # <<>>
  PROVE  /\ Len(stack) \in Nat \ {0}
         /\ Len(stack) \in 1 .. Len(stack)
         /\ Last(stack) = stack[Len(stack)]
         /\ Top \in Registered /\ Top \in visiting
         /\ Deps(Top) \in Seq(Fns)
         /\ TopNext \in 1 .. Len(Deps(Top)) + 1
<1>1. Len(stack) \in Nat \ {0} /\ Last(stack) = stack[Len(stack)]
  BY TopFrame
<1>2. Len(stack) \in 1 .. Len(stack)
  BY <1>1
<1>3. TopNext \in 1 .. Len(Deps(Top)) + 1
  BY <1>2 DEF StackInv, CallsInv, Top, TopNext
<1> QED
  BY <1>1, <1>2, <1>3, StackShape DEF Top

\* The dependencies in front of the one the active function is at have returned.
LEMMA TopReturned ==
  ASSUME TypeOK, StackInv, stack # <<>>
  PROVE  \A k \in 1 .. Len(Deps(Top)) : k < TopNext => Deps(Top)[k] \in visited
<1>1. Len(stack) \in 1 .. Len(stack) /\ ~ (Len(stack) < Len(stack))
  BY TopIsRegistered
<1> DEFINE n == Len(stack)
<1>2. \A k \in 1 .. Len(Deps(stack[n].fn)) :
        k < stack[n].next =>
          \/ Deps(stack[n].fn)[k] \in visited
          \/ n < n /\ stack[n + 1].fn = Deps(stack[n].fn)[k]
  BY <1>1 DEF StackInv, CallsInv
<1> QED
  BY <1>1, <1>2 DEF Top, TopNext

LEMMA NextDependencyCases ==
  ASSUME SortInv, NextDependency
  PROVE  /\ TopNext \in 1 .. Len(Deps(Top))
         /\ Dep \in ToSet(Deps(Top)) /\ Dep \in Fns
         /\ \/ /\ Dep \notin Registered \/ Dep \in visiting
               /\ stack' = stack /\ visiting' = visiting
               /\ outcome' \in {"rejected", "raises"}
            \/ /\ Dep \in visited
               /\ stack' = MovedOn /\ visiting' = visiting
               /\ outcome' = "none"
            \/ /\ Dep \in Registered /\ Dep \notin visited /\ Dep \notin visiting
               /\ stack' \in Seq(Frames) /\ Len(stack') = Len(stack) + 1
               /\ \A i \in 1 .. Len(stack) : stack'[i] = MovedOn[i]
               /\ stack'[Len(stack) + 1].fn = Dep /\ stack'[Len(stack) + 1].next = 1
               /\ visiting' = visiting \cup {Dep}
               /\ outcome' = "none"
<1> DEFINE calls == Append(Front(stack), [Last(stack) EXCEPT !.next = @ + 1])
<1>1. /\ outcome = "none" /\ stack # <<>> /\ TypeOK /\ StackInv
      /\ TopNext <= Len(Deps(Top))
      /\ IF Missing(Dep) THEN Reject({Top, Dep}) ELSE Visit(Dep, calls)
  <2>1. outcome = "none" /\ stack # <<>> /\ TypeOK /\ StackInv
    BY DEF NextDependency, SortInv
  <2>2. Last(stack) = stack[Len(stack)]
    BY <2>1, TopIsRegistered
  <2> QED
    BY <2>1, <2>2 DEF NextDependency, Top, TopNext, Dep
<1>2. calls = MovedOn
  BY DEF MovedOn
<1> HIDE DEF calls
<1>3. /\ Deps(Top) \in Seq(Fns)
      /\ TopNext \in 1 .. Len(Deps(Top)) + 1
  BY <1>1, TopIsRegistered
<1>4. TopNext \in 1 .. Len(Deps(Top))
  BY <1>1, <1>3
<1>5. Dep \in ToSet(Deps(Top)) /\ Dep \in Fns
  BY <1>3, <1>4 DEF Dep, ToSet
<1>6. CASE Dep \notin Registered
  BY <1>1, <1>4, <1>5, <1>6 DEF Missing, Reject
<1>7. CASE Dep \in Registered /\ Dep \in visited
  BY <1>1, <1>2, <1>4, <1>5, <1>7 DEF Missing, Visit
<1>8. CASE Dep \in Registered /\ Dep \notin visited /\ Dep \in visiting
  BY <1>1, <1>4, <1>5, <1>8 DEF Missing, Visit, Reject
<1>9. CASE Dep \in Registered /\ Dep \notin visited /\ Dep \notin visiting
  <2>1. /\ visiting' = visiting \cup {Dep}
        /\ stack' = Append(MovedOn, [fn |-> Dep, next |-> 1])
        /\ outcome' = "none"
    BY <1>1, <1>2, <1>9 DEF Missing, Visit
  <2>2. MovedOn \in Seq(Frames) /\ Len(MovedOn) = Len(stack)
    BY <1>1, MovedOnShape
  <2>3. /\ stack' \in Seq(Frames) /\ Len(stack') = Len(stack) + 1
        /\ \A i \in 1 .. Len(stack) : stack'[i] = MovedOn[i]
        /\ stack'[Len(stack) + 1].fn = Dep /\ stack'[Len(stack) + 1].next = 1
    BY <1>5, <2>1, <2>2, PushShape
  <2> QED
    BY <1>4, <1>5, <1>9, <2>1, <2>3
<1> QED
  BY <1>6, <1>7, <1>8, <1>9

\* A search that meets a function that is missing or active has found that there is no order.
LEMMA NoOrder ==
  ASSUME SortInv, stack # <<>>, TopNext \in 1 .. Len(Deps(Top)),
         Dep \notin Registered \/ Dep \in visiting
  PROVE  ~ Sortable
<1> SUFFICES ASSUME NEW fns \in SetToSeqs(Registered), Respects(fns) PROVE FALSE
  BY DEF Sortable
<1>1. /\ DOMAIN fns \subseteq Nat
      /\ \A p \in DOMAIN fns : fns[p] \in Registered
      /\ \A fn \in Registered : \E p \in DOMAIN fns : fns[p] = fn
      /\ \A p, q \in DOMAIN fns : fns[p] = fns[q] => p = q
  BY SequenceOfAll DEF SortInv, TypeOK
<1>2. /\ Len(stack) \in Nat \ {0} /\ Len(stack) \in 1 .. Len(stack)
      /\ Top \in Registered /\ Deps(Top) \in Seq(Fns)
  BY TopIsRegistered DEF SortInv
<1>3. PICK p \in DOMAIN fns : fns[p] = Top
  BY <1>1, <1>2
<1>4. Dep \in ToSet(Deps(Top))
  BY <1>2 DEF Dep, ToSet
<1>5. PICK q \in 1 .. p - 1 : fns[q] = Dep
  BY <1>3, <1>4 DEF Respects
<1>6. DOMAIN fns = 1 .. Cardinality(Registered) /\ Cardinality(Registered) \in Nat
  BY RegisteredFinite DEF SetToSeqs, SortInv, TypeOK
<1>7. q \in DOMAIN fns /\ q < p
  BY <1>3, <1>6
<1>8. Dep \in visiting
  BY <1>1, <1>5, <1>7
<1>9. PICK i \in 1 .. Len(stack) : stack[i].fn = Dep
  BY <1>8 DEF SortInv, StackInv, CallsInv
<1>10. CASE i = Len(stack)
  BY <1>1, <1>3, <1>5, <1>7, <1>9, <1>10 DEF Top
<1>11. CASE i < Len(stack)
  <2>1. p < q
    BY <1>2, <1>3, <1>5, <1>7, <1>9, <1>11 DEF SortInv, CycleInv, Behind, Top
  <2> QED
    BY <1>1, <1>3, <1>7, <2>1
<1> QED
  BY <1>2, <1>10, <1>11

LEMMA GivingUpKeepsInv ==
  ASSUME SortInv, NextDependency, outcome' \in {"rejected", "raises"},
         stack' = stack, visiting' = visiting, Dep \notin Registered \/ Dep \in visiting
  PROVE  SortInv'
<1>1. /\ entries' = entries /\ pos' = pos /\ visited' = visited /\ order' = order
      /\ stack # <<>>
  BY DEF NextDependency
<1>2. /\ Registered' = Registered
      /\ \A fn : Deps(fn)' = Deps(fn)
  BY <1>1, EntriesFixed
<1>3. \A fns : Respects(fns)' <=> Respects(fns)
  BY <1>1, RespectsFixed
<1>4. ~ Sortable
  BY <1>1, NextDependencyCases, NoOrder
<1>5. ~ Sortable'
  BY <1>2, <1>3, <1>4 DEF Sortable
<1>6. TypeOK'
  BY <1>1, <1>2 DEF SortInv, TypeOK
<1>7. StackInv'
  BY <1>1, <1>2 DEF SortInv, StackInv, CallsInv
<1>8. OrderInv'
  BY <1>1, OrderKept DEF SortInv
<1>9. ProgressInv'
  BY <1>1 DEF SortInv, ProgressInv
<1>10. CycleInv'
  BY <1>1, <1>2, <1>3, <1>5 DEF SortInv, CycleInv, Behind
<1> QED
  BY <1>6, <1>7, <1>8, <1>9, <1>10 DEF SortInv

LEMMA PassingOverKeepsInv ==
  ASSUME SortInv, NextDependency, Dep \in visited,
         stack' = MovedOn, visiting' = visiting, outcome' = "none"
  PROVE  SortInv'
<1>1. /\ entries' = entries /\ pos' = pos /\ visited' = visited /\ order' = order
      /\ stack # <<>> /\ TypeOK /\ StackInv
  BY DEF NextDependency, SortInv
<1>2. /\ Registered' = Registered
      /\ \A fn : Deps(fn)' = Deps(fn)
  BY <1>1, EntriesFixed
<1>3. \A fns : Respects(fns)' <=> Respects(fns)
  BY <1>1, RespectsFixed
<1> DEFINE n == Len(stack)
<1>4. /\ stack' \in Seq(Frames) /\ Len(stack') = n
      /\ \A i \in 1 .. n - 1 : stack'[i] = stack[i]
      /\ \A i \in 1 .. n : stack'[i].fn = stack[i].fn
      /\ stack'[n].next = TopNext + 1
  BY <1>1, MovedOnShape DEF TopNext
<1>5. n \in Nat \ {0} /\ TopNext \in 1 .. Len(Deps(Top)) /\ Deps(Top) \in Seq(Fns)
  BY <1>1, TopIsRegistered, NextDependencyCases
<1>6. stack[n].fn = Top /\ stack[n].next = TopNext /\ Dep = Deps(Top)[TopNext]
  BY DEF Top, TopNext, Dep
<1> HIDE DEF n
<1>7. TypeOK'
  BY <1>1, <1>2, <1>4 DEF TypeOK
<1>8. StackInv'
  <2>1. ASSUME NEW i \in 1 .. n
        PROVE  /\ stack[i].fn \in Registered
               /\ stack'[i].next \in 1 .. Len(Deps(stack[i].fn)) + 1
               /\ \A k \in 1 .. Len(Deps(stack[i].fn)) :
                    k < stack'[i].next =>
                      \/ Deps(stack[i].fn)[k] \in visited
                      \/ i < n /\ stack[i + 1].fn = Deps(stack[i].fn)[k]
    <3>1. CASE i < n
      <4>1. i \in 1 .. n - 1
        BY <1>5, <3>1
      <4> QED
        BY <1>1, <1>4, <3>1, <4>1 DEF StackInv, CallsInv, n
    <3>2. CASE i = n
      <4>1. stack[i].fn = Top /\ stack'[i].next = TopNext + 1 /\ Top \in Registered
        BY <1>1, <1>4, <1>6, <3>2, TopIsRegistered
      <4>2. \A k \in 1 .. Len(Deps(Top)) : k < TopNext => Deps(Top)[k] \in visited
        BY <1>1, TopReturned
      <4>3. \A k \in 1 .. Len(Deps(Top)) : k < TopNext + 1 => Deps(Top)[k] \in visited
        BY <1>5, <1>6, <4>2
      <4>4. TopNext + 1 \in 1 .. Len(Deps(Top)) + 1
        BY <1>5
      <4> QED
        BY <4>1, <4>3, <4>4
    <3> QED
      BY <1>5, <3>1, <3>2
  <2>2. \A i, j \in 1 .. n : stack[i].fn = stack[j].fn => i = j
    BY <1>1 DEF StackInv, CallsInv, n
  <2>3. visiting = {stack'[i].fn : i \in 1 .. n} /\ visiting \cap visited = {}
    <3>1. visiting = {stack[i].fn : i \in 1 .. n} /\ visiting \cap visited = {}
      BY <1>1 DEF StackInv, CallsInv, n
    <3>2. {stack'[i].fn : i \in 1 .. n} = {stack[i].fn : i \in 1 .. n}
      BY <1>4
    <3> QED
      BY <3>1, <3>2
  <2>4. ASSUME NEW i \in 1 .. Len(stack')
        PROVE  /\ stack'[i].fn \in Registered
               /\ stack'[i].next \in 1 .. Len(Deps(stack'[i].fn)) + 1
               /\ \A k \in 1 .. Len(Deps(stack'[i].fn)) :
                    k < stack'[i].next =>
                      \/ Deps(stack'[i].fn)[k] \in visited'
                      \/ i < Len(stack') /\ stack'[i + 1].fn = Deps(stack'[i].fn)[k]
    <3>1. i \in 1 .. n /\ stack'[i].fn = stack[i].fn
      BY <1>4
    <3>2. i < n => stack'[i + 1].fn = stack[i + 1].fn
      BY <1>4, <1>5
    <3>3. stack'[i].fn \in Registered /\ stack'[i].next \in 1 .. Len(Deps(stack'[i].fn)) + 1
      BY <2>1, <3>1
    <3>4. ASSUME NEW k \in 1 .. Len(Deps(stack'[i].fn)), k < stack'[i].next
          PROVE  \/ Deps(stack'[i].fn)[k] \in visited
                 \/ i < n /\ stack'[i + 1].fn = Deps(stack'[i].fn)[k]
      BY <2>1, <3>1, <3>2, <3>4
    <3>5. visited' = visited /\ Len(stack') = n
      BY <1>1, <1>4
    <3> QED
      BY <3>3, <3>4, <3>5
  <2>5. \A i, j \in 1 .. Len(stack') : stack'[i].fn = stack'[j].fn => i = j
    BY <1>4, <2>2
  <2>6. visiting' = {stack'[i].fn : i \in 1 .. Len(stack')} /\ visiting' \cap visited' = {}
    BY <1>1, <1>4, <2>3
  <2>7. CallsInv(stack', visiting', visited')
    BY <2>4, <2>5, <2>6 DEF CallsInv
  <2> QED
    BY <1>1, <2>7, CallsFixed
<1>9. OrderInv'
  BY <1>1, OrderKept DEF SortInv
<1>10. ProgressInv'
  BY <1>1 DEF SortInv, ProgressInv
<1>11. CycleInv'
  BY <1>1, <1>2, <1>3, <1>4 DEF SortInv, CycleInv, Behind, n
<1> QED
  BY <1>7, <1>8, <1>9, <1>10, <1>11 DEF SortInv

LEMMA CallingKeepsInv ==
  ASSUME SortInv, NextDependency,
         Dep \in Registered, Dep \notin visited, Dep \notin visiting,
         stack' \in Seq(Frames), Len(stack') = Len(stack) + 1,
         \A i \in 1 .. Len(stack) : stack'[i] = MovedOn[i],
         stack'[Len(stack) + 1].fn = Dep, stack'[Len(stack) + 1].next = 1,
         visiting' = visiting \cup {Dep}, outcome' = "none"
  PROVE  SortInv'
<1>1. /\ entries' = entries /\ pos' = pos /\ visited' = visited /\ order' = order
      /\ stack # <<>> /\ TypeOK /\ StackInv
  BY DEF NextDependency, SortInv
<1>2. /\ Registered' = Registered
      /\ \A fn : Deps(fn)' = Deps(fn)
  BY <1>1, EntriesFixed
<1>3. \A fns : Respects(fns)' <=> Respects(fns)
  BY <1>1, RespectsFixed
<1> DEFINE n == Len(stack)
<1>4. n \in Nat \ {0} /\ TopNext \in 1 .. Len(Deps(Top)) /\ Deps(Top) \in Seq(Fns)
  BY <1>1, TopIsRegistered, NextDependencyCases
<1>5. /\ \A i \in 1 .. n - 1 : stack'[i] = stack[i]
      /\ \A i \in 1 .. n : stack'[i].fn = stack[i].fn
      /\ stack'[n].next = TopNext + 1
  <2>1. /\ \A i \in 1 .. n - 1 : MovedOn[i] = stack[i]
        /\ \A i \in 1 .. n : MovedOn[i].fn = stack[i].fn
        /\ MovedOn[n].next = TopNext + 1
    BY <1>1, MovedOnShape DEF TopNext
  <2>2. n \in 1 .. n /\ \A i \in 1 .. n - 1 : i \in 1 .. n
    BY <1>4
  <2> QED
    BY <2>1, <2>2
<1>6. /\ stack[n].fn = Top /\ stack[n].next = TopNext /\ Dep = Deps(Top)[TopNext]
      /\ Top \in Registered
  BY <1>1, TopIsRegistered DEF Top, TopNext, Dep
<1>7. Len(stack') = n + 1 /\ stack'[n + 1].fn = Dep /\ stack'[n + 1].next = 1
  OBVIOUS
<1> HIDE DEF n
<1>8. \A i \in 1 .. n + 1 : i \in 1 .. n \/ i = n + 1
  BY <1>4
<1>9. TypeOK'
  BY <1>1, <1>2 DEF TypeOK
<1>10. StackInv'
  <2>1. ASSUME NEW i \in 1 .. n + 1
        PROVE  /\ stack'[i].fn \in Registered
               /\ stack'[i].next \in 1 .. Len(Deps(stack'[i].fn)) + 1
               /\ \A k \in 1 .. Len(Deps(stack'[i].fn)) :
                    k < stack'[i].next =>
                      \/ Deps(stack'[i].fn)[k] \in visited
                      \/ i < n + 1 /\ stack'[i + 1].fn = Deps(stack'[i].fn)[k]
    <3>1. CASE i < n
      <4>1. i \in 1 .. n - 1 /\ i \in 1 .. n /\ i + 1 \in 1 .. n /\ i < n + 1
        BY <1>4, <3>1
      <4>2. stack'[i] = stack[i] /\ stack'[i + 1].fn = stack[i + 1].fn
        BY <1>5, <4>1
      <4>3. /\ stack[i].fn \in Registered
            /\ stack[i].next \in 1 .. Len(Deps(stack[i].fn)) + 1
            /\ \A k \in 1 .. Len(Deps(stack[i].fn)) :
                 k < stack[i].next =>
                   \/ Deps(stack[i].fn)[k] \in visited
                   \/ stack[i + 1].fn = Deps(stack[i].fn)[k]
        BY <1>1, <4>1 DEF StackInv, CallsInv, n
      <4> QED
        BY <4>1, <4>2, <4>3
    <3>2. CASE i = n
      <4>1. /\ stack'[i].fn = Top /\ stack'[i].next = TopNext + 1
            /\ i < n + 1 /\ stack'[i + 1].fn = Deps(Top)[TopNext]
        BY <1>4, <1>5, <1>6, <1>7, <3>2
      <4>2. \A k \in 1 .. Len(Deps(Top)) : k < TopNext => Deps(Top)[k] \in visited
        BY <1>1, TopReturned
      <4>3. \A k \in 1 .. Len(Deps(Top)) : k < TopNext + 1 => Deps(Top)[k] \in visited \/ k = TopNext
        BY <1>4, <4>2
      <4>4. TopNext + 1 \in 1 .. Len(Deps(Top)) + 1
        BY <1>4
      <4> QED
        BY <1>6, <4>1, <4>3, <4>4
    <3>3. CASE i = n + 1
      <4>1. stack'[i].fn = Dep /\ stack'[i].next = 1 /\ Deps(Dep) \in Seq(Fns)
        BY <1>1, <1>7, <3>3, LastEntryFound DEF TypeOK
      <4> QED
        BY <4>1
    <3> QED
      BY <1>4, <3>1, <3>2, <3>3
  <2>2. \A i, j \in 1 .. n + 1 : stack'[i].fn = stack'[j].fn => i = j
    <3>1. \A i, j \in 1 .. n : stack[i].fn = stack[j].fn => i = j
      BY <1>1 DEF StackInv, CallsInv, n
    <3>2. \A i \in 1 .. n : stack[i].fn # Dep
      BY <1>1 DEF StackInv, CallsInv, n
    <3> QED
      BY <1>5, <1>7, <1>8, <3>1, <3>2
  <2>3. visiting' = {stack'[i].fn : i \in 1 .. n + 1}
    <3>1. visiting = {stack[i].fn : i \in 1 .. n}
      BY <1>1 DEF StackInv, CallsInv, n
    <3>2. \A i \in 1 .. n : i \in 1 .. n + 1
      BY <1>4
    <3>3. n + 1 \in 1 .. n + 1
      BY <1>4
    <3>4. \A f : f \in visiting <=> \E i \in 1 .. n : stack'[i].fn = f
      BY <1>5, <3>1
    <3>5. \A f : f \in visiting' <=> \E i \in 1 .. n + 1 : stack'[i].fn = f
      BY <1>7, <1>8, <3>2, <3>3, <3>4
    <3> QED
      BY <3>5
  <2>4. visiting' \cap visited' = {}
    BY <1>1 DEF StackInv, CallsInv
  <2>5. CallsInv(stack', visiting', visited')
    BY <1>1, <1>7, <2>1, <2>2, <2>3, <2>4 DEF CallsInv
  <2> QED
    BY <1>1, <2>5, CallsFixed
<1>11. OrderInv'
  BY <1>1, OrderKept DEF SortInv
<1>12. ProgressInv'
  BY <1>1 DEF SortInv, ProgressInv
<1>13. CycleInv'
  <2> SUFFICES ASSUME NEW fns \in SetToSeqs(Registered), Respects(fns),
                      NEW i \in 1 .. n + 1, NEW j \in 1 .. n + 1, i < j,
                      NEW p \in DOMAIN fns, NEW q \in DOMAIN fns,
                      fns[p] = stack'[i].fn, fns[q] = stack'[j].fn
               PROVE  q < p
    BY <1>2, <1>3, <1>7 DEF CycleInv, Behind
  <2>1. /\ DOMAIN fns \subseteq Nat
        /\ \A fn \in Registered : \E m \in DOMAIN fns : fns[m] = fn
        /\ \A l, m \in DOMAIN fns : fns[l] = fns[m] => l = m
    BY <1>1, SequenceOfAll DEF TypeOK
  <2>2. \A a, b \in 1 .. n : a < b =>
          \A l, m \in DOMAIN fns : fns[l] = stack[a].fn /\ fns[m] = stack[b].fn => m < l
    BY DEF SortInv, CycleInv, Behind, n
  <2>3. CASE j \in 1 .. n
    <3>1. i \in 1 .. n
      BY <1>4, <2>3
    <3>2. fns[p] = stack[i].fn /\ fns[q] = stack[j].fn
      BY <1>5, <2>3, <3>1
    <3> QED
      BY <2>2, <2>3, <3>1, <3>2
  <2>4. CASE j = n + 1
    <3>1. PICK t \in DOMAIN fns : fns[t] = Top
      BY <1>6, <2>1
    <3>2. Dep \in ToSet(Deps(Top))
      BY <1>4, <1>6 DEF ToSet
    <3>3. PICK d \in 1 .. t - 1 : fns[d] = Dep
      BY <3>1, <3>2 DEF Respects
    <3>4. DOMAIN fns = 1 .. Cardinality(Registered) /\ Cardinality(Registered) \in Nat
      BY <1>1, RegisteredFinite DEF SetToSeqs, TypeOK
    <3>5. d \in DOMAIN fns /\ d < t
      BY <3>1, <3>3, <3>4
    <3>6. q = d
      BY <1>7, <2>1, <2>4, <3>3, <3>5
    <3>7. CASE i = n
      <4>1. p = t
        BY <1>4, <1>5, <1>6, <2>1, <3>1, <3>7
      <4> QED
        BY <3>5, <3>6, <4>1
    <3>8. CASE i < n
      <4>1. i \in 1 .. n /\ n \in 1 .. n
        BY <1>4, <3>8
      <4>2. t < p
        BY <1>5, <1>6, <2>2, <3>1, <3>8, <4>1
      <4> QED
        BY <2>1, <3>5, <3>6, <4>2
    <3>9. i \in Int /\ n \in Int /\ i < n + 1
      BY <1>4, <2>4
    <3> QED
      BY <3>7, <3>8, <3>9
  <2> QED
    BY <1>8, <2>3, <2>4
<1> QED
  BY <1>9, <1>10, <1>11, <1>12, <1>13 DEF SortInv

LEMMA NextDependencyKeepsInv ==
  ASSUME SortInv, NextDependency
  PROVE  SortInv'
BY NextDependencyCases, GivingUpKeepsInv, PassingOverKeepsInv, CallingKeepsInv

LEMMA LeaveVisitKeepsInv ==
  ASSUME SortInv, LeaveVisit
  PROVE  SortInv'
<1> DEFINE n == Len(stack)
<1>1. /\ entries' = entries /\ pos' = pos /\ outcome' = outcome /\ outcome = "none"
      /\ stack # <<>> /\ TypeOK /\ StackInv
  BY DEF LeaveVisit, SortInv
<1>2. /\ Registered' = Registered
      /\ \A fn : Deps(fn)' = Deps(fn)
  BY <1>1, EntriesFixed
<1>3. \A fns : Respects(fns)' <=> Respects(fns)
  BY <1>1, RespectsFixed
<1>4. /\ n \in Nat \ {0} /\ n \in 1 .. n /\ Last(stack) = stack[n]
      /\ Top \in Registered /\ Top \in visiting /\ Deps(Top) \in Seq(Fns)
      /\ TopNext \in 1 .. Len(Deps(Top)) + 1
  BY <1>1, TopIsRegistered
<1>5. /\ TopNext > Len(Deps(Top))
      /\ visiting' = visiting \ {Top} /\ visited' = visited \cup {Top}
      /\ order' = Append(order, Top)
      /\ stack' = Front(stack)
  BY <1>4 DEF LeaveVisit, Top, TopNext, AppendTo
<1>6. /\ stack' \in Seq(Frames) /\ Len(stack') = n - 1
      /\ \A i \in 1 .. n - 1 : stack'[i] = stack[i]
  BY <1>1, <1>5, TopFrame
<1>7. stack[n].fn = Top
  BY DEF Top
<1>8. Top \notin visited
  BY <1>1, <1>4 DEF StackInv, CallsInv
<1>9. \A d \in ToSet(Deps(Top)) : d \in visited
  <2>1. \A k \in 1 .. Len(Deps(Top)) : Deps(Top)[k] \in visited
    BY <1>1, <1>4, <1>5, TopReturned
  <2>2. DOMAIN Deps(Top) = 1 .. Len(Deps(Top))
    BY <1>4
  <2> QED
    BY <2>1, <2>2 DEF ToSet
<1>10. /\ order \in Seq(Registered) /\ Len(order) \in Nat /\ DOMAIN order = 1 .. Len(order)
       /\ order' \in Seq(Registered) /\ Len(order') = Len(order) + 1
       /\ DOMAIN order' = 1 .. Len(order) + 1
       /\ \A i \in 1 .. Len(order) : order'[i] = order[i]
       /\ order'[Len(order) + 1] = Top
  BY <1>1, <1>4, <1>5 DEF TypeOK
<1> HIDE DEF n
<1>11. TypeOK'
  BY <1>1, <1>2, <1>4, <1>5, <1>6, <1>10 DEF TypeOK
<1>12. StackInv'
  <2>1. ASSUME NEW i \in 1 .. n - 1
        PROVE  /\ stack[i].fn \in Registered
               /\ stack[i].next \in 1 .. Len(Deps(stack[i].fn)) + 1
               /\ \A k \in 1 .. Len(Deps(stack[i].fn)) :
                    k < stack[i].next =>
                      \/ Deps(stack[i].fn)[k] \in visited'
                      \/ i < n - 1 /\ stack'[i + 1].fn = Deps(stack[i].fn)[k]
    <3>1. i \in 1 .. n /\ (i < n - 1 \/ i + 1 = n)
      BY <1>4
    <3>2. /\ stack[i].fn \in Registered
          /\ stack[i].next \in 1 .. Len(Deps(stack[i].fn)) + 1
          /\ \A k \in 1 .. Len(Deps(stack[i].fn)) :
               k < stack[i].next =>
                 \/ Deps(stack[i].fn)[k] \in visited
                 \/ stack[i + 1].fn = Deps(stack[i].fn)[k]
      BY <1>1, <3>1 DEF StackInv, CallsInv, n
    <3>3. CASE i + 1 = n
      BY <1>5, <1>7, <3>2, <3>3
    <3>4. CASE i < n - 1
      <4>1. i + 1 \in 1 .. n - 1
        BY <1>4, <3>4
      <4> QED
        BY <1>5, <1>6, <3>2, <3>4, <4>1
    <3> QED
      BY <3>1, <3>3, <3>4
  <2>2. \A i, j \in 1 .. n : stack[i].fn = stack[j].fn => i = j
    BY <1>1 DEF StackInv, CallsInv, n
  <2>3. \A i \in 1 .. n - 1 : i \in 1 .. n /\ i # n
    BY <1>4
  <2>4. \A i \in 1 .. n : i \in 1 .. n - 1 \/ i = n
    BY <1>4
  <2>5. visiting' = {stack'[i].fn : i \in 1 .. n - 1}
    <3>1. visiting = {stack[i].fn : i \in 1 .. n}
      BY <1>1 DEF StackInv, CallsInv, n
    <3>2. \A f : f \in visiting' <=> (f # Top /\ \E i \in 1 .. n : stack[i].fn = f)
      BY <1>5, <3>1
    <3>3. \A f : f \in visiting' <=> \E i \in 1 .. n - 1 : stack'[i].fn = f
      BY <1>4, <1>6, <1>7, <2>2, <2>3, <2>4, <3>2
    <3> QED
      BY <3>3
  <2>6. visiting' \cap visited' = {}
    BY <1>1, <1>5 DEF StackInv, CallsInv
  <2>7. \A i, j \in 1 .. n - 1 : stack'[i].fn = stack'[j].fn => i = j
    BY <1>6, <2>2, <2>3
  <2>8. CallsInv(stack', visiting', visited')
    <3>1. ASSUME NEW i \in 1 .. Len(stack')
          PROVE  /\ stack'[i].fn \in Registered
                 /\ stack'[i].next \in 1 .. Len(Deps(stack'[i].fn)) + 1
                 /\ \A k \in 1 .. Len(Deps(stack'[i].fn)) :
                      k < stack'[i].next =>
                        \/ Deps(stack'[i].fn)[k] \in visited'
                        \/ i < Len(stack') /\ stack'[i + 1].fn = Deps(stack'[i].fn)[k]
      BY <1>6, <2>1
    <3>2. /\ \A i, j \in 1 .. Len(stack') : stack'[i].fn = stack'[j].fn => i = j
          /\ visiting' = {stack'[i].fn : i \in 1 .. Len(stack')}
      BY <1>6, <2>5, <2>7
    <3> QED
      BY <2>6, <3>1, <3>2 DEF CallsInv
  <2> QED
    BY <1>1, <2>8, CallsFixed
<1>13. OrderInv'
  <2>1. /\ visited = ToSet(order) /\ Respects(order)
        /\ \A i, j \in 1 .. Len(order) : order[i] = order[j] => i = j
    BY DEF SortInv, OrderInv
  <2>2. \A i \in 1 .. Len(order) + 1 : i \in 1 .. Len(order) \/ i = Len(order) + 1
    BY <1>10
  <2>3. \A i \in 1 .. Len(order) : i \in 1 .. Len(order) + 1 /\ order[i] \in visited
    BY <1>10, <2>1 DEF ToSet
  <2>4. Len(order) + 1 \in 1 .. Len(order) + 1
    BY <1>10
  <2>5. \A f : f \in visited' <=> \E i \in 1 .. Len(order) + 1 : order'[i] = f
    <3>1. \A f : f \in visited <=> \E i \in 1 .. Len(order) : order[i] = f
      BY <1>10, <2>1 DEF ToSet
    <3> QED
      BY <1>5, <1>10, <2>2, <2>3, <2>4, <3>1
  <2>6. visited' = ToSet(order')
    BY <1>10, <2>5 DEF ToSet
  <2>7. \A i, j \in 1 .. Len(order) + 1 : order'[i] = order'[j] => i = j
    BY <1>8, <1>10, <2>1, <2>2, <2>3
  <2>8. Respects(order')
    <3> SUFFICES ASSUME NEW i \in 1 .. Len(order) + 1, NEW d \in ToSet(Deps(order'[i]))
                 PROVE  \E j \in 1 .. i - 1 : order'[j] = d
      BY <1>10 DEF Respects
    <3>1. CASE i \in 1 .. Len(order)
      <4>1. order'[i] = order[i] /\ i \in DOMAIN order
        BY <1>10, <3>1
      <4>2. PICK j \in 1 .. i - 1 : order[j] = d
        BY <2>1, <4>1 DEF Respects
      <4>3. j \in 1 .. Len(order)
        BY <1>10, <3>1
      <4> QED
        BY <1>10, <4>2, <4>3
    <3>2. CASE i = Len(order) + 1
      <4>1. d \in visited
        BY <1>9, <1>10, <3>2
      <4>2. PICK j \in 1 .. Len(order) : order[j] = d
        BY <1>10, <2>1, <4>1 DEF ToSet
      <4>3. j \in 1 .. i - 1
        BY <1>10, <3>2
      <4> QED
        BY <1>10, <4>2, <4>3
    <3> QED
      BY <2>2, <3>1, <3>2
  <2>9. Respects(order)'
    <3>1. PICK s : s = order'
      OBVIOUS
    <3>2. Respects(s)'
      BY <1>3, <2>8, <3>1
    <3>3. \A fns : fns = order' /\ Respects(fns)' => Respects(order)'
      BY DEF Respects
    <3> QED
      BY <3>1, <3>2, <3>3
  <2> QED
    BY <1>10, <2>6, <2>7, <2>9 DEF OrderInv
<1>14. ProgressInv'
  BY <1>1, <1>5 DEF SortInv, ProgressInv
<1>15. CycleInv'
  <2>1. \A i \in 1 .. n - 1 : i \in 1 .. n
    BY <1>4
  <2> QED
    BY <1>1, <1>2, <1>3, <1>6, <2>1 DEF SortInv, CycleInv, Behind, n
<1> QED
  BY <1>11, <1>12, <1>13, <1>14, <1>15 DEF SortInv

-------------------------------------------------------------------------------
(***************************************************************************)
(* The inductive invariant                                                 *)
(***************************************************************************)

LEMMA InitSortInv == Init => SortInv
<1> SUFFICES ASSUME Init PROVE SortInv
  OBVIOUS
<1>1. /\ entries \in Seq(Entries) /\ Len(entries) \in Nat
      /\ pos = 1 /\ stack = <<>> /\ visiting = {} /\ visited = {} /\ order = <<>>
      /\ outcome = "none" /\ Len(stack) = 0 /\ Len(order) = 0
      /\ DOMAIN order = {}
  BY ToposortConstants DEF Init
<1>2. TypeOK
  BY <1>1 DEF TypeOK
<1>3. StackInv
  BY <1>1 DEF StackInv, CallsInv
<1>4. OrderInv
  BY <1>1 DEF OrderInv, Respects, ToSet
<1>5. ProgressInv
  BY <1>1 DEF ProgressInv
<1>6. CycleInv
  BY <1>1 DEF CycleInv, Behind
<1> QED
  BY <1>2, <1>3, <1>4, <1>5, <1>6 DEF SortInv

LEMMA StutterKeepsSortInv ==
  ASSUME SortInv, UNCHANGED vars
  PROVE  SortInv'
<1> USE DEF vars
<1>1. /\ Registered' = Registered
      /\ \A fn : Deps(fn)' = Deps(fn)
  BY EntriesFixed
<1>2. \A fns : Respects(fns)' <=> Respects(fns)
  BY RespectsFixed
<1>3. TypeOK'
  BY <1>1 DEF SortInv, TypeOK
<1>4. StackInv'
  BY CallsFixed DEF SortInv, StackInv
<1>5. OrderInv'
  BY OrderKept DEF SortInv
<1>6. ProgressInv'
  BY DEF SortInv, ProgressInv
<1>7. CycleInv'
  BY <1>1, <1>2 DEF SortInv, CycleInv, Behind, Sortable
<1> QED
  BY <1>3, <1>4, <1>5, <1>6, <1>7 DEF SortInv

LEMMA StepKeepsSortInv == SortInv /\ [Next]_vars => SortInv'
<1> SUFFICES ASSUME SortInv, [Next]_vars PROVE SortInv'
  OBVIOUS
<1>1. CASE NextEntry
  BY <1>1, NextEntryKeepsInv
<1>2. CASE NextDependency
  BY <1>2, NextDependencyKeepsInv
<1>3. CASE LeaveVisit
  BY <1>3, LeaveVisitKeepsInv
<1>4. CASE Finish
  BY <1>4, FinishKeepsInv
<1>5. CASE UNCHANGED vars
  BY <1>5, StutterKeepsSortInv
<1> QED
  BY <1>1, <1>2, <1>3, <1>4, <1>5 DEF Next

\* The search of toposort (core/registry.py) keeps its calls, what has returned and what is
\* appended in step, for every contents of _EXTRA_STEPS.
THEOREM SortInvHolds == Spec => []SortInv
BY InitSortInv, StepKeepsSortInv, PTL DEF Spec

-------------------------------------------------------------------------------
(***************************************************************************)
(* The properties                                                          *)
(***************************************************************************)

\* toposort only handles registered functions, and never looks past its entries.
THEOREM TypesOfToposort == Spec => []TypeOK
<1>1. SortInv => TypeOK
  BY DEF SortInv
<1> QED
  BY <1>1, SortInvHolds, PTL

\* When the loop over the entries is over, every function has been appended.
LEMMA AllAppended ==
  ASSUME SortInv, outcome = "ordered"
  PROVE  /\ ToSet(order) = Registered
         /\ Len(order) = Cardinality(Registered)
         /\ order \in SetToSeqs(Registered)
<1>1. /\ entries \in Seq(Entries) /\ order \in Seq(Registered) /\ visited \subseteq Registered
      /\ stack = <<>> /\ Len(stack) = 0 /\ pos = Len(entries) + 1
      /\ \A i \in 1 .. pos - 1 : entries[i].fn \in visited \cup visiting
  BY DEF SortInv, TypeOK, ProgressInv
<1>2. visiting = {}
  BY <1>1 DEF SortInv, StackInv, CallsInv
<1>3. \A i \in DOMAIN entries : entries[i].fn \in visited
  <2>1. DOMAIN entries = 1 .. pos - 1
    BY <1>1
  <2> QED
    BY <1>1, <1>2, <2>1
<1>4. visited = Registered
  BY <1>1, <1>3 DEF Registered
<1>5. /\ ToSet(order) = Registered
      /\ \A i, j \in 1 .. Len(order) : order[i] = order[j] => i = j
  BY <1>4 DEF SortInv, OrderInv
<1> DEFINE D == 1 .. Len(order)
<1>6. Len(order) \in Nat /\ DOMAIN order = D /\ order \in [D -> Registered]
  BY <1>1
<1>7. order \in Bijection(D, Registered)
  <2>1. \A t \in Registered : \E i \in D : order[i] = t
    BY <1>5, <1>6 DEF ToSet
  <2> QED
    BY <1>5, <1>6, <2>1, Fun_IsBij
<1>8. Len(order) = Cardinality(Registered)
  BY <1>6, <1>7, FS_CountingElements DEF ExistsBijection
<1>9. order \in SetToSeqs(Registered)
  BY <1>5, <1>6, <1>8 DEF SetToSeqs
<1> QED
  BY <1>5, <1>8, <1>9

\* toposort returns every registered step exactly once, behind all of its dependencies,
\* for every list of registrations.
THEOREM OrderTopological == Spec => []OrderIsTopological
<1>1. SortInv => OrderIsTopological
  BY AllAppended DEF OrderIsTopological, SortInv, OrderInv
<1> QED
  BY <1>1, SortInvHolds, PTL

\* The ValueErrors of toposort are raised exactly for the registrations that no order
\* exists for: the algorithm against its reference definition, for lists of every length.
THEOREM RejectionExact == Spec => []RejectsExactlyTheUnsortable
<1>1. SortInv => RejectsExactlyTheUnsortable
  <2> SUFFICES ASSUME SortInv, outcome # "none" PROVE outcome = "ordered" <=> Sortable
    BY DEF RejectsExactlyTheUnsortable
  <2>1. CASE outcome = "ordered"
    BY <2>1, AllAppended DEF Sortable, SortInv, OrderInv
  <2>2. CASE outcome # "ordered"
    BY <2>2 DEF SortInv, TypeOK, CycleInv
  <2> QED
    BY <2>1, <2>2
<1> QED
  BY <1>1, SortInvHolds, PTL
===============================================================================
