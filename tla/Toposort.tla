------------------------------- MODULE Toposort -------------------------------
(***************************************************************************)
(* toposort of core/registry.py: a depth-first search over the registered  *)
(* steps, with the recursion of _visit written as a stack of frames.  One  *)
(* action is the work between two calls or returns of _visit.              *)
(***************************************************************************)
EXTENDS Naturals, Sequences, FiniteSets, SequencesExt

CONSTANTS
  Fns,       \* step functions: what register_step can be given
  Named,     \* those that have a __qualname__ (instances of BaseStep have none)
  Registries \* the possible contents of _EXTRA_STEPS, in registration order

\* fn, and the functions in depends_on
Entries == [fn : Fns, deps : Seq(Fns)]

ASSUME ToposortConstants ==
  /\ Named \subseteq Fns
  /\ Registries \subseteq Seq(Entries)

VARIABLES
  entries,   \* the argument
  pos,       \* the next entry of the loop over the entries
  stack,     \* the active calls of _visit, outermost first: function and next dependency
  visiting, visited,
  order,     \* the functions of the entries appended so far
  outcome    \* "none" while it runs; "ordered", "rejected" (ValueError) or "raises"

vars == <<entries, pos, stack, visiting, visited, order, outcome>>

Registered == {entries[i].fn : i \in DOMAIN entries}

\* fn_to_entry: when a function is registered twice the last entry counts.
LastEntry(fn) ==
  CHOOSE i \in DOMAIN entries :
    entries[i].fn = fn /\ \A j \in DOMAIN entries : entries[j].fn = fn => j <= i

Deps(fn) == entries[LastEntry(fn)].deps

\* The text of the ValueError names these functions by their __qualname__.
Reject(fns) ==
  /\ outcome' = IF fns \subseteq Named THEN "rejected" ELSE "raises"
  /\ UNCHANGED <<visiting, stack>>

\* Faulty variant: a function whose call has not returned counts as visited.
SkipVisiting(fn, calls) ==
  IF fn \in visited \cup visiting THEN stack' = calls /\ UNCHANGED <<visiting, outcome>>
  ELSE /\ visiting' = visiting \cup {fn}
       /\ stack' = Append(calls, [fn |-> fn, next |-> 1])
       /\ UNCHANGED outcome

\* _visit(fn), called from the frames `calls`
Visit(fn, calls) ==
  IF fn \in visited THEN stack' = calls /\ UNCHANGED <<visiting, outcome>>
  ELSE IF fn \in visiting THEN Reject({fn})
  ELSE /\ visiting' = visiting \cup {fn}
       /\ stack' = Append(calls, [fn |-> fn, next |-> 1])
       /\ UNCHANGED outcome

NextEntry ==
  /\ outcome = "none"
  /\ stack = <<>>
  /\ pos <= Len(entries)
  /\ Visit(entries[pos].fn, stack)
  /\ pos' = pos + 1
  /\ UNCHANGED <<entries, visited, order>>

\* Faulty variant: a dependency is followed without looking it up first.
NothingMissing(dep) == FALSE

Missing(dep) == dep \notin Registered

NextDependency ==
  /\ outcome = "none"
  /\ stack # <<>>
  /\ LET frame == Last(stack)
         dep   == Deps(frame.fn)[frame.next]
     IN  /\ frame.next <= Len(Deps(frame.fn))
         /\ IF Missing(dep) THEN Reject({frame.fn, dep})
            ELSE Visit(dep, Append(Front(stack), [frame EXCEPT !.next = @ + 1]))
  /\ UNCHANGED <<entries, pos, visited, order>>

\* Faulty variant: a function is put in front of what has been finished before.
PutFirst(fns, fn) == <<fn>> \o fns

AppendTo(fns, fn) == Append(fns, fn)

LeaveVisit ==
  /\ outcome = "none"
  /\ stack # <<>>
  /\ LET frame == Last(stack)
     IN  /\ frame.next > Len(Deps(frame.fn))
         /\ visiting' = visiting \ {frame.fn}
         /\ visited' = visited \cup {frame.fn}
         /\ order' = AppendTo(order, frame.fn)
  /\ stack' = Front(stack)
  /\ UNCHANGED <<entries, pos, outcome>>

Finish ==
  /\ outcome = "none"
  /\ stack = <<>>
  /\ pos > Len(entries)
  /\ outcome' = "ordered"
  /\ UNCHANGED <<entries, pos, stack, visiting, visited, order>>

Init ==
  /\ entries \in Registries
  /\ pos = 1
  /\ stack = <<>>
  /\ visiting = {}
  /\ visited = {}
  /\ order = <<>>
  /\ outcome = "none"

Next == NextEntry \/ NextDependency \/ LeaveVisit \/ Finish

Spec == Init /\ [][Next]_vars

-------------------------------------------------------------------------------
(***************************************************************************)
(* Properties                                                              *)
(***************************************************************************)

Frames == [fn : Fns, next : Nat]

TypeOK ==
  /\ entries \in Seq(Entries)
  /\ pos \in 1 .. Len(entries) + 1
  /\ stack \in Seq(Frames)
  /\ visiting \subseteq Registered
  /\ visited \subseteq Registered
  /\ order \in Seq(Registered)
  /\ outcome \in {"none", "ordered", "rejected", "raises"}

\* fns has every dependency of each of its members in front of that member.
Respects(fns) ==
  \A i \in DOMAIN fns : \A d \in ToSet(Deps(fns[i])) : \E j \in 1 .. (i - 1) : fns[j] = d

\* Reference definition: the registered steps can be put in dependency order.
Sortable == \E fns \in SetToSeqs(Registered) : Respects(fns)

\* What a caller gets is every registered step exactly once, each behind all of
\* its dependencies, however the steps were registered.
OrderIsTopological ==
  outcome = "ordered" =>
    /\ ToSet(order) = Registered
    /\ Len(order) = Cardinality(Registered)
    /\ Respects(order)

\* The search gives up exactly when there is no such order: a dependency that
\* is not registered or a cycle, wherever in the list it is.
RejectsExactlyTheUnsortable ==
  outcome # "none" => (outcome = "ordered" <=> Sortable)
===============================================================================
