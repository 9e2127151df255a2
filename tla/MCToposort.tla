------------------------------ MODULE MCToposort ------------------------------
(***************************************************************************)
(* Small instances of Toposort: every list of up to three registrations of *)
(* two functions and a third that may not be registered.                   *)
(***************************************************************************)
EXTENDS Toposort

CONSTANTS f, g, h

MCDeps == {deps \in BoundedSeq(Fns, 2) : Cardinality(ToSet(deps)) = Len(deps)}

\* Any function may be registered, once or repeatedly, or only depended on.
MCRegistries == BoundedSeq([fn : Fns, deps : MCDeps], 3)
===============================================================================
