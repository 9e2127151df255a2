--------------------------- MODULE MCWorkflowEngine ---------------------------
(***************************************************************************)
(* Small instances of WorkflowEngine.  The gate called snow checks tickets,*)
(* quota is a gate of an extension; t1 is approved, t2 is not.             *)
(***************************************************************************)
EXTENDS WorkflowEngine

CONSTANTS r1, r2, r3, t1, t2, snow, quota, s1, s2, s3

MCTwoGates == <<snow, quota>>

\* A gate without stop_on_error in front of the one with it.
MCOtherGateFirst == <<quota, snow>>

MCOneStep == <<s1>>

MCThreeSteps == <<s1, s2, s3>>

MCNoHandlers == [e \in Events |-> 0]

\* Two handlers of the same event, so that one can fail before the other runs.
MCHandlers == [e \in Events |-> CASE e = "SUCCEEDED" -> 2 [] e = "FAILED" -> 0 [] OTHER -> 1]

MCSymmetry == Permutations(Runs)
===============================================================================
