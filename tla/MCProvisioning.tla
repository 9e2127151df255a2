---------------------------- MODULE MCProvisioning ----------------------------
(***************************************************************************)
(* Small instances of Provisioning: one or two executions for a            *)
(* subscription with one or two principals, policies and budgets.          *)
(***************************************************************************)
EXTENDS Provisioning

CONSTANTS r1, r2, prod, sandbox, mgProd, mgSandbox, ops, spn, q1, q2

MCBudgets == {NoTag, Malformed, -1, 100}

MCTwoBudgets == {100, 200}

\* No entry for the sandbox: settings.default_mg falls back to "ITL-Sandbox".
MCMapping == [e \in {prod} |-> mgProd]

\* An empty group name in the mapping: STEP_MG goes on to the event's group.
MCEmptyName == [e \in {prod, sandbox} |-> IF e = prod THEN mgProd ELSE NoMg]

MCNone == <<>>

MCTwoRoles == <<spn, ops>>

MCTwoPolicies == <<q1, q2>>

MCSymmetry == Permutations(Runs)
===============================================================================
