------------------------------ MODULE MCUiSession ------------------------------
(***************************************************************************)
(* A small instance of UiSession: two tabs, somebody who is a member of the *)
(* required group, and somebody who is not.                                 *)
(***************************************************************************)
EXTENDS UiSession, TLC

CONSTANTS t1, t2, ann, bob

MCSymmetry == Permutations(Tabs)
===============================================================================
