----------------------------- MODULE MCJobMonitor -----------------------------
(***************************************************************************)
(* A small instance of JobMonitor: more jobs than a peek shows.            *)
(***************************************************************************)
EXTENDS JobMonitor

CONSTANTS j1, j2, l1
===============================================================================
