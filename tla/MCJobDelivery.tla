---------------------------- MODULE MCJobDelivery -----------------------------
(***************************************************************************)
(* Small instances of JobDelivery: a delivery of one or three events.      *)
(***************************************************************************)
EXTENDS JobDelivery

CONSTANTS b1, s1, s2

\* A delivery with an event to skip between two subscriptions.
MCMixed == [b \in Batches |-> <<s1, Skipped, s2>>]

MCSingle == [b \in Batches |-> <<s1>>]
===============================================================================
