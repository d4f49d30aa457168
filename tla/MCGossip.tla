------------------------------ MODULE MCGossip ------------------------------
EXTENDS Gossip, TLC

CONSTANTS p1, p2, p3

\* The origin reaches p1 only; p1, p2 and p3 form a cycle.
MCLink ==
  (Origin :> {p1}) @@ (p1 :> {Origin, p2, p3}) @@ (p2 :> {p1, p3}) @@ (p3 :> {p1, p2})
=============================================================================
