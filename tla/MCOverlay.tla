----------------------------- MODULE MCOverlay -----------------------------
(* The overlay, each piece in the part of the states that has its name: two  *)
(* link actors and the connections between them ("link", module Link) and    *)
(* requests ("calls", Forwarding).                                           *)
(*                                                                           *)
(* Two ends know each other by a direct TCP address and by one over a relay, *)
(* the same for both; both or none of them start out authorised.             *)
(* Requests cross a line of three nodes; two in opposite directions compete  *)
(* for the one forward of the node in the middle.                            *)
EXTENDS Link

VARIABLES
  part,
  links, net, cuts, installs,                                      \* Forwarding
  outbound, forwards, inbound, seen, inflight, expired, result

CONSTANTS lo, hi

calls == <<links, net, cuts, installs, outbound, forwards, inbound, seen, inflight, expired, result>>
all == <<vars, calls, part>>
-----------------------------------------------------------------------------
MCAddress == {[here |-> 1, there |-> 1, source |-> "Configured"],
              [here |-> 3, there |-> 3, source |-> "Configured"]}

Line == {1, 2, 3}

MCRequest == {[source |-> 1, destination |-> 3, hops |-> 1],
              [source |-> 3, destination |-> 1, hops |-> 1]}

F == INSTANCE Forwarding WITH
       Node <- Line, Edge <- {{1, 2}, {2, 3}}, Request <- MCRequest, MaxFaults <- 1, MaxInstalls <- 1,
       max_inflight <- 1, MAX_PENDING_INBOUND <- 1, faults <- cuts

ASSUME LineAssumption == F!ForwardingAssumption
-----------------------------------------------------------------------------
MCInit ==
  /\ part \in {"link", "calls"}
  /\ Init /\ F!Init
  /\ IF part = "link" THEN authorized[hi] = authorized[lo] ELSE \A n \in Node : ~ authorized[n]

Links(step) == part = "link" /\ step /\ UNCHANGED <<calls, part>>
Calls(step) == part = "calls" /\ step /\ UNCHANGED <<vars, part>>

MCNext == Links(Next) \/ Calls(F!Next)

MCSpec == MCInit /\ [][MCNext]_all /\ Fairness /\ WF_calls(Calls(F!Progress))
-----------------------------------------------------------------------------
\* Of Forwarding: no slot leaks.
SlotsExact == part = "calls" => F!SlotsExact

\* Of Link and Forwarding: edges and relay reservations come back, callers are
\* answered and tables drain (Reconnects, RelayRegained; CallersAnswered,
\* TablesDrain).
OverlaySettles == <>[](Connected /\ Listening /\ (part = "calls" => F!Answered /\ F!Drained))
=============================================================================
