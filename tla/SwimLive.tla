------------------------------ MODULE SwimLive ------------------------------
(***************************************************************************)
(* Convergence of the membership entry under the fairness the daemon's     *)
(* loops provide.                                                          *)
(*                                                                         *)
(* ClusterSync::run exchanges entries with the first candidate of          *)
(* authorized_peers and turns to the others only when that attempt fails.  *)
(* Partner[n] is n's first candidate: it is a function of the link health  *)
(* and of the order of node ids, so it does not change while links do not. *)
(*                                                                         *)
(* Heartbeats and annotation updates are not steps of FairSpec.  An owner  *)
(* that resumes an incarnation whose write was lost overtakes its earlier  *)
(* heartbeats only with new ones, which a capped counter runs out of.      *)
(***************************************************************************)
EXTENDS Swim

CONSTANT Partner

ASSUME PartnerAssumption ==
  Partner \in [Node -> Node] /\ \A n \in Node : Partner[n] # n

\* sync_with_peers: the preferred partner, or every other node once it fails.
sync_with_peers(n, q) ==
  /\ Partner[n] = q \/ (~ Running(Partner[n]) /\ q # n)
  /\ Running(n)

\* An exchange moves registers both ways, whichever side started it.
FairExchange(n, q) ==
  /\ sync_with_peers(n, q) \/ sync_with_peers(q, n)
  /\ Exchange(n, q)

FairSpec ==
  /\ Init /\ [][Changes]_vars
  /\ WF_vars(Shutdown)
  /\ \A n \in Node : WF_vars(\E m \in inbox[n] : Receive(n, m))
  /\ \A n, q \in Node : WF_vars(FairExchange(n, q))
  /\ \A p \in Peer : /\ WF_vars(view[Owner] = None /\ mark_suspected(p))
                     /\ WF_vars(suspicion_expires(p))

(***************************************************************************)
(* Once crashes, missed probes and operator requests cease, every running  *)
(* node ends with the same entry: a live owner is Active everywhere with   *)
(* its own metadata, whatever was said about it, and a dead one is in no   *)
(* peer's active membership.                                               *)
(***************************************************************************)
Converges ==
  <>[](/\ \A n, q \in Node : ~ Differs(n, q)
       /\ view[Owner] = None =>
            \A p \in Peer : view[p] # None => ~ is_active(view[p].state))
=============================================================================
