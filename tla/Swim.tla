-------------------------------- MODULE Swim --------------------------------
(***************************************************************************)
(* One member's register as the cluster replicates it: the SWIM handlers   *)
(* of crates/membership/src/swim.rs behind the membership service and the  *)
(* gossip, state-message and anti-entropy paths of crates/daemon.          *)
(*                                                                         *)
(* No handler relates the registers of two members, so the cluster is the  *)
(* product of one copy of this module per member.  `Owner' is the member;  *)
(* view[Owner] is its own register (None while its process is down), and   *)
(* view[p] is what peer p knows about it (None before p has heard of it).  *)
(*                                                                         *)
(* Time is abstract here: a probe of the owner may be found missed at any  *)
(* moment, and a suspicion may expire at any moment.  SwimDetector models  *)
(* the clock, the pings and the timers of Swim::tick behind the two steps. *)
(***************************************************************************)
EXTENDS Register, FiniteSets

CONSTANTS Owner, Peer,
          None,
          Address, Annotation,   \* what configuration and extensions may set
          PersistMayFail,        \* whether MetaStorage::set may return an error
          MaxIncarnation,        \* bound: the owner's incarnations
          MaxHeartbeat,          \* bound: heartbeats the owner adds
          MaxInbox,              \* bound: messages in flight to one node
          MaxEvents              \* bound: exogenous events (see Event)

ASSUME SwimAssumption ==
  /\ Owner \notin Peer
  /\ None \notin MemberRegister
  /\ Address \subseteq Nat /\ Annotation \subseteq Nat
  /\ PersistMayFail \in BOOLEAN
  /\ MaxIncarnation \in Nat /\ MaxIncarnation < U64Max
  /\ MaxHeartbeat \in Nat /\ MaxHeartbeat <= U64Max

Node == Peer \union {Owner}

VARIABLES view,     \* Swim::membership, the owner's entry
          disk,     \* the node meta table's local_incarnation; 0 when absent
          saved,    \* MembershipState::persisted_incarnation of the owner
          inbox,    \* inbox[n]: messages in flight to n
          seen,     \* seen[n]: ClusterSync::seen_states
          events    \* exogenous events so far

vars == <<view, disk, saved, inbox, seen, events>>

(***************************************************************************)
(* Messages.  A register travels in a push, a fetch response, a            *)
(* push_registers or a full sync; they all end in handle_alive_state.      *)
(* Receivers deduplicate and forward pushes (module Gossip): forwarding    *)
(* re-sends a push to nodes it was already sent to and deduplication       *)
(* handles it once, so a push is in flight to each node until it is        *)
(* delivered there, once, or lost.                                         *)
(***************************************************************************)
Alive(r)     == [type |-> "Alive", register |-> r]
Rumour(k, i) == [type |-> k, incarnation |-> i]

Init ==
  /\ view = [n \in Node |-> None]
  /\ disk = 0
  /\ saved = 0
  /\ inbox = [n \in Node |-> {}]
  /\ seen = [n \in Node |-> {}]
  /\ events = 0

(***************************************************************************)
(* Exogenous events: crashes, missed probes of a live owner, operator      *)
(* requests and lost messages.                                             *)
(***************************************************************************)
Event == events < MaxEvents /\ events' = events + 1

(***************************************************************************)
(* Message set msgs is sent to every node but n; a message to a node with  *)
(* MaxInbox messages in flight is lost.                                    *)
(***************************************************************************)
SentTo(box, n, msgs) ==
  [m \in Node |->
     IF m # n /\ Cardinality(box[m] \union msgs) <= MaxInbox
       THEN box[m] \union msgs ELSE box[m]]

(***************************************************************************)
(* MembershipState::persist_local_incarnation, after every mutation.       *)
(***************************************************************************)
\* Mutant: only the boot persists.
persist_local_incarnation_BootOnly(r) == UNCHANGED <<disk, saved>>

persist_local_incarnation(r) ==
  IF r = None \/ r.incarnation = saved
    THEN UNCHANGED <<disk, saved>>
    ELSE \/ disk' = r.incarnation /\ saved' = r.incarnation
         \/ PersistMayFail /\ UNCHANGED <<disk, saved>>

(***************************************************************************)
(* A mutation of n's entry, with the broadcasts it produces; a rumour n    *)
(* broadcasts or receives is recorded in its dedup set.                    *)
(***************************************************************************)
Apply(n, box, h) ==
  /\ h.register # None => h.register.incarnation <= MaxIncarnation
  /\ view' = [view EXCEPT ![n] = h.register]
  /\ IF n = Owner THEN persist_local_incarnation(h.register)
                  ELSE UNCHANGED <<disk, saved>>
  /\ inbox' = SentTo(box, n, h.out)
  /\ seen' = [seen EXCEPT ![n] = @ \union {m \in h.out \union (inbox[n] \ box[n]) :
                                              m.type # "Alive"}]
-----------------------------------------------------------------------------
(* Swim::on_message: the new entry and the messages to broadcast.          *)

Quiet(r) == [register |-> r, out |-> {}]

refute_and_broadcast(r) ==
  [register |-> refute(r), out |-> {Alive(refute(r))}]

\* Mutant: only suspicions are refuted, not Leaving or Offline verdicts.
refute_if_dominated_SuspectOnly(own, rumour) ==
  IF rumour.state # "Suspected" \/ own.state = "Leaving" \/ dominates(own, rumour)
    THEN Quiet(own)
    ELSE refute_and_broadcast(own)

refute_if_dominated(own, rumour) ==
  IF rumour.state = "Active" \/ own.state = "Leaving" \/ dominates(own, rumour)
    THEN Quiet(own)
    ELSE refute_and_broadcast(own)

\* Mutant: a register about the node itself is merged like any other.
handle_alive_state_MergesOwn(n, r) ==
  Quiet(IF view[n] = None THEN r ELSE merge(view[n], r))

\* Mutant: the latest register received replaces the entry.
handle_alive_state_Overwrites(n, r) ==
  IF n = Owner THEN refute_if_dominated(view[n], r) ELSE Quiet(r)

handle_alive_state(n, r) ==
  IF n = Owner THEN refute_if_dominated(view[n], r)
  ELSE Quiet(IF view[n] = None THEN r ELSE merge(view[n], r))

handle_suspect_state(n, i) ==
  IF n = Owner
    THEN IF view[n].state # "Leaving" /\ i >= view[n].incarnation
           THEN refute_and_broadcast(view[n])
           ELSE Quiet(view[n])
    ELSE IF view[n] = None \/ view[n].incarnation > i
           THEN Quiet(view[n])
           ELSE Quiet(merge(view[n], suspect([view[n] EXCEPT !.incarnation = i])))

handle_leave_state(n, i) ==
  IF n = Owner \/ view[n] = None \/ view[n].incarnation > i
    THEN Quiet(view[n])
    ELSE Quiet(merge(view[n], leave([view[n] EXCEPT !.incarnation = i])))

on_message(n, m) ==
  CASE m.type = "Alive"    -> handle_alive_state(n, m.register)
    [] m.type = "Suspect"  -> handle_suspect_state(n, m.incarnation)
    [] m.type = "Leave"    -> handle_leave_state(n, m.incarnation)
-----------------------------------------------------------------------------
(* Receiving.                                                              *)

Running(n) == n = Owner => view[n] # None

Taken(n, m) == [inbox EXCEPT ![n] = @ \ {m}]

\* MembershipService::register or sync_nodes on a register about the owner.
receive_register(n, m) ==
  /\ Running(n) /\ m \in inbox[n] /\ m.type = "Alive"
  /\ Apply(n, Taken(n, m), on_message(n, m))
  /\ UNCHANGED events

\* A Suspect or Leave rumour; one that the dedup set holds is dropped.
serve_state_message(n, m) ==
  /\ Running(n) /\ m \in inbox[n] /\ m.type # "Alive"
  /\ Apply(n, Taken(n, m), IF m \in seen[n] THEN Quiet(view[n]) ELSE on_message(n, m))
  /\ UNCHANGED events

Lose(n, m) ==
  /\ m \in inbox[n]
  /\ Event
  /\ inbox' = Taken(n, m)
  /\ UNCHANGED <<view, disk, saved, seen>>
-----------------------------------------------------------------------------
(* Anti-entropy: sync_with_peer exchanges the entries whose hashes differ. *)

Hash(n) == IF view[n] = None THEN <<>> ELSE hash_register(view[n])

Differs(n, q) == Running(n) /\ Running(q) /\ n # q /\ Hash(n) # Hash(q)

\* Mutant: a member the serving node does not know is answered with an empty
\* register.
Exchange_Unknown(n, q) ==
  /\ Differs(n, q)
  /\ Alive(view[q]) \notin inbox[n]
  /\ Cardinality(inbox[n]) < MaxInbox
  /\ inbox' = [inbox EXCEPT ![n] = @ \union {Alive(view[q])}]
  /\ UNCHANGED <<view, disk, saved, seen, events>>

\* The register of q travels to n, in a fetch response or a push_registers.
Exchange(n, q) ==
  /\ Differs(n, q)
  /\ view[q] # None
  /\ Alive(view[q]) \notin inbox[n]
  /\ Cardinality(inbox[n]) < MaxInbox
  /\ inbox' = [inbox EXCEPT ![n] = @ \union {Alive(view[q])}]
  /\ UNCHANGED <<view, disk, saved, seen, events>>
-----------------------------------------------------------------------------
(* The owner.                                                              *)

\* runtime::run_inner: resume the persisted incarnation, rejoin, persist.
Boot(a) ==
  /\ view[Owner] = None
  /\ disk < MaxIncarnation
  /\ LET r == rejoin(new(a, a, 0, disk), a)
     IN  /\ view' = [view EXCEPT ![Owner] = r]
         /\ saved' = r.incarnation
         /\ \/ disk' = r.incarnation
            \/ PersistMayFail /\ UNCHANGED disk
  /\ seen' = [seen EXCEPT ![Owner] = {}]
  /\ UNCHANGED <<inbox, events>>

Down ==
  /\ view' = [view EXCEPT ![Owner] = None]
  /\ UNCHANGED <<disk, saved, inbox, seen>>

Crash == view[Owner] # None /\ Event /\ Down

\* The local branch of ClusterService::leave ends in shutdown.
Shutdown ==
  /\ view[Owner] # None
  /\ view[Owner].state = "Leaving"
  /\ Down
  /\ UNCHANGED events

\* Swim::tick on the owner's own entry.
Heartbeat ==
  /\ view[Owner] # None
  /\ view[Owner].heartbeat < MaxHeartbeat
  /\ Apply(Owner, inbox, Quiet(bump_heartbeat(view[Owner])))
  /\ UNCHANGED events

update_local_annotations(x) ==
  /\ view[Owner] # None
  /\ view[Owner].annotations # x
  /\ view[Owner].heartbeat < MaxHeartbeat
  /\ LET updated == bump_heartbeat([view[Owner] EXCEPT !.annotations = x])
     IN  Apply(Owner, inbox, [register |-> merge(view[Owner], updated),
                                  out |-> {Alive(updated)}])
  /\ UNCHANGED events
-----------------------------------------------------------------------------
(* The failure detector and the operator, at node n.                       *)

\* MembershipService::leave: of the node itself, or of another member.
leave_node(n) ==
  /\ Running(n)
  /\ Event
  /\ LET i == IF view[n] = None THEN 1 ELSE view[n].incarnation
         r == IF n = Owner THEN leave(view[n]) ELSE handle_leave_state(n, i).register
     IN  Apply(n, inbox, [register |-> r, out |-> {Rumour("Leave", i)}])

\* Swim::mark_suspected after failure_threshold missed probes.  A probe of a
\* running owner is missed only by a fault.
mark_suspected(p) ==
  /\ view[p] # None
  /\ view[p].state = "Active"
  /\ IF view[Owner] = None THEN UNCHANGED events ELSE Event
  /\ Apply(p, inbox, [register |-> suspect(view[p]),
                          out |-> {Rumour("Suspect", view[p].incarnation)}])

\* Swim::check_suspect_timeouts.
suspicion_expires(p) ==
  /\ view[p] # None
  /\ view[p].state = "Suspected"
  /\ Apply(p, inbox, [register |-> offline(view[p]),
                          out |-> {Alive(offline(view[p]))}])
  /\ UNCHANGED events

\* A peer's process crashes and restarts: its view and dedup sets are lost.
PeerRestart(p) ==
  /\ Event
  /\ view' = [view EXCEPT ![p] = None]
  /\ seen' = [seen EXCEPT ![p] = {}]
  /\ UNCHANGED <<disk, saved, inbox>>

Receive(n, m) == receive_register(n, m) \/ serve_state_message(n, m)

\* Everything but the two ways the owner refreshes an entry it goes on spreading.
Changes ==
  \/ \E a \in Address : Boot(a)
  \/ Crash
  \/ Shutdown
  \/ \E n \in Node : leave_node(n)
  \/ \E n, q \in Node : Exchange(n, q)
  \/ \E n \in Node : \E m \in inbox[n] : Receive(n, m) \/ Lose(n, m)
  \/ \E p \in Peer : mark_suspected(p) \/ suspicion_expires(p) \/ PeerRestart(p)

Next ==
  \/ Changes
  \/ Heartbeat
  \/ \E x \in Annotation : update_local_annotations(x)

Spec == Init /\ [][Next]_vars
-----------------------------------------------------------------------------
(* Correctness.                                                            *)

\* Every register held by a node or in flight to one.
Registers ==
  {view[n] : n \in {k \in Node : view[k] # None}}
  \union UNION {{m.register : m \in {k \in inbox[n] : k.type = "Alive"}} : n \in Node}

\* Every incarnation a rumour in flight names.
Rumoured ==
  UNION {{m.incarnation : m \in {k \in inbox[n] : k.type # "Alive"}} : n \in Node}

Message ==
  [type : {"Alive"}, register : MemberRegister]
  \union [type : {"Suspect", "Leave"}, incarnation : U64]

TypeOK ==
  /\ view \in [Node -> MemberRegister \union {None}]
  /\ disk \in U64 /\ saved \in U64 /\ events \in Nat
  /\ inbox \in [Node -> SUBSET Message]
  /\ seen \in [Node -> SUBSET Message]

(***************************************************************************)
(* Restart monotonicity: as long as the meta table accepts writes, no node *)
(* and no message ever carries an incarnation the owner has not made       *)
(* durable, through every crash, refutation and rumour that rewrites an    *)
(* incarnation (persist_local_incarnation, Boot).  A Leave of a member the *)
(* node does not know names incarnation 1.                                 *)
(***************************************************************************)
IncarnationsDurable ==
  /\ \A r \in Registers : r.incarnation <= disk
  /\ \A i \in Rumoured : i <= disk \/ i = 1

(***************************************************************************)
(* Only the member moves its own register back to life: the owner's entry  *)
(* is Active or Leaving, and an Active register of its current incarnation *)
(* is no newer than the owner's and carries the address of its boot.       *)
(***************************************************************************)
LivenessIsOwned ==
  view[Owner] # None =>
    /\ view[Owner].state \in {"Active", "Leaving"}
    /\ \A r \in Registers :
         r.state = "Active" /\ r.incarnation = view[Owner].incarnation =>
           /\ r.heartbeat <= view[Owner].heartbeat
           /\ r.address = view[Owner].address

(***************************************************************************)
(* No handler takes a view backwards in the merge order: a peer's entry is *)
(* replaced by one at or above it, or lost with the process.               *)
(***************************************************************************)
ViewsClimb ==
  [][\A p \in Peer :
       view[p] # None /\ view'[p] # None => ~ dominates(view[p], view'[p])]_vars

(***************************************************************************)
(* "Bumping the persisted incarnation makes the fresh Active register      *)
(* dominate any suspect or offline rumor the cluster still holds", and     *)
(* refutation "produces a strictly dominant register": a step that gives   *)
(* the owner a new incarnation puts it above every register anywhere.      *)
(***************************************************************************)
FreshIncarnationDominates ==
  [][view'[Owner] # None /\
     (view[Owner] = None \/ view'[Owner].incarnation # view[Owner].incarnation)
       => \A r \in Registers : dominates(view'[Owner], r)]_vars

(***************************************************************************)
(* "Stale duplicates cannot revert newer labels or annotations"            *)
(* (MemberRegister::merge): a peer that knows the owner's current address  *)
(* and labels at its current incarnation does not go back to others while  *)
(* it stays at that incarnation.                                           *)
(***************************************************************************)
MetadataNeverReverts ==
  [][\A p \in Peer :
       /\ view[Owner] # None /\ view[p] # None /\ view'[p] # None
       /\ view[p].incarnation = view[Owner].incarnation
       /\ view'[p].incarnation = view[p].incarnation
       /\ view[p].address = view[Owner].address
       => view'[p].address = view[p].address]_vars
=============================================================================
