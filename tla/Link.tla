-------------------------------- MODULE Link --------------------------------
(***************************************************************************)
(* The links between two nodes: the connection state of the link actor     *)
(* (crates/overlay/src/link/actor.rs) and the peer directory it dials from *)
(* (link/directory.rs), on both ends.  One action is one command, one      *)
(* swarm event or one maintenance tick of one actor.  The two ends learn   *)
(* of a connection, and of its end, at different times.                    *)
(*                                                                         *)
(* The swarm is libp2p: it refuses to dial a peer it is connected to or is *)
(* dialling already, and it opens a direct connection beside a relayed one *)
(* when hole punching succeeds.  Instants are abstracted: an entry of the  *)
(* directory waits for its next attempt or it does not.                    *)
(***************************************************************************)
EXTENDS Naturals, FiniteSets

CONSTANTS Node,            \* the two ends
          Lesser,          \* the end whose PeerId is the smaller one
          Slot,            \* bound: connections between the two at a time
          Address,         \* the addresses one end may know of the other
          RelayClient,     \* the ends that may be asked to listen through a relay
          MAX_QUARANTINED_CONNECTIONS,
          MaxFaults,       \* bound: failures, timeouts and what else may end a link
          MaxCommands,     \* bound: dials and mDNS events
          None

Transport == 0 .. 4
DIRECT_QUIC == 0
RELAYED_QUIC == 2

\* An address has the transport its dialer sees and the one the listener sees:
\* over a relay each end sees its own leg.
Addresses == [here : Transport, there : Transport, source : {"Configured", "Mdns"}]

\* A connection of the swarm: how far it is, and which ends have been told of its
\* start and of its end.
Connection ==
  [dialer : Node, here : Transport, there : Transport, stage : {"dialing", "open", "closed"},
   seen : SUBSET Node, gone : SUBSET Node]

ASSUME LinkAssumption ==
  /\ Lesser \in Node /\ (\E greater \in Node \ {Lesser} : Node = {Lesser, greater})
  /\ RelayClient \subseteq Node /\ None \notin Connection
  /\ Slot \subseteq Nat /\ Address \subseteq Addresses
  /\ MAX_QUARANTINED_CONNECTIONS \in Nat /\ MaxFaults \in Nat /\ MaxCommands \in Nat

VARIABLES swarm,           \* swarm[c]: a connection, its dialer and how far it is
          connections,     \* LinkState.connections, quarantined and
          quarantined,     \* healthy_connections: sets of connections
          healthy,
          closing,         \* connections the actor asked the swarm to close
          pending_dials,
          authorized,      \* whether the registry holds the other end to be active
          directory,       \* the entry of the other end, or None
          snapshot,        \* the LinkSnapshot last published
          advertised,      \* the edge in the link state last signed
          reserved,        \* relay_reservations holds a relay, and
          listening,       \* the swarm listens through it
          faults, commands

vars == <<swarm, connections, quarantined, healthy, closing, pending_dials, authorized,
          directory, snapshot, advertised, reserved, listening, faults, commands>>
published == <<snapshot, advertised>>
relay == <<reserved, listening>>
state == <<connections, quarantined, healthy, closing, pending_dials>>

other(n) == CHOOSE m \in Node : m # n

Fault   == faults < MaxFaults /\ faults' = faults + 1 /\ UNCHANGED commands
Command == commands < MaxCommands /\ commands' = commands + 1 /\ UNCHANGED faults

Free == {c \in Slot : swarm[c] = None}
Used == Slot \ Free

\* Slots are interchangeable, so a new connection takes the first free one.
Fresh == {c \in Free : \A d \in Free : c <= d}

NewEntry == [addresses |-> {}, waiting |-> FALSE, paused |-> FALSE]

Init ==
  /\ swarm = [c \in Slot |-> None]
  /\ connections = [n \in Node |-> {}] /\ quarantined = connections /\ healthy = connections
  /\ closing = connections /\ pending_dials = connections
  /\ authorized \in [Node -> BOOLEAN]
  /\ directory = [n \in Node |-> None]
  /\ snapshot = [n \in Node |-> [connected |-> FALSE, healthy |-> FALSE, connections |-> 0, quarantined |-> 0]]
  /\ advertised = [n \in Node |-> FALSE]
  /\ reserved = [n \in Node |-> FALSE] /\ listening = [n \in Node |-> "no"]
  /\ faults = 0 /\ commands = 0
-----------------------------------------------------------------------------
(* directory.rs                                                            *)

source_rank(source) == IF source = "Configured" THEN 0 ELSE 1

\* address_rank orders by transport, then by source.
address_rank(a) ==
  3 * (IF a.here \in {0, 2} THEN 0 ELSE IF a.here \in {1, 3} THEN 1 ELSE 2) + source_rank(a.source)

\* PeerDirectoryEntry::candidate: the best address of an entry that is due.
candidate(entry) ==
  IF entry = None THEN None
  ELSE IF entry.paused \/ entry.waiting \/ entry.addresses = {} THEN None
  ELSE CHOOSE a \in entry.addresses : \A b \in entry.addresses : address_rank(a) <= address_rank(b)

\* PeerDirectory::record: an address of both sources counts as configured.
record(entry, a) ==
  LET e    == IF entry = None THEN NewEntry ELSE entry
      same == {b \in e.addresses : b.here = a.here /\ b.there = a.there}
      best == IF \E b \in same \union {a} : b.source = "Configured" THEN "Configured" ELSE "Mdns"
  IN  [e EXCEPT !.addresses = (@ \ same) \union {[a EXCEPT !.source = best]}]

\* PeerDirectory::remove takes the address out whatever its source is.
remove(entry, a) ==
  IF entry = None THEN None
  ELSE [entry EXCEPT !.addresses = {b \in @ : b.here # a.here \/ b.there # a.there}]

\* PeerDirectory::expire: discovered addresses have a time to live.
expire(entry) ==
  IF entry = None THEN None ELSE [entry EXCEPT !.addresses = {a \in @ : a.source = "Configured"}]

resume(entry) == [entry EXCEPT !.paused = FALSE, !.waiting = FALSE]

pause(entry) == IF entry = None THEN None ELSE [entry EXCEPT !.paused = TRUE]

note_success(entry) == IF entry = None THEN None ELSE [entry EXCEPT !.waiting = FALSE]

note_failure(entry) == IF entry = None THEN None ELSE [entry EXCEPT !.waiting = TRUE]

note_connection_closed(entry) ==
  IF entry = None THEN None ELSE [entry EXCEPT !.waiting = @ \/ ~ entry.paused]
-----------------------------------------------------------------------------
(* actor.rs: LinkState                                                     *)

SnapshotOf(conns, quar, heal) ==
  [connected |-> conns # {}, healthy |-> heal \intersect conns # {},
   connections |-> Cardinality(conns), quarantined |-> Cardinality(quar)]

\* The end of handle_event: the snapshot is published if the handler says that
\* it changed, the link state is advertised if the edge did.
Publish(n, changed) ==
  /\ snapshot' = IF changed
                   THEN [snapshot EXCEPT ![n] = SnapshotOf(connections'[n], quarantined'[n], healthy'[n])]
                   ELSE snapshot
  /\ advertised' = [advertised EXCEPT ![n] = IF (connections'[n] # {}) = (connections[n] # {})
                                               THEN @ ELSE connections'[n] # {}]

\* The class of a connection is taken from the address this end sees.
transport(n, c) == IF swarm[c].dialer = n THEN swarm[c].here ELSE swarm[c].there

\* Mutant: every end prefers the connections it dialled itself.
connection_preference_Own(n, c) ==
  2 * transport(n, c) + (IF swarm[c].dialer = n THEN 0 ELSE 1)

\* Transport first, then the canonical initiator: both ends rank alike.
connection_preference(n, c) ==
  2 * transport(n, c)
    + (IF (swarm[c].dialer = n) = (n = Lesser) THEN 0 ELSE 1)

\* arbitrate_connections: all connections but the best are to be closed.
Losers(n, conns) ==
  {c \in conns : \E b \in conns : connection_preference(n, b) < connection_preference(n, c)}
-----------------------------------------------------------------------------
(* The swarm (libp2p).                                                     *)

\* What the swarm knows at end n: established connections, or a dial under way.
DialRefused(n) ==
  \E c \in Used : \/ n \in swarm[c].seen
                  \/ swarm[c].dialer = n /\ swarm[c].stage = "dialing"

NewConnection(n, a) ==
  [dialer |-> n, here |-> a.here, there |-> a.there, stage |-> "dialing", seen |-> {}, gone |-> {}]

\* dial_address: the swarm starts to dial, or refuses and the attempt failed.
dial_address(n, entry, a) ==
  IF DialRefused(n)
    THEN /\ directory' = [directory EXCEPT ![n] = note_failure(entry)]
         /\ UNCHANGED <<swarm, pending_dials>>
    ELSE \E c \in Fresh :
           /\ swarm' = [swarm EXCEPT ![c] = NewConnection(n, a)]
           /\ pending_dials' = [pending_dials EXCEPT ![n] = @ \union {c}]
           /\ directory' = [directory EXCEPT ![n] = entry]

Stage(c, from, to) ==
  /\ swarm[c] # None /\ swarm[c].stage = from
  /\ swarm' = [swarm EXCEPT ![c].stage = to]
  /\ UNCHANGED <<state, authorized, directory, published, relay>>

Opens(c) == Stage(c, "dialing", "open") /\ UNCHANGED <<faults, commands>>

\* A connection ends because an end asked for it, or because the network fails.
Closes(c) == (\E n \in Node : c \in closing[n]) /\ Stage(c, "open", "closed") /\ UNCHANGED <<faults, commands>>

LinkFails(c) == Fault /\ Stage(c, "open", "closed")

\* Hole punching (dcutr) adds a direct connection to a relayed one.
Upgrade(n) ==
  /\ \A m \in Node : connections[m] # {}
  /\ \A d \in Used : swarm[d].here >= RELAYED_QUIC
  /\ Command
  /\ \E c \in Fresh :
       swarm' = [swarm EXCEPT ![c] = [NewConnection(n, [here |-> DIRECT_QUIC, there |-> DIRECT_QUIC])
                                         EXCEPT !.stage = "open"]]
  /\ UNCHANGED <<state, authorized, directory, published, relay>>

\* The relay grants or ends a reservation: NewListenAddr, ListenerClosed.
RelayListens(n) ==
  /\ reserved[n] /\ listening[n] = "asked"
  /\ listening' = [listening EXCEPT ![n] = "yes"]
  /\ UNCHANGED <<swarm, state, authorized, directory, published, reserved, faults, commands>>

ListenerClosed(n) ==
  /\ listening[n] # "no" /\ Fault
  /\ listening' = [listening EXCEPT ![n] = "no"]
  /\ UNCHANGED <<swarm, state, authorized, directory, published, reserved>>
-----------------------------------------------------------------------------
(* actor.rs: commands                                                      *)

Dial(n, a) ==
  /\ authorized[n] /\ Command
  /\ dial_address(n, resume(record(directory[n], [a EXCEPT !.source = "Configured"])), a)
  /\ UNCHANGED <<connections, quarantined, healthy, closing, authorized, published, relay>>

\* dial_admission leaves no trace in the directory.
DialAdmission(n, a) ==
  /\ ~ DialRefused(n) /\ Command
  /\ \E c \in Fresh :
       /\ swarm' = [swarm EXCEPT ![c] = NewConnection(n, a)]
       /\ pending_dials' = [pending_dials EXCEPT ![n] = IF authorized[n] THEN @ \union {c} ELSE @]
  /\ UNCHANGED <<connections, quarantined, healthy, closing, authorized, directory, published, relay>>

\* Disconnect: no more dials until the next Dial, and the swarm closes all.
Disconnect(n) ==
  /\ Fault
  /\ directory' = [directory EXCEPT ![n] = pause(@)]
  /\ closing' = [closing EXCEPT ![n] =
                   @ \union {c \in Used : authorized[n] /\ n \in swarm[c].seen \ swarm[c].gone}]
  /\ UNCHANGED <<swarm, connections, quarantined, healthy, pending_dials, authorized, published, relay>>

\* Mutant: revoked links are not closed.
Stale_Kept(n, active) == {}

\* The connections install_authorization closes.
Stale(n, active) == IF active THEN {} ELSE connections[n]

\* CommitAuthorization: a registry arrives in which the other end is (no longer)
\* active.  Quarantined connections are promoted, revoked ones closed.
install_authorization(n, active) ==
  /\ active # authorized[n] /\ Fault
  /\ authorized' = [authorized EXCEPT ![n] = active]
  /\ directory' = [directory EXCEPT ![n] = IF active THEN @ ELSE None]
  /\ connections' = [connections EXCEPT ![n] = IF active THEN @ \union quarantined[n] ELSE @]
  /\ quarantined' = [quarantined EXCEPT ![n] = IF active THEN {} ELSE @]
  /\ closing' = [closing EXCEPT ![n] = @ \union Stale(n, active)]
  /\ snapshot' = [snapshot EXCEPT ![n] = SnapshotOf(connections'[n], quarantined'[n], healthy[n])]
  /\ advertised' = [advertised EXCEPT ![n] = connections'[n] # {}]
  /\ UNCHANGED <<swarm, healthy, pending_dials, relay>>

\* reserve_via: ask the relay unless it is being listened through; the
\* reservation is forgotten when the swarm refuses to listen.
reserve_via(n, ok) ==
  /\ reserved' = [reserved EXCEPT ![n] = ok]
  /\ listening' = [listening EXCEPT ![n] = IF ok /\ @ = "no" THEN "asked" ELSE @]

ListenViaRelay(n, ok) ==
  /\ Command /\ reserve_via(n, ok)
  /\ UNCHANGED <<swarm, state, authorized, directory, published>>
-----------------------------------------------------------------------------
(* actor.rs: the maintenance tick and mDNS                                 *)

\* Mutant: lost listeners are not noticed.
Unlistened_Never(n) == FALSE

\* A reservation without a listener.
Unlistened(n) == reserved[n] /\ listening[n] = "no"

\* The directory is dialled if it has an address that is due, then the relay.
maintain(n, entry) ==
  /\ IF candidate(entry) = None \/ connections[n] # {} \/ pending_dials[n] # {}
       THEN directory' = [directory EXCEPT ![n] = entry] /\ UNCHANGED <<swarm, pending_dials>>
       ELSE dial_address(n, entry, candidate(entry))
  /\ IF Unlistened(n) THEN reserve_via(n, TRUE) ELSE UNCHANGED relay
  /\ UNCHANGED <<connections, quarantined, healthy, closing, authorized, published>>

Maintain(n) == maintain(n, directory[n]) /\ UNCHANGED <<faults, commands>>

AddressesExpire(n) == expire(directory[n]) # directory[n] /\ Fault /\ maintain(n, expire(directory[n]))

\* On the local network only direct addresses are announced.
MdnsDiscovered(n, a) ==
  /\ a.here < RELAYED_QUIC /\ Command
  /\ maintain(n, IF authorized[n] THEN record(directory[n], [a EXCEPT !.source = "Mdns"]) ELSE directory[n])

MdnsExpired(n, a) ==
  /\ a.here < RELAYED_QUIC /\ remove(directory[n], a) # directory[n] /\ Fault
  /\ maintain(n, remove(directory[n], a))

\* Time passes: the next attempt is due.
Due(n) ==
  /\ directory[n] # None /\ directory[n].waiting
  /\ directory' = [directory EXCEPT ![n].waiting = FALSE]
  /\ UNCHANGED <<swarm, state, authorized, published, relay, faults, commands>>
-----------------------------------------------------------------------------
(* actor.rs: swarm events                                                  *)

Seen(n, c) == swarm' = [swarm EXCEPT ![c].seen = @ \union {n}]

\* Both ends learn of it, in any order, even if it is closed by then.
Established(n, c) ==
  /\ swarm[c] # None /\ swarm[c].stage # "dialing" /\ n \notin swarm[c].seen
  /\ Seen(n, c)
  /\ pending_dials' = [pending_dials EXCEPT ![n] = @ \ {c}]
  /\ \/ /\ ~ authorized[n] /\ Cardinality(quarantined[n]) >= MAX_QUARANTINED_CONNECTIONS
        /\ closing' = [closing EXCEPT ![n] = @ \union {c}]
        /\ UNCHANGED <<connections, quarantined, directory, published>>
     \/ /\ ~ authorized[n] /\ Cardinality(quarantined[n]) < MAX_QUARANTINED_CONNECTIONS
        /\ quarantined' = [quarantined EXCEPT ![n] = @ \union {c}]
        /\ UNCHANGED <<connections, closing, directory, healthy>>
        /\ Publish(n, TRUE)
     \/ /\ authorized[n]
        /\ connections' = [connections EXCEPT ![n] = @ \union {c}]
        /\ directory' = [directory EXCEPT ![n] = note_success(@)]
        /\ closing' = [closing EXCEPT ![n] = @ \union Losers(n, connections'[n])]
        /\ UNCHANGED <<quarantined, healthy>>
        /\ Publish(n, TRUE)
  /\ UNCHANGED <<healthy, authorized, relay, faults, commands>>

\* Mutant: the end of a quarantined connection is not reported.
Changed_Connected(n, c) == c \in connections[n]

\* What ConnectionClosed reports to be changed.
Changed(n, c) == c \in connections[n] \/ c \in quarantined[n]

Closed(n, c) ==
  /\ swarm[c] # None /\ swarm[c].stage = "closed" /\ n \in swarm[c].seen \ swarm[c].gone
  /\ swarm' = [swarm EXCEPT ![c] = IF swarm[c].gone \union {n} = Node THEN None
                                   ELSE [swarm[c] EXCEPT !.gone = @ \union {n}]]
  /\ pending_dials' = [pending_dials EXCEPT ![n] = @ \ {c}]
  /\ connections' = [connections EXCEPT ![n] = @ \ {c}]
  /\ quarantined' = [quarantined EXCEPT ![n] = @ \ {c}]
  /\ healthy' = [healthy EXCEPT ![n] = @ \ {c}]
  /\ closing' = [closing EXCEPT ![n] = @ \ {c}]
  /\ directory' = [directory EXCEPT ![n] = IF c \in connections[n] /\ connections'[n] = {}
                                             THEN note_connection_closed(@) ELSE @]
  /\ Publish(n, Changed(n, c))
  /\ UNCHANGED <<authorized, relay, faults, commands>>

\* Mutant: the failed dial stays among the pending ones.
Forget_Failed(n, c) == pending_dials[n]

Forget(n, c) == pending_dials[n] \ {c}

\* OutgoingConnectionError
DialFails(n, c) ==
  /\ swarm[c] # None /\ swarm[c].stage = "dialing" /\ swarm[c].dialer = n /\ Fault
  /\ swarm' = [swarm EXCEPT ![c] = None]
  /\ pending_dials' = [pending_dials EXCEPT ![n] = Forget(n, c)]
  /\ directory' = [directory EXCEPT ![n] = IF c \in pending_dials[n] THEN note_failure(@) ELSE @]
  /\ UNCHANGED <<connections, quarantined, healthy, closing, authorized, published, relay>>

\* set_connection_health tells whether the health of the node changed.
set_connection_health(n, c, ok) ==
  /\ healthy' = [healthy EXCEPT ![n] = IF ok /\ c \in connections[n] THEN @ \union {c} ELSE @ \ {c}]
  /\ Publish(n, /\ c \in connections[n]
                /\ (healthy[n] \intersect connections[n] # {}) # (healthy'[n] \intersect connections[n] # {}))

Ping(n, c, ok) ==
  /\ swarm[c] # None /\ n \in swarm[c].seen \ swarm[c].gone
  /\ IF ok THEN swarm[c].stage = "open" /\ UNCHANGED <<closing, faults, commands>>
           ELSE Fault /\ closing' = [closing EXCEPT ![n] = @ \union {c}]
  /\ UNCHANGED <<swarm, connections, quarantined, pending_dials, authorized, directory, relay>>
  /\ set_connection_health(n, c, ok)

\* close_timed_out_peer: the only connection, or an unhealthy one.
close_timed_out_peer(n) ==
  /\ Fault
  /\ \E c \in connections[n] :
       /\ connections[n] = {c} \/ c \notin healthy[n]
       /\ closing' = [closing EXCEPT ![n] = @ \union {c}]
  /\ UNCHANGED <<swarm, connections, quarantined, healthy, pending_dials, authorized, directory, published, relay>>
-----------------------------------------------------------------------------
\* What the swarm does with a connection and tells of it.
Events(c) == Opens(c) \/ Closes(c) \/ \E n \in Node : Established(n, c) \/ Closed(n, c)

Disturbances ==
  \/ \E c \in Slot : LinkFails(c)
  \/ \E n \in Node : \/ Disconnect(n) \/ ListenerClosed(n) \/ close_timed_out_peer(n) \/ AddressesExpire(n)
                     \/ \E active \in BOOLEAN : install_authorization(n, active)
                     \/ \E c \in Slot : DialFails(n, c) \/ Ping(n, c, FALSE)
                     \/ \E a \in Address : MdnsExpired(n, a)

Commands ==
  \E n \in Node : \/ \E a \in Address : Dial(n, a) \/ DialAdmission(n, a) \/ MdnsDiscovered(n, a)
                  \/ n \in RelayClient /\ \E ok \in BOOLEAN : ListenViaRelay(n, ok)
                  \/ Upgrade(n)

Timers(n) == Maintain(n) \/ Due(n)

Next ==
  \/ Disturbances \/ Commands
  \/ \E c \in Slot : Events(c)
  \/ \E n \in Node : Timers(n) \/ RelayListens(n) \/ \E c \in Slot : Ping(n, c, TRUE)

\* The swarm delivers its events, and the interval timer and the clock run on.
Fairness ==
  /\ \A c \in Slot : WF_vars(Events(c))
  /\ \A n \in Node : WF_vars(Timers(n)) /\ WF_vars(RelayListens(n))

Spec == Init /\ [][Next]_vars /\ Fairness
-----------------------------------------------------------------------------
\* What the actor publishes is what is: after every handler the LinkSnapshot
\* that readers wait on and the edge in the signed link state are those of the
\* connection tables, although handlers publish only what they report changed.
PublishedTrue ==
  \A n \in Node : /\ snapshot[n] = SnapshotOf(connections[n], quarantined[n], healthy[n])
                  /\ advertised[n] = (connections[n] # {})

\* A connection serves cluster traffic only while its peer is authorised: one
\* that is not is quarantined or on its way out, and none stays quarantined
\* after the registry that authorises it.
AuthorizedOnly ==
  \A n \in Node : IF authorized[n] THEN quarantined[n] = {} ELSE connections[n] \subseteq closing[n]

\* Closing a duplicate never changes the logical edge: while nothing else ends
\* connections, two authorised ends that have opened one never ask for the end
\* of all they have, whatever dials cross and in whatever order they arbitrate.
EdgeSurvives ==
  (/\ faults = 0 /\ \A n \in Node : authorized[n]
   /\ \E c \in Used : swarm[c].stage # "dialing")
  => \E c \in Used : swarm[c].stage = "open" /\ \A n \in Node : c \notin closing[n]

\* What is published is true, only authorised peers are served, and arbitration
\* keeps the edge.
LinkSound == PublishedTrue /\ AuthorizedOnly /\ EdgeSurvives

Reachable(n) ==
  /\ directory[n] # None /\ directory[n].addresses # {} /\ ~ directory[n].paused
  /\ \A m \in Node : authorized[m]

\* The edge comes back: from any failures, a node whose directory keeps an
\* address of an authorised peer is connected to it in the end and for good.
Connected == \A n \in Node : Reachable(n) => \A m \in Node : connections[m] # {}
Reconnects == <>[]Connected

\* A relay reservation is taken up again after its listener is lost.
Listening == \A n \in RelayClient : reserved[n] => listening[n] = "yes"
RelayRegained == <>[]Listening
=============================================================================
