----------------------------- MODULE LinkProofs -----------------------------
(***************************************************************************)
(* LinkSound for any number of connections, addresses, commands and faults.*)
(*                                                                         *)
(* PublishedTrue and AuthorizedOnly are inductive with the types.          *)
(* EdgeSurvives is not.  Its strengthening says that while nothing fails a *)
(* connection is closed, or asked to be closed, only if a better one is up *)
(* (Beaten).  Both ends rank connections alike, so the best of those that  *)
(* are up is beaten by none and stays.                                     *)
(*                                                                         *)
(* Most actions leave the tables of the actors alone.  They are treated    *)
(* together, by what they do to the swarm (Background).                    *)
(***************************************************************************)
EXTENDS Link, FiniteSetTheorems, WellFoundedInduction, TLAPS

\* Both ends of a connection see the same class of transport.  It may differ only
\* for a relay that is reached over QUIC from one end and over TCP from the other.
SameTransport == \A a \in Address : a.here = a.there

KnownAddress == {a \in Addresses : SameTransport => a.here = a.there}
KnownConnection == {k \in Connection : SameTransport => k.here = k.there}

Entry == [addresses : SUBSET KnownAddress, waiting : BOOLEAN, paused : BOOLEAN]

\* The type invariant of what LinkSound depends on.
SwarmTyped == swarm \in [Slot -> KnownConnection \union {None}]
DirectoryTyped == directory \in [Node -> Entry \union {None}]
PublishedTyped == snapshot = [n \in Node |-> snapshot[n]] /\ advertised \in [Node -> BOOLEAN]
TablesTyped ==
  /\ connections \in [Node -> SUBSET Slot] /\ quarantined \in [Node -> SUBSET Slot]
  /\ healthy \in [Node -> SUBSET Slot] /\ closing \in [Node -> SUBSET Slot]
  /\ authorized \in [Node -> BOOLEAN]

LinkTyped == SwarmTyped /\ DirectoryTyped /\ PublishedTyped /\ TablesTyped /\ faults \in Nat
-----------------------------------------------------------------------------
(* The directory.                                                          *)

\* A set of numbers that is not empty has a least element.
LEMMA Least ==
  ASSUME NEW S \in SUBSET Nat, S # {}
  PROVE  \E x \in S : \A y \in S : x <= y
  <1>1. PICK x \in S : \A y \in S : ~ (<<y, x>> \in OpToRel(<, Nat))
    BY NatLessThanWellFounded, WFMin
  <1>2. OpToRel(<, Nat) = {ss \in Nat \X Nat : ss[1] < ss[2]}
    BY DEF OpToRel
  <1>3. \A y \in S : ~ (y < x)
    <2> SUFFICES ASSUME NEW y \in S, y < x PROVE FALSE
      OBVIOUS
    <2>1. <<y, x>> \in {ss \in Nat \X Nat : ss[1] < ss[2]}
      OBVIOUS
    <2> QED
      BY <1>1, <1>2, <2>1
  <1> QED
    BY <1>3

\* PeerDirectoryEntry::candidate returns an address of the entry.
LEMMA CandidateKnown ==
  ASSUME NEW e \in Entry \union {None}, candidate(e) # None
  PROVE  candidate(e) \in KnownAddress
  <1>1. e \in Entry /\ e.addresses # {} /\ e.addresses \subseteq KnownAddress
    BY DEF candidate, Entry
  <1>2. \A a \in KnownAddress : address_rank(a) \in Nat
    BY DEF address_rank, source_rank, KnownAddress, Addresses, Transport
  <1>3. PICK a \in e.addresses : \A b \in e.addresses : address_rank(a) <= address_rank(b)
    <2> DEFINE S == {address_rank(a) : a \in e.addresses}
    <2>1. S \in SUBSET Nat /\ S # {}
      BY <1>1, <1>2
    <2>2. PICK x \in S : \A y \in S : x <= y
      BY <2>1, Least
    <2> QED
      BY <2>2
  <1>4. candidate(e) \in e.addresses
    BY <1>1, <1>3 DEF candidate
  <1> QED
    BY <1>1, <1>4

\* Every operation of the directory yields an entry.
LEMMA DirectoryOps ==
  ASSUME NEW e \in Entry \union {None}
  PROVE  /\ \A a \in KnownAddress : record(e, a) \in Entry /\ remove(e, a) \in Entry \union {None}
         /\ expire(e) \in Entry \union {None} /\ pause(e) \in Entry \union {None}
         /\ note_success(e) \in Entry \union {None} /\ note_failure(e) \in Entry \union {None}
         /\ note_connection_closed(e) \in Entry \union {None}
         /\ e \in Entry => resume(e) \in Entry
  <1>1. ASSUME NEW a \in KnownAddress PROVE record(e, a) \in Entry
    <2> DEFINE x == IF e = None THEN NewEntry ELSE e
    <2>1. x \in Entry
      BY DEF NewEntry, Entry
    <2>2. \A s \in {"Configured", "Mdns"} : [a EXCEPT !.source = s] \in KnownAddress
      BY DEF KnownAddress, Addresses
    <2> QED
      BY <2>1, <2>2 DEF record, Entry
  <1>2. ASSUME NEW a \in KnownAddress PROVE remove(e, a) \in Entry \union {None}
    BY DEF remove, Entry
  <1>3. expire(e) \in Entry \union {None} /\ pause(e) \in Entry \union {None}
    BY DEF expire, pause, Entry
  <1>4. note_success(e) \in Entry \union {None} /\ note_failure(e) \in Entry \union {None}
    BY DEF note_success, note_failure, Entry
  <1>5. note_connection_closed(e) \in Entry \union {None}
    BY DEF note_connection_closed, Entry
  <1>6. e \in Entry => resume(e) \in Entry
    BY DEF resume, Entry
  <1> QED
    BY <1>1, <1>2, <1>3, <1>4, <1>5, <1>6
-----------------------------------------------------------------------------
(* The steps.                                                              *)

\* What a step that leaves the actors' tables alone does to the swarm: nothing,
\* or it starts, opens, closes or drops one connection.
SwarmStep ==
  \/ UNCHANGED swarm
  \/ \E c \in Slot, k \in KnownConnection :
       /\ swarm[c] = None /\ k.stage # "closed" /\ k.seen = {} /\ k.gone = {}
       /\ swarm' = [swarm EXCEPT ![c] = k]
  \/ \E c \in Slot :
       /\ swarm[c] # None
       /\ \/ swarm[c].stage = "dialing" /\ swarm' = [swarm EXCEPT ![c].stage = "open"]
          \/ /\ swarm[c].stage = "open" /\ swarm' = [swarm EXCEPT ![c].stage = "closed"]
             /\ faults' # 0 \/ \E n \in Node : c \in closing[n]
          \/ swarm[c].stage = "dialing" /\ swarm' = [swarm EXCEPT ![c] = None]

Background ==
  SwarmStep /\ UNCHANGED <<connections, quarantined, healthy, closing, authorized, snapshot, advertised>>

\* The steps that change the tables of an actor.
ActorStep(n) ==
  \/ Disconnect(n) \/ close_timed_out_peer(n)
  \/ \E active \in BOOLEAN : install_authorization(n, active)
  \/ \E c \in Slot : Established(n, c) \/ Closed(n, c) \/ \E ok \in BOOLEAN : Ping(n, c, ok)

LEMMA NewConnectionKnown ==
  ASSUME NEW n \in Node, NEW a, a \in KnownAddress \/ a = [here |-> DIRECT_QUIC, there |-> DIRECT_QUIC]
  PROVE  /\ NewConnection(n, a) \in KnownConnection
         /\ [NewConnection(n, a) EXCEPT !.stage = "open"] \in KnownConnection
  BY DEF NewConnection, KnownConnection, Connection, KnownAddress, Addresses, Transport, DIRECT_QUIC

LEMMA DialBackground ==
  ASSUME LinkTyped, NEW n \in Node, NEW e \in Entry \union {None}, NEW a \in KnownAddress, dial_address(n, e, a)
  PROVE  SwarmStep /\ DirectoryTyped'
  <1>1. CASE DialRefused(n)
    BY <1>1, DirectoryOps DEF dial_address, SwarmStep, LinkTyped, DirectoryTyped
  <1>2. CASE ~ DialRefused(n)
    <2>1. PICK c \in Fresh : /\ swarm' = [swarm EXCEPT ![c] = NewConnection(n, a)]
                             /\ directory' = [directory EXCEPT ![n] = e]
      BY <1>2 DEF dial_address
    <2>2. c \in Slot /\ swarm[c] = None
      BY DEF Fresh, Free
    <2>3. /\ NewConnection(n, a) \in KnownConnection /\ NewConnection(n, a).stage = "dialing"
          /\ NewConnection(n, a).seen = {} /\ NewConnection(n, a).gone = {}
      BY NewConnectionKnown DEF NewConnection
    <2>4. SwarmStep
      BY <2>1, <2>2, <2>3 DEF SwarmStep
    <2> QED
      BY <2>1, <2>4 DEF LinkTyped, DirectoryTyped
  <1> QED
    BY <1>1, <1>2

LEMMA MaintainBackground ==
  ASSUME LinkTyped, NEW n \in Node, NEW e \in Entry \union {None}, maintain(n, e)
  PROVE  Background /\ DirectoryTyped'
  <1>1. UNCHANGED <<connections, quarantined, healthy, closing, authorized, snapshot, advertised>>
    BY DEF maintain, published
  <1>2. CASE candidate(e) = None \/ connections[n] # {} \/ pending_dials[n] # {}
    BY <1>1, <1>2 DEF maintain, Background, SwarmStep, LinkTyped, DirectoryTyped
  <1>3. CASE ~ (candidate(e) = None \/ connections[n] # {} \/ pending_dials[n] # {})
    <2>1. dial_address(n, e, candidate(e)) /\ candidate(e) \in KnownAddress
      BY <1>3, CandidateKnown DEF maintain
    <2> QED
      BY <1>1, <2>1, DialBackground DEF Background
  <1> QED
    BY <1>2, <1>3

\* Every step of Next is one or the other, and keeps the directory.
LEMMA Steps ==
  ASSUME LinkTyped, [Next]_vars
  PROVE  /\ Background \/ \E n \in Node : ActorStep(n)
         /\ DirectoryTyped'
  <1> DEFINE Goal == /\ Background \/ \E n \in Node : ActorStep(n)
                     /\ DirectoryTyped'
  <1> USE DEF published, relay, state
  <1> USE DEF DirectoryTyped
  <1>a. DirectoryTyped
    BY DEF LinkTyped
  <1>b. \A a \in Address : \A x \in {"Configured", "Mdns"} :
          a \in KnownAddress /\ [a EXCEPT !.source = x] \in KnownAddress
    BY LinkAssumption DEF KnownAddress, Addresses, SameTransport
  <1>1. CASE UNCHANGED vars
    BY <1>1, <1>a DEF vars, Background, SwarmStep
  <1>2. CASE \E c \in Slot : Opens(c) \/ Closes(c) \/ LinkFails(c)
    <2>1. PICK c \in Slot : Opens(c) \/ Closes(c) \/ LinkFails(c)
      BY <1>2
    <2>2. CASE Opens(c)
      BY <2>2, <1>a DEF Opens, Stage, Background, SwarmStep
    <2>3. CASE Closes(c)
      BY <2>3, <1>a DEF Closes, Stage, Background, SwarmStep
    <2>4. CASE LinkFails(c)
      <3>1. faults' # 0
        BY <2>4 DEF LinkFails, Fault, LinkTyped
      <3> QED
        BY <2>4, <3>1, <1>a DEF LinkFails, Stage, Background, SwarmStep
    <2> QED
      BY <2>1, <2>2, <2>3, <2>4
  <1>3. CASE \E n \in Node : Maintain(n) \/ Due(n) \/ RelayListens(n) \/ ListenerClosed(n)
    <2>1. PICK n \in Node : Maintain(n) \/ Due(n) \/ RelayListens(n) \/ ListenerClosed(n)
      BY <1>3
    <2>2. CASE Maintain(n)
      BY <2>2, <1>a, MaintainBackground DEF Maintain
    <2>3. CASE Due(n)
      BY <2>3, <1>a DEF Due, Background, SwarmStep, Entry
    <2>4. CASE RelayListens(n) \/ ListenerClosed(n)
      BY <2>4, <1>a DEF RelayListens, ListenerClosed, Background, SwarmStep
    <2> QED
      BY <2>1, <2>2, <2>3, <2>4
  <1>4. CASE \E n \in Node : AddressesExpire(n) \/ \E a \in Address : MdnsExpired(n, a) \/ MdnsDiscovered(n, a)
    <2>1. PICK n \in Node : AddressesExpire(n) \/ \E a \in Address : MdnsExpired(n, a) \/ MdnsDiscovered(n, a)
      BY <1>4
    <2>2. CASE AddressesExpire(n)
      BY <2>2, <1>a, DirectoryOps, MaintainBackground DEF AddressesExpire
    <2>3. ASSUME NEW a \in Address, MdnsExpired(n, a) PROVE Goal
      <3>1. remove(directory[n], a) \in Entry \union {None}
        BY <1>a, <1>b, DirectoryOps
      <3> QED
        BY <2>3, <3>1, MaintainBackground DEF MdnsExpired
    <2>4. ASSUME NEW a \in Address, MdnsDiscovered(n, a) PROVE Goal
      <3>1. record(directory[n], [a EXCEPT !.source = "Mdns"]) \in Entry
        BY <1>a, <1>b, DirectoryOps
      <3> QED
        BY <2>4, <1>a, <3>1, MaintainBackground DEF MdnsDiscovered
    <2> QED
      BY <2>1, <2>2, <2>3, <2>4
  <1>5. ASSUME NEW n \in Node, NEW a \in Address, Dial(n, a) \/ DialAdmission(n, a) PROVE Goal
    <2>1. CASE Dial(n, a)
      <3> DEFINE e == resume(record(directory[n], [a EXCEPT !.source = "Configured"]))
      <3>1. e \in Entry
        BY <1>a, <1>b, DirectoryOps
      <3>2. /\ dial_address(n, e, a)
            /\ UNCHANGED <<connections, quarantined, healthy, closing, authorized, snapshot, advertised>>
        BY <2>1 DEF Dial
      <3> HIDE DEF e
      <3> QED
        BY <3>1, <3>2, <1>b, DialBackground DEF Background
    <2>2. CASE DialAdmission(n, a)
      <3>1. PICK c \in Fresh : swarm' = [swarm EXCEPT ![c] = NewConnection(n, a)]
        BY <2>2 DEF DialAdmission
      <3>2. c \in Slot /\ swarm[c] = None
        BY DEF Fresh, Free
      <3>3. /\ NewConnection(n, a) \in KnownConnection /\ NewConnection(n, a).stage = "dialing"
            /\ NewConnection(n, a).seen = {} /\ NewConnection(n, a).gone = {}
        BY <1>b, NewConnectionKnown DEF NewConnection
      <3>4. SwarmStep
        BY <3>1, <3>2, <3>3 DEF SwarmStep
      <3> QED
        BY <2>2, <3>4, <1>a DEF DialAdmission, Background
    <2> QED
      BY <1>5, <2>1, <2>2
  <1>6. ASSUME NEW n \in Node, Upgrade(n) PROVE Goal
    <2> DEFINE k == [NewConnection(n, [here |-> DIRECT_QUIC, there |-> DIRECT_QUIC]) EXCEPT !.stage = "open"]
    <2>1. PICK c \in Fresh : swarm' = [swarm EXCEPT ![c] = k]
      BY <1>6 DEF Upgrade
    <2>2. c \in Slot /\ swarm[c] = None
      BY DEF Fresh, Free
    <2>3. k \in KnownConnection /\ k.stage = "open" /\ k.seen = {} /\ k.gone = {}
      BY NewConnectionKnown DEF NewConnection
    <2>4. SwarmStep
      BY <2>1, <2>2, <2>3 DEF SwarmStep
    <2> QED
      BY <1>6, <2>4, <1>a DEF Upgrade, Background
  <1>7. ASSUME NEW n \in Node, \E ok \in BOOLEAN : ListenViaRelay(n, ok) PROVE Goal
    BY <1>7, <1>a DEF ListenViaRelay, Background, SwarmStep
  <1>8. ASSUME NEW n \in Node, NEW c \in Slot, DialFails(n, c) PROVE Goal
    <2>1. DirectoryTyped'
      BY <1>8, <1>a, DirectoryOps DEF DialFails
    <2> QED
      BY <1>8, <2>1 DEF DialFails, Background, SwarmStep
  <1>9. ASSUME NEW n \in Node, ActorStep(n) PROVE Goal
    <2>1. CASE Disconnect(n)
      BY <1>9, <2>1, <1>a, DirectoryOps DEF Disconnect
    <2>2. CASE close_timed_out_peer(n)
      BY <1>9, <2>2, <1>a DEF close_timed_out_peer
    <2>3. ASSUME NEW active \in BOOLEAN, install_authorization(n, active) PROVE Goal
      BY <1>9, <2>3, <1>a DEF install_authorization
    <2>4. ASSUME NEW c \in Slot, Established(n, c) PROVE Goal
      <3>1. directory' = directory \/ directory' = [directory EXCEPT ![n] = note_success(@)]
        BY <2>4 DEF Established
      <3> QED
        BY <1>9, <3>1, <1>a, DirectoryOps
    <2>5. ASSUME NEW c \in Slot, Closed(n, c) PROVE Goal
      BY <1>9, <2>5, <1>a, DirectoryOps DEF Closed
    <2>6. ASSUME NEW c \in Slot, NEW ok \in BOOLEAN, Ping(n, c, ok) PROVE Goal
      BY <1>9, <2>6, <1>a DEF Ping
    <2> QED
      BY <1>9, <2>1, <2>2, <2>3, <2>4, <2>5, <2>6 DEF ActorStep
  <1> QED
    <2> HIDE DEF Goal
    <2>1. CASE Disturbances
      BY <2>1, <1>2, <1>3, <1>4, <1>8, <1>9 DEF Disturbances, ActorStep, Goal
    <2>2. CASE Commands
      BY <2>2, <1>4, <1>5, <1>6, <1>7 DEF Commands, Goal
    <2>3. CASE \E c \in Slot : Events(c)
      BY <2>3, <1>2, <1>9 DEF Events, ActorStep, Goal
    <2>4. CASE \E n \in Node : Timers(n) \/ RelayListens(n) \/ \E c \in Slot : Ping(n, c, TRUE)
      BY <2>4, <1>3, <1>9 DEF Timers, ActorStep, Goal
    <2> QED
      BY <1>1, <2>1, <2>2, <2>3, <2>4 DEF Next, Goal

LEMMA FaultsStep ==
  ASSUME [Next]_vars
  PROVE  faults' \in {faults, faults + 1}
  <1> USE DEF Fault, Command
  <1>1. CASE UNCHANGED vars
    BY <1>1 DEF vars
  <1>2. CASE Disturbances
    BY <1>2 DEF Disturbances, LinkFails, Disconnect, ListenerClosed, close_timed_out_peer, AddressesExpire,
                install_authorization, DialFails, Ping, MdnsExpired
  <1>3. CASE Commands
    BY <1>3 DEF Commands, Dial, DialAdmission, MdnsDiscovered, ListenViaRelay, Upgrade
  <1>4. CASE \E c \in Slot : Events(c)
    BY <1>4 DEF Events, Opens, Closes, Established, Closed
  <1>5. CASE \E n \in Node : Timers(n) \/ RelayListens(n) \/ \E c \in Slot : Ping(n, c, TRUE)
    BY <1>5 DEF Timers, Maintain, Due, RelayListens, Ping
  <1> QED
    BY <1>1, <1>2, <1>3, <1>4, <1>5 DEF Next
-----------------------------------------------------------------------------
(* The invariant.                                                          *)

\* A connection is open before an end is told of it, and closed before an end is
\* told of its end, which comes second.
Staged(k) ==
  (k.seen # {} => k.stage # "dialing") /\ (k.gone # {} => k.stage = "closed") /\ k.gone \subseteq k.seen

Stages == \A c \in Slot : swarm[c] # None => Staged(swarm[c])

\* What an end keeps in its tables it has been told of.
Known(n) == {c \in Slot : swarm[c] # None /\ n \in swarm[c].seen \ swarm[c].gone}

Held ==
  \A n \in Node :
    connections[n] \subseteq Known(n) /\ quarantined[n] \subseteq Known(n) /\ closing[n] \subseteq Known(n)

LEMMA SwarmBackground ==
  ASSUME LinkTyped, Stages, Held, Background
  PROVE  /\ SwarmTyped' /\ Stages' /\ Held'
  <1> USE LinkAssumption
  <1> USE DEF SwarmTyped
  <1>a. SwarmTyped
    BY DEF LinkTyped
  <1>b. UNCHANGED <<connections, quarantined, closing>>
    BY DEF Background
  <1>1. CASE UNCHANGED swarm
    BY <1>1, <1>a, <1>b DEF Stages, Held, Known, Staged
  <1>2. ASSUME NEW c \in Slot, NEW k \in KnownConnection, swarm[c] = None, k.stage # "closed",
               k.seen = {}, k.gone = {}, swarm' = [swarm EXCEPT ![c] = k]
        PROVE  SwarmTyped' /\ Stages' /\ Held'
    <2>1. \A n \in Node : c \notin Known(n) /\ Known(n) \subseteq Known(n)'
      BY <1>2, <1>a DEF Known
    <2> QED
      BY <1>2, <1>a, <1>b, <2>1 DEF Stages, Staged, Held
  <1>3. ASSUME NEW c \in Slot, swarm[c] # None, NEW x \in {"open", "closed"}, swarm[c].stage # "closed",
               x = "open" => swarm[c].stage = "dialing", swarm' = [swarm EXCEPT ![c].stage = x]
        PROVE  SwarmTyped' /\ Stages' /\ Held'
    <2>1. swarm[c] \in KnownConnection /\ [swarm[c] EXCEPT !.stage = x] \in KnownConnection
      BY <1>3, <1>a DEF KnownConnection, Connection
    <2>2. SwarmTyped'
      BY <1>3, <1>a, <2>1
    <2>3. /\ swarm'[c].seen = swarm[c].seen /\ swarm'[c].gone = swarm[c].gone
          /\ swarm'[c].stage = x /\ swarm'[c] # None
      BY <1>3, <1>a, <2>1 DEF KnownConnection, Connection
    <2>4. \A d \in Slot : d # c => swarm'[d] = swarm[d]
      BY <1>3, <1>a
    <2>5. Stages'
      BY <1>3, <2>3, <2>4 DEF Stages, Staged
    <2>6. \A n \in Node : Known(n)' = Known(n)
      BY <1>3, <2>3, <2>4 DEF Known
    <2> QED
      BY <1>b, <2>2, <2>5, <2>6 DEF Held
  <1>4. ASSUME NEW c \in Slot, swarm[c] # None, swarm[c].stage = "dialing", swarm' = [swarm EXCEPT ![c] = None]
        PROVE  SwarmTyped' /\ Stages' /\ Held'
    <2>1. swarm[c].seen = {}
      BY <1>4 DEF Stages, Staged
    <2>2. \A n \in Node : Known(n) \subseteq Known(n)'
      BY <1>4, <1>a, <2>1 DEF Known
    <2> QED
      BY <1>4, <1>a, <1>b, <2>2 DEF Stages, Staged, Held
  <1>5. SwarmStep
    BY DEF Background
  <1> QED
    BY <1>1, <1>2, <1>3, <1>4, <1>5 DEF SwarmStep
-----------------------------------------------------------------------------
(* What is published.                                                      *)

\* The tables of all ends but n stay.
OnlyAt(n) ==
  \A m \in Node \ {n} : /\ connections'[m] = connections[m] /\ quarantined'[m] = quarantined[m]
                        /\ healthy'[m] = healthy[m]

\* The end of handle_event: a handler that reports no change has made none that
\* the snapshot shows.
LEMMA PublishTrue ==
  ASSUME PublishedTyped, PublishedTrue, NEW n \in Node, NEW changed \in BOOLEAN, Publish(n, changed), OnlyAt(n),
         ~ changed => SnapshotOf(connections'[n], quarantined'[n], healthy'[n])
                        = SnapshotOf(connections[n], quarantined[n], healthy[n])
  PROVE  PublishedTyped' /\ PublishedTrue'
  <1>1. PublishedTyped'
    BY DEF PublishedTyped, Publish
  <1>2. snapshot'[n] = SnapshotOf(connections'[n], quarantined'[n], healthy'[n])
    BY DEF PublishedTyped, PublishedTrue, Publish
  <1>3. advertised'[n] = (connections'[n] # {})
    BY DEF PublishedTyped, PublishedTrue, Publish
  <1>4. ASSUME NEW m \in Node \ {n}
        PROVE  /\ snapshot'[m] = SnapshotOf(connections'[m], quarantined'[m], healthy'[m])
               /\ advertised'[m] = (connections'[m] # {})
    <2>1. snapshot'[m] = snapshot[m] /\ advertised'[m] = advertised[m]
      BY DEF PublishedTyped, Publish
    <2> QED
      BY <2>1 DEF OnlyAt, PublishedTrue
  <1> QED
    BY <1>1, <1>2, <1>3, <1>4 DEF PublishedTrue

\* What every step of an actor keeps.
TablesInv == TablesTyped /\ PublishedTyped /\ PublishedTrue /\ AuthorizedOnly

LEMMA TablesBackground ==
  ASSUME TablesInv, Background
  PROVE  TablesInv'
  BY DEF TablesInv, TablesTyped, PublishedTyped, PublishedTrue, AuthorizedOnly, SnapshotOf, Background

LEMMA TablesClosing ==
  ASSUME TablesInv, NEW n \in Node, Disconnect(n) \/ close_timed_out_peer(n)
  PROVE  TablesInv'
  <1>1. UNCHANGED <<connections, quarantined, healthy, authorized, snapshot, advertised>>
    BY DEF Disconnect, close_timed_out_peer, published
  <1>2. PICK more \in SUBSET Slot : closing' = [closing EXCEPT ![n] = @ \union more]
    BY DEF Disconnect, close_timed_out_peer, TablesInv, TablesTyped, Used
  <1>3. closing' \in [Node -> SUBSET Slot] /\ \A m \in Node : closing[m] \subseteq closing'[m]
    BY <1>2 DEF TablesInv, TablesTyped
  <1>4. AuthorizedOnly'
    BY <1>1, <1>3 DEF TablesInv, AuthorizedOnly
  <1>5. PublishedTyped' /\ PublishedTrue'
    BY <1>1 DEF TablesInv, PublishedTyped, PublishedTrue, SnapshotOf
  <1> QED
    BY <1>1, <1>3, <1>4, <1>5 DEF TablesInv, TablesTyped

LEMMA TablesInstall ==
  ASSUME TablesInv, NEW n \in Node, NEW active \in BOOLEAN, install_authorization(n, active)
  PROVE  TablesInv'
  <1>1. TablesTyped' /\ PublishedTyped'
    BY DEF TablesInv, TablesTyped, PublishedTyped, install_authorization, Stale
  <1>2. AuthorizedOnly'
    BY DEF TablesInv, TablesTyped, AuthorizedOnly, install_authorization, Stale
  <1>3. ASSUME NEW m \in Node
        PROVE  /\ snapshot'[m] = SnapshotOf(connections'[m], quarantined'[m], healthy'[m])
               /\ advertised'[m] = (connections'[m] # {})
    <2>1. UNCHANGED healthy
      BY DEF install_authorization
    <2>2. CASE m = n
      BY <2>1, <2>2 DEF TablesInv, PublishedTyped, install_authorization
    <2>3. CASE m # n
      <3>1. /\ connections'[m] = connections[m] /\ quarantined'[m] = quarantined[m]
            /\ snapshot'[m] = snapshot[m] /\ advertised'[m] = advertised[m]
        BY <2>3 DEF TablesInv, TablesTyped, PublishedTyped, install_authorization
      <3> QED
        BY <2>1, <3>1 DEF TablesInv, PublishedTrue
    <2> QED
      BY <2>2, <2>3
  <1> QED
    BY <1>1, <1>2, <1>3 DEF TablesInv, PublishedTrue

LEMMA TablesPing ==
  ASSUME TablesInv, NEW n \in Node, NEW c \in Slot, NEW ok \in BOOLEAN, Ping(n, c, ok)
  PROVE  TablesInv'
  <1> DEFINE changed == /\ c \in connections[n]
                        /\ (healthy[n] \intersect connections[n] # {}) # (healthy'[n] \intersect connections[n] # {})
  <1>1. UNCHANGED <<connections, quarantined, authorized>> /\ Publish(n, changed)
    BY DEF Ping, set_connection_health
  <1>2. healthy' = [healthy EXCEPT ![n] = IF ok /\ c \in connections[n] THEN @ \union {c} ELSE @ \ {c}]
    BY DEF Ping, set_connection_health
  <1>3. TablesTyped' /\ \A m \in Node : closing[m] \subseteq closing'[m]
    BY <1>1, <1>2 DEF Ping, TablesInv, TablesTyped
  <1>4. OnlyAt(n)
    BY <1>1, <1>2 DEF OnlyAt, TablesInv, TablesTyped
  <1>5. ~ changed => (healthy[n] \intersect connections[n] # {}) = (healthy'[n] \intersect connections[n] # {})
    BY <1>2 DEF TablesInv, TablesTyped
  <1>6. ~ changed => SnapshotOf(connections'[n], quarantined'[n], healthy'[n])
                        = SnapshotOf(connections[n], quarantined[n], healthy[n])
    BY <1>1, <1>5 DEF SnapshotOf
  <1>7. changed \in BOOLEAN
    OBVIOUS
  <1> HIDE DEF changed
  <1>8. PublishedTyped' /\ PublishedTrue'
    BY <1>1, <1>4, <1>6, <1>7, PublishTrue DEF TablesInv
  <1>9. AuthorizedOnly'
    BY <1>1, <1>3 DEF TablesInv, AuthorizedOnly
  <1> QED
    BY <1>3, <1>8, <1>9 DEF TablesInv

LEMMA TablesClosed ==
  ASSUME TablesInv, NEW n \in Node, NEW c \in Slot, Closed(n, c)
  PROVE  TablesInv'
  <1>1. /\ connections' = [connections EXCEPT ![n] = @ \ {c}] /\ quarantined' = [quarantined EXCEPT ![n] = @ \ {c}]
        /\ healthy' = [healthy EXCEPT ![n] = @ \ {c}] /\ closing' = [closing EXCEPT ![n] = @ \ {c}]
        /\ UNCHANGED authorized /\ Publish(n, Changed(n, c))
    BY DEF Closed
  <1>2. TablesTyped' /\ OnlyAt(n)
    BY <1>1 DEF TablesInv, TablesTyped, OnlyAt
  <1>3. AuthorizedOnly'
    BY <1>1 DEF TablesInv, TablesTyped, AuthorizedOnly
  <1>4. ASSUME ~ Changed(n, c)
        PROVE  SnapshotOf(connections'[n], quarantined'[n], healthy'[n])
                 = SnapshotOf(connections[n], quarantined[n], healthy[n])
    <2>1. /\ connections'[n] = connections[n] /\ quarantined'[n] = quarantined[n]
          /\ healthy'[n] \intersect connections[n] = healthy[n] \intersect connections[n]
      BY <1>1, <1>4 DEF Changed, TablesInv, TablesTyped
    <2> QED
      BY <2>1 DEF SnapshotOf
  <1>5. Changed(n, c) \in BOOLEAN
    BY DEF Changed
  <1>6. PublishedTyped' /\ PublishedTrue'
    BY <1>1, <1>2, <1>4, <1>5, PublishTrue DEF TablesInv
  <1> QED
    BY <1>2, <1>3, <1>6 DEF TablesInv

LEMMA TablesEstablished ==
  ASSUME TablesInv, NEW n \in Node, NEW c \in Slot, Established(n, c)
  PROVE  TablesInv'
  <1>0. UNCHANGED <<healthy, authorized>>
    BY DEF Established
  <1>1. CASE /\ ~ authorized[n] /\ closing' = [closing EXCEPT ![n] = @ \union {c}]
             /\ UNCHANGED <<connections, quarantined, directory, published>>
    <2>1. TablesTyped' /\ AuthorizedOnly'
      BY <1>0, <1>1 DEF TablesInv, TablesTyped, AuthorizedOnly
    <2>2. PublishedTyped' /\ PublishedTrue'
      BY <1>0, <1>1 DEF TablesInv, PublishedTyped, PublishedTrue, published
    <2> QED
      BY <2>1, <2>2 DEF TablesInv
  <1>2. CASE /\ ~ authorized[n] /\ quarantined' = [quarantined EXCEPT ![n] = @ \union {c}]
             /\ UNCHANGED <<connections, closing, directory, healthy>> /\ Publish(n, TRUE)
    <2>1. TablesTyped' /\ OnlyAt(n)
      BY <1>0, <1>2 DEF TablesInv, TablesTyped, OnlyAt
    <2>2. AuthorizedOnly'
      BY <1>0, <1>2 DEF TablesInv, TablesTyped, AuthorizedOnly
    <2>3. PublishedTyped' /\ PublishedTrue'
      BY <1>2, <2>1, PublishTrue DEF TablesInv
    <2> QED
      BY <2>1, <2>2, <2>3 DEF TablesInv
  <1>3. CASE /\ authorized[n] /\ connections' = [connections EXCEPT ![n] = @ \union {c}]
             /\ closing' = [closing EXCEPT ![n] = @ \union Losers(n, connections'[n])]
             /\ UNCHANGED <<quarantined, healthy>> /\ Publish(n, TRUE)
    <2>0. connections' \in [Node -> SUBSET Slot]
      BY <1>3 DEF TablesInv, TablesTyped
    <2>1. Losers(n, connections'[n]) \subseteq Slot
      BY <2>0 DEF Losers
    <2>2. TablesTyped' /\ OnlyAt(n)
      BY <1>0, <1>3, <2>0, <2>1 DEF TablesInv, TablesTyped, OnlyAt
    <2>3. AuthorizedOnly'
      BY <1>0, <1>3, <2>1 DEF TablesInv, TablesTyped, AuthorizedOnly
    <2>4. PublishedTyped' /\ PublishedTrue'
      BY <1>3, <2>2, PublishTrue DEF TablesInv
    <2> QED
      BY <2>2, <2>3, <2>4 DEF TablesInv
  <1> QED
    BY <1>1, <1>2, <1>3 DEF Established
-----------------------------------------------------------------------------
(* The swarm and what the actors know of it.                               *)

SwarmInv == SwarmTyped /\ Stages /\ Held

\* A step that only moves connections an end knows of between its tables.
LEMMA SwarmStays ==
  ASSUME SwarmInv, UNCHANGED swarm,
         \A m \in Node : connections'[m] \union quarantined'[m] \union closing'[m] \subseteq Known(m)
  PROVE  SwarmInv'
  <1>1. \A m \in Node : Known(m)' = Known(m)
    BY DEF Known
  <1> QED
    BY <1>1 DEF SwarmInv, SwarmTyped, Stages, Held

LEMMA SwarmActor ==
  ASSUME SwarmInv, TablesTyped, NEW n \in Node,
         \/ Disconnect(n) \/ close_timed_out_peer(n)
         \/ \E active \in BOOLEAN : install_authorization(n, active)
         \/ \E c \in Slot : \E ok \in BOOLEAN : Ping(n, c, ok)
  PROVE  SwarmInv'
  <1>1. CASE Disconnect(n)
    <2>1. {c \in Used : authorized[n] /\ n \in swarm[c].seen \ swarm[c].gone} \subseteq Known(n)
      BY DEF Used, Free, Known
    <2>2. \A m \in Node : connections'[m] \union quarantined'[m] \union closing'[m] \subseteq Known(m)
      BY <1>1, <2>1 DEF Disconnect, SwarmInv, Held, TablesTyped
    <2> QED
      BY <1>1, <2>2, SwarmStays DEF Disconnect
  <1>2. CASE close_timed_out_peer(n)
    <2>1. \A m \in Node : connections'[m] \union quarantined'[m] \union closing'[m] \subseteq Known(m)
      BY <1>2 DEF close_timed_out_peer, SwarmInv, Held, TablesTyped
    <2> QED
      BY <1>2, <2>1, SwarmStays DEF close_timed_out_peer
  <1>3. ASSUME NEW active \in BOOLEAN, install_authorization(n, active) PROVE SwarmInv'
    <2>1. \A m \in Node : connections'[m] \union quarantined'[m] \union closing'[m] \subseteq Known(m)
      BY <1>3 DEF install_authorization, Stale, SwarmInv, Held, TablesTyped
    <2> QED
      BY <1>3, <2>1, SwarmStays DEF install_authorization
  <1>4. ASSUME NEW c \in Slot, NEW ok \in BOOLEAN, Ping(n, c, ok) PROVE SwarmInv'
    <2>1. c \in Known(n) /\ closing' \in {closing, [closing EXCEPT ![n] = @ \union {c}]}
      BY <1>4 DEF Ping, Known
    <2>2. \A m \in Node : connections'[m] \union quarantined'[m] \union closing'[m] \subseteq Known(m)
      BY <1>4, <2>1 DEF Ping, SwarmInv, Held, TablesTyped
    <2> QED
      BY <1>4, <2>2, SwarmStays DEF Ping
  <1> QED
    BY <1>1, <1>2, <1>3, <1>4

\* What Established adds to the tables is the new connection, and what it asks to
\* close it has in its tables.
LEMMA EstablishedTables ==
  ASSUME TablesTyped, NEW n \in Node, NEW c \in Slot, Established(n, c)
  PROVE  /\ \A m \in Node \ {n} : connections'[m] = connections[m] /\ quarantined'[m] = quarantined[m]
                                 /\ closing'[m] = closing[m]
         /\ connections'[n] \subseteq connections[n] \union {c}
         /\ quarantined'[n] \subseteq quarantined[n] \union {c}
         /\ closing'[n] \subseteq closing[n] \union connections[n] \union {c}
         /\ authorized[n] => \A d \in closing'[n] \ closing[n] : d \in Losers(n, connections'[n])
  <1>1. CASE /\ ~ authorized[n] /\ closing' = [closing EXCEPT ![n] = @ \union {c}]
             /\ UNCHANGED <<connections, quarantined, directory, published>>
    BY <1>1 DEF TablesTyped
  <1>2. CASE /\ ~ authorized[n] /\ quarantined' = [quarantined EXCEPT ![n] = @ \union {c}]
             /\ UNCHANGED <<connections, closing, directory, healthy>>
    BY <1>2 DEF TablesTyped
  <1>3. CASE /\ authorized[n] /\ connections' = [connections EXCEPT ![n] = @ \union {c}]
             /\ closing' = [closing EXCEPT ![n] = @ \union Losers(n, connections'[n])]
             /\ UNCHANGED <<quarantined, healthy>>
    <2>1. Losers(n, connections'[n]) \subseteq connections'[n]
      BY DEF Losers
    <2> QED
      BY <1>3, <2>1 DEF TablesTyped
  <1> QED
    BY <1>1, <1>2, <1>3 DEF Established

LEMMA SwarmEstablished ==
  ASSUME SwarmInv, TablesTyped, NEW n \in Node, NEW c \in Slot, Established(n, c)
  PROVE  SwarmInv'
  <1>1. /\ swarm[c] # None /\ swarm[c].stage # "dialing" /\ n \notin swarm[c].seen
        /\ swarm' = [swarm EXCEPT ![c].seen = @ \union {n}]
    BY DEF Established, Seen
  <1>2. swarm[c] \in KnownConnection /\ [swarm[c] EXCEPT !.seen = @ \union {n}] \in KnownConnection
    BY <1>1 DEF SwarmInv, SwarmTyped, KnownConnection, Connection
  <1>3. SwarmTyped' /\ \A d \in Slot : d # c => swarm'[d] = swarm[d]
    BY <1>1, <1>2 DEF SwarmInv, SwarmTyped
  <1>4. /\ swarm'[c] # None /\ swarm'[c].seen = swarm[c].seen \union {n} /\ swarm'[c].gone = swarm[c].gone
        /\ swarm'[c].stage = swarm[c].stage
    BY <1>1, <1>2, LinkAssumption DEF SwarmInv, SwarmTyped, KnownConnection, Connection
  <1>5. Stages'
    BY <1>1, <1>3, <1>4 DEF SwarmInv, Stages, Staged
  <1>6. \A m \in Node : Known(m) \subseteq Known(m)'
    BY <1>1, <1>3, <1>4 DEF Known
  <1>7. c \in Known(n)'
    BY <1>1, <1>4 DEF Known, SwarmInv, Stages, Staged
  <1>8. Held'
    <2> SUFFICES ASSUME NEW m \in Node
                 PROVE  (connections'[m] \union quarantined'[m] \union closing'[m]) \subseteq Known(m)'
      BY DEF Held
    <2>1. (connections[m] \union quarantined[m] \union closing[m]) \subseteq Known(m)'
      BY <1>6 DEF SwarmInv, Held
    <2> QED
      BY <1>7, <2>1, EstablishedTables
  <1> QED
    BY <1>3, <1>5, <1>8 DEF SwarmInv

LEMMA SwarmClosed ==
  ASSUME SwarmInv, TablesTyped, NEW n \in Node, NEW c \in Slot, Closed(n, c)
  PROVE  SwarmInv'
  <1>1. /\ swarm[c] # None /\ swarm[c].stage = "closed" /\ n \in swarm[c].seen \ swarm[c].gone
        /\ swarm' = [swarm EXCEPT ![c] = IF swarm[c].gone \union {n} = Node THEN None
                                         ELSE [swarm[c] EXCEPT !.gone = @ \union {n}]]
    BY DEF Closed
  <1>2. swarm[c] \in KnownConnection /\ [swarm[c] EXCEPT !.gone = @ \union {n}] \in KnownConnection
    BY <1>1 DEF SwarmInv, SwarmTyped, KnownConnection, Connection
  <1> DEFINE k == IF swarm[c].gone \union {n} = Node THEN None
                  ELSE [swarm[c] EXCEPT !.gone = @ \union {n}]
  <1>a. k \in KnownConnection \union {None}
    BY <1>2
  <1>b. swarm' = [swarm EXCEPT ![c] = k]
    BY <1>1
  <1>3. SwarmTyped' /\ swarm'[c] = k /\ \A d \in Slot : d # c => swarm'[d] = swarm[d]
    <2> HIDE DEF k
    <2> QED
      BY <1>a, <1>b DEF SwarmInv, SwarmTyped
  <1>4. \/ swarm'[c] = None /\ swarm[c].gone \union {n} = Node
        \/ /\ swarm'[c] # None /\ swarm'[c].seen = swarm[c].seen /\ swarm'[c].gone = swarm[c].gone \union {n}
           /\ swarm'[c].stage = swarm[c].stage
    <2>1. CASE swarm[c].gone \union {n} = Node
      BY <1>3, <2>1
    <2>2. CASE swarm[c].gone \union {n} # Node
      <3>1. swarm'[c] = [swarm[c] EXCEPT !.gone = @ \union {n}]
        BY <1>3, <2>2
      <3> QED
        BY <3>1, <1>2, LinkAssumption DEF KnownConnection, Connection
    <2> QED
      BY <2>1, <2>2
  <1>5. Stages'
    BY <1>1, <1>3, <1>4 DEF SwarmInv, Stages, Staged
  <1>6. \A m \in Node : \A d \in Known(m) : (m # n \/ d # c) => d \in Known(m)'
    BY <1>1, <1>3, <1>4 DEF Known
  <1>7. \A m \in Node : \A d \in connections'[m] \union quarantined'[m] \union closing'[m] :
          d \in Known(m) /\ (m # n \/ d # c)
    BY DEF Closed, SwarmInv, Held, TablesTyped
  <1>8. Held'
    BY <1>6, <1>7 DEF Held
  <1> QED
    BY <1>3, <1>5, <1>8 DEF SwarmInv
-----------------------------------------------------------------------------
(* Arbitration.                                                            *)

\* While nothing has failed and both ends are authorised.
Calm == faults = 0 /\ \A n \in Node : authorized[n]

Rank(k) == 2 * k.here + (IF k.dialer = Lesser THEN 0 ELSE 1)

\* A better connection has been opened and is not gone.
Beaten(c) ==
  \E b \in Slot : swarm[b] # None /\ swarm[b].stage # "dialing" /\ Rank(swarm[b]) < Rank(swarm[c])

Ending(c) == swarm[c].stage = "closed" \/ \E n \in Node : c \in closing[n]

Justified == Calm => \A c \in Slot : swarm[c] # None /\ Ending(c) => Beaten(c)

\* Both ends rank a connection alike.
LEMMA SameRank ==
  ASSUME SwarmTyped, SameTransport, NEW n \in Node, NEW c \in Slot, swarm[c] # None
  PROVE  connection_preference(n, c) = Rank(swarm[c]) /\ Rank(swarm[c]) \in Nat
  <1>1. /\ swarm[c].dialer \in Node /\ swarm[c].here = swarm[c].there /\ swarm[c].here \in Nat
    BY DEF SwarmTyped, KnownConnection, Connection, Transport
  <1>2. (swarm[c].dialer = n) = (n = Lesser) <=> swarm[c].dialer = Lesser
    BY <1>1, LinkAssumption
  <1> QED
    BY <1>1, <1>2 DEF connection_preference, transport, Rank

\* The best of the connections that are up is not on its way out.
LEMMA BestStays ==
  ASSUME SwarmInv, SameTransport, Justified
  PROVE  EdgeSurvives
  <1> SUFFICES ASSUME Calm, NEW d \in Used, swarm[d].stage # "dialing"
               PROVE  \E c \in Used : swarm[c].stage = "open" /\ \A n \in Node : c \notin closing[n]
    BY DEF EdgeSurvives, Calm
  <1> DEFINE up == {c \in Used : swarm[c].stage # "dialing"}
             ranks == {Rank(swarm[c]) : c \in up}
  <1>0. Used = {c \in Slot : swarm[c] # None}
    BY DEF Used, Free
  <1>1. ranks \in SUBSET Nat /\ ranks # {}
    <2>1. PICK n \in Node : TRUE
      BY LinkAssumption
    <2> QED
      BY <1>0, <2>1, SameRank DEF SwarmInv
  <1>2. PICK x \in ranks : \A y \in ranks : x <= y
    BY <1>1, Least
  <1>3. PICK c \in up : \A b \in up : Rank(swarm[c]) <= Rank(swarm[b])
    BY <1>2
  <1>4. ~ Beaten(c)
    BY <1>0, <1>1, <1>3 DEF Beaten
  <1>5. ~ Ending(c)
    BY <1>0, <1>4 DEF Justified
  <1>6. swarm[c].stage = "open"
    BY <1>0, <1>5 DEF Ending, SwarmInv, SwarmTyped, KnownConnection, Connection
  <1> QED
    BY <1>5, <1>6 DEF Ending

Up(c) == swarm[c] # None /\ swarm[c].stage # "dialing"

\* What is up stays up, with its rank.
Keeps == \A c \in Slot : Up(c) => Up(c)' /\ Rank(swarm'[c]) = Rank(swarm[c])

\* A connection that ends has been up, and its rank is a number.
LEMMA EndingUp ==
  ASSUME SwarmInv, NEW c \in Slot, swarm[c] # None, Ending(c)
  PROVE  Up(c)
  <1>1. CASE swarm[c].stage = "closed"
    BY <1>1 DEF Up
  <1>2. CASE \E n \in Node : c \in closing[n]
    <2>1. swarm[c].seen # {} /\ Staged(swarm[c])
      BY <1>2 DEF SwarmInv, Held, Known, Stages
    <2> QED
      BY <2>1 DEF Staged, Up
  <1> QED
    BY <1>1, <1>2 DEF Ending

\* A step on which nothing that is up goes, and nothing starts to end unbeaten.
LEMMA JustifiedKeeps ==
  ASSUME SwarmInv, Justified, Calm' => Calm, Keeps,
         Calm' => \A c \in Slot : swarm'[c] # None /\ Ending(c)' => swarm[c] # None /\ Up(c) /\ (Ending(c) \/ Beaten(c))
  PROVE  Justified'
  <1> SUFFICES ASSUME Calm', NEW c \in Slot, swarm'[c] # None, Ending(c)' PROVE Beaten(c)'
    BY DEF Justified
  <1>1. swarm[c] # None /\ Up(c) /\ Beaten(c)
    BY DEF Justified
  <1>2. PICK b \in Slot : Up(b) /\ Rank(swarm[b]) < Rank(swarm[c])
    BY <1>1 DEF Beaten, Up
  <1>3. Up(b)' /\ Rank(swarm'[b]) < Rank(swarm'[c])
    BY <1>1, <1>2 DEF Keeps
  <1> QED
    BY <1>3 DEF Beaten, Up

LEMMA JustifiedBackground ==
  ASSUME SwarmInv, Justified, Background, faults \in Nat, faults' \in {faults, faults + 1}
  PROVE  Justified'
  <1>1. UNCHANGED <<closing, authorized>> /\ SwarmStep
    BY DEF Background
  <1>2. Calm' => Calm
    BY <1>1 DEF Calm
  <1>3. CASE UNCHANGED swarm
    <2>1. Keeps
      BY <1>3 DEF Keeps, Up
    <2>2. \A c \in Slot : Ending(c)' => Ending(c)
      BY <1>1, <1>3 DEF Ending
    <2> QED
      BY <1>2, <1>3, <2>1, <2>2, JustifiedKeeps, EndingUp
  <1>4. ASSUME NEW c \in Slot, NEW k \in KnownConnection, swarm[c] = None, k.stage # "closed",
               swarm' = [swarm EXCEPT ![c] = k]
        PROVE  Justified'
    <2>1. swarm'[c] = k /\ \A d \in Slot : d # c => swarm'[d] = swarm[d]
      BY <1>4 DEF SwarmInv, SwarmTyped
    <2>2. Keeps
      BY <1>4, <2>1 DEF Keeps, Up
    <2>3. ~ Ending(c)'
      BY <1>1, <1>4, <2>1 DEF Ending, SwarmInv, Held, Known
    <2>4. \A d \in Slot : d # c /\ Ending(d)' => Ending(d)
      BY <1>1, <2>1 DEF Ending
    <2> QED
      BY <1>2, <2>1, <2>2, <2>3, <2>4, JustifiedKeeps, EndingUp
  <1>5. ASSUME NEW c \in Slot, swarm[c] # None, NEW st \in {"open", "closed"},
               swarm[c].stage = "dialing" => st = "open",
               st = "closed" => faults' # 0 \/ \E n \in Node : c \in closing[n],
               swarm' = [swarm EXCEPT ![c].stage = st]
        PROVE  Justified'
    <2>0. swarm[c] \in KnownConnection /\ [swarm[c] EXCEPT !.stage = st] \in KnownConnection
      BY <1>5 DEF SwarmInv, SwarmTyped, KnownConnection, Connection
    <2>1. swarm'[c] = [swarm[c] EXCEPT !.stage = st] /\ \A d \in Slot : d # c => swarm'[d] = swarm[d]
      BY <1>5 DEF SwarmInv, SwarmTyped
    <2>2. /\ swarm'[c] # None /\ swarm'[c].stage = st /\ swarm'[c].here = swarm[c].here
          /\ swarm'[c].dialer = swarm[c].dialer
      BY <2>0, <2>1, LinkAssumption DEF KnownConnection, Connection
    <2>3. Keeps
      BY <1>5, <2>1, <2>2 DEF Keeps, Up, Rank
    <2>4. Calm' /\ Ending(c)' => Ending(c)
      BY <1>1, <1>5, <2>2 DEF Ending, Calm
    <2>5. \A d \in Slot : d # c /\ Ending(d)' => Ending(d)
      BY <1>1, <2>1 DEF Ending
    <2> QED
      BY <1>2, <1>5, <2>1, <2>3, <2>4, <2>5, JustifiedKeeps, EndingUp
  <1>6. ASSUME NEW c \in Slot, swarm[c] # None, swarm[c].stage = "dialing", swarm' = [swarm EXCEPT ![c] = None]
        PROVE  Justified'
    <2>1. swarm'[c] = None /\ \A d \in Slot : d # c => swarm'[d] = swarm[d]
      BY <1>6 DEF SwarmInv, SwarmTyped
    <2>2. Keeps
      BY <1>6, <2>1 DEF Keeps, Up
    <2>3. \A d \in Slot : d # c /\ Ending(d)' => Ending(d)
      BY <1>1, <2>1 DEF Ending
    <2> QED
      BY <1>2, <2>1, <2>2, <2>3, JustifiedKeeps, EndingUp
  <1>7. ASSUME NEW c \in Slot, swarm[c] # None,
               \/ swarm[c].stage = "dialing" /\ swarm' = [swarm EXCEPT ![c].stage = "open"]
               \/ /\ swarm[c].stage = "open" /\ swarm' = [swarm EXCEPT ![c].stage = "closed"]
                  /\ faults' # 0 \/ \E n \in Node : c \in closing[n]
               \/ swarm[c].stage = "dialing" /\ swarm' = [swarm EXCEPT ![c] = None]
        PROVE  Justified'
    <2>1. CASE swarm[c].stage = "dialing" /\ swarm' = [swarm EXCEPT ![c].stage = "open"]
      BY <1>5, <1>7, <2>1
    <2>2. CASE /\ swarm[c].stage = "open" /\ swarm' = [swarm EXCEPT ![c].stage = "closed"]
               /\ faults' # 0 \/ \E n \in Node : c \in closing[n]
      BY <1>5, <1>7, <2>2
    <2>3. CASE swarm[c].stage = "dialing" /\ swarm' = [swarm EXCEPT ![c] = None]
      BY <1>6, <1>7, <2>3
    <2> QED
      BY <1>7, <2>1, <2>2, <2>3
  <1> QED
    BY <1>1, <1>3, <1>4, <1>7 DEF SwarmStep

\* Arbitration asks for the end of connections that a better one beats.
LEMMA JustifiedEstablished ==
  ASSUME SwarmInv, TablesTyped, SameTransport, Justified, NEW n \in Node, NEW c \in Slot, Established(n, c)
  PROVE  Justified'
  <1>1. /\ Up(c) /\ swarm' = [swarm EXCEPT ![c].seen = @ \union {n}] /\ UNCHANGED <<authorized, faults>>
    BY DEF Established, Seen, Up
  <1>2. swarm[c] \in KnownConnection /\ [swarm[c] EXCEPT !.seen = @ \union {n}] \in KnownConnection
    BY <1>1 DEF Up, SwarmInv, SwarmTyped, KnownConnection, Connection
  <1>3. swarm'[c] = [swarm[c] EXCEPT !.seen = @ \union {n}] /\ \A d \in Slot : d # c => swarm'[d] = swarm[d]
    BY <1>1 DEF SwarmInv, SwarmTyped
  <1>4. /\ swarm'[c] # None /\ swarm'[c].stage = swarm[c].stage /\ swarm'[c].here = swarm[c].here
        /\ swarm'[c].dialer = swarm[c].dialer
    BY <1>2, <1>3, LinkAssumption DEF KnownConnection, Connection
  <1>5. Keeps
    BY <1>1, <1>3, <1>4 DEF Keeps, Up, Rank
  <1>6. Calm' => Calm /\ authorized[n]
    BY <1>1 DEF Calm
  <1>7. \A d \in connections'[n] : d \in Slot /\ Up(d)
    <2>1. \A d \in connections[n] : d \in Slot /\ Up(d)
      BY DEF SwarmInv, Held, Known, Stages, Staged, Up
    <2> QED
      BY <1>1, <2>1, EstablishedTables
  <1>8. ASSUME NEW d \in Losers(n, connections'[n]) PROVE d \in Slot /\ Up(d) /\ Beaten(d)
    <2>1. d \in Slot /\ Up(d)
      BY <1>7 DEF Losers
    <2>2. PICK b \in connections'[n] : connection_preference(n, b) < connection_preference(n, d)
      BY DEF Losers
    <2>3. Rank(swarm[b]) < Rank(swarm[d]) /\ b \in Slot /\ Up(b)
      BY <1>7, <2>1, <2>2, SameRank DEF Up, SwarmInv
    <2> QED
      BY <2>1, <2>3 DEF Beaten, Up
  <1>9. ASSUME Calm', NEW d \in Slot, swarm'[d] # None, Ending(d)'
        PROVE  swarm[d] # None /\ Up(d) /\ (Ending(d) \/ Beaten(d))
    <2>1. swarm[d] # None /\ swarm'[d].stage = swarm[d].stage
      BY <1>1, <1>3, <1>4, <1>9 DEF Up
    <2>2. CASE Ending(d)
      BY <2>1, <2>2, EndingUp
    <2>3. CASE ~ Ending(d)
      <3>1. PICK m \in Node : d \in closing'[m] /\ d \notin closing[m]
        BY <1>9, <2>1, <2>3 DEF Ending
      <3>2. m = n /\ d \in Losers(n, connections'[n])
        BY <1>6, <1>9, <3>1, EstablishedTables
      <3> QED
        BY <1>8, <2>1, <3>2
    <2> QED
      BY <2>2, <2>3
  <1> QED
    BY <1>5, <1>6, <1>9, JustifiedKeeps

\* A connection whose end both ends have handled leaves the one that beat it.
LEMMA JustifiedClosed ==
  ASSUME SwarmInv, TablesTyped, SameTransport, Justified, NEW n \in Node, NEW c \in Slot, Closed(n, c)
  PROVE  Justified'
  <1>1. /\ swarm[c] # None /\ swarm[c].stage = "closed"
        /\ swarm' = [swarm EXCEPT ![c] = IF swarm[c].gone \union {n} = Node THEN None
                                         ELSE [swarm[c] EXCEPT !.gone = @ \union {n}]]
        /\ closing' = [closing EXCEPT ![n] = @ \ {c}]
        /\ UNCHANGED <<authorized, faults>>
    BY DEF Closed
  <1>2. \A d \in Slot : d # c => swarm'[d] = swarm[d]
    BY <1>1 DEF SwarmInv, SwarmTyped
  <1>3. swarm'[c] # None => swarm'[c].here = swarm[c].here /\ swarm'[c].dialer = swarm[c].dialer
    <2> SUFFICES ASSUME swarm'[c] # None PROVE swarm'[c].here = swarm[c].here /\ swarm'[c].dialer = swarm[c].dialer
      OBVIOUS
    <2>1. swarm'[c] = [swarm[c] EXCEPT !.gone = @ \union {n}]
      BY <1>1 DEF SwarmInv, SwarmTyped
    <2>2. swarm[c] \in KnownConnection
      BY <1>1 DEF SwarmInv, SwarmTyped
    <2> QED
      BY <2>1, <2>2 DEF KnownConnection, Connection
  <1> SUFFICES ASSUME Calm', NEW d \in Slot, swarm'[d] # None, Ending(d)' PROVE Beaten(d)'
    BY DEF Justified
  <1>4. Calm
    BY <1>1 DEF Calm
  <1>5. swarm[d] # None /\ Ending(d) /\ Rank(swarm'[d]) = Rank(swarm[d])
    BY <1>1, <1>2, <1>3 DEF Ending, Rank, TablesTyped
  <1>6. Beaten(d) /\ Beaten(c)
    BY <1>1, <1>4, <1>5 DEF Justified, Ending
  <1>7. \A e \in Slot : swarm[e] # None => Rank(swarm[e]) \in Nat
    BY SameRank DEF SwarmInv
  <1>8. PICK b \in Slot : Up(b) /\ b # c /\ Rank(swarm[b]) < Rank(swarm[d])
    <2>1. PICK b \in Slot : Up(b) /\ Rank(swarm[b]) < Rank(swarm[d])
      BY <1>6 DEF Beaten, Up
    <2>2. PICK a \in Slot : Up(a) /\ Rank(swarm[a]) < Rank(swarm[c])
      BY <1>6 DEF Beaten, Up
    <2>3. a # c
      BY <1>1, <1>7, <2>2
    <2>4. CASE b = c
      BY <1>1, <1>5, <1>7, <2>1, <2>2, <2>3, <2>4 DEF Up
    <2> QED
      BY <2>1, <2>4
  <1>9. swarm'[b] = swarm[b]
    BY <1>2, <1>8
  <1> QED
    BY <1>5, <1>8, <1>9 DEF Beaten, Up

\* What may end a link otherwise counts as a fault; a ping that is answered ends none.
LEMMA JustifiedActor ==
  ASSUME SwarmInv, Justified, faults \in Nat, NEW n \in Node,
         \/ Disconnect(n) \/ close_timed_out_peer(n)
         \/ \E active \in BOOLEAN : install_authorization(n, active)
         \/ \E c \in Slot : \E ok \in BOOLEAN : Ping(n, c, ok)
  PROVE  Justified'
  <1>1. CASE Fault
    BY <1>1 DEF Fault, Justified, Calm
  <1>2. CASE UNCHANGED <<swarm, closing, authorized, faults>>
    BY <1>2 DEF Justified, Calm, Ending, Beaten
  <1> QED
    BY <1>1, <1>2 DEF Disconnect, close_timed_out_peer, install_authorization, Ping
-----------------------------------------------------------------------------
(* The theorems.                                                           *)

\* The inductive invariant.
LInv == LinkTyped /\ TablesInv /\ SwarmInv /\ (SameTransport => Justified)

LEMMA InitLInv ==
  ASSUME Init
  PROVE  LInv
  <1>1. LinkTyped
    BY LinkAssumption DEF Init, LinkTyped, SwarmTyped, DirectoryTyped, PublishedTyped, TablesTyped
  <1>2. PublishedTrue /\ AuthorizedOnly
    <2>1. Cardinality({}) = 0
      BY FS_EmptySet
    <2> QED
      BY <2>1 DEF Init, PublishedTrue, AuthorizedOnly, SnapshotOf
  <1>3. SwarmInv /\ Justified
    BY <1>1 DEF Init, LinkTyped, SwarmInv, Stages, Held, Justified
  <1> QED
    BY <1>1, <1>2, <1>3 DEF LInv, TablesInv, LinkTyped

LEMMA NextLInv ==
  ASSUME LInv, [Next]_vars
  PROVE  LInv'
  <1> USE DEF LInv
  <1>1. DirectoryTyped' /\ faults \in Nat /\ faults' \in {faults, faults + 1} /\ TablesTyped
    BY Steps, FaultsStep DEF LinkTyped
  <1>2. TablesInv' /\ SwarmInv' /\ (SameTransport => Justified')
    <2>1. CASE Background
      BY <1>1, <2>1, TablesBackground, SwarmBackground, JustifiedBackground DEF SwarmInv
    <2>2. ASSUME NEW n \in Node, ActorStep(n) PROVE TablesInv' /\ SwarmInv' /\ (SameTransport => Justified')
      <3>1. CASE Disconnect(n) \/ close_timed_out_peer(n)
        BY <1>1, <3>1, TablesClosing, SwarmActor, JustifiedActor
      <3>2. ASSUME NEW active \in BOOLEAN, install_authorization(n, active)
            PROVE  TablesInv' /\ SwarmInv' /\ (SameTransport => Justified')
        BY <1>1, <3>2, TablesInstall, SwarmActor, JustifiedActor
      <3>3. ASSUME NEW c \in Slot, NEW ok \in BOOLEAN, Ping(n, c, ok)
            PROVE  TablesInv' /\ SwarmInv' /\ (SameTransport => Justified')
        BY <1>1, <3>3, TablesPing, SwarmActor, JustifiedActor
      <3>4. ASSUME NEW c \in Slot, Established(n, c)
            PROVE  TablesInv' /\ SwarmInv' /\ (SameTransport => Justified')
        BY <1>1, <3>4, TablesEstablished, SwarmEstablished, JustifiedEstablished
      <3>5. ASSUME NEW c \in Slot, Closed(n, c)
            PROVE  TablesInv' /\ SwarmInv' /\ (SameTransport => Justified')
        BY <1>1, <3>5, TablesClosed, SwarmClosed, JustifiedClosed
      <3> QED
        BY <2>2, <3>1, <3>2, <3>3, <3>4, <3>5 DEF ActorStep
    <2> QED
      BY <2>1, <2>2, Steps
  <1> QED
    BY <1>1, <1>2 DEF LinkTyped, TablesInv, SwarmInv

\* After every handler of either actor the published snapshot and the advertised
\* edge are those of its tables, and a connection of a peer that is not
\* authorised is quarantined or being closed, whatever the transports are.
THEOREM LinkTablesSound == Spec => [](PublishedTrue /\ AuthorizedOnly)
  <1>1. Init => LInv
    BY InitLInv
  <1>2. LInv /\ [Next]_vars => LInv'
    BY NextLInv
  <1>3. LInv => PublishedTrue /\ AuthorizedOnly
    BY DEF LInv, TablesInv
  <1> QED
    BY <1>1, <1>2, <1>3, PTL DEF Spec

\* When both ends see the same transport, arbitration also keeps the edge: two
\* authorised ends with an open connection never ask for the end of all they
\* have, however many dials cross and in whatever order they arbitrate.
THEOREM LinkIsSound ==
  ASSUME SameTransport
  PROVE  Spec => []LinkSound
  <1>1. Init => LInv
    BY InitLInv
  <1>2. LInv /\ [Next]_vars => LInv'
    BY NextLInv
  <1>3. LInv => LinkSound
    BY BestStays DEF LInv, TablesInv, LinkSound
  <1> QED
    BY <1>1, <1>2, <1>3, PTL DEF Spec
=============================================================================
