------------------------------ MODULE Routing ------------------------------
(***************************************************************************)
(* Link state (crates/overlay/src/routing.rs and its use in link/actor.rs):*)
(* every node signs its confirmed edges and sends the record to its direct *)
(* neighbours, which keep the newest record of each node and compute routes*)
(* from what they keep.  Records are not forwarded.  Messages of one link  *)
(* travel on streams of their own and may overtake each other.             *)
(*                                                                         *)
(* The sequence of a record is the larger of the clock and the last one    *)
(* plus one: it only counts that it grows.                                 *)
(***************************************************************************)
EXTENDS Naturals, FiniteSets, FiniteSetsExt, SequencesExt

CONSTANTS Node,            \* numbered: edges of a record are visited in this order
          Edge,            \* the pairs of nodes that can be linked
          None,
          MaxFaults,       \* bound: links that fail
          MaxInstalls      \* bound: registries that are installed

VARIABLES links,           \* the links that are up
          connections,     \* connections[n]: the links n's actor has been told of
          records,         \* records[n][m]: LinkStateDb of n, m's record or None
          sequence,        \* last_link_state_sequence
          net,             \* messages on the links
          faults, installs

vars == <<links, connections, records, sequence, net, faults, installs>>

NoRecords == [m \in Node |-> None]

Init ==
  /\ links = Edge /\ net = {}
  /\ connections = [n \in Node |-> {}]
  /\ records = [n \in Node |-> NoRecords]
  /\ sequence = [n \in Node |-> 0]
  /\ faults = 0 /\ installs = 0
-----------------------------------------------------------------------------
\* Mutant: the walk back over the parents stops one step too early.
next_hop_Last(db, local, destination) ==
  LET edges(n) == IF db[n] = None THEN {} ELSE db[n].edges
      Visit[k \in 0 .. Cardinality(DOMAIN db)] ==
        IF k = 0 THEN [queue |-> <<local>>, hop |-> [n \in {local} |-> local]]
        ELSE LET s   == Visit[k - 1]
                 n   == s.queue[k]
                 new == edges(n) \ DOMAIN s.hop
             IN  IF k > Len(s.queue) THEN s
                 ELSE [queue |-> s.queue \o SetToSortSeq(new, <),
                       hop   |-> [m \in DOMAIN s.hop \union new |->
                                    IF m \in new THEN IF n = local THEN m ELSE n
                                    ELSE s.hop[m]]]
      hop == Visit[Cardinality(DOMAIN db)].hop
  IN  IF local = destination THEN destination
      ELSE IF destination \in DOMAIN hop THEN hop[destination] ELSE None

\* next_hop: breadth first from local over the edges of the known records, the
\* queue first in first out, the edges of a record in their sorted order.
next_hop(db, local, destination) ==
  LET edges(n) == IF db[n] = None THEN {} ELSE db[n].edges
      \* One turn of the loop for every node that leaves the queue.
      Visit[k \in 0 .. Cardinality(DOMAIN db)] ==
        IF k = 0 THEN [queue |-> <<local>>, hop |-> [n \in {local} |-> local]]
        ELSE LET s   == Visit[k - 1]
                 n   == s.queue[k]
                 new == edges(n) \ DOMAIN s.hop
             IN  IF k > Len(s.queue) THEN s
                 ELSE [queue |-> s.queue \o SetToSortSeq(new, <),
                       hop   |-> [m \in DOMAIN s.hop \union new |->
                                    IF m \in new THEN IF n = local THEN m ELSE s.hop[n]
                                    ELSE s.hop[m]]]
      hop == Visit[Cardinality(DOMAIN db)].hop
  IN  IF local = destination THEN destination
      ELSE IF destination \in DOMAIN hop THEN hop[destination] ELSE None

\* Mutant: an older record replaces a newer one.
insert_Any(db, record) == [db EXCEPT ![record.node] = record]

\* LinkStateDb::insert keeps the record with the highest sequence.
insert(db, record) ==
  IF db[record.node] = None \/ record.sequence > db[record.node].sequence
    THEN [db EXCEPT ![record.node] = record] ELSE db

\* advertise_link_state: n signs its edges, keeps the record and sends it to
\* every neighbour.  base is the database it is entered into.
Advertisement(n) == [node |-> n, edges |-> connections'[n], sequence |-> sequence[n] + 1]

advertise_link_state(n, base) ==
  /\ sequence' = [sequence EXCEPT ![n] = @ + 1]
  /\ records' = [records EXCEPT ![n] = insert(base, Advertisement(n))]

LinkStates(n) == {[from |-> n, to |-> m, record |-> Advertisement(n)] : m \in connections'[n]}

\* accept_link_state
LinkStateArrives(msg) ==
  /\ msg.from \in connections[msg.to] /\ {msg.from, msg.to} \in links
  /\ records' = [records EXCEPT ![msg.to] = insert(@, msg.record)]
  /\ net' = net \ {msg}
  /\ UNCHANGED <<links, connections, sequence, faults, installs>>

\* What travels on a link that fails is lost.
LinkFails(e) ==
  /\ e \in links /\ faults < MaxFaults /\ faults' = faults + 1
  /\ links' = links \ {e}
  /\ net' = {msg \in net : {msg.from, msg.to} # e}
  /\ UNCHANGED <<connections, records, sequence, installs>>

LinkUp(e) ==
  /\ e \in Edge \ links /\ \A n \in e : connections[n] \intersect e = {}
  /\ links' = links \union {e}
  /\ UNCHANGED <<connections, records, sequence, net, faults, installs>>

\* An actor is told that a link of its own came up: the edge is new.
EdgeUp(n, m) ==
  /\ {n, m} \in links /\ m \notin connections[n]
  /\ connections' = [connections EXCEPT ![n] = @ \union {m}]
  /\ advertise_link_state(n, records[n])
  /\ net' = net \union LinkStates(n)
  /\ UNCHANGED <<links, faults, installs>>

\* An actor is told that a link of its own is gone.
EdgeDown(n, m) ==
  /\ {n, m} \notin links /\ m \in connections[n]
  /\ connections' = [connections EXCEPT ![n] = @ \ {m}]
  /\ advertise_link_state(n, records[n])
  /\ net' = net \union LinkStates(n)
  /\ UNCHANGED <<links, faults, installs>>

\* install_authorization starts with a new Router.
install_authorization(n) ==
  /\ installs < MaxInstalls /\ installs' = installs + 1
  /\ UNCHANGED connections
  /\ advertise_link_state(n, NoRecords)
  /\ net' = net \union LinkStates(n)
  /\ UNCHANGED <<links, faults>>

Next ==
  \/ \E e \in Edge : LinkFails(e) \/ LinkUp(e)
  \/ \E n \in Node : install_authorization(n) \/ \E m \in Node : EdgeUp(n, m) \/ EdgeDown(n, m)
  \/ \E msg \in net : LinkStateArrives(msg)

Spec == Init /\ [][Next]_vars
-----------------------------------------------------------------------------
\* The number of links on a shortest path over the known records.
Distance(db, local, destination) ==
  LET Within[k \in 0 .. Cardinality(DOMAIN db)] ==
        IF k = 0 THEN {local}
        ELSE Within[k - 1] \union UNION {db[n].edges : n \in {m \in Within[k - 1] : db[m] # None}}
      reached == {k \in 0 .. Cardinality(DOMAIN db) : destination \in Within[k]}
  IN  IF reached = {} THEN None ELSE Min(reached)

\* Nodes compute shortest routes from db: next_hop finds a hop exactly when the
\* records hold a path, the hop is a neighbour by the node's own record, and a
\* shortest path leads through it.
Shortest(db, n) ==
  \A d \in DOMAIN db \ {n} :
    LET hop == next_hop(db, n, d)
        far == Distance(db, n, d)
    IN  IF far = None THEN hop = None
        ELSE /\ hop \in db[n].edges
             /\ Distance([db EXCEPT ![n] = None], hop, d) = far - 1

\* Every actor has been told of its links and no link state is on the way.
Quiet ==
  /\ \A n, m \in Node : ({n, m} \in links) = (m \in connections[n])
  /\ net = {}

\* Once the exchange is over a node holds the current edges of each neighbour,
\* whatever links failed, came back and overtook each other's news.
NeighboursKnown ==
  Quiet /\ installs = 0 =>
    \A n \in Node : \A m \in connections[n] : records[n][m] # None /\ records[n][m].edges = connections[m]
=============================================================================
