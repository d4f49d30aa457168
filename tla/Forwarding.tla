---------------------------- MODULE Forwarding ----------------------------
(***************************************************************************)
(* Requests across the sparse graph (crates/overlay/src/link/actor.rs and  *)
(* Router in routing.rs): a caller's request is sent to the next hop,      *)
(* forwarded hop by hop, handled at its destination, and the response goes *)
(* back over the channels the request opened.  A node drops a request by   *)
(* dropping its channel, which the node before it sees as a failure.  All  *)
(* tables are bounded and every entry has the deadline of the request.     *)
(*                                                                         *)
(* The next hop is any neighbour, or none: link state may be stale, so the *)
(* model assumes nothing of it (module Routing).                           *)
(***************************************************************************)
EXTENDS Naturals, FiniteSets

CONSTANTS Node,
          Edge,            \* the pairs of nodes that can be linked
          None,
          MaxFaults,       \* bound: links that fail
          MaxInstalls,     \* bound: registries that are installed
          Request,         \* requests: [source, destination, hops]
          max_inflight,    \* forwards of one Router
          MAX_PENDING_INBOUND

ForwardingAssumption ==
  /\ \A e \in Edge : e \subseteq Node /\ Cardinality(e) = 2
  /\ MaxFaults \in Nat /\ MaxInstalls \in Nat
  /\ Request \subseteq [source : Node, destination : Node, hops : Nat]
  /\ max_inflight \in Nat /\ MAX_PENDING_INBOUND \in Nat

VARIABLES links,           \* the links that are up
          net,             \* messages on the links
          faults, installs,
          outbound,        \* pending_outbound: [request, peer]
          forwards,        \* pending_forwards: [request, peer, prev, open]
          inbound,         \* pending_inbound: [request, prev]
          seen, inflight,  \* of the Router
          expired,         \* requests whose deadline has passed
          result           \* what the caller of a request was told, "Waiting" before

tables == <<outbound, forwards, inbound, seen, inflight>>
routing == <<links, faults, installs>>
vars == <<routing, net, tables, expired, result>>

Init ==
  /\ links = Edge
  /\ net = {} /\ faults = 0 /\ installs = 0
  /\ outbound = [n \in Node |-> {}] /\ forwards = outbound /\ inbound = outbound
  /\ seen = outbound
  /\ inflight = [n \in Node |-> 0]
  /\ expired = {} /\ result = [r \in Request |-> None]

Message(type, r, from, to, hops) ==
  [type |-> type, request |-> r, from |-> from, to |-> to, hops |-> hops]

\* The peer of a dropped channel sees the request fail.
Failure(r, from, to) == Message("Failure", r, from, to, 0)

\* What a forwarder hands back, while the link the request came over lasts.
Back(type, entry, n) == IF entry.open THEN {Message(type, entry.request, n, entry.prev, 0)} ELSE {}

\* The links in cut are lost and with them what travels on them; requests that
\* wait for an answer over them fail, and those delivered over them are dropped
\* (ConnectionClosed, remove_pending_inbound_peer).  kept are the messages left before that.
Cut(cut, kept, out, fwd, inb) ==
  /\ links' = links \ cut
  /\ outbound' = out
  /\ forwards' = [n \in Node |-> {IF {n, x.prev} \in cut THEN [x EXCEPT !.open = FALSE] ELSE x : x \in fwd[n]}]
  /\ inbound' = [n \in Node |-> {x \in inb[n] : {n, x.prev} \notin cut}]
  /\ net' = {msg \in kept : msg.type = "Failure" \/ {msg.from, msg.to} \notin cut}
              \union UNION {{Failure(x.request, x.peer, n) :
                               x \in {y \in out[n] \union fwd[n] : {n, y.peer} \in cut}} : n \in Node}

LinkFails(e) ==
  /\ e \in links /\ faults < MaxFaults /\ faults' = faults + 1
  /\ Cut({e}, net, outbound, forwards, inbound)
  /\ UNCHANGED <<installs, seen, inflight, expired, result>>
-----------------------------------------------------------------------------
(* The caller.                                                             *)

\* Where Router and route_outbound may send what is meant for d.
Hops(n, d) ==
  IF {n, d} \in links THEN {d} ELSE {m \in Node : {n, m} \in Edge} \union {None}

\* send_routed_request.  A request to a peer that is not linked fails later.
Call(r, hop) ==
  LET n == r.source
      error == IF hop = None THEN "NoRoute" ELSE IF r \in expired THEN "Timeout" ELSE "Waiting"
  IN  /\ result[r] = None
      /\ hop \in Hops(n, r.destination)
      /\ result' = [result EXCEPT ![r] = error]
      /\ IF error # "Waiting" THEN UNCHANGED <<outbound, net>>
         ELSE /\ outbound' = [outbound EXCEPT ![n] = @ \union {[request |-> r, peer |-> hop]}]
              /\ net' = net \union {IF {n, hop} \in links THEN Message("Request", r, n, hop, r.hops)
                                    ELSE Failure(r, hop, n)}
      /\ UNCHANGED <<routing, forwards, inbound, seen, inflight, expired>>
-----------------------------------------------------------------------------
(* A node the request arrives at.                                          *)

\* Backpressure of the Router.
Admits(n) == inflight[n] < max_inflight

\* Router::handle and deliver.  The Router drops what is expired, what it has
\* seen, what has no hops left, what exceeds its forwards and what it knows no
\* route for; deliver drops what the table or the queue has no room for.
RequestArrives(msg, hop) ==
  LET n    == msg.to
      r    == msg.request
      live == r \notin expired /\ r \notin seen[n]
      room == Cardinality(inbound[n]) < MAX_PENDING_INBOUND
      deliver == live /\ r.destination = n /\ room
      forward == /\ live /\ r.destination # n /\ msg.hops > 0
                 /\ Admits(n) /\ hop # None
      sent == forward /\ {n, hop} \in links
  IN  /\ hop \in Hops(n, r.destination)
      /\ msg.type = "Request"
      /\ seen' = [seen EXCEPT ![n] = IF live THEN @ \union {r} ELSE @]
      /\ inbound' = [inbound EXCEPT ![n] = IF deliver
                       THEN @ \union {[request |-> r, prev |-> msg.from]} ELSE @]
      /\ inflight' = [inflight EXCEPT ![n] = IF forward THEN @ + 1 ELSE @]
      /\ forwards' = [forwards EXCEPT ![n] = IF forward
                        THEN @ \union {[request |-> r, peer |-> hop, prev |-> msg.from, open |-> TRUE]} ELSE @]
      /\ net' = (net \ {msg})
                  \union (IF sent THEN {Message("Request", r, n, hop, msg.hops - 1)} ELSE {})
                  \union (IF forward /\ ~ sent THEN {Failure(r, hop, n)} ELSE {})
                  \union (IF deliver \/ forward THEN {} ELSE {Failure(r, n, msg.from)})
      /\ UNCHANGED <<routing, outbound, expired, result>>
-----------------------------------------------------------------------------
(* The destination.                                                        *)

\* respond: the handler of a delivered request is done.  A response after the
\* deadline is not sent, which the peer sees as a failure; a handler whose token
\* is gone by then gets an error and changes nothing.
Respond(n, x) ==
  /\ x \in inbound[n]
  /\ inbound' = [inbound EXCEPT ![n] = @ \ {x}]
  /\ net' = net \union {Message(IF x.request \in expired THEN "Failure" ELSE "Response", x.request, n, x.prev, 0)}
  /\ UNCHANGED <<routing, outbound, forwards, seen, inflight, expired, result>>
-----------------------------------------------------------------------------
(* The way back.                                                           *)

\* Mutant: a forward that failed is not released.
Released_Answers(n, entries, type) == IF type = "Failure" THEN 0 ELSE Cardinality(entries)

\* Mutant: a forward that timed out is not released.
Released_InTime(n, entries, type) == IF type = "Timeout" THEN 0 ELSE Cardinality(entries)

\* complete_forward, once for every forward that leaves the table.
Released(n, entries, type) == Cardinality(entries)

complete_forward(n, entries, type) ==
  LET k == Released(n, entries, type)
  IN  inflight' = [inflight EXCEPT ![n] = IF k > @ THEN 0 ELSE @ - k]

\* handle_messaging: a response or a failure settles the request of the caller
\* or is handed back by the forwarder.  A late one costs the link it came over.
Settle(msg) ==
  LET n    == msg.to
      r    == msg.request
      own  == {x \in outbound[n] : x.request = r /\ x.peer = msg.from}
      fwd  == {x \in forwards[n] : x.request = r /\ x.peer = msg.from}
      late == r \in expired
      told == IF late THEN "Timeout" ELSE IF msg.type = "Response" THEN "Response" ELSE "Transport"
      cut  == IF late /\ (own # {} \/ (fwd # {} /\ msg.type = "Response"))
                THEN {{n, msg.from}} \intersect links ELSE {}
      back == IF msg.type = "Response" /\ ~ late THEN "Response" ELSE "Failure"
  IN  /\ msg.type \in {"Response", "Failure"}
      /\ result' = IF own = {} THEN result ELSE [result EXCEPT ![r] = told]
      /\ complete_forward(n, fwd, msg.type)
      /\ Cut(cut, (net \ {msg}) \union UNION {Back(back, x, n) : x \in fwd},
             [outbound EXCEPT ![n] = @ \ own], [forwards EXCEPT ![n] = @ \ fwd], inbound)
      /\ UNCHANGED <<faults, installs, seen, expired>>

Deadline(r) ==
  /\ expired' = expired \union {r} /\ r \notin expired
  /\ UNCHANGED <<routing, net, tables, result>>

\* Mutant: nothing waits for the deadlines.
Overdue_Never(n) == [own |-> {}, fwd |-> {}, inb |-> {}]

\* The entries whose deadline has passed.
Overdue(n) ==
  [own |-> {x \in outbound[n] : x.request \in expired},
   fwd |-> {x \in forwards[n] : x.request \in expired},
   inb |-> {x \in inbound[n] : x.request \in expired}]

\* expire_pending_requests: callers are told, forwards and tokens dropped, and
\* the links over which an answer is overdue closed.
expire_pending_requests(n) ==
  LET o   == Overdue(n)
      cut == {{n, x.peer} : x \in o.own \union o.fwd} \intersect links
  IN  /\ o.own \union o.fwd \union o.inb # {}
      /\ result' = [r \in Request |-> IF \E x \in o.own : x.request = r THEN "Timeout" ELSE result[r]]
      /\ complete_forward(n, o.fwd, "Timeout")
      /\ Cut(cut, net \union UNION {Back("Failure", x, n) : x \in o.fwd}
                   \union {Failure(x.request, n, x.prev) : x \in o.inb},
             [outbound EXCEPT ![n] = @ \ o.own], [forwards EXCEPT ![n] = @ \ o.fwd],
             [inbound EXCEPT ![n] = @ \ o.inb])
      /\ UNCHANGED <<faults, installs, seen, expired>>
-----------------------------------------------------------------------------
(* The links and the registry, with what they mean for the tables.         *)

LinkUp(e) ==
  /\ e \in Edge \ links
  /\ links' = links \union {e}
  /\ UNCHANGED <<faults, installs, net, tables, expired, result>>

\* install_authorization: the new Router has seen nothing and counts no forwards.
Install(n) ==
  /\ installs < MaxInstalls /\ installs' = installs + 1
  /\ seen' = [seen EXCEPT ![n] = {}] /\ inflight' = [inflight EXCEPT ![n] = 0]
  /\ UNCHANGED <<links, faults, net, outbound, forwards, inbound, expired, result>>

Actor(n) ==
  \/ expire_pending_requests(n)
  \/ \E msg \in {x \in net : x.to = n} : Settle(msg) \/ \E hop \in Node \union {None} : RequestArrives(msg, hop)

Progress == (\E r \in Request : Deadline(r)) \/ \E n \in Node : Actor(n)

Next ==
  \/ Progress
  \/ \E n \in Node : Install(n) \/ \E x \in inbound[n] : Respond(n, x)
  \/ \E r \in Request, hop \in Node \union {None} : Call(r, hop)
  \/ \E e \in Edge : LinkFails(e) \/ LinkUp(e)

\* Actors run on and deadlines pass; nothing is assumed of the network and of the
\* handlers, which may never be done.  One weak fairness is enough, because all of it can happen only finitely often.
Fairness == WF_vars(Progress)

Spec == Init /\ [][Next]_vars /\ Fairness
-----------------------------------------------------------------------------
\* A forwarder's slots are those of the forwards in its table: none leaks on any
\* of the ways a forward ends, and without a change of the registry the bound
\* on forwards is the bound of the table.
SlotsExact ==
  \A n \in Node : /\ inflight[n] <= Cardinality(forwards[n])
                  /\ installs = 0 => inflight[n] = Cardinality(forwards[n])

\* Every caller is told something: no request is lost among the tables of three
\* actors, whatever links fail and whichever side times out first.
Answered == \A r \in Request : result[r] # "Waiting"
CallersAnswered == <>[]Answered

\* All tables drain: no token, forward or slot outlives the deadlines.
Drained ==
  \A n \in Node : outbound[n] = {} /\ forwards[n] = {} /\ inbound[n] = {} /\ inflight[n] = 0
TablesDrain == <>[]Drained
=============================================================================
