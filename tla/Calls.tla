------------------------------- MODULE Calls -------------------------------
(***************************************************************************)
(* Calls between daemons: the tasks that ask peers over the overlay        *)
(* (daemon/src/overlay_transport.rs and the loops of daemon/src/sync), the *)
(* LinkHandle they share (overlay/src/link/handle.rs), the bounded         *)
(* channels into and out of the link actor, and the dispatcher that serves *)
(* one request after the other (daemon/src/overlay.rs).  The tables of the *)
(* actor over several hops are module Forwarding; here peers are adjacent. *)
(*                                                                         *)
(* The clocks of two nodes differ, so whether a deadline has passed is a   *)
(* choice (late) at every check.                                           *)
(***************************************************************************)
EXTENDS Naturals, Sequences, FiniteSets

CONSTANTS
  Node,           \* daemons
  Task,           \* tasks that call: [node, plane, peer]; the peer may be absent
  None,
  command_capacity,
  MAX_PENDING_INBOUND,
  LastSequence,   \* u64::MAX of a request sequence
  MaxEvents,      \* bound: tasks and rounds that start, links that fail, shutdowns and restarts
  MaxLinks        \* bound: links that come up

VARIABLES
  actor,          \* the link actor of a node is "run"ning, "closing" or "stopped"
  cmds,           \* the command channel
  request_ids,    \* [boot, next] of a node
  call,           \* [pc, req, out] of a task
  round,          \* the anti-entropy round of a node
  outbound,       \* pending_outbound
  inbound, tokens,\* the inbound channel and pending_inbound
  seen,           \* of the Router
  dispatcher,     \* [pc, req] of a node
  link, net,      \* the links that are up, and what travels on them
  handled,        \* history: requests callers wait for whose handler was done
  starts,         \* bound: every task starts once
  events, links

vars == <<actor, cmds, request_ids, call, round, outbound, inbound, tokens, seen, dispatcher, link, net,
          handled, starts, events, links>>
tables == <<outbound, inbound, tokens, seen>>

Idle == [pc |-> "idle", req |-> None, out |-> None]
Resting == [phase |-> "idle", queue |-> <<>>, pending |-> {}, tried |-> {}, last |-> None]
Off == [pc |-> "off", req |-> None]

Home(req) == req.task.node
Callee(req) == req.task.peer
RoundTasks(n) == {t \in Task : t.node = n /\ t.plane = "membership"}
Message(type, req) == [type |-> type, req |-> req]

\* What a channel brings back, while its request waits.
Back(type, req) == IF req \in outbound[Home(req)] THEN {Message(type, req)} ELSE {}
To(msg) == IF msg.type = "Request" THEN Callee(msg.req) ELSE Home(msg.req)

\* Something new happens.
Event == events < MaxEvents /\ events' = events + 1 /\ UNCHANGED links

(***************************************************************************)
(* The calling side.                                                       *)
(***************************************************************************)

\* Membership and resource calls run under RPC_TIMEOUT; the others wait for the actor.
Timed(t) == t.plane \in {"membership", "resource"}

\* Mutant: the counter wraps.
allocate_Wraps(n) ==
  [id |-> <<n, request_ids[n].boot, request_ids[n].next>>, next |-> (request_ids[n].next + 1) % LastSequence]

\* RequestSequence::allocate with RequestId::derive.
allocate(n) ==
  [id |-> IF request_ids[n].next = LastSequence THEN None ELSE <<n, request_ids[n].boot, request_ids[n].next>>,
   next |-> IF request_ids[n].next = LastSequence THEN LastSequence ELSE request_ids[n].next + 1]

Over(c, out) == [c EXCEPT !.pc = "done", !.out = out]

\* OverlayPeerRoute::request up to the channel.  Without an id, or with a payload that
\* exceeds the frame, the call fails at once.
Issue(t, fits) ==
  \E a \in {allocate(t.node)} :
    /\ request_ids' = [request_ids EXCEPT ![t.node].next = a.next]
    /\ handled' = {req \in handled : req.task # t}
    /\ call' = [call EXCEPT ![t] =
         IF a.id # None /\ fits THEN [pc |-> "send", req |-> [id |-> a.id, task |-> t], out |-> None]
                                ELSE Over(Idle, "error")]

\* A task on its own: a registry exchange, a forwarded extension call, a resource exchange.
Start(t, fits) ==
  /\ t \notin RoundTasks(t.node) /\ actor[t.node] = "run"
  /\ call[t].pc = "idle" /\ t \notin starts /\ Event
  /\ starts' = starts \union {t}
  /\ Issue(t, fits)
  /\ UNCHANGED <<actor, cmds, round, tables, dispatcher, link, net>>

Over1(t) == call' = [call EXCEPT ![t] = Idle]

\* The task takes the answer.
Take(t) ==
  /\ t \notin RoundTasks(t.node) /\ call[t].pc = "done"
  /\ Over1(t)
  /\ UNCHANGED <<actor, cmds, request_ids, round, tables, dispatcher, link, net, handled>>

Running(n) == actor[n] # "stopped"
Room(n) == Len(cmds[n]) < command_capacity
Command(op, req) == [op |-> op, req |-> req]

\* LinkHandle::send: wait for room in the channel; without an actor an error.
Send(t) ==
  /\ call[t].pc = "send"
  /\ IF Running(t.node)
       THEN /\ Room(t.node)
            /\ cmds' = [cmds EXCEPT ![t.node] = Append(@, Command("Request", call[t].req))]
            /\ call' = [call EXCEPT ![t].pc = "wait"]
       ELSE call' = [call EXCEPT ![t] = Over(@, "error")] /\ UNCHANGED cmds
  /\ UNCHANGED <<actor, request_ids, round, tables, dispatcher, link, net, handled>>

\* RPC_TIMEOUT: the future is dropped, wherever it waits.
TimesOut(t) ==
  /\ Timed(t) /\ call[t].pc \in {"send", "wait"}
  /\ call' = [call EXCEPT ![t] = Over(@, "error")]
  /\ UNCHANGED <<actor, cmds, request_ids, round, tables, dispatcher, link, net, handled>>

\* The oneshot channels of the requests in reqs.
Tell(reqs, out) ==
  [t \in Task |-> IF call[t].pc = "wait" /\ call[t].req \in reqs THEN Over(call[t], out) ELSE call[t]]

(***************************************************************************)
(* A round of the membership loop.                                         *)
(***************************************************************************)
rank(n, p) == IF {n, p} \in link THEN 0 ELSE 1

\* authorized_peers: connected peers first; the order of node ids is any order.
authorized_peers(n) ==
  LET peers == {t.peer : t \in RoundTasks(n)}
  IN  {s \in [1..Cardinality(peers) -> peers] :
         \A i, j \in DOMAIN s : i < j => s[i] # s[j] /\ rank(n, s[i]) <= rank(n, s[j])}

\* sync_with_peers: the preferred peer first.
sync_with_peers(n, order) ==
  /\ round[n].phase = "idle" /\ RoundTasks(n) # {} /\ actor[n] = "run" /\ RoundTasks(n) \intersect starts = {} /\ Event
  /\ starts' = starts \union RoundTasks(n)
  /\ round' = [round EXCEPT ![n] = [phase |-> "first", queue |-> Tail(order), pending |-> {Head(order)},
                                    tried |-> {}, last |-> None]]
  /\ UNCHANGED <<actor, cmds, request_ids, call, tables, dispatcher, link, net, handled>>

\* sync_attempt with one of the peers that are due; the fallbacks run side by side.
sync_attempt(t) ==
  /\ t.peer \in round[t.node].pending /\ t \in RoundTasks(t.node) /\ call[t].pc = "idle"
  /\ round' = [round EXCEPT ![t.node].pending = @ \ {t.peer},
                            ![t.node].tried = @ \union {<<round[t.node].phase = "retry", t.peer>>}]
  /\ Issue(t, TRUE)
  /\ UNCHANGED <<actor, cmds, tables, dispatcher, link, net>>

Isolated(r) == [r EXCEPT !.phase = "idle", !.last = "isolated"]


\* retry_seeds_when_isolated: every peer once more, until one answers.
retry_seeds(r, order) ==
  {[r EXCEPT !.phase = "retry", !.queue = Tail(order), !.pending = {Head(order)}]}

\* What follows when no peer of the current step answered.
Onward(r, order) ==
  IF r.phase = "first" /\ r.queue # <<>>
    THEN {[r EXCEPT !.phase = "rest", !.queue = <<>>, !.pending = {r.queue[i] : i \in DOMAIN r.queue}]}
  ELSE IF r.phase # "retry" THEN retry_seeds(r, order)
  ELSE IF r.queue # <<>> THEN {[r EXCEPT !.queue = Tail(@), !.pending = {Head(r.queue)}]}
  ELSE {Isolated(r)}

\* All attempts of the current step have ended.
Joined(n, order) ==
  /\ round[n].phase # "idle" /\ round[n].pending = {}
  /\ \A t \in RoundTasks(n) : call[t].pc \in {"idle", "done"}
  /\ round' = [round EXCEPT ![n] =
       IF \E t \in RoundTasks(n) : call[t].out = "ok"
         THEN [@ EXCEPT !.phase = "idle", !.last = "ok"]
         ELSE CHOOSE r \in Onward(@, order) : TRUE]
  /\ call' = [t \in Task |-> IF t \in RoundTasks(n) THEN Idle ELSE call[t]]
  /\ UNCHANGED <<actor, cmds, request_ids, tables, dispatcher, link, net, handled>>

(***************************************************************************)
(* The actor.                                                              *)
(***************************************************************************)

\* The link of a pair goes down: what travels on it is lost, and requests that wait fail.
Cut(pairs, kept, out) ==
  /\ link' = link \ pairs
  /\ net' = {msg \in kept : (msg.type = "Failure" /\ msg.req \in out[Home(msg.req)])
                              \/ {Home(msg.req), Callee(msg.req)} \notin pairs}
              \union {Message("Failure", req) : req \in {q \in UNION {out[n] : n \in Node} :
                                                           {Home(q), Callee(q)} \in pairs}}

\* send_routed_request.
Request(n, req, late) ==
  IF {n, Callee(req)} \in link /\ ~late
    THEN /\ outbound' = [outbound EXCEPT ![n] = @ \union {req}]
         /\ net' = net \union {Message("Request", req)}
         /\ UNCHANGED call
    ELSE call' = Tell({req}, "error") /\ UNCHANGED <<outbound, net>>

\* Mutant: a response whose token is gone is dropped without a word.
Replied_Known(n, req) == req \in tokens[n]

\* Every command is answered, also a respond that fails.
Replied(n, req) == TRUE

\* respond: the token may be gone, or its deadline passed, which drops the channel.
Respond(n, req, late) ==
  /\ tokens' = [tokens EXCEPT ![n] = @ \ {req}]
  /\ net' = IF req \notin tokens[n] THEN net
            ELSE net \union Back(IF late THEN "Failure" ELSE "Response", req)

\* Shutdown, and the end of the actor: its channels and tables are dropped.
Stop(n, callers) ==
  /\ actor' = [actor EXCEPT ![n] = "stopped"]
  /\ cmds' = [cmds EXCEPT ![n] = <<>>]
  /\ call' = callers
  /\ outbound' = [outbound EXCEPT ![n] = {}] /\ tokens' = [tokens EXCEPT ![n] = {}]
  /\ inbound' = [inbound EXCEPT ![n] = <<>>] /\ seen' = [seen EXCEPT ![n] = {}]
  /\ Cut({pair \in link : n \in pair}, {msg \in net : To(msg) # n}, outbound')

\* handle_command.
handle_command(n, late) ==
  /\ Running(n) /\ cmds[n] # <<>>
  /\ \E c \in {Head(cmds[n])} :
       \/ /\ c.op = "Request" /\ Request(n, c.req, late)
          /\ UNCHANGED <<actor, inbound, tokens, seen, dispatcher, link>>
          /\ cmds' = [cmds EXCEPT ![n] = Tail(@)]
       \/ /\ c.op = "Respond" /\ Respond(n, c.req, late)
          /\ dispatcher' = [dispatcher EXCEPT ![n] = IF @.pc = "wait" /\ Replied(n, c.req)
                                                          THEN [pc |-> "idle", req |-> None] ELSE @]
          /\ UNCHANGED <<actor, call, outbound, inbound, seen, link>>
          /\ cmds' = [cmds EXCEPT ![n] = Tail(@)]
       \/ /\ c.op = "Commit"
          /\ dispatcher' = [dispatcher EXCEPT ![n].pc = IF @ = "wait" THEN "reply" ELSE @]
          /\ UNCHANGED <<actor, call, tables, link, net>>
          /\ cmds' = [cmds EXCEPT ![n] = Tail(@)]
       \/ /\ c.op = "Shutdown"
          /\ Stop(n, [t \in Task |-> IF t.node = n /\ call[t].pc = "wait" THEN Over(call[t], "error") ELSE call[t]])
          /\ UNCHANGED dispatcher
  /\ UNCHANGED <<request_ids, round, handled>>

\* handle_inbound_request and deliver, for a request to this node.
RequestArrives(n, msg, late) ==
  /\ Running(n) /\ msg.type = "Request" /\ To(msg) = n
  /\ \E req \in {msg.req} :
       LET fresh == req.id \notin seen[n] /\ ~late
           room == Cardinality(tokens[n]) < MAX_PENDING_INBOUND /\ Len(inbound[n]) < command_capacity
       IN  /\ seen' = [seen EXCEPT ![n] = IF fresh THEN @ \union {req.id} ELSE @]
           /\ inbound' = [inbound EXCEPT ![n] = IF fresh /\ room THEN Append(@, req) ELSE @]
           /\ tokens' = [tokens EXCEPT ![n] = IF fresh /\ room THEN @ \union {req} ELSE @]
           /\ net' = (net \ {msg}) \union (IF fresh /\ room THEN {} ELSE Back("Failure", req))
  /\ UNCHANGED <<actor, cmds, request_ids, call, round, outbound, dispatcher, link, handled>>

\* handle_messaging: a response, or the failure of a request.  A late one costs the link.
AnswerArrives(n, msg, late) ==
  /\ Running(n) /\ msg.type # "Request" /\ To(msg) = n
  /\ \E mine \in {outbound[n] \intersect {msg.req}} :
       /\ outbound' = [outbound EXCEPT ![n] = @ \ mine]
       /\ call' = Tell(mine, IF msg.type = "Response" /\ ~late THEN "ok" ELSE "error")
       /\ Cut({{n, Callee(req)} : req \in {q \in mine : late}} \intersect link, net \ {msg}, outbound')
  /\ UNCHANGED <<actor, cmds, request_ids, round, inbound, tokens, seen, dispatcher, handled>>

\* The entries whose deadline may have passed.
Overdue(n) == outbound[n] \union tokens[n]

\* expire_pending_requests.
expire_pending_requests(n, req) ==
  /\ Running(n) /\ req \in Overdue(n)
  /\ \E mine \in {outbound[n] \intersect {req}} :
       /\ call' = Tell(mine, "error")
       /\ outbound' = [outbound EXCEPT ![n] = @ \ mine]
       /\ tokens' = [tokens EXCEPT ![n] = @ \ {req}]
       /\ Cut({{n, Callee(q)} : q \in mine} \intersect link,
              net \union (IF req \in tokens[n] THEN Back("Failure", req) ELSE {}), outbound')
  /\ UNCHANGED <<actor, cmds, request_ids, round, inbound, seen, dispatcher, handled>>

(***************************************************************************)
(* The dispatcher.                                                         *)
(***************************************************************************)

\* run_dispatcher: spawned once the handlers are installed.
run_dispatcher(n) ==
  /\ dispatcher[n].pc = "off" /\ actor[n] = "run"
  /\ dispatcher' = [dispatcher EXCEPT ![n].pc = "idle"]
  /\ UNCHANGED <<actor, cmds, request_ids, call, round, tables, link, net, handled>>

next_inbound(n) ==
  /\ dispatcher[n].pc = "idle" /\ inbound[n] # <<>>
  /\ dispatcher' = [dispatcher EXCEPT ![n] = [pc |-> "handle", req |-> Head(inbound[n])]]
  /\ inbound' = [inbound EXCEPT ![n] = Tail(@)]
  /\ UNCHANGED <<actor, cmds, request_ids, call, round, outbound, tokens, seen, link, net, handled>>

Waited(req) == {req} \intersect {call[t].req : t \in Task}

\* Mutant: membership requests are answered while the merge is still to come.
handle_Early(n, req) == handled' = IF req.task.plane = "membership" THEN handled ELSE handled \union Waited(req)

\* The handler of the plane: MembershipRequestHandler, OverlayResourceRequestHandler,
\* OverlayExtensionRequestHandler, handle_registry.
handle(n, req) == handled' = handled \union Waited(req)

\* A registry handler goes to the actor before it answers; an answer that exceeds the
\* frame is not sent.
Handle(n, fits) ==
  /\ dispatcher[n].pc = "handle"
  /\ handle(n, dispatcher[n].req)
  /\ dispatcher' = [dispatcher EXCEPT ![n] =
       IF @.req.task.plane = "registry" THEN [@ EXCEPT !.pc = "commit"]
       ELSE IF fits THEN [@ EXCEPT !.pc = "reply"]
       ELSE [pc |-> "idle", req |-> None]]
  /\ UNCHANGED <<actor, cmds, request_ids, call, round, tables, link, net>>

\* commit_authorization and send_reply_payload: the dispatcher waits for the actor's turn.
Ask(n) ==
  /\ dispatcher[n].pc \in {"commit", "reply"} /\ Room(n) /\ Running(n)
  /\ cmds' = [cmds EXCEPT ![n] = Append(@, Command(IF dispatcher[n].pc = "commit" THEN "Commit" ELSE "Respond",
                                                   dispatcher[n].req))]
  /\ dispatcher' = [dispatcher EXCEPT ![n].pc = "wait"]
  /\ UNCHANGED <<actor, request_ids, call, round, tables, link, net, handled>>

(***************************************************************************)
(* Shutdown, restarts and links.                                           *)
(***************************************************************************)

\* The end of run_inner: the loops and their calls are dropped, then the actor is asked.
shutdown(n) ==
  /\ actor[n] = "run" /\ Event
  /\ actor' = [actor EXCEPT ![n] = "closing"]
  /\ dispatcher' = [dispatcher EXCEPT ![n] = Off]
  /\ round' = [round EXCEPT ![n] = Resting]
  /\ call' = [t \in Task |-> IF t.node = n /\ Timed(t) THEN Idle ELSE call[t]]
  /\ UNCHANGED <<cmds, request_ids, tables, link, net, handled, starts>>

Shutdown(n) ==
  /\ actor[n] = "closing" /\ Room(n) /\ \A i \in DOMAIN cmds[n] : cmds[n][i].op # "Shutdown"
  /\ cmds' = [cmds EXCEPT ![n] = Append(@, Command("Shutdown", None))]
  /\ UNCHANGED <<actor, request_ids, call, round, tables, dispatcher, link, net, handled>>

\* The process ends and the next one starts, with a boot id of its own.
Restart(n) ==
  /\ Event
  /\ actor' = [actor EXCEPT ![n] = "run"]
  /\ cmds' = [cmds EXCEPT ![n] = <<>>]
  /\ request_ids' = [request_ids EXCEPT ![n] = [boot |-> @.boot + 1, next |-> 0]]
  /\ call' = [t \in Task |-> IF t.node = n THEN Idle ELSE call[t]]
  /\ round' = [round EXCEPT ![n] = Resting]
  /\ dispatcher' = [dispatcher EXCEPT ![n] = Off]
  /\ outbound' = [outbound EXCEPT ![n] = {}] /\ tokens' = [tokens EXCEPT ![n] = {}]
  /\ inbound' = [inbound EXCEPT ![n] = <<>>] /\ seen' = [seen EXCEPT ![n] = {}]
  /\ Cut({pair \in link : n \in pair}, {msg \in net : To(msg) # n}, outbound')
  /\ UNCHANGED <<handled, starts>>

LinkFails(pair) ==
  /\ pair \in link /\ Event
  /\ Cut({pair}, net, outbound)
  /\ UNCHANGED <<actor, cmds, request_ids, call, round, tables, dispatcher, handled, starts>>

LinkUp(m, n) ==
  /\ m # n /\ {m, n} \notin link /\ links < MaxLinks /\ links' = links + 1 /\ actor[m] = "run" /\ actor[n] = "run"
  /\ link' = link \union {{m, n}}
  /\ UNCHANGED <<actor, cmds, request_ids, call, round, tables, dispatcher, net, handled, starts, events>>

Init ==
  /\ actor = [n \in Node |-> "run"]
  /\ cmds = [n \in Node |-> <<>>]
  /\ request_ids = [n \in Node |-> [boot |-> 0, next |-> 0]]
  /\ call = [t \in Task |-> Idle]
  /\ round = [n \in Node |-> Resting]
  /\ outbound = [n \in Node |-> {}] /\ tokens = outbound /\ seen = outbound
  /\ inbound = [n \in Node |-> <<>>]
  /\ dispatcher = [n \in Node |-> Off]
  /\ link = {pair \in SUBSET Node : Cardinality(pair) = 2}
  /\ net = {} /\ handled = {}
  /\ starts = {} /\ events = 0 /\ links = 0

Actor(n) ==
  \/ Shutdown(n)
  \/ \E req \in Overdue(n) : expire_pending_requests(n, req)
  \/ \E late \in BOOLEAN : \/ handle_command(n, late)
                         \/ \E msg \in net : RequestArrives(n, msg, late) \/ AnswerArrives(n, msg, late)

Progress ==
  /\ \/ \E n \in Node : \/ Actor(n)
                        \/ run_dispatcher(n) \/ next_inbound(n) \/ Ask(n)
                        \/ \E fits \in BOOLEAN : Handle(n, fits)
                        \/ \E order \in authorized_peers(n) : Joined(n, order)
     \/ \E t \in Task : Take(t) \/ Send(t) \/ sync_attempt(t)
  /\ UNCHANGED <<starts, events, links>>

Next ==
  \/ Progress
  \/ \E t \in Task : (TimesOut(t) /\ UNCHANGED <<starts, events, links>>) \/ \E fits \in BOOLEAN : Start(t, fits)
  \/ \E n \in Node : shutdown(n) \/ Restart(n) \/ \E order \in authorized_peers(n) : sync_with_peers(n, order)
  \/ \E pair \in link : LinkFails(pair)
  \/ \E m, n \in Node : LinkUp(m, n)

\* Tasks, actors, dispatchers and handlers run on, and deadlines pass; nothing is
\* assumed of the links.
Spec == Init /\ [][Next]_vars /\ WF_vars(Progress)

(***************************************************************************)
(* Properties.                                                             *)
(***************************************************************************)

\* A peer never takes a request for one it has seen, whichever tasks share the sequence,
\* after a restart and at the end of the sequence (RequestSequence, Router::handle).
FreshIds == \A msg \in net : msg.type = "Request" => msg.req.id \notin seen[To(msg)]

\* A caller that is told success had its request handled to the end.
SuccessHandled == \A t \in Task : call[t].out = "ok" => call[t].req \in handled

\* A round reports no peer reachable only after it has asked every authorized peer, and
\* once more in the pass over the seeds (sync_with_peers, retry_seeds_when_isolated).
IsolatedMeansAllAsked ==
  \A n \in Node : round[n].last = "isolated" =>
    round[n].tried = {<<again, t.peer>> : again \in BOOLEAN, t \in RoundTasks(n)}

\* After the last start and fault everything comes to rest: every caller is released,
\* also one without a timer whose request was lost, dropped, never answered or in the
\* channel of an actor that stopped, and no dispatcher waits for its actor for ever.
AtRest ==
  /\ \A t \in Task : call[t].pc \notin {"send", "wait"}
  /\ \A n \in Node : dispatcher[n].pc \in {"off", "idle"}
CallsSettle == <>[]AtRest
=============================================================================
