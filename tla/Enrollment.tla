----------------------------- MODULE Enrollment -----------------------------
(***************************************************************************)
(* How nodes enroll into a cluster and exchange its registry: the daemon's *)
(* overlay bootstrap (crates/daemon/src/overlay.rs), the admission protocol*)
(* (crates/overlay/src/admission.rs) and the commit of a checkpoint in one *)
(* turn of the link actor (crates/overlay/src/link/actor.rs).              *)
(*                                                                         *)
(* A registry exists three times on a node: on disk, in the link actor,    *)
(* which decides whose messages are accepted, and in Enrollment, from      *)
(* which the node signs and pushes.  The first two change in one turn of   *)
(* the actor, for a task that holds the lock of the third until it has     *)
(* followed, so no one can tell the three apart and one variable stands    *)
(* for them.  A process may die between any two steps and the links may    *)
(* fail at any time.                                                       *)
(*                                                                         *)
(* Every node keeps the identity it was generated with, and knows the join *)
(* key.  A challenge is identified by the boot of the candidate that asked *)
(* for it: a candidate begins once per boot.                               *)
(***************************************************************************)
EXTENDS Authorization

CONSTANTS Sponsors,        \* Sponsors[n]: the addresses cluster.join may name on n
          Lan,             \* pairs of nodes that find each other by mDNS
          MaxBoots,        \* bound: starts of one node's process
          MaxFaults        \* bound: how many of a crash, a link failure, a failed write

ASSUME EnrollmentAssumption ==
  /\ None \notin Node
  /\ Sponsors \in [Node -> SUBSET Node] /\ \A n \in Node : n \notin Sponsors[n]
  /\ Lan \subseteq SUBSET Node
  /\ MaxBoots \in Nat \ {0} /\ MaxFaults \in Nat

VARIABLES up,              \* "down", "joining", "starting" or "running"
          registry,        \* the authorization registry on disk; of a process that is
                           \* up also LinkState.authorization and Enrollment.registry
          quarantined,     \* Enrollment.quarantined: candidate -> pending admission
          directory,       \* nodes the link actor redials
          conn,            \* the open connections, as pairs of nodes
          connected,       \* LinkState.connections: those to nodes known to be active;
                           \* every other connection is quarantined
          known,           \* run_registry_gossip's known
          pushing,         \* whether the dispatcher is about to push the checkpoint on
          task,            \* the commit that holds the enrollment lock
          join,            \* the progress of OverlayNode::join
          net,             \* envelopes on the way
          boots, faults

vars == <<up, registry, quarantined, directory, conn, connected, known, pushing, task, join,
          net, boots, faults>>

cluster_id(records) == (CHOOSE r \in records : r.authorizer = None).cluster

\* node_for_peer finds m for its peer, and active_peer_for_node the peer for m:
\* no two nodes share a key.
authorized(records, m) ==
  LET r == active_record_for_node(records, m) IN r # None /\ r.key = initial_key(m)

\* Each kind of fault happens at most once.
Fault(kind) ==
  /\ kind \notin faults /\ Cardinality(faults) < MaxFaults
  /\ faults' = faults \union {kind}

Send(msgs) == net' = net \union msgs

\* A reply goes back over the connection the request came in on, while it is open.
Reply(request, reply) == net' = (net \ {request}) \union (IF request.open THEN {reply} ELSE {})

Answerable(request) == IF request = None THEN None ELSE IF request.open THEN request ELSE None

\* A registry is handed to the link actor to be committed.
Propose(n, kind, records, candidate, request) ==
  task' = [task EXCEPT ![n] = [kind |-> kind, registry |-> records, candidate |-> candidate,
                               request |-> Answerable(request)]]

IsRequest(msg) == msg.type \in {"Begin", "Prove", "Push"}

\* Connections close.  Of the messages on them only requests the receiver has
\* queued are left, and those cannot be answered any more; answer is sent as well.
Close(closed, dead, answer) ==
  LET On(msg) == {msg.from, msg.to} \in closed
  IN  \E S \in SUBSET {msg \in net : On(msg) /\ IsRequest(msg) /\ msg.to \notin dead} :
        net' = {msg \in net : ~ On(msg)} \union {[msg EXCEPT !.open = FALSE] : msg \in S}
                 \union answer

\* The commits under way, without the requests that cannot be answered any more.
Orphaned(closed) ==
  [n \in Node |-> IF task[n] = None THEN None
                  ELSE IF task[n].request = None THEN task[n]
                  ELSE IF {n, task[n].request.from} \in closed THEN [task[n] EXCEPT !.request = None]
                  ELSE task[n]]

Init ==
  /\ up = [n \in Node |-> "down"]
  /\ registry = [n \in Node |-> {}]
  /\ quarantined = [n \in Node |-> [c \in Node |-> None]]
  /\ directory = [n \in Node |-> {}] /\ known = directory
  /\ pushing = [n \in Node |-> FALSE]
  /\ conn = {} /\ connected = directory /\ net = {}
  /\ task = [n \in Node |-> None] /\ join = task
  /\ boots = [n \in Node |-> 0] /\ faults = {}
-----------------------------------------------------------------------------
(* Startup.                                                                *)


bind_local_identity(records, n) == authorized(records, n)

\* Mutant: a registry that holds the node's own record passes for a solo one.
registry_is_solo_Own(records, n) == \E r \in records : r.node = n

registry_is_solo(records, n) == \E r \in records : records = {r} /\ r.node = n

\* initialize_identity_and_registry: an empty store gets the node's own genesis.
initial_registry(n) == IF registry[n] = {} THEN {genesis(n)} ELSE registry[n]

Load(n) ==
  /\ up[n] = "down" /\ boots[n] < MaxBoots
  /\ bind_local_identity(initial_registry(n), n)
  /\ boots' = [boots EXCEPT ![n] = @ + 1]
  /\ registry' = [registry EXCEPT ![n] = initial_registry(n)]
  /\ UNCHANGED <<quarantined, conn, connected, known, pushing, task, net, faults>>

\* run_inner on a node whose configuration names no sponsor.
BootAlone(n) ==
  /\ Sponsors[n] = {} /\ Load(n)
  /\ up' = [up EXCEPT ![n] = "starting"]
  /\ UNCHANGED <<directory, join>>

\* run_inner on a solo node: it enrolls through a running sponsor s.
BootJoin(n, s) ==
  /\ s \in Sponsors[n] /\ up[s] = "running"
  /\ Load(n) /\ registry_is_solo(initial_registry(n), n)
  /\ up' = [up EXCEPT ![n] = "joining"]
  /\ join' = [join EXCEPT ![n] = [sponsor |-> s, stage |-> "dial", challenge |-> None]]
  /\ UNCHANGED directory

\* run_inner on an enrolled node: it redials its sponsor (reconnect).  The
\* process ends if the registry does not know the sponsor's peer.
BootReconnect(n, s) ==
  /\ s \in Sponsors[n]
  /\ Load(n) /\ ~ registry_is_solo(initial_registry(n), n)
  /\ authorized(initial_registry(n), s)
  /\ up' = [up EXCEPT ![n] = "starting"]
  /\ directory' = [directory EXCEPT ![n] = {s}]
  /\ UNCHANGED join

\* The dispatcher and the registry gossip start; what is connected by then is
\* known and is not pushed to.
StartLoops(n) ==
  /\ up[n] = "starting"
  /\ up' = [up EXCEPT ![n] = "running"]
  /\ known' = [known EXCEPT ![n] = connected[n]]
  /\ UNCHANGED <<registry, quarantined, directory, conn, connected, pushing, task, join, net, boots, faults>>

\* The process is gone: its memory and its connections with it.
Stop(n) ==
  /\ up' = [up EXCEPT ![n] = "down"]
  /\ quarantined' = [quarantined EXCEPT ![n] = [c \in Node |-> None]]
  /\ directory' = [directory EXCEPT ![n] = {}]
  /\ known' = [known EXCEPT ![n] = {}]
  /\ pushing' = [pushing EXCEPT ![n] = FALSE]
  /\ join' = [join EXCEPT ![n] = None]
  /\ conn' = {p \in conn : n \notin p}
  /\ connected' = [m \in Node |-> IF m = n THEN {} ELSE connected[m] \ {n}]
  /\ Close({{n, m} : m \in Node}, {n}, {})
  /\ task' = [Orphaned({{n, m} : m \in Node}) EXCEPT ![n] = None]
  /\ UNCHANGED <<registry, boots>>

Crash(n) == up[n] # "down" /\ Fault("crash") /\ Stop(n)
-----------------------------------------------------------------------------
(* Links.                                                                  *)

\* n dials m: its sponsor, a node of its directory that is not connected, or a
\* node mDNS shows.  A lost link is redialled after a delay of a second or
\* more, by when both gossip loops have seen it close.
Connect(n, m) ==
  /\ n # m /\ up[n] # "down" /\ up[m] # "down" /\ {n, m} \notin conn
  /\ \/ join[n] # None /\ join[n].sponsor = m /\ join[n].stage = "dial"
     \/ m \in directory[n]
     \/ {n, m} \in Lan /\ authorized(registry[n], m)
  /\ m \notin known[n] /\ n \notin known[m]
  /\ conn' = conn \union {{n, m}}
  /\ connected' = [connected EXCEPT ![n] = @ \union {k \in {m} : authorized(registry[n], m)},
                                    ![m] = @ \union {k \in {n} : authorized(registry[m], n)}]
  /\ UNCHANGED <<up, registry, quarantined, directory, known, pushing, task, join, net, boots, faults>>

\* A link fails, or a request over it runs into its deadline.
Disconnect(n, m) ==
  /\ {n, m} \in conn /\ Fault("link")
  /\ conn' = conn \ {{n, m}}
  /\ connected' = [connected EXCEPT ![n] = @ \ {m}, ![m] = @ \ {n}]
  /\ Close({{n, m}}, {}, {}) /\ task' = Orphaned({{n, m}})
  /\ UNCHANGED <<up, registry, quarantined, directory, known, pushing, join, boots>>
-----------------------------------------------------------------------------
(* The candidate's side of OverlayNode::join.                              *)

JoinBegin(n) ==
  /\ up[n] = "joining" /\ join[n].stage = "dial"
  /\ {n, join[n].sponsor} \in conn
  /\ Send({[type |-> "Begin", from |-> n, to |-> join[n].sponsor,
           attempt |-> boots[n], open |-> TRUE]})
  /\ join' = [join EXCEPT ![n].stage = "begin"]
  /\ UNCHANGED <<up, registry, quarantined, directory, conn, connected, known, pushing, task, boots, faults>>

\* The challenge is answered with a proof over both nonces.
JoinProve(n, msg) ==
  /\ msg.type = "Challenge" /\ msg.to = n
  /\ up[n] = "joining" /\ join[n].stage = "begin"
  /\ net' = (net \ {msg}) \union
              {[type |-> "Prove", from |-> n, to |-> msg.from, challenge |-> msg.challenge,
                open |-> TRUE]}
  /\ join' = [join EXCEPT ![n].stage = "prove", ![n].challenge = msg.challenge]
  /\ UNCHANGED <<up, registry, quarantined, directory, conn, connected, known, pushing, task, boots, faults>>

\* AdmissionOutcome::validate_for: a closed registry of the challenge's cluster
\* in which the sponsor and the candidate are active with the keys they hold.
validate_for(msg, challenge) ==
  /\ mergeable(challenge.cluster, {}, msg.records)
  /\ msg.from = challenge.sponsor /\ authorized(msg.records, msg.from)
  /\ authorized(msg.records, msg.to) /\ active_record_for_node(msg.records, msg.to) = msg.record

\* The checkpoint is handed to commit_adopt_authorization.
JoinAdopt(n, msg) ==
  /\ msg.type = "Admitted" /\ msg.to = n
  /\ up[n] = "joining" /\ join[n].stage = "prove"
  /\ validate_for(msg, join[n].challenge)
  /\ net' = net \ {msg}
  /\ join' = [join EXCEPT ![n].stage = "adopt"]
  /\ Propose(n, "adopt", msg.records, None, None)
  /\ UNCHANGED <<up, registry, quarantined, directory, conn, connected, known, pushing, boots, faults>>

\* join fails, and with it the process: the sponsor refuses, its outcome is not
\* valid, the connection is lost, or a sponsor that is not running does not
\* answer before the deadline.
JoinFail(n) ==
  /\ up[n] = "joining" /\ join[n].stage # "adopt"
  /\ \/ \E msg \in net : /\ msg.to = n
                         /\ \/ msg.type = "Rejected"
                            \/ msg.type = "Admitted" /\ ~ validate_for(msg, join[n].challenge)
     \/ join[n].stage # "dial" /\ {n, join[n].sponsor} \notin conn
     \/ up[join[n].sponsor] # "running"
  /\ Stop(n) /\ UNCHANGED faults
-----------------------------------------------------------------------------
(* The sponsor's side: handle_admission, under the enrollment lock.        *)

\* The dispatcher takes the next envelope and the enrollment lock.
Dispatch(n, msg) ==
  /\ msg \in net /\ msg.to = n /\ up[n] = "running"
  /\ task[n] = None /\ ~ pushing[n]

ensure_sponsor(n) ==
  IF authorized(registry[n], n) THEN active_record_for_node(registry[n], n) ELSE None

Rejected(request) == [type |-> "Rejected", from |-> request.to, to |-> request.from]

\* Enrollment::begin.  A candidate that is active already is to get its record
\* again; one that is revoked or conflicted is refused.
HandleBegin(n, msg) ==
  LET c         == msg.from
      challenge == [sponsor |-> n, cluster |-> cluster_id(registry[n]), nonce |-> msg.attempt]
  IN  /\ msg.type = "Begin" /\ Dispatch(n, msg)
      /\ \E now \in {status(registry[n], c)} :
           IF /\ ensure_sponsor(n) # None
              /\ now.is = "Active" => now.record.key = initial_key(c)
              /\ now.is \in {"Unknown", "Active"}
             THEN /\ quarantined' = [quarantined EXCEPT ![n][c] = [challenge |-> challenge, resume |-> now.record]]
                  /\ Reply(msg, [type |-> "Challenge", from |-> n, to |-> c, challenge |-> challenge])
             ELSE Reply(msg, Rejected(msg)) /\ UNCHANGED quarantined
      /\ UNCHANGED <<up, registry, directory, conn, connected, known, pushing, task, join, boots, faults>>

Admitted(request, record, records) ==
  [type |-> "Admitted", from |-> request.to, to |-> request.from, record |-> record, records |-> records]

\* The outcome of an admission: the record, and the registry that holds it.
Outcome(record, records) == [record |-> record, registry |-> records]

\* Mutant: a candidate that is active already is admitted a second time.
enroll_with_join_key_NoResume(n, msg) ==
  LET c == msg.from
      p == quarantined[n][c]
      i == ensure_sponsor(n)
      h == IF i = None THEN None ELSE authorizer_head(registry[n], i)
  IN  IF p = None \/ i = None THEN None
      ELSE IF p.challenge # msg.challenge THEN None
      ELSE IF h = None THEN None
      ELSE Outcome(admit(c, i, h), registry[n] \union {admit(c, i, h)})

\* enroll_with_join_key and admit_pending: the admission of the candidate, or
\* None if the proof does not fit the pending challenge.  A candidate that is
\* active already gets its record again.
enroll_with_join_key(n, msg) ==
  LET c == msg.from
      p == quarantined[n][c]
      i == ensure_sponsor(n)
      h == IF i = None THEN None ELSE authorizer_head(registry[n], i)
  IN  IF p = None \/ i = None THEN None
      ELSE IF p.challenge # msg.challenge THEN None
      ELSE IF p.resume # None
        THEN IF active_record_for_node(registry[n], c) = p.resume THEN Outcome(p.resume, registry[n]) ELSE None
      ELSE IF h = None THEN None
      ELSE Outcome(admit(c, i, h), registry[n] \union {admit(c, i, h)})

\* The proof is refused, or leaves the registry as it is, and nothing has to be
\* committed, or admits the candidate: the new registry goes to commit_enrollment.
HandleProve(n, msg) ==
  /\ msg.type = "Prove" /\ Dispatch(n, msg)
  /\ \E o \in {enroll_with_join_key(n, msg)} :
       \/ o = None /\ Reply(msg, Rejected(msg)) /\ UNCHANGED <<quarantined, task>>
       \/ /\ o # None /\ o.registry = registry[n]
          /\ Reply(msg, Admitted(msg, o.record, registry[n]))
          /\ quarantined' = [quarantined EXCEPT ![n][msg.from] = None]
          /\ UNCHANGED task
       \/ /\ o # None /\ o.registry # registry[n]
          /\ Propose(n, "admit", o.registry, o.record, msg)
          /\ net' = net \ {msg}
          /\ UNCHANGED quarantined
  /\ UNCHANGED <<up, registry, directory, conn, connected, known, pushing, join, boots, faults>>
-----------------------------------------------------------------------------
(* commit_enrollment, commit_adopt_authorization.                          *)

Applied(request, records) ==
  [type |-> "Applied", from |-> request.to, to |-> request.from, records |-> records]

\* The answer to the request whose registry was committed.
Answer(t) ==
  IF t.request = None THEN {}
  ELSE IF t.kind = "admit" THEN {Admitted(t.request, t.candidate, t.registry)}
  ELSE {Applied(t.request, t.registry)}

\* One turn of the link actor: validate_authorization, persist, and
\* install_authorization, which promotes quarantined connections and closes those
\* of peers that are no longer active.  The task still holds the lock: Enrollment takes the registry
\* over, the request is answered, and a checkpoint that was pushed here and
\* changed something is to be pushed on.
Commit(n) ==
  /\ task[n] # None
  /\ \E t \in {task[n]} :
     \E active \in {{m \in Node \ {n} : {n, m} \in conn /\ authorized(t.registry, m)}} :
     \E stale \in {{{n, m} : m \in connected[n] \ active}} :
      /\ t.kind = "adopt" \/ cluster_id(t.registry) = cluster_id(registry[n])
      /\ registry' = [registry EXCEPT ![n] = t.registry]
      /\ directory' = [directory EXCEPT ![n] = {m \in @ : authorized(t.registry, m)}]
      /\ conn' = conn \ stale
      /\ connected' = [m \in Node |-> IF m = n THEN active
                                      ELSE IF {n, m} \in stale THEN connected[m] \ {n} ELSE connected[m]]
      /\ Close(stale, {}, IF t.request = None \/ {n, t.request.from} \in stale THEN {} ELSE Answer(t))
      /\ task' = [Orphaned(stale) EXCEPT ![n] = None]
      /\ quarantined' = [quarantined EXCEPT ![n] =
                           CASE t.kind = "adopt" -> [c \in Node |-> None]
                             [] t.kind = "admit" -> [@ EXCEPT ![t.candidate.node] = None]
                             [] OTHER -> @]
      /\ pushing' = [pushing EXCEPT ![n] = @ \/ t.kind = "push"]
      /\ up' = IF t.kind = "adopt" THEN [up EXCEPT ![n] = "starting"] ELSE up
      /\ join' = IF t.kind = "adopt" THEN [join EXCEPT ![n] = None] ELSE join
      /\ UNCHANGED <<known, boots, faults>>

\* The write fails: nothing is stored, nothing is installed, the proposal is
\* dropped and the request refused; a node that was joining ends.
CommitFails(n) ==
  LET t == task[n]
  IN  /\ t # None /\ Fault("write")
      /\ IF t.kind = "adopt" THEN Stop(n)
         ELSE /\ task' = [task EXCEPT ![n] = None]
              /\ Send(IF t.kind = "admit" /\ t.request # None THEN {Rejected(t.request)} ELSE {})
              /\ UNCHANGED <<up, registry, quarantined, directory, conn, connected, known, pushing, join, boots>>
-----------------------------------------------------------------------------
(* The exchange of checkpoints.                                            *)

\* broadcast_checkpoint: the registry, read under the lock, goes to every
\* connected node.
broadcast_checkpoint(n) ==
  /\ task[n] = None
  /\ Send({[type |-> "Push", from |-> n, to |-> m, records |-> registry[n], open |-> TRUE] :
             m \in connected[n]})

\* run_registry_gossip: the snapshot changed, and if a node is new in it the
\* checkpoint is pushed.
GossipLoop(n) ==
  /\ up[n] = "running" /\ known[n] # connected[n]
  /\ known' = [known EXCEPT ![n] = connected[n]]
  /\ IF connected[n] \subseteq known[n] THEN UNCHANGED net ELSE broadcast_checkpoint(n)
  /\ UNCHANGED <<up, registry, quarantined, directory, conn, connected, pushing, task, join, boots, faults>>

\* The end of handle_registry: what a push has changed is pushed on.
Cascade(n) ==
  /\ up[n] = "running" /\ pushing[n] /\ broadcast_checkpoint(n)
  /\ pushing' = [pushing EXCEPT ![n] = FALSE]
  /\ UNCHANGED <<up, registry, quarantined, directory, conn, connected, known, task, join, boots, faults>>

\* handle_inbound_request: a request that is not queued yet is accepted from an
\* active peer of the same cluster only.
Accepts(n, msg) ==
  msg.open => msg.from \in connected[n] /\ cluster_id(msg.records) = cluster_id(registry[n])

\* The link actor drops a checkpoint it does not accept.
DropPush(n, msg) ==
  /\ msg.type = "Push" /\ msg.to = n /\ up[n] # "down" /\ ~ Accepts(n, msg)
  /\ net' = net \ {msg}
  /\ UNCHANGED <<up, registry, quarantined, directory, conn, connected, known, pushing, task, join, boots, faults>>

\* Mutant: a checkpoint that changes nothing counts as a change.
Changes_Always(n, msg) == mergeable(cluster_id(registry[n]), registry[n], msg.records)

\* merge_registry_checkpoint changes something.
Changes(n, msg) == mergeable(cluster_id(registry[n]), registry[n], msg.records) /\ ~ msg.records \subseteq registry[n]

\* handle_registry: the checkpoint is merged and committed, or known already.
HandlePush(n, msg) ==
  /\ msg.type = "Push" /\ Dispatch(n, msg) /\ Accepts(n, msg)
  /\ IF Changes(n, msg)
       THEN /\ Propose(n, "push", registry[n] \union msg.records, None, msg)
            /\ net' = net \ {msg}
       ELSE Reply(msg, Applied(msg, registry[n])) /\ UNCHANGED task
  /\ UNCHANGED <<up, registry, quarantined, directory, conn, connected, known, pushing, join, boots, faults>>

\* The task broadcast_checkpoint spawned for one destination merges the answer;
\* it does not push what it learns.
HandleApplied(n, msg) ==
  /\ msg.type = "Applied" /\ msg.to = n /\ up[n] # "down" /\ task[n] = None
  /\ net' = net \ {msg}
  /\ IF Changes(n, msg) THEN Propose(n, "reply", registry[n] \union msg.records, None, None) ELSE UNCHANGED task
  /\ UNCHANGED <<up, registry, quarantined, directory, conn, connected, known, pushing, join, boots, faults>>

Step(n) ==
  \/ StartLoops(n) \/ JoinBegin(n) \/ GossipLoop(n) \/ Cascade(n) \/ Commit(n) \/ JoinFail(n)
  \/ \E msg \in net :
       \/ JoinProve(n, msg) \/ JoinAdopt(n, msg) \/ DropPush(n, msg) \/ HandleApplied(n, msg)
       \/ HandleBegin(n, msg) \/ HandleProve(n, msg) \/ HandlePush(n, msg)

Boot(n) == BootAlone(n) \/ \E s \in Node : BootJoin(n, s) \/ BootReconnect(n, s)

Progress == (\E n \in Node : Step(n) \/ Boot(n)) \/ \E n, m \in Node : Connect(n, m)

Next ==
  \/ Progress
  \/ \E n \in Node : Crash(n) \/ CommitFails(n)
  \/ \E n, m \in Node : Disconnect(n, m)

\* Tasks run on, a stopped daemon is started again (systemd restarts it) and
\* nodes that can reach each other connect.  One weak fairness for all of them
\* is enough: between two faults each can only happen finitely often.
Fairness == WF_vars(Progress)

Spec == Init /\ [][Next]_vars /\ Fairness
-----------------------------------------------------------------------------
Durable == INSTANCE DurableRegistry WITH checkpoint <- registry

\* The stores behave as DurableRegistry promises, across crashes, failed writes
\* and lost replies: nothing a node signed is known anywhere before it is on the
\* node's own disk, no node signs twice at one point of its chain, and only the
\* checkpoint of a node that is alone is ever replaced (commit_enrollment,
\* CommitAuthorization, join).
DurableSpec == Durable!Spec

\* A sponsor signs at most one admission per node, however often the node asks
\* again because a reply was lost or either process died (resume_record).
OneAdmission ==
  \A s, n \in Node :
    Cardinality({r \in registry[s] : r.node = n /\ r.authorizer # None /\ r.authorizer.node = s}) <= 1


Settled ==
  /\ net = {}
  /\ \A n \in Node : /\ up[n] \in {"down", "running"} /\ task[n] = None /\ ~ pushing[n]
                     /\ up[n] = "running" => known[n] = connected[n]

\* Enrollment comes to rest: no candidate waits for ever, no lock is kept, and
\* checkpoints stop bouncing between nodes that push on what they were pushed.
Settles == <>[]Settled
=============================================================================
