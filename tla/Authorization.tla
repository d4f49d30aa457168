---------------------------- MODULE Authorization ----------------------------
(***************************************************************************)
(* The authorization registry: an append-only set of signed operations     *)
(* (crates/overlay/src/authorization/record.rs) and what a replica derives *)
(* from it (registry.rs): who is active, with which key, and who may sign. *)
(*                                                                         *)
(* A record refers to others by RecordId, the hash of their signed body.   *)
(* The hash is injective, so a reference is the record itself.  PeerId and *)
(* public key determine each other and are one field, key.  Signatures,    *)
(* ids and key encodings are right by construction: records come from the  *)
(* constructors below.                                                     *)
(***************************************************************************)
EXTENDS Naturals, FiniteSets

CONSTANTS Node, None

TheOnly(S) == CHOOSE x \in S : TRUE
Unique(S)  == \E x \in S : S = {x}
-----------------------------------------------------------------------------
(* record.rs: the constructors.                                            *)

initial_key(n) == <<n, n, 0>>

\* A key made for node n by node m at the given epoch.
new_key(n, m, epoch) == <<n, m, epoch>>

AuthorizationBody(cluster, node, key, epoch, kind) ==
  [cluster |-> cluster, node |-> node, key |-> key, epoch |-> epoch, kind |-> kind,
   predecessor |-> None, authorizer |-> None, action |-> None, retires |-> None]

genesis(n) == AuthorizationBody(n, n, initial_key(n), 0, "Admit")

set_authorizer(body, identity, head) ==
  [body EXCEPT !.authorizer = identity, !.action = head]

admit(n, authorizer, head) ==
  set_authorizer(AuthorizationBody(authorizer.cluster, n, initial_key(n), 0, "Admit"),
                 authorizer, head)

\* Mutant: the epoch is not advanced.
successor_body_SameEpoch(previous, key, kind) ==
  [AuthorizationBody(previous.cluster, previous.node, key, previous.epoch, kind)
     EXCEPT !.predecessor = previous]

successor_body(previous, key, kind) ==
  [AuthorizationBody(previous.cluster, previous.node, key, previous.epoch + 1, kind)
     EXCEPT !.predecessor = previous]

rotate(previous, head, key) == set_authorizer(successor_body(previous, key, "Rotate"), previous, head)

recover(previous, previous_head, key, authorizer, head) ==
  [set_authorizer(successor_body(previous, key, "Recover"), authorizer, head)
     EXCEPT !.retires = [identity |-> previous, head |-> previous_head]]

revoke(previous, previous_head, authorizer, head) ==
  [set_authorizer(successor_body(previous, previous.key, "Revoke"), authorizer, head)
     EXCEPT !.retires = [identity |-> previous, head |-> previous_head]]

state(r) == IF r.kind = "Revoke" THEN "Revoked" ELSE "Active"
-----------------------------------------------------------------------------
(* registry.rs: validation and merge.                                      *)

\* What validate looks up in the registry before it accepts a record.
Dependencies(r) ==
  ({r.predecessor, r.authorizer, r.action}
     \union (IF r.retires = None THEN {} ELSE {r.retires.identity, r.retires.head}))
  \ {None}

validate_action_predecessor(identity, action) == action = identity \/ action.authorizer = identity

validate_admission(r) ==
  /\ r.kind = "Admit" /\ r.epoch = 0 /\ r.retires = None /\ r.key = initial_key(r.node)
  /\ r.authorizer = None => r.cluster = r.node

validate_successor(r) ==
  LET p == r.predecessor
      retires_predecessor == r.retires # None /\ r.retires.identity = p
  IN  \/ r.kind = "Rotate" /\ r.authorizer = p /\ r.retires = None
      \/ /\ r.kind \in {"Recover", "Revoke"} /\ retires_predecessor
         /\ validate_action_predecessor(r.retires.identity, r.retires.head)

validate_lineage(r) ==
  IF r.predecessor = None
    THEN validate_admission(r)
    ELSE /\ r.predecessor.node = r.node
         /\ r.predecessor.cluster = r.cluster
         /\ r.epoch = r.predecessor.epoch + 1
         /\ validate_successor(r)

\* Everything validate checks of a record whose dependencies are present.
validate(cluster, r) ==
  /\ r.cluster = cluster
  /\ validate_lineage(r)
  /\ (r.authorizer = None) = (r.action = None)
  /\ r.authorizer # None => validate_action_predecessor(r.authorizer, r.action)

\* Mutant: merge gives up on the first record that has to be deferred.
mergeable_NoDeferral(cluster, registry, records) ==
  \A r \in records \ registry : validate(cluster, r) /\ Dependencies(r) \subseteq registry

\* merge defers a record until its dependencies are in and fails when a pass
\* places nothing.  References are hashes, hence acyclic, so it succeeds iff
\* the union is closed.  It works on a clone: a failed merge changes nothing.
mergeable(cluster, registry, records) ==
  \A r \in records \ registry :
    validate(cluster, r) /\ Dependencies(r) \subseteq registry \union records
-----------------------------------------------------------------------------
(* registry.rs: what a replica derives.                                    *)

roots(registry, n) == {r \in registry : r.node = n /\ r.predecessor = None}

children(registry, r) == {c \in registry : c.predecessor = r}

action_successors(registry, identity, action) ==
  {r \in registry : \/ r.authorizer = identity /\ r.action = action
                    \/ /\ r.retires # None
                       /\ r.retires = [identity |-> identity, head |-> action]}

terminates_identity(r, identity) ==
  \/ r.kind = "Rotate" /\ r.predecessor = identity /\ r.authorizer = identity
  \/ r.retires # None /\ r.retires.identity = identity

\* Mutant: a fork of the action chain is overlooked.
action_path_contains_Fork(registry, identity, target) ==
  LET from[current \in registry] ==
        \E next \in action_successors(registry, identity, current) :
          next = target \/ (~ terminates_identity(next, identity) /\ from[next])
  IN  identity = target \/ from[identity]

action_path_contains(registry, identity, target) ==
  LET from[current \in registry] ==
        LET next == action_successors(registry, identity, current)
        IN  /\ Unique(next)
            /\ \/ TheOnly(next) = target
               \/ ~ terminates_identity(TheOnly(next), identity) /\ from[TheOnly(next)]
  IN  identity = target \/ from[identity]

\* The records from the root of a node's identity chain up to r.
lineage(registry, r) ==
  LET upto[x \in registry] ==
        IF x.predecessor = None THEN {x} ELSE upto[x.predecessor] \union {x}
  IN  upto[r]

\* Mutant: an identity that has a successor no longer counts for what it signed.
record_is_effective_Latest(registry, record) ==
  LET effective[r \in registry] ==
        LET identity_is_effective(i) ==
              /\ state(i) = "Active"
              /\ Unique(roots(registry, i.node))
              /\ children(registry, i) = {}
              /\ \A x \in lineage(registry, i) :
                   effective[x] /\ (x = i \/ Unique(children(registry, x)))
        IN  /\ r.authorizer # None =>
                 /\ action_path_contains(registry, r.authorizer, r)
                 /\ identity_is_effective(r.authorizer)
            /\ r.retires # None => action_path_contains(registry, r.retires.identity, r)
  IN  effective[record]

\* record_is_effective and identity_record_is_effective call each other, always
\* on records the first one refers to.
record_is_effective(registry, record) ==
  LET effective[r \in registry] ==
        LET identity_is_effective(i) ==
              /\ state(i) = "Active"
              /\ Unique(roots(registry, i.node))
              /\ \A x \in lineage(registry, i) :
                   effective[x] /\ (x = i \/ Unique(children(registry, x)))
        IN  /\ r.authorizer # None =>
                 /\ action_path_contains(registry, r.authorizer, r)
                 /\ identity_is_effective(r.authorizer)
            /\ r.retires # None => action_path_contains(registry, r.retires.identity, r)
  IN  effective[record]

\* Mutant: of two competing admissions the one that is effective wins.
status_EffectiveRoot(registry, n) ==
  LET from[r \in registry] ==
        LET next == children(registry, r)
        IN  IF ~ record_is_effective(registry, r) THEN [is |-> "Conflicted", record |-> r]
            ELSE IF next = {} THEN [is |-> state(r), record |-> r]
            ELSE IF Unique(next) THEN from[TheOnly(next)]
            ELSE [is |-> "Conflicted", record |-> r]
      root == roots(registry, n)
      good == {r \in root : record_is_effective(registry, r)}
  IN  IF root = {} THEN [is |-> "Unknown", record |-> None]
      ELSE IF Unique(good) THEN from[TheOnly(good)]
      ELSE [is |-> "Conflicted", record |-> None]

\* status: Unknown, Active, Revoked or Conflicted, with the current record.
status(registry, n) ==
  LET from[r \in registry] ==
        LET next == children(registry, r)
        IN  IF ~ record_is_effective(registry, r) THEN [is |-> "Conflicted", record |-> r]
            ELSE IF next = {} THEN [is |-> state(r), record |-> r]
            ELSE IF Unique(next) THEN from[TheOnly(next)]
            ELSE [is |-> "Conflicted", record |-> r]
      root == roots(registry, n)
  IN  IF root = {} THEN [is |-> "Unknown", record |-> None]
      ELSE IF Unique(root) THEN from[TheOnly(root)]
      ELSE [is |-> "Conflicted", record |-> None]

active_record_for_node(registry, n) ==
  LET s == status(registry, n) IN IF s.is = "Active" THEN s.record ELSE None

node_for_peer(registry, key) ==
  LET actives == {s \in {status(registry, r.node) : r \in registry} : s.is = "Active"}
      matches == {s.record.node : s \in {x \in actives : x.record.key = key}}
  IN  IF Unique(matches) THEN TheOnly(matches) ELSE None

active_peer_for_node(registry, n) ==
  LET record == {active_record_for_node(registry, n)} \ {None}
      peer   == {r.key : r \in {x \in record : node_for_peer(registry, x.key) = n}}
  IN  IF peer = {} THEN None ELSE TheOnly(peer)

\* The end of an identity's action chain, or None if it is retired or forked.
\* Every action of an identity descends from the identity record, so the walk of
\* the code reaches an end iff the whole chain is a path without a terminal record.
authorizer_head(registry, identity) ==
  LET chain == {identity} \union {r \in registry : \/ r.authorizer = identity
                                                   \/ r.retires # None /\ r.retires.identity = identity}
      ends  == {x \in chain : action_successors(registry, identity, x) = {}}
  IN  IF /\ Unique(ends)
         /\ \A x \in chain : ~ terminates_identity(x, identity)
        THEN TheOnly(ends) ELSE None
=============================================================================
