------------------------------ MODULE Registry ------------------------------
(***************************************************************************)
(* Replicas of one cluster's authorization registry.  A node signs with    *)
(* the identity it holds, from what its own replica shows, and sends its   *)
(* complete checkpoint to others (crates/overlay/src/authorization,        *)
(* admission.rs, daemon/src/overlay.rs).  The daemon only ever admits;     *)
(* rotation, recovery and revocation are operations of the library.        *)
(***************************************************************************)
EXTENDS Authorization

CONSTANTS Founder,         \* the node whose genesis names the cluster
          MaxRecords       \* bound: records in the cluster

RegistryAssumption ==
  /\ Founder \in Node /\ None \notin Node
  /\ MaxRecords \in Nat \ {0}

VARIABLES registry,        \* registry[n]: n's replica, empty until n joins
          key              \* key[n]: the identity n holds (node.identity)

vars == <<registry, key>>

Init ==
  /\ registry = [n \in Node |-> IF n = Founder THEN {genesis(n)} ELSE {}]
  /\ key = [n \in Node |-> initial_key(n)]

AllRecords == UNION {registry[n] : n \in Node}

\* The sponsor's record, when the key it holds is its active key.
ensure_sponsor(n) ==
  IF active_peer_for_node(registry[n], n) = key[n]
    THEN active_record_for_node(registry[n], n) ELSE None

\* n's own active record and the head of its action chain, where n may sign.
Signing(n) ==
  {[record |-> i, head |-> authorizer_head(registry[n], i)] : i \in {ensure_sponsor(n)} \ {None}}

\* n stores the record r it has signed with its current identity.
Sign(n, r) ==
  /\ Cardinality(AllRecords \union {r}) <= MaxRecords
  /\ registry' = [registry EXCEPT ![n] = @ \union {r}]

\* Enrollment::admit_pending, for a node nobody here has heard of.
Admit(n, c) ==
  \E i \in Signing(n) :
    /\ status(registry[n], c).is = "Unknown"
    /\ i.head # None
    /\ Sign(n, admit(c, i.record, i.head))
    /\ UNCHANGED key

\* AuthorizationRecord::rotate: n replaces its own key.
Rotate(n) ==
  \E i \in Signing(n) : \E k \in {new_key(n, n, i.record.epoch + 1)} :
    /\ i.head # None
    /\ Sign(n, rotate(i.record, i.head, k))
    /\ key' = [key EXCEPT ![n] = k]

\* The record of m that n retires, and the last action n knows of it.
Retirable(n, m) ==
  {[record |-> s.record, head |-> authorizer_head(registry[n], s.record)] :
     s \in {x \in {status(registry[n], m)} : x.is \in {"Active", "Revoked"}}}

\* AuthorizationRecord::recover: n gives m a new key.
Recover(n, m) ==
  \E i \in Signing(n), p \in Retirable(n, m) : \E k \in {new_key(m, n, p.record.epoch + 1)} :
    /\ n # m /\ i.head # None /\ p.head # None
    /\ Sign(n, recover(p.record, p.head, k, i.record, i.head))
    /\ key' = [key EXCEPT ![m] = k]

\* AuthorizationRecord::revoke: n shuts m out.
Revoke(n, m) ==
  \E i \in Signing(n), p \in Retirable(n, m) :
    /\ n # m /\ i.head # None /\ p.head # None
    /\ Sign(n, revoke(p.record, p.head, i.record, i.head))
    /\ UNCHANGED key

\* n's complete checkpoint reaches m: merged, or adopted by a node that has
\* none and is active in it (AdmissionOutcome::validate_for).
Checkpoint(n, m) ==
  /\ n # m /\ registry[n] # {}
  /\ registry[m] = {} => active_peer_for_node(registry[n], m) = key[m]
  /\ mergeable(Founder, registry[m], registry[n])
  /\ registry' = [registry EXCEPT ![m] = @ \union registry[n]]
  /\ UNCHANGED key

Next ==
  \/ \E n \in Node : Rotate(n)
  \/ \E n, m \in Node : Admit(n, m) \/ Recover(n, m) \/ Revoke(n, m) \/ Checkpoint(n, m)

Spec == Init /\ [][Next]_vars
-----------------------------------------------------------------------------
Member == {n \in Node : registry[n] # {}}

\* Any member's complete checkpoint merges into any other's replica, and a
\* replica reloads from disk on its own: merge never ends with
\* MissingDependency or InvalidRecord between honest replicas.
CheckpointsMerge ==
  \A n, m \in Member :
    /\ mergeable(Founder, registry[n], registry[m])
    /\ mergeable(Founder, {}, registry[n])

\* The positions a record takes: its place in the identity chain and in the
\* action chains of its signer and of the identity it retires.
Slots(r) ==
  {IF r.predecessor = None THEN <<"root", r.node>> ELSE <<"child", r.predecessor>>}
    \union (IF r.authorizer = None THEN {} ELSE {<<"action", r.authorizer, r.action>>})
    \union (IF r.retires = None THEN {} ELSE {<<"action", r.retires.identity, r.retires.head>>})

Contested(reg, slot) == Cardinality({r \in reg : slot \in Slots(r)}) > 1

\* What the authority of a record rests on: its identity chain, and the
\* authority of whoever signed each record of it.
Backing(reg, record) ==
  LET backing[r \in reg] ==
        UNION {{x} \union (IF x.authorizer = None \/ x.authorizer \in lineage(reg, r)
                             THEN {} ELSE backing[x.authorizer]) : x \in lineage(reg, r)}
  IN  backing[record]

\* An active node rests on no fork: neither its identity chain nor a signer
\* behind it shares a position with another record (status, record_is_effective).
NoForkOverlooked ==
  \A n \in Member, m \in Node :
    \A r \in {active_record_for_node(registry[n], m)} \ {None} :
      \A x \in Backing(registry[n], r) : \A s \in Slots(x) : ~ Contested(registry[n], s)

\* A node is conflicted only because two records really compete for one
\* position: retiring a key never invalidates what it signed before.
NoSpuriousConflict ==
  \A n \in Member, m \in Node :
    status(registry[n], m).is = "Conflicted" =>
      \E r \in registry[n] : \E s \in Slots(r) : Contested(registry[n], s)

\* A fork is final.  Whatever a replica learns later, a node it holds to be
\* conflicted never becomes active or revoked again (status): replicas that
\* learn of a fork in different orders all end up refusing the node.
ConflictsStay ==
  \A n \in Member, m \in Node :
    status(registry[n], m).is = "Conflicted" => status(registry'[n], m).is = "Conflicted"
ConflictIsFinal == [][ConflictsStay]_vars

\* What identity signed up to the record last, newest first by .action.
SignedUpTo(reg, identity, last) ==
  LET upto[x \in reg] == IF x = identity THEN {} ELSE {x} \union upto[x.action]
  IN  upto[last]

\* Once a replica holds the effective record t that ends an identity, only what
\* the old key signed before t counts: a later signature of it authorizes
\* nobody (action_path_contains, terminates_identity).
RetiredKeySignsNothing ==
  \A n \in Member :
    \A t, r \in {x \in registry[n] : record_is_effective(registry[n], x)} :
      \A i \in {r.authorizer} \ {None} :
        LET last == IF t.retires # None /\ t.retires.identity = i THEN t.retires.head ELSE t.action
        IN  r # t /\ terminates_identity(t, i) => r \in SignedUpTo(registry[n], i, last)

TypeOK ==
  /\ key \in [Node -> Node \X Node \X (0 .. MaxRecords)]
  /\ \A n \in Node : \A r \in registry[n] : validate(Founder, r)
=============================================================================
