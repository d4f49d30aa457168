----------------------------- MODULE Membership -----------------------------
(***************************************************************************)
(* The membership map of every replica, seen through one member's entry:   *)
(* crates/membership/src/membership.rs, and the Merkle cache that          *)
(* crates/daemon/src/membership/service.rs keeps beside it.                *)
(*                                                                         *)
(* The map merges every entry independently, so one entry per replica      *)
(* carries the whole argument.  Each replica also counts mutations in      *)
(* `version', and the service rebuilds its Merkle tree only when that      *)
(* counter has moved since the tree was built.                             *)
(*                                                                         *)
(* `merged' is a history variable: every register a replica has merged or  *)
(* produced itself.  It states convergence without mentioning any order of *)
(* delivery.                                                               *)
(***************************************************************************)
EXTENDS Register

CONSTANTS Replica,      \* the nodes that hold a copy of the entry
          Rumour,       \* the registers other nodes may send
          None,         \* the entry of a replica that does not know the member
          MaxVersion    \* bound: counted mutations of one replica

ASSUME MembershipAssumption ==
  /\ Rumour \subseteq MemberRegister
  /\ None \notin MemberRegister

VARIABLES members,      \* members[r]: r's register for the member, or None
          version,      \* version[r]: r's mutation counter
          cached,       \* cached[r]: the version and the leaf the tree was built from
          merged        \* history: what r has merged or produced

membership == <<members, version, cached, merged>>

(***************************************************************************)
(* The Merkle leaf of an entry.                                            *)
(***************************************************************************)
LeafOf(m) == IF m = None THEN <<>> ELSE hash_register(m)

Tree(v, m) == [version |-> v, leaf |-> LeafOf(m)]

MembershipInit ==
  /\ members = [r \in Replica |-> None]
  /\ version = [r \in Replica |-> 0]
  /\ cached  = [r \in Replica |-> Tree(0, None)]
  /\ merged  = [r \in Replica |-> {}]
-----------------------------------------------------------------------------
Merged(m, x) == IF m = None THEN x ELSE merge(m, x)

(***************************************************************************)
(* The new entry, whether the version counter moves, and what the history  *)
(* gains.                                                                  *)
(***************************************************************************)
Mutate(r, m, bumps, gained) ==
  /\ members' = [members EXCEPT ![r] = m]
  /\ version' = [version EXCEPT ![r] = IF bumps THEN @ + 1 ELSE @]
  /\ merged'  = [merged EXCEPT ![r] = @ \union gained]
  /\ version'[r] <= MaxVersion
  /\ UNCHANGED cached

merge_register(r, x) == Mutate(r, Merged(members[r], x), TRUE, {x})

\* Membership::merge with the snapshot of another replica.
merge_replica(r, s) ==
  /\ members[s] # None
  /\ Mutate(r, Merged(members[r], members[s]), TRUE, merged[s])

(***************************************************************************)
(* Local mutations.  Each guard is the condition under which the daemon    *)
(* reaches the call: a node bumps, refutes and leaves only for itself, and *)
(* its own register is never Suspected or Offline; the suspect timeout     *)
(* runs only for Suspected members.                                        *)
(***************************************************************************)
heartbeat(r) ==
  /\ members[r] # None
  /\ members[r].state \in {"Active", "Leaving"}
  /\ LET m == bump_heartbeat(members[r])
     IN  Mutate(r, m, m.state # members[r].state, {m})

\* Mutant: the transition is not counted.
suspect_member_Uncounted(r) ==
  /\ members[r] # None
  /\ members[r].state = "Active"
  /\ LET m == suspect(members[r]) IN Mutate(r, m, FALSE, {m})

suspect_member(r) ==
  /\ members[r] # None
  /\ members[r].state = "Active"
  /\ LET m == suspect(members[r]) IN Mutate(r, m, TRUE, {m})

offline_member(r) ==
  /\ members[r] # None
  /\ members[r].state = "Suspected"
  /\ LET m == offline(members[r]) IN Mutate(r, m, TRUE, {m})

leave_member(r) ==
  /\ members[r] # None
  /\ members[r].state \in {"Active", "Leaving"}
  /\ LET m == leave(members[r]) IN Mutate(r, m, TRUE, {m})

refute_member(r) ==
  /\ members[r] # None
  /\ members[r].state = "Active"
  /\ LET m == refute(members[r]) IN Mutate(r, m, TRUE, {m})

\* MembershipState::merkle_tree: rebuild when the version has moved.
merkle_tree(r) ==
  /\ cached[r].version # version[r]
  /\ cached' = [cached EXCEPT ![r] = Tree(version[r], members[r])]
  /\ UNCHANGED <<members, version, merged>>

MembershipNext ==
  \E r \in Replica :
    \/ \E x \in Rumour : merge_register(r, x)
    \/ \E s \in Replica \ {r} : merge_replica(r, s)
    \/ heartbeat(r)
    \/ suspect_member(r)
    \/ offline_member(r)
    \/ leave_member(r)
    \/ refute_member(r)
    \/ merkle_tree(r)

MembershipSpec == MembershipInit /\ [][MembershipNext]_membership
-----------------------------------------------------------------------------
MembershipTypeOK ==
  /\ members \in [Replica -> MemberRegister \union {None}]
  /\ version \in [Replica -> Nat]
  /\ merged \in [Replica -> SUBSET MemberRegister]
  /\ DOMAIN cached = Replica
  /\ \A r \in Replica : cached[r].version \in Nat

(***************************************************************************)
(* The reference definition of merging: the join of a set of registers has *)
(* the greatest order key of the set, and each metadata field is the       *)
(* greatest among the registers with that key.                             *)
(***************************************************************************)
IsJoin(j, S) ==
  /\ \A x \in S : ~ dominates(x, j)
  /\ \A x \in S : SameKey(x, j) => /\ x.address <= j.address
                                   /\ x.labels <= j.labels
                                   /\ x.annotations <= j.annotations
  /\ \E x \in S : SameKey(x, j) /\ x.address = j.address
  /\ \E x \in S : SameKey(x, j) /\ x.labels = j.labels
  /\ \E x \in S : SameKey(x, j) /\ x.annotations = j.annotations

(***************************************************************************)
(* A replica holds the join of everything it has merged or produced: no    *)
(* merge loses a register that should have won, whatever the order, the    *)
(* repetition or the detour through another replica's snapshot.            *)
(***************************************************************************)
HoldsJoin ==
  \A r \in Replica :
    IF members[r] = None THEN merged[r] = {} ELSE IsJoin(members[r], merged[r])

(***************************************************************************)
(* Strong eventual consistency: replicas that have seen the same registers *)
(* hold the same entry ("merge commutative, associative, and idempotent",  *)
(* MemberRegister::merge).                                                 *)
(***************************************************************************)
StrongConvergence ==
  \A r, s \in Replica : merged[r] = merged[s] => members[r] = members[s]

(***************************************************************************)
(* The cached Merkle tree is current whenever the version counter says so: *)
(* no mutation that changes the hashed fields goes uncounted               *)
(* (MembershipState::merkle_tree serves the cached tree on that evidence). *)
(***************************************************************************)
CacheFresh ==
  \A r \in Replica :
    cached[r].version = version[r] => cached[r] = Tree(version[r], members[r])
=============================================================================
