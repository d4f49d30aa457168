------------------------- MODULE AntiEntropyProofs -------------------------
(***************************************************************************)
(* Proofs about what makes memberships agree.                              *)
(*                                                                         *)
(* The membership CRDT: merging computes the join of what was merged, for  *)
(* every set of replicas, every set of rumours and every counter width,    *)
(* and the version counter never vouches for a stale tree.                 *)
(*                                                                         *)
(* The anti-entropy session: DiffExact and SessionConverges for every set  *)
(* of members, every shape of the tree and any number of writes, failures  *)
(* and restarts.  What a session knows of a member i is right as long as   *)
(* nobody writes i: the invariant states it for i \notin touched, stage by *)
(* stage.                                                                  *)
(***************************************************************************)
EXTENDS MerkleSync, Membership, RegisterProofs
-----------------------------------------------------------------------------
(* Joins.                                                                  *)

\* A register is the join of itself alone.
LEMMA SingletonJoin ==
  ASSUME NEW x \in MemberRegister
  PROVE  IsJoin(x, {x})
  <1>1. ~ dominates(x, x)
    BY TotalOrder
  <1> QED
    BY <1>1 DEF IsJoin, SameKey, MemberRegister, U64

\* A join is determined by the set.
LEMMA JoinUnique ==
  ASSUME NEW S \in SUBSET MemberRegister,
         NEW j \in MemberRegister, NEW k \in MemberRegister,
         IsJoin(j, S), IsJoin(k, S)
  PROVE  j = k
  <1>1. ~ dominates(k, j)
    <2>1. PICK x \in S : SameKey(x, k)
      BY DEF IsJoin
    <2> QED
      BY <2>1, DominatesTransitive DEF IsJoin
  <1>2. ~ dominates(j, k)
    <2>1. PICK x \in S : SameKey(x, j)
      BY DEF IsJoin
    <2> QED
      BY <2>1, DominatesTransitive DEF IsJoin
  <1>3. SameKey(j, k)
    BY <1>1, <1>2, TotalOrder
  <1>4. \A x \in S : SameKey(x, j) <=> SameKey(x, k)
    BY <1>3 DEF SameKey
  <1>5. j.address = k.address
    BY <1>4 DEF IsJoin, MemberRegister, U64
  <1>6. j.labels = k.labels
    BY <1>4 DEF IsJoin, MemberRegister, U64
  <1>7. j.annotations = k.annotations
    BY <1>4 DEF IsJoin, MemberRegister, U64
  <1> QED
    BY <1>3, <1>5, <1>6, <1>7 DEF SameKey, MemberRegister, U64

\* Merging the joins of two sets gives the join of their union.
LEMMA MergeIsJoin ==
  ASSUME NEW S \in SUBSET MemberRegister, NEW T \in SUBSET MemberRegister,
         NEW j \in MemberRegister, NEW k \in MemberRegister,
         IsJoin(j, S), IsJoin(k, T)
  PROVE  IsJoin(merge(j, k), S \union T)
  <1>1. CASE dominates(k, j)
    <2>1. merge(j, k) = k
      BY <1>1 DEF merge
    <2>2. \A x \in S : ~ dominates(x, k) /\ ~ SameKey(x, k)
      BY <1>1, DominatesTransitive DEF IsJoin
    <2> QED
      BY <2>1, <2>2 DEF IsJoin
  <1>2. CASE dominates(j, k)
    <2>1. merge(j, k) = j
      BY <1>2, TotalOrder DEF merge
    <2>2. \A x \in T : ~ dominates(x, j) /\ ~ SameKey(x, j)
      BY <1>2, DominatesTransitive DEF IsJoin
    <2> QED
      BY <2>1, <2>2 DEF IsJoin
  <1>3. CASE SameKey(j, k)
    <2> DEFINE m == merge(j, k)
    <2>1. /\ m \in MemberRegister
          /\ SameKey(m, j) /\ SameKey(m, k)
          /\ m.address = larger(j.address, k.address)
          /\ m.labels = larger(j.labels, k.labels)
          /\ m.annotations = larger(j.annotations, k.annotations)
      BY <1>3, MergeSameKey DEF SameKey
    <2> HIDE DEF m
    <2>2. \A x \in S \union T : ~ dominates(x, m)
      BY <2>1, DominatesTransitive DEF IsJoin
    <2>3. \A x \in S \union T : (SameKey(x, m) <=> SameKey(x, j)) /\ (SameKey(x, m) <=> SameKey(x, k))
      BY <2>1 DEF SameKey
    <2>4. \A x \in S \union T : SameKey(x, m) => /\ x.address <= m.address
                                                 /\ x.labels <= m.labels
                                                 /\ x.annotations <= m.annotations
      BY <2>1, <2>3 DEF IsJoin, larger, MemberRegister, U64
    <2>5. \E x \in S \union T : SameKey(x, m) /\ x.address = m.address
      BY <2>1, <2>3 DEF IsJoin, larger
    <2>6. \E x \in S \union T : SameKey(x, m) /\ x.labels = m.labels
      BY <2>1, <2>3 DEF IsJoin, larger
    <2>7. \E x \in S \union T : SameKey(x, m) /\ x.annotations = m.annotations
      BY <2>1, <2>3 DEF IsJoin, larger
    <2>8. IsJoin(m, S \union T)
      BY <2>2, <2>4, <2>5, <2>6, <2>7 DEF IsJoin
    <2> QED
      BY <2>8 DEF m
  <1> QED
    BY <1>1, <1>2, <1>3, TotalOrder

\* A register produced locally that does not fall in the order is the join
\* of the history it extends.
LEMMA ProducedIsJoin ==
  ASSUME NEW S \in SUBSET MemberRegister,
         NEW j \in MemberRegister, NEW m \in MemberRegister,
         IsJoin(j, S), dominates(m, j) \/ m = j
  PROVE  IsJoin(m, S \union {m})
  <1>1. merge(j, m) = m
    <2>1. CASE dominates(m, j)
      BY <2>1 DEF merge
    <2>2. CASE m = j
      <3>1. ~ dominates(j, j)
        BY TotalOrder
      <3> QED
        BY <2>2, <3>1 DEF merge, larger, MemberRegister, U64
    <2> QED
      BY <2>1, <2>2
  <1> QED
    BY <1>1, SingletonJoin, MergeIsJoin
-----------------------------------------------------------------------------
(* The state machine.                                                      *)

(***************************************************************************)
(* The inductive invariant: types, joins, and that the cache is never      *)
(* ahead of the counter (without which a counted mutation could catch up   *)
(* with a tree it did not build).                                          *)
(***************************************************************************)
JoinInv ==
  /\ MembershipTypeOK
  /\ HoldsJoin
  /\ CacheFresh
  /\ \A r \in Replica : cached[r].version <= version[r]

\* A write that keeps the join and counts every change of the hashed fields
\* preserves the invariant.
LEMMA WritePreserves ==
  ASSUME JoinInv, NEW r \in Replica, NEW m \in MemberRegister,
         NEW bumps \in BOOLEAN, NEW gained \in SUBSET MemberRegister,
         Mutate(r, m, bumps, gained),
         IsJoin(m, merged[r] \union gained),
         bumps \/ LeafOf(m) = LeafOf(members[r])
  PROVE  JoinInv'
  <1>1. MembershipTypeOK'
    BY DEF JoinInv, MembershipTypeOK, Mutate, U64
  <1>2. HoldsJoin'
    BY MembershipAssumption DEF MembershipAssumption, JoinInv, MembershipTypeOK, HoldsJoin, Mutate, U64
  <1>3. CacheFresh'
    BY DEF JoinInv, MembershipTypeOK, CacheFresh, Mutate, Tree, U64
  <1>4. (\A s \in Replica : cached[s].version <= version[s])'
    BY DEF JoinInv, MembershipTypeOK, Mutate, U64
  <1> QED
    BY <1>1, <1>2, <1>3, <1>4 DEF JoinInv

\* Empty replicas satisfy the invariant.
LEMMA JoinInit == MembershipInit => JoinInv
  BY DEF MembershipInit, JoinInv, MembershipTypeOK, HoldsJoin, CacheFresh, Tree, U64

\* Every operation of Membership and every cache refresh preserves it.
LEMMA JoinNext == JoinInv /\ [MembershipNext]_membership => JoinInv'
  <1> SUFFICES ASSUME JoinInv, [MembershipNext]_membership PROVE JoinInv'
    OBVIOUS
  <1>1. CASE UNCHANGED membership
    BY <1>1 DEF membership, JoinInv, MembershipTypeOK, HoldsJoin, CacheFresh, Tree, LeafOf, U64
  <1>2. ASSUME NEW r \in Replica, NEW x \in Rumour, merge_register(r, x)
        PROVE  JoinInv'
    <2>1. x \in MemberRegister /\ IsJoin(x, {x})
      BY SingletonJoin, MembershipAssumption DEF MembershipAssumption
    <2>2. Merged(members[r], x) \in MemberRegister
      BY <2>1, MergeType DEF JoinInv, MembershipTypeOK, Merged, U64
    <2>3. IsJoin(Merged(members[r], x), merged[r] \union {x})
      <3>1. CASE members[r] = None
        BY <2>1, <3>1 DEF Merged, JoinInv, HoldsJoin
      <3>2. CASE members[r] # None
        BY <2>1, <3>2, MergeIsJoin DEF Merged, JoinInv, HoldsJoin, MembershipTypeOK, U64
      <3> QED
        BY <3>1, <3>2
    <2> QED
      BY <1>2, <2>1, <2>2, <2>3, WritePreserves DEF merge_register
  <1>3. ASSUME NEW r \in Replica, NEW s \in Replica, merge_replica(r, s)
        PROVE  JoinInv'
    <2>1. /\ members[s] \in MemberRegister
          /\ merged[s] \in SUBSET MemberRegister
          /\ IsJoin(members[s], merged[s])
      BY <1>3 DEF merge_replica, JoinInv, HoldsJoin, MembershipTypeOK, U64
    <2>2. Merged(members[r], members[s]) \in MemberRegister
      BY <2>1, MergeType DEF JoinInv, MembershipTypeOK, Merged, U64
    <2>3. IsJoin(Merged(members[r], members[s]), merged[r] \union merged[s])
      <3>1. CASE members[r] = None
        BY <2>1, <3>1 DEF Merged, JoinInv, HoldsJoin
      <3>2. CASE members[r] # None
        BY <2>1, <3>2, MergeIsJoin DEF Merged, JoinInv, HoldsJoin, MembershipTypeOK, U64
      <3> QED
        BY <3>1, <3>2
    <2> QED
      BY <1>3, <2>1, <2>2, <2>3, WritePreserves DEF merge_replica
  <1>4. ASSUME NEW r \in Replica, members[r] # None, NEW m \in MemberRegister,
               dominates(m, members[r]) \/ m = members[r],
               NEW bumps \in BOOLEAN, Mutate(r, m, bumps, {m}),
               bumps \/ LeafOf(m) = LeafOf(members[r])
        PROVE  JoinInv'
    <2>1. IsJoin(m, merged[r] \union {m})
      BY <1>4, ProducedIsJoin DEF JoinInv, HoldsJoin, MembershipTypeOK, U64
    <2> QED
      BY <1>4, <2>1, WritePreserves
  <1>5. ASSUME NEW r \in Replica, heartbeat(r)
        PROVE  JoinInv'
    <2> DEFINE m == bump_heartbeat(members[r])
    <2>1. /\ members[r] \in MemberRegister /\ members[r] # None
          /\ m \in MemberRegister
          /\ dominates(m, members[r]) \/ m = members[r]
      BY <1>5, MutationsClimb DEF heartbeat, JoinInv, MembershipTypeOK, U64
    <2>2. m.state # members[r].state \/ LeafOf(m) = LeafOf(members[r])
      BY <2>1, MembershipAssumption DEF MembershipAssumption, LeafOf, hash_register, bump_heartbeat, MemberRegister, U64
    <2>3. Mutate(r, m, m.state # members[r].state, {m})
      BY <1>5 DEF heartbeat
    <2> HIDE DEF m
    <2> QED
      BY <1>4, <2>1, <2>2, <2>3
  <1>6. ASSUME NEW r \in Replica,
               suspect_member(r) \/ offline_member(r) \/ leave_member(r) \/ refute_member(r)
        PROVE  JoinInv'
    <2>1. members[r] \in MemberRegister
      BY <1>6 DEF suspect_member, offline_member, leave_member, refute_member, JoinInv, MembershipTypeOK, U64
    <2>2. PICK m \in MemberRegister : /\ members[r] # None
                                      /\ dominates(m, members[r]) \/ m = members[r]
                                      /\ Mutate(r, m, TRUE, {m})
      BY <1>6, <2>1, MutationsClimb
         DEF suspect_member, offline_member, leave_member, refute_member
    <2> QED
      BY <1>4, <2>2
  <1>7. ASSUME NEW r \in Replica, merkle_tree(r)
        PROVE  JoinInv'
    <2>1. MembershipTypeOK' /\ HoldsJoin'
      BY <1>7 DEF merkle_tree, JoinInv, MembershipTypeOK, HoldsJoin, Tree, U64
    <2>2. CacheFresh'
      BY <1>7 DEF merkle_tree, JoinInv, MembershipTypeOK, CacheFresh, Tree, LeafOf, U64
    <2>3. (\A s \in Replica : cached[s].version <= version[s])'
      BY <1>7 DEF merkle_tree, JoinInv, MembershipTypeOK, Tree, U64
    <2> QED
      BY <2>1, <2>2, <2>3 DEF JoinInv
  <1> QED
    BY <1>1, <1>2, <1>3, <1>5, <1>6, <1>7 DEF MembershipNext

\* The entries, versions and histories are well typed; in particular every
\* counter stays within its u64.
THEOREM MembershipTypeOKTheorem == MembershipSpec => []MembershipTypeOK
  <1>1. JoinInv => MembershipTypeOK
    BY DEF JoinInv
  <1> QED
    BY <1>1, JoinInit, JoinNext, PTL DEF MembershipSpec

\* Every replica always holds the join of what it has merged or produced:
\* MemberRegister::merge is a least upper bound whatever order, repetition
\* or relaying the anti-entropy and gossip paths choose.
THEOREM HoldsJoinTheorem == MembershipSpec => []HoldsJoin
  <1>1. JoinInv => HoldsJoin
    BY DEF JoinInv
  <1> QED
    BY <1>1, JoinInit, JoinNext, PTL DEF MembershipSpec

\* Strong eventual consistency of the membership CRDT: replicas that have
\* seen the same registers hold the same entry.
THEOREM StrongConvergenceTheorem == MembershipSpec => []StrongConvergence
  <1>1. JoinInv => StrongConvergence
    <2> SUFFICES ASSUME JoinInv, NEW r \in Replica, NEW s \in Replica, merged[r] = merged[s]
                 PROVE  members[r] = members[s]
      BY DEF StrongConvergence
    <2>1. CASE members[r] = None \/ members[s] = None
      BY <2>1 DEF JoinInv, HoldsJoin, IsJoin
    <2>2. CASE members[r] # None /\ members[s] # None
      BY <2>2, JoinUnique DEF JoinInv, HoldsJoin, MembershipTypeOK, U64
    <2> QED
      BY <2>1, <2>2
  <1> QED
    BY <1>1, JoinInit, JoinNext, PTL DEF MembershipSpec

\* The Merkle tree the service serves from its cache is the tree of the
\* current membership: no mutation that changes a hashed field is uncounted.
THEOREM CacheFreshTheorem == MembershipSpec => []CacheFresh
  <1>1. JoinInv => CacheFresh
    BY DEF JoinInv
  <1> QED
    BY <1>1, JoinInit, JoinNext, PTL DEF MembershipSpec
-----------------------------------------------------------------------------
(* The session.                                                            *)

SplitAt(i) == SplitOf[leaf_index[i]]

Shape ==
  /\ local \in Contents /\ remote \in Contents /\ tree \in Contents
  /\ touched \subseteq Id

\* The snapshot agrees with the membership it was taken from.
SnapshotCurrent ==
  pc \in {"top", "bottom", "fetch"} => \A i \in Id \ touched : tree[i] = local[i]

\* What round one settled: the members outside the divergent subtrees.
RoundOne ==
  pc = "bottom" =>
    \A i \in Id \ touched :
      IF SplitAt(i) \in divergent
        THEN i \notin push
        ELSE /\ i \in push <=> tree[i] # remote[i] /\ tree[i] # 0
             /\ tree[i] # remote[i] => remote[i] = 0

\* A payload carries member i's register v, or omits it.
Carries(payload, i, v) == i \in DOMAIN payload /\ payload[i] = v

PayloadsReady ==
  pc = "push" =>
    \A i \in Id \ touched :
      /\ Carries(fetched, i, remote[i]) \/ (i \notin DOMAIN fetched /\ remote[i] \in {0, local[i]})
      /\ Carries(outgoing, i, local[i]) \/ (i \notin DOMAIN outgoing /\ local[i] \in {0, remote[i]})

Pushed ==
  pc = "merge" /\ lossless =>
    \A i \in Id \ touched :
      remote[i] = IF i \in DOMAIN fetched /\ fetched[i] > local[i] THEN fetched[i] ELSE local[i]

Listed(payload, a, i) ==
  IF a[i] = 0 \/ a[i] \in Inactive THEN i \notin DOMAIN payload ELSE Carries(payload, i, a[i])

FullRequested == pc = "serve" => \A i \in Id \ touched : Listed(outgoing, local, i)

FullServed ==
  pc = "full_merge" =>
    \A i \in Id \ touched :
      /\ Listed(fetched, remote, i)
      /\ local[i] \in Inactive \/ remote[i] >= local[i]

MInv ==
  /\ Shape
  /\ SnapshotCurrent
  /\ RoundOne
  /\ DiffExact
  /\ PayloadsReady
  /\ Pushed
  /\ FullRequested
  /\ FullServed
  /\ SessionConverges

USE MerkleSyncAssumption DEF Register, Contents

\* Merging a payload (sync_nodes) gives a membership again; each entry is the
\* larger of the two registers.
LEMMA ContentsMerge ==
  ASSUME NEW a \in Contents, NEW payload,
         \A i \in Id \cap DOMAIN payload : payload[i] \in 0..MaxRegister
  PROVE  Merge(a, payload) \in Contents
BY DEF Merge

\* The registers sent to a peer are registers (fetch_registers, list_nodes).
PayloadsTyped ==
  /\ \A i \in Id \cap DOMAIN fetched : fetched[i] \in 0..MaxRegister
  /\ \A i \in Id \cap DOMAIN outgoing : outgoing[i] \in 0..MaxRegister

IInv == MInv /\ PayloadsTyped

\* The first session starts from empty memberships (Swim::new on both sides).
LEMMA InitInv == Init => IInv
<1> SUFFICES ASSUME Init PROVE IInv
  OBVIOUS
<1>1. Shape
  BY DEF Init, Shape, Nothing
<1>2. PayloadsTyped
  BY DEF Init, PayloadsTyped, Nobody
<1> QED
  BY <1>1, <1>2 DEF Init, IInv, MInv, SnapshotCurrent, RoundOne, DiffExact, PayloadsReady,
     Pushed, FullRequested, FullServed, SessionConverges

\* Every step of a session, and every step that may interrupt one, keeps what
\* the session knows of the members nobody writes.
LEMMA StepInv == IInv /\ [Next]_vars => IInv'
<1> SUFFICES ASSUME IInv, [Next]_vars PROVE IInv'
  OBVIOUS
<1> USE DEF IInv, MInv
<1>1. CASE merkle_root
  BY <1>1 DEF merkle_root, Shape, PayloadsTyped, SnapshotCurrent, RoundOne, DiffExact,
     PayloadsReady, Pushed, FullRequested, FullServed, SessionConverges
<1>2. CASE compare_root
  BY <1>2 DEF compare_root, Shape, PayloadsTyped, SnapshotCurrent, RoundOne, DiffExact,
     PayloadsReady, Pushed, FullRequested, FullServed, SessionConverges
<1>3. CASE merkle_tree_snapshot
  BY <1>3 DEF merkle_tree_snapshot, Shape, PayloadsTyped, SnapshotCurrent, RoundOne, DiffExact,
     PayloadsReady, Pushed, FullRequested, FullServed, SessionConverges
<1>4. CASE plan_leaf_refs
  <2>1. RoundOne'
    <3> SUFFICES ASSUME NEW i \in Id \ touched
                 PROVE  IF SplitAt(i) \in divergent' THEN i \notin push'
                        ELSE /\ i \in push' <=> tree[i] # remote[i] /\ tree[i] # 0
                             /\ tree[i] # remote[i] => remote[i] = 0
      BY <1>4 DEF plan_leaf_refs, RoundOne, SplitAt
    <3>1. SplitAt(i) \in Split /\ i \in Under(SplitAt(i))
      BY DEF SplitAt, Under
    <3>2. i \in push' <=> /\ SplitAt(i) \in Differing(remote)
                          /\ Held(remote, Under(SplitAt(i))) = {}
                          /\ tree[i] # 0
      BY <1>4, <3>1 DEF plan_leaf_refs, Held, Under, SplitAt
    <3>3. SplitAt(i) \in divergent' <=> /\ SplitAt(i) \in Differing(remote)
                                        /\ Held(remote, Under(SplitAt(i))) # {}
      BY <1>4 DEF plan_leaf_refs
    <3>4. SplitAt(i) \notin Differing(remote) => tree[i] = remote[i]
      BY <3>1 DEF Differing, Same
    <3>5. Held(remote, Under(SplitAt(i))) = {} => remote[i] = 0
      BY <3>1 DEF Held
    <3>6. tree[i] # remote[i] => SplitAt(i) \in Differing(remote)
      BY <3>4
    <3>7. CASE SplitAt(i) \in divergent'
      BY <3>2, <3>3, <3>7
    <3>8. CASE SplitAt(i) \notin divergent'
      <4>1. tree[i] # remote[i] => Held(remote, Under(SplitAt(i))) = {}
        BY <3>3, <3>6, <3>8
      <4>2. tree[i] # remote[i] => remote[i] = 0
        BY <4>1, <3>5
      <4>3. ASSUME i \in push' PROVE tree[i] # remote[i] /\ tree[i] # 0
        BY <4>3, <3>2, <3>5
      <4>4. ASSUME tree[i] # remote[i], tree[i] # 0 PROVE i \in push'
        BY <4>4, <4>1, <3>2, <3>6
      <4> QED
        BY <3>8, <4>2, <4>3, <4>4
    <3> QED
      BY <3>7, <3>8
  <2> QED
    BY <1>4, <2>1 DEF plan_leaf_refs, Shape, PayloadsTyped, SnapshotCurrent, DiffExact,
       PayloadsReady, Pushed, FullRequested, FullServed, SessionConverges
<1>5. CASE finish
  <2>1. DiffExact'
    <3> SUFFICES ASSUME NEW i \in Id \ touched
                 PROVE  /\ i \in pull' <=> local[i] # remote[i] /\ remote[i] # 0
                        /\ i \in push' <=> local[i] # remote[i] /\ local[i] # 0
      BY <1>5 DEF finish, DiffExact
    <3>1. tree[i] = local[i]
      BY <1>5 DEF finish, SnapshotCurrent
    <3>2. i \in DiffIds <=> SplitAt(i) \in divergent /\ tree[i] # remote[i]
      BY DEF DiffIds, Same, Bucket, SplitAt
    <3>3. i \in pull' <=> i \in DiffIds /\ remote[i] # 0
      BY <1>5 DEF finish, Held
    <3>4. i \in push' <=> i \in push \/ (i \in DiffIds /\ tree[i] # 0)
      BY <1>5 DEF finish, Held
    <3>5. IF SplitAt(i) \in divergent THEN i \notin push
          ELSE /\ i \in push <=> tree[i] # remote[i] /\ tree[i] # 0
               /\ tree[i] # remote[i] => remote[i] = 0
      BY <1>5 DEF finish, RoundOne
    <3> QED
      BY <3>1, <3>2, <3>3, <3>4, <3>5
  <2> QED
    BY <1>5, <2>1 DEF finish, Shape, PayloadsTyped, SnapshotCurrent, RoundOne,
       PayloadsReady, Pushed, FullRequested, FullServed, SessionConverges
<1>6. CASE fetch
  <2>1. /\ DOMAIN fetched' = {i \in pull : remote[i] # 0}
        /\ \A i \in DOMAIN fetched' : fetched'[i] = remote[i]
        /\ DOMAIN outgoing' = {i \in push : local[i] # 0}
        /\ \A i \in DOMAIN outgoing' : outgoing'[i] = local[i]
    BY <1>6 DEF fetch, serve_fetch_registers, fetch_registers, Held
  <2>2. PayloadsReady'
    BY <1>6, <2>1 DEF fetch, PayloadsReady, Carries, DiffExact, Shape
  <2>3. PayloadsTyped'
    BY <1>6, <2>1 DEF fetch, PayloadsTyped, Shape
  <2> QED
    BY <1>6, <2>2, <2>3 DEF fetch, Shape, SnapshotCurrent, RoundOne, DiffExact,
       Pushed, FullRequested, FullServed, SessionConverges
<1>7. CASE push_registers
  <2>1. remote' \in Contents
    BY <1>7, ContentsMerge DEF push_registers, serve_push_registers, Shape, PayloadsTyped
  <2>2. Pushed'
    <3> SUFFICES ASSUME lossless', NEW i \in Id \ touched
                 PROVE  remote'[i] = IF i \in DOMAIN fetched /\ fetched[i] > local[i]
                                       THEN fetched[i] ELSE local[i]
      BY <1>7 DEF push_registers, serve_push_registers, Pushed
    <3>1. remote'[i] = IF i \in DOMAIN outgoing /\ outgoing[i] > remote[i]
                         THEN outgoing[i] ELSE remote[i]
      BY <1>7 DEF push_registers, serve_push_registers, Merge
    <3>2. /\ Carries(fetched, i, remote[i]) \/ (i \notin DOMAIN fetched /\ remote[i] \in {0, local[i]})
          /\ Carries(outgoing, i, local[i]) \/ (i \notin DOMAIN outgoing /\ local[i] \in {0, remote[i]})
      BY <1>7 DEF push_registers, serve_push_registers, PayloadsReady
    <3>3. local[i] \in 0..MaxRegister /\ remote[i] \in 0..MaxRegister
      BY DEF Shape
    <3> QED
      BY <3>1, <3>2, <3>3 DEF Carries
  <2> QED
    BY <1>7, <2>1, <2>2 DEF push_registers, serve_push_registers, Shape, PayloadsTyped, SnapshotCurrent, RoundOne,
       DiffExact, PayloadsReady, FullRequested, FullServed, SessionConverges
<1>8. CASE sync_nodes
  <2>1. local' \in Contents
    BY <1>8, ContentsMerge DEF sync_nodes, Shape, PayloadsTyped
  <2>2. SessionConverges'
    BY <1>8 DEF sync_nodes, session, Merge, Pushed, SessionConverges, Same
  <2> QED
    BY <1>8, <2>1, <2>2 DEF sync_nodes, session, Shape, PayloadsTyped, SnapshotCurrent, RoundOne,
       DiffExact, PayloadsReady, Pushed, FullRequested, FullServed
<1>9. CASE full_sync_request
  <2>1. /\ DOMAIN outgoing' = {i \in Id : local[i] # 0 /\ local[i] \notin Inactive}
        /\ \A i \in DOMAIN outgoing' : outgoing'[i] = local[i]
    BY <1>9 DEF full_sync_request, list_nodes, Held
  <2>2. FullRequested'
    BY <1>9, <2>1 DEF full_sync_request, FullRequested, Listed, Carries
  <2>3. PayloadsTyped'
    BY <1>9, <2>1 DEF full_sync_request, PayloadsTyped, Shape
  <2> QED
    BY <1>9, <2>2, <2>3 DEF full_sync_request, Shape, SnapshotCurrent, RoundOne,
       DiffExact, PayloadsReady, Pushed, FullServed, SessionConverges
<1>10. CASE serve_sync_nodes
  <2>1. remote' \in Contents
    BY <1>10, ContentsMerge DEF serve_sync_nodes, Shape, PayloadsTyped
  <2>2. /\ DOMAIN fetched' = {i \in Id : remote'[i] # 0 /\ remote'[i] \notin Inactive}
        /\ \A i \in DOMAIN fetched' : fetched'[i] = remote'[i]
    BY <1>10 DEF serve_sync_nodes, list_nodes, Held
  <2>3. ASSUME NEW i \in Id \ touched PROVE local[i] \in Inactive \/ remote'[i] >= local[i]
    <3>1. remote'[i] = IF i \in DOMAIN outgoing /\ outgoing[i] > remote[i]
                         THEN outgoing[i] ELSE remote[i]
      BY <1>10 DEF serve_sync_nodes, Merge
    <3>2. Listed(outgoing, local, i)
      BY <1>10 DEF serve_sync_nodes, FullRequested
    <3>3. local[i] \in 0..MaxRegister /\ remote[i] \in 0..MaxRegister
      BY DEF Shape
    <3> QED
      BY <3>1, <3>2, <3>3 DEF Listed, Carries
  <2>4. FullServed'
    BY <1>10, <2>2, <2>3 DEF serve_sync_nodes, FullServed, Listed, Carries
  <2>5. PayloadsTyped'
    BY <1>10, <2>1, <2>2 DEF serve_sync_nodes, PayloadsTyped
  <2> QED
    BY <1>10, <2>1, <2>4, <2>5 DEF serve_sync_nodes, Shape, SnapshotCurrent, RoundOne,
       DiffExact, PayloadsReady, Pushed, FullRequested, SessionConverges
<1>11. CASE full_sync_merge
  <2>1. local' \in Contents
    BY <1>11, ContentsMerge DEF full_sync_merge, Shape, PayloadsTyped
  <2>2. ASSUME NEW i \in Id \ touched, local'[i] \notin Inactive, remote[i] \notin Inactive
        PROVE  local'[i] = remote[i]
    <3>1. local'[i] = IF i \in DOMAIN fetched /\ fetched[i] > local[i]
                        THEN fetched[i] ELSE local[i]
      BY <1>11 DEF full_sync_merge, Merge
    <3>2. /\ Listed(fetched, remote, i)
          /\ local[i] \in Inactive \/ remote[i] >= local[i]
      BY <1>11 DEF full_sync_merge, FullServed
    <3>3. local[i] \in 0..MaxRegister /\ remote[i] \in 0..MaxRegister
      BY DEF Shape
    <3> QED
      BY <2>2, <3>1, <3>2, <3>3 DEF Listed, Carries
  <2>3. SessionConverges'
    BY <1>11, <2>2 DEF full_sync_merge, session, SessionConverges
  <2> QED
    BY <1>11, <2>1, <2>3 DEF full_sync_merge, session, Shape, PayloadsTyped, SnapshotCurrent,
       RoundOne, DiffExact, PayloadsReady, Pushed, FullRequested, FullServed
<1>12. CASE Finished \/ Abandon \/ LocalRestart
  BY <1>12 DEF Finished, Abandon, LocalRestart, EndSession, Nothing, Nobody, Shape, PayloadsTyped,
     SnapshotCurrent, RoundOne, DiffExact, PayloadsReady, Pushed, FullRequested, FullServed,
     SessionConverges
<1>13. ASSUME NEW k \in Id, NEW v \in Register, Write(k, v) PROVE IInv'
  <2>1. /\ touched' = touched \union {k}
        /\ UNCHANGED <<pc, root, tree, divergent, push, pull, outgoing, fetched, lossless>>
    BY <1>13 DEF Write, session
  <2>2. /\ local' \in Contents /\ remote' \in Contents
        /\ \A i \in Id : i # k => local'[i] = local[i] /\ remote'[i] = remote[i]
    BY <1>13 DEF Write, Shape
  <2>3. Shape' /\ PayloadsTyped'
    BY <2>1, <2>2 DEF Shape, PayloadsTyped
  <2>4. SnapshotCurrent' /\ RoundOne' /\ DiffExact'
    BY <2>1, <2>2 DEF SnapshotCurrent, RoundOne, DiffExact
  <2>5. PayloadsReady' /\ Pushed'
    BY <2>1, <2>2 DEF PayloadsReady, Pushed, Carries
  <2>6. FullRequested' /\ FullServed'
    BY <2>1, <2>2 DEF FullRequested, FullServed, Listed, Carries
  <2>7. SessionConverges'
    BY <2>1, <2>2 DEF SessionConverges, Same
  <2> QED
    BY <2>3, <2>4, <2>5, <2>6, <2>7
<1>14. CASE PeerRestart
  <2>1. touched' = Id /\ remote' = Nothing
        /\ UNCHANGED <<local, pc, root, tree, divergent, push, pull, outgoing, fetched, lossless>>
    BY <1>14 DEF PeerRestart, session
  <2> QED
    BY <2>1 DEF Nothing, Shape, PayloadsTyped, SnapshotCurrent, RoundOne, DiffExact,
       PayloadsReady, Pushed, FullRequested, FullServed, SessionConverges, Same
<1>15. CASE UNCHANGED vars
  BY <1>15 DEF vars, session, Shape, PayloadsTyped, SnapshotCurrent, RoundOne, DiffExact,
     PayloadsReady, Pushed, FullRequested, FullServed, SessionConverges, Listed, Carries, Same
<1> QED
  BY <1>1, <1>2, <1>3, <1>4, <1>5, <1>6, <1>7, <1>8, <1>9, <1>10, <1>11, <1>12, <1>13, <1>14,
     <1>15 DEF Next, Session

\* The two-round diff (plan_leaf_refs, finish) decides exactly every member
\* that nobody wrote since the session began, however the tree is shaped.
THEOREM DiffExactTheorem == Spec => []DiffExact
<1>1. IInv => DiffExact
  BY DEF IInv, MInv
<1> QED
  BY InitInv, StepInv, <1>1, PTL DEF Spec

\* A completed session (sync_with_peer) with its push delivered leaves both
\* nodes equal on every member nobody wrote meanwhile, and the full-sync
\* fallback does so for the members both list as active.
THEOREM SessionConvergesTheorem == Spec => []SessionConverges
<1>1. IInv => SessionConverges
  BY DEF IInv, MInv
<1> QED
  BY InitInv, StepInv, <1>1, PTL DEF Spec

\* Any part of what a node holds is a payload.
LEMMA PayloadType ==
  ASSUME NEW a \in Contents, NEW S \in SUBSET Held(a, Id)
  PROVE  [i \in S |-> a[i]] \in Payload
  <1>1. S \in SUBSET Id /\ \A i \in S : a[i] \in 1..MaxRegister
    BY DEF Held
  <1>2. [i \in S |-> a[i]] \in [S -> Register]
    BY <1>1
  <1> QED
    BY <1>1, <1>2 DEF Payload

LEMMA PayloadEntries ==
  ASSUME NEW payload \in Payload
  PROVE  \A i \in Id \cap DOMAIN payload : payload[i] \in 0..MaxRegister
  <1> PICK S \in SUBSET Id : payload \in [S -> Register]
    BY DEF Payload
  <1> QED
    OBVIOUS

LEMMA EndSessionType ==
  ASSUME TypeOK, EndSession, local' \in Contents, remote' \in Contents
  PROVE  TypeOK'
  <1>1. Nobody \in Payload
    <2>1. Nobody \in [{} -> Register] /\ {} \in SUBSET Id
      BY DEF Nobody
    <2> QED
      BY <2>1 DEF Payload
  <1>2. Nothing \in Contents
    BY DEF Nothing
  <1> QED
    BY <1>1, <1>2 DEF TypeOK, EndSession

(***************************************************************************)
(* The variables of a session keep their types: what is sent is always     *)
(* registers of members the sender holds (fetch_registers, list_nodes),    *)
(* whatever either side restarts or writes in between.                     *)
(***************************************************************************)
THEOREM TypeOKTheorem == Spec => []TypeOK
  <1>1. Init => TypeOK
    <2>1. Nobody \in [{} -> Register] /\ {} \in SUBSET Id
      BY DEF Nobody
    <2>2. Nobody \in Payload
      BY <2>1 DEF Payload
    <2> QED
      BY <2>2 DEF Init, TypeOK, Nothing
  <1>2. TypeOK /\ [Next]_vars => TypeOK'
    <2> SUFFICES ASSUME TypeOK, [Next]_vars
                 PROVE  TypeOK'
      OBVIOUS
    <2>1. CASE merkle_root
      BY <2>1 DEF merkle_root, TypeOK
    <2>2. CASE compare_root
      BY <2>2 DEF compare_root, TypeOK, Nothing
    <2>3. CASE merkle_tree_snapshot
      BY <2>3 DEF merkle_tree_snapshot, TypeOK
    <2>4. CASE plan_leaf_refs
      <3>1. push' \subseteq Id /\ divergent' \subseteq Split
        BY <2>4 DEF plan_leaf_refs, Held, Under, Differing
      <3> QED
        BY <2>4, <3>1 DEF plan_leaf_refs, TypeOK
    <2>5. CASE finish
      <3>1. pull' \subseteq Id /\ push' \subseteq Id
        BY <2>5 DEF finish, Held, DiffIds, TypeOK
      <3> QED
        BY <2>5, <3>1 DEF finish, TypeOK
    <2>6. CASE fetch
      <3>1. fetched' = [i \in Held(remote, pull) |-> remote[i]] /\ outgoing' = [i \in Held(local, push) |-> local[i]]
        BY <2>6 DEF fetch, serve_fetch_registers, fetch_registers
      <3>2. Held(remote, pull) \subseteq Held(remote, Id) /\ Held(local, push) \subseteq Held(local, Id)
        BY DEF Held, TypeOK
      <3>3. fetched' \in Payload /\ outgoing' \in Payload
        BY <3>1, <3>2, PayloadType DEF TypeOK
      <3> QED
        BY <2>6, <3>3 DEF fetch, TypeOK
    <2>7. CASE push_registers
      <3>1. Merge(remote, outgoing) \in Contents
        BY PayloadEntries, ContentsMerge DEF TypeOK
      <3> QED
        BY <2>7, <3>1 DEF push_registers, serve_push_registers, TypeOK
    <2>8. CASE sync_nodes \/ full_sync_merge
      <3>1. Merge(local, fetched) \in Contents
        BY PayloadEntries, ContentsMerge DEF TypeOK
      <3> QED
        BY <2>8, <3>1 DEF sync_nodes, full_sync_merge, TypeOK, session
    <2>9. CASE full_sync_request
      <3>1. list_nodes(local) \in Payload
        BY PayloadType DEF list_nodes, TypeOK
      <3> QED
        BY <2>9, <3>1 DEF full_sync_request, TypeOK
    <2>10. CASE serve_sync_nodes
      <3>1. remote' \in Contents
        BY <2>10, PayloadEntries, ContentsMerge DEF serve_sync_nodes, TypeOK
      <3>2. list_nodes(remote') \in Payload
        BY <3>1, PayloadType DEF list_nodes
      <3> QED
        BY <2>10, <3>1, <3>2 DEF serve_sync_nodes, TypeOK
    <2>11. CASE Finished \/ Abandon
      BY <2>11, EndSessionType DEF Finished, Abandon, TypeOK
    <2>12. ASSUME NEW i \in Id, NEW v \in Register, Write(i, v)
           PROVE  TypeOK'
      BY <2>12 DEF Write, TypeOK, session
    <2>13. CASE PeerRestart
      BY <2>13 DEF PeerRestart, TypeOK, session, Nothing
    <2>14. CASE LocalRestart
      BY <2>14, EndSessionType DEF LocalRestart, TypeOK, Nothing
    <2>15. CASE UNCHANGED vars
      BY <2>15 DEF vars, session, TypeOK
    <2> QED
      BY <2>1, <2>2, <2>3, <2>4, <2>5, <2>6, <2>7, <2>8, <2>9, <2>10, <2>11, <2>12, <2>13, <2>14, <2>15
         DEF Next, Session
  <1> QED
    BY <1>1, <1>2, PTL DEF Spec
=============================================================================
