----------------------------- MODULE MerkleSync -----------------------------
(***************************************************************************)
(* One node's anti-entropy sessions with one peer: sync_with_peer and      *)
(* full_sync_with_peer (crates/daemon/src/sync/antientropy.rs) over the    *)
(* two-round Merkle diff (crates/membership/src/sync.rs, merkle.rs).       *)
(*                                                                         *)
(* The registers of a member form a chain under merge; they are numbered   *)
(* from 1 in that order, and 0 stands for a member a node does not know.   *)
(* Tree hashes are taken to be injective, so comparing the hash of a node  *)
(* of the tree is comparing what the two memberships hold under it.        *)
(*                                                                         *)
(* Id ranges over members that are neither of the two nodes: a node does   *)
(* not merge a register about itself but refutes it, see module Swim.      *)
(*                                                                         *)
(* Every RPC reads or merges the peer's membership at its own moment: both *)
(* memberships go on changing between the steps of a session (probes,      *)
(* gossip, other sessions), and either process may restart.                *)
(***************************************************************************)
EXTENDS Naturals, FiniteSets

CONSTANTS Id, Leaf, Split,
          leaf_index,    \* [Id -> Leaf]
          SplitOf,       \* [Leaf -> Split]: the subtree at SPLIT_DEPTH
          MaxRegister,   \* bound: registers of a member
          Inactive,      \* the registers that are Leaving or Offline
          MaxWrites, MaxFailures

Register == 1..MaxRegister
Contents == [Id -> 0..MaxRegister]

ASSUME MerkleSyncAssumption ==
  /\ leaf_index \in [Id -> Leaf]
  /\ SplitOf \in [Leaf -> Split]
  /\ MaxRegister \in Nat
  /\ Inactive \subseteq Register

VARIABLES local, remote,   \* the two memberships
          pc,
          root,            \* the root the peer reported: all it held
          tree,            \* MerkleDiff::tree, the local snapshot
          divergent,       \* MerkleDiff::divergent
          push, pull,      \* DiffResult: need_from_local, need_from_remote
          outgoing, fetched,   \* register payloads on their way
          touched,         \* history: ids written since the session began
          lossless,        \* history: the session's push was not lost
          writes, failures

session == <<root, tree, divergent, push, pull, outgoing, fetched, lossless>>
vars == <<local, remote, pc, session, touched, writes, failures>>

Nobody  == [i \in {} |-> 0]
Nothing == [i \in Id |-> 0]

Under(s)  == {i \in Id : SplitOf[leaf_index[i]] = s}
Bucket(k) == {i \in Id : leaf_index[i] = k}

Same(a, b, S) == \A i \in S : a[i] = b[i]
Held(a, S)    == {i \in S : a[i] # 0}

\* Membership::merge_register for every register of a payload.
Merge(a, payload) ==
  [i \in Id |-> IF i \in DOMAIN payload /\ payload[i] > a[i] THEN payload[i] ELSE a[i]]

\* MembershipService::fetch_registers: ids the node does not hold are skipped.
\* Mutant: an id the node does not hold is answered.
fetch_registers_Unfiltered(a, S) == [i \in S |-> a[i]]

fetch_registers(a, S) == [i \in Held(a, S) |-> a[i]]

\* MembershipService::list_nodes: the active members.
list_nodes(a) == [i \in {k \in Held(a, Id) : a[k] \notin Inactive} |-> a[i]]

Init ==
  /\ local = Nothing /\ remote = Nothing
  /\ pc = "idle"
  /\ root = Nothing /\ tree = Nothing
  /\ divergent = {} /\ push = {} /\ pull = {}
  /\ outgoing = Nobody /\ fetched = Nobody
  /\ touched = {} /\ lossless = TRUE
  /\ writes = 0 /\ failures = 0
-----------------------------------------------------------------------------
(* sync_with_peer.  A failed RPC ends the session (fail), except that a    *)
(* failed root request falls back to a full sync.                          *)

Fail == failures < MaxFailures /\ failures' = failures + 1

merkle_root ==
  /\ pc = "idle"
  /\ touched' = {}
  /\ \/ pc' = "compare" /\ root' = remote /\ UNCHANGED failures
     \/ pc' = "full" /\ Fail /\ UNCHANGED root
  /\ UNCHANGED <<local, remote, tree, divergent, push, pull, outgoing, fetched, lossless, writes>>

compare_root ==
  /\ pc = "compare"
  /\ pc' = IF root = local THEN "idle" ELSE "snapshot"
  /\ root' = Nothing
  /\ UNCHANGED <<local, remote, tree, divergent, push, pull, outgoing, fetched,
                 touched, lossless, writes, failures>>

merkle_tree_snapshot ==
  /\ pc = "snapshot"
  /\ pc' = "top"
  /\ tree' = local
  /\ UNCHANGED <<local, remote, root, divergent, push, pull, outgoing, fetched,
                 touched, lossless, writes, failures>>

Differing(a) == {s \in Split : ~ Same(tree, a, Under(s))}

\* Mutant: a subtree the local node holds nothing under is skipped as well.
plan_leaf_refs_LocalEmpty ==
  /\ pc = "top"
  /\ pc' = "bottom"
  /\ push' = UNION {Held(tree, Under(s)) : s \in {k \in Differing(remote) : Held(remote, Under(k)) = {}}}
  /\ divergent' = {s \in Differing(remote) : Held(remote, Under(s)) # {} /\ Held(tree, Under(s)) # {}}
  /\ UNCHANGED <<local, remote, root, tree, pull, outgoing, fetched, touched, lossless,
                 writes, failures>>

plan_leaf_refs ==
  /\ pc = "top"
  /\ pc' = "bottom"
  /\ push' = UNION {Held(tree, Under(s)) : s \in {k \in Differing(remote) : Held(remote, Under(k)) = {}}}
  /\ divergent' = {s \in Differing(remote) : Held(remote, Under(s)) # {}}
  /\ UNCHANGED <<local, remote, root, tree, pull, outgoing, fetched, touched, lossless,
                 writes, failures>>

\* diff_leaf_buckets (module LeafDiff) on the leaves whose hashes differ.
DiffIds ==
  {i \in Id : SplitOf[leaf_index[i]] \in divergent
              /\ ~ Same(tree, remote, Bucket(leaf_index[i]))
              /\ tree[i] # remote[i]}

\* Mutant: an id both sides hold with different hashes is pushed only.
finish_PushOnly ==
  /\ pc = "bottom"
  /\ pc' = "fetch"
  /\ pull' = Held(remote, DiffIds) \ Held(tree, DiffIds)
  /\ push' = push \union Held(tree, DiffIds)
  /\ UNCHANGED <<local, remote, root, tree, divergent, outgoing, fetched, touched,
                 lossless, writes, failures>>

finish ==
  /\ pc = "bottom"
  /\ pc' = "fetch"
  /\ pull' = Held(remote, DiffIds)
  /\ push' = push \union Held(tree, DiffIds)
  /\ UNCHANGED <<local, remote, root, tree, divergent, outgoing, fetched, touched,
                 lossless, writes, failures>>

\* What the peer does with the two requests.
serve_fetch_registers(ids) == fetch_registers(remote, ids)
serve_push_registers(registers) == Merge(remote, registers)

\* The fetch response, and the local registers read to be pushed.
fetch ==
  /\ pc = "fetch"
  /\ pc' = "push"
  /\ fetched' = serve_fetch_registers(pull)
  /\ outgoing' = fetch_registers(local, push)
  /\ UNCHANGED <<local, remote, root, tree, divergent, push, pull, touched, lossless,
                 writes, failures>>

\* Best effort: a lost push does not end the session.
push_registers ==
  /\ pc = "push"
  /\ pc' = "merge"
  /\ \/ remote' = serve_push_registers(outgoing) /\ UNCHANGED <<lossless, failures>>
     \/ lossless' = FALSE /\ Fail /\ UNCHANGED remote
  /\ UNCHANGED <<local, root, tree, divergent, push, pull, outgoing, fetched, touched, writes>>

\* MembershipService::sync_nodes with the fetched registers.
sync_nodes ==
  /\ pc = "merge"
  /\ pc' = "done"
  /\ local' = Merge(local, fetched)
  /\ UNCHANGED <<remote, session, touched, writes, failures>>
-----------------------------------------------------------------------------
(* full_sync_with_peer: both sides exchange their active members.          *)

full_sync_request ==
  /\ pc = "full"
  /\ pc' = "serve"
  /\ outgoing' = list_nodes(local)
  /\ UNCHANGED <<local, remote, root, tree, divergent, push, pull, fetched, touched,
                 lossless, writes, failures>>

serve_sync_nodes ==
  /\ pc = "serve"
  /\ pc' = "full_merge"
  /\ remote' = Merge(remote, outgoing)
  /\ fetched' = list_nodes(remote')
  /\ UNCHANGED <<local, root, tree, divergent, push, pull, outgoing, touched, lossless,
                 writes, failures>>

full_sync_merge ==
  /\ pc = "full_merge"
  /\ pc' = "full_done"
  /\ local' = Merge(local, fetched)
  /\ UNCHANGED <<remote, session, touched, writes, failures>>
-----------------------------------------------------------------------------
EndSession ==
  /\ pc' = "idle"
  /\ root' = Nothing /\ tree' = Nothing
  /\ divergent' = {} /\ push' = {} /\ pull' = {}
  /\ outgoing' = Nobody /\ fetched' = Nobody
  /\ lossless' = TRUE
  /\ touched' = {}

\* record_sync_success; the next session starts at the next interval.
Finished ==
  /\ pc \in {"done", "full_done"}
  /\ EndSession
  /\ UNCHANGED <<local, remote, writes, failures>>

\* An RPC of the session fails or times out and sync_attempt gives up; the
\* peer may have merged the full sync's registers all the same.
Abandon ==
  /\ pc \in {"top", "bottom", "fetch", "full", "serve", "full_merge"}
  /\ Fail
  /\ EndSession
  /\ UNCHANGED <<local, remote, writes>>

\* Anything else that changes a membership; it only climbs in merge order.
Write(i, v) ==
  /\ writes < MaxWrites
  /\ writes' = writes + 1
  /\ touched' = touched \union {i}
  /\ \/ v > local[i] /\ local' = [local EXCEPT ![i] = v] /\ UNCHANGED remote
     \/ v > remote[i] /\ remote' = [remote EXCEPT ![i] = v] /\ UNCHANGED local
  /\ UNCHANGED <<pc, session, failures>>

\* The peer's process restarts with an empty membership.
PeerRestart ==
  /\ Fail
  /\ remote' = Nothing
  /\ touched' = Id
  /\ UNCHANGED <<local, pc, session, writes>>

\* The node's own process restarts with an empty membership: its session ends.
LocalRestart ==
  /\ Fail
  /\ EndSession
  /\ local' = Nothing
  /\ UNCHANGED <<remote, writes>>

Session ==
  \/ merkle_root \/ compare_root \/ merkle_tree_snapshot \/ plan_leaf_refs \/ finish
  \/ fetch \/ push_registers \/ sync_nodes
  \/ full_sync_request \/ serve_sync_nodes \/ full_sync_merge \/ Finished

Next ==
  \/ Session
  \/ Abandon
  \/ \E i \in Id, v \in Register : Write(i, v)
  \/ PeerRestart
  \/ LocalRestart

Spec == Init /\ [][Next]_vars

\* ClusterSync::run starts a session at every interval and awaits each step.
FairSpec == Spec /\ WF_vars(Session)
-----------------------------------------------------------------------------
Payload == UNION {[S -> Register] : S \in SUBSET Id}

TypeOK ==
  /\ local \in Contents /\ remote \in Contents
  /\ pc \in {"idle", "compare", "snapshot", "top", "bottom", "fetch", "push", "merge",
             "done", "full", "serve", "full_merge", "full_done"}
  /\ root \in Contents /\ tree \in Contents
  /\ divergent \subseteq Split
  /\ push \subseteq Id /\ pull \subseteq Id /\ touched \subseteq Id
  /\ outgoing \in Payload /\ fetched \in Payload
  /\ lossless \in BOOLEAN

(***************************************************************************)
(* The two rounds together decide every member nobody wrote during the     *)
(* session exactly, although they look at the peer at different moments    *)
(* and other members of the same subtree or leaf may change in between: a  *)
(* member is fetched if and only if the peer holds a register the node     *)
(* does not have, and pushed in the mirrored case (plan_leaf_refs, finish).*)
(***************************************************************************)
DiffExact ==
  pc = "fetch" =>
    \A i \in Id \ touched :
      /\ i \in pull <=> local[i] # remote[i] /\ remote[i] # 0
      /\ i \in push <=> local[i] # remote[i] /\ local[i] # 0

(***************************************************************************)
(* A session that completes with its push delivered leaves the two nodes   *)
(* with the same register for every member nobody wrote meanwhile; after   *)
(* the full-sync fallback this holds of the members both list as active.   *)
(***************************************************************************)
SessionConverges ==
  /\ pc = "done" /\ lossless => Same(local, remote, Id \ touched)
  /\ pc = "full_done" =>
       \A i \in Id \ touched :
         local[i] \notin Inactive /\ remote[i] \notin Inactive => local[i] = remote[i]

(***************************************************************************)
(* Once the memberships stop changing by other means and the network stops *)
(* failing, the sessions make the two memberships equal for good.          *)
(***************************************************************************)
Reconciles == <>[](local = remote)
=============================================================================
