------------------------------- MODULE Gossip -------------------------------
(***************************************************************************)
(* Push gossip from one origin: the persisted sequence counter, the fan    *)
(* out, and the deduplication and forwarding at every node                 *)
(* (crates/daemon/src/sync/gossip.rs and allocate_push in sync/mod.rs).    *)
(*                                                                         *)
(* Receivers deduplicate on (origin, sequence), so a sequence number that  *)
(* is handed out twice makes every peer drop the second push unseen.  The  *)
(* counter is an AtomicU64; the meta write that persists a value is a      *)
(* separate step, and several dispatch tasks may be between the two on the *)
(* multi-threaded runtime.                                                 *)
(***************************************************************************)
EXTENDS Naturals, Sequences, FiniteSets, SequencesExt

CONSTANTS Origin, Peer,
          Link,          \* Link[n]: the targets MembershipPool::candidates gives n
          Task,          \* dispatch tasks of the origin
          Capacity,      \* DedupSet::capacity (MAX_SEEN_PUSHES)
          MaxSequence,   \* bound: sequence numbers handed out
          PersistMayFail, \* whether the meta write may fail (it only warns)
          MaxCrash,      \* bound: crashes of the origin
          MaxRestart,    \* bound: restarts of peers
          MaxLost        \* bound: pushes lost in the network

Node == Peer \union {Origin}

ASSUME GossipAssumption ==
  /\ Origin \notin Peer
  /\ Link \in [Node -> SUBSET Node]
  /\ Capacity \in Nat \ {0}
  /\ MaxSequence \in Nat
  /\ PersistMayFail \in BOOLEAN

VARIABLES disk,      \* the meta table's gossip_sequence, 0 when absent
          next,      \* PersistedSequence::next, 0 while the process is down
          task,      \* task[t]: the sequence t holds and whether it is persisted
          seen,      \* seen[n]: DedupSet::order, oldest first
          flight,    \* sends in progress: [from, to, push]
          issued,    \* history: the pushes broadcast so far
          applied,   \* applied[n]: the pushes n's process merged, in order
          crashes, restarts, lost

gossip == <<disk, next, task, seen, flight, issued, applied, crashes, restarts, lost>>

Push == [sequence : 1..MaxSequence, payload : 1..(MaxSequence * Cardinality(Task))]

Idle == [pc |-> "idle", sequence |-> 0]

\* PersistedSequence::load.
\* Mutant: resumes at the persisted value instead of the one after it.
load_SameValue(d) == IF d = 0 THEN 1 ELSE d

load(d) == IF d = 0 THEN 1 ELSE d + 1

GossipInit ==
  /\ disk = 0
  /\ next = load(0)
  /\ task = [t \in Task |-> Idle]
  /\ seen = [n \in Node |-> <<>>]
  /\ flight = {}
  /\ issued = {}
  /\ applied = [n \in Node |-> <<>>]
  /\ crashes = 0
  /\ restarts = 0
  /\ lost = 0
-----------------------------------------------------------------------------
(* DedupSet.                                                               *)

\* Mutant: evicts when the set is full rather than when it is over-full.
insert_EvictsEarly(order, key) ==
  IF Contains(order, key) THEN order
  ELSE LET longer == Append(order, key)
       IN  IF Len(longer) >= Capacity THEN Tail(longer) ELSE longer

insert(order, key) ==
  IF Contains(order, key) THEN order
  ELSE LET longer == Append(order, key)
       IN  IF Len(longer) > Capacity THEN Tail(longer) ELSE longer
-----------------------------------------------------------------------------
(* PersistedSequence::next, in the two steps another task can interleave.  *)

fetch_add(t) ==
  /\ next # 0 /\ next <= MaxSequence
  /\ task[t].pc = "idle"
  /\ task' = [task EXCEPT ![t] = [pc |-> "taken", sequence |-> next]]
  /\ next' = next + 1
  /\ UNCHANGED <<disk, seen, flight, issued, applied, crashes, restarts, lost>>

\* Mutant: persists the counter, already one past the value handed out.
persist_NextValue(t) ==
  /\ task[t].pc = "taken"
  /\ disk' = task[t].sequence + 1
  /\ task' = [task EXCEPT ![t].pc = "saved"]
  /\ UNCHANGED <<next, seen, flight, issued, applied, crashes, restarts, lost>>

persist(t) ==
  /\ task[t].pc = "taken"
  /\ \E ok \in {TRUE} \union {~PersistMayFail} :
       disk' = IF ok THEN task[t].sequence ELSE disk
  /\ task' = [task EXCEPT ![t].pc = "saved"]
  /\ UNCHANGED <<next, seen, flight, issued, applied, crashes, restarts, lost>>

Fanout(n, push) == {[from |-> n, to |-> q, push |-> push] : q \in Link[n]}

\* The rest of allocate_push, and broadcast_push.
broadcast_push(t) ==
  /\ task[t].pc = "saved"
  /\ LET push == [sequence |-> task[t].sequence, payload |-> Cardinality(issued) + 1]
     IN  /\ issued' = issued \union {push}
         /\ flight' = flight \union Fanout(Origin, push)
         /\ seen' = [seen EXCEPT ![Origin] = insert(@, push.sequence)]
  /\ task' = [task EXCEPT ![t] = Idle]
  /\ UNCHANGED <<disk, next, applied, crashes, restarts, lost>>
-----------------------------------------------------------------------------
Running(n) == n = Origin => next # 0

(***************************************************************************)
(* serve_push_node: a new key is merged and forwarded to n's own targets,  *)
(* the sender included; a known one is dropped.                            *)
(***************************************************************************)
\* Mutant: the forwarding does not wait for the dedup verdict.
serve_push_node_ForwardsAll(n, m) ==
  /\ m.to = n /\ Running(n)
  /\ seen' = [seen EXCEPT ![n] = insert(@, m.push.sequence)]
  /\ flight' = (flight \ {m}) \union Fanout(n, m.push)
  /\ applied' = IF Contains(seen[n], m.push.sequence) THEN applied
                ELSE [applied EXCEPT ![n] = Append(@, m.push)]
  /\ UNCHANGED <<disk, next, task, issued, crashes, restarts, lost>>

\* Mutant: a new push is merged but not forwarded.
serve_push_node_NoForward(n, m) ==
  /\ m.to = n /\ Running(n)
  /\ seen' = [seen EXCEPT ![n] = insert(@, m.push.sequence)]
  /\ flight' = flight \ {m}
  /\ applied' = IF Contains(seen[n], m.push.sequence) THEN applied
                ELSE [applied EXCEPT ![n] = Append(@, m.push)]
  /\ UNCHANGED <<disk, next, task, issued, crashes, restarts, lost>>

serve_push_node(n, m) ==
  /\ m.to = n /\ Running(n)
  /\ seen' = [seen EXCEPT ![n] = insert(@, m.push.sequence)]
  /\ IF Contains(seen[n], m.push.sequence)
       THEN flight' = flight \ {m} /\ UNCHANGED applied
       ELSE /\ flight' = (flight \ {m}) \union Fanout(n, m.push)
            /\ applied' = [applied EXCEPT ![n] = Append(@, m.push)]
  /\ UNCHANGED <<disk, next, task, issued, crashes, restarts, lost>>

\* send_with_bookkeeping: a send that fails or times out is not repeated.
Lose(m) ==
  /\ lost < MaxLost
  /\ lost' = lost + 1
  /\ flight' = flight \ {m}
  /\ UNCHANGED <<disk, next, task, seen, issued, applied, crashes, restarts>>

\* The process of n dies: its sends and its receptions may be cut short, and
\* ClusterSync::new starts the next one with empty caches.
Die(n) ==
  /\ \E cut \in SUBSET {m \in flight : n \in {m.from, m.to}} : flight' = flight \ cut
  /\ seen' = [seen EXCEPT ![n] = <<>>]
  /\ applied' = [applied EXCEPT ![n] = <<>>]

Crash ==
  /\ next # 0
  /\ crashes < MaxCrash
  /\ crashes' = crashes + 1
  /\ next' = 0
  /\ task' = [t \in Task |-> Idle]
  /\ Die(Origin)
  /\ UNCHANGED <<disk, issued, restarts, lost>>

\* A peer's own counter is not modelled, so its crash and boot are one step.
Restart(p) ==
  /\ restarts < MaxRestart
  /\ restarts' = restarts + 1
  /\ Die(p)
  /\ UNCHANGED <<disk, next, task, issued, crashes, lost>>

Boot ==
  /\ next = 0
  /\ next' = load(disk)
  /\ UNCHANGED <<disk, task, seen, flight, issued, applied, crashes, restarts, lost>>

GossipNext ==
  \/ \E t \in Task : fetch_add(t) \/ persist(t) \/ broadcast_push(t)
  \/ \E m \in flight : (\E n \in Node : serve_push_node(n, m)) \/ Lose(m)
  \/ Crash
  \/ Boot
  \/ \E p \in Peer : Restart(p)

GossipSpec == GossipInit /\ [][GossipNext]_gossip

(***************************************************************************)
(* Tasks run to completion while the process lives, a push in flight       *)
(* arrives unless it is lost, and the origin is restarted.  One weak       *)
(* fairness covers them: between two new pushes and faults they can take   *)
(* finitely many steps.                                                    *)
(***************************************************************************)
Progress ==
  \/ \E t \in Task : persist(t) \/ broadcast_push(t)
  \/ \E m \in flight, n \in Node : serve_push_node(n, m)
  \/ Boot

GossipFairSpec == GossipSpec /\ WF_gossip(Progress)
-----------------------------------------------------------------------------
GossipTypeOK ==
  /\ disk \in 0..MaxSequence
  /\ next \in 0..(MaxSequence + 1)
  /\ task \in [Task -> [pc : {"idle", "taken", "saved"}, sequence : 0..MaxSequence]]
  /\ seen \in [Node -> Seq(1..MaxSequence)] /\ \A n \in Node : Len(seen[n]) <= Capacity
  /\ flight \subseteq [from : Node, to : Node, push : Push]
  /\ issued \subseteq Push
  /\ applied \in [Node -> Seq(Push)]

(***************************************************************************)
(* PersistedSequence (gossip.rs:34): "Each value is persisted *before* it   *)
(* is handed out, so a crash can only waste a sequence number, never reuse *)
(* one."  No two broadcasts carry the same sequence number.                *)
(***************************************************************************)
SequenceUnique ==
  \A a, b \in issued : a.sequence = b.sequence => a = b

(***************************************************************************)
(* A peer merges a push at most once, however many copies the forwarding   *)
(* brings, as long as no more pushes circulate than the cache holds.       *)
(***************************************************************************)
AppliedOnce ==
  \A n \in Peer : IsInjective(applied[n])

(***************************************************************************)
(* The "deduplication caches that keep long-lived clusters from cycling    *)
(* messages forever" (gossip.rs:2): when the origin issues nothing more,   *)
(* the forwarding dies out, also across losses and restarts.               *)
(***************************************************************************)
Quiesces == <>[](flight = {})

(***************************************************************************)
(* Unless a send is lost or a peer restarts, a push one peer merged is     *)
(* merged by every peer, whatever happens to the origin in the meantime:   *)
(* forwarding alone carries it, and no peer drops it as already seen.      *)
(***************************************************************************)
Faulty == lost > 0 \/ restarts > 0

Spread ==
  \A push \in Push :
    (\E n \in Peer : Contains(applied[n], push))
      => Faulty \/ \A n \in Peer : Contains(applied[n], push)

GossipSpreads == <>[]Spread
=============================================================================
