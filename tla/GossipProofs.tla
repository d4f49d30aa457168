---------------------------- MODULE GossipProofs ----------------------------
(***************************************************************************)
(* The gossip of module Gossip for every set of nodes, every choice of     *)
(* targets, every capacity and any number of pushes, losses and crashes.   *)
(*                                                                         *)
(* That a number is never reused rests on one invariant about the counter  *)
(* and its meta write (Counter).  It needs one dispatch task at a time and *)
(* meta writes that succeed; the run gossip_race shows the first need.     *)
(* That a push is merged once rests on the dedup set (Cached) and needs    *)
(* neither, only a capacity no smaller than the number of pushes.          *)
(***************************************************************************)
EXTENDS Gossip, FiniteSetTheorems, TLAPS

\* A push without the bound on its payload, which is the number of broadcasts.
AnyPush == [sequence : 1..MaxSequence, payload : Nat]

Message == [from : Node, to : Node, push : AnyPush]

Shape ==
  /\ disk \in 0..MaxSequence
  /\ next \in 0..(MaxSequence + 1)
  /\ task \in [Task -> [pc : {"idle", "taken", "saved"}, sequence : 0..MaxSequence]]
  /\ \A t \in Task : task[t].pc # "idle" => task[t].sequence # 0
  /\ seen \in [Node -> Seq(1..MaxSequence)]
  /\ \A n \in Node : Len(seen[n]) <= Capacity
  /\ flight \subseteq Message
  /\ issued \subseteq AnyPush /\ IsFiniteSet(issued)
  /\ applied \in [Node -> Seq(AnyPush)]

\* DedupSet::insert keeps a sequence of keys no longer than the capacity.
LEMMA InsertShape ==
  ASSUME NEW order \in Seq(1..MaxSequence), Len(order) <= Capacity,
         NEW key \in 1..MaxSequence
  PROVE  /\ insert(order, key) \in Seq(1..MaxSequence)
         /\ Len(insert(order, key)) <= Capacity
  <1>1. CASE Contains(order, key)
    BY <1>1 DEF insert
  <1>2. CASE ~ Contains(order, key)
    <2> DEFINE longer == Append(order, key)
    <2>1. longer \in Seq(1..MaxSequence) /\ Len(longer) = Len(order) + 1 /\ longer # << >>
      OBVIOUS
    <2> HIDE DEF longer
    <2>2. Tail(longer) \in Seq(1..MaxSequence) /\ Len(Tail(longer)) = Len(longer) - 1
      BY <2>1
    <2>3. insert(order, key) = IF Len(longer) > Capacity THEN Tail(longer) ELSE longer
      BY <1>2 DEF insert, longer
    <2>4. Len(order) \in Nat /\ Capacity \in Nat
      BY GossipAssumption DEF GossipAssumption
    <2>5. CASE Len(longer) > Capacity
      BY <2>1, <2>2, <2>3, <2>4, <2>5
    <2>6. CASE ~ (Len(longer) > Capacity)
      BY <2>1, <2>3, <2>4, <2>6
    <2> QED
      BY <2>5, <2>6
  <1> QED
    BY <1>1, <1>2

LEMMA ShapeInit == GossipInit => Shape
  <1>1. IsFiniteSet({})
    BY FS_EmptySet
  <1> QED
    BY <1>1, GossipAssumption DEF GossipAssumption, GossipInit, Shape, load, Idle

\* The copies a node sends on are messages to its targets.
LEMMA FanoutShape ==
  ASSUME NEW n \in Node, NEW p \in AnyPush
  PROVE  Fanout(n, p) \subseteq Message
  BY GossipAssumption DEF GossipAssumption, Fanout, Message

LEMMA ShapeNext ==
  ASSUME Shape, [GossipNext]_gossip
  PROVE  Shape'
  <1> USE GossipAssumption DEF GossipAssumption
  <1>1. ASSUME NEW t \in Task, fetch_add(t)
        PROVE  Shape'
    BY <1>1 DEF Shape, fetch_add
  <1>2. ASSUME NEW t \in Task, persist(t)
        PROVE  Shape'
    BY <1>2 DEF Shape, persist
  <1>3. ASSUME NEW t \in Task, broadcast_push(t)
        PROVE  Shape'
    <2> DEFINE p == [sequence |-> task[t].sequence, payload |-> Cardinality(issued) + 1]
    <2>1. p \in AnyPush
      BY <1>3, FS_CardinalityType DEF Shape, broadcast_push, AnyPush
    <2>2. /\ issued' = issued \union {p} /\ flight' = flight \union Fanout(Origin, p)
          /\ seen' = [seen EXCEPT ![Origin] = insert(seen[Origin], p.sequence)]
          /\ task' = [task EXCEPT ![t] = Idle]
          /\ UNCHANGED <<disk, next, applied>>
      BY <1>3 DEF broadcast_push
    <2>3. p.sequence \in 1..MaxSequence
      BY <2>1 DEF AnyPush
    <2> HIDE DEF p
    <2>4. Origin \in Node
      BY DEF Node
    <2>5. /\ insert(seen[Origin], p.sequence) \in Seq(1..MaxSequence)
          /\ Len(insert(seen[Origin], p.sequence)) <= Capacity
      BY <2>3, <2>4, InsertShape DEF Shape
    <2>6. seen' \in [Node -> Seq(1..MaxSequence)] /\ \A n \in Node : Len(seen'[n]) <= Capacity
      BY <2>2, <2>4, <2>5 DEF Shape
    <2>7. issued' \subseteq AnyPush /\ IsFiniteSet(issued')
      BY <2>1, <2>2, FS_AddElement DEF Shape
    <2>8. flight' \subseteq Message
      BY <2>1, <2>2, <2>4, FanoutShape DEF Shape
    <2>9. /\ task' \in [Task -> [pc : {"idle", "taken", "saved"}, sequence : 0..MaxSequence]]
          /\ \A u \in Task : task'[u].pc # "idle" => task'[u].sequence # 0
      BY <2>2 DEF Shape, Idle
    <2> QED
      BY <2>2, <2>6, <2>7, <2>8, <2>9 DEF Shape
  <1>4. ASSUME NEW m \in flight, NEW n \in Node, serve_push_node(n, m)
        PROVE  Shape'
    <2>1. m \in Message /\ m.push \in AnyPush /\ m.push.sequence \in 1..MaxSequence
      BY <1>4 DEF Shape, Message, AnyPush
    <2>2. /\ insert(seen[n], m.push.sequence) \in Seq(1..MaxSequence)
          /\ Len(insert(seen[n], m.push.sequence)) <= Capacity
      BY <2>1, InsertShape DEF Shape
    <2>3. seen' = [seen EXCEPT ![n] = insert(seen[n], m.push.sequence)]
      BY <1>4 DEF serve_push_node
    <2>4. seen' \in [Node -> Seq(1..MaxSequence)] /\ \A k \in Node : Len(seen'[k]) <= Capacity
      BY <2>2, <2>3 DEF Shape
    <2>5. flight' \subseteq Message
      BY <1>4, <2>1, FanoutShape DEF Shape, serve_push_node
    <2>6. applied' \in [Node -> Seq(AnyPush)]
      <3>1. applied[n] \in Seq(AnyPush)
        BY DEF Shape
      <3>2. Append(applied[n], m.push) \in Seq(AnyPush)
        BY <2>1, <3>1
      <3> QED
        BY <1>4, <3>2 DEF Shape, serve_push_node
    <2> QED
      BY <1>4, <2>4, <2>5, <2>6 DEF Shape, serve_push_node
  <1>5. ASSUME NEW m \in flight, Lose(m)
        PROVE  Shape'
    BY <1>5 DEF Shape, Lose
  <1>6. ASSUME NEW n \in Node, Die(n)
        PROVE  /\ seen' \in [Node -> Seq(1..MaxSequence)] /\ \A k \in Node : Len(seen'[k]) <= Capacity
               /\ flight' \subseteq flight
               /\ applied' \in [Node -> Seq(AnyPush)]
    BY <1>6 DEF Shape, Die
  <1>7. CASE Crash
    <2>1. Origin \in Node /\ Die(Origin)
      BY <1>7 DEF Crash, Node
    <2>2. task' \in [Task -> [pc : {"idle", "taken", "saved"}, sequence : 0..MaxSequence]]
      BY <1>7 DEF Crash, Idle
    <2>3. \A t \in Task : task'[t].pc # "idle" => task'[t].sequence # 0
      BY <1>7 DEF Crash, Idle
    <2>4. disk' \in 0..MaxSequence /\ next' \in 0..(MaxSequence + 1) /\ issued' = issued
      BY <1>7 DEF Crash, Shape
    <2> QED
      BY <1>6, <2>1, <2>2, <2>3, <2>4 DEF Shape
  <1>8. CASE Boot
    BY <1>8 DEF Shape, Boot, load
  <1>9. ASSUME NEW p \in Peer, Restart(p)
        PROVE  Shape'
    BY <1>6, <1>9 DEF Shape, Restart, Node
  <1>10. CASE UNCHANGED gossip
    BY <1>10 DEF Shape, gossip
  <1> QED
    BY <1>1, <1>2, <1>3, <1>4, <1>5, <1>7, <1>8, <1>9, <1>10 DEF GossipNext

\* Merged and travelling pushes are pushes the origin broadcast.
Sourced ==
  /\ \A m \in flight : m.push \in issued
  /\ applied \in [Node -> Seq(issued)]

LEMMA SourcedInit == GossipInit => Sourced
  BY DEF GossipInit, Sourced

LEMMA SourcedNext ==
  ASSUME Shape, Sourced, [GossipNext]_gossip
  PROVE  Sourced'
  <1>1. ASSUME NEW n, NEW p, NEW m \in Fanout(n, p)
        PROVE  m.push = p
    BY <1>1 DEF Fanout
  <1>2. ASSUME NEW t \in Task, broadcast_push(t)
        PROVE  Sourced'
    <2> DEFINE p == [sequence |-> task[t].sequence, payload |-> Cardinality(issued) + 1]
    <2>1. /\ issued' = issued \union {p} /\ flight' = flight \union Fanout(Origin, p)
          /\ applied' = applied
      BY <1>2 DEF broadcast_push
    <2> HIDE DEF p
    <2>2. \A m \in flight' : m.push \in issued'
      BY <1>1, <2>1 DEF Sourced
    <2>3. Seq(issued) \subseteq Seq(issued')
      BY <2>1
    <2> QED
      BY <2>1, <2>2, <2>3 DEF Sourced
  <1>3. ASSUME NEW m \in flight, NEW n \in Node, serve_push_node(n, m)
        PROVE  Sourced'
    <2>1. m.push \in issued /\ issued' = issued
      BY <1>3 DEF Sourced, serve_push_node
    <2>2. \A k \in flight' : k.push \in issued
      BY <1>1, <1>3, <2>1 DEF Sourced, serve_push_node
    <2>3. Append(applied[n], m.push) \in Seq(issued)
      BY <2>1 DEF Sourced
    <2>4. applied' \in [Node -> Seq(issued)]
      BY <1>3, <2>3 DEF Sourced, serve_push_node
    <2> QED
      BY <2>1, <2>2, <2>4 DEF Sourced
  <1>4. ASSUME NEW n \in Node, Die(n), issued' = issued
        PROVE  Sourced'
    BY <1>4 DEF Die, Sourced
  <1>5. CASE UNCHANGED <<flight, issued, applied>>
    BY <1>5 DEF Sourced
  <1>6. ASSUME NEW m \in flight, Lose(m)
        PROVE  Sourced'
    BY <1>6 DEF Lose, Sourced
  <1>7. ASSUME NEW t \in Task, fetch_add(t) \/ persist(t)
        PROVE  UNCHANGED <<flight, issued, applied>>
    BY <1>7 DEF fetch_add, persist
  <1>8. CASE Crash
    BY <1>4, <1>8 DEF Crash, Node
  <1>9. ASSUME NEW p \in Peer, Restart(p)
        PROVE  Sourced'
    BY <1>4, <1>9 DEF Restart, Node
  <1>10. Boot \/ UNCHANGED gossip => UNCHANGED <<flight, issued, applied>>
    BY DEF Boot, gossip
  <1> QED
    BY <1>2, <1>3, <1>5, <1>6, <1>7, <1>8, <1>9, <1>10 DEF GossipNext
-----------------------------------------------------------------------------
(* The counter.                                                            *)

\* One dispatch task at a time, and meta writes that succeed.
Serial == (\E t : Task = {t}) /\ ~ PersistMayFail

(***************************************************************************)
(* Every number broadcast is on disk, or below what is; a number taken and *)
(* not yet persisted lies above the disk, one persisted and not yet        *)
(* broadcast is the disk's and above all that were broadcast; and the next *)
(* number is above everything.                                             *)
(***************************************************************************)
Counter ==
  /\ \A a \in issued : a.sequence <= disk
  /\ \A t \in Task :
       /\ task[t].pc = "taken" => disk < task[t].sequence /\ next = task[t].sequence + 1
       /\ task[t].pc = "saved" => /\ disk = task[t].sequence /\ next = task[t].sequence + 1
                                  /\ \A a \in issued : a.sequence < disk
  /\ next # 0 => disk < next
  /\ SequenceUnique

LEMMA CounterInit == GossipInit => Counter
  BY DEF GossipInit, Counter, SequenceUnique, Idle, load

LEMMA CounterNext ==
  ASSUME Serial, Shape, Counter, [GossipNext]_gossip
  PROVE  Counter'
  <1> USE GossipAssumption DEF GossipAssumption
  <1> PICK only : Task = {only}
    BY DEF Serial
  <1>1. CASE fetch_add(only)
    BY <1>1 DEF fetch_add, Shape, Counter, SequenceUnique
  <1>2. CASE persist(only)
    <2>1. /\ task[only].pc = "taken" /\ disk' = task[only].sequence /\ issued' = issued /\ next' = next
          /\ task' = [task EXCEPT ![only].pc = "saved"]
      BY <1>2 DEF persist, Serial
    <2>2. task'[only].pc = "saved" /\ task'[only].sequence = task[only].sequence
      BY <2>1 DEF Shape
    <2>3. \A a \in issued : a.sequence \in Nat
      BY DEF Shape, AnyPush
    <2> QED
      BY <2>1, <2>2, <2>3 DEF Shape, Counter, SequenceUnique
  <1>3. CASE broadcast_push(only)
    <2> DEFINE p == [sequence |-> task[only].sequence, payload |-> Cardinality(issued) + 1]
    <2>1. /\ task[only].pc = "saved" /\ issued' = issued \union {p} /\ disk' = disk /\ next' = next
          /\ task' = [task EXCEPT ![only] = Idle] /\ p.sequence = task[only].sequence
      BY <1>3 DEF broadcast_push
    <2> HIDE DEF p
    <2>2. task'[only].pc = "idle"
      BY <2>1 DEF Shape, Idle
    <2>3. \A a \in issued : a.sequence \in Nat /\ a.sequence < disk
      BY <2>1 DEF Shape, AnyPush, Counter
    <2>4. SequenceUnique'
      BY <2>1, <2>3 DEF Counter, SequenceUnique, Shape
    <2> QED
      BY <2>1, <2>2, <2>3, <2>4 DEF Shape, Counter
  <1>4. CASE UNCHANGED <<disk, next, task, issued>>
    BY <1>4 DEF Counter, SequenceUnique
  <1>5. ASSUME NEW m \in flight, (\E n \in Node : serve_push_node(n, m)) \/ Lose(m)
        PROVE  UNCHANGED <<disk, next, task, issued>>
    BY <1>5 DEF serve_push_node, Lose
  <1>6. CASE Crash
    BY <1>6 DEF Crash, Idle, Counter, SequenceUnique
  <1>7. CASE Boot
    BY <1>7 DEF Boot, load, Shape, Counter, SequenceUnique
  <1>8. ASSUME NEW p \in Peer, Restart(p)
        PROVE  UNCHANGED <<disk, next, task, issued>>
    BY <1>8 DEF Restart
  <1> QED
    BY <1>1, <1>2, <1>3, <1>4, <1>5, <1>6, <1>7, <1>8 DEF GossipNext, gossip

\* Numbers broadcast below k are fewer than k.
LEMMA FewIssued ==
  ASSUME NEW S, NEW k \in Nat \ {0},
         \A a \in S : a.sequence \in 1..(k - 1),
         \A a, b \in S : a.sequence = b.sequence => a = b
  PROVE  IsFiniteSet(S) /\ Cardinality(S) \in Nat /\ Cardinality(S) + 1 <= k
  <1> DEFINE f == [a \in S |-> a.sequence]
  <1>1. f \in Injection(S, 1..(k - 1))
    BY DEF Injection, IsInjective
  <1>2. IsFiniteSet(1..(k - 1)) /\ Cardinality(1..(k - 1)) = k - 1
    BY FS_Interval
  <1>3. IsFiniteSet(S) /\ Cardinality(S) <= Cardinality(1..(k - 1))
    BY <1>1, <1>2, FS_Injection
  <1>4. Cardinality(S) \in Nat
    BY <1>3, FS_CardinalityType
  <1> QED
    BY <1>2, <1>3, <1>4

\* A broadcast's payload is within the bound of Push.
LEMMA IssuedNext ==
  ASSUME Serial, Shape, Counter, issued \subseteq Push, [GossipNext]_gossip
  PROVE  issued' \subseteq Push
  <1> USE GossipAssumption DEF GossipAssumption
  <1>1. ASSUME NEW t \in Task, broadcast_push(t)
        PROVE  issued' \subseteq Push
    <2> DEFINE k == task[t].sequence
    <2>1. k \in 1..MaxSequence /\ k = disk /\ \A a \in issued : a.sequence < disk
      BY <1>1 DEF broadcast_push, Shape, Counter
    <2>2. \A a \in issued : a.sequence \in 1..(k - 1)
      BY <2>1 DEF Shape, AnyPush
    <2>3. Cardinality(issued) \in Nat /\ Cardinality(issued) + 1 <= k
      BY <2>1, <2>2, FewIssued DEF Counter, SequenceUnique
    <2>4. Cardinality(Task) = 1
      BY FS_Singleton DEF Serial
    <2>5. [sequence |-> k, payload |-> Cardinality(issued) + 1] \in Push
      BY <2>1, <2>3, <2>4 DEF Push
    <2> QED
      BY <1>1, <2>5 DEF broadcast_push
  <1>2. ASSUME NEW t \in Task, fetch_add(t) \/ persist(t)
        PROVE  issued' = issued
    BY <1>2 DEF fetch_add, persist
  <1>3. ASSUME NEW m \in flight, (\E n \in Node : serve_push_node(n, m)) \/ Lose(m)
        PROVE  issued' = issued
    BY <1>3 DEF serve_push_node, Lose
  <1>4. ASSUME Crash \/ Boot \/ (\E p \in Peer : Restart(p)) \/ UNCHANGED gossip
        PROVE  issued' = issued
    BY <1>4 DEF Crash, Boot, Restart, gossip
  <1> QED
    BY <1>1, <1>2, <1>3, <1>4 DEF GossipNext

\* What a serial origin maintains.
SerialInv == Shape /\ Sourced /\ Counter /\ issued \subseteq Push

LEMMA SerialInvariant ==
  ASSUME Serial
  PROVE  GossipSpec => []SerialInv
  <1>1. GossipInit => SerialInv
    BY ShapeInit, SourcedInit, CounterInit DEF SerialInv, GossipInit
  <1>2. SerialInv /\ [GossipNext]_gossip => SerialInv'
    BY ShapeNext, SourcedNext, CounterNext, IssuedNext DEF SerialInv
  <1> QED
    BY <1>1, <1>2, PTL DEF GossipSpec

\* gossip.rs:34: a crash at any step wastes a sequence number and never reuses
\* one, whatever is lost and however often the origin restarts (load, next).
THEOREM SequenceUniqueTheorem ==
  ASSUME Serial
  PROVE  GossipSpec => []SequenceUnique
  <1>1. SerialInv => SequenceUnique
    BY DEF SerialInv, Counter
  <1> QED
    BY <1>1, SerialInvariant, PTL

\* The counter, the caches and the messages keep their types; the dedup set
\* never exceeds its capacity (DedupSet::insert).
THEOREM TypeOKTheorem ==
  ASSUME Serial
  PROVE  GossipSpec => []GossipTypeOK
  <1>1. SerialInv => GossipTypeOK
    <2> SUFFICES ASSUME SerialInv
                 PROVE  GossipTypeOK
      OBVIOUS
    <2>1. flight \subseteq [from : Node, to : Node, push : Push]
      BY DEF SerialInv, Shape, Sourced, Message
    <2>2. Seq(issued) \subseteq Seq(Push)
      BY DEF SerialInv
    <2>3. applied \in [Node -> Seq(Push)]
      BY <2>2 DEF SerialInv, Sourced
    <2> QED
      BY <2>1, <2>3 DEF SerialInv, Shape, GossipTypeOK
  <1> QED
    BY <1>1, SerialInvariant, PTL
-----------------------------------------------------------------------------
(* The dedup set.                                                          *)

\* The set is a set, and everything merged since the process started is in it.
Cached ==
  \A n \in Node :
    /\ IsInjective(seen[n])
    /\ IsInjective(applied[n])
    /\ \A i \in 1..Len(applied[n]) : Contains(seen[n], applied[n][i].sequence)

\* An injective sequence over 1..k is no longer than k.
LEMMA ShortInjective ==
  ASSUME NEW k \in Nat, NEW s \in Seq(1..k), IsInjective(s)
  PROVE  Len(s) <= k
  <1>1. Len(s) \in Nat /\ s \in [1..Len(s) -> 1..k]
    OBVIOUS
  <1>2. s \in Injection(1..Len(s), 1..k)
    BY <1>1 DEF Injection
  <1>3. IsFiniteSet(1..k) /\ Cardinality(1..k) = k
    BY FS_Interval
  <1>4. \A n \in Nat : Cardinality(1..n) = n
    BY FS_Interval
  <1>5. Cardinality(1..Len(s)) <= Cardinality(1..k)
    BY <1>2, <1>3, FS_Injection
  <1> QED
    BY <1>1, <1>3, <1>4, <1>5

\* With room for every number DedupSet::insert evicts nothing.
LEMMA InsertKeeps ==
  ASSUME MaxSequence <= Capacity,
         NEW order \in Seq(1..MaxSequence), IsInjective(order), NEW key \in 1..MaxSequence
  PROVE  /\ IsInjective(insert(order, key))
         /\ Contains(insert(order, key), key)
         /\ \A x : Contains(order, x) => Contains(insert(order, key), x)
  <1>1. CASE Contains(order, key)
    BY <1>1 DEF insert
  <1>2. CASE ~ Contains(order, key)
    <2> DEFINE longer == Append(order, key)
    <2>1. /\ longer \in Seq(1..MaxSequence) /\ Len(longer) = Len(order) + 1
          /\ longer[Len(order) + 1] = key /\ \A i \in 1..Len(order) : longer[i] = order[i]
          /\ Len(order) \in Nat /\ DOMAIN longer = 1..(Len(order) + 1) /\ DOMAIN order = 1..Len(order)
      OBVIOUS
    <2> HIDE DEF longer
    <2>2. IsInjective(longer)
      <3> SUFFICES ASSUME NEW i \in 1..(Len(order) + 1), NEW j \in 1..(Len(order) + 1),
                          longer[i] = longer[j]
                   PROVE  i = j
        BY <2>1 DEF IsInjective
      <3>1. CASE i = Len(order) + 1 \/ j = Len(order) + 1
        BY <1>2, <2>1, <3>1 DEF Contains
      <3>2. CASE i \in 1..Len(order) /\ j \in 1..Len(order)
        BY <2>1, <3>2 DEF IsInjective
      <3> QED
        BY <2>1, <3>1, <3>2
    <2>3. Len(longer) <= MaxSequence
      BY <2>1, <2>2, ShortInjective, GossipAssumption DEF GossipAssumption
    <2>4. ~ (Len(longer) > Capacity)
      BY <2>1, <2>3, GossipAssumption DEF GossipAssumption
    <2>5. insert(order, key) = longer
      BY <1>2, <2>4 DEF insert, longer
    <2> QED
      BY <2>1, <2>2, <2>5 DEF Contains
  <1> QED
    BY <1>1, <1>2

LEMMA CachedInit == GossipInit => Cached
  BY DEF GossipInit, Cached, IsInjective

LEMMA CachedNext ==
  ASSUME MaxSequence <= Capacity, Shape, Cached, [GossipNext]_gossip
  PROVE  Cached'
  <1>1. ASSUME NEW t \in Task, broadcast_push(t)
        PROVE  Cached'
    <2> DEFINE k == task[t].sequence
    <2>1. k \in 1..MaxSequence /\ Origin \in Node /\ seen[Origin] \in Seq(1..MaxSequence)
      BY <1>1, GossipAssumption DEF broadcast_push, Shape, GossipAssumption, Node
    <2>2. seen' = [seen EXCEPT ![Origin] = insert(seen[Origin], k)] /\ applied' = applied
      BY <1>1 DEF broadcast_push
    <2>3. /\ IsInjective(insert(seen[Origin], k))
          /\ \A x : Contains(seen[Origin], x) => Contains(insert(seen[Origin], k), x)
      BY <2>1, InsertKeeps DEF Cached
    <2>4. \A n \in Node : seen'[n] = IF n = Origin THEN insert(seen[Origin], k) ELSE seen[n]
      BY <2>1, <2>2 DEF Shape
    <2> QED
      BY <2>2, <2>3, <2>4 DEF Cached
  <1>2. ASSUME NEW m \in flight, NEW n \in Node, serve_push_node(n, m)
        PROVE  Cached'
    <2> DEFINE k == m.push.sequence
               now == insert(seen[n], k)
    <2>1. k \in 1..MaxSequence /\ seen[n] \in Seq(1..MaxSequence)
      BY <1>2 DEF Shape, Message, AnyPush
    <2>2. /\ IsInjective(now) /\ Contains(now, k)
          /\ \A x : Contains(seen[n], x) => Contains(now, x)
      BY <2>1, InsertKeeps DEF Cached
    <2>3. seen' = [seen EXCEPT ![n] = now]
      BY <1>2 DEF serve_push_node
    <2>4. \A p \in Node : seen'[p] = IF p = n THEN now ELSE seen[p]
      BY <2>3 DEF Shape
    <2> HIDE DEF now
    <2>5. CASE Contains(seen[n], k)
      <3>1. applied' = applied
        BY <1>2, <2>5 DEF serve_push_node
      <3> QED
        BY <2>2, <2>4, <3>1 DEF Cached
    <2>6. CASE ~ Contains(seen[n], k)
      <3> DEFINE old == applied[n]
                 new == Append(old, m.push)
      <3>1. applied' = [applied EXCEPT ![n] = new]
        BY <1>2, <2>6 DEF serve_push_node
      <3>2. \A p \in Node : applied'[p] = IF p = n THEN new ELSE applied[p]
        BY <3>1 DEF Shape
      <3>3. old \in Seq(AnyPush) /\ m.push \in AnyPush
        BY DEF Shape, Message
      <3>4. /\ new \in Seq(AnyPush) /\ Len(new) = Len(old) + 1 /\ Len(old) \in Nat
            /\ new[Len(old) + 1] = m.push /\ \A i \in 1..Len(old) : new[i] = old[i]
            /\ DOMAIN new = 1..(Len(old) + 1) /\ DOMAIN old = 1..Len(old)
        BY <3>3
      <3>5. \A i \in 1..Len(old) : old[i] # m.push
        BY <2>6 DEF Cached
      <3>6. IsInjective(old) /\ \A i \in 1..Len(old) : Contains(seen[n], old[i].sequence)
        BY DEF Cached
      <3> HIDE DEF old, new
      <3>7. IsInjective(new)
        <4> SUFFICES ASSUME NEW i \in 1..(Len(old) + 1), NEW j \in 1..(Len(old) + 1), new[i] = new[j]
                     PROVE  i = j
          BY <3>4 DEF IsInjective
        <4>1. CASE i = Len(old) + 1 \/ j = Len(old) + 1
          BY <3>4, <3>5, <4>1
        <4>2. CASE i \in 1..Len(old) /\ j \in 1..Len(old)
          BY <3>4, <3>6, <4>2 DEF IsInjective
        <4> QED
          BY <3>4, <4>1, <4>2
      <3>8. \A i \in 1..Len(new) : Contains(now, new[i].sequence)
        <4> SUFFICES ASSUME NEW i \in 1..(Len(old) + 1)
                     PROVE  Contains(now, new[i].sequence)
          BY <3>4
        <4>1. CASE i = Len(old) + 1
          BY <2>2, <3>4, <4>1
        <4>2. CASE i \in 1..Len(old)
          BY <2>2, <3>4, <3>6, <4>2
        <4> QED
          BY <3>4, <4>1, <4>2
      <3> QED
        BY <2>2, <2>4, <3>2, <3>7, <3>8 DEF Cached
    <2> QED
      BY <2>5, <2>6
  <1>3. ASSUME NEW n \in Node, Die(n)
        PROVE  Cached'
    <2>1. \A p \in Node : /\ seen'[p] = IF p = n THEN << >> ELSE seen[p]
                          /\ applied'[p] = IF p = n THEN << >> ELSE applied[p]
      BY <1>3 DEF Die, Shape
    <2> QED
      BY <2>1 DEF Cached, IsInjective
  <1>4. CASE UNCHANGED <<seen, applied>>
    BY <1>4 DEF Cached
  <1>5. ASSUME NEW t \in Task, fetch_add(t) \/ persist(t)
        PROVE  UNCHANGED <<seen, applied>>
    BY <1>5 DEF fetch_add, persist
  <1>6. ASSUME NEW m \in flight, Lose(m)
        PROVE  UNCHANGED <<seen, applied>>
    BY <1>6 DEF Lose
  <1>7. CASE Crash
    BY <1>3, <1>7 DEF Crash, Node
  <1>8. ASSUME NEW p \in Peer, Restart(p)
        PROVE  Cached'
    BY <1>3, <1>8 DEF Restart, Node
  <1>9. Boot \/ UNCHANGED gossip => UNCHANGED <<seen, applied>>
    BY DEF Boot, gossip
  <1> QED
    BY <1>1, <1>2, <1>4, <1>5, <1>6, <1>7, <1>8, <1>9 DEF GossipNext

\* A node merges a push at most once between two restarts, whatever copies the
\* forwarding brings and however many dispatch tasks there are, when the dedup
\* set has room for the pushes that circulate (DedupSet::insert).
THEOREM AppliedOnceTheorem ==
  ASSUME MaxSequence <= Capacity
  PROVE  GossipSpec => []AppliedOnce
  <1>1. GossipInit => Shape /\ Cached
    BY ShapeInit, CachedInit
  <1>2. Shape /\ Cached /\ [GossipNext]_gossip => Shape' /\ Cached'
    BY ShapeNext, CachedNext
  <1>3. Cached => AppliedOnce
    BY DEF Cached, AppliedOnce, Node
  <1> QED
    BY <1>1, <1>2, <1>3, PTL DEF GossipSpec
=============================================================================
