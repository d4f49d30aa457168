----------------------------- MODULE SwimProofs -----------------------------
(***************************************************************************)
(* Proofs about the replication of one member's register: incarnations are *)
(* durable before anybody can hold them, so a restart or a refutation      *)
(* always dominates; only the owner publishes Active registers; no handler *)
(* takes a view backwards.  All for any set of peers and any bounds.       *)
(***************************************************************************)
EXTENDS Swim, RegisterProofs

(***************************************************************************)
(* What is known of every register anywhere: its incarnation is durable,   *)
(* and if it is Active at the owner's incarnation, the owner published it. *)
(***************************************************************************)
Sound(r) ==
  /\ 1 <= r.incarnation /\ r.incarnation <= disk
  /\ view[Owner] # None /\ r.state = "Active"
     /\ r.incarnation = view[Owner].incarnation =>
       /\ r.heartbeat <= view[Owner].heartbeat
       /\ r.address = view[Owner].address

OwnerDurable ==
  view[Owner] # None =>
    /\ view[Owner].incarnation = disk
    /\ saved = disk
    /\ view[Owner].state \in {"Active", "Leaving"}

SInv ==
  /\ TypeOK
  /\ disk <= MaxIncarnation
  /\ OwnerDurable
  /\ \A r \in Registers : Sound(r)
  /\ \A i \in Rumoured : i <= disk \/ i = 1

\* How a step may move the owner's incarnation: it may only start the one
\* after the durable one.
OwnerStep ==
  \/ view'[Owner] = None
  \/ view[Owner] # None /\ view'[Owner].incarnation = view[Owner].incarnation
  \/ view'[Owner].incarnation = disk + 1
-----------------------------------------------------------------------------
(* Messages and registers.                                                 *)

\* The constants the code writes are in range.
LEMMA OneIsU64 ==
  0 \in U64 /\ 1 \in U64
  BY SwimAssumption, U64MaxAssumption DEF U64

\* Initially no node knows the member.
LEMMA InitType ==
  Init => TypeOK
  <1> SUFFICES ASSUME Init PROVE TypeOK
    OBVIOUS
  <1>1. [n \in Node |-> {}] \in [Node -> SUBSET Message]
    OBVIOUS
  <1> QED
    BY <1>1, OneIsU64 DEF Init, TypeOK

\* What the type of a message says about its fields.
LEMMA MessageFacts ==
  ASSUME NEW m \in Message
  PROVE  /\ m.type \in {"Alive", "Suspect", "Leave"}
         /\ m.type = "Alive" => m.register \in MemberRegister
         /\ m.type # "Alive" => m.incarnation \in U64 /\ m.incarnation \in Nat
  <1>1. U64 \subseteq Nat
    BY DEF U64
  <1> QED
    BY <1>1 DEF Message

\* Membership in the derived sets of registers and rumoured incarnations.
LEMMA RegistersFacts ==
  /\ \A n \in Node : view[n] # None => view[n] \in Registers
  /\ \A n \in Node : \A m \in inbox[n] : m.type = "Alive" => m.register \in Registers
  /\ \A n \in Node : \A m \in inbox[n] : m.type # "Alive" => m.incarnation \in Rumoured
  /\ \A r \in Registers :
       \/ \E n \in Node : view[n] # None /\ r = view[n]
       \/ \E n \in Node : \E m \in inbox[n] : m.type = "Alive" /\ r = m.register
  /\ \A i \in Rumoured :
       \E n \in Node : \E m \in inbox[n] : m.type # "Alive" /\ i = m.incarnation
  BY DEF Registers, Rumoured

\* The same in the next state.
LEMMA RegistersFactsNext ==
  /\ \A r \in Registers' :
       \/ \E n \in Node : view'[n] # None /\ r = view'[n]
       \/ \E n \in Node : \E m \in inbox'[n] : m.type = "Alive" /\ r = m.register
  /\ \A i \in Rumoured' :
       \E n \in Node : \E m \in inbox'[n] : m.type # "Alive" /\ i = m.incarnation
  BY DEF Registers, Rumoured

\* A handler result as Apply takes it.
Result == [register : MemberRegister \union {None}, out : SUBSET Message]

\* Applying a result adds nothing but its register and its messages.
LEMMA ApplyFacts ==
  ASSUME TypeOK, NEW n \in Node, NEW box \in [Node -> SUBSET Message],
         \A k \in Node : box[k] \subseteq inbox[k],
         NEW h \in Result, Apply(n, box, h)
  PROVE  /\ view' = [view EXCEPT ![n] = h.register]
         /\ \A k \in Node : inbox'[k] \subseteq inbox[k] \union h.out
         /\ \A r \in Registers' : \/ r \in Registers
                                  \/ r = h.register /\ h.register # None
                                  \/ \E m \in h.out : m.type = "Alive" /\ r = m.register
         /\ \A i \in Rumoured' : \/ i \in Rumoured
                                 \/ \E m \in h.out : m.type # "Alive" /\ i = m.incarnation
         /\ events \in Nat /\ events' \in Nat => TypeOK'
  <1>1. view' = [view EXCEPT ![n] = h.register]
    BY DEF Apply
  <1>2. inbox' = [k \in Node |->
                    IF k # n /\ Cardinality(box[k] \union h.out) <= MaxInbox
                      THEN box[k] \union h.out ELSE box[k]]
    BY DEF Apply, SentTo
  <1>3. \A k \in Node : inbox'[k] \subseteq inbox[k] \union h.out
    BY <1>2
  <1>4. \A k \in Node : view'[k] = view[k] \/ view'[k] = h.register
    BY <1>1 DEF TypeOK, U64
  <1>5. \A r \in Registers' : \/ r \in Registers
                              \/ r = h.register /\ h.register # None
                              \/ \E m \in h.out : m.type = "Alive" /\ r = m.register
    <2> TAKE r \in Registers'
    <2>1. CASE \E k \in Node : view'[k] # None /\ r = view'[k]
      BY <2>1, <1>4, RegistersFacts
    <2>2. CASE \E k \in Node : \E m \in inbox'[k] : m.type = "Alive" /\ r = m.register
      BY <2>2, <1>3, RegistersFacts
    <2> QED
      BY <2>1, <2>2, RegistersFactsNext
  <1>6. \A i \in Rumoured' : \/ i \in Rumoured
                             \/ \E m \in h.out : m.type # "Alive" /\ i = m.incarnation
    BY <1>3, RegistersFacts, RegistersFactsNext
  <1>7. events \in Nat /\ events' \in Nat => TypeOK'
    <2>1. view' \in [Node -> MemberRegister \union {None}]
      BY <1>1 DEF TypeOK, Result, U64
    <2>2. disk' \in U64 /\ saved' \in U64
      <3>1. CASE UNCHANGED <<disk, saved>>
        BY <3>1 DEF TypeOK, U64
      <3>2. CASE h.register # None /\ disk' = h.register.incarnation
                 /\ saved' = h.register.incarnation
        BY <3>2 DEF Result, MemberRegister, U64
      <3> QED
        BY <3>1, <3>2 DEF Apply, persist_local_incarnation
    <2>3. inbox' \in [Node -> SUBSET Message]
      BY <1>2 DEF Result
    <2>4. seen' \in [Node -> SUBSET Message]
      BY DEF Apply, TypeOK, Result, U64
    <2> QED
      BY <2>1, <2>2, <2>3, <2>4 DEF TypeOK, U64
  <1> QED
    BY <1>1, <1>3, <1>5, <1>6, <1>7
-----------------------------------------------------------------------------
(* The four ways a step touches the invariant.                             *)

\* The owner's entry stands; what is new elsewhere is sound.
LEMMA OwnerStands ==
  ASSUME SInv, TypeOK', UNCHANGED <<disk, saved>>, view'[Owner] = view[Owner],
         \A r \in Registers' : r \in Registers \/ Sound(r),
         \A i \in Rumoured' : i \in Rumoured \/ i <= disk \/ i = 1
  PROVE  SInv' /\ OwnerStep
  <1>1. \A r \in Registers' : Sound(r)
    BY DEF SInv
  <1>2. (\A r \in Registers : Sound(r))'
    BY <1>1 DEF Sound
  <1> QED
    BY <1>2 DEF SInv, OwnerDurable, OwnerStep

\* The owner updates its entry within the incarnation.
LEMMA OwnerKeeps ==
  ASSUME SInv, TypeOK', UNCHANGED <<disk, saved>>,
         view[Owner] # None, view'[Owner] \in MemberRegister,
         view'[Owner].incarnation = view[Owner].incarnation,
         view'[Owner].state \in {"Active", "Leaving"},
         view'[Owner].heartbeat >= view[Owner].heartbeat,
         view'[Owner].address = view[Owner].address,
         \A r \in Registers' : r \in Registers \/ r = view'[Owner],
         \A i \in Rumoured' : i \in Rumoured \/ i = disk
  PROVE  SInv' /\ OwnerStep
  <1>1. Owner \in Node /\ view[Owner] \in MemberRegister
    BY DEF Node, SInv, TypeOK, U64
  <1>2. Sound(view[Owner])
    BY <1>1, RegistersFacts DEF SInv
  <1>3. \A r \in Registers' : Sound(r)'
    <2> TAKE r \in Registers'
    <2>1. CASE r = view'[Owner]
      BY <2>1, <1>1, <1>2 DEF Sound, MemberRegister, U64
    <2>2. CASE r \in Registers
      <3>1. Sound(r) /\ r \in MemberRegister
        BY <2>2, RegistersFacts, MessageFacts DEF SInv, TypeOK, U64
      <3> QED
        BY <1>1, <3>1 DEF Sound, MemberRegister, U64
    <2> QED
      BY <2>1, <2>2
  <1> QED
    BY <1>3 DEF SInv, OwnerDurable, TypeOK, OwnerStep, U64

\* The owner starts a new, durable incarnation.
LEMMA OwnerFresh ==
  ASSUME SInv, TypeOK', view'[Owner] \in MemberRegister,
         view'[Owner].incarnation = disk + 1, disk' = disk + 1, saved' = disk + 1,
         disk + 1 <= MaxIncarnation, view'[Owner].state = "Active",
         \A r \in Registers' : r \in Registers \/ r = view'[Owner],
         \A i \in Rumoured' : i \in Rumoured
  PROVE  SInv' /\ OwnerStep
  <1>1. disk \in Nat
    BY DEF SInv, TypeOK, U64
  <1>2. \A r \in Registers' : Sound(r)'
    <2> TAKE r \in Registers'
    <2>1. CASE r = view'[Owner]
      BY <2>1, <1>1 DEF Sound, MemberRegister, U64
    <2>2. CASE r \in Registers
      <3>1. Sound(r) /\ r \in MemberRegister
        BY <2>2, RegistersFacts, MessageFacts DEF SInv, TypeOK, U64
      <3> QED
        BY <1>1, <3>1 DEF Sound, MemberRegister, U64
    <2> QED
      BY <2>1, <2>2
  <1>3. \A i \in Rumoured' : i <= disk' \/ i = 1
    <2>1. \A i \in Rumoured : i \in Nat
      BY RegistersFacts, MessageFacts DEF SInv, TypeOK, U64
    <2> QED
      BY <1>1, <2>1 DEF SInv
  <1> QED
    BY <1>2, <1>3 DEF SInv, OwnerDurable, OwnerStep

\* A process goes down, or loses its view, and nothing else appears.
LEMMA NodeDown ==
  ASSUME SInv, TypeOK', UNCHANGED <<disk, saved, inbox>>,
         NEW n \in Node, view' = [view EXCEPT ![n] = None]
  PROVE  SInv' /\ OwnerStep
  <1>1. \A k \in Node : view'[k] = view[k] \/ view'[k] = None
    BY DEF SInv, TypeOK, U64
  <1>2. \A r \in Registers' : r \in Registers
    BY <1>1, RegistersFacts, RegistersFactsNext
  <1>3. \A i \in Rumoured' : i \in Rumoured
    BY RegistersFacts, RegistersFactsNext
  <1>4. Owner \in Node
    BY DEF Node
  <1>5. \A r \in Registers' : Sound(r)'
    BY <1>1, <1>2, <1>4 DEF SInv, Sound
  <1> QED
    BY <1>1, <1>3, <1>4, <1>5 DEF SInv, OwnerDurable, OwnerStep
-----------------------------------------------------------------------------
(* The handlers.                                                           *)

\* Merging sound registers gives a sound register.
LEMMA MergeSound ==
  ASSUME NEW a \in MemberRegister, NEW b \in MemberRegister, Sound(a), Sound(b)
  PROVE  merge(a, b) \in MemberRegister /\ Sound(merge(a, b))
  <1>1. merge(a, b) \in MemberRegister
    BY MergeType
  <1>2. CASE dominates(b, a) \/ dominates(a, b)
    BY <1>1, <1>2 DEF merge
  <1>3. CASE SameKey(a, b)
    <2>1. /\ SameKey(merge(a, b), a)
          /\ merge(a, b).address = larger(a.address, b.address)
      BY <1>3, MergeSameKey
    <2>2. merge(a, b).address = a.address \/ merge(a, b).address = b.address
      BY <2>1 DEF larger
    <2> QED
      BY <1>1, <1>3, <2>1, <2>2 DEF Sound, SameKey
  <1> QED
    BY <1>2, <1>3, TotalOrder

\* A register re-stamped with a rumour's incarnation and then suspected or
\* marked leaving is sound: it is never Active.
LEMMA RestampedSound ==
  ASSUME SInv, NEW a \in MemberRegister, Sound(a),
         NEW i \in U64, a.incarnation <= i, i <= disk \/ i = 1
  PROVE  /\ suspect([a EXCEPT !.incarnation = i]) \in MemberRegister
         /\ Sound(suspect([a EXCEPT !.incarnation = i]))
         /\ leave([a EXCEPT !.incarnation = i]) \in MemberRegister
         /\ Sound(leave([a EXCEPT !.incarnation = i]))
  <1> DEFINE b == [a EXCEPT !.incarnation = i]
  <1>1. /\ b \in MemberRegister
        /\ b.incarnation = i
    BY DEF MemberRegister
  <1>2. disk \in Nat /\ 1 <= i /\ i <= disk
    BY DEF SInv, TypeOK, Sound, MemberRegister, U64
  <1> HIDE DEF b
  <1>3. suspect(b) \in MemberRegister /\ leave(b) \in MemberRegister
    BY <1>1, MutationsClimb
  <1>4. /\ suspect(b).incarnation = i /\ suspect(b).state # "Active"
        /\ leave(b).incarnation = i /\ leave(b).state # "Active"
    BY <1>1 DEF suspect, leave, MemberRegister, U64
  <1> QED
    BY <1>2, <1>3, <1>4 DEF Sound, b

\* A peer's handler broadcasts nothing and leaves it a sound entry.
LEMMA PeerHandler ==
  ASSUME SInv, NEW p \in Peer, NEW m \in inbox[p]
  PROVE  /\ on_message(p, m).out = {}
         /\ on_message(p, m) \in Result
         /\ \/ on_message(p, m).register = view[p]
            \/ /\ on_message(p, m).register \in MemberRegister
               /\ Sound(on_message(p, m).register)
  <1> DEFINE v == view[p]
  <1>1. /\ p \in Node /\ p # Owner
        /\ m \in Message
        /\ v \in MemberRegister \union {None}
    BY SwimAssumption DEF Node, SInv, TypeOK, U64
  <1>2. v # None => v \in MemberRegister /\ Sound(v)
    BY <1>1, RegistersFacts DEF SInv
  <1>3. CASE m.type = "Alive"
    <2>1. m.register \in MemberRegister /\ Sound(m.register)
      BY <1>1, <1>3, MessageFacts, RegistersFacts DEF SInv
    <2>2. on_message(p, m) = Quiet(IF v = None THEN m.register ELSE merge(v, m.register))
      BY <1>1, <1>3 DEF on_message, handle_alive_state
    <2> QED
      BY <1>2, <2>1, <2>2, MergeSound DEF Quiet, Result
  <1>4. CASE m.type \in {"Suspect", "Leave"}
    <2>1. /\ m.incarnation \in U64 /\ m.incarnation \in Nat
          /\ m.incarnation <= disk \/ m.incarnation = 1
      BY <1>1, <1>4, MessageFacts, RegistersFacts DEF SInv
    <2>2. CASE v = None \/ v.incarnation > m.incarnation
      <3>1. on_message(p, m) = Quiet(v)
        BY <1>1, <1>4, <2>2 DEF on_message, handle_suspect_state, handle_leave_state
      <3> QED
        BY <1>1, <3>1 DEF Quiet, Result
    <2>3. CASE v # None /\ ~ (v.incarnation > m.incarnation)
      <3>1. v.incarnation <= m.incarnation
        BY <1>2, <2>1, <2>3 DEF MemberRegister, U64
      <3>2. \E f \in MemberRegister : Sound(f) /\ on_message(p, m) = Quiet(merge(v, f))
        BY <1>1, <1>2, <1>4, <2>1, <2>3, <3>1, RestampedSound
           DEF on_message, handle_suspect_state, handle_leave_state
      <3> QED
        BY <1>2, <2>3, <3>2, MergeSound DEF Quiet, Result
    <2> QED
      BY <2>2, <2>3
  <1> QED
    BY <1>1, <1>3, <1>4, MessageFacts

\* The owner's handler keeps its entry or refutes.
LEMMA OwnerHandler ==
  ASSUME SInv, view[Owner] # None, NEW m \in inbox[Owner]
  PROVE  \/ on_message(Owner, m) = Quiet(view[Owner])
         \/ on_message(Owner, m) = refute_and_broadcast(view[Owner])
  <1>1. m \in Message
    BY DEF SInv, TypeOK, Node, U64
  <1> QED
    BY <1>1, MessageFacts
       DEF on_message, handle_alive_state, refute_if_dominated,
           handle_suspect_state, handle_leave_state

\* What refuting produces.
LEMMA RefuteFacts ==
  ASSUME NEW a \in MemberRegister, refute(a).incarnation <= MaxIncarnation
  PROVE  /\ refute(a) \in MemberRegister
         /\ refute(a).incarnation = a.incarnation + 1
         /\ refute(a).state = "Active"
  <1>1. /\ refute(a) \in MemberRegister
        /\ refute(a).incarnation = saturating_inc(a.incarnation)
        /\ refute(a).state = "Active"
    BY MutationsClimb DEF refute, MemberRegister, U64
  <1>2. a.incarnation \in Nat
    BY DEF MemberRegister, U64
  <1> QED
    BY <1>1, <1>2, SwimAssumption, U64MaxAssumption DEF saturating_inc, U64

\* Handling a message preserves the invariant, at the owner and at a peer.
LEMMA HandlerInv ==
  ASSUME PersistMayFail = FALSE, SInv, NEW n \in Node, NEW m \in inbox[n], Running(n),
         NEW h, h = on_message(n, m) \/ h = Quiet(view[n]),
         Apply(n, Taken(n, m), h), UNCHANGED events
  PROVE  SInv' /\ OwnerStep
  <1> DEFINE box == Taken(n, m)
  <1>1. /\ TypeOK /\ events \in Nat /\ events' \in Nat
        /\ box \in [Node -> SUBSET Message]
        /\ \A k \in Node : box[k] \subseteq inbox[k]
    BY DEF Taken, SInv, TypeOK, U64
  <1> HIDE DEF box
  <1>2. CASE n = Owner
    <2>1. /\ view[Owner] \in MemberRegister /\ view[Owner] # None
          /\ view[Owner].incarnation = disk /\ saved = disk
          /\ view[Owner].state \in {"Active", "Leaving"}
      BY <1>2 DEF Running, SInv, TypeOK, OwnerDurable, U64
    <2>2. CASE h = Quiet(view[Owner])
      <3>1. h \in Result /\ h.register = view[Owner] /\ h.out = {}
        BY <2>1, <2>2 DEF Quiet, Result
      <3>2. /\ view' = [view EXCEPT ![Owner] = view[Owner]]
            /\ \A r \in Registers' : r \in Registers
            /\ \A i \in Rumoured' : i \in Rumoured
            /\ TypeOK'
        BY <1>1, <1>2, <2>1, <3>1, ApplyFacts, RegistersFacts DEF box
      <3>3. UNCHANGED <<disk, saved>>
        BY <1>2, <2>1, <3>1 DEF Apply, persist_local_incarnation
      <3>4. view'[Owner] = view[Owner]
        BY <3>2 DEF SInv, TypeOK, U64
      <3> QED
        BY <3>2, <3>3, <3>4, OwnerStands
    <2>3. CASE h = refute_and_broadcast(view[Owner])
      <3> DEFINE f == refute(view[Owner])
      <3>1. h.register = f /\ h.out = {Alive(f)}
        BY <2>3 DEF refute_and_broadcast
      <3>2. f \in MemberRegister /\ f # None
        BY <2>1, MutationsClimb, SwimAssumption
      <3>3. f.incarnation <= MaxIncarnation
        BY <3>1, <3>2 DEF Apply
      <3>4. f.incarnation = disk + 1 /\ f.state = "Active"
        BY <2>1, <3>3, RefuteFacts
      <3> HIDE DEF f
      <3>5. h \in Result
        BY <2>3, <3>1, <3>2 DEF Result, Message, Alive, refute_and_broadcast, f
      <3>6. /\ view' = [view EXCEPT ![Owner] = f]
            /\ \A r \in Registers' : r \in Registers \/ r = f
            /\ \A i \in Rumoured' : i \in Rumoured
            /\ TypeOK'
        BY <1>1, <1>2, <3>1, <3>5, ApplyFacts DEF box, Alive
      <3>7. disk \in Nat
        BY DEF SInv, TypeOK, U64
      <3>8. disk' = disk + 1 /\ saved' = disk + 1
        BY <1>2, <2>1, <3>1, <3>2, <3>4, <3>7 DEF Apply, persist_local_incarnation
      <3>9. view'[Owner] = f
        BY <1>2, <3>6 DEF SInv, TypeOK, U64
      <3> QED
        BY <3>2, <3>3, <3>4, <3>6, <3>8, <3>9, OwnerFresh
    <2> QED
      BY <1>2, <2>1, <2>2, <2>3, OwnerHandler
  <1>3. CASE n # Owner
    <2>1. n \in Peer
      BY <1>3 DEF Node
    <2>2. /\ h \in Result /\ h.out = {}
          /\ h.register = view[n] \/ (h.register \in MemberRegister /\ Sound(h.register))
      BY <2>1, PeerHandler DEF Quiet, Result, SInv, TypeOK, U64
    <2>3. /\ view' = [view EXCEPT ![n] = h.register]
          /\ \A r \in Registers' : r \in Registers \/ (r = h.register /\ r # None)
          /\ \A i \in Rumoured' : i \in Rumoured
          /\ TypeOK'
      BY <1>1, <2>2, ApplyFacts DEF box
    <2>4. \A r \in Registers' : r \in Registers \/ Sound(r)
      BY <2>2, <2>3, RegistersFacts
    <2>5. UNCHANGED <<disk, saved>> /\ view'[Owner] = view[Owner]
      BY <1>3, <2>3 DEF Apply, SInv, TypeOK, Node, U64
    <2> QED
      BY <2>3, <2>4, <2>5, OwnerStands
  <1> QED
    BY <1>2, <1>3
-----------------------------------------------------------------------------
(* The invariant is inductive: one lemma per group of actions.             *)

\* Receiving a register or a rumour.
LEMMA ReceiveInv ==
  ASSUME PersistMayFail = FALSE, SInv, NEW n \in Node, NEW m \in inbox[n], Receive(n, m)
  PROVE  SInv' /\ OwnerStep
  <1>1. CASE receive_register(n, m)
    BY <1>1, HandlerInv DEF receive_register
  <1>2. CASE serve_state_message(n, m)
    <2> DEFINE h == IF m \in seen[n] THEN Quiet(view[n]) ELSE on_message(n, m)
    <2>1. h = on_message(n, m) \/ h = Quiet(view[n])
      OBVIOUS
    <2>2. Apply(n, Taken(n, m), h) /\ Running(n) /\ UNCHANGED events
      BY <1>2 DEF serve_state_message
    <2> HIDE DEF h
    <2> QED
      BY <2>1, <2>2, HandlerInv
  <1> QED
    BY <1>1, <1>2 DEF Receive

\* Losing a message, and copying a register in an anti-entropy exchange.
LEMMA NetworkInv ==
  ASSUME SInv, NEW n \in Node, NEW q \in Node,
         (\E m \in inbox[n] : Lose(n, m)) \/ Exchange(n, q)
  PROVE  SInv' /\ OwnerStep
  <1>1. UNCHANGED <<view, disk, saved, seen>> /\ events' \in Nat
    BY DEF Lose, Exchange, Event, SInv, TypeOK, U64
  <1>2. /\ inbox' \in [Node -> SUBSET Message]
        /\ \A k \in Node : \A m \in inbox'[k] :
             \/ m \in inbox[k]
             \/ m.type = "Alive" /\ view[q] # None /\ m.register = view[q]
    <2>1. CASE \E m \in inbox[n] : Lose(n, m)
      BY <2>1 DEF Lose, Taken, SInv, TypeOK, U64
    <2>2. CASE Exchange(n, q)
      <3>1. view[q] # None /\ view[q] \in MemberRegister
        BY <2>2 DEF Exchange, SInv, TypeOK, U64
      <3>2. /\ Alive(view[q]) \in Message
            /\ Alive(view[q]).type = "Alive" /\ Alive(view[q]).register = view[q]
        BY <3>1 DEF Alive, Message
      <3> QED
        BY <2>2, <3>1, <3>2 DEF Exchange, SInv, TypeOK, U64
    <2> QED
      BY <2>1, <2>2
  <1>3. \A r \in Registers' : r \in Registers
    BY <1>1, <1>2, RegistersFacts, RegistersFactsNext
  <1>4. \A i \in Rumoured' : i \in Rumoured
    BY <1>2, RegistersFacts, RegistersFactsNext
  <1>5. TypeOK'
    BY <1>1, <1>2 DEF SInv, TypeOK, U64
  <1> QED
    BY <1>1, <1>3, <1>4, <1>5, OwnerStands

\* A restarted process has an empty dedup set.
LEMMA SeenCleared ==
  ASSUME NEW f \in [Node -> SUBSET Message], NEW n
  PROVE  [f EXCEPT ![n] = {}] \in [Node -> SUBSET Message]
  <1>1. {} \in SUBSET Message
    OBVIOUS
  <1> QED
    BY <1>1

\* What rejoining produces.
LEMMA RejoinFacts ==
  ASSUME NEW r \in MemberRegister, NEW a \in Nat
  PROVE  /\ rejoin(r, a) \in MemberRegister
         /\ rejoin(r, a).incarnation = saturating_inc(r.incarnation)
         /\ rejoin(r, a).state = "Active"
  <1>1. saturating_inc(r.incarnation) \in U64 /\ 0 \in U64
    BY SaturatingType, U64MaxAssumption DEF MemberRegister, U64
  <1> QED
    BY <1>1 DEF rejoin, MemberRegister, MemberState

\* The owner's process starts, and any process stops.
LEMMA ProcessInv ==
  ASSUME PersistMayFail = FALSE, SInv,
         \/ \E a \in Address : Boot(a)
         \/ Crash \/ Shutdown
         \/ \E p \in Peer : PeerRestart(p)
  PROVE  SInv' /\ OwnerStep
  <1>1. Owner \in Node /\ Peer \subseteq Node
    BY DEF Node
  <1>2. ASSUME NEW a \in Address, Boot(a)
        PROVE  SInv' /\ OwnerStep
    <2> DEFINE r == rejoin(new(a, a, 0, disk), a)
    <2>1. /\ disk \in U64 /\ disk \in Nat /\ disk < MaxIncarnation
          /\ disk + 1 \in U64 /\ 0 \in U64
      BY <1>2, SwimAssumption, U64MaxAssumption DEF Boot, SInv, TypeOK, U64
    <2>2. /\ new(a, a, 0, disk) \in MemberRegister
          /\ new(a, a, 0, disk).incarnation = disk
          /\ a \in Nat
      BY <2>1, SwimAssumption DEF new, MemberRegister, MemberState
    <2>3. /\ r \in MemberRegister
          /\ r.incarnation = saturating_inc(disk)
          /\ r.state = "Active"
      BY <2>2, RejoinFacts
    <2>4. r.incarnation = disk + 1
      BY <2>1, <2>3, SwimAssumption, U64MaxAssumption DEF saturating_inc, U64
    <2>5. /\ view' = [view EXCEPT ![Owner] = r]
          /\ saved' = disk + 1 /\ disk' = disk + 1
          /\ UNCHANGED <<inbox, events>>
          /\ seen' = [seen EXCEPT ![Owner] = {}]
      BY <1>2, <2>4 DEF Boot
    <2> HIDE DEF r
    <2>6. TypeOK'
      <3>1. view' \in [Node -> MemberRegister \union {None}]
        BY <2>3, <2>5 DEF SInv, TypeOK, U64
      <3>2. seen' \in [Node -> SUBSET Message]
        BY <2>5, SeenCleared DEF SInv, TypeOK, U64
      <3> QED
        BY <2>1, <2>5, <3>1, <3>2 DEF SInv, TypeOK
    <2>7. view'[Owner] = r /\ \A k \in Node : view'[k] = view[k] \/ view'[k] = r
      BY <1>1, <2>5 DEF SInv, TypeOK, U64
    <2>8. \A x \in Registers' : x \in Registers \/ x = view'[Owner]
      BY <2>5, <2>7, RegistersFacts, RegistersFactsNext
    <2>9. \A i \in Rumoured' : i \in Rumoured
      BY <2>5, RegistersFacts, RegistersFactsNext
    <2> QED
      BY <2>1, <2>3, <2>4, <2>5, <2>6, <2>7, <2>8, <2>9, OwnerFresh, SwimAssumption
  <1>3. CASE Crash \/ Shutdown
    <2>1. TypeOK' /\ UNCHANGED <<disk, saved, inbox>> /\ view' = [view EXCEPT ![Owner] = None]
      BY <1>3 DEF Crash, Shutdown, Down, Event, SInv, TypeOK, U64
    <2> QED
      BY <1>1, <2>1, NodeDown
  <1>4. ASSUME NEW p \in Peer, PeerRestart(p)
        PROVE  SInv' /\ OwnerStep
    <2>1. seen' \in [Node -> SUBSET Message]
      BY <1>4, SeenCleared DEF PeerRestart, SInv, TypeOK, U64
    <2>2. TypeOK' /\ UNCHANGED <<disk, saved, inbox>> /\ view' = [view EXCEPT ![p] = None]
      BY <1>4, <2>1 DEF PeerRestart, Event, SInv, TypeOK, U64
    <2> QED
      BY <1>1, <2>2, NodeDown
  <1> QED
    BY <1>2, <1>3, <1>4

\* What a heartbeat and a leave keep of the owner's entry.
LEMMA WithinIncarnation ==
  ASSUME NEW a \in MemberRegister, a.state \in {"Active", "Leaving"}
  PROVE  /\ bump_heartbeat(a) \in MemberRegister /\ leave(a) \in MemberRegister
         /\ bump_heartbeat(a).incarnation = a.incarnation
         /\ leave(a).incarnation = a.incarnation
         /\ bump_heartbeat(a).state = a.state /\ leave(a).state = "Leaving"
         /\ bump_heartbeat(a).heartbeat = saturating_inc(a.heartbeat)
         /\ leave(a).heartbeat = saturating_inc(a.heartbeat)
         /\ saturating_inc(a.heartbeat) >= a.heartbeat
         /\ bump_heartbeat(a).address = a.address /\ leave(a).address = a.address
  <1>1. bump_heartbeat(a) \in MemberRegister /\ leave(a) \in MemberRegister
    BY MutationsClimb
  <1>2. saturating_inc(a.heartbeat) >= a.heartbeat
    BY U64MaxAssumption DEF saturating_inc, MemberRegister, U64
  <1> QED
    BY <1>1, <1>2 DEF bump_heartbeat, leave, is_active, MemberRegister, U64

\* The register an annotation update publishes wins the merge.
LEMMA AnnotatedWins ==
  ASSUME NEW a \in MemberRegister, a.state \in {"Active", "Leaving"},
         a.heartbeat < U64Max, NEW x \in Nat
  PROVE  LET u == bump_heartbeat([a EXCEPT !.annotations = x])
         IN  /\ u \in MemberRegister /\ merge(a, u) = u
             /\ u.incarnation = a.incarnation /\ u.state = a.state
             /\ u.heartbeat >= a.heartbeat /\ u.address = a.address
  <1> DEFINE b == [a EXCEPT !.annotations = x]
             u == bump_heartbeat(b)
  <1>1. /\ b \in MemberRegister /\ b.state = a.state /\ b.incarnation = a.incarnation
        /\ b.heartbeat = a.heartbeat /\ b.address = a.address
    BY DEF MemberRegister, U64
  <1> HIDE DEF b
  <1>2. /\ u \in MemberRegister /\ u.incarnation = a.incarnation /\ u.state = a.state
        /\ u.heartbeat = saturating_inc(a.heartbeat) /\ u.address = a.address
    BY <1>1, WithinIncarnation
  <1> HIDE DEF u
  <1>3. a.heartbeat \in Nat /\ u.heartbeat = a.heartbeat + 1
    BY <1>2 DEF saturating_inc, MemberRegister, U64
  <1>4. dominates(u, a)
    BY <1>2, <1>3 DEF dominates
  <1>5. merge(a, u) = u
    BY <1>4 DEF merge
  <1> QED
    BY <1>2, <1>3, <1>5 DEF u, b

\* The owner's heartbeat, annotation update and leave.
LEMMA OwnerActionInv ==
  ASSUME SInv,
         \/ Heartbeat
         \/ \E x \in Annotation : update_local_annotations(x)
         \/ leave_node(Owner)
  PROVE  SInv' /\ OwnerStep
  <1> DEFINE v == view[Owner]
  <1>1. /\ Owner \in Node /\ v # None /\ v \in MemberRegister
        /\ v.state \in {"Active", "Leaving"} /\ v.incarnation = disk /\ saved = disk
    BY DEF Heartbeat, update_local_annotations, leave_node, Running, SInv, TypeOK,
           OwnerDurable, Node, U64
  <1>2. /\ inbox \in [Node -> SUBSET Message]
        /\ \A k \in Node : inbox[k] \subseteq inbox[k]
        /\ events \in Nat /\ TypeOK /\ disk \in U64 /\ disk \in Nat
    BY DEF SInv, TypeOK, U64
  <1>3. ASSUME NEW h \in Result, Apply(Owner, inbox, h), events' \in Nat,
               h.register \in MemberRegister,
               h.register.incarnation = v.incarnation,
               h.register.state \in {"Active", "Leaving"},
               h.register.heartbeat >= v.heartbeat,
               h.register.address = v.address,
               \A m \in h.out : \/ m.type = "Alive" /\ m.register = h.register
                                \/ m.type # "Alive" /\ m.incarnation = disk
        PROVE  SInv' /\ OwnerStep
    <2>1. /\ view' = [view EXCEPT ![Owner] = h.register]
          /\ \A r \in Registers' : r \in Registers \/ r = h.register
          /\ \A i \in Rumoured' : i \in Rumoured \/ i = disk
          /\ TypeOK'
      BY <1>1, <1>2, <1>3, ApplyFacts
    <2>2. view'[Owner] = h.register
      BY <1>1, <2>1 DEF SInv, TypeOK, U64
    <2>3. UNCHANGED <<disk, saved>>
      BY <1>1, <1>3 DEF Apply, persist_local_incarnation
    <2> QED
      BY <1>1, <1>3, <2>1, <2>2, <2>3, OwnerKeeps
  <1>4. CASE Heartbeat
    <2> DEFINE h == Quiet(bump_heartbeat(v))
    <2>1. /\ bump_heartbeat(v) \in MemberRegister
          /\ h.register = bump_heartbeat(v) /\ h.out = {} /\ h \in Result
      BY <1>1, WithinIncarnation DEF Quiet, Result
    <2>2. Apply(Owner, inbox, h) /\ events' = events
      BY <1>4 DEF Heartbeat
    <2> HIDE DEF h
    <2> QED
      BY <1>1, <1>2, <1>3, <2>1, <2>2, WithinIncarnation
  <1>5. ASSUME NEW x \in Annotation, update_local_annotations(x)
        PROVE  SInv' /\ OwnerStep
    <2> DEFINE u == bump_heartbeat([v EXCEPT !.annotations = x])
               h == [register |-> merge(v, u), out |-> {Alive(u)}]
    <2>1. x \in Nat /\ v.heartbeat < U64Max
      BY <1>1, <1>5, SwimAssumption, U64MaxAssumption
         DEF update_local_annotations, MemberRegister, U64
    <2>2. /\ u \in MemberRegister /\ merge(v, u) = u
          /\ u.incarnation = v.incarnation /\ u.state = v.state
          /\ u.heartbeat >= v.heartbeat /\ u.address = v.address
      BY <1>1, <2>1, AnnotatedWins
    <2>3. Apply(Owner, inbox, h) /\ events' = events
      BY <1>5 DEF update_local_annotations
    <2> HIDE DEF u
    <2>4. h \in Result /\ h.register = u
          /\ \A m \in h.out : m.type = "Alive" /\ m.register = u
      BY <2>2 DEF Result, Alive, Message
    <2> HIDE DEF h
    <2> QED
      BY <1>1, <1>2, <1>3, <2>2, <2>3, <2>4
  <1>6. CASE leave_node(Owner)
    <2> DEFINE h == [register |-> leave(v), out |-> {Rumour("Leave", v.incarnation)}]
    <2>1. Apply(Owner, inbox, h) /\ events' = events + 1
      BY <1>1, <1>6 DEF leave_node, Event
    <2>2. leave(v) \in MemberRegister
      BY <1>1, WithinIncarnation
    <2>3. h \in Result /\ h.register = leave(v)
          /\ \A m \in h.out : m.type # "Alive" /\ m.incarnation = disk
      BY <1>1, <1>2, <2>2 DEF Result, Rumour, Message
    <2> HIDE DEF h
    <2> QED
      BY <1>1, <1>2, <1>3, <2>1, <2>2, <2>3, WithinIncarnation
  <1> QED
    BY <1>4, <1>5, <1>6

\* The detector's verdicts and the operator's request, at a peer.
LEMMA PeerActionInv ==
  ASSUME SInv, NEW p \in Peer,
         mark_suspected(p) \/ suspicion_expires(p) \/ leave_node(p)
  PROVE  SInv' /\ OwnerStep
  <1> DEFINE v == view[p]
  <1>1. /\ p \in Node /\ p # Owner
        /\ v \in MemberRegister \union {None}
        /\ v # None => v \in MemberRegister /\ Sound(v)
    BY SwimAssumption, RegistersFacts DEF Node, SInv, TypeOK, U64
  <1>2. /\ inbox \in [Node -> SUBSET Message]
        /\ \A k \in Node : inbox[k] \subseteq inbox[k]
        /\ events \in Nat /\ TypeOK /\ disk \in U64 /\ disk \in Nat
    BY DEF SInv, TypeOK, U64
  <1>3. ASSUME NEW h \in Result, Apply(p, inbox, h), events' \in Nat,
               h.register = v \/ (h.register \in MemberRegister /\ Sound(h.register)),
               \A m \in h.out : \/ m.type = "Alive" /\ m.register = h.register
                                                    /\ h.register # None
                                \/ m.type # "Alive" /\ (m.incarnation <= disk \/ m.incarnation = 1)
        PROVE  SInv' /\ OwnerStep
    <2>1. /\ view' = [view EXCEPT ![p] = h.register]
          /\ \A r \in Registers' : r \in Registers \/ (r = h.register /\ r # None)
          /\ \A i \in Rumoured' : i \in Rumoured \/ i <= disk \/ i = 1
          /\ TypeOK'
      BY <1>1, <1>2, <1>3, ApplyFacts
    <2>2. \A r \in Registers' : r \in Registers \/ Sound(r)
      BY <1>1, <1>3, <2>1
    <2>3. UNCHANGED <<disk, saved>> /\ view'[Owner] = view[Owner]
      BY <1>1, <1>3, <2>1 DEF Apply, SInv, TypeOK, Node, U64
    <2> QED
      BY <2>1, <2>2, <2>3, OwnerStands
  <1>4. CASE mark_suspected(p)
    <2> DEFINE h == [register |-> suspect(v), out |-> {Rumour("Suspect", v.incarnation)}]
    <2>1. v # None /\ v.state = "Active" /\ Apply(p, inbox, h)
          /\ (events' = events \/ events' = events + 1)
      BY <1>4 DEF mark_suspected, Event
    <2>2. /\ suspect(v) \in MemberRegister
          /\ suspect(v).incarnation = v.incarnation /\ suspect(v).state = "Suspected"
      BY <1>1, <2>1, MutationsClimb DEF suspect, MemberRegister, U64
    <2>3. v.incarnation \in U64 /\ v.incarnation <= disk /\ Sound(suspect(v))
      BY <1>1, <2>1, <2>2 DEF Sound, MemberRegister, U64
    <2>4. h \in Result /\ h.register = suspect(v)
          /\ \A m \in h.out : m.type # "Alive" /\ m.incarnation = v.incarnation
      BY <2>2, <2>3 DEF Result, Rumour, Message
    <2> HIDE DEF h
    <2> QED
      BY <1>2, <1>3, <2>1, <2>2, <2>3, <2>4
  <1>5. CASE suspicion_expires(p)
    <2> DEFINE h == [register |-> offline(v), out |-> {Alive(offline(v))}]
    <2>1. v # None /\ Apply(p, inbox, h) /\ events' = events
      BY <1>5 DEF suspicion_expires
    <2>2. /\ offline(v) \in MemberRegister
          /\ offline(v).incarnation = v.incarnation /\ offline(v).state = "Offline"
      BY <1>1, <2>1, MutationsClimb DEF offline, MemberRegister, U64
    <2>3. Sound(offline(v)) /\ offline(v) # None
      BY <1>1, <2>1, <2>2, SwimAssumption DEF Sound
    <2>4. h \in Result /\ h.register = offline(v)
          /\ \A m \in h.out : m.type = "Alive" /\ m.register = offline(v)
      BY <2>2 DEF Result, Alive, Message
    <2> HIDE DEF h
    <2> QED
      BY <1>2, <1>3, <2>1, <2>2, <2>3, <2>4
  <1>6. CASE leave_node(p)
    <2> DEFINE i == IF v = None THEN 1 ELSE v.incarnation
               r == handle_leave_state(p, i).register
               h == [register |-> r, out |-> {Rumour("Leave", i)}]
    <2>1. Apply(p, inbox, h) /\ events' = events + 1
      BY <1>1, <1>6 DEF leave_node, Event
    <2>2. i \in U64 /\ i \in Nat /\ (i <= disk \/ i = 1)
      BY <1>1, <1>2, OneIsU64 DEF Sound, MemberRegister, U64
    <2>3. r = v \/ (r \in MemberRegister /\ Sound(r))
      <3>1. CASE v = None
        BY <1>1, <3>1 DEF handle_leave_state, Quiet
      <3>2. CASE v # None
        <4>1. i = v.incarnation /\ ~ (v.incarnation > i) /\ v.incarnation <= i
          BY <1>1, <2>2, <3>2
        <4>2. /\ leave([v EXCEPT !.incarnation = i]) \in MemberRegister
              /\ Sound(leave([v EXCEPT !.incarnation = i]))
          BY <1>1, <2>2, <3>2, <4>1, RestampedSound
        <4>3. r = merge(v, leave([v EXCEPT !.incarnation = i]))
          BY <1>1, <3>2, <4>1 DEF handle_leave_state, Quiet
        <4> QED
          BY <1>1, <3>2, <4>2, <4>3, MergeSound
      <3> QED
        BY <3>1, <3>2
    <2> HIDE DEF i, r
    <2>4. h \in Result /\ h.register = r
          /\ \A m \in h.out : m.type # "Alive" /\ m.incarnation = i
      BY <1>1, <2>2, <2>3 DEF Result, Rumour, Message
    <2> HIDE DEF h
    <2> QED
      BY <1>2, <1>3, <2>1, <2>2, <2>3, <2>4
  <1> QED
    BY <1>4, <1>5, <1>6
-----------------------------------------------------------------------------
(* The theorems.                                                           *)

\* Initially nobody holds a register and nothing is in flight.
LEMMA InitInv ==
  Init => SInv
  <1> SUFFICES ASSUME Init PROVE SInv
    OBVIOUS
  <1>1. Registers = {} /\ Rumoured = {}
    BY DEF Init, Registers, Rumoured
  <1>2. TypeOK
    BY InitType
  <1> QED
    BY <1>1, <1>2, SwimAssumption DEF Init, SInv, OwnerDurable, Node

\* Every step preserves the invariant, as long as writes succeed.
LEMMA NextInv ==
  ASSUME PersistMayFail = FALSE, SInv, [Next]_vars
  PROVE  SInv' /\ (OwnerStep \/ UNCHANGED view)
  <1>1. CASE UNCHANGED vars
    <2>1. TypeOK' /\ Registers' = Registers /\ Rumoured' = Rumoured
      BY <1>1 DEF vars, SInv, TypeOK, Registers, Rumoured, U64
    <2>2. UNCHANGED <<disk, saved>> /\ view'[Owner] = view[Owner] /\ UNCHANGED view
      BY <1>1 DEF vars
    <2> QED
      BY <2>1, <2>2, OwnerStands
  <1>2. CASE (\E a \in Address : Boot(a)) \/ Crash \/ Shutdown
    BY <1>2, ProcessInv
  <1>3. CASE Heartbeat \/ \E x \in Annotation : update_local_annotations(x)
    BY <1>3, OwnerActionInv
  <1>4. CASE \E n \in Node : leave_node(n)
    BY <1>4, OwnerActionInv, PeerActionInv DEF Node
  <1>5. CASE \E n, q \in Node : Exchange(n, q)
    BY <1>5, NetworkInv
  <1>6. CASE \E n \in Node : \E m \in inbox[n] : Receive(n, m) \/ Lose(n, m)
    BY <1>6, ReceiveInv, NetworkInv
  <1>7. CASE \E p \in Peer : mark_suspected(p) \/ suspicion_expires(p) \/ PeerRestart(p)
    BY <1>7, PeerActionInv, ProcessInv
  <1> QED
    BY <1>1, <1>2, <1>3, <1>4, <1>5, <1>6, <1>7 DEF Next, Changes

\* While the meta table accepts writes (runtime::run_inner and
\* persist_local_incarnation write before anything is sent), no register and
\* no rumour carries an incarnation that is not durable.
THEOREM IncarnationsDurableTheorem ==
  ASSUME PersistMayFail = FALSE
  PROVE  Spec => []IncarnationsDurable
  <1>1. SInv => IncarnationsDurable
    BY DEF SInv, Sound, IncarnationsDurable
  <1>2. SInv /\ [Next]_vars => SInv'
    BY NextInv
  <1> QED
    BY <1>1, <1>2, InitInv, PTL DEF Spec

\* Only the owner publishes Active registers of its current incarnation
\* (handle_suspect_state and handle_leave_state never re-stamp to Active).
THEOREM LivenessIsOwnedTheorem ==
  ASSUME PersistMayFail = FALSE
  PROVE  Spec => []LivenessIsOwned
  <1>1. SInv => LivenessIsOwned
    BY DEF SInv, OwnerDurable, Sound, LivenessIsOwned
  <1>2. SInv /\ [Next]_vars => SInv'
    BY NextInv
  <1> QED
    BY <1>1, <1>2, InitInv, PTL DEF Spec

\* A boot or a refutation puts the owner above every register in the cluster
\* (MemberRegister::rejoin, MemberRegister::refute).
THEOREM FreshIncarnationDominatesTheorem ==
  ASSUME PersistMayFail = FALSE
  PROVE  Spec => FreshIncarnationDominates
  <1> DEFINE A == view'[Owner] # None /\
                  (view[Owner] = None \/ view'[Owner].incarnation # view[Owner].incarnation)
                    => \A r \in Registers : dominates(view'[Owner], r)
  <1>1. SInv /\ [Next]_vars => SInv' /\ [A]_vars
    <2> SUFFICES ASSUME SInv, [Next]_vars PROVE SInv' /\ A
      OBVIOUS
    <2>1. SInv' /\ (OwnerStep \/ UNCHANGED view)
      BY NextInv
    <2>2. ASSUME view'[Owner] # None,
                 view[Owner] = None \/ view'[Owner].incarnation # view[Owner].incarnation,
                 NEW r \in Registers
          PROVE  dominates(view'[Owner], r)
      <3>1. view'[Owner].incarnation = disk + 1
        BY <2>1, <2>2 DEF OwnerStep
      <3>2. r \in MemberRegister /\ Sound(r)
        BY RegistersFacts, MessageFacts DEF SInv, TypeOK, U64
      <3>3. disk \in Nat /\ r.incarnation \in Nat /\ r.incarnation <= disk
        BY <3>2 DEF SInv, TypeOK, Sound, MemberRegister, U64
      <3> QED
        BY <3>1, <3>3 DEF dominates
    <2> QED
      BY <2>1, <2>2
  <1> QED
    BY <1>1, InitInv, PTL DEF Spec, FreshIncarnationDominates
-----------------------------------------------------------------------------
(* Type correctness and monotone views need no durable writes.             *)

\* No going backwards at node n.
Climbs(n) ==
  view[n] # None /\ view'[n] # None => ~ dominates(view[n], view'[n])

\* Every handler result is well typed and, at a peer, at or above the entry.
LEMMA HandlerClimbs ==
  ASSUME TypeOK, NEW n \in Node, Running(n), NEW m \in inbox[n]
  PROVE  /\ on_message(n, m) \in Result
         /\ n # Owner /\ view[n] # None =>
              /\ on_message(n, m).register # None
              /\ ~ dominates(view[n], on_message(n, m).register)
  <1> DEFINE v == view[n]
  <1>1. m \in Message /\ v \in MemberRegister \union {None}
    BY DEF TypeOK, U64
  <1>2. CASE n = Owner
    <2>1. v \in MemberRegister
      BY <1>1, <1>2 DEF Running
    <2>2. on_message(n, m) = Quiet(v) \/ on_message(n, m) = refute_and_broadcast(v)
      BY <1>1, <1>2, MessageFacts
         DEF on_message, handle_alive_state, refute_if_dominated,
             handle_suspect_state, handle_leave_state
    <2>3. refute(v) \in MemberRegister
      BY <2>1, MutationsClimb
    <2> QED
      BY <1>2, <2>1, <2>2, <2>3 DEF Quiet, refute_and_broadcast, Result, Alive, Message
  <1>3. CASE n # Owner
    <2>1. \/ on_message(n, m) = Quiet(v)
          \/ v = None /\ m.type = "Alive" /\ on_message(n, m) = Quiet(m.register)
          \/ v # None /\ \E f \in MemberRegister : on_message(n, m) = Quiet(merge(v, f))
      <3>1. CASE m.type = "Alive"
        BY <1>1, <1>3, <3>1, MessageFacts DEF on_message, handle_alive_state
      <3>2. CASE m.type \in {"Suspect", "Leave"} /\ v # None
        <4>1. m.incarnation \in U64 /\ v \in MemberRegister
          BY <1>1, <3>2, MessageFacts
        <4>2. [v EXCEPT !.incarnation = m.incarnation] \in MemberRegister
          BY <4>1 DEF MemberRegister
        <4>3. /\ suspect([v EXCEPT !.incarnation = m.incarnation]) \in MemberRegister
              /\ leave([v EXCEPT !.incarnation = m.incarnation]) \in MemberRegister
          BY <4>2, MutationsClimb
        <4> QED
          BY <1>3, <3>2, <4>3 DEF on_message, handle_suspect_state, handle_leave_state
      <3>3. CASE m.type \in {"Suspect", "Leave"} /\ v = None
        BY <1>3, <3>3 DEF on_message, handle_suspect_state, handle_leave_state
      <3> QED
        BY <1>1, <3>1, <3>2, <3>3, MessageFacts
    <2>2. CASE on_message(n, m) = Quiet(v)
      <3>1. v # None => ~ dominates(v, v)
        BY <1>1, TotalOrder
      <3> QED
        BY <1>1, <2>2, <3>1 DEF Quiet, Result
    <2>3. CASE v = None /\ m.type = "Alive" /\ on_message(n, m) = Quiet(m.register)
      BY <1>1, <2>3, MessageFacts DEF Quiet, Result
    <2>4. CASE v # None /\ \E f \in MemberRegister : on_message(n, m) = Quiet(merge(v, f))
      <3>1. PICK f \in MemberRegister : on_message(n, m) = Quiet(merge(v, f))
        BY <2>4
      <3>2. merge(v, f) \in MemberRegister /\ ~ dominates(v, merge(v, f))
        BY <1>1, <2>4, MergeType, MergeClimbs
      <3> QED
        BY <2>4, <3>1, <3>2, SwimAssumption DEF Quiet, Result
    <2> QED
      BY <2>1, <2>2, <2>3, <2>4
  <1> QED
    BY <1>2, <1>3

\* Entries that do not change do not go backwards.
LEMMA SameClimbs ==
  ASSUME TypeOK, NEW n \in Node, view'[n] = view[n] \/ view'[n] = None
  PROVE  Climbs(n)
  <1>1. view[n] # None => ~ dominates(view[n], view[n])
    BY TotalOrder DEF TypeOK, U64
  <1> QED
    BY <1>1 DEF Climbs

\* Applying a well-typed result that does not go backwards.
LEMMA ApplyClimbs ==
  ASSUME TypeOK, NEW n \in Node, NEW box \in [Node -> SUBSET Message],
         \A k \in Node : box[k] \subseteq inbox[k],
         NEW h \in Result, Apply(n, box, h), events' \in Nat,
         n # Owner /\ view[n] # None => ~ dominates(view[n], h.register)
  PROVE  TypeOK' /\ \A p \in Peer : Climbs(p)
  <1>1. TypeOK' /\ view' = [view EXCEPT ![n] = h.register]
    BY ApplyFacts DEF TypeOK, U64
  <1>2. ASSUME NEW p \in Peer PROVE Climbs(p)
    <2>1. p \in Node /\ p # Owner
      BY SwimAssumption DEF Node
    <2>2. CASE p = n
      BY <1>1, <2>1, <2>2 DEF Climbs, TypeOK, U64
    <2>3. CASE p # n
      BY <1>1, <2>1, <2>3, SameClimbs DEF TypeOK, U64
    <2> QED
      BY <2>2, <2>3
  <1> QED
    BY <1>1, <1>2

\* Every step keeps the types and takes no peer's entry backwards.
LEMMA NextClimbs ==
  ASSUME TypeOK, [Next]_vars
  PROVE  TypeOK' /\ \A p \in Peer : Climbs(p)
  <1>1. /\ Owner \in Node /\ Peer \subseteq Node /\ Owner \notin Peer
        /\ inbox \in [Node -> SUBSET Message] /\ events \in Nat
        /\ \A k \in Node : inbox[k] \subseteq inbox[k]
    BY SwimAssumption DEF Node, TypeOK, U64
  <1>2. CASE UNCHANGED vars
    BY <1>1, <1>2, SameClimbs DEF vars, TypeOK, U64
  <1>3. ASSUME NEW a \in Address, Boot(a)
        PROVE  TypeOK' /\ \A p \in Peer : Climbs(p)
    <2> DEFINE r == rejoin(new(a, a, 0, disk), a)
    <2>1. new(a, a, 0, disk) \in MemberRegister /\ a \in Nat
      BY OneIsU64, SwimAssumption DEF TypeOK, new, MemberRegister, MemberState
    <2>2. r \in MemberRegister
      BY <2>1, RejoinFacts
    <2>3. r.incarnation \in U64
      BY <2>2 DEF MemberRegister
    <2>4. /\ view' = [view EXCEPT ![Owner] = r] /\ saved' = r.incarnation
          /\ disk' \in {r.incarnation, disk}
          /\ seen' = [seen EXCEPT ![Owner] = {}] /\ UNCHANGED <<inbox, events>>
      BY <1>3 DEF Boot
    <2> HIDE DEF r
    <2>5. view' \in [Node -> MemberRegister \union {None}]
      BY <2>2, <2>4 DEF TypeOK, U64
    <2>6. seen' \in [Node -> SUBSET Message]
      BY <2>4, SeenCleared DEF TypeOK, U64
    <2>7. TypeOK'
      BY <2>3, <2>4, <2>5, <2>6 DEF TypeOK
    <2>8. \A p \in Peer : view'[p] = view[p]
      BY <1>1, <2>4 DEF TypeOK, U64
    <2> QED
      BY <1>1, <2>7, <2>8, SameClimbs
  <1>4. CASE Crash \/ Shutdown
    <2>1. TypeOK' /\ view' = [view EXCEPT ![Owner] = None]
      BY <1>4 DEF Crash, Shutdown, Down, Event, TypeOK, U64
    <2>2. \A p \in Peer : view'[p] = view[p]
      BY <1>1, <2>1 DEF TypeOK, U64
    <2> QED
      BY <1>1, <2>1, <2>2, SameClimbs
  <1>5. ASSUME NEW p \in Peer, PeerRestart(p)
        PROVE  TypeOK' /\ \A k \in Peer : Climbs(k)
    <2>1. view' = [view EXCEPT ![p] = None] /\ seen' \in [Node -> SUBSET Message]
      BY <1>5, SeenCleared DEF PeerRestart, TypeOK, U64
    <2>2. TypeOK'
      BY <1>5, <2>1 DEF PeerRestart, Event, TypeOK, U64
    <2>3. \A k \in Peer : view'[k] = view[k] \/ view'[k] = None
      BY <1>1, <2>1 DEF TypeOK, U64
    <2> QED
      BY <1>1, <2>2, <2>3, SameClimbs
  <1>6. CASE Heartbeat
    <2> DEFINE h == Quiet(bump_heartbeat(view[Owner]))
    <2>1. view[Owner] \in MemberRegister
      BY <1>1, <1>6 DEF Heartbeat, TypeOK, U64
    <2>2. h \in Result /\ Apply(Owner, inbox, h) /\ events' = events
      BY <1>6, <2>1, MutationsClimb DEF Heartbeat, Quiet, Result
    <2> HIDE DEF h
    <2> QED
      BY <1>1, <2>2, ApplyClimbs
  <1>7. ASSUME NEW x \in Annotation, update_local_annotations(x)
        PROVE  TypeOK' /\ \A p \in Peer : Climbs(p)
    <2> DEFINE v == view[Owner]
               u == bump_heartbeat([v EXCEPT !.annotations = x])
               h == [register |-> merge(v, u), out |-> {Alive(u)}]
    <2>1. v \in MemberRegister /\ x \in Nat
      BY <1>1, <1>7, SwimAssumption DEF update_local_annotations, TypeOK, U64
    <2>2. [v EXCEPT !.annotations = x] \in MemberRegister
      BY <2>1 DEF MemberRegister, U64
    <2>3. u \in MemberRegister /\ merge(v, u) \in MemberRegister
      BY <2>1, <2>2, MutationsClimb, MergeType
    <2>4. Apply(Owner, inbox, h) /\ events' = events
      BY <1>7 DEF update_local_annotations
    <2>5. h \in Result
      BY <2>3 DEF Result, Alive, Message
    <2> HIDE DEF h
    <2> QED
      BY <1>1, <2>4, <2>5, ApplyClimbs
  <1>8. ASSUME NEW n \in Node, leave_node(n)
        PROVE  TypeOK' /\ \A p \in Peer : Climbs(p)
    <2> DEFINE v == view[n]
               i == IF v = None THEN 1 ELSE v.incarnation
               r == IF n = Owner THEN leave(v) ELSE handle_leave_state(n, i).register
               h == [register |-> r, out |-> {Rumour("Leave", i)}]
    <2>1. Apply(n, inbox, h) /\ events' = events + 1 /\ Running(n)
      BY <1>8 DEF leave_node, Event
    <2>2. v \in MemberRegister \union {None} /\ i \in U64
      BY OneIsU64 DEF TypeOK, MemberRegister
    <2>3. /\ r \in MemberRegister \union {None}
          /\ n # Owner /\ v # None => ~ dominates(v, r)
      <3>1. CASE n = Owner
        BY <2>1, <2>2, <3>1, MutationsClimb DEF Running
      <3>2. CASE n # Owner /\ v = None
        BY <3>2 DEF handle_leave_state, Quiet
      <3>3. CASE n # Owner /\ v # None
        <4>1. v \in MemberRegister /\ [v EXCEPT !.incarnation = i] \in MemberRegister
          BY <2>2, <3>3 DEF MemberRegister
        <4>2. leave([v EXCEPT !.incarnation = i]) \in MemberRegister
          BY <4>1, MutationsClimb
        <4>3. r = v \/ r = merge(v, leave([v EXCEPT !.incarnation = i]))
          BY <3>3 DEF handle_leave_state, Quiet
        <4> QED
          BY <4>1, <4>2, <4>3, MergeType, MergeClimbs, TotalOrder
      <3> QED
        BY <3>1, <3>2, <3>3
    <2> HIDE DEF i, r
    <2>4. h \in Result /\ h.register = r
      BY <2>2, <2>3 DEF Result, Rumour, Message
    <2> HIDE DEF h
    <2> QED
      BY <1>1, <2>1, <2>3, <2>4, ApplyClimbs
  <1>9. ASSUME NEW n \in Node, NEW q \in Node,
               Exchange(n, q) \/ \E m \in inbox[n] : Lose(n, m)
        PROVE  TypeOK' /\ \A p \in Peer : Climbs(p)
    <2>1. UNCHANGED <<view, disk, saved, seen>> /\ events' \in Nat
      BY <1>1, <1>9 DEF Exchange, Lose, Event
    <2>2. inbox' \in [Node -> SUBSET Message]
      <3>1. CASE \E m \in inbox[n] : Lose(n, m)
        BY <1>1, <3>1 DEF Lose, Taken
      <3>2. CASE Exchange(n, q)
        <4>1. Alive(view[q]) \in Message
          BY <3>2 DEF Exchange, TypeOK, Alive, Message, U64
        <4> QED
          BY <1>1, <3>2, <4>1 DEF Exchange
      <3> QED
        BY <1>9, <3>1, <3>2
    <2> QED
      BY <1>1, <2>1, <2>2, SameClimbs DEF TypeOK, U64
  <1>10. ASSUME NEW n \in Node, NEW m \in inbox[n], Receive(n, m)
         PROVE  TypeOK' /\ \A p \in Peer : Climbs(p)
    <2> DEFINE g == Quiet(view[n])
    <2>1. PICK h \in {on_message(n, m), g} : Apply(n, Taken(n, m), h)
      BY <1>10 DEF Receive, receive_register, serve_state_message
    <2>2. Running(n) /\ events' = events
      BY <1>10 DEF Receive, receive_register, serve_state_message
    <2>3. g \in Result /\ (view[n] # None => ~ dominates(view[n], g.register))
      BY TotalOrder DEF Quiet, Result, TypeOK, U64
    <2>4. h \in Result /\ (n # Owner /\ view[n] # None => ~ dominates(view[n], h.register))
      BY <2>2, <2>3, HandlerClimbs
    <2>5. /\ Taken(n, m) \in [Node -> SUBSET Message]
          /\ \A k \in Node : Taken(n, m)[k] \subseteq inbox[k]
      BY <1>1 DEF Taken
    <2> QED
      BY <1>1, <2>1, <2>2, <2>4, <2>5, ApplyClimbs
  <1>11. ASSUME NEW p \in Peer, mark_suspected(p) \/ suspicion_expires(p)
         PROVE  TypeOK' /\ \A k \in Peer : Climbs(k)
    <2> DEFINE v == view[p]
               s == [register |-> suspect(v), out |-> {Rumour("Suspect", v.incarnation)}]
               o == [register |-> offline(v), out |-> {Alive(offline(v))}]
    <2>1. p \in Node /\ v # None /\ v \in MemberRegister /\ v.incarnation \in U64
      BY <1>1, <1>11 DEF mark_suspected, suspicion_expires, TypeOK, MemberRegister
    <2>2. suspect(v) \in MemberRegister /\ offline(v) \in MemberRegister
      BY <2>1, MutationsClimb
    <2>3. s \in Result /\ o \in Result
      BY <2>1, <2>2 DEF Result, Rumour, Alive, Message
    <2>4. CASE mark_suspected(p)
      <3>1. Apply(p, inbox, s) /\ events' \in Nat /\ v.state = "Active"
        BY <1>1, <2>4 DEF mark_suspected, Event
      <3>2. ~ dominates(v, s.register)
        BY <2>1, <2>2, <3>1, MutationsClimb, TotalOrder
      <3> HIDE DEF s
      <3> QED
        BY <1>1, <2>1, <2>3, <3>1, <3>2, ApplyClimbs
    <2>5. CASE suspicion_expires(p)
      <3>1. Apply(p, inbox, o) /\ events' = events /\ v.state = "Suspected"
        BY <2>5 DEF suspicion_expires
      <3>2. ~ dominates(v, o.register)
        BY <2>1, <2>2, <3>1, MutationsClimb, TotalOrder
      <3> HIDE DEF o
      <3> QED
        BY <1>1, <2>1, <2>3, <3>1, <3>2, ApplyClimbs
    <2> QED
      BY <1>11, <2>4, <2>5
  <1> QED
    BY <1>2, <1>3, <1>4, <1>5, <1>6, <1>7, <1>8, <1>9, <1>10, <1>11 DEF Next, Changes

\* The model is well typed, whether or not writes succeed.
THEOREM TypeOKTheorem == Spec => []TypeOK
  <1>1. Init => TypeOK
    BY InitType
  <1>2. TypeOK /\ [Next]_vars => TypeOK'
    BY NextClimbs
  <1> QED
    BY <1>1, <1>2, PTL DEF Spec

\* No merge, rumour or verdict (handle_suspect_state, handle_leave_state,
\* check_suspect_timeouts) takes a peer's view backwards in the merge order.
THEOREM ViewsClimbTheorem == Spec => ViewsClimb
  <1> DEFINE A == \A p \in Peer : view[p] # None /\ view'[p] # None =>
                                    ~ dominates(view[p], view'[p])
  <1>1. Init => TypeOK
    BY InitType
  <1>2. TypeOK /\ [Next]_vars => TypeOK' /\ [A]_vars
    BY NextClimbs DEF Climbs
  <1> QED
    BY <1>1, <1>2, PTL DEF Spec, ViewsClimb
=============================================================================
