-------------------------- MODULE EnrollmentProofs --------------------------
(***************************************************************************)
(* Enrollment implements DurableRegistry, and with it what that module     *)
(* promises, for every set of nodes and sponsors and any number of boots,  *)
(* crashes, failed writes and lost links.                                  *)
(*                                                                         *)
(* The argument follows a record from its signature to the disks.  What a  *)
(* node proposes to commit is its registry with one record it signed at a  *)
(* free place, or with records another node holds; what travels is held by *)
(* its sender.  A sender may not lose what it sent: only a node that is    *)
(* alone and has a sponsor replaces its registry, and such a node does not *)
(* get as far as sending (Established).                                    *)
(***************************************************************************)
EXTENDS Enrollment, FiniteSetTheorems, TLAPS

HasGenesis(records) == \E k \in Node : genesis(k) \in records

\* n has a registry and will not replace it.
Established(n) ==
  /\ registry[n] # {}
  /\ Sponsors[n] = {} \/ ~ registry_is_solo(registry[n], n)

Held(n, records) == Established(n) /\ records \subseteq registry[n] /\ HasGenesis(records)

Stores ==
  /\ registry = [n \in Node |-> registry[n]]
  /\ up = [n \in Node |-> up[n]] /\ task = [n \in Node |-> task[n]]
  /\ \A n \in Node :
       /\ up[n] \in {"down", "joining", "starting", "running"}
       /\ registry[n] # {} => HasGenesis(registry[n])
       /\ up[n] \in {"starting", "running"} => Established(n)
       /\ up[n] = "joining" => Sponsors[n] # {} /\ registry[n] = {genesis(n)}

\* A record of n's at a place of its chain that is free in n's registry.
Signs(n, r) ==
  /\ r.authorizer # None /\ Durable!author(r) = n
  /\ \A x \in registry[n] : x.authorizer = r.authorizer => x.action # r.action

\* What the commit of n was given.
Proposed(n, t) ==
  \/ t.kind = "admit" /\ up[n] # "joining" /\ Signs(n, t.candidate) /\ t.registry = registry[n] \union {t.candidate}
  \/ /\ t.kind \in {"push", "reply"} /\ up[n] # "joining"
     /\ \E m \in Node : Established(m) /\ \E S \in SUBSET registry[m] : t.registry = registry[n] \union S
  \/ /\ t.kind = "adopt" /\ up[n] = "joining"
     /\ \E m \in Node : Held(m, t.registry)
     /\ \E r \in t.registry : r.node # n

TaskOf(n, t) ==
  t # None =>
    /\ {"kind", "registry", "candidate", "request"} \subseteq DOMAIN t
    /\ up[n] # "down"
    /\ t.request # None => /\ t.request.to = n /\ t.request.from \in Node
                           /\ t.kind # "admit" => Established(t.request.from)
    /\ Proposed(n, t)

Tasks == \A n \in Node : TaskOf(n, task[n])

Message(msg) ==
  /\ {"type", "from", "to"} \subseteq DOMAIN msg
  /\ msg.from \in Node
  /\ msg.type = "Push" => "records" \in DOMAIN msg
  /\ msg.type \in {"Push", "Admitted", "Applied"} => Held(msg.from, msg.records)
  /\ msg.type = "Applied" => msg.to \in Node /\ Established(msg.to)

Messages == \A msg \in net : Message(msg)

IInv == Stores /\ Tasks /\ Messages
-----------------------------------------------------------------------------
(* What stays true of a registry while others change.                      *)

\* No step takes anything from a node that is established.
Grows == \A m \in Node : Established(m) => Established(m)' /\ registry[m] \subseteq registry'[m]

LEMMA GenesisNode == \A k : genesis(k).node = k /\ genesis(k).authorizer = None
  BY DEF genesis, AuthorizationBody

\* A registry with a genesis record is a solo one only as the node's own genesis.
LEMMA Solo ==
  ASSUME NEW n \in Node, NEW records, HasGenesis(records)
  PROVE  registry_is_solo(records, n) <=> records = {genesis(n)}
  BY GenesisNode DEF registry_is_solo, HasGenesis

LEMMA UnchangedGrows ==
  ASSUME registry' = registry
  PROVE  Grows
  BY DEF Grows, Established

LEMMA HeldGrows ==
  ASSUME Grows, NEW n \in Node, NEW records, Held(n, records)
  PROVE  Held(n, records)'
  BY DEF Grows, Held, HasGenesis

LEMMA MessageGrows ==
  ASSUME Grows, NEW msg, Message(msg)
  PROVE  Message(msg)'
  <1>1. msg.type \in {"Push", "Admitted", "Applied"} => Held(msg.from, msg.records)'
    BY HeldGrows DEF Message
  <1>2. msg.type = "Applied" => Established(msg.to)'
    BY DEF Message, Grows
  <1> QED
    BY <1>1, <1>2 DEF Message

\* A queued request that cannot be answered any more says what it said.
LEMMA MessageClosed ==
  ASSUME NEW msg, Message(msg), IsRequest(msg)
  PROVE  Message([msg EXCEPT !.open = FALSE])
  <1> DEFINE k == [msg EXCEPT !.open = FALSE]
  <1>1. /\ DOMAIN k = DOMAIN msg /\ k.type = msg.type /\ k.from = msg.from /\ k.to = msg.to
        /\ msg.type = "Push" => k.records = msg.records
    BY DEF Message
  <1> QED
    BY <1>1 DEF Message, IsRequest

LEMMA MessagesClose ==
  ASSUME Messages, Grows, NEW closed, NEW dead, NEW answer, Close(closed, dead, answer),
         \A msg \in answer : Message(msg)'
  PROVE  Messages'
  <1> SUFFICES ASSUME NEW msg \in net'
               PROVE  Message(msg)'
    BY DEF Messages
  <1>1. \/ msg \in answer \/ msg \in net
        \/ \E old \in net : IsRequest(old) /\ msg = [old EXCEPT !.open = FALSE]
    BY DEF Close
  <1>2. CASE msg \in net
    BY <1>2, MessageGrows DEF Messages
  <1>3. ASSUME NEW old \in net, IsRequest(old), msg = [old EXCEPT !.open = FALSE]
        PROVE  Message(msg)'
    <2>1. Message(msg)
      BY <1>3, MessageClosed DEF Messages
    <2> QED
      BY <2>1, MessageGrows
  <1> QED
    BY <1>1, <1>2, <1>3

LEMMA MessagesStay ==
  ASSUME Messages, Grows, net' \subseteq net
  PROVE  Messages'
  BY MessageGrows DEF Messages

\* What was proposed at n stays so while n's own registry stays.
LEMMA TaskStays ==
  ASSUME Grows, NEW n \in Node, registry'[n] = registry[n], up'[n] = up[n], NEW t, TaskOf(n, t)
  PROVE  TaskOf(n, t)'
  <1> SUFFICES ASSUME t # None
               PROVE  TaskOf(n, t)'
    BY DEF TaskOf
  <1>1. t.request # None /\ t.kind # "admit" => Established(t.request.from)'
    BY DEF TaskOf, Grows
  <1>2. CASE t.kind = "admit" /\ up[n] # "joining" /\ Signs(n, t.candidate) /\ t.registry = registry[n] \union {t.candidate}
    BY <1>1, <1>2 DEF TaskOf, Proposed, Signs
  <1>3. CASE /\ t.kind \in {"push", "reply"} /\ up[n] # "joining"
             /\ \E m \in Node : Established(m) /\ \E S \in SUBSET registry[m] : t.registry = registry[n] \union S
    <2> PICK m \in Node : Established(m) /\ \E S \in SUBSET registry[m] : t.registry = registry[n] \union S
      BY <1>3
    <2>1. Established(m)' /\ \E S \in SUBSET registry'[m] : t.registry = registry'[n] \union S
      BY DEF Grows
    <2> QED
      BY <1>1, <1>3, <2>1 DEF TaskOf, Proposed
  <1>4. CASE /\ t.kind = "adopt" /\ up[n] = "joining"
             /\ \E m \in Node : Held(m, t.registry)
             /\ \E r \in t.registry : r.node # n
    <2>1. \E m \in Node : Held(m, t.registry)'
      BY <1>4, HeldGrows
    <2> QED
      BY <1>1, <1>4, <2>1 DEF TaskOf, Proposed
  <1> QED
    BY <1>2, <1>3, <1>4 DEF TaskOf, Proposed

\* A commit whose request cannot be answered any more commits the same.
LEMMA TaskOrphaned ==
  ASSUME NEW n \in Node, NEW t, TaskOf(n, t), t # None
  PROVE  TaskOf(n, [t EXCEPT !.request = None])
  <1> DEFINE u == [t EXCEPT !.request = None]
  <1>1. /\ DOMAIN u = DOMAIN t /\ u.kind = t.kind /\ u.registry = t.registry /\ u.candidate = t.candidate
        /\ u.request = None
    BY DEF TaskOf
  <1>2. Proposed(n, u)
    BY <1>1 DEF TaskOf, Proposed
  <1> HIDE DEF u
  <1>3. TaskOf(n, u)
    BY <1>1, <1>2 DEF TaskOf
  <1> QED
    BY <1>3 DEF u

LEMMA OrphanedTask ==
  ASSUME Tasks, NEW n \in Node, NEW closed
  PROVE  TaskOf(n, Orphaned(closed)[n])
  <1>1. Orphaned(closed)[n] \in {task[n], None} \/ (task[n] # None /\ Orphaned(closed)[n] = [task[n] EXCEPT !.request = None])
    BY DEF Orphaned
  <1>2. TaskOf(n, None)
    BY DEF TaskOf
  <1> QED
    BY <1>1, <1>2, TaskOrphaned DEF Tasks
-----------------------------------------------------------------------------
(* The steps.                                                              *)

\* A step that changes neither a registry nor a process nor a commit.
LEMMA QuietStep ==
  ASSUME IInv, UNCHANGED <<registry, up, task>>, \A msg \in net' : msg \in net \/ Message(msg)
  PROVE  IInv'
  <1>1. Grows
    BY UnchangedGrows
  <1>2. Messages'
    BY <1>1, MessageGrows DEF IInv, Messages
  <1>3. Tasks'
    BY <1>1, TaskStays DEF IInv, Tasks
  <1>4. Stores'
    BY DEF IInv, Stores, Established
  <1> QED
    BY <1>2, <1>3, <1>4 DEF IInv

\* A registry is proposed to n's link actor.
LEMMA ProposeStep ==
  ASSUME IInv, UNCHANGED <<registry, up>>, NEW n \in Node, NEW t, TaskOf(n, t),
         task' = [task EXCEPT ![n] = t], net' \subseteq net
  PROVE  IInv'
  <1>1. Grows
    BY UnchangedGrows
  <1>2. Messages'
    BY <1>1, MessagesStay DEF IInv
  <1>3. Tasks'
    <2> SUFFICES ASSUME NEW k \in Node, NEW u, u = task'[k]
                 PROVE  TaskOf(k, u)'
      BY DEF Tasks
    <2>1. TaskOf(k, u)
      BY DEF IInv, Stores, Tasks
    <2> QED
      BY <1>1, <2>1, TaskStays
  <1>4. Stores'
    BY DEF IInv, Stores, Established
  <1> QED
    BY <1>2, <1>3, <1>4 DEF IInv

LEMMA StopStep ==
  ASSUME IInv, NEW n \in Node, Stop(n)
  PROVE  IInv'
  <1> DEFINE closed == {{n, m} : m \in Node}
  <1>1. registry' = registry /\ up' = [up EXCEPT ![n] = "down"]
    BY DEF Stop
  <1>2. task' = [Orphaned(closed) EXCEPT ![n] = None] /\ Close(closed, {n}, {})
    BY DEF Stop
  <1> HIDE DEF closed
  <1>3. Grows
    BY <1>1, UnchangedGrows
  <1>4. Messages'
    BY <1>2, <1>3, MessagesClose DEF IInv
  <1>5. task' = [k \in Node |-> IF k = n THEN None ELSE Orphaned(closed)[k]]
    BY <1>2 DEF Orphaned
  <1>6. \A k \in Node : up'[k] = IF k = n THEN "down" ELSE up[k]
    BY <1>1 DEF IInv, Stores
  <1>7. Tasks'
    <2> SUFFICES ASSUME NEW k \in Node, NEW t, t = task'[k]
                 PROVE  TaskOf(k, t)'
      BY DEF Tasks
    <2>1. CASE k = n
      BY <1>5, <2>1 DEF TaskOf
    <2>2. CASE k # n
      <3>1. TaskOf(k, t)
        BY <1>5, <2>2, OrphanedTask DEF IInv
      <3> QED
        BY <1>1, <1>3, <1>6, <2>2, <3>1, TaskStays
    <2> QED
      BY <2>1, <2>2
  <1>8. Stores'
    BY <1>1, <1>5, <1>6 DEF IInv, Stores, Established
  <1> QED
    BY <1>4, <1>7, <1>8 DEF IInv

LEMMA DisconnectStep ==
  ASSUME IInv, NEW n \in Node, NEW m \in Node, Disconnect(n, m)
  PROVE  IInv'
  <1>1. UNCHANGED <<registry, up>> /\ task' = Orphaned({{n, m}}) /\ Close({{n, m}}, {}, {})
    BY DEF Disconnect
  <1>2. Grows
    BY <1>1, UnchangedGrows
  <1>3. Messages'
    BY <1>1, <1>2, MessagesClose DEF IInv
  <1>4. Tasks'
    <2> SUFFICES ASSUME NEW k \in Node, NEW t, t = task'[k]
                 PROVE  TaskOf(k, t)'
      BY DEF Tasks
    <2>1. TaskOf(k, t)
      BY <1>1, OrphanedTask DEF IInv
    <2> QED
      BY <1>1, <1>2, <2>1, TaskStays
  <1>5. Stores'
    BY <1>1 DEF IInv, Stores, Established, Orphaned
  <1> QED
    BY <1>3, <1>4, <1>5 DEF IInv

\* initialize_identity_and_registry, and where the process goes on from there.
LEMMA LoadStep ==
  ASSUME IInv, NEW n \in Node, Load(n), NEW to \in {"joining", "starting"}, up' = [up EXCEPT ![n] = to],
         to = "starting" => Sponsors[n] = {} \/ ~ registry_is_solo(initial_registry(n), n),
         to = "joining" => Sponsors[n] # {} /\ registry_is_solo(initial_registry(n), n)
  PROVE  IInv'
  <1> DEFINE records == initial_registry(n)
  <1>1. /\ up[n] = "down" /\ registry' = [registry EXCEPT ![n] = records]
        /\ UNCHANGED <<task, net>>
    BY DEF Load
  <1>2. /\ HasGenesis(records)
        /\ registry[n] # {} => records = registry[n]
    BY DEF IInv, Stores, initial_registry, HasGenesis
  <1>3. records # {}
    BY <1>2 DEF HasGenesis
  <1>4. \A k \in Node : /\ registry'[k] = IF k = n THEN records ELSE registry[k]
                        /\ up'[k] = IF k = n THEN to ELSE up[k]
    BY <1>1 DEF IInv, Stores
  <1>5. to = "joining" => records = {genesis(n)}
    BY <1>2, Solo
  <1> HIDE DEF records
  <1>6. Grows
    BY <1>2, <1>4 DEF Grows, Established
  <1>7. Messages'
    BY <1>1, <1>6, MessagesStay DEF IInv
  <1>8. Tasks'
    <2> SUFFICES ASSUME NEW k \in Node, NEW t, t = task[k]
                 PROVE  TaskOf(k, t)'
      BY <1>1 DEF Tasks
    <2>1. TaskOf(k, t)
      BY DEF IInv, Tasks
    <2>2. CASE k = n
      BY <1>1, <2>1, <2>2 DEF TaskOf
    <2>3. CASE k # n
      BY <1>4, <1>6, <2>1, <2>3, TaskStays
    <2> QED
      BY <2>2, <2>3
  <1>9. to = "starting" => Established(n)'
    BY <1>3, <1>4 DEF Established, records
  <1>10. \A k \in Node : k # n /\ Established(k) => Established(k)'
    BY <1>6 DEF Grows
  <1>11. Stores'
    <2>1. registry' = [k \in Node |-> registry'[k]] /\ up' = [k \in Node |-> up'[k]] /\ task' = [k \in Node |-> task'[k]]
      BY <1>1 DEF IInv, Stores
    <2>2. ASSUME NEW k \in Node
          PROVE  /\ up'[k] \in {"down", "joining", "starting", "running"}
                 /\ registry'[k] # {} => HasGenesis(registry'[k])
                 /\ up'[k] \in {"starting", "running"} => Established(k)'
                 /\ up'[k] = "joining" => Sponsors[k] # {} /\ registry'[k] = {genesis(k)}
      BY <1>2, <1>4, <1>5, <1>9, <1>10 DEF IInv, Stores
    <2> QED
      BY <2>1, <2>2 DEF Stores, HasGenesis
  <1> QED
    BY <1>7, <1>8, <1>11 DEF IInv

\* commit_enrollment and commit_adopt_authorization.
LEMMA CommitStep ==
  ASSUME IInv, NEW n \in Node, Commit(n)
  PROVE  IInv'
  <1> PICK t : t = task[n]
    OBVIOUS
  <1>a. PICK stale :
          /\ Close(stale, {}, IF t.request = None \/ {n, t.request.from} \in stale THEN {} ELSE Answer(t))
          /\ task' = [Orphaned(stale) EXCEPT ![n] = None]
    BY Zenon DEF Commit
  <1>b. PICK answer : answer = IF t.request = None \/ {n, t.request.from} \in stale THEN {} ELSE Answer(t)
    OBVIOUS
  <1>1. /\ Close(stale, {}, answer) /\ answer \subseteq Answer(t)
        /\ task' = [Orphaned(stale) EXCEPT ![n] = None]
    BY <1>a, <1>b
  <1>2. /\ t # None /\ registry' = [registry EXCEPT ![n] = t.registry]
        /\ up' = IF t.kind = "adopt" THEN [up EXCEPT ![n] = "starting"] ELSE up
    BY DEF Commit
  <1>3. TaskOf(n, t)
    BY DEF IInv, Tasks
  <1>4. Proposed(n, t) /\ up[n] # "down"
    BY <1>2, <1>3 DEF TaskOf
  <1>5. \A k \in Node : /\ registry'[k] = IF k = n THEN t.registry ELSE registry[k]
                        /\ up'[k] = IF k = n /\ t.kind = "adopt" THEN "starting" ELSE up[k]
    BY <1>2 DEF IInv, Stores
  <1>6. ASSUME t.kind # "adopt"
        PROVE  /\ HasGenesis(t.registry) /\ t.registry # {}
               /\ Sponsors[n] = {} \/ ~ registry_is_solo(t.registry, n)
               /\ Established(n) => registry[n] \subseteq t.registry
    <2>1. up[n] # "joining" /\ registry[n] \subseteq t.registry
      BY <1>4, <1>6 DEF Proposed
    <2>2. Established(n) /\ HasGenesis(registry[n])
      BY <1>4, <2>1 DEF IInv, Stores, Established
    <2>3. HasGenesis(t.registry) /\ t.registry # {}
      BY <2>1, <2>2 DEF HasGenesis
    <2>4. Sponsors[n] = {} \/ ~ registry_is_solo(t.registry, n)
      BY <2>1, <2>2, <2>3, Solo DEF Established
    <2> QED
      BY <2>1, <2>3, <2>4
  <1>7. ASSUME t.kind = "adopt"
        PROVE  /\ HasGenesis(t.registry) /\ t.registry # {}
               /\ Sponsors[n] = {} \/ ~ registry_is_solo(t.registry, n)
               /\ Established(n) => registry[n] \subseteq t.registry
    <2>1. /\ up[n] = "joining" /\ HasGenesis(t.registry)
          /\ \E r \in t.registry : r.node # n
      BY <1>4, <1>7 DEF Proposed, Held
    <2>2. t.registry # {} /\ ~ registry_is_solo(t.registry, n)
      BY <2>1 DEF registry_is_solo
    <2>3. ~ Established(n)
      BY <2>1, Solo DEF IInv, Stores, Established, HasGenesis
    <2> QED
      BY <2>1, <2>2, <2>3
  <1>8. /\ HasGenesis(t.registry) /\ t.registry # {}
        /\ Sponsors[n] = {} \/ ~ registry_is_solo(t.registry, n)
        /\ Established(n) => registry[n] \subseteq t.registry
    BY <1>6, <1>7
  <1>9. Established(n)'
    BY <1>5, <1>8 DEF Established
  <1>10. Grows
    BY <1>5, <1>8, <1>9 DEF Grows, Established
  <1>11. Held(n, t.registry)'
    BY <1>5, <1>8, <1>9 DEF Held, HasGenesis
  <1>12. ASSUME NEW msg \in answer
         PROVE  Message(msg)'
    <2>1. /\ t.request # None /\ t.request.to = n /\ t.request.from \in Node
          /\ t.kind # "admit" => Established(t.request.from)'
      BY <1>1, <1>2, <1>3, <1>10 DEF Answer, TaskOf, Grows
    <2>2. CASE t.kind = "admit"
      <3>1. msg = Admitted(t.request, t.candidate, t.registry)
        BY <1>1, <2>1, <2>2 DEF Answer
      <3>2. /\ msg.type = "Admitted" /\ msg.from = n /\ msg.records = t.registry
            /\ {"type", "from", "to"} \subseteq DOMAIN msg
        BY <2>1, <3>1 DEF Admitted
      <3> QED
        BY <1>11, <3>2 DEF Message
    <2>3. CASE t.kind # "admit"
      <3>1. msg = Applied(t.request, t.registry)
        BY <1>1, <2>1, <2>3 DEF Answer
      <3>2. /\ msg.type = "Applied" /\ msg.from = n /\ msg.to = t.request.from /\ msg.records = t.registry
            /\ {"type", "from", "to"} \subseteq DOMAIN msg
        BY <2>1, <3>1 DEF Applied
      <3> QED
        BY <1>11, <2>1, <2>3, <3>2 DEF Message
    <2> QED
      BY <2>2, <2>3
  <1>13. Messages'
    BY <1>1, <1>10, <1>12, MessagesClose DEF IInv
  <1>14. task' = [k \in Node |-> IF k = n THEN None ELSE Orphaned(stale)[k]]
    BY <1>1 DEF Orphaned
  <1>15. Tasks'
    <2> SUFFICES ASSUME NEW k \in Node, NEW u, u = task'[k]
                 PROVE  TaskOf(k, u)'
      BY DEF Tasks
    <2>1. CASE k = n
      BY <1>14, <2>1 DEF TaskOf
    <2>2. CASE k # n
      <3>1. TaskOf(k, u)
        BY <1>14, <2>2, OrphanedTask DEF IInv
      <3> QED
        BY <1>5, <1>10, <2>2, <3>1, TaskStays
    <2> QED
      BY <2>1, <2>2
  <1>16. Stores'
    <2>1. registry' = [k \in Node |-> registry'[k]] /\ up' = [k \in Node |-> up'[k]] /\ task' = [k \in Node |-> task'[k]]
      BY <1>2, <1>14 DEF IInv, Stores
    <2>2. \A k \in Node : k # n /\ Established(k) => Established(k)'
      BY <1>10 DEF Grows
    <2>3. t.kind = "adopt" <=> up[n] = "joining"
      BY <1>4 DEF Proposed
    <2>4. ASSUME NEW k \in Node
          PROVE  /\ up'[k] \in {"down", "joining", "starting", "running"}
                 /\ registry'[k] # {} => HasGenesis(registry'[k])
                 /\ up'[k] \in {"starting", "running"} => Established(k)'
                 /\ up'[k] = "joining" => Sponsors[k] # {} /\ registry'[k] = {genesis(k)}
      BY <1>5, <1>8, <1>9, <2>2, <2>3 DEF IInv, Stores
    <2> QED
      BY <2>1, <2>4 DEF Stores, HasGenesis
  <1> QED
    BY <1>13, <1>15, <1>16 DEF IInv

LEMMA CommitFailsStep ==
  ASSUME IInv, NEW n \in Node, CommitFails(n)
  PROVE  IInv'
  <1>1. CASE task[n].kind = "adopt"
    BY <1>1, StopStep DEF CommitFails
  <1>2. CASE task[n].kind # "adopt"
    <2>1. /\ UNCHANGED <<registry, up>> /\ task' = [task EXCEPT ![n] = None] /\ task[n] # None
          /\ net' = net \union (IF task[n].kind = "admit" /\ task[n].request # None
                                  THEN {Rejected(task[n].request)} ELSE {})
      BY <1>2 DEF CommitFails, Send
    <2>2. Grows
      BY <2>1, UnchangedGrows
    <2>3. task[n].request # None => task[n].request.to = n
      BY <2>1 DEF IInv, Tasks, TaskOf
    <2>4. task[n].request # None => Message(Rejected(task[n].request))
      BY <2>3 DEF Message, Rejected
    <2>5. ASSUME NEW msg \in net' PROVE Message(msg)'
      <3>1. Message(msg)
        BY <2>1, <2>4 DEF IInv, Messages
      <3> QED
        BY <2>2, <3>1, MessageGrows
    <2>6. Tasks'
      <3> SUFFICES ASSUME NEW k \in Node, NEW u, u = task'[k]
                   PROVE  TaskOf(k, u)'
        BY DEF Tasks
      <3>1. TaskOf(k, u)
        BY <2>1 DEF IInv, Stores, Tasks, TaskOf
      <3> QED
        BY <2>1, <2>2, <3>1, TaskStays
    <2>7. Stores'
      BY <2>1 DEF IInv, Stores, Established
    <2> QED
      BY <2>5, <2>6, <2>7 DEF IInv, Messages
  <1> QED
    BY <1>1, <1>2

LEMMA StartLoopsStep ==
  ASSUME IInv, NEW n \in Node, StartLoops(n)
  PROVE  IInv'
  <1>1. UNCHANGED <<registry, task, net>> /\ up[n] = "starting" /\ up' = [up EXCEPT ![n] = "running"]
    BY DEF StartLoops
  <1>2. Grows
    BY <1>1, UnchangedGrows
  <1>3. \A k \in Node : up'[k] = IF k = n THEN "running" ELSE up[k]
    BY <1>1 DEF IInv, Stores
  <1>4. Messages'
    BY <1>1, <1>2, MessagesStay DEF IInv
  <1>5. Tasks'
    <2> SUFFICES ASSUME NEW k \in Node, NEW t, t = task[k]
                 PROVE  TaskOf(k, t)'
      BY <1>1 DEF Tasks
    <2>1. TaskOf(k, t)
      BY DEF IInv, Tasks
    <2>2. CASE k = n
      BY <1>1, <1>3, <2>1, <2>2 DEF TaskOf, Proposed, Signs, Established, Held
    <2>3. CASE k # n
      BY <1>1, <1>2, <1>3, <2>1, <2>3, TaskStays
    <2> QED
      BY <2>2, <2>3
  <1>6. Stores'
    BY <1>1, <1>3 DEF IInv, Stores, Established
  <1> QED
    BY <1>4, <1>5, <1>6 DEF IInv
-----------------------------------------------------------------------------
(* What the handlers propose and send.                                     *)

\* authorizer_head is a place at which nothing has been signed.
LEMMA HeadIsFree ==
  ASSUME NEW records, NEW i, authorizer_head(records, i) # None
  PROVE  \A x \in records : x.authorizer = i => x.action # authorizer_head(records, i)
  <1> DEFINE chain == {i} \union {r \in records : \/ r.authorizer = i
                                                  \/ r.retires # None /\ r.retires.identity = i}
             ends  == {x \in chain : action_successors(records, i, x) = {}}
  <1>1. Unique(ends) /\ authorizer_head(records, i) = TheOnly(ends)
    BY DEF authorizer_head
  <1>2. authorizer_head(records, i) \in ends
    BY <1>1 DEF Unique, TheOnly
  <1>3. action_successors(records, i, authorizer_head(records, i)) = {}
    BY <1>2
  <1> QED
    BY <1>3 DEF action_successors

\* admit_pending signs with the node's own key.
LEMMA AdmitSigns ==
  ASSUME NEW n \in Node, NEW c, NEW i, NEW h, i = ensure_sponsor(n), i # None,
         h = authorizer_head(registry[n], i), h # None
  PROVE  Signs(n, admit(c, i, h))
  <1>1. i.key = initial_key(n)
    BY DEF ensure_sponsor, authorized
  <1>2. admit(c, i, h).authorizer = i /\ admit(c, i, h).action = h
    BY DEF admit, set_authorizer, AuthorizationBody
  <1>3. Durable!author(admit(c, i, h)) = n
    BY <1>1, <1>2 DEF Durable!author, initial_key
  <1>4. \A x \in registry[n] : x.authorizer = i => x.action # h
    BY HeadIsFree
  <1> QED
    BY <1>2, <1>3, <1>4 DEF Signs

\* enroll_with_join_key: what is new in its registry is a record n signed.
LEMMA AdmissionSigned ==
  ASSUME NEW n \in Node, NEW msg, NEW o, o = enroll_with_join_key(n, msg), o # None, o.registry # registry[n]
  PROVE  Signs(n, o.record) /\ o.registry = registry[n] \union {o.record}
  <1> PICK i : i = ensure_sponsor(n)
    OBVIOUS
  <1> PICK h : h = authorizer_head(registry[n], i)
    OBVIOUS
  <1> PICK r : r = admit(msg.from, i, h)
    OBVIOUS
  <1>1. i # None /\ h # None /\ o = Outcome(r, registry[n] \union {r})
    BY DEF enroll_with_join_key, Outcome
  <1> QED
    BY <1>1, AdmitSigns DEF Outcome

\* A registry in which m is active holds a record of m.
LEMMA AuthorizedRecord ==
  ASSUME NEW records, NEW m, authorized(records, m)
  PROVE  \E r \in records : r.node = m
  <1>1. status(records, m).is = "Active"
    BY DEF authorized, active_record_for_node
  <1>2. roots(records, m) # {}
    BY <1>1 DEF status
  <1> QED
    BY <1>2 DEF roots

\* Anything but a registry may be sent at any time.
LEMMA OtherMessage ==
  ASSUME NEW msg, {"type", "from", "to"} \subseteq DOMAIN msg, msg.from \in Node,
         msg.type \notin {"Push", "Admitted", "Applied"}
  PROVE  Message(msg)
  BY DEF Message

\* An established node may send its registry.
LEMMA OwnRegistry ==
  ASSUME IInv, NEW n \in Node, up[n] = "running"
  PROVE  Held(n, registry[n])
  BY DEF IInv, Stores, Established, Held

\* A node that joins is not established.
LEMMA JoiningNotEstablished ==
  ASSUME IInv, NEW n \in Node, up[n] = "joining"
  PROVE  ~ Established(n)
  BY Solo DEF IInv, Stores, Established, HasGenesis

LEMMA BroadcastStep ==
  ASSUME IInv, NEW n \in Node, up[n] = "running", broadcast_checkpoint(n), UNCHANGED <<registry, up, task>>
  PROVE  IInv'
  <1> DEFINE new == {[type |-> "Push", from |-> n, to |-> m, records |-> registry[n], open |-> TRUE] :
                       m \in connected[n]}
  <1>1. net' = net \union new
    BY DEF broadcast_checkpoint, Send
  <1>2. \A msg \in new : Message(msg)
    BY OwnRegistry DEF Message
  <1> HIDE DEF new
  <1> QED
    BY <1>1, <1>2, QuietStep

LEMMA ReplyStep ==
  ASSUME IInv, UNCHANGED <<registry, up, task>>, NEW msg, NEW reply, Reply(msg, reply), Message(reply)
  PROVE  IInv'
  BY QuietStep DEF Reply

LEMMA HandleBeginStep ==
  ASSUME IInv, NEW n \in Node, NEW msg \in net, HandleBegin(n, msg)
  PROVE  IInv'
  <1> DEFINE challenge == [sponsor |-> n, cluster |-> cluster_id(registry[n]), nonce |-> msg.attempt]
             offer     == [type |-> "Challenge", from |-> n, to |-> msg.from, challenge |-> challenge]
  <1>1. msg.to = n /\ UNCHANGED <<registry, up, task>>
    BY DEF HandleBegin, Dispatch
  <1>2. Reply(msg, offer) \/ Reply(msg, Rejected(msg))
    BY DEF HandleBegin
  <1>3. Message(offer)
    BY OtherMessage
  <1>4. Message(Rejected(msg))
    BY <1>1, OtherMessage DEF Rejected
  <1> HIDE DEF offer
  <1> QED
    BY <1>1, <1>2, <1>3, <1>4, ReplyStep

LEMMA HandleProveStep ==
  ASSUME IInv, NEW n \in Node, NEW msg \in net, HandleProve(n, msg)
  PROVE  IInv'
  <1> PICK o : o = enroll_with_join_key(n, msg)
    OBVIOUS
  <1>1. msg.to = n /\ up[n] = "running" /\ UNCHANGED <<registry, up>>
    BY DEF HandleProve, Dispatch
  <1>2. \/ o = None /\ Reply(msg, Rejected(msg)) /\ UNCHANGED task
        \/ Reply(msg, Admitted(msg, o.record, registry[n])) /\ UNCHANGED task
        \/ /\ o # None /\ o.registry # registry[n] /\ net' = net \ {msg}
           /\ Propose(n, "admit", o.registry, o.record, msg)
    BY Zenon DEF HandleProve
  <1>3. CASE Reply(msg, Rejected(msg)) /\ UNCHANGED task
    <2>1. Message(Rejected(msg))
      BY <1>1, OtherMessage DEF Rejected
    <2> QED
      BY <1>1, <1>3, <2>1, ReplyStep
  <1>4. CASE Reply(msg, Admitted(msg, o.record, registry[n])) /\ UNCHANGED task
    <2>1. Message(Admitted(msg, o.record, registry[n]))
      BY <1>1, OwnRegistry DEF Message, Admitted
    <2> QED
      BY <1>1, <1>4, <2>1, ReplyStep
  <1>5. CASE /\ o # None /\ o.registry # registry[n] /\ net' = net \ {msg}
             /\ Propose(n, "admit", o.registry, o.record, msg)
    <2> PICK t : t = [kind |-> "admit", registry |-> o.registry, candidate |-> o.record, request |-> Answerable(msg)]
      OBVIOUS
    <2>1. Proposed(n, t)
      BY <1>1, <1>5, AdmissionSigned DEF Proposed
    <2>2. t.request # None => t.request.to = n /\ t.request.from \in Node
      BY <1>1 DEF Answerable, IInv, Messages, Message
    <2>3. TaskOf(n, t)
      BY <1>1, <2>1, <2>2 DEF TaskOf
    <2> QED
      BY <1>1, <1>5, <2>3, ProposeStep DEF Propose
  <1> QED
    BY <1>2, <1>3, <1>4, <1>5

LEMMA HandlePushStep ==
  ASSUME IInv, NEW n \in Node, NEW msg \in net, HandlePush(n, msg)
  PROVE  IInv'
  <1>1. msg.to = n /\ up[n] = "running" /\ UNCHANGED <<registry, up>>
    BY DEF HandlePush, Dispatch
  <1>2. msg.from \in Node /\ Held(msg.from, msg.records)
    BY DEF HandlePush, IInv, Messages, Message
  <1>3. CASE Changes(n, msg)
    <2> PICK t : t = [kind |-> "push", registry |-> registry[n] \union msg.records, candidate |-> None,
                      request |-> Answerable(msg)]
      OBVIOUS
    <2>1. Proposed(n, t)
      BY <1>1, <1>2 DEF Proposed, Held
    <2>2. t.request # None => t.request.to = n /\ t.request.from = msg.from
      BY <1>1 DEF Answerable
    <2>3. TaskOf(n, t)
      BY <1>1, <1>2, <2>1, <2>2 DEF TaskOf, Held
    <2> QED
      BY <1>1, <1>3, <2>3, ProposeStep DEF HandlePush, Propose
  <1>4. CASE ~ Changes(n, msg)
    <2>1. Message(Applied(msg, registry[n]))
      BY <1>1, <1>2, OwnRegistry DEF Message, Applied, Held
    <2> QED
      BY <1>1, <1>4, <2>1, ReplyStep DEF HandlePush
  <1> QED
    BY <1>3, <1>4

LEMMA HandleAppliedStep ==
  ASSUME IInv, NEW n \in Node, NEW msg \in net, HandleApplied(n, msg)
  PROVE  IInv'
  <1>1. msg.to = n /\ up[n] # "down" /\ UNCHANGED <<registry, up>> /\ net' = net \ {msg}
    BY DEF HandleApplied
  <1>2. msg.from \in Node /\ Held(msg.from, msg.records) /\ Established(n)
    BY <1>1 DEF HandleApplied, IInv, Messages, Message
  <1>3. up[n] # "joining"
    BY <1>2, JoiningNotEstablished
  <1>4. CASE Changes(n, msg)
    <2> PICK t : t = [kind |-> "reply", registry |-> registry[n] \union msg.records, candidate |-> None,
                      request |-> Answerable(None)]
      OBVIOUS
    <2>1. Proposed(n, t)
      BY <1>2, <1>3 DEF Proposed, Held
    <2>2. TaskOf(n, t)
      BY <1>1, <2>1 DEF TaskOf, Answerable
    <2> QED
      BY <1>1, <1>4, <2>2, ProposeStep DEF HandleApplied, Propose
  <1>5. CASE ~ Changes(n, msg)
    BY <1>1, <1>5, QuietStep DEF HandleApplied
  <1> QED
    BY <1>4, <1>5

LEMMA JoinAdoptStep ==
  ASSUME IInv, NEW n \in Node, NEW msg \in net, JoinAdopt(n, msg)
  PROVE  IInv'
  <1>1. /\ up[n] = "joining" /\ UNCHANGED <<registry, up>> /\ net' = net \ {msg}
        /\ authorized(msg.records, msg.from)
    BY DEF JoinAdopt, validate_for
  <1>2. msg.from \in Node /\ Held(msg.from, msg.records)
    BY DEF JoinAdopt, IInv, Messages, Message
  <1>3. msg.from # n
    BY <1>1, <1>2, JoiningNotEstablished DEF Held
  <1>4. \E r \in msg.records : r.node # n
    BY <1>1, <1>3, AuthorizedRecord
  <1> PICK t : t = [kind |-> "adopt", registry |-> msg.records, candidate |-> None, request |-> Answerable(None)]
    OBVIOUS
  <1>5. Proposed(n, t)
    BY <1>1, <1>2, <1>4 DEF Proposed
  <1>6. TaskOf(n, t)
    BY <1>1, <1>5 DEF TaskOf, Answerable
  <1> QED
    BY <1>1, <1>6, ProposeStep DEF JoinAdopt, Propose

LEMMA JoinProveStep ==
  ASSUME IInv, NEW n \in Node, NEW msg \in net, JoinProve(n, msg)
  PROVE  IInv'
  <1> PICK proof : proof = [type |-> "Prove", from |-> n, to |-> msg.from, challenge |-> msg.challenge, open |-> TRUE]
    OBVIOUS
  <1>1. Message(proof)
    BY OtherMessage
  <1>2. UNCHANGED <<registry, up, task>> /\ net' = (net \ {msg}) \union {proof}
    BY DEF JoinProve
  <1> QED
    BY <1>1, <1>2, QuietStep

LEMMA JoinBeginStep ==
  ASSUME IInv, NEW n \in Node, JoinBegin(n)
  PROVE  IInv'
  <1> PICK begin : begin = [type |-> "Begin", from |-> n, to |-> join[n].sponsor, attempt |-> boots[n], open |-> TRUE]
    OBVIOUS
  <1>1. Message(begin)
    BY OtherMessage
  <1>2. UNCHANGED <<registry, up, task>> /\ net' = net \union {begin}
    BY DEF JoinBegin, Send
  <1> QED
    BY <1>1, <1>2, QuietStep

LEMMA BootStep ==
  ASSUME IInv, NEW n \in Node, Boot(n)
  PROVE  IInv'
  <1>1. CASE BootAlone(n)
    BY <1>1, LoadStep DEF BootAlone
  <1>2. ASSUME NEW s \in Node, BootJoin(n, s)
        PROVE  IInv'
    BY <1>2, LoadStep DEF BootJoin
  <1>3. ASSUME NEW s \in Node, BootReconnect(n, s)
        PROVE  IInv'
    BY <1>3, LoadStep DEF BootReconnect
  <1> QED
    BY <1>1, <1>2, <1>3 DEF Boot

\* The inductive invariant is preserved.
LEMMA NextStep ==
  ASSUME IInv, [Next]_vars
  PROVE  IInv'
  <1>1. ASSUME NEW n \in Node, Step(n)
        PROVE  IInv'
    <2>1. CASE GossipLoop(n)
      BY <2>1, BroadcastStep, QuietStep DEF GossipLoop
    <2>2. CASE Cascade(n)
      BY <2>2, BroadcastStep DEF Cascade
    <2>3. CASE JoinFail(n)
      BY <2>3, StopStep DEF JoinFail
    <2>4. ASSUME NEW msg \in net, DropPush(n, msg)
          PROVE  IInv'
      BY <2>4, QuietStep DEF DropPush
    <2> QED
      BY <1>1, <2>1, <2>2, <2>3, <2>4, StartLoopsStep, JoinBeginStep, CommitStep, JoinProveStep, JoinAdoptStep,
         HandleAppliedStep, HandleBeginStep, HandleProveStep, HandlePushStep DEF Step
  <1>2. ASSUME NEW n \in Node, NEW m \in Node, Connect(n, m)
        PROVE  IInv'
    BY <1>2, QuietStep DEF Connect
  <1>3. ASSUME NEW n \in Node, Crash(n)
        PROVE  IInv'
    BY <1>3, StopStep DEF Crash
  <1>4. CASE UNCHANGED vars
    BY <1>4, QuietStep DEF vars
  <1> QED
    BY <1>1, <1>2, <1>3, <1>4, BootStep, CommitFailsStep, DisconnectStep DEF Next, Progress

LEMMA InitIInv ==
  ASSUME Init
  PROVE  IInv
  BY DEF Init, IInv, Stores, Tasks, TaskOf, Messages
-----------------------------------------------------------------------------
(* The refinement, step by step.                                           *)

LEMMA SameGenesis == \A k : Durable!genesis(k) = genesis(k)
  BY DEF Durable!genesis, genesis, Durable!AuthorizationBody, AuthorizationBody, Durable!initial_key, initial_key

\* A boot founds a registry or loads the one there is.
LEMMA LoadRefines ==
  ASSUME IInv, NEW n \in Node, Load(n)
  PROVE  Durable!Found(n) \/ UNCHANGED registry
  <1>1. registry' = [registry EXCEPT ![n] = IF registry[n] = {} THEN {genesis(n)} ELSE registry[n]]
    BY DEF Load, initial_registry
  <1>2. CASE registry[n] = {}
    <2>1. registry' = [registry EXCEPT ![n] = {genesis(n)}]
      BY <1>1, <1>2
    <2> QED
      BY <1>2, <2>1, SameGenesis DEF Durable!Found
  <1>3. CASE registry[n] # {}
    <2>1. registry' = [registry EXCEPT ![n] = registry[n]]
      BY <1>1, <1>3
    <2> QED
      BY <2>1 DEF IInv, Stores
  <1> QED
    BY <1>2, <1>3

\* A commit signs, learns or adopts.
LEMMA CommitRefines ==
  ASSUME IInv, NEW n \in Node, Commit(n)
  PROVE  Durable!Sign(n) \/ \E m \in Node : Durable!Learn(n, m) \/ Durable!Adopt(n, m)
  <1> PICK t : t = task[n]
    OBVIOUS
  <1>1. t # None /\ registry' = [registry EXCEPT ![n] = t.registry]
    BY DEF Commit
  <1>2. Proposed(n, t)
    BY <1>1 DEF IInv, Tasks, TaskOf
  <1>3. registry'[n] = t.registry
    BY <1>1 DEF IInv, Stores
  <1>4. CASE Signs(n, t.candidate) /\ t.registry = registry[n] \union {t.candidate}
    <2>1. t.candidate \in registry'[n] /\ registry' = [registry EXCEPT ![n] = @ \union {t.candidate}]
      BY <1>1, <1>3, <1>4
    <2> QED
      BY <1>4, <2>1, Zenon DEF Durable!Sign, Signs
  <1>5. ASSUME NEW m \in Node, NEW S \in SUBSET registry[m], t.registry = registry[n] \union S
        PROVE  Durable!Learn(n, m)
    BY <1>1, <1>5 DEF Durable!Learn
  <1>6. ASSUME up[n] = "joining", NEW m \in Node, Held(m, t.registry)
        PROVE  Durable!Adopt(n, m)
    <2>1. registry[n] = {genesis(n)} /\ t.registry \in SUBSET registry[m]
      BY <1>6 DEF Held, IInv, Stores
    <2> QED
      BY <1>1, <2>1, SameGenesis DEF Durable!Adopt
  <1> QED
    BY <1>2, <1>4, <1>5, <1>6 DEF Proposed

LEMMA NextRefines ==
  ASSUME IInv, [Next]_vars
  PROVE  [Durable!Next]_registry
  <1>1. ASSUME NEW n \in Node, Boot(n)
        PROVE  Durable!Found(n) \/ UNCHANGED registry
    BY <1>1, LoadRefines DEF Boot, BootAlone, BootJoin, BootReconnect
  <1>2. ASSUME NEW n \in Node, Step(n)
        PROVE  UNCHANGED registry \/ Commit(n)
    BY <1>2 DEF Step, StartLoops, JoinBegin, GossipLoop, Cascade, JoinFail, Stop, JoinProve, JoinAdopt,
                DropPush, HandleApplied, HandleBegin, HandleProve, HandlePush
  <1>3. ASSUME NEW n \in Node, Crash(n) \/ CommitFails(n)
        PROVE  UNCHANGED registry
    BY <1>3 DEF Crash, CommitFails, Stop
  <1>4. ASSUME NEW n \in Node, NEW m \in Node, Connect(n, m) \/ Disconnect(n, m)
        PROVE  UNCHANGED registry
    BY <1>4 DEF Connect, Disconnect
  <1>5. ASSUME NEW n \in Node, Commit(n)
        PROVE  Durable!Next
    BY <1>5, CommitRefines DEF Durable!Next
  <1>6. \A n \in Node : Durable!Found(n) => Durable!Next
    BY DEF Durable!Next
  <1>7. CASE UNCHANGED vars
    BY <1>7 DEF vars
  <1> QED
    BY <1>1, <1>2, <1>3, <1>4, <1>5, <1>6, <1>7 DEF Next, Progress

LEMMA IInvTheorem == Spec => []IInv
  <1>1. Init => IInv
    BY InitIInv
  <1>2. IInv /\ [Next]_vars => IInv'
    BY NextStep
  <1> QED
    BY <1>1, <1>2, PTL DEF Spec

(***************************************************************************)
(* Enrollment implements DurableRegistry: whatever crashes, failed writes, *)
(* lost links and interleaved admissions happen, a store is founded once,  *)
(* grows by a record its node signs at a free place of its chain or by     *)
(* records another store holds, and is replaced only while its node is     *)
(* alone (initialize_identity_and_registry, commit_enrollment,             *)
(* commit_adopt_authorization).                                            *)
(***************************************************************************)
THEOREM DurableTheorem == Spec => DurableSpec
  <1>1. Init => Durable!Init
    BY DEF Init, Durable!Init
  <1>2. IInv /\ [Next]_vars => [Durable!Next]_registry
    BY NextRefines
  <1> QED
    BY <1>1, <1>2, IInvTheorem, PTL DEF Spec, DurableSpec, Durable!Spec
-----------------------------------------------------------------------------
(* What DurableRegistry promises, and Enrollment with it.                  *)

\* Every signed record is held by the node that signed it.
Owned ==
  /\ registry = [n \in Node |-> registry[n]]
  /\ \A n \in Node : \A r \in registry[n] :
       r.authorizer # None => Durable!author(r) \in Node /\ r \in registry[Durable!author(r)]

\* No node holds two records it signed at one place.
OwnChain ==
  \A n \in Node : \A r, x \in registry[n] :
    /\ r.authorizer # None /\ Durable!author(r) = n
    /\ r.authorizer = x.authorizer /\ r.action = x.action
    => r = x

LEMMA FoundKeeps ==
  ASSUME Owned, OwnChain, NEW n \in Node, Durable!Found(n)
  PROVE  (Owned /\ OwnChain)'
  <1>1. registry[n] = {} /\ registry' = [registry EXCEPT ![n] = {genesis(n)}]
    BY SameGenesis DEF Durable!Found
  <1>2. \A k \in Node : registry'[k] = IF k = n THEN {genesis(n)} ELSE registry[k]
    BY <1>1 DEF Owned
  <1>3. Owned'
    BY <1>1, <1>2, GenesisNode DEF Owned
  <1>4. OwnChain'
    BY <1>2 DEF OwnChain
  <1> QED
    BY <1>3, <1>4

LEMMA SignKeeps ==
  ASSUME Owned, OwnChain, NEW n \in Node, Durable!Sign(n)
  PROVE  (Owned /\ OwnChain)'
  <1>1. PICK r \in registry'[n] :
          /\ r.authorizer # None /\ Durable!author(r) = n
          /\ \A x \in registry[n] : x.authorizer = r.authorizer => x.action # r.action
          /\ registry' = [registry EXCEPT ![n] = @ \union {r}]
    BY DEF Durable!Sign
  <1>2. \A k \in Node : registry'[k] = IF k = n THEN registry[n] \union {r} ELSE registry[k]
    BY <1>1 DEF Owned
  <1>3. Owned'
    BY <1>1, <1>2 DEF Owned
  <1>4. OwnChain'
    BY <1>1, <1>2 DEF OwnChain
  <1> QED
    BY <1>3, <1>4

LEMMA LearnKeeps ==
  ASSUME Owned, OwnChain, NEW n \in Node, NEW m \in Node, Durable!Learn(n, m)
  PROVE  (Owned /\ OwnChain)'
  <1>1. PICK S \in SUBSET registry[m] : registry' = [registry EXCEPT ![n] = @ \union S]
    BY DEF Durable!Learn
  <1>2. \A k \in Node : registry'[k] = IF k = n THEN registry[n] \union S ELSE registry[k]
    BY <1>1 DEF Owned
  <1>3. Owned'
    BY <1>1, <1>2 DEF Owned
  <1>4. \A r \in S : r.authorizer # None /\ Durable!author(r) = n => r \in registry[n]
    BY <1>1 DEF Owned
  <1>5. \A r, x : r.authorizer = x.authorizer => Durable!author(r) = Durable!author(x)
    BY DEF Durable!author
  <1>6. OwnChain'
    BY <1>2, <1>4, <1>5 DEF OwnChain
  <1> QED
    BY <1>3, <1>6

LEMMA AdoptKeeps ==
  ASSUME Owned, OwnChain, NEW n \in Node, NEW m \in Node, Durable!Adopt(n, m)
  PROVE  (Owned /\ OwnChain)'
  <1>1. registry[n] = {genesis(n)}
    BY SameGenesis DEF Durable!Adopt
  <1>2. PICK S \in SUBSET registry[m] : registry' = [registry EXCEPT ![n] = S]
    BY DEF Durable!Adopt
  <1>3. \A k \in Node : registry'[k] = IF k = n THEN S ELSE registry[k]
    BY <1>2 DEF Owned
  <1>4. \A k \in Node : \A r \in registry[k] : r.authorizer # None => Durable!author(r) # n
    BY <1>1, GenesisNode DEF Owned
  <1>5. Owned'
    BY <1>2, <1>3, <1>4 DEF Owned
  <1>6. OwnChain'
    BY <1>2, <1>3, <1>4 DEF OwnChain
  <1> QED
    BY <1>5, <1>6

LEMMA OwnedTheorem == DurableSpec => [](Owned /\ OwnChain)
  <1>1. Durable!Init => Owned /\ OwnChain
    BY DEF Durable!Init, Owned, OwnChain
  <1>2. Owned /\ OwnChain /\ [Durable!Next]_registry => (Owned /\ OwnChain)'
    BY FoundKeeps, SignKeeps, LearnKeeps, AdoptKeeps DEF Durable!Next, Owned, OwnChain
  <1> QED
    BY <1>1, <1>2, PTL DEF DurableSpec, Durable!Spec

(***************************************************************************)
(* At every moment each record any node holds is on the disk of the node   *)
(* that signed it, and no node has signed two records at the same place of *)
(* its action chain: a sponsor that crashed before it answered, or whose   *)
(* write failed, does not sign the place again for someone else            *)
(* (commit_enrollment commits before it answers).                          *)
(***************************************************************************)
THEOREM AuthoredNoForkTheorem == Spec => [](Durable!Authored /\ Durable!NoFork)
  <1>1. Owned => Durable!Authored
    BY DEF Owned, Durable!Authored
  <1>2. Owned /\ OwnChain => Durable!NoFork
    <2> SUFFICES ASSUME Owned, OwnChain, NEW n \in Node, NEW m \in Node, NEW r \in registry[n], NEW x \in registry[m],
                        r.authorizer # None, r.authorizer = x.authorizer, r.action = x.action
                 PROVE  r = x
      BY DEF Durable!NoFork
    <2>1. Durable!author(r) = Durable!author(x)
      BY DEF Durable!author
    <2>2. /\ Durable!author(r) \in Node
          /\ r \in registry[Durable!author(r)] /\ x \in registry[Durable!author(r)]
      BY <2>1 DEF Owned
    <2> QED
      BY <2>2 DEF OwnChain
  <1> QED
    BY <1>1, <1>2, DurableTheorem, OwnedTheorem, PTL
-----------------------------------------------------------------------------
(***************************************************************************)
(* One admission per sponsor and node.  A pending admission that is to     *)
(* sign a record was begun when the sponsor had signed none for the        *)
(* candidate; what the sponsor signs is in its own store before anyone     *)
(* else's (Owned), so nothing it learns later can change that, and the     *)
(* commit of an admission ends the pending one.                            *)
(***************************************************************************)

\* None stands for an Option without a value, which is no record.
NoneIsNoRecord == \A n, i, h : genesis(n) # None /\ admit(n, i, h) # None

\* Every record here is a genesis or an admission.
PlainRecord(r) ==
  /\ r # None /\ r.predecessor = None
  /\ r.authorizer # None => r.authorizer.key = initial_key(r.authorizer.node)

AdmittedBy(s, c, r) == r.node = c /\ r.authorizer # None /\ Durable!author(r) = s

Unadmitted(s, c) == \A r \in registry[s] : ~ AdmittedBy(s, c, r)

Plain == \A n \in Node : \A r \in registry[n] : PlainRecord(r)

AdmitTask(s, t) ==
  t # None /\ t.kind = "admit" => PlainRecord(t.candidate) /\ Unadmitted(s, t.candidate.node)

AdmitTasks == \A s \in Node : AdmitTask(s, task[s])

PendingOf(s, c, p) == p # None /\ p.resume = None => Unadmitted(s, c)

Pending ==
  /\ DOMAIN quarantined = Node /\ \A s \in Node : DOMAIN quarantined[s] = Node
  /\ \A s, c \in Node : PendingOf(s, c, quarantined[s][c])

Once ==
  \A s, c \in Node : \A r, x \in registry[s] : AdmittedBy(s, c, r) /\ AdmittedBy(s, c, x) => r = x

AInv == Plain /\ AdmitTasks /\ Pending /\ Once

\* The status of a node of which there are no records but roots.  The walk over
\* successors, a recursive function, ends where it starts.
LEMMA StatusRoot ==
  ASSUME NEW records, NEW n, \A r \in records : r # None /\ r.predecessor = None
  PROVE  \/ roots(records, n) = {} /\ status(records, n) = [is |-> "Unknown", record |-> None]
         \/ status(records, n).record \in roots(records, n)
         \/ status(records, n) = [is |-> "Conflicted", record |-> None]
  <1> DEFINE Body(f) == [r \in records |->
               LET next == children(records, r)
               IN  IF ~ record_is_effective(records, r) THEN [is |-> "Conflicted", record |-> r]
                   ELSE IF next = {} THEN [is |-> state(r), record |-> r]
                   ELSE IF Unique(next) THEN f[TheOnly(next)]
                   ELSE [is |-> "Conflicted", record |-> r]]
             from == CHOOSE f : f = Body(f)
             g == [r \in records |-> IF ~ record_is_effective(records, r) THEN [is |-> "Conflicted", record |-> r]
                   ELSE [is |-> state(r), record |-> r]]
  <1>1. \A r \in records : children(records, r) = {}
    BY DEF children
  <1>2. \A f : Body(f) = g
    BY <1>1
  <1>3. g = Body(g)
    BY <1>2
  <1> HIDE DEF Body, g
  <1>4. from = Body(from)
    BY <1>3, Zenon
  <1>5. from = g
    BY <1>2, <1>4
  <1>6. status(records, n) = 
     IF roots(records, n) = {} THEN [is |-> "Unknown", record |-> None]
      ELSE IF Unique(roots(records, n)) THEN from[TheOnly(roots(records, n))]
      ELSE [is |-> "Conflicted", record |-> None]
    BY Zenon DEF status, Body
  <1>7. Unique(roots(records, n)) => TheOnly(roots(records, n)) \in roots(records, n)
    BY DEF Unique, TheOnly
  <1>8. \A r \in records : g[r].record = r
    BY DEF g
  <1>9. roots(records, n) \subseteq records
    BY DEF roots
  <1> HIDE DEF from
  <1> QED
    BY <1>5, <1>6, <1>7, <1>8, <1>9

LEMMA AInvStays ==
  ASSUME AInv, UNCHANGED registry, \A k \in Node : AdmitTask(k, task'[k]),
         DOMAIN quarantined' = Node, \A s \in Node : DOMAIN quarantined'[s] = Node,
         \A s, c \in Node : PendingOf(s, c, quarantined'[s][c])
  PROVE  AInv'
  <1>1. Plain' /\ Once'
    BY DEF AInv, Plain, Once
  <1>2. AdmitTasks'
    BY DEF AdmitTasks, AdmitTask, Unadmitted
  <1>3. Pending'
    BY DEF Pending, PendingOf, Unadmitted
  <1> QED
    BY <1>1, <1>2, <1>3 DEF AInv

LEMMA AInvQuiet ==
  ASSUME AInv, UNCHANGED <<registry, quarantined, task>>
  PROVE  AInv'
  BY AInvStays DEF AInv, AdmitTasks, Pending

\* A commit other than of an admission, or none.
LEMMA AInvPropose ==
  ASSUME AInv, IInv, UNCHANGED <<registry, quarantined>>, NEW n \in Node, NEW t, AdmitTask(n, t),
         task' = [task EXCEPT ![n] = t]
  PROVE  AInv'
  <1>1. \A k \in Node : AdmitTask(k, task'[k])
    BY DEF AInv, AdmitTasks, IInv, Stores
  <1> QED
    BY <1>1, AInvStays DEF AInv, Pending

LEMMA OrphanedAdmit ==
  ASSUME AInv, IInv, NEW n \in Node, NEW closed
  PROVE  AdmitTask(n, Orphaned(closed)[n])
  <1>1. CASE Orphaned(closed)[n] \in {task[n], None}
    BY <1>1 DEF AInv, AdmitTasks, AdmitTask
  <1>2. CASE task[n] # None /\ Orphaned(closed)[n] = [task[n] EXCEPT !.request = None]
    <2>1. {"kind", "candidate"} \subseteq DOMAIN task[n]
      BY <1>2 DEF IInv, Tasks, TaskOf
    <2>2. Orphaned(closed)[n].kind = task[n].kind /\ Orphaned(closed)[n].candidate = task[n].candidate
      BY <1>2, <2>1
    <2> QED
      BY <1>2, <2>2 DEF AInv, AdmitTasks, AdmitTask
  <1> QED
    BY <1>1, <1>2 DEF Orphaned

LEMMA AInvStop ==
  ASSUME AInv, IInv, NEW n \in Node, Stop(n)
  PROVE  AInv'
  <1> DEFINE closed == {{n, m} : m \in Node}
  <1>1. /\ UNCHANGED registry /\ task' = [Orphaned(closed) EXCEPT ![n] = None]
        /\ quarantined' = [quarantined EXCEPT ![n] = [c \in Node |-> None]]
    BY DEF Stop
  <1> HIDE DEF closed
  <1>2. \A k \in Node : task'[k] = IF k = n THEN None ELSE Orphaned(closed)[k]
    BY <1>1 DEF Orphaned
  <1>3. \A k \in Node : AdmitTask(k, task'[k])
    BY <1>2, OrphanedAdmit DEF AdmitTask
  <1>4. /\ DOMAIN quarantined' = Node /\ \A s \in Node : DOMAIN quarantined'[s] = Node
        /\ \A s, c \in Node : quarantined'[s][c] = IF s = n THEN None ELSE quarantined[s][c]
    BY <1>1 DEF AInv, Pending
  <1>5. \A s, c \in Node : PendingOf(s, c, quarantined'[s][c])
    BY <1>4 DEF AInv, Pending, PendingOf
  <1> QED
    BY <1>1, <1>3, <1>4, <1>5, AInvStays

LEMMA AInvDisconnect ==
  ASSUME AInv, IInv, NEW n \in Node, NEW m \in Node, Disconnect(n, m)
  PROVE  AInv'
  <1>1. UNCHANGED <<registry, quarantined>> /\ task' = Orphaned({{n, m}})
    BY DEF Disconnect
  <1> QED
    BY <1>1, OrphanedAdmit, AInvStays DEF AInv, Pending

LEMMA AInvLoad ==
  ASSUME NoneIsNoRecord, AInv, IInv, NEW n \in Node, Load(n)
  PROVE  AInv'
  <1>1. UNCHANGED <<quarantined, task>> /\ registry' = [registry EXCEPT ![n] = initial_registry(n)]
    BY DEF Load
  <1>2. \A k \in Node : registry'[k] = IF k = n THEN initial_registry(n) ELSE registry[k]
    BY <1>1 DEF IInv, Stores
  <1>3. /\ genesis(n) # None /\ genesis(n).predecessor = None /\ genesis(n).authorizer = None
    BY DEF NoneIsNoRecord, genesis, AuthorizationBody
  <1>4. \A k \in Node : \A r \in registry'[k] : r \in registry[k] \/ r = genesis(n)
    BY <1>2 DEF initial_registry
  <1>5. \A k \in Node : \A c : Unadmitted(k, c) => Unadmitted(k, c)'
    BY <1>3, <1>4 DEF Unadmitted, AdmittedBy
  <1>6. Plain'
    BY <1>3, <1>4 DEF AInv, Plain, PlainRecord
  <1>7. Once'
    BY <1>3, <1>4 DEF AInv, Once, AdmittedBy
  <1>8. AdmitTasks'
    BY <1>1, <1>5 DEF AInv, AdmitTasks, AdmitTask
  <1>9. Pending'
    BY <1>1, <1>5 DEF AInv, Pending, PendingOf
  <1> QED
    BY <1>6, <1>7, <1>8, <1>9 DEF AInv

\* Enrollment::begin keeps what it found as the record to resume from.
LEMMA AInvBegin ==
  ASSUME AInv, IInv, NEW n \in Node, NEW msg \in net, HandleBegin(n, msg)
  PROVE  AInv'
  <1> PICK c : c = msg.from
    OBVIOUS
  <1> PICK now : now = status(registry[n], c)
    OBVIOUS
  <1> PICK challenge : challenge = [sponsor |-> n, cluster |-> cluster_id(registry[n]), nonce |-> msg.attempt]
    OBVIOUS
  <1>1. c \in Node
    BY DEF IInv, Messages, Message
  <1>2. UNCHANGED <<registry, task>>
    BY DEF HandleBegin
  <1>3. \/ UNCHANGED quarantined
        \/ /\ now.is \in {"Unknown", "Active"}
           /\ quarantined' = [quarantined EXCEPT ![n][c] = [challenge |-> challenge, resume |-> now.record]]
    BY DEF HandleBegin
  <1>4. CASE UNCHANGED quarantined
    BY <1>2, <1>4, AInvQuiet
  <1>5. CASE /\ now.is \in {"Unknown", "Active"}
             /\ quarantined' = [quarantined EXCEPT ![n][c] = [challenge |-> challenge, resume |-> now.record]]
    <2>1. \A r \in registry[n] : r # None /\ r.predecessor = None
      BY DEF AInv, Plain, PlainRecord
    <2>2. now.record = None => roots(registry[n], c) = {}
      BY <1>5, <2>1, StatusRoot DEF roots
    <2>3. now.record = None => Unadmitted(n, c)
      BY <2>1, <2>2 DEF roots, Unadmitted, AdmittedBy
    <2>4. /\ DOMAIN quarantined' = Node /\ \A s \in Node : DOMAIN quarantined'[s] = Node
          /\ \A s, d \in Node : quarantined'[s][d] = IF s = n /\ d = c THEN [challenge |-> challenge, resume |-> now.record]
                                                     ELSE quarantined[s][d]
      BY <1>1, <1>5 DEF AInv, Pending
    <2>5. \A s, d \in Node : PendingOf(s, d, quarantined'[s][d])
      BY <2>3, <2>4 DEF AInv, Pending, PendingOf
    <2>6. \A k \in Node : AdmitTask(k, task'[k])
      BY <1>2 DEF AInv, AdmitTasks
    <2> QED
      BY <1>2, <2>4, <2>5, <2>6, AInvStays
  <1> QED
    BY <1>3, <1>4, <1>5

\* admit_pending signs a plain admission of the candidate.
LEMMA AdmissionPlain ==
  ASSUME NoneIsNoRecord, AInv, NEW n \in Node, NEW msg, NEW o, o = enroll_with_join_key(n, msg), o # None,
         o.registry # registry[n]
  PROVE  /\ PlainRecord(o.record) /\ o.record.node = msg.from
         /\ quarantined[n][msg.from] # None /\ quarantined[n][msg.from].resume = None
  <1> PICK i : i = ensure_sponsor(n)
    OBVIOUS
  <1> PICK h : h = authorizer_head(registry[n], i)
    OBVIOUS
  <1> PICK r : r = admit(msg.from, i, h)
    OBVIOUS
  <1>1. /\ i # None /\ o = Outcome(r, registry[n] \union {r})
        /\ quarantined[n][msg.from] # None /\ quarantined[n][msg.from].resume = None
    BY DEF enroll_with_join_key, Outcome
  <1>2. r.node = msg.from /\ r.predecessor = None /\ r.authorizer = i
    BY DEF admit, set_authorizer, AuthorizationBody
  <1>3. i.key = initial_key(n) /\ i = status(registry[n], n).record
    BY <1>1 DEF ensure_sponsor, authorized, active_record_for_node
  <1>4. \A x \in registry[n] : x # None /\ x.predecessor = None
    BY DEF AInv, Plain, PlainRecord
  <1>5. i \in roots(registry[n], n)
    BY <1>1, <1>3, <1>4, StatusRoot
  <1>6. i.node = n
    BY <1>5 DEF roots
  <1>7. r # None
    BY DEF NoneIsNoRecord
  <1>8. o.record = r
    BY <1>1 DEF Outcome
  <1>9. PlainRecord(r)
    BY <1>2, <1>3, <1>6, <1>7 DEF PlainRecord
  <1> QED
    BY <1>1, <1>2, <1>8, <1>9

LEMMA AInvProve ==
  ASSUME NoneIsNoRecord, AInv, IInv, NEW n \in Node, NEW msg \in net, HandleProve(n, msg)
  PROVE  AInv'
  <1> PICK o : o = enroll_with_join_key(n, msg)
    OBVIOUS
  <1>1. UNCHANGED registry /\ msg.from \in Node
    BY DEF HandleProve, IInv, Messages, Message
  <1>2. \/ UNCHANGED <<quarantined, task>>
        \/ quarantined' = [quarantined EXCEPT ![n][msg.from] = None] /\ UNCHANGED task
        \/ /\ o # None /\ o.registry # registry[n] /\ UNCHANGED quarantined
           /\ Propose(n, "admit", o.registry, o.record, msg)
    BY Zenon DEF HandleProve
  <1>3. CASE UNCHANGED <<quarantined, task>>
    BY <1>1, <1>3, AInvQuiet
  <1>4. CASE quarantined' = [quarantined EXCEPT ![n][msg.from] = None] /\ UNCHANGED task
    <2>1. /\ DOMAIN quarantined' = Node /\ \A s \in Node : DOMAIN quarantined'[s] = Node
          /\ \A s, d \in Node : quarantined'[s][d] \in {None, quarantined[s][d]}
      BY <1>1, <1>4 DEF AInv, Pending
    <2>2. \A s, d \in Node : PendingOf(s, d, quarantined'[s][d])
      BY <2>1 DEF AInv, Pending, PendingOf
    <2>3. \A k \in Node : AdmitTask(k, task'[k])
      BY <1>4 DEF AInv, AdmitTasks
    <2> QED
      BY <1>1, <2>1, <2>2, <2>3, AInvStays
  <1>5. CASE /\ o # None /\ o.registry # registry[n] /\ UNCHANGED quarantined
             /\ Propose(n, "admit", o.registry, o.record, msg)
    <2> PICK t : t = [kind |-> "admit", registry |-> o.registry, candidate |-> o.record, request |-> Answerable(msg)]
      OBVIOUS
    <2>1. /\ PlainRecord(o.record) /\ o.record.node = msg.from
          /\ quarantined[n][msg.from] # None /\ quarantined[n][msg.from].resume = None
      BY <1>5, AdmissionPlain
    <2>2. Unadmitted(n, msg.from)
      BY <1>1, <2>1 DEF AInv, Pending, PendingOf
    <2>3. AdmitTask(n, t)
      BY <2>1, <2>2 DEF AdmitTask
    <2> QED
      BY <1>1, <1>5, <2>3, AInvPropose DEF Propose
  <1> QED
    BY <1>2, <1>3, <1>4, <1>5

\* A commit brings in no admission by n but the one it is for, and that one is
\* not pending any more.
LEMMA AInvCommit ==
  ASSUME AInv, IInv, Owned, NEW n \in Node, Commit(n)
  PROVE  AInv'
  <1> PICK t : t = task[n]
    OBVIOUS
  <1>a. PICK stale : task' = [Orphaned(stale) EXCEPT ![n] = None]
    BY Zenon DEF Commit
  <1>1. /\ t # None /\ registry' = [registry EXCEPT ![n] = t.registry]
        /\ quarantined' = [quarantined EXCEPT ![n] =
                             CASE t.kind = "adopt" -> [c \in Node |-> None]
                               [] t.kind = "admit" -> [@ EXCEPT ![t.candidate.node] = None]
                               [] OTHER -> @]
    BY DEF Commit
  <1>2. Proposed(n, t)
    BY <1>1 DEF IInv, Tasks, TaskOf
  <1>3. \A k \in Node : registry'[k] = IF k = n THEN t.registry ELSE registry[k]
    BY <1>1 DEF IInv, Stores
  <1>4. t.kind = "admit" => PlainRecord(t.candidate) /\ Unadmitted(n, t.candidate.node)
    BY <1>1 DEF AInv, AdmitTasks, AdmitTask
  <1>5. \A r \in t.registry : /\ PlainRecord(r)
                              /\ r.authorizer # None /\ Durable!author(r) = n
                                   => r \in registry[n] \/ (t.kind = "admit" /\ r = t.candidate)
    <2>1. CASE t.kind = "admit" /\ t.registry = registry[n] \union {t.candidate}
      BY <1>4, <2>1 DEF AInv, Plain
    <2>2. ASSUME NEW m \in Node, NEW S \in SUBSET registry[m], t.registry = registry[n] \union S
          PROVE  \A r \in t.registry : /\ PlainRecord(r)
                                       /\ r.authorizer # None /\ Durable!author(r) = n => r \in registry[n]
      BY <2>2 DEF AInv, Plain, Owned
    <2>3. ASSUME NEW m \in Node, Held(m, t.registry)
          PROVE  \A r \in t.registry : /\ PlainRecord(r)
                                       /\ r.authorizer # None /\ Durable!author(r) = n => r \in registry[n]
      BY <2>3 DEF AInv, Plain, Owned, Held
    <2> QED
      BY <1>2, <2>1, <2>2, <2>3 DEF Proposed
  <1>6. /\ DOMAIN quarantined' = Node /\ \A s \in Node : DOMAIN quarantined'[s] = Node
        /\ \A s, c \in Node : quarantined'[s][c] = IF s = n /\ (t.kind = "adopt" \/ (t.kind = "admit" /\ c = t.candidate.node))
                                                   THEN None ELSE quarantined[s][c]
    <2>1. CASE t.kind = "adopt"
      BY <1>1, <2>1 DEF AInv, Pending
    <2>2. CASE t.kind = "admit"
      BY <1>1, <2>2 DEF AInv, Pending
    <2>3. CASE t.kind \notin {"adopt", "admit"}
      BY <1>1, <2>3 DEF AInv, Pending
    <2> QED
      BY <2>1, <2>2, <2>3
  <1>7. ASSUME NEW s \in Node, NEW c, Unadmitted(s, c), ~ (s = n /\ t.kind = "admit" /\ c = t.candidate.node)
        PROVE  Unadmitted(s, c)'
    BY <1>3, <1>5, <1>7 DEF Unadmitted, AdmittedBy
  <1>8. Plain'
    BY <1>3, <1>5 DEF AInv, Plain
  <1>9. Pending'
    <2>1. ASSUME NEW s \in Node, NEW c \in Node, NEW p, p = quarantined'[s][c]
          PROVE  PendingOf(s, c, p)'
      BY <1>6, <1>7, <2>1 DEF AInv, Pending, PendingOf
    <2> QED
      BY <1>6, <2>1 DEF Pending
  <1>10. AdmitTasks'
    <2> SUFFICES ASSUME NEW k \in Node, NEW u, u = task'[k]
                 PROVE  AdmitTask(k, u)'
      BY DEF AdmitTasks
    <2>1. u = IF k = n THEN None ELSE Orphaned(stale)[k]
      BY <1>a DEF Orphaned
    <2>2. CASE k = n
      BY <2>1, <2>2 DEF AdmitTask
    <2>3. CASE k # n
      BY <1>7, <2>1, <2>3, OrphanedAdmit DEF AdmitTask
    <2> QED
      BY <2>2, <2>3
  <1>11. Once'
    <2> SUFFICES ASSUME NEW s \in Node, NEW c \in Node, NEW r \in registry'[s], NEW x \in registry'[s],
                        AdmittedBy(s, c, r), AdmittedBy(s, c, x)
                 PROVE  r = x
      BY DEF Once, AdmittedBy, Durable!author
    <2>1. CASE r \in registry[s] /\ x \in registry[s]
      BY <2>1 DEF AInv, Once
    <2>2. CASE r \notin registry[s] \/ x \notin registry[s]
      BY <1>3, <1>4, <1>5, <2>2 DEF AdmittedBy, Unadmitted
    <2> QED
      BY <2>1, <2>2
  <1> QED
    BY <1>8, <1>9, <1>10, <1>11 DEF AInv

LEMMA AInvNext ==
  ASSUME NoneIsNoRecord, AInv, IInv, Owned, [Next]_vars
  PROVE  AInv'
  <1>1. ASSUME NEW n \in Node, NEW msg \in net, JoinAdopt(n, msg) \/ HandleApplied(n, msg) \/ HandlePush(n, msg)
        PROVE  AInv'
    <2>1. UNCHANGED <<registry, quarantined>>
      BY <1>1 DEF JoinAdopt, HandleApplied, HandlePush
    <2>2. CASE UNCHANGED task
      BY <2>1, <2>2, AInvQuiet
    <2>3. ASSUME NEW kind \in {"adopt", "reply", "push"}, NEW records, NEW request, Propose(n, kind, records, None, request)
          PROVE  AInv'
      <3> PICK t : t = [kind |-> kind, registry |-> records, candidate |-> None, request |-> Answerable(request)]
        OBVIOUS
      <3>1. AdmitTask(n, t)
        BY DEF AdmitTask
      <3> QED
        BY <2>1, <2>3, <3>1, AInvPropose DEF Propose
    <2> QED
      BY <1>1, <2>2, <2>3 DEF JoinAdopt, HandleApplied, HandlePush
  <1>2. ASSUME NEW n \in Node, Step(n)
        PROVE  AInv'
    <2>1. CASE StartLoops(n) \/ JoinBegin(n) \/ GossipLoop(n) \/ Cascade(n)
      BY <2>1, AInvQuiet DEF StartLoops, JoinBegin, GossipLoop, Cascade
    <2>2. CASE JoinFail(n)
      BY <2>2, AInvStop DEF JoinFail
    <2>3. ASSUME NEW msg \in net, JoinProve(n, msg) \/ DropPush(n, msg)
          PROVE  AInv'
      BY <2>3, AInvQuiet DEF JoinProve, DropPush
    <2> QED
      BY <1>1, <1>2, <2>1, <2>2, <2>3, AInvCommit, AInvBegin, AInvProve DEF Step
  <1>3. ASSUME NEW n \in Node, Boot(n)
        PROVE  AInv'
    BY <1>3, AInvLoad DEF Boot, BootAlone, BootJoin, BootReconnect
  <1>4. ASSUME NEW n \in Node, NEW m \in Node, Connect(n, m)
        PROVE  AInv'
    BY <1>4, AInvQuiet DEF Connect
  <1>5. ASSUME NEW n \in Node, Crash(n)
        PROVE  AInv'
    BY <1>5, AInvStop DEF Crash
  <1>6. ASSUME NEW n \in Node, CommitFails(n)
        PROVE  AInv'
    <2>1. CASE Stop(n)
      BY <2>1, AInvStop
    <2>2. CASE UNCHANGED <<registry, quarantined>> /\ task' = [task EXCEPT ![n] = None]
      <3>1. AdmitTask(n, None)
        BY DEF AdmitTask
      <3> QED
        BY <2>2, <3>1, AInvPropose
    <2> QED
      BY <1>6, <2>1, <2>2 DEF CommitFails
  <1>7. CASE UNCHANGED vars
    BY <1>7, AInvQuiet DEF vars
  <1> QED
    BY <1>2, <1>3, <1>4, <1>5, <1>6, <1>7, AInvDisconnect DEF Next, Progress

(***************************************************************************)
(* A sponsor signs at most one admission per node, however often the node  *)
(* asks again, for any number of nodes, boots, crashes, failed writes and  *)
(* lost links: begin and enroll_with_join_key resume an admission that was *)
(* already made, also one whose answer was lost.                           *)
(***************************************************************************)
THEOREM OneAdmissionTheorem ==
  ASSUME NoneIsNoRecord
  PROVE  Spec => []OneAdmission
  <1>1. Init => AInv
    BY DEF Init, AInv, Plain, AdmitTasks, AdmitTask, Pending, PendingOf, Once
  <1>2. AInv /\ IInv /\ Owned /\ [Next]_vars => AInv'
    BY AInvNext
  <1>3. AInv => OneAdmission
    <2> SUFFICES ASSUME AInv, NEW s \in Node, NEW n \in Node
                 PROVE  Cardinality({r \in registry[s] : r.node = n /\ r.authorizer # None /\ r.authorizer.node = s}) <= 1
      BY DEF OneAdmission
    <2> DEFINE S == {r \in registry[s] : r.node = n /\ r.authorizer # None /\ r.authorizer.node = s}
    <2>1. \A r \in S : r \in registry[s] /\ AdmittedBy(s, n, r)
      BY DEF AInv, Plain, PlainRecord, AdmittedBy, Durable!author, initial_key
    <2>2. \A r, x \in S : r = x
      BY <2>1 DEF AInv, Once
    <2> HIDE DEF S
    <2>3. S = {} \/ \E r : S = {r}
      BY <2>2
    <2>4. Cardinality(S) <= 1
      <3>1. Cardinality({}) = 0 /\ \A r : Cardinality({r}) = 1
        BY FS_EmptySet, FS_Singleton, Zenon
      <3>2. Cardinality(S) \in {0, 1}
        BY <2>3, <3>1, Zenon
      <3> QED
        BY <3>2
    <2> QED
      BY <2>4 DEF S
  <1>4. Spec => []Owned
    BY DurableTheorem, OwnedTheorem, PTL
  <1> QED
    BY <1>1, <1>2, <1>3, <1>4, IInvTheorem, PTL DEF Spec
=============================================================================
