-------------------------- MODULE ResourcesProofs ---------------------------
(***************************************************************************)
(* TypeOK, RecordsClimb and ContentMatches for every set of nodes, of      *)
(* versions and of artifacts, with any number of registrations and faults. *)
(* What an apply decided under the lock stays true until it releases it:   *)
(* that is Decided, the strengthening the two properties need.             *)
(***************************************************************************)
EXTENDS Resources, TLAPS

\* The apply at n that holds the lock still wins against the stored record,
\* and the file is what the steps taken so far have made of it.
DecidedAt(n) ==
  LET a == applying[n]
  IN  /\ a.artifact = a.record.content_hash
      /\ record[n] = None \/ Newer(a.record, record[n])
      /\ a.rewrites \/ ~ Rewrites(n, a.record)
      /\ a.written /\ a.rewrites => blob[n] = a.artifact
      /\ ~ a.rewrites => a.written
      /\ ~ a.rewrites /\ ~ dirty[n] => blob[n] = record[n].content_hash

Decided == \A n \in Node : applying[n] # None => DecidedAt(n)

IInv == TypeOK /\ Decided /\ ContentMatches

USE ResourcesAssumption

\* An empty store satisfies the invariant.
LEMMA InitInv == Init => IInv
BY DEF Init, IInv, TypeOK, Decided, ContentMatches

\* ExtensionBlobStore::write only completes the file of the apply it is for.
LEMMA WriteInv ==
  ASSUME IInv, NEW n \in Node, write(n)
  PROVE  IInv'
<1>1. applying[n] \in Apply
  BY DEF write, IInv, TypeOK
<1>2. TypeOK'
  <2>1. blob' \in [Node -> Artifact \union {None, Torn}]
    BY <1>1 DEF write, IInv, TypeOK, Apply
  <2>2. applying' \in [Node -> Apply \union {None}]
    <3>1. [applying[n] EXCEPT !.written = TRUE] \in Apply
      BY <1>1 DEF Apply
    <3> QED
      BY <3>1 DEF write, IInv, TypeOK
  <2> QED
    BY <2>1, <2>2 DEF write, net, IInv, TypeOK
<1>3. ASSUME NEW m \in Node, applying'[m] # None PROVE DecidedAt(m)'
  <2>1. CASE m = n
    <3>1. /\ applying'[n] = [applying[n] EXCEPT !.written = TRUE]
          /\ blob'[n] = applying[n].artifact
          /\ record' = record /\ dirty' = dirty
      BY DEF write, IInv, TypeOK
    <3>2. DecidedAt(n) /\ ~ applying[n].written
      BY DEF write, IInv, Decided
    <3> QED
      BY <1>1, <2>1, <3>1, <3>2 DEF DecidedAt, Rewrites, Apply
  <2>2. CASE m # n
    <3>1. applying'[m] = applying[m] /\ blob'[m] = blob[m] /\ record' = record /\ dirty' = dirty
      BY <2>2 DEF write, IInv, TypeOK
    <3> QED
      BY <1>3, <3>1 DEF IInv, Decided, DecidedAt, Rewrites
  <2> QED
    BY <2>1, <2>2
<1>4. ContentMatches'
  <2>1. applying'[n] # None
    <3>1. applying'[n] \in Apply
      BY <1>1 DEF write, IInv, TypeOK, Apply
    <3> QED
      BY <3>1
  <2> QED
    BY <2>1 DEF write, IInv, TypeOK, ContentMatches
<1> QED
  BY <1>2, <1>3, <1>4 DEF IInv, Decided

\* The rest of the state, which the pipeline's steps leave alone.
LEMMA OthersKept ==
  ASSUME IInv, NEW m \in Node,
         applying'[m] = applying[m], record'[m] = record[m],
         blob'[m] = blob[m], dirty'[m] = dirty[m]
  PROVE  /\ applying'[m] # None => DecidedAt(m)'
         /\ record'[m] # None /\ applying'[m] = None /\ ~ dirty'[m]
              => blob'[m] = record'[m].content_hash
BY DEF IInv, Decided, DecidedAt, Rewrites, ContentMatches

\* The lock is released; a handler may be left with a list to send.
LEMMA ReleaseType ==
  ASSUME IInv, NEW n \in Node, applying[n] # None, Release(n)
  PROVE  /\ applying' \in [Node -> Apply \union {None}]
         /\ owed' \subseteq Node \X Node
         /\ applying'[n] = None
         /\ \A m \in Node \ {n} : applying'[m] = applying[m]
<1>1. applying[n] \in Apply
  BY DEF IInv, TypeOK
<1>2. applying[n].from \in Node
  BY <1>1 DEF Apply
<1>3. Owes(n, applying[n].kind, applying[n].from) \subseteq Node \X Node
  BY <1>2 DEF Owes
<1> QED
  BY <1>3 DEF Release, IInv, TypeOK

\* records.upsert stores what the apply decided on, over the file it names.
LEMMA UpsertInv ==
  ASSUME IInv, NEW n \in Node, upsert(n)
  PROVE  IInv'
<1>1. applying[n] \in Apply /\ applying[n].written /\ DecidedAt(n)
  BY DEF upsert, IInv, TypeOK, Decided
<1>2. applying[n].record \in Record /\ applying[n].rewrites \in BOOLEAN
  BY <1>1 DEF Apply
<1>3. Release(n) /\ applying[n] # None
  BY DEF upsert
<1>4. TypeOK'
  <2>1. record' \in [Node -> Record \union {None}]
    BY <1>2 DEF upsert, IInv, TypeOK
  <2>2. dirty' \in [Node -> BOOLEAN]
    BY <1>2, Zenon DEF upsert, IInv, TypeOK
  <2> QED
    BY <1>3, <2>1, <2>2, ReleaseType DEF upsert, IInv, TypeOK
<1>5. ASSUME NEW m \in Node \ {n}
      PROVE  /\ applying'[m] = applying[m] /\ record'[m] = record[m]
             /\ blob'[m] = blob[m] /\ dirty'[m] = dirty[m]
  BY <1>3, ReleaseType DEF upsert, IInv, TypeOK
<1>6. ~ dirty'[n] => blob'[n] = record'[n].content_hash
  <2>1. record'[n] = applying[n].record /\ blob' = blob
    BY DEF upsert, IInv, TypeOK
  <2>2. CASE applying[n].rewrites
    BY <1>1, <2>1, <2>2 DEF DecidedAt
  <2>3. CASE ~ applying[n].rewrites
    <3>1. dirty'[n] = dirty[n]
      BY <2>3 DEF upsert, IInv, TypeOK
    <3> QED
      BY <1>1, <2>1, <2>3, <3>1 DEF DecidedAt, Rewrites
  <2> QED
    BY <2>2, <2>3
<1>7. applying'[n] = None
  BY <1>3, ReleaseType
<1> QED
  BY <1>4, <1>5, <1>6, <1>7, OthersKept DEF IInv, Decided, ContentMatches

\* An apply that is cut short leaves the record alone, and the file too unless
\* it had begun to rewrite it.
LEMMA CutShort ==
  ASSUME IInv, NEW n \in Node, applying'[n] = None, record' = record, blob' = blob,
         dirty' = [dirty EXCEPT ![n] = @ \/ (applying[n] # None /\ applying[n].rewrites)],
         \A m \in Node \ {n} : applying'[m] = applying[m]
  PROVE  Decided' /\ ContentMatches' /\ dirty' \in [Node -> BOOLEAN]
<1>1. dirty' \in [Node -> BOOLEAN]
  <2>1. applying[n] # None => applying[n].rewrites \in BOOLEAN
    BY DEF IInv, TypeOK, Apply
  <2> QED
    BY <2>1, Zenon DEF IInv, TypeOK
<1>2. record'[n] # None /\ ~ dirty'[n] => blob'[n] = record'[n].content_hash
  <2> SUFFICES ASSUME record'[n] # None, ~ dirty'[n]
               PROVE  blob'[n] = record'[n].content_hash
    OBVIOUS
  <2>1. ~ dirty[n] /\ (applying[n] = None \/ ~ applying[n].rewrites)
    BY DEF IInv, TypeOK
  <2> QED
    BY <2>1 DEF IInv, Decided, DecidedAt, ContentMatches
<1>3. \A m \in Node \ {n} : dirty'[m] = dirty[m]
  BY DEF IInv, TypeOK
<1> QED
  BY <1>1, <1>2, <1>3, OthersKept DEF Decided, ContentMatches

\* A failed write or a failed upsert cuts the apply short.
LEMMA FailInv ==
  ASSUME IInv, NEW n \in Node, Fail(n)
  PROVE  IInv'
<1>1. applying[n] # None /\ Release(n)
  BY DEF Fail
<1>2. dirty' = [dirty EXCEPT ![n] = @ \/ (applying[n] # None /\ applying[n].rewrites)]
  BY <1>1 DEF Fail
<1>3. Decided' /\ ContentMatches' /\ dirty' \in [Node -> BOOLEAN]
  BY <1>1, <1>2, ReleaseType, CutShort DEF Fail
<1> QED
  BY <1>1, <1>3, ReleaseType DEF Fail, Fault, IInv, TypeOK

\* A crash of the process does the same, and drops its tasks and connections.
LEMMA CrashInv ==
  ASSUME IInv, NEW n \in Node, Crash(n)
  PROVE  IInv'
<1>1. /\ applying'[n] = None
      /\ \A m \in Node \ {n} : applying'[m] = applying[m]
      /\ applying' \in [Node -> Apply \union {None}]
  BY DEF Crash, IInv, TypeOK
<1>2. Decided' /\ ContentMatches' /\ dirty' \in [Node -> BOOLEAN]
  BY <1>1, CutShort DEF Crash
<1>3. /\ waiting' \in [Node -> Node \union {None}]
      /\ owed' \subseteq owed /\ listing' \subseteq listing /\ wire' \subseteq wire
  BY DEF Crash, IInv, TypeOK
<1> QED
  BY <1>1, <1>2, <1>3 DEF Crash, Fault, IInv, TypeOK

\* The decision is taken under the lock, on the stored record.
LEMMA ReceiveInv ==
  ASSUME IInv, NEW m \in wire, receive(m)
  PROVE  IInv'
<1>1. m \in Message /\ apply(m)
  BY DEF receive, IInv, TypeOK
<1> DEFINE n == m.to
<1>2. n \in Node /\ m.from \in Node /\ m.kind \in {"request", "reply", "register"}
  BY <1>1 DEF Message
<1>3. /\ record' = record /\ dirty' = dirty
      /\ waiting' \in [Node -> Node \union {None}] /\ wire' \subseteq wire
      /\ listing' = listing /\ registrations' = registrations /\ faults' = faults
  BY <1>2 DEF receive, IInv, TypeOK
<1>4. CASE Accepted(n, m)
  <2> DEFINE a == [record |-> m.record, artifact |-> m.artifact,
                   rewrites |-> Rewrites(n, m.record), written |-> ~ Rewrites(n, m.record),
                   kind |-> m.kind, from |-> m.from]
  <2>1. /\ applying[n] = None
        /\ applying' = [applying EXCEPT ![n] = a]
        /\ blob' = IF Rewrites(n, m.record) THEN [blob EXCEPT ![n] = Torn] ELSE blob
        /\ owed' = owed
    BY <1>1, <1>4 DEF apply
  <2>2. /\ m.record \in Record /\ m.artifact = m.record.content_hash
        /\ record[n] = None \/ Newer(m.record, record[n])
    BY <1>1, <1>4 DEF Accepted, Message, should_apply_versioned
  <2>3. m.artifact \in Artifact /\ Rewrites(n, m.record) \in BOOLEAN
    BY <2>2 DEF Record, Rewrites
  <2>4. a \in Apply
    BY <1>2, <2>2, <2>3 DEF Apply
  <2>5. /\ a.record = m.record /\ a.artifact = m.artifact
        /\ a.rewrites = Rewrites(n, m.record) /\ a.written = ~ Rewrites(n, m.record)
    OBVIOUS
  <2> HIDE DEF a, n
  <2>6. blob' \in [Node -> Artifact \union {None, Torn}]
    BY <1>2, <2>1 DEF IInv, TypeOK
  <2>7. applying' \in [Node -> Apply \union {None}] /\ applying'[n] = a
    BY <1>2, <2>1, <2>4 DEF IInv, TypeOK
  <2>8. TypeOK'
    BY <1>3, <2>1, <2>6, <2>7 DEF IInv, TypeOK
  <2>9. DecidedAt(n)'
    <3>1. CASE Rewrites(n, m.record)
      BY <1>3, <2>2, <2>5, <2>7, <3>1 DEF DecidedAt, Rewrites
    <3>2. CASE ~ Rewrites(n, m.record)
      <4>1. blob' = blob /\ record[n] # None
        BY <2>1, <3>2 DEF Rewrites
      <4>2. ~ dirty[n] => blob[n] = record[n].content_hash
        BY <1>2, <2>1, <4>1 DEF IInv, ContentMatches
      <4> QED
        BY <1>3, <2>2, <2>5, <2>7, <3>2, <4>1, <4>2 DEF DecidedAt, Rewrites
    <3> QED
      BY <3>1, <3>2
  <2>10. ASSUME NEW k \in Node \ {n}
         PROVE  applying'[k] = applying[k] /\ blob'[k] = blob[k]
    BY <1>2, <2>1 DEF IInv, TypeOK
  <2>11. applying'[n] # None
    BY <2>4, <2>7
  <2> QED
    BY <1>3, <2>8, <2>9, <2>10, <2>11, OthersKept DEF IInv, Decided, ContentMatches
<1>5. CASE ~ Accepted(n, m)
  <2>1. /\ owed' = owed \union Owes(n, m.kind, m.from)
        /\ applying' = applying /\ blob' = blob
    BY <1>1, <1>5 DEF apply
  <2>2. owed' \subseteq Node \X Node
    BY <1>2, <2>1 DEF Owes, IInv, TypeOK
  <2>3. TypeOK'
    BY <1>3, <2>1, <2>2 DEF IInv, TypeOK
  <2> QED
    BY <1>3, <2>1, <2>3, OthersKept DEF IInv, Decided, ContentMatches
<1> QED
  BY <1>4, <1>5

\* Registrations, exchanges and the network leave record and file alone.
LEMMA NetInv ==
  ASSUME IInv, UNCHANGED store,
         /\ waiting' \in [Node -> Node \union {None}]
         /\ owed' \subseteq Node \X Node
         /\ listing' \subseteq [at : Node, to : Node, kind : {"request", "reply"},
                                record : Record \union {None}]
         /\ wire' \subseteq Message
         /\ registrations' \in 0..MaxRegistrations
         /\ faults' \in 0..MaxFaults
  PROVE  IInv'
<1>1. record' = record /\ blob' = blob /\ applying' = applying /\ dirty' = dirty
  BY DEF store
<1>2. TypeOK'
  BY <1>1 DEF IInv, TypeOK
<1> QED
  BY <1>1, <1>2, OthersKept DEF IInv, Decided, ContentMatches

\* ExtensionManager::register only queues the record for the apply pipeline.
LEMMA RegisterInv ==
  ASSUME IInv, NEW n \in Node, NEW v \in Version, NEW t \in Time, NEW a \in Artifact,
         register(n, v, t, a)
  PROVE  IInv'
<1>1. [kind |-> "register", from |-> n, to |-> n, artifact |-> a,
       record |-> [version |-> v, updated_at_ms |-> t, content_hash |-> a]] \in Message
  BY DEF Message, Record
<1>2. wire' \subseteq Message
  BY <1>1 DEF register, IInv, TypeOK
<1> QED
  BY <1>2, NetInv DEF register, IInv, TypeOK

\* Every step keeps the invariant.
LEMMA StepInv == IInv /\ [Next]_vars => IInv'
<1> SUFFICES ASSUME IInv, [Next]_vars PROVE IInv'
  OBVIOUS
<1>1. CASE \E n \in Node : write(n) \/ upsert(n) \/ Fail(n) \/ Crash(n)
  BY <1>1, WriteInv, UpsertInv, FailInv, CrashInv
<1>2. ASSUME NEW n \in Node, time_out(n) PROVE IInv'
  BY <1>2, NetInv DEF time_out, Fault, IInv, TypeOK
<1>3. CASE \E n \in Node, v \in Version, t \in Time, a \in Artifact : register(n, v, t, a)
  BY <1>3, RegisterInv
<1>4. ASSUME NEW n \in Node, NEW p \in Node \ {n}, sync_with_peer(n, p) PROVE IInv'
  BY <1>4, NetInv DEF sync_with_peer, IInv, TypeOK
<1>5. ASSUME NEW o \in owed, list_shared(o[1], o[2]) PROVE IInv'
  <2>1. o[1] \in Node /\ o[2] \in Node
    BY <1>5 DEF IInv, TypeOK
  <2> QED
    BY <1>5, <2>1, NetInv DEF list_shared, IInv, TypeOK
<1>6. ASSUME NEW l \in listing, read(l) PROVE IInv'
  <2>1. /\ l.at \in Node /\ l.to \in Node /\ l.kind \in {"request", "reply"}
        /\ l.record \in Record \union {None}
    BY <1>6 DEF IInv, TypeOK
  <2>2. blob[l.at] \in Artifact \union {None, Torn}
    BY <2>1 DEF IInv, TypeOK
  <2>3. wire' \subseteq Message
    BY <1>6, <2>1, <2>2 DEF read, Message, IInv, TypeOK
  <2> QED
    BY <1>6, <2>3, NetInv DEF read, IInv, TypeOK
<1>7. ASSUME NEW m \in wire, receive(m) \/ discard(m) \/ Lose(m) PROVE IInv'
  <2>1. CASE receive(m)
    BY <2>1, ReceiveInv
  <2>2. CASE discard(m)
    BY <2>2, NetInv DEF discard, IInv, TypeOK
  <2>3. CASE Lose(m)
    BY <2>3, NetInv DEF Lose, Fault, IInv, TypeOK
  <2> QED
    BY <1>7, <2>1, <2>2, <2>3
<1>8. CASE UNCHANGED vars
  BY <1>8, NetInv DEF vars, net, IInv, TypeOK
<1> QED
  BY <1>1, <1>2, <1>3, <1>4, <1>5, <1>6, <1>7, <1>8 DEF Next

\* Records, files, the apply in progress and the messages keep their types.
THEOREM TypeOKTheorem == Spec => []TypeOK
<1>1. IInv => TypeOK
  BY DEF IInv
<1> QED
  BY InitInv, StepInv, <1>1, PTL DEF Spec

\* The file under a record is the artifact it names (apply_remote_extension),
\* unless an apply is under way or the last one to write it was cut short.
THEOREM ContentMatchesTheorem == Spec => []ContentMatches
<1>1. IInv => ContentMatches
  BY DEF IInv
<1> QED
  BY InitInv, StepInv, <1>1, PTL DEF Spec

\* A stored record is only ever replaced by a newer one (apply_lock), with any
\* number of registrations and exchanges in progress.
THEOREM RecordsClimbTheorem == Spec => RecordsClimb
<1>1. ASSUME IInv, [Next]_vars, NEW n \in Node, record'[n] # record[n]
      PROVE  record'[n] # None /\ (record[n] = None \/ Newer(record'[n], record[n]))
  <2>1. PICK m \in Node : upsert(m)
    BY <1>1 DEF Next, vars, store, net, write, Fail, Crash, time_out, register,
                sync_with_peer, list_shared, read, receive, discard, Lose
  <2>2. n = m /\ record'[n] = applying[n].record
    BY <1>1, <2>1 DEF upsert, IInv, TypeOK
  <2>3. applying[n] \in Apply /\ DecidedAt(n)
    BY <1>1, <2>1, <2>2 DEF upsert, IInv, TypeOK, Decided
  <2>4. applying[n].record \in Record
    BY <2>3 DEF Apply
  <2> QED
    BY <2>2, <2>3, <2>4 DEF DecidedAt
<1>2. IInv /\ [Next]_vars =>
        [\A n \in Node : record'[n] # record[n]
           => record'[n] # None /\ (record[n] = None \/ Newer(record'[n], record[n]))]_vars
  BY <1>1
<1> QED
  BY InitInv, StepInv, <1>2, PTL DEF Spec, RecordsClimb
=============================================================================
