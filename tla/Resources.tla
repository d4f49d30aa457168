----------------------------- MODULE Resources ------------------------------
(***************************************************************************)
(* One cluster-shared extension at several nodes: the versioned record in  *)
(* redb, its artifact in a file, the apply pipeline that writes both       *)
(* (crates/storage/src/extension/mod.rs), the exchange that spreads them   *)
(* (crates/daemon/src/sync/resource.rs, resource/mapper.rs) and the        *)
(* registration of new versions (crates/daemon/src/extension/mod.rs).      *)
(* Skills and rules go through a pipeline of the same shape                *)
(* (storage/src/workspace/mod.rs, apply_remote_resource).                  *)
(*                                                                         *)
(* Resources with different ids do not influence each other, so one id is  *)
(* enough.  An artifact is represented by its content hash: the hash is    *)
(* injective, and the numbers are in the order of the hash strings.  The   *)
(* record is one redb transaction; the artifact is a plain file that       *)
(* std::fs::write truncates first, so it is Torn until it is written.      *)
(***************************************************************************)
EXTENDS Naturals, FiniteSets

CONSTANTS Node, Artifact,
          Version, Time,       \* what registrations carry; clocks may be skewed
          None, Torn,
          MaxRegistrations,    \* bound: registrations
          MaxFaults            \* bound: crashes, failed writes, lost messages

Record == [version : Version, updated_at_ms : Time, content_hash : Artifact]

\* An apply that holds the lock: what it stores, and how far it is.
Apply == [record : Record, artifact : Artifact, rewrites : BOOLEAN, written : BOOLEAN,
          kind : {"request", "reply", "register"}, from : Node]

ASSUME ResourcesAssumption ==
  /\ Artifact \subseteq Nat /\ Version \subseteq Nat /\ Time \subseteq Nat
  /\ None \notin Record \union Apply \union Artifact \union Node
  /\ Torn \notin Artifact \union {None}
  /\ MaxRegistrations \in Nat /\ MaxFaults \in Nat

VARIABLES record,     \* record[n]: the row of the records table
          blob,       \* blob[n]: the file of ExtensionBlobStore
          applying,   \* applying[n]: the apply that holds apply_lock, or None
          waiting,    \* waiting[n]: the peer whose answer n's sync loop awaits
          owed,       \* <<p, q>>: p's handler is yet to list its set for q
          listing,    \* records listed whose artifact is not read yet
          wire,       \* requests, replies and registrations yet to be applied
          dirty,      \* history: n's file was written by an apply cut short
          registrations, faults

store == <<record, blob, applying, dirty>>
net   == <<waiting, owed, listing, wire>>
vars  == <<store, net, registrations, faults>>

Init ==
  /\ record = [n \in Node |-> None]
  /\ blob = [n \in Node |-> None]
  /\ applying = [n \in Node |-> None]
  /\ waiting = [n \in Node |-> None]
  /\ owed = {}
  /\ listing = {}
  /\ wire = {}
  /\ dirty = [n \in Node |-> FALSE]
  /\ registrations = 0
  /\ faults = 0

Fault == faults < MaxFaults /\ faults' = faults + 1
-----------------------------------------------------------------------------
(* The apply pipeline: apply_remote_extension.                             *)

\* The order on records: version, then timestamp, then content hash.
Newer(a, b) ==
  \/ a.version > b.version
  \/ /\ a.version = b.version
     /\ \/ a.updated_at_ms > b.updated_at_ms
        \/ a.updated_at_ms = b.updated_at_ms /\ a.content_hash > b.content_hash

\* Mutant: a record of the same version always replaces the stored one.
should_apply_versioned_SameVersion(local, remote) ==
  local = None \/ remote.version >= local.version

\* Mutant: no tiebreak on the content hash.
should_apply_versioned_NoTiebreak(local, remote) ==
  \/ local = None
  \/ remote.version > local.version
  \/ remote.version = local.version /\ remote.updated_at_ms > local.updated_at_ms

should_apply_versioned(local, remote) == local = None \/ Newer(remote, local)

\* Mutant: the artifact is not checked against the declared hash.
Accepted_Unverified(n, m) ==
  /\ m.record # None
  /\ should_apply_versioned(record[n], m.record)

\* Not empty, verified, and newer than what is stored.
Accepted(n, m) ==
  /\ m.record # None
  /\ m.artifact = m.record.content_hash
  /\ should_apply_versioned(record[n], m.record)

\* Mutant: the file is written for a new id only.
Rewrites_NewOnly(n, r) == record[n] = None

\* The file is left alone when the stored record names the same content.
Rewrites(n, r) == record[n] = None \/ record[n].content_hash # r.content_hash

\* A handler that has merged the request goes on to list its own set.
Owes(n, kind, from) == IF kind = "request" THEN {<<n, from>>} ELSE {}

\* The lock is taken and the decision made; a rewrite starts by truncating.
apply(m) ==
  LET n == m.to
  IN  /\ applying[n] = None
      /\ IF Accepted(n, m)
           THEN /\ applying' = [applying EXCEPT ![n] =
                     [record |-> m.record, artifact |-> m.artifact,
                      rewrites |-> Rewrites(n, m.record), written |-> ~ Rewrites(n, m.record),
                      kind |-> m.kind, from |-> m.from]]
                /\ blob' = IF Rewrites(n, m.record) THEN [blob EXCEPT ![n] = Torn] ELSE blob
                /\ UNCHANGED owed
           ELSE /\ owed' = owed \union Owes(n, m.kind, m.from)
                /\ UNCHANGED <<applying, blob>>

\* ExtensionBlobStore::write returns.
write(n) ==
  /\ applying[n] # None /\ ~ applying[n].written
  /\ blob' = [blob EXCEPT ![n] = applying[n].artifact]
  /\ applying' = [applying EXCEPT ![n].written = TRUE]
  /\ UNCHANGED <<record, dirty, net, registrations, faults>>

\* The lock is released.
Release(n) ==
  /\ applying' = [applying EXCEPT ![n] = None]
  /\ owed' = owed \union Owes(n, applying[n].kind, applying[n].from)

\* records.upsert, in one transaction.
upsert(n) ==
  /\ applying[n] # None /\ applying[n].written
  /\ record' = [record EXCEPT ![n] = applying[n].record]
  /\ dirty' = [dirty EXCEPT ![n] = @ /\ ~ applying[n].rewrites]
  /\ Release(n)
  /\ UNCHANGED <<blob, waiting, listing, wire, registrations, faults>>

\* The blob write or the upsert fails; apply returns the error.
Fail(n) ==
  /\ Fault
  /\ applying[n] # None
  /\ dirty' = [dirty EXCEPT ![n] = @ \/ applying[n].rewrites]
  /\ Release(n)
  /\ UNCHANGED <<record, blob, waiting, listing, wire, registrations>>
-----------------------------------------------------------------------------
(* ExtensionManager::register.  The version is checked here and the record *)
(* is applied later, once the lock is free.                                *)

register(n, v, t, a) ==
  /\ registrations < MaxRegistrations
  /\ registrations' = registrations + 1
  /\ record[n] # None => v > record[n].version
  /\ wire' = wire \union
       {[kind |-> "register", from |-> n, to |-> n, artifact |-> a,
         record |-> [version |-> v, updated_at_ms |-> t, content_hash |-> a]]}
  /\ UNCHANGED <<store, waiting, owed, listing, faults>>
-----------------------------------------------------------------------------
(* ResourceSync.  The list of records and the artifacts are read one after *)
(* the other, without the lock (local_shared_resources).                   *)

\* The loop of n is between two sessions.
BetweenSessions(n) ==
  /\ waiting[n] = None
  /\ applying[n] # None => applying[n].kind # "reply"

sync_with_peer(n, p) ==
  /\ BetweenSessions(n)
  /\ waiting' = [waiting EXCEPT ![n] = p]
  /\ listing' = listing \union [at : {n}, to : {p}, kind : {"request"}, record : {record[n]}]
  /\ UNCHANGED <<store, owed, wire, registrations, faults>>

\* The handler's own list, after it merged the request of q.
list_shared(p, q) ==
  /\ <<p, q>> \in owed
  /\ owed' = owed \ {<<p, q>>}
  /\ listing' = listing \union [at : {p}, to : {q}, kind : {"reply"}, record : {record[p]}]
  /\ UNCHANGED <<store, waiting, wire, registrations, faults>>

\* blobs().read, and the message is sent; a record is missing on both sides.
read(l) ==
  /\ listing' = listing \ {l}
  /\ wire' = wire \union
       {[kind |-> l.kind, from |-> l.at, to |-> l.to, record |-> l.record,
         artifact |-> IF l.record = None THEN None ELSE blob[l.at]]}
  /\ UNCHANGED <<store, waiting, owed, registrations, faults>>

\* merge_and_list_shared, the tail of sync_with_peer, and of register.
receive(m) ==
  /\ m.kind = "reply" => waiting[m.to] = m.from
  /\ apply(m)
  /\ wire' = wire \ {m}
  /\ waiting' = IF m.kind = "reply" THEN [waiting EXCEPT ![m.to] = None] ELSE waiting
  /\ UNCHANGED <<record, dirty, listing, registrations, faults>>

\* A session of n that is still under way: request, handling or reply.
UnderWay(n) ==
  \/ \E l \in listing : <<l.kind, n>> \in {<<"request", l.at>>, <<"reply", l.to>>}
  \/ \E m \in wire : <<m.kind, n>> \in {<<"request", m.from>>, <<"reply", m.to>>}
  \/ \E p \in Node : \/ <<p, n>> \in owed
                     \/ /\ applying[p] # None
                        /\ applying[p].kind = "request" /\ applying[p].from = n

\* RPC_TIMEOUT: the session ends without an answer.  It is a fault when the
\* answer was on its way; the peer goes on with the request all the same.
time_out(n) ==
  /\ waiting[n] # None
  /\ IF UnderWay(n) THEN Fault ELSE UNCHANGED faults
  /\ waiting' = [waiting EXCEPT ![n] = None]
  /\ UNCHANGED <<store, owed, listing, wire, registrations>>

\* A reply nobody waits for any more.
discard(m) ==
  /\ m.kind = "reply" /\ waiting[m.to] # m.from
  /\ wire' = wire \ {m}
  /\ UNCHANGED <<store, waiting, owed, listing, registrations, faults>>

Lose(m) ==
  /\ m.kind # "register"
  /\ Fault
  /\ wire' = wire \ {m}
  /\ UNCHANGED <<store, waiting, owed, listing, registrations>>

\* The process dies: the lock, its tasks and its connections are gone.
Crash(n) ==
  /\ Fault
  /\ applying' = [applying EXCEPT ![n] = None]
  /\ dirty' = [dirty EXCEPT ![n] = @ \/ (applying[n] # None /\ applying[n].rewrites)]
  /\ waiting' = [waiting EXCEPT ![n] = None]
  /\ owed' = {o \in owed : n \notin {o[1], o[2]}}
  /\ listing' = {l \in listing : n \notin {l.at, l.to}}
  /\ wire' = {m \in wire : n \notin {m.from, m.to}}
  /\ UNCHANGED <<record, blob, registrations>>

Next ==
  \/ \E n \in Node : write(n) \/ upsert(n) \/ Fail(n) \/ time_out(n) \/ Crash(n)
  \/ \E n \in Node, v \in Version, t \in Time, a \in Artifact : register(n, v, t, a)
  \/ \E n \in Node : \E p \in Node \ {n} : sync_with_peer(n, p)
  \/ \E o \in owed : list_shared(o[1], o[2])
  \/ \E l \in listing : read(l)
  \/ \E m \in wire : receive(m) \/ discard(m) \/ Lose(m)

Spec == Init /\ [][Next]_vars

(***************************************************************************)
(* The tasks of a node run on, a message that is not lost is handled, and  *)
(* sync_with_peers visits every peer in each of its rounds.                *)
(***************************************************************************)
Tasks(n) ==
  \/ write(n) \/ upsert(n) \/ time_out(n)
  \/ \E p \in Node : list_shared(n, p)
  \/ \E l \in listing : l.at = n /\ read(l)
  \/ \E m \in wire : m.to = n /\ discard(m)

Receives(n) == \E m \in wire : m.to = n /\ receive(m)

FairSpec ==
  /\ Spec
  /\ \A n \in Node : WF_vars(Tasks(n)) /\ SF_vars(Receives(n))
  /\ \A n, p \in Node : n # p => SF_vars(sync_with_peer(n, p))
-----------------------------------------------------------------------------
Message == [kind : {"request", "reply", "register"}, from : Node, to : Node,
            record : Record \union {None}, artifact : Artifact \union {None, Torn}]

TypeOK ==
  /\ record \in [Node -> Record \union {None}]
  /\ blob \in [Node -> Artifact \union {None, Torn}]
  /\ applying \in [Node -> Apply \union {None}]
  /\ waiting \in [Node -> Node \union {None}]
  /\ owed \subseteq Node \X Node
  /\ listing \subseteq [at : Node, to : Node, kind : {"request", "reply"},
                        record : Record \union {None}]
  /\ wire \subseteq Message
  /\ dirty \in [Node -> BOOLEAN]
  /\ registrations \in 0..MaxRegistrations
  /\ faults \in 0..MaxFaults

(***************************************************************************)
(* "Serializes the read-check-write apply pipeline so concurrent applies   *)
(* of the same extension cannot interleave and let an older version win    *)
(* the final write" (storage/src/extension/mod.rs:147): a stored record is *)
(* only ever replaced by a newer one.                                      *)
(***************************************************************************)
RecordsClimb ==
  [][\A n \in Node : record'[n] # record[n]
       => record'[n] # None /\ (record[n] = None \/ Newer(record'[n], record[n]))]_vars

(***************************************************************************)
(* The file under a record is the artifact the record names, whatever      *)
(* mixture of records and artifacts other nodes read and sent, unless an   *)
(* apply is under way or the last one that wrote the file was cut short.   *)
(***************************************************************************)
ContentMatches ==
  \A n \in Node :
    record[n] # None /\ applying[n] = None /\ ~ dirty[n]
      => blob[n] = record[n].content_hash

(***************************************************************************)
(* Once registrations and faults cease, every node holds the same record   *)
(* over the artifact it names, or some node is left with a file that an    *)
(* apply cut short has written.                                            *)
(***************************************************************************)
Agreement ==
  /\ \A n, q \in Node : record[n] = record[q]
  /\ \A n \in Node : record[n] # None => blob[n] = record[n].content_hash

ResourcesConverge == <>[](Agreement \/ \E n \in Node : dirty[n])

(***************************************************************************)
(* "if the blob write fails, the stored metadata still points at the       *)
(* previous content hash and a retry of the same record is not skipped, so *)
(* the pipeline converges" (storage/src/extension/mod.rs:210): a record is *)
(* stored over the artifact it names.                                      *)
(***************************************************************************)
CommitRestores ==
  [][\A n \in Node : record'[n] # record[n] => blob'[n] = record'[n].content_hash]_vars
=============================================================================
