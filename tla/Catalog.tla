------------------------------ MODULE Catalog ------------------------------
(***************************************************************************)
(* The resource catalogue of one daemon: daemon/src/resource/{mapper,      *)
(* convert}.rs over the agent, workspace and extension stores.  Several    *)
(* tasks (the handler of an incoming exchange, the resource loop) apply    *)
(* batches of wire resources and take snapshots of the shared ones at the  *)
(* same time; restarts and failing calls come at every step.               *)
(*                                                                         *)
(* A digest is injective.  Text is a small number; Empty is the empty      *)
(* string or byte vector, which is also what a listing leaves out and what *)
(* a file holds between its truncation and its writing.  The field extra   *)
(* is the embedding of a memory, the sessions of a workspace or the        *)
(* manifest, engine and entry of an extension.                             *)
(***************************************************************************)
EXTENDS Naturals, Sequences

CONSTANTS
  Task,          \* tasks that exchange resources
  None,
  Stored,           \* records this daemon starts with, and their content
  PeerRecords,   \* records peers hold
  Batches,       \* sequences of wire resources a peer may send
  MaxBatches,    \* bound: exchanges
  MaxFaults      \* bound: failing calls and restarts

VARIABLES
  table,         \* the memory table exists
  store,         \* records, one set for all kinds
  file,          \* content of the content-backed kinds, [kind, id] -> text
  lock,          \* holder of every apply lock
  task,          \* [pc, batch, i, rec, hit, todo, rows, snap] of every task
  ever,          \* history: shared records committed with their content
  batches, faults

vars == <<table, store, file, lock, task, ever, batches, faults>>

Empty == 0
ContentKinds == {"skill", "rule", "extension"}
Synchronized == ContentKinds \union {"memory", "workspace"}
Kinds == Synchronized \union {"node", "session"}
Domain(kind) ==
  CASE kind = "memory" -> "agent" [] kind = "extension" -> "extension" [] OTHER -> "workspace"
Domains == {"agent", "workspace", "extension"}

Idle == [pc |-> "idle", batch |-> <<>>, i |-> 1, rec |-> None, hit |-> {}, todo |-> <<>>,
         rows |-> {}, snap |-> {}]

(***************************************************************************)
(* Records and their wire form.                                            *)
(***************************************************************************)

(* WorkspaceRecord::compute_content_hash covers every field but the update *)
(* time and the digest; the other kinds digest their content alone.        *)
compute_content_hash(r) ==
  10000 * r.content + 1000 * r.extra + 100 * r.labels + 10 * r.source + r.version
hash_of(r) == IF r.kind = "workspace" THEN compute_content_hash(r) ELSE r.content

(* to_string_lossy: a root that is not UTF-8 (9) has its bytes replaced.   *)
to_string_lossy(text) == IF text = 9 THEN 8 ELSE text

(* MetadataBuilder with memory_to_resource, versioned_to_resource,         *)
(* workspace_to_resource and extension_to_resource.  An absent source is   *)
(* the empty string on the wire.  A listing passes no content.             *)
to_resource(r, full) ==
  [metadata |-> [id |-> r.id, kind |-> r.kind, scope |-> r.scope, source |-> r.source,
                 labels |-> r.labels, updated |-> r.updated,
                 name |-> IF r.kind \in ContentKinds THEN r.name ELSE r.id],
   body |-> [kind |-> r.kind, version |-> r.version, hash |-> r.hash, labels |-> r.labels,
             content |-> CASE r.kind = "workspace" -> to_string_lossy(r.content)
                           [] full -> r.content
                           [] OTHER -> Empty,
             extra |-> IF r.kind = "memory" /\ ~full THEN Empty ELSE r.extra]]

(* node_to_resource, session_to_resource: the scaffold alone, no scope.    *)
plain_to_resource(kind, id) ==
  [metadata |-> [id |-> id, kind |-> kind, scope |-> "unspecified", source |-> 0, labels |-> 0,
                 updated |-> 0, name |-> id],
   body |-> [kind |-> kind, version |-> 0, hash |-> Empty, labels |-> 0, content |-> Empty,
             extra |-> 0]]

(* scope_from_proto: an unscoped resource is local.                        *)
metadata_scope(m) == IF m.scope = "shared" THEN "shared" ELSE "local"

(* resource_to_memory and resource_to_workspace take the labels of the     *)
(* body, resource_to_versioned and resource_to_extension those of the      *)
(* metadata block.  Memories and workspaces have no name of their own.     *)
from_resource(w) ==
  [id |-> w.metadata.id, kind |-> w.metadata.kind, scope |-> metadata_scope(w.metadata),
   source |-> w.metadata.source, updated |-> w.metadata.updated, name |-> w.metadata.name,
   labels |-> IF w.metadata.kind \in ContentKinds THEN w.metadata.labels ELSE w.body.labels,
   version |-> w.body.version, hash |-> w.body.hash, content |-> w.body.content,
   extra |-> w.body.extra]

(* The checks of apply_resource, in its order.                             *)
Admits(w) ==
  /\ w.metadata # None
  /\ w.metadata.kind \in Kinds
  /\ w.metadata.scope \in {"shared", "local", "unspecified"}
  /\ metadata_scope(w.metadata) = "shared"
  /\ w.metadata.kind \in Synchronized
  /\ w.body # None
  /\ w.body.kind = w.metadata.kind

verify_content_hash_Skipped(r) == TRUE
verify_content_hash(r) == hash_of(r) = r.hash

(* A record whose content travels with it: an empty one is skipped.        *)
Checked(r) == (r.kind # "workspace" => r.content # Empty) /\ verify_content_hash(r)

should_apply_versioned_Shared(local, remote) ==
  local # None =>
    \/ remote.version > local.version
    \/ remote.version = local.version /\ remote.updated > local.updated
    \/ remote.version = local.version /\ remote.updated = local.updated /\ remote.hash > local.hash

should_apply_versioned(local, remote) ==
  local # None =>
    /\ local.scope # "local"
    /\ \/ remote.version > local.version
       \/ remote.version = local.version /\ remote.updated > local.updated
       \/ remote.version = local.version /\ remote.updated = local.updated /\ remote.hash > local.hash

(* The columns of a memory: the source column of a local memory is null,   *)
(* and reading takes a null or an empty string for a local memory.         *)
batch_for(r) == [r EXCEPT !.source = IF @ = 0 THEN None ELSE @]
parse_memory_batch(row) == [row EXCEPT !.source = IF @ = None THEN 0 ELSE @]

(* The stored part of a record: content-backed kinds keep the content in   *)
(* the git working tree or the blob store.                                 *)
Row(r) ==
  CASE r.kind \in ContentKinds -> [r EXCEPT !.content = Empty]
    [] r.kind = "memory"       -> batch_for(r)
    [] r.kind = "workspace"    -> r
Load(row) == IF row.kind = "memory" THEN parse_memory_batch(row) ELSE row

entries(kind) == {Load(row) : row \in {x \in store : x.kind = kind}}

get(kind, id) ==
  LET found == {r \in entries(kind) : r.id = id} IN
  IF found = {} THEN None ELSE CHOOSE r \in found : TRUE

Key(r) == <<r.kind, r.id>>
FileAt(key) == IF key \in DOMAIN file THEN file[key] ELSE Empty
Put(key, text) == [k \in DOMAIN file \union {key} |-> IF k = key THEN text ELSE file[k]]
Upsert(rows, r) == {x \in rows : Key(x) # Key(r)} \union {r}

(* resource_id::validate, for ids that become file names: 0 is a bad one.  *)
validate(id) == id # 0

(* LanceDbMemoryStorage::check_dim. *)
check_dim(r) == r.extra = 1

matches_selector(r, selector) == selector # 0 => r.labels = selector

(* ResourceMapper::list and the listings of the stores by scope.           *)
list(kind, selector, scope) ==
  {r \in entries(kind) : matches_selector(r, selector) /\ (scope # "any" => r.scope = scope)}

(***************************************************************************)
(* Applying a batch.                                                       *)
(***************************************************************************)
Goes(p, pc) == task' = [task EXCEPT ![p].pc = pc]
Unlock(p) == lock' = [d \in Domains |-> IF lock[d] = p THEN None ELSE lock[d]]

Skip_Abort(p, marks) ==
  /\ task' = [task EXCEPT ![p].pc = "next", ![p].i = Len(task[p].batch) + 1, ![p].rec = None]
  /\ Unlock(p)

(* The next item of the batch; an error is logged and the item skipped.    *)
Skip(p, marks) ==
  /\ task' = [task EXCEPT ![p].pc = "next", ![p].i = @ + 1, ![p].rec = None, ![p].hit = @ \union marks]
  /\ Unlock(p)

Current(p) == task[p].batch[task[p].i]

(* The peer's request, or its answer, arrives.                             *)
Begin(p, batch) ==
  /\ task[p].pc = "idle" /\ batches < MaxBatches
  /\ task' = [task EXCEPT ![p].pc = "next", ![p].batch = batch]
  /\ batches' = batches + 1
  /\ UNCHANGED <<table, store, file, lock, ever, faults>>

Turn(p) == task[p].pc = "next" /\ task[p].i <= Len(task[p].batch)

(* apply_resource up to the apply lock: what is not a shared resource of   *)
(* a synchronized kind, carries no content or fails its digest is skipped. *)
Rejects(p) ==
  /\ Turn(p)
  /\ ~(Admits(Current(p)) /\ Checked(from_resource(Current(p))))
  /\ Skip(p, {})
  /\ UNCHANGED <<table, store, file, ever>>

Locks_Open(p, kind) == lock' = lock

(* apply_lock of the kind's domain. *)
Locks(p, kind) ==
  /\ lock[Domain(kind)] = None
  /\ lock' = [lock EXCEPT ![Domain(kind)] = p]

(* WorkspaceMetadataStorage::upsert recomputes the digest.                 *)
upsert_workspace(r) == Upsert(store, [r EXCEPT !.hash = compute_content_hash(r)])

(* apply_remote_workspace: one redb transaction under the lock.            *)
apply_remote_workspace(p) ==
  /\ Turn(p) /\ Admits(Current(p))
  /\ \E r \in {from_resource(Current(p))} :
       /\ r.kind = "workspace" /\ Checked(r) /\ lock["workspace"] = None
       /\ \E wins \in {should_apply_versioned(get(r.kind, r.id), r)} :
            /\ store' = IF wins THEN upsert_workspace(r) ELSE store
            /\ ever' = IF wins THEN ever \union {r} ELSE ever
  /\ Skip(p, {})
  /\ UNCHANGED <<table, file>>

(* apply_remote_skill, apply_remote_rule, apply_remote_extension: content  *)
(* that differs from the stored record's is rewritten before the record.   *)
apply_remote_resource(p) ==
  /\ Turn(p) /\ Admits(Current(p))
  /\ \E r \in {from_resource(Current(p))} :
       /\ r.kind \in ContentKinds /\ Checked(r) /\ lock[Domain(r.kind)] = None
       /\ \E local \in {get(r.kind, r.id)} :
            IF ~should_apply_versioned(local, r)
              THEN Skip(p, {}) /\ UNCHANGED file
            ELSE IF local # None /\ local.hash = r.hash
              THEN /\ task' = [task EXCEPT ![p].pc = "upsert", ![p].rec = r]
                   /\ Locks(p, r.kind) /\ UNCHANGED file
            ELSE IF ~validate(r.id)
              THEN Skip(p, {}) /\ UNCHANGED file
            ELSE /\ task' = [task EXCEPT ![p].pc = "write", ![p].rec = r]
                 /\ file' = Put(Key(r), Empty)
                 /\ Locks(p, r.kind)
  /\ UNCHANGED <<table, store, ever>>

(* GitContentStore::write, ExtensionBlobStore::write after the truncation. *)
write(p) ==
  /\ task[p].pc = "write"
  /\ file' = Put(Key(task[p].rec), task[p].rec.content)
  /\ Goes(p, "upsert")
  /\ UNCHANGED <<table, store, lock, ever>>

upsert(p) ==
  /\ task[p].pc = "upsert"
  /\ store' = Upsert(store, Row(task[p].rec))
  /\ ever' = ever \union {task[p].rec}
  /\ Skip(p, {})
  /\ UNCHANGED <<table, file>>

(* apply_remote_memory: the lock is held across every await of the read,   *)
(* the decision and the write.                                             *)
apply_remote_memory(p) ==
  /\ Turn(p) /\ Admits(Current(p))
  /\ \E r \in {from_resource(Current(p))} :
       /\ r.kind = "memory" /\ Checked(r)
       /\ Locks(p, r.kind)
       /\ task' = [task EXCEPT ![p].pc = "get", ![p].rec = r]
  /\ UNCHANGED <<table, store, file, ever>>

get_memory(p) ==
  /\ task[p].pc = "get"
  /\ \E r \in {task[p].rec} :
       IF should_apply_versioned(get("memory", r.id), r) /\ check_dim(r)
         THEN Goes(p, "open") /\ UNCHANGED lock
         ELSE Skip(p, {})
  /\ UNCHANGED <<table, store, file, ever>>

(* LanceDbMemoryStorage::store: a missing table is created with the row,   *)
(* an existing one has the row merged by id.                               *)
open_table(p) ==
  /\ task[p].pc = "open"
  /\ Goes(p, IF table THEN "merge" ELSE "create")
  /\ UNCHANGED <<table, store, file, lock, ever>>

merge_insert(p) ==
  /\ task[p].pc = "merge"
  /\ store' = Upsert(store, Row(task[p].rec))
  /\ ever' = ever \union {task[p].rec}
  /\ Skip(p, {})
  /\ UNCHANGED <<table, file>>

(* create_table fails on a table that exists. *)
create_table(p) ==
  /\ task[p].pc = "create"
  /\ table' = TRUE
  /\ store' = IF table THEN store ELSE Upsert(store, Row(task[p].rec))
  /\ ever' = IF table THEN ever ELSE ever \union {task[p].rec}
  /\ Skip(p, {})
  /\ UNCHANGED file

(***************************************************************************)
(* Reading.                                                                *)
(***************************************************************************)

(* local_shared_resources, once the batch is applied: kind after kind, and *)
(* the content of a record after the record was listed.                    *)
local_shared_resources(p) ==
  /\ task[p].pc = "next" /\ task[p].i > Len(task[p].batch)
  /\ task' = [task EXCEPT ![p].pc = "list",
                          ![p].todo = <<"memory", "workspace", "skill", "rule", "extension">>]
  /\ UNCHANGED <<table, store, file, lock, ever>>

list_shared(p) ==
  /\ task[p].pc = "list" /\ task[p].todo # <<>> /\ task[p].rows = {}
  /\ \E kind \in {Head(task[p].todo)} : \E rows \in {list(kind, 0, "shared")} :
       task' = [task EXCEPT ![p].todo = Tail(@),
                  ![p].rows = IF kind \in ContentKinds THEN rows ELSE {},
                  ![p].snap = IF kind \in ContentKinds THEN @ ELSE @ \union {to_resource(r, TRUE) : r \in rows}]
  /\ UNCHANGED <<table, store, file, lock, ever>>

(* content.read, blobs.read: a missing file is no content.                 *)
read(p) ==
  /\ task[p].pc = "list"
  /\ \E r \in task[p].rows :
       task' = [task EXCEPT ![p].rows = @ \ {r},
                  ![p].snap = @ \union {to_resource([r EXCEPT !.content = FileAt(Key(r))], TRUE)}]
  /\ UNCHANGED <<table, store, file, lock, ever>>

(* The API calls GetResource and ListResources of the same mapper.         *)
get_resource(p, kind, id) ==
  /\ task[p].pc = "idle" /\ batches < MaxBatches /\ get(kind, id) # None
  /\ \E r \in {get(kind, id)} :
       task' = [task EXCEPT ![p].pc = "list",
                  ![p].rows = IF kind \in ContentKinds THEN {r} ELSE {},
                  ![p].snap = IF kind \in ContentKinds THEN {} ELSE {to_resource(r, TRUE)}]
  /\ batches' = batches + 1
  /\ UNCHANGED <<table, store, file, lock, ever, faults>>

list_resources(p, kind, selector, scope) ==
  /\ task[p].pc = "idle" /\ batches < MaxBatches
  /\ task' = [task EXCEPT ![p].pc = "list",
                 ![p].snap = {to_resource(r, FALSE) : r \in list(kind, selector, scope)}]
  /\ batches' = batches + 1
  /\ UNCHANGED <<table, store, file, lock, ever, faults>>

Sent(p) ==
  /\ task[p].pc = "list" /\ task[p].todo = <<>> /\ task[p].rows = {}
  /\ task' = [task EXCEPT ![p] = Idle]
  /\ UNCHANGED <<table, store, file, lock, ever>>

(* A call to a store fails: the item is skipped, a listing is given up.    *)
Fail(p) ==
  /\ faults < MaxFaults /\ faults' = faults + 1
  /\ task[p].pc \in {"get", "open", "merge", "create", "write", "upsert", "list"}
  /\ IF task[p].pc = "list" THEN task' = [task EXCEPT ![p] = Idle] /\ UNCHANGED lock
                            ELSE Skip(p, {task[p].i})
  /\ UNCHANGED <<table, store, file, ever, batches>>

Restart ==
  /\ faults < MaxFaults /\ faults' = faults + 1
  /\ task' = [p \in Task |-> Idle]
  /\ lock' = [d \in Domains |-> None]
  /\ UNCHANGED <<table, store, file, ever, batches>>

Init ==
  /\ table \in BOOLEAN
  /\ store = {Row(r) : r \in {o \in Stored : o.kind = "memory" => table}}
  /\ file = [key \in {Key(r) : r \in {o \in Stored : o.kind \in ContentKinds}} |->
               (CHOOSE r \in Stored : Key(r) = key).content]
  /\ lock = [d \in Domains |-> None]
  /\ task = [p \in Task |-> Idle]
  /\ ever = Stored
  /\ batches = 0 /\ faults = 0

Step(p) ==
  /\ \/ Rejects(p) \/ apply_remote_workspace(p) \/ apply_remote_resource(p) \/ write(p) \/ upsert(p)
     \/ apply_remote_memory(p) \/ get_memory(p) \/ open_table(p) \/ merge_insert(p) \/ create_table(p)
     \/ local_shared_resources(p) \/ list_shared(p) \/ read(p) \/ Sent(p)
  /\ UNCHANGED <<batches, faults>>

Next ==
  \/ \E p \in Task :
       \/ Step(p) \/ Fail(p)
       \/ \E b \in Batches : Begin(p, b)
       \/ \E key \in {Key(r) : r \in store} : get_resource(p, key[1], key[2])
       \/ \E kind \in {r.kind : r \in store}, scope \in {"any", "shared", "local"} :
            list_resources(p, kind, 0, scope)
  \/ Restart

Spec == Init /\ [][Next]_vars

(***************************************************************************)
(* Properties.                                                             *)
(***************************************************************************)
Beats(r, local) == should_apply_versioned([local EXCEPT !.scope = "shared"], r)

(* A row is, field for field, one this daemon started with or one a peer   *)
(* stored: what the conversion to the wire and back, the digest check and  *)
(* concurrent applies leave is never a mixture (convert.rs).              *)
StoredAsSent == \A r \in store : \E o \in Stored \union PeerRecords : r = Row(o)

(* Node-local rows never change and are never part of what an exchange     *)
(* sends (should_apply_versioned, list_shared).                            *)
LocalKept ==
  /\ \A o \in Stored : o.scope = "local" /\ (o.kind = "memory" => table) => Row(o) \in store
  /\ \A p \in Task : task[p].batch # <<>> => \A w \in task[p].snap : w.metadata.scope = "shared"

(* Concurrent applies never move a row back, and a memory id has one row   *)
(* (the apply locks, merge_insert on the id).                              *)
RowsClimb ==
  [][\A r \in store : \E x \in store' : Key(x) = Key(r) /\ ~Beats(r, x)]_store

(* When a batch ends, every item of it that could be stored has been       *)
(* stored or has lost to what is there: an item that is refused or fails   *)
(* does not stand in the way of the others (merge_and_list_shared).        *)
BatchSettles ==
  \A p \in Task : task[p].pc = "next" /\ task[p].i > Len(task[p].batch) =>
    \A k \in DOMAIN task[p].batch \ task[p].hit :
      \E w \in {task[p].batch[k]} : Admits(w) =>
        \E r \in {from_resource(w)} :
          Checked(r) /\ (r.kind = "memory" => check_dim(r)) /\ (r.kind \in ContentKinds => validate(r.id))
            => get(r.kind, r.id) # None /\ ~should_apply_versioned(get(r.kind, r.id), r)

(* Records and their content are read one after the other while applies    *)
(* go on; a receiver's checks accept only what was once committed here as  *)
(* one resource (local_shared_resources, get_versioned, verify_content).   *)
SnapshotHonest ==
  \A p \in Task : \A w \in task[p].snap :
    Admits(w) => \E r \in {from_resource(w)} : Checked(r) => r \in ever
=============================================================================
