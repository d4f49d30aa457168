------------------------------- MODULE MCNode -------------------------------
(* One daemon and what runs inside it, each in the part of the states that   *)
(* has its name: the process and the commands that edit its files            *)
(* ("lifecycle"), an extension engine ("engine"), calls to another daemon    *)
(* ("calls"), identity and key files ("files"), certificates ("tls") and the *)
(* resource catalogue ("catalog").  What does not belong to the part keeps   *)
(* its initial value.                                                        *)
EXTENDS Lifecycle, Sequences, FiniteSets, TLC

VARIABLES
  part,
  guest, state, settings, allow, memory, hold, fuel, hook, invocation,  \* Engine
  actor, cmds, request_ids, ask, round, outbound, inbound, tokens, seen, dispatcher,
  link, net, handled, starts, events, links,                            \* Calls
  mode, inode, dest, maybe, proc, published, floor, told, faults,       \* PrivateFile
  disk, run, installed, trusts, now, nextKey, crashes,                  \* Tls
  table, store, file, lock, task, ever, batches, failures               \* Catalog

CONSTANTS Loader, Forever, Junk, a, b, c

engine == <<guest, state, settings, allow, memory, hold, fuel, hook, invocation>>
calls == <<actor, cmds, request_ids, ask, round, outbound, inbound, tokens, seen, dispatcher, link, net,
           handled, starts, events, links>>
private == <<mode, inode, dest, maybe, proc, published, floor, told, faults>>
tls == <<disk, run, installed, trusts, now, nextKey, crashes>>
resources == <<table, store, file, lock, task, ever, batches, failures>>
all == <<vars, engine, calls, private, tls, resources, part>>
-----------------------------------------------------------------------------
(* Engine: one guest of every kind; two callers and the engine's own         *)
(* configure call.                                                           *)
Plain == [k \in {"key"} |-> 1]
Allow(hosts) == [k \in {"http_allow_hosts"} |-> hosts]

Wasm ==
  [engine |-> "wasm", intact |-> TRUE, capabilities |-> {"http"}, imports |-> {"log", "http"}, exports |-> TRUE,
   chunk |-> 1, base |-> Allow({"a"}), local |-> Plain, configure |-> "known", shim |-> TRUE,
   work |-> 2, host |-> "a", output |-> "json"]

Lua ==
  [Wasm EXCEPT !.engine = "lua", !.capabilities = {}, !.imports = {}, !.shim = FALSE, !.host = None]

MCGuest ==
  {Wasm, Lua,
   [Wasm EXCEPT !.work = Forever], [Lua EXCEPT !.work = Forever],
   [Wasm EXCEPT !.base = Allow({"a", "b"}), !.local = Plain @@ Allow({"b"})],
   [Wasm EXCEPT !.local = Plain @@ Allow(Junk)],
   [Wasm EXCEPT !.capabilities = {}], [Wasm EXCEPT !.exports = FALSE], [Wasm EXCEPT !.intact = FALSE],
   [Wasm EXCEPT !.host = None, !.output = "junk"], [Wasm EXCEPT !.host = None, !.output = "out_of_bounds"],
   [Lua EXCEPT !.capabilities = {"http"}], [Lua EXCEPT !.chunk = Forever], [Lua EXCEPT !.output = "trap"]}
  \union UNION {{[g EXCEPT !.configure = "unknown"], [g EXCEPT !.local = << >>]} : g \in {Wasm, Lua}}

MCUpstream ==
  {[kind |-> "answer", status |-> 200], [kind |-> "answer", status |-> 429],
   [kind |-> "off_contract", status |-> 200], [kind |-> "transport", status |-> 0],
   [kind |-> "response_too_large", status |-> 200]}

E == INSTANCE Engine WITH
       Guest <- MCGuest, Call <- {a, b}, Upstream <- MCUpstream, Budget <- 3, MemoryCap <- 7,
       call <- invocation, lock <- hold
-----------------------------------------------------------------------------
(* Calls: a and b run; c is an authorized peer that is away.                 *)
MCTask == {[node |-> a, plane |-> "membership", peer |-> b], [node |-> a, plane |-> "registry", peer |-> b],
           [node |-> a, plane |-> "membership", peer |-> c]}

C == INSTANCE Calls WITH
       Node <- {a, b}, Task <- MCTask, command_capacity <- 1, MAX_PENDING_INBOUND <- 1,
       LastSequence <- 2, MaxEvents <- 2, MaxLinks <- 1, call <- ask
-----------------------------------------------------------------------------
F == INSTANCE PrivateFile WITH Process <- {a, b}, MaxInodes <- 3, MaxFaults <- 2

T == INSTANCE Tls WITH
       Host <- {"g", "h"}, NodeValidity <- 6, CAValidity <- 8, Skew <- 1,
       MaxTime <- 6, MaxKeys <- 5, MaxCrashes <- 1, proc <- run
-----------------------------------------------------------------------------
(* Catalog.                                                                  *)
Kept(r) == [r EXCEPT !.hash = IF r.kind = "workspace"
              THEN 10000 * r.content + 1000 * r.extra + 100 * r.labels + 10 * r.source + r.version ELSE r.content]

Record(kind, id, version, updated, content, labels, source, scope) ==
  Kept([kind |-> kind, id |-> id, name |-> IF kind \in {"memory", "workspace"} THEN id ELSE 7,
        version |-> version, updated |-> updated, content |-> content, labels |-> labels,
        source |-> source, scope |-> scope, extra |-> 1, hash |-> 0])

Ours == {Record("memory", 1, 1, 1, 1, 0, 0, "shared"), Record("skill", 2, 1, 1, 1, 1, 1, "shared"),
        Record("workspace", 2, 1, 1, 1, 0, 0, "local")}

\* Newer versions of this node's records, one that would replace its local workspace, a
\* memory of another dimension, an id that is no file name and a root that is not UTF-8.
Memory2 == Record("memory", 1, 2, 1, 2, 1, 1, "shared")
Memory3 == Record("memory", 1, 3, 1, 1, 0, 0, "shared")
MemoryWide == [Record("memory", 2, 1, 1, 1, 0, 0, "shared") EXCEPT !.extra = 0]
Skill2 == Record("skill", 2, 2, 1, 2, 0, 1, "shared")
Skill3 == Record("skill", 2, 2, 2, 1, 2, 1, "shared")
SkillUnnamed == Record("skill", 0, 2, 2, 1, 2, 1, "shared")
Workspace1 == Record("workspace", 1, 1, 1, 1, 1, 0, "shared")
Workspace2 == Record("workspace", 2, 2, 1, 2, 0, 1, "shared")
WorkspaceBytes == Record("workspace", 1, 2, 1, 9, 0, 1, "shared")
Extension1 == Record("extension", 3, 1, 1, 3, 1, 1, "shared")

Theirs == {Memory2, Memory3, MemoryWide, Skill2, Skill3, SkillUnnamed, Workspace1, Workspace2,
           WorkspaceBytes, Extension1}

\* For the conversion of these records.
W == INSTANCE Catalog WITH
       Task <- {a, b}, Stored <- Ours, PeerRecords <- Theirs, Batches <- {}, MaxBatches <- 0, MaxFaults <- 0,
       faults <- failures

Sent(r) == W!to_resource(r, TRUE)

\* What peers send, also what an older or newer build or a bad disk may make of it.
MCBatches ==
  {<<Sent(MemoryWide), Sent(Memory2), Sent(Skill2), Sent(WorkspaceBytes)>>,
   <<Sent(Skill3), Sent(Memory3), Sent(Workspace2), Sent(Workspace1)>>,
   <<W!plain_to_resource("node", 1), [Sent(Extension1) EXCEPT !.metadata = None],
     [Sent(Extension1) EXCEPT !.body.kind = "rule"], Sent(SkillUnnamed), Sent(Extension1)>>}

ASSUME BatchesAssumption == \A s, t \in MCBatches : s = t => Len(s) = Len(t)

R == INSTANCE Catalog WITH
       Task <- {a, b}, Stored <- Ours, PeerRecords <- Theirs, Batches <- MCBatches, MaxBatches <- 2, MaxFaults <- 1,
       faults <- failures
-----------------------------------------------------------------------------
MCInit ==
  /\ part \in {"lifecycle", "engine", "calls", "files", "tls", "catalog"}
  /\ Init /\ E!Init /\ C!Init /\ F!Init /\ T!Init /\ R!Init
  /\ part # "engine" => guest = Wasm
  /\ part # "files" => mode = "Replace"
  /\ part # "catalog" => table

Lives(step) == part = "lifecycle" /\ step /\ UNCHANGED <<engine, calls, private, tls, resources, part>>
Executes(step) == part = "engine" /\ step /\ UNCHANGED <<vars, calls, private, tls, resources, part>>
Calling(step) == part = "calls" /\ step /\ UNCHANGED <<vars, engine, private, tls, resources, part>>

MCNext ==
  \/ Lives(Next)
  \/ Executes(E!Next)
  \/ Calling(C!Next)
  \/ part = "files" /\ F!Next /\ UNCHANGED <<vars, engine, calls, tls, resources, part>>
  \/ part = "tls" /\ T!Next /\ UNCHANGED <<vars, engine, calls, private, resources, part>>
  \/ part = "catalog" /\ R!Next /\ UNCHANGED <<vars, engine, calls, private, tls, part>>

\* Only one of the three has steps to take.
Progresses == Lives(Progress) \/ Executes(E!Progress) \/ Calling(C!Progress)

MCSpec == MCInit /\ [][MCNext]_all /\ WF_all(Progresses)
-----------------------------------------------------------------------------
\* Of Lifecycle: a join has its key, what was accepted was told, a clean exit cuts
\* nothing and the primary is kept (JoinHasKey, AcceptedMeansTold,
\* CleanExitCutsNothing, PrimaryKept).
LifecycleSound == JoinHasKey /\ AcceptedMeansTold /\ CleanExitCutsNothing /\ PrimaryKept




\* Of Catalog: rows and snapshots are what someone stored, local rows stay and a
\* batch is taken in (StoredAsSent, LocalKept, BatchSettles, SnapshotHonest).
CatalogSound ==
  part = "catalog" => R!StoredAsSent /\ R!LocalKept /\ R!BatchSettles /\ R!SnapshotHonest

\* Of Catalog: rows only move forward.
RowsClimb == R!RowsClimb

\* A daemon told to stop stops, guest calls are answered and calls to peers come
\* to rest (StopsAsked, AnswersGiven, CallsSettle).
NodeSettles ==
  <>[](Stopped /\ (part = "engine" => E!Answered) /\ (part = "calls" => C!AtRest))
=============================================================================
