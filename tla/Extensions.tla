----------------------------- MODULE Extensions -----------------------------
(***************************************************************************)
(* The extension subsystem of the daemons (crates/daemon/src/extension/,   *)
(* rpc/extension.rs, llm.rs, overlay_transport.rs): records that arrive by *)
(* registration or by synchronisation, the reconcile pass that makes the   *)
(* running instances follow them, the capabilities a node announces, and   *)
(* the routing of invocations, hooks and LLM calls by what others announce.*)
(*                                                                         *)
(* Synchronisation and gossip are abstract: Sync takes over what a peer    *)
(* stores (module Resources), Learn what it announces (Gossip, Swim).  An  *)
(* artifact stands for its hash.  Node labels change only with the         *)
(* configuration, so they are constant.                                    *)
(***************************************************************************)
EXTENDS Naturals, Sequences, FiniteSets, SequencesExt

CONSTANTS Node,            \* numbered: peers are tried in the order of their ids
          Ext,             \* extension ids, numbered: the order of a listing
          Package,         \* the packages operators register
          labels,          \* labels[n]: the labels of a node
          KNOWN_CAPABILITIES, \* KNOWN_CAPABILITIES[n]: of the build a node runs
          Call, None,
          MaxFaults        \* bound: crashes, failed writes, failed loads and lost replies

VARIABLES record,          \* record[n][x]: the extension table
          blob,            \* blob[n][x]: the artifact in the blob store
          applying,        \* applying[n]: the record of an apply between its two writes
          instance,        \* instance[n][x]: LoadedExtension
          pass,            \* pass[n]: the reconcile pass under way
          permit,          \* permit[n]: a notification nobody waited for
          up,              \* up[n]: the daemon runs
          advert,          \* advert[n][x]: ext.<x> in the node's own annotations
          view,            \* view[n][m][x]: the same, as n's membership has it
          call, hook, faults

store == <<record, blob, applying>>
manager == <<instance, pass, permit>>
members == <<advert, view>>
callers == <<call, hook>>
vars == <<store, manager, up, members, callers, faults>>

Nothing == [x \in Ext |-> None]
Idle == [step |-> "idle", failed |-> FALSE]

Init ==
  /\ record = [n \in Node |-> Nothing] /\ blob = record /\ instance = record /\ advert = record
  /\ view = [n \in Node |-> [m \in Node |-> Nothing]]
  /\ applying = [n \in Node |-> None]
  /\ pass = [n \in Node |-> Idle] /\ permit = [n \in Node |-> FALSE]
  /\ up = [n \in Node |-> TRUE]
  /\ call = [c \in Call |-> None] /\ hook = None /\ faults = 0

Fault == faults < MaxFaults /\ faults' = faults + 1
-----------------------------------------------------------------------------
(* Manifests.                                                              *)

\* ExtensionManifest::from_map, on the build of node n.
from_map(n, manifest) ==
  IF /\ manifest.semver # "invalid"
     /\ manifest.capabilities \subseteq KNOWN_CAPABILITIES[n]
     /\ manifest.point # ""
    THEN manifest ELSE None

matches_selector(n, manifest) == manifest.selector \subseteq labels[n]
-----------------------------------------------------------------------------
(* Records.                                                                *)

should_apply_versioned(local, remote) ==
  local # None =>
    \/ remote.version > local.version
    \/ remote.version = local.version /\ remote.updated > local.updated
    \/ /\ remote.version = local.version /\ remote.updated = local.updated
       /\ remote.artifact > local.artifact

\* The first half of apply_remote_extension: the artifact is written before the
\* record, unless the record names the artifact already.
Write(n, r, artifact) ==
  /\ applying[n] = None /\ up[n]
  /\ artifact = r.artifact /\ should_apply_versioned(record[n][r.id], r)
  /\ applying' = [applying EXCEPT ![n] = r]
  /\ blob' = IF record[n][r.id] # None /\ record[n][r.id].artifact = r.artifact THEN blob
             ELSE [blob EXCEPT ![n][r.id] = artifact]
  /\ UNCHANGED <<record, manager, up, members, callers, faults>>

\* The shell reads the package file and its artifact before it connects.
load_package(p) ==
  p.engine \in {"wasm", "lua"} /\ p.manifest.semver # "invalid" /\ p.artifact # None

\* register: the version has to increase over the stored one.
register(n, p) ==
  /\ load_package(p)
  /\ p.engine \in {"wasm", "lua"} /\ from_map(n, p.manifest) # None
  /\ record[n][p.id] # None => p.version > record[n][p.id].version
  /\ Write(n, p, p.artifact)

\* apply_resource, of the record and the artifact a peer holds.
Sync(n, m, x) ==
  /\ n # m /\ up[m] /\ record[m][x] # None
  /\ Write(n, record[m][x], blob[m][x])

\* Mutant: an applied extension does not notify the reconcile loop.
Commit_Silent(n) ==
  LET r == applying[n]
  IN  /\ r # None
      /\ record' = [record EXCEPT ![n][r.id] = r] /\ applying' = [applying EXCEPT ![n] = None]
      /\ UNCHANGED <<blob, manager, up, members, callers, faults>>

\* The second half; the reconcile loop is notified.
Commit(n) ==
  LET r == applying[n]
  IN  /\ r # None
      /\ record' = [record EXCEPT ![n][r.id] = r] /\ applying' = [applying EXCEPT ![n] = None]
      /\ permit' = [permit EXCEPT ![n] = TRUE]
      /\ UNCHANGED <<blob, instance, pass, up, members, callers, faults>>

\* The second half fails.
WriteFails(n) ==
  /\ applying[n] # None /\ Fault /\ applying' = [applying EXCEPT ![n] = None]
  /\ UNCHANGED <<record, blob, manager, up, members, callers>>
-----------------------------------------------------------------------------
(* The reconcile pass.                                                     *)

\* failed (history): a load of the pass failed for a passing reason.
Reconciling(n) ==
  [step |-> "load", failed |-> FALSE, records |-> record[n],
   todo |-> SetToSortSeq({x \in Ext : record[n][x] # None}, <)]

\* reconcile, up to the lock of the instances: the pass lists the records.
reconcile(n) ==
  /\ up[n] /\ pass[n].step = "idle" /\ pass' = [pass EXCEPT ![n] = Reconciling(n)]
  /\ UNCHANGED <<store, instance, up, members, callers, faults>>

\* run: a pass starts with the tick ...
Tick(n) == reconcile(n) /\ UNCHANGED permit

\* ... or with a notification, which it takes.
Notified(n) == permit[n] /\ reconcile(n) /\ permit' = [permit EXCEPT ![n] = FALSE]

\* The instances are locked until all records are done.
Locked(n) == pass[n].step = "load" /\ pass[n].todo # <<>>

\* Mutant: the engine does not check the artifact.
verify_Skipped(artifact, r) == artifact # None

\* ExtensionPackage::verify, and that there is an artifact.
verify(artifact, r) == artifact = r.artifact

\* load: engines take the artifact they are given or refuse it for good.
load(n, r) ==
  IF r.engine \in {"wasm", "lua"} /\ verify(blob[n][r.id], r) /\ r.loads
    THEN [version |-> r.version, semver |-> r.manifest.semver, artifact |-> blob[n][r.id]]
    ELSE None

\* Mutant: an instance is kept when the node is no longer selected.
Reconciled_Keeps(n, r, failed) ==
  IF instance[n][r.id] # None /\ instance[n][r.id].version = r.version THEN instance[n][r.id]
  ELSE LET l == load(n, r) IN IF l = None \/ failed THEN instance[n][r.id] ELSE l

\* The instance a pass leaves for record r: a manifest that cannot be read and a
\* failed load leave the previous one.
Reconciled(n, r, failed) ==
  LET old == instance[n][r.id]
      new == load(n, r)
  IN  IF from_map(n, r.manifest) = None THEN old
      ELSE IF ~ matches_selector(n, r.manifest) THEN None
      ELSE IF old # None /\ old.version = r.version THEN old
      ELSE IF new = None \/ failed THEN old ELSE new

\* The pass takes the next record of its list, while records and artifacts may
\* change.  (Records are never deleted, so no instance is without one.)
Load(n) ==
  LET x == Head(pass[n].todo)
      r == pass[n].records[x]
  IN  /\ Locked(n)
      /\ \E failed \in BOOLEAN :
           /\ IF failed THEN Fault ELSE UNCHANGED faults
           /\ instance' = [instance EXCEPT ![n][x] = Reconciled(n, r, failed)]
           /\ pass' = [pass EXCEPT ![n].todo = Tail(@), ![n].failed = @ \/ failed]
      /\ UNCHANGED <<store, permit, up, members, callers>>

\* The capabilities of the running set; update_local_annotations replaces them.
capabilities(n) == [x \in Ext |-> IF instance[n][x] = None THEN None ELSE instance[n][x].semver]

update_local_annotations(n) ==
  /\ pass[n].step = "load" /\ pass[n].todo = <<>>
  /\ advert' = [advert EXCEPT ![n] = capabilities(n)]
  /\ view' = [view EXCEPT ![n][n] = capabilities(n)]
  /\ pass' = [pass EXCEPT ![n] = [Idle EXCEPT !.failed = pass[n].failed]]
  /\ UNCHANGED <<store, instance, permit, up, callers, faults>>

\* What n's membership says of m follows m's announcements; a member that is
\* down is not active.
Learn(n, m) ==
  /\ n # m /\ up[n]
  /\ view' = [view EXCEPT ![n][m] = IF up[m] THEN advert[m] ELSE Nothing]
  /\ view' # view
  /\ UNCHANGED <<store, manager, up, advert, callers, faults>>
-----------------------------------------------------------------------------
(* Invocations.  The frames of a call are the nodes it is at: a forwarded  *)
(* call runs in the frame on top of the one that waits for it.             *)

Frame(n, forwarded) == [node |-> n, forwarded |-> forwarded, step |-> "check",
                        candidates |-> <<>>, answer |-> None]

\* via: who calls, "rpc", "llm" or "hook".
NewCall(n, x, via) == [ext |-> x, via |-> via, frames |-> <<Frame(n, FALSE)>>, runs |-> <<>>, result |-> None]

Top(c) == Last(call[c].frames)

Active(c) == call[c] # None /\ call[c].frames # <<>>

\* A step of the node call c is at.
At(c, f, runs) ==
  /\ call' = [call EXCEPT ![c].frames = Append(Front(@), f), ![c].runs = @ \o runs]
  /\ UNCHANGED <<store, manager, up, members, hook, faults>>

Answer(f, kind, by) == [f EXCEPT !.step = "answer", !.answer = [kind |-> kind, by |-> by]]

\* authorized_peers puts those it has a healthy link to first.
Before(a, b) == (up[a] /\ ~ up[b]) \/ (up[a] = up[b] /\ a < b)

\* The members that announce the extension, in that order.
route_candidates(n, x) ==
  SetToSortSeq({m \in Node \ {n} : view[n][m][x] # None}, Before)

\* Mutant: a request that was forwarded is forwarded again.
unserved_Forwards(n, x, f) ==
  LET candidates == route_candidates(n, x)
  IN  IF candidates = <<>> THEN Answer(f, "NotFound", None)
      ELSE [f EXCEPT !.step = "forward", !.candidates = candidates]

\* invoke, without a local instance.
unserved(n, x, f) ==
  LET candidates == route_candidates(n, x)
  IN  IF f.forwarded THEN Answer(f, "AlreadyForwarded", None)
      ELSE IF candidates = <<>> THEN Answer(f, "NotFound", None)
      ELSE [f EXCEPT !.step = "forward", !.candidates = candidates]

\* invoke looks for a local instance ...
Check(c) ==
  LET f == Top(c)
  IN  /\ Active(c) /\ f.step = "check" /\ ~ Locked(f.node)
      /\ At(c, IF instance[f.node][call[c].ext] # None THEN [f EXCEPT !.step = "local"]
               ELSE unserved(f.node, call[c].ext, f), <<>>)

\* Mutant: an invocation the extension fails is repeated.
invoke_local_Retries(c) ==
  LET f == Top(c)
  IN  /\ Active(c) /\ f.step = "local" /\ ~ Locked(f.node)
      /\ IF instance[f.node][call[c].ext] = None THEN At(c, unserved(f.node, call[c].ext, f), <<>>)
         ELSE \/ At(c, Answer(f, "Ok", f.node), <<f.node>>)
              \/ At(c, [f EXCEPT !.step = "check"], <<>>)

\* ... and invoke_local looks again, after it may have been unloaded.
invoke_local(c) ==
  LET f == Top(c)
  IN  /\ Active(c) /\ f.step = "local" /\ ~ Locked(f.node)
      /\ IF instance[f.node][call[c].ext] = None THEN At(c, unserved(f.node, call[c].ext, f), <<>>)
         ELSE \E kind \in {"Ok", "Extension"} : At(c, Answer(f, kind, f.node), <<f.node>>)

\* The next candidate is sent the call, with the origin set.
forward(c) ==
  LET f == Top(c)
  IN  /\ Active(c) /\ f.step = "forward" /\ up[Head(f.candidates)]
      /\ call' = [call EXCEPT ![c].frames =
                    Append(Append(Front(@), [f EXCEPT !.step = "wait"]), Frame(Head(f.candidates), TRUE))]
      /\ UNCHANGED <<store, manager, up, members, hook, faults>>

\* What invoke makes of a candidate's answer: an error moves on to the next one.
Advance(f, answer) ==
  IF answer.kind = "Ok" THEN Answer(f, "Ok", answer.by)
  ELSE IF Len(f.candidates) = 1 THEN Answer(f, "Unavailable", None)
  ELSE [f EXCEPT !.step = "forward", !.candidates = Tail(@)]

\* A candidate cannot be reached.
Unreachable(c) ==
  /\ Active(c) /\ Top(c).step = "forward" /\ ~ up[Head(Top(c).candidates)]
  /\ At(c, Advance(Top(c), [kind |-> "Transport", by |-> None]), <<>>)

\* map_manager_error: what a caller of the LLM facade is told.
map_manager_error(kind) ==
  CASE kind = "Ok" -> "Ok"
    [] kind \in {"NotFound", "Unavailable"} -> "Unavailable"
    [] OTHER -> "Extension"

\* The gRPC status of an invocation.
Status(kind) ==
  CASE kind = "Ok" -> "Ok"
    [] kind = "NotFound" -> "not_found"
    [] kind = "AlreadyForwarded" -> "failed_precondition"
    [] kind = "Unavailable" -> "unavailable"
    [] OTHER -> "internal"

Told(via, answer) ==
  CASE via = "llm" -> [answer EXCEPT !.kind = map_manager_error(@)]
    [] via = "rpc" -> [answer EXCEPT !.kind = Status(@)]
    [] OTHER -> answer

\* The call returns, on a candidate to the node that forwarded it.
Reply(c) ==
  LET frames == call[c].frames
  IN  /\ Active(c) /\ Top(c).step = "answer"
      /\ call' = IF Len(frames) = 1
                   THEN [call EXCEPT ![c].frames = <<>>, ![c].result = Told(call[c].via, Top(c).answer)]
                   ELSE [call EXCEPT ![c].frames =
                           Append(Front(Front(@)), Advance(Last(Front(@)), Top(c).answer))]
      /\ UNCHANGED <<store, manager, up, members, hook, faults>>

\* The reply of a candidate is lost or late: its work goes on unseen.
ReplyLost(c) ==
  /\ Active(c) /\ Len(call[c].frames) > 1 /\ Fault
  /\ call' = [call EXCEPT ![c].frames =
                Append(Front(Front(@)), Advance(Last(Front(@)), [kind |-> "Transport", by |-> None]))]
  /\ UNCHANGED <<store, manager, up, members, hook>>

invoke(c, n, x, via) ==
  /\ call[c] = None /\ up[n]
  /\ call' = [call EXCEPT ![c] = NewCall(n, x, via)]
  /\ UNCHANGED <<store, manager, up, members, hook, faults>>
-----------------------------------------------------------------------------
(* Hooks and LLM calls.                                                    *)

\* The records of n whose manifest it can read.
Readable(n) == {x \in Ext : record[n][x] # None /\ from_map(n, record[n][x].manifest) # None}

\* subscribers, in the order of their ids.
subscribers(n, point) ==
  [k \in 1 .. Cardinality({x \in Readable(n) : record[n][x].manifest.point = point}) |->
     LET x == SetToSortSeq({y \in Readable(n) : record[n][y].manifest.point = point}, <)[k]
     IN  [id |-> x, on_error |-> record[n][x].manifest.on_error]]

\* default_provider: the one extension that provides an LLM.
default_provider(n) ==
  LET providers == {x \in Readable(n) : record[n][x].manifest.llm}
  IN  IF Cardinality(providers) = 1 THEN CHOOSE x \in providers : TRUE ELSE None

\* A typed call; without a provider it is not made.
llm(c, n) == default_provider(n) # None /\ invoke(c, n, default_provider(n), "llm")

\* dispatch: the subscribers are resolved once ...
dispatch(n, point) ==
  /\ hook = None /\ up[n]
  /\ hook' = [node |-> n, todo |-> subscribers(n, point), outcomes |-> <<>>]
  /\ UNCHANGED <<store, manager, up, members, call, faults>>

\* ... and called one after the other ...
HookCall(c) ==
  /\ hook # None /\ hook.todo # <<>> /\ call[c] = None
  /\ \A d \in Call : call[d] # None => call[d].via # "hook"
  /\ call' = [call EXCEPT ![c] = NewCall(hook.node, Head(hook.todo).id, "hook")]
  /\ UNCHANGED <<store, manager, up, members, hook, faults>>

\* Mutant: an abort subscriber that failed does not end the dispatch.
Remaining_All(todo, answer) == Tail(todo)

\* ... until one that may abort fails.
Remaining(todo, answer) ==
  IF answer.kind # "Ok" /\ Head(todo).on_error = "abort" THEN <<>> ELSE Tail(todo)

HookDone(c) ==
  /\ hook # None /\ hook.todo # <<>> /\ call[c] # None /\ call[c].result # None
  /\ call[c].via = "hook"
  /\ hook' = [hook EXCEPT !.todo = Remaining(@, call[c].result),
                          !.outcomes = Append(@, [id |-> Head(hook.todo).id, on_error |-> Head(hook.todo).on_error,
                                                  kind |-> call[c].result.kind])]
  /\ call' = [call EXCEPT ![c] = None]
  /\ UNCHANGED <<store, manager, up, members, faults>>
-----------------------------------------------------------------------------
(* Crashes.                                                                *)

\* A crash may tear the artifact that is being written.  A call in a frame of
\* the node is gone; its caller, if it is another node, sees a failure.
Crash(n) ==
  LET Lost(c) == {i \in 1 .. Len(call[c].frames) : call[c].frames[i].node = n}
      After(c) ==
        IF call[c] = None \/ Lost(c) = {} THEN call[c]
        ELSE IF 1 \in Lost(c) THEN [call[c] EXCEPT !.frames = <<>>, !.result = [kind |-> "Crashed", by |-> None]]
        ELSE [call[c] EXCEPT !.frames = Append(Front(Front(@)), Advance(Last(Front(@)), [kind |-> "Transport", by |-> None]))]
  IN  /\ up[n] /\ Fault
      /\ up' = [up EXCEPT ![n] = FALSE]
      /\ \E torn \in BOOLEAN :
           blob' = IF torn /\ applying[n] # None THEN [blob EXCEPT ![n][applying[n].id] = 0] ELSE blob
      /\ applying' = [applying EXCEPT ![n] = None]
      /\ instance' = [instance EXCEPT ![n] = Nothing]
      /\ pass' = [pass EXCEPT ![n] = Idle] /\ permit' = [permit EXCEPT ![n] = FALSE]
      /\ call' = [c \in Call |-> After(c)]
      /\ hook' = IF hook # None /\ hook.node = n THEN None ELSE hook
      /\ UNCHANGED <<record, members>>

\* The new process registers without capabilities and reconciles first.
Restart(n) ==
  /\ ~ up[n] /\ up' = [up EXCEPT ![n] = TRUE]
  /\ advert' = [advert EXCEPT ![n] = Nothing] /\ view' = [view EXCEPT ![n] = [m \in Node |-> Nothing]]
  /\ pass' = [pass EXCEPT ![n] = Reconciling(n)]
  /\ UNCHANGED <<store, instance, permit, callers, faults>>
-----------------------------------------------------------------------------
CallSteps(c) ==
  \/ Check(c) \/ invoke_local(c) \/ forward(c) \/ Unreachable(c) \/ Reply(c)
  \/ HookCall(c) \/ HookDone(c)

NodeSteps(n) ==
  \/ Commit(n) \/ Tick(n) \/ Notified(n) \/ Load(n) \/ update_local_annotations(n) \/ Restart(n)
  \/ \E m \in Node : Learn(n, m) \/ \E x \in Ext : Sync(n, m, x)

Next ==
  \/ \E n \in Node : NodeSteps(n) \/ WriteFails(n) \/ Crash(n) \/ \E p \in Package : register(n, p)
  \/ \E c \in Call : CallSteps(c) \/ ReplyLost(c)
  \/ \E c \in Call, n \in Node : llm(c, n) \/ \E x \in Ext : invoke(c, n, x, "rpc")
  \/ \E n \in Node : dispatch(n, "point")

\* Daemons run on and are restarted, peers exchange what they have, and the
\* reconcile loop ticks.  Nothing has to be registered or called.
Fairness ==
  /\ \A n \in Node : /\ WF_vars(Commit(n)) /\ WF_vars(Tick(n)) /\ WF_vars(Load(n))
                     /\ WF_vars(update_local_annotations(n)) /\ WF_vars(Restart(n))
                     /\ \A m \in Node : WF_vars(Learn(n, m)) /\ \A x \in Ext : SF_vars(Sync(n, m, x))
  /\ \A c \in Call : WF_vars(CallSteps(c))

Spec == Init /\ [][Next]_vars /\ Fairness
-----------------------------------------------------------------------------
\* What runs is what was registered: an instance is made of an artifact that was
\* registered under the version it carries, although artifacts are replaced
\* before their records and a pass works from records it listed earlier.
InstancesIntact ==
  \A n \in Node, x \in Ext : instance[n][x] # None =>
    \E p \in Package : p.id = x /\ p.version = instance[n][x].version /\ p.artifact = instance[n][x].artifact

\* No notification is lost: between two passes either one is pending or the
\* last pass has seen every record, so an applied record never waits for the tick.
\* (A pass has seen the records from its start on.)
NoLostWakeup ==
  \A n \in Node : up[n] /\ pass[n].step = "idle" /\ ~ pass[n].failed /\ ~ permit[n] =>
    \A x \in Ext : record[n][x] # None /\ from_map(n, record[n][x].manifest) # None =>
      \/ ~ matches_selector(n, record[n][x].manifest) /\ instance[n][x] = None
      \/ load(n, record[n][x]) = None
      \/ instance[n][x] # None /\ instance[n][x].version = record[n][x].version

\* A call is forwarded at most once, whatever the nodes believe of each other,
\* and no node runs it twice.
OneHop ==
  \A c \in Call : call[c] # None => Len(call[c].frames) <= 2 /\ IsInjective(call[c].runs)

\* Every call ends, whichever nodes go down or unload the extension meanwhile.
Returned == \A c \in Call : call[c] # None => call[c].frames = <<>>
CallsEnd == <>[]Returned

\* A dispatch calls its subscribers in the order of their ids and none after one
\* that aborted.
HooksInOrder ==
  hook # None =>
    \A i, j \in DOMAIN hook.outcomes : i < j =>
      /\ hook.outcomes[i].id < hook.outcomes[j].id
      /\ ~ (hook.outcomes[i].on_error = "abort" /\ hook.outcomes[i].kind # "Ok")

\* A node serves the newest version of an extension it is selected for and can
\* load, serves none it is not selected for, and this is what the others know.
Served(n, x) ==
  LET r == record[n][x]
  IN  /\ r # None /\ from_map(n, r.manifest) # None =>
           IF ~ matches_selector(n, r.manifest) THEN instance[n][x] = None
           ELSE load(n, r) # None => instance[n][x] # None /\ instance[n][x].version = r.version
      /\ \A m \in Node : view[m][n][x] = capabilities(n)[x]

AllServed == \A n \in Node, x \in Ext : up[n] /\ Served(n, x)
Serves == <>[]AllServed
=============================================================================
