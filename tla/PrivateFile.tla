---------------------------- MODULE PrivateFile ----------------------------
(***************************************************************************)
(* Publication of a private file (core/src/fs.rs) by several processes     *)
(* over a file system that loses unsynced data at a power loss.  The node  *)
(* identity is published with "IfAbsent" (overlay/src/identity.rs), the    *)
(* cluster key and the TLS keys with "Replace" (core/src/cluster_key.rs).  *)
(*                                                                         *)
(* An inode is a temporary file with its content: the content is written   *)
(* and synced on its own, and is named by its inode, because every         *)
(* temporary is created exclusively under a random name and holds one      *)
(* candidate.  The directory entry of the destination is durable once the  *)
(* directory is synced; until then a power loss may leave any value it had *)
(* since the last sync.                                                    *)
(***************************************************************************)
EXTENDS Naturals, Sequences, FiniteSets

CONSTANTS
  Process,      \* the daemon and the commands that open the same file
  None,
  MaxInodes,    \* bound: candidates ever written
  MaxFaults     \* bound: failing calls, killed processes and power losses

VARIABLES
  mode,         \* PublishMode of this file
  inode,        \* content of every temporary: [full, synced]
  dest,         \* inode the destination names, or None
  maybe,        \* values of dest a power loss may leave
  proc,         \* [pc, mine, created, out] of every process
  published,    \* history: inodes in the order they were given the name
  floor,        \* history: index in published of the latest reported one
  told,         \* history: identities publish_candidate returned
  faults

vars == <<mode, inode, dest, maybe, proc, published, floor, told, faults>>

Idle == [pc |-> "idle", mine |-> None, created |-> FALSE, out |-> None]

(* Age of an inode under the destination's name; 0 for no file at all. *)
Age(i) == IF i = None THEN 0 ELSE CHOOSE k \in DOMAIN published : published[k] = i

At(p, pc) == proc[p].pc = pc
Goto(p, pc) == proc' = [proc EXCEPT ![p].pc = pc]
Fails == faults < MaxFaults /\ faults' = faults + 1

(* A failed call before the publication removes the temporary, whether or  *)
(* not the removal succeeds, and reports the error.                        *)
Abort(p) == Goto(p, "failed") /\ UNCHANGED <<inode, dest, maybe, published, floor, told>>

(* NodeIdentity::load, ClusterKey::load: a file that does not decode is an *)
(* error.                                                                  *)
load(p) ==
  /\ At(p, "idle") \/ At(p, "reload")
  /\ dest # None
  /\ proc' = [proc EXCEPT ![p] =
       IF inode[dest].full THEN [@ EXCEPT !.pc = "done", !.out = dest] ELSE [@ EXCEPT !.pc = "failed"]]
  /\ told' = IF At(p, "reload") /\ inode[dest].full THEN told \union {dest} ELSE told
  /\ UNCHANGED <<inode, dest, maybe, published, floor>>

(* load_or_generate writes a candidate only after the load found no file;  *)
(* save replaces whatever is there.                                        *)
create_temporary(p) ==
  /\ At(p, "idle") /\ Len(inode) < MaxInodes
  /\ mode = "IfAbsent" => dest = None
  /\ inode' = Append(inode, [full |-> FALSE, synced |-> FALSE])
  /\ proc' = [proc EXCEPT ![p] = [Idle EXCEPT !.pc = "write", !.mine = Len(inode) + 1]]
  /\ UNCHANGED <<dest, maybe, published, floor, told>>

write_all(p) ==
  /\ At(p, "write")
  /\ inode' = [inode EXCEPT ![proc[p].mine].full = TRUE]
  /\ Goto(p, "sync")
  /\ UNCHANGED <<dest, maybe, published, floor, told>>

sync_temp_Skipped(p) ==
  /\ At(p, "sync") /\ Goto(p, "publish")
  /\ UNCHANGED <<inode, dest, maybe, published, floor, told>>

sync_temp(p) ==
  /\ At(p, "sync")
  /\ inode' = [inode EXCEPT ![proc[p].mine].synced = TRUE]
  /\ Goto(p, "publish")
  /\ UNCHANGED <<dest, maybe, published, floor, told>>

Named(i) == dest' = i /\ maybe' = maybe \union {i} /\ published' = Append(published, i)

replace(p) ==
  /\ At(p, "publish") /\ mode = "Replace"
  /\ Named(proc[p].mine)
  /\ proc' = [proc EXCEPT ![p].pc = "sync_parent", ![p].created = TRUE]
  /\ UNCHANGED <<inode, floor, told>>

link_if_absent_Rename(p) ==
  /\ At(p, "publish") /\ mode = "IfAbsent"
  /\ Named(proc[p].mine)
  /\ proc' = [proc EXCEPT ![p].pc = "sync_parent", ![p].created = TRUE]
  /\ UNCHANGED <<inode, floor, told>>

link_if_absent(p) ==
  /\ At(p, "publish") /\ mode = "IfAbsent"
  /\ IF dest = None
     THEN /\ Named(proc[p].mine)
          /\ proc' = [proc EXCEPT ![p].pc = "sync_parent", ![p].created = TRUE]
     ELSE Goto(p, "remove") /\ UNCHANGED <<dest, maybe, published>>
  /\ UNCHANGED <<inode, floor, told>>

remove_temp(p) ==
  /\ At(p, "remove") /\ Goto(p, "settle")
  /\ UNCHANGED <<inode, dest, maybe, published, floor, told>>

(* Ok is returned: the caller is told that its own file, or for            *)
(* AlreadyExists some file, is in place.                                   *)
Report(p) ==
  LET i == IF proc[p].created THEN proc[p].mine ELSE dest
  IN  /\ floor' = IF Age(i) > floor THEN Age(i) ELSE floor
      /\ told' = IF proc[p].created THEN told \union {i} ELSE told
      /\ proc' = [proc EXCEPT ![p] =
           IF @.created THEN [@ EXCEPT !.pc = "done", !.out = i] ELSE [@ EXCEPT !.pc = "reload"]]

Synced(p, durable) ==
  /\ At(p, "sync_parent") \/ At(p, "settle")
  /\ maybe' = durable
  /\ IF At(p, "settle") \/ mode = "Replace" THEN Report(p) ELSE Goto(p, "remove") /\ UNCHANGED <<floor, told>>
  /\ UNCHANGED <<inode, dest, published>>

(* Where directories cannot be synced the call is a success without effect. *)
sync_parent_Portable(p) == Synced(p, maybe)

sync_parent(p) == Synced(p, {dest})

(* A call returns an error, at whichever step the process is. *)
CallFails(p) ==
  /\ proc[p].pc \in {"write", "sync", "publish", "sync_parent", "remove", "settle", "reload"}
  /\ Fails /\ Abort(p)

(* The process dies, or ends and is started again. *)
Again(p) == proc' = [proc EXCEPT ![p] = Idle] /\ UNCHANGED <<inode, dest, maybe, published, floor, told>>
Exit(p) == (At(p, "failed") \/ At(p, "done")) /\ Again(p)
Kill(p) == ~At(p, "idle") /\ Fails /\ Again(p)

PowerLoss ==
  /\ Fails
  /\ proc' = [p \in Process |-> Idle]
  /\ dest' \in maybe /\ maybe' = {dest'}
  /\ inode' \in {[i \in DOMAIN inode |->
                    IF inode[i].synced \/ i \notin lost THEN inode[i] ELSE [full |-> FALSE, synced |-> FALSE]]
                  : lost \in SUBSET DOMAIN inode}
  /\ UNCHANGED <<published, floor, told>>

Step(p) ==
  \/ load(p) \/ create_temporary(p) \/ write_all(p) \/ sync_temp(p) \/ replace(p)
  \/ link_if_absent(p) \/ sync_parent(p) \/ remove_temp(p) \/ Exit(p)

Init ==
  /\ mode \in {"Replace", "IfAbsent"}
  /\ inode = << >> /\ dest = None /\ maybe = {None}
  /\ proc = [p \in Process |-> Idle]
  /\ published = << >> /\ floor = 0 /\ told = {} /\ faults = 0

Next ==
  /\ UNCHANGED mode
  /\ \/ \E p \in Process : Step(p) /\ UNCHANGED faults
     \/ \E p \in Process : CallFails(p) \/ Kill(p)
     \/ PowerLoss

Spec == Init /\ [][Next]_vars
-----------------------------------------------------------------------------
(* What the destination names is complete, whatever was lost on the way:   *)
(* no reader and no restart meets a torn identity or key (the temporary is *)
(* synced before it gets the name).                                        *)
Intact == dest # None => inode[dest].full

(* publish_candidate hands the same identity to all concurrent creators,   *)
(* and every process running meanwhile has that one ("Concurrent creators  *)
(* cannot replace the winner").                                            *)
OneIdentity ==
  mode = "IfAbsent" /\ told # {} =>
    /\ Cardinality(told) = 1
    /\ \A p \in Process : proc[p].out # None => proc[p].out \in told

(* What a publisher reported as in place is never rolled back: after any   *)
(* power loss the name leads to that file or to a later one.               *)
ReportedStays == Age(dest) >= floor
=============================================================================
