----------------------------- MODULE Lifecycle -----------------------------
(***************************************************************************)
(* One node from configuration to exit: the commands that edit its files   *)
(* (shell/src/commands/cluster), the start-up and shutdown of the daemon   *)
(* (daemon/src/runtime.rs), and the calls of the command line on its       *)
(* Cluster service (client, rpc/interceptor.rs, rpc/server.rs).            *)
(*                                                                         *)
(* A cluster stands for its join address and for its key.  The key file is *)
(* replaced atomically (PrivateFile); the configuration is written with    *)
(* fs::write, so that it is Torn while it is written and after a crash     *)
(* there.  Start-up steps that only build objects are part of the step     *)
(* before them.                                                            *)
(***************************************************************************)
EXTENDS Naturals

CONSTANTS
  Cluster,                     \* clusters this node may be told to join or found
  Peer,                        \* nodes a broadcast goes to
  Address, Own, BootstrapPeer, \* endpoint addresses; this node's; those of the configuration
  None, Torn,
  MaxStarts, MaxCalls, MaxEdits, MaxFaults

VARIABLES
  config, keyfile, clientConfig, \* files; the last one records whether it names a key
  cmd,                           \* the command editing them
  daemon,                        \* [pc, join, key] of the daemon process
  shutdown,                      \* the watch channel
  exit,                          \* how the daemon ended last
  solo,                          \* the stored registry has this node alone
  primary, peers,                \* stored endpoint bookkeeping
  call,                          \* the call in flight, or the last one
  asked, chosen,                 \* history: told to stop; the primary an operator set
  count                          \* starts, calls, edits and faults so far

files == <<config, keyfile>>
vars == <<config, keyfile, clientConfig, cmd, daemon, shutdown, exit, solo, primary, peers, call, asked, chosen, count>>

NoCmd == [pc |-> "none", key |-> None, join |-> None]
Down == [pc |-> "down", join |-> None, key |-> None]
NoCall == [pc |-> "none", op |-> "none", arg |-> None, sent |-> {}, result |-> "none"]

Spend(what, limit) == count[what] < limit /\ count' = [count EXCEPT ![what] = @ + 1]
Readable(file) == file # None /\ file # Torn
Running == daemon.pc # "down"
At(pc) == daemon.pc = pc
InFlight == call.pc = "dispatch"
-----------------------------------------------------------------------------
(* `cluster init` and `cluster join`. *)
Edit(edit) == Spend("edits", MaxEdits) /\ cmd.pc = "none" /\ cmd' = edit /\ UNCHANGED files

(* bootstrap_node_assets: an existing configuration is never overwritten. *)
bootstrap_node_assets ==
  /\ config = None
  /\ Edit([NoCmd EXCEPT !.pc = "truncate"])

init_cluster(key) ==
  /\ Readable(config)
  /\ Edit([pc |-> "save", key |-> key, join |-> None])

(* The key is given, or the one on file is saved again. *)
configure_join(address, key) ==
  /\ Readable(config)
  /\ key # None
  /\ Edit([pc |-> "save", key |-> key, join |-> address])

SaveKey_Last ==
  \/ /\ cmd.pc = "save" /\ config' = [join |-> cmd.join] /\ cmd' = [cmd EXCEPT !.pc = "truncate"]
     /\ UNCHANGED keyfile
  \/ /\ cmd.pc = "truncate" /\ keyfile' = (IF cmd.key = None THEN keyfile ELSE cmd.key) /\ cmd' = NoCmd
     /\ UNCHANGED config

SaveKey ==
  /\ cmd.pc = "save" /\ keyfile' = cmd.key
  /\ cmd' = [cmd EXCEPT !.pc = "truncate"]
  /\ UNCHANGED config

Truncate == cmd.pc = "truncate" /\ config' = Torn /\ cmd' = [cmd EXCEPT !.pc = "write"] /\ UNCHANGED keyfile
write_to_file == cmd.pc = "write" /\ config' = [join |-> cmd.join] /\ cmd' = NoCmd /\ UNCHANGED keyfile

CmdStep == (SaveKey \/ Truncate \/ write_to_file) /\ UNCHANGED count
CmdKilled == cmd.pc # "none" /\ Spend("faults", MaxFaults) /\ cmd' = NoCmd /\ UNCHANGED files

Shell ==
  /\ \/ bootstrap_node_assets
     \/ \E key \in Cluster : init_cluster(key)
     \/ \E address \in Cluster, key \in Cluster \union {keyfile} : configure_join(address, key)
     \/ CmdStep \/ CmdKilled
  /\ UNCHANGED <<clientConfig, daemon, shutdown, exit, solo, primary, peers, call, asked, chosen>>
-----------------------------------------------------------------------------
(* The daemon. *)
Phase(pc) == daemon' = [daemon EXCEPT !.pc = pc] /\ UNCHANGED <<exit, asked, call, shutdown>>

(* A call still in flight when the process ends is never answered. *)
Ended(how) ==
  /\ daemon' = Down /\ exit' = how /\ asked' = FALSE /\ shutdown' = FALSE
  /\ call' = IF InFlight THEN [call EXCEPT !.pc = "cut"] ELSE call

(* Started by the operator, or by the service manager after a failure      *)
(* (RestartPolicy::OnFailure).                                             *)
DaemonConfig_load ==
  /\ At("down") /\ Spend("starts", MaxStarts)
  /\ IF Readable(config)
     THEN daemon' = [Down EXCEPT !.pc = "key", !.join = config.join] /\ UNCHANGED exit
     ELSE exit' = "error" /\ UNCHANGED daemon
  /\ call' = NoCall
  /\ UNCHANGED <<clientConfig, shutdown, asked, solo, primary, peers>>

load_cluster_key ==
  /\ At("key")
  /\ daemon' = [daemon EXCEPT !.pc = "watch", !.key = keyfile]
  /\ UNCHANGED <<clientConfig, exit, asked, call, shutdown, solo, primary, peers, count>>

write_client_config ==
  /\ At("watch")
  /\ clientConfig' = [names_key |-> daemon.key # None]
  /\ Phase("register")
  /\ UNCHANGED <<solo, primary, peers, count>>

spawn_shutdown_watcher ==
  /\ At("register") /\ Phase("overlay")
  /\ UNCHANGED <<clientConfig, solo, primary, peers, count>>

(* Opening the store, starting the overlay, enrolling and reconnecting may *)
(* fail; enrolling fails under another cluster's key.                      *)
Enroll ==
  /\ At("overlay")
  /\ \/ /\ daemon.join = None \/ ~solo \/ daemon.key = daemon.join
        /\ solo' = (solo /\ daemon.join = None)
        /\ Phase("tls")
     \/ Ended("error") /\ UNCHANGED solo
  /\ UNCHANGED <<clientConfig, primary, peers, count>>

FirstPrimary_Reset ==
  IF BootstrapPeer \ {Own} # {} THEN CHOOSE a \in BootstrapPeer \ {Own} : TRUE ELSE primary

(* The first other bootstrap peer, unless a primary is stored. *)
FirstPrimary ==
  IF primary = None /\ BootstrapPeer \ {Own} # {} THEN CHOOSE a \in BootstrapPeer \ {Own} : TRUE ELSE primary

Prepare ==
  /\ At("tls")
  /\ \/ /\ peers' = peers \union BootstrapPeer
        /\ primary' = FirstPrimary
        /\ Phase("serve")
     \/ Ended("error") /\ UNCHANGED <<primary, peers>>
  /\ UNCHANGED <<clientConfig, solo, count>>

wait_shutdown ==
  /\ At("serve") /\ shutdown /\ Phase("drain")
  /\ UNCHANGED <<clientConfig, solo, primary, peers, count>>

Drained_Now == TRUE

(* serve_with_shutdown returns when no call is left. *)
Drained == ~InFlight

Stop ==
  /\ At("drain") /\ Drained /\ Ended("ok")
  /\ UNCHANGED <<clientConfig, solo, primary, peers, count>>

signal_Notify == shutdown' = At("serve")

(* The channel keeps the request, whatever the daemon is waiting for. *)
signal == shutdown' = TRUE

(* Before the handlers are registered a signal ends the process. *)
ShutdownSignals_wait ==
  /\ Running /\ ~asked
  /\ IF daemon.pc \in {"key", "watch", "register"}
     THEN Ended("killed")
     ELSE signal /\ asked' = TRUE /\ UNCHANGED <<daemon, exit, call>>
  /\ UNCHANGED <<clientConfig, solo, primary, peers, count>>

Killed ==
  /\ Running /\ Spend("faults", MaxFaults) /\ Ended("killed")
  /\ UNCHANGED <<clientConfig, solo, primary, peers>>

DaemonStep ==
  /\ \/ load_cluster_key \/ write_client_config \/ spawn_shutdown_watcher \/ Enroll \/ Prepare
     \/ wait_shutdown \/ Stop
  /\ UNCHANGED <<files, cmd, chosen>>

DaemonEvent ==
  /\ DaemonConfig_load \/ ShutdownSignals_wait \/ Killed
  /\ UNCHANGED <<files, cmd, chosen>>
-----------------------------------------------------------------------------
(* Calls of the command line. *)

(* The key file the configuration names, or the one in the default place:  *)
(* the same file for a node that setup made.                               *)
resolve_cluster_key_path == keyfile

cluster_key_interceptor(key) ==
  CASE daemon.key = None -> "failed_precondition"
    [] key = None        -> "unauthenticated"
    [] key # daemon.key  -> "permission_denied"
    [] OTHER             -> "pass"

Answer(c, result) == [c EXCEPT !.pc = "done", !.result = result]

(* What a handler does before its first await. *)
admit(c) ==
  CASE c.arg = "missing" -> Answer(c, "invalid_argument")
    [] c.arg = "no_id"   -> Answer(c, "rejected")
    [] OTHER             -> [c EXCEPT !.pc = "dispatch"]

set_primary(c) == IF c.arg \in {"empty", Own} THEN Answer(c, "rejected") ELSE Answer(c, "accepted")

Handle(c) ==
  CASE c.op \in {"register", "join"} -> admit(c)
    [] c.op = "leave"                -> [c EXCEPT !.pc = "dispatch"]
    [] c.op = "set_primary"          -> set_primary(c)
    [] c.op = "get"                  -> Answer(c, "accepted")

Begin(c) ==
  LET pass == cluster_key_interceptor(resolve_cluster_key_path)
      next == IF pass = "pass" THEN Handle(c) ELSE Answer(c, pass)
      sets == c.op = "set_primary" /\ next.result = "accepted"
  IN  /\ At("serve") /\ ~InFlight
      /\ Spend("calls", MaxCalls)
      /\ call' = next
      /\ primary' = IF sets THEN c.arg ELSE primary
      /\ chosen' = IF sets THEN c.arg ELSE chosen
      /\ UNCHANGED <<shutdown, asked, peers>>

Requests ==
  [op : {"register", "join"}, arg : {"missing", "no_id"} \union Address]
  \union [op : {"leave"}, arg : {"local", "other"}]
  \union [op : {"set_primary"}, arg : {"empty"} \union Address]
  \union {[op |-> "get", arg |-> None]}

Request == \E r \in Requests : Begin([NoCall EXCEPT !.pc = "handle", !.op = r.op, !.arg = r.arg])

(* The broadcast to one peer succeeded, failed or timed out. *)
Dispatch ==
  /\ InFlight
  /\ \E p \in Peer \ call.sent : call' = [call EXCEPT !.sent = @ \union {p}]
  /\ UNCHANGED <<shutdown, asked, peers, primary, chosen, count>>

Dispatched_Spawned(c) == TRUE

(* The handler waits for the whole broadcast. *)
Dispatched(c) == c.sent = Peer

(* A joining node is seeded; leaving this node shuts it down. *)
Finish ==
  /\ InFlight /\ Dispatched(call)
  /\ call' = Answer(call, "accepted")
  /\ peers' = IF call.op = "join" THEN peers \union {call.arg} ELSE peers
  /\ IF call.op = "leave" /\ call.arg = "local"
     THEN shutdown' = TRUE /\ asked' = TRUE ELSE UNCHANGED <<shutdown, asked>>
  /\ UNCHANGED <<primary, chosen, count>>

(* The client goes away: its handler is dropped at the await. *)
Dropped ==
  /\ InFlight /\ Spend("faults", MaxFaults)
  /\ call' = [call EXCEPT !.pc = "dropped"]
  /\ UNCHANGED <<shutdown, asked, peers, primary, chosen>>

CallStep == (Dispatch \/ Finish) /\ UNCHANGED <<files, cmd, clientConfig, daemon, exit, solo>>
CallEvent == (Request \/ Dropped) /\ UNCHANGED <<files, cmd, clientConfig, daemon, exit, solo>>
-----------------------------------------------------------------------------
Init ==
  /\ config = None /\ keyfile = None /\ clientConfig = None /\ cmd = NoCmd
  /\ daemon = Down /\ shutdown = FALSE /\ exit = "none" /\ solo = TRUE
  /\ primary = None /\ peers = {} /\ call = NoCall /\ asked = FALSE /\ chosen = None
  /\ count = [what \in {"starts", "calls", "edits", "faults"} |-> 0]

Next == Shell \/ DaemonStep \/ DaemonEvent \/ CallStep \/ CallEvent

Progress == DaemonStep \/ CallStep

Spec == Init /\ [][Next]_vars /\ WF_vars(Progress)
-----------------------------------------------------------------------------
(* A daemon that is about to enroll has a key, although the key and the    *)
(* join address are two files, either may be changed while it starts, and  *)
(* the command may die between them ("the reverse ordering could start a   *)
(* join without its key").                                                 *)
JoinHasKey == At("overlay") /\ daemon.join # None /\ solo => daemon.key # None

(* "accepted" is said after the fact: when a caller reads it, every peer   *)
(* was told of the register or the departure, or its attempt had ended.    *)
AcceptedMeansTold ==
  call.result = "accepted" /\ call.op \in {"register", "join", "leave"} => call.sent = Peer

(* A clean shutdown cuts no call short: the departure of this node is      *)
(* broadcast even when a signal arrives in the middle of it.               *)
CleanExitCutsNothing == exit = "ok" /\ At("down") => call.pc # "cut"

(* The primary endpoint an operator set survives restarts: the bootstrap   *)
(* peers only supply a first one.                                          *)
PrimaryKept == chosen # None => primary = chosen

(* A daemon told to stop, by a signal at any point of its start-up or by   *)
(* an accepted leave, does stop: the watch channel remembers the request   *)
(* until the server waits for it.                                          *)
Stopped == asked => ~Running
StopsAsked == <>[]Stopped
=============================================================================
