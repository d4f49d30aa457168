---------------------------- MODULE MCAntiEntropy ----------------------------
(* How registers travel between nodes, each piece in the part of the states  *)
(* that has its name: an anti-entropy session ("session", module MerkleSync),*)
(* the walk over one leaf ("leaf"), the registers of the replicas            *)
(* ("replicas", module Membership) and push gossip ("gossip"); and what the  *)
(* extension manager makes of the records and adverts nodes exchange (module *)
(* Extensions).  What does not belong to the part keeps its initial value.   *)
(*                                                                           *)
(* Extensions: two nodes; only the second has the label "gpu" and a build    *)
(* that knows the capability "kv".  In the part "serve" extension 1 is       *)
(* registered in up to three versions, one of them twice with different      *)
(* artifacts.  In the part "calls" two extensions run everywhere and a       *)
(* version that moves extension 1 to the second node may follow; in the part *)
(* "hooks" both are subscribed to a hook point.                              *)
EXTENDS MerkleSync, Membership, Gossip

VARIABLES
  part,
  here, there, bucket, remote_sorted, at, rat, need_from_remote, need_from_local, done,   \* LeafDiff
  ext_record, ext_blob, ext_applying, instance, pass, permit, up, advert, view,           \* Extensions
  call, hook, ext_faults

CONSTANTS a, b, c, h1, h2, p1, p2, k1

walk == <<here, there, bucket, remote_sorted, at, rat, need_from_remote, need_from_local, done>>
extensions == <<ext_record, ext_blob, ext_applying, instance, pass, permit, up, advert, view, call, hook, ext_faults>>
all == <<vars, walk, membership, gossip, extensions, part>>
-----------------------------------------------------------------------------
\* a and b share a leaf; c is alone under another subtree.
MCLeaf == (a :> 1) @@ (b :> 1) @@ (c :> 2)
MCTwoSubtrees == (1 :> 1) @@ (2 :> 2)

D == INSTANCE LeafDiff WITH Id <- 1..4, Hash <- {h1, h2}, local <- bucket, i <- at, j <- rat

\* Registers of two incarnations that differ in every part of the order key
\* and, at one key, in two metadata fields pulling in opposite directions.
MCRegister(i, s, h, address, n) ==
  [incarnation |-> i, state |-> s, heartbeat |-> h,
   address |-> address, labels |-> 0, annotations |-> n]

MCRumour ==
  {MCRegister(1, "Active", 0, 1, 0), MCRegister(1, "Active", 0, 0, 1),
   MCRegister(2, "Leaving", 0, 0, 0)}

\* Two ways from the origin to each peer; p2 does not list it.
MCFork == (Origin :> {p1, p2}) @@ (p1 :> {Origin, p2}) @@ (p2 :> {p1})

-----------------------------------------------------------------------------
Manifest(needs, selector, provider) ==
  [semver |-> "valid", capabilities |-> needs, selector |-> selector,
   point |-> "point", on_error |-> IF provider THEN "abort" ELSE "continue", llm |-> provider]

Package1(v, updated, artifact, needs, selector) ==
  [id |-> 1, version |-> v, updated |-> updated, artifact |-> artifact, engine |-> "wasm",
   loads |-> TRUE, manifest |-> Manifest(needs, selector, TRUE)]

Everywhere(x) ==
  [id |-> x, version |-> 1, updated |-> 1, artifact |-> 1, engine |-> "wasm", loads |-> TRUE,
   manifest |-> Manifest({}, {}, x = 1)]

MCPackage ==
  {Everywhere(1), Everywhere(2), Package1(1, 2, 2, {}, {}),
   Package1(2, 1, 3, {}, {"gpu"}), Package1(3, 1, 4, {"kv"}, {})}

ASSUME PackageAssumption == \A p, q \in MCPackage : p = q => p.version = q.version

Host == {1, 2}
Ext == {1, 2}
MCLabels == [n \in Host |-> IF n = 1 THEN {} ELSE {"gpu"}]
MCKnown == [n \in Host |-> IF n = 1 THEN {"log"} ELSE {"log", "kv"}]

X == INSTANCE Extensions WITH
       Node <- Host, Package <- MCPackage, labels <- MCLabels, KNOWN_CAPABILITIES <- MCKnown,
       Call <- {k1}, MaxFaults <- 1,
       record <- ext_record, blob <- ext_blob, applying <- ext_applying, faults <- ext_faults

\* All nodes hold and run both extensions and know it of each other.
Everything ==
  /\ ext_record = [n \in Host |-> [x \in Ext |-> Everywhere(x)]]
  /\ ext_blob = [n \in Host |-> [x \in Ext |-> 1]]
  /\ instance = [n \in Host |-> [x \in Ext |-> [version |-> 1, semver |-> "valid", artifact |-> 1]]]
  /\ advert = [n \in Host |-> [x \in Ext |-> "valid"]]
  /\ view = [n \in Host |-> advert]
  /\ ext_applying = [n \in Host |-> None]
  /\ pass = [n \in Host |-> X!Idle] /\ permit = [n \in Host |-> FALSE]
  /\ up = [n \in Host |-> TRUE]
  /\ call = [d \in {k1} |-> None] /\ hook = None /\ ext_faults = 0

Applied(ids, versions) ==
  \A n \in Host : ext_applying'[n] # None => ext_applying'[n].id \in ids /\ ext_applying'[n].version \in versions

\* A tick that follows a pass in which no load failed repeats that pass.
Ticks == pass' # pass /\ permit' = permit => \A n \in Host : X!Tick(n) => pass[n].failed

Serve == part = "serve" /\ UNCHANGED <<call, hook>> /\ Applied({1}, {1, 2, 3})
Hooks ==
  /\ part = "hooks" /\ UNCHANGED <<ext_record, ext_blob, ext_applying>>
  /\ \A d \in {k1} : call'[d] # None => call'[d].via = "hook"
Calls ==
  /\ part = "calls" /\ UNCHANGED hook /\ Applied({1}, {2})
  /\ ext_applying'[1] # None => ext_applying'[1] = ext_record[2][1]

Manages(step) ==
  /\ part \in {"serve", "calls", "hooks"} /\ step /\ (Serve \/ Calls \/ Hooks) /\ Ticks
  /\ UNCHANGED <<vars, walk, membership, gossip, part>>
-----------------------------------------------------------------------------
MCInit ==
  /\ part \in {"session", "leaf", "replicas", "gossip", "serve", "calls", "hooks"}
  /\ Init /\ D!Init /\ MembershipInit /\ GossipInit
  /\ part # "leaf" => here = << >> /\ there = << >>
  /\ IF part \in {"calls", "hooks"} THEN Everything ELSE X!Init

Syncs(step) == part = "session" /\ step /\ UNCHANGED <<walk, membership, gossip, extensions, part>>
Walks(step) == part = "leaf" /\ step /\ UNCHANGED <<vars, membership, gossip, extensions, part>>

\* Two of a crash, a restart and a loss.
Pushes(step) ==
  /\ part = "gossip" /\ step /\ crashes' + restarts' + lost' <= 2
  /\ UNCHANGED <<vars, walk, membership, extensions, part>>

MCNext ==
  \/ Syncs(Next)
  \/ Walks(D!Next)
  \/ part = "replicas" /\ MembershipNext /\ UNCHANGED <<vars, walk, gossip, extensions, part>>
  \/ Pushes(GossipNext)
  \/ Manages(X!Next)

\* Only one of the four has steps to take.
Progresses ==
  \/ Syncs(Session) \/ Walks(D!Next) \/ Pushes(Progress)
  \/ Manages((\E n \in Host : X!NodeSteps(n)) \/ X!CallSteps(k1))

MCSpec == MCInit /\ [][MCNext]_all /\ WF_all(Progresses)
-----------------------------------------------------------------------------
\* Of Gossip: it spreads (GossipSpreads) and dies out (Quiesces).
GossipSettles == <>[](part = "gossip" => Spread /\ flight = {})

\* Of LeafDiff: the walk ends, with the right lists (WalkCorrect, WalkEnds).
WalkEndsCorrect == <>[](part = "leaf" => done /\ D!WalkCorrect)

\* Of Extensions.
Managing == part \in {"serve", "calls", "hooks"}

\* What runs was registered, no notification is lost, a call makes one hop and
\* hooks run in order (InstancesIntact, NoLostWakeup, OneHop, HooksInOrder).
ManagerSound ==
  Managing => X!InstancesIntact /\ X!NoLostWakeup /\ X!OneHop /\ X!HooksInOrder

\* All serve the newest version they can, everyone knows it, and every call has
\* ended (Serves, CallsEnd).
ManagerSettles == <>[](Managing => X!AllServed /\ X!Returned)
=============================================================================
