------------------------------- MODULE MCSwim -------------------------------
(* What a cluster replicates, each in the part of the states that has its    *)
(* name: a member's register ("swim", module Swim), the authorization        *)
(* registry ("registry", Registry) and link state ("routes", Routing), with  *)
(* the computation of routes over arbitrary databases ("tables", Routing).   *)
(*                                                                           *)
(* Link state crosses a line of three nodes.                                 *)
EXTENDS Swim, TLC

VARIABLES
  part,
  registry, key,                                                  \* Registry
  links, neighbours, records, sequence, net, cuts, installs       \* Routing

CONSTANTS a, b, c

routing == <<links, neighbours, records, sequence, net, cuts, installs>>

R == INSTANCE Registry WITH Node <- {a, b, c}, Founder <- a, MaxRecords <- 5

ASSUME ReplicasAssumption == R!RegistryAssumption

Line == {1, 2, 3}

L == INSTANCE Routing WITH
       Node <- Line, Edge <- {{1, 2}, {2, 3}}, MaxFaults <- 1, MaxInstalls <- 1, faults <- cuts,
       connections <- neighbours

\* The founder is told apart by name; the others are interchangeable.
Symmetry == Permutations({b, c})

\* Every record of four nodes, or none.
Records(n) ==
  {None} \union [node : {n}, edges : SUBSET (1 .. 4 \ {n}), sequence : {1}]

\* Databases link state may build up at node 1, one record at a time.
Database ==
  \/ records[1] = L!NoRecords /\ records' = [records EXCEPT ![1] = [n \in 1 .. 4 |-> None]]
  \/ \E n \in DOMAIN records[1] : \E r \in Records(n) :
       /\ DOMAIN records[1] = 1 .. 4 /\ \A m \in 1 .. n : records[1][m] = None
       /\ records' = [records EXCEPT ![1][n] = r]
-----------------------------------------------------------------------------
MCInit == part \in {"swim", "registry", "routes", "tables"} /\ Init /\ R!Init /\ L!Init

MCNext ==
  \/ part = "swim" /\ Next /\ UNCHANGED <<registry, key, routing, part>>
  \/ part = "registry" /\ R!Next /\ UNCHANGED <<vars, routing, part>>
  \/ part = "routes" /\ L!Next /\ UNCHANGED <<vars, registry, key, part>>
  \/ /\ part = "tables" /\ Database
     /\ UNCHANGED <<vars, registry, key, links, neighbours, sequence, net, cuts, installs, part>>

MCSpec == MCInit /\ [][MCNext]_<<vars, registry, key, routing, part>>
-----------------------------------------------------------------------------
\* Of Registry: records are valid, checkpoints merge, a node rests on no fork and
\* is conflicted only by one, and a retired key signs nothing (TypeOK,
\* CheckpointsMerge, NoForkOverlooked, NoSpuriousConflict, RetiredKeySignsNothing).
RegistrySound ==
  part = "registry" =>
    /\ R!TypeOK /\ R!CheckpointsMerge
    /\ R!NoForkOverlooked /\ R!NoSpuriousConflict /\ R!RetiredKeySignsNothing

\* Of Registry: a fork is final.
ConflictIsFinal == [][part = "registry" => R!ConflictsStay]_registry

\* Of Routing: nodes compute shortest routes (LinkStateDb::next_hop), from what
\* they hold and from every database of four nodes, and hold the current edges of
\* their neighbours (Shortest, NeighboursKnown).
RoutesSound ==
  /\ part \in {"routes", "tables"} => \A n \in Line : L!Shortest(records[n], n)
  /\ part = "routes" => L!NeighboursKnown
=============================================================================
