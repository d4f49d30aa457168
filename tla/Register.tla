------------------------------ MODULE Register ------------------------------
(***************************************************************************)
(* One member's replicated register: crates/membership/src/register.rs.    *)
(*                                                                         *)
(* A register is the unit of replication of the membership CRDT.  The      *)
(* order key (incarnation, state rank, heartbeat) decides which of two     *)
(* registers wins.  `address', `labels' and `annotations' are elements of  *)
(* a totally ordered set, represented by natural numbers: the code only    *)
(* ever compares them (strings by `>', maps by `canonical_map_cmp').       *)
(* `updated_at_ms' is left out: it is part of neither the order nor the    *)
(* Merkle hash, and every merge path overwrites it with the local clock.   *)
(***************************************************************************)
EXTENDS Naturals

CONSTANT U64Max      \* largest value of a u64 counter; additions saturate

ASSUME U64MaxAssumption == U64Max \in Nat

MemberState == {"Active", "Suspected", "Leaving", "Offline"}

is_active(s) == s \in {"Active", "Suspected"}

rank(s) ==
  CASE s = "Active"    -> 0
    [] s = "Suspected" -> 1
    [] s = "Leaving"   -> 2
    [] s = "Offline"   -> 3

U64 == 0..U64Max

MemberRegister ==
  [incarnation : U64, state : MemberState, heartbeat : U64,
   address : Nat, labels : Nat, annotations : Nat]

\* Mutant: a plain addition, which does not stop at the largest value.
saturating_inc_Wide(x) == x + 1

saturating_inc(x) == IF x < U64Max THEN x + 1 ELSE x

larger(x, y) == IF y > x THEN y ELSE x
-----------------------------------------------------------------------------
dominates(a, b) ==
  \/ a.incarnation > b.incarnation
  \/ /\ a.incarnation = b.incarnation
     /\ \/ rank(a.state) > rank(b.state)
        \/ rank(a.state) = rank(b.state) /\ a.heartbeat > b.heartbeat

\* Equal order keys.
SameKey(a, b) ==
  /\ a.incarnation = b.incarnation
  /\ a.state = b.state
  /\ a.heartbeat = b.heartbeat

\* Mutant: ties resolved as a whole by the incoming register.
merge_TieTakesOther(a, b) == IF dominates(a, b) THEN a ELSE b

\* Mutant: only the address is resolved on a tie.
merge_TieKeepsMetadata(a, b) ==
  IF dominates(b, a) THEN b
  ELSE IF dominates(a, b) THEN a
  ELSE [a EXCEPT !.address = larger(a.address, b.address)]

merge(a, b) ==
  IF dominates(b, a) THEN b
  ELSE IF dominates(a, b) THEN a
  ELSE [a EXCEPT !.address     = larger(@, b.address),
                 !.labels      = larger(@, b.labels),
                 !.annotations = larger(@, b.annotations)]

(***************************************************************************)
(* The mutations a node applies to a register it holds.                    *)
(***************************************************************************)
new(address, labels, annotations, incarnation) ==
  [incarnation |-> incarnation, state |-> "Active", heartbeat |-> 0,
   address |-> address, labels |-> labels, annotations |-> annotations]

bump_heartbeat(r) ==
  [r EXCEPT !.heartbeat = saturating_inc(@),
            !.state = IF is_active(@) THEN "Active" ELSE @]

suspect(r) ==
  IF r.state = "Active"
    THEN [r EXCEPT !.state = "Suspected", !.heartbeat = saturating_inc(@)]
    ELSE r

leave(r) == [r EXCEPT !.state = "Leaving", !.heartbeat = saturating_inc(@)]

offline(r) == [r EXCEPT !.state = "Offline", !.heartbeat = saturating_inc(@)]

\* Mutant: a restart that resumes the persisted incarnation as it is.
rejoin_SameIncarnation(r, address) ==
  [r EXCEPT !.heartbeat = 0, !.address = address, !.state = "Active"]

rejoin(r, address) ==
  [r EXCEPT !.incarnation = saturating_inc(@), !.heartbeat = 0,
            !.address = address, !.state = "Active"]

refute(r) ==
  [r EXCEPT !.incarnation = saturating_inc(@),
            !.heartbeat = saturating_inc(@), !.state = "Active"]

(***************************************************************************)
(* What the Merkle leaf hash of a register covers (merkle.rs,              *)
(* hash_register): everything but the heartbeat.  The hash is taken to be  *)
(* collision free, so it is represented by the hashed fields themselves.   *)
(***************************************************************************)
hash_register(r) ==
  <<r.incarnation, r.state, r.address, r.labels, r.annotations>>
=============================================================================
