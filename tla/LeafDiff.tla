------------------------------ MODULE LeafDiff ------------------------------
(***************************************************************************)
(* diff_leaf_buckets (crates/membership/src/sync.rs): the two-pointer walk *)
(* over the entries of one Merkle leaf on both sides, against the set      *)
(* definition that module MerkleSync uses for a whole leaf.                *)
(*                                                                         *)
(* A bucket maps the ids it holds to their register hashes; its entries    *)
(* are listed in id order.                                                 *)
(***************************************************************************)
EXTENDS Naturals, Sequences, FiniteSets, SequencesExt

CONSTANTS Id,      \* node ids, as naturals: only their order matters
          Hash

VARIABLES here, there,              \* the two buckets
          local, remote_sorted,     \* their entries
          i, j,
          need_from_remote, need_from_local,
          done

vars == <<here, there, local, remote_sorted, i, j, need_from_remote, need_from_local, done>>

Buckets == UNION {[S -> Hash] : S \in SUBSET Id}

\* The entries of a bucket in id order: local as MerkleTree keeps it, remote
\* after sort_by.
Entries(b) ==
  LET ids == SetToSortSeq(DOMAIN b, <) IN [k \in 1..Len(ids) |-> [id |-> ids[k], hash |-> b[ids[k]]]]

Ids(entries) == [k \in 1..Len(entries) |-> entries[k].id]

Init ==
  /\ here \in Buckets /\ there \in Buckets
  /\ local = Entries(here) /\ remote_sorted = Entries(there)
  /\ i = 1 /\ j = 1
  /\ need_from_remote = <<>> /\ need_from_local = <<>>
  /\ done = FALSE

Fixed == UNCHANGED <<here, there, local, remote_sorted>>

InLoop == ~ done /\ i <= Len(local) /\ j <= Len(remote_sorted)

Less ==
  /\ InLoop /\ local[i].id < remote_sorted[j].id
  /\ need_from_local' = Append(need_from_local, local[i].id)
  /\ i' = i + 1
  /\ UNCHANGED <<j, need_from_remote, done>> /\ Fixed

Greater ==
  /\ InLoop /\ local[i].id > remote_sorted[j].id
  /\ need_from_remote' = Append(need_from_remote, remote_sorted[j].id)
  /\ j' = j + 1
  /\ UNCHANGED <<i, need_from_local, done>> /\ Fixed

\* Mutant: entries with equal hashes are skipped before the indices advance.
Equal_Stuck ==
  /\ InLoop /\ local[i].id = remote_sorted[j].id
  /\ local[i].hash # remote_sorted[j].hash
  /\ need_from_remote' = Append(need_from_remote, local[i].id)
  /\ need_from_local' = Append(need_from_local, local[i].id)
  /\ i' = i + 1 /\ j' = j + 1
  /\ UNCHANGED done /\ Fixed

Equal ==
  /\ InLoop /\ local[i].id = remote_sorted[j].id
  /\ IF local[i].hash # remote_sorted[j].hash
       THEN /\ need_from_remote' = Append(need_from_remote, local[i].id)
            /\ need_from_local' = Append(need_from_local, local[i].id)
       ELSE UNCHANGED <<need_from_remote, need_from_local>>
  /\ i' = i + 1 /\ j' = j + 1
  /\ UNCHANGED done /\ Fixed

\* Mutant: the tails start one entry late.
Tails_OffByOne ==
  /\ ~ done /\ ~ InLoop
  /\ need_from_local' = need_from_local \o Ids(SubSeq(local, i + 1, Len(local)))
  /\ need_from_remote' = need_from_remote \o Ids(SubSeq(remote_sorted, j + 1, Len(remote_sorted)))
  /\ done' = TRUE
  /\ UNCHANGED <<i, j>> /\ Fixed

Tails ==
  /\ ~ done /\ ~ InLoop
  /\ need_from_local' = need_from_local \o Ids(SubSeq(local, i, Len(local)))
  /\ need_from_remote' = need_from_remote \o Ids(SubSeq(remote_sorted, j, Len(remote_sorted)))
  /\ done' = TRUE
  /\ UNCHANGED <<i, j>> /\ Fixed

Next == Less \/ Greater \/ Equal \/ Tails

Spec == Init /\ [][Next]_vars /\ WF_vars(Next)
-----------------------------------------------------------------------------
\* What side b must obtain from side a.
Wanted(a, b) == {k \in DOMAIN a : k \notin DOMAIN b \/ a[k] # b[k]}

Ascending(s) == \A k, l \in 1..Len(s) : k < l => s[k] < s[l]

(***************************************************************************)
(* The walk returns exactly the ids each side lacks or holds differently,  *)
(* each once and in order (diff_leaf_buckets, on which DiffExact rests).   *)
(***************************************************************************)
WalkCorrect ==
  done => /\ ToSet(need_from_remote) = Wanted(there, here)
          /\ ToSet(need_from_local) = Wanted(here, there)
          /\ Ascending(need_from_remote) /\ Ascending(need_from_local)

(***************************************************************************)
(* The loop ends for every pair of buckets, empty ones included.           *)
(***************************************************************************)
WalkEnds == <>done
=============================================================================
