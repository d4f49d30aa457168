--------------------------- MODULE RegisterProofs ---------------------------
(***************************************************************************)
(* Lemmas about registers: the merge order is total, merging climbs in it, *)
(* and so does every local mutation.                                       *)
(***************************************************************************)
EXTENDS Register, TLAPS
-----------------------------------------------------------------------------
(* Registers and their order.                                              *)

\* The ranks of two states are equal only for equal states.
LEMMA RankFacts ==
  ASSUME NEW s \in MemberState, NEW t \in MemberState
  PROVE  /\ rank(s) \in Nat
         /\ rank(s) = rank(t) => s = t
  BY DEF MemberState, rank

\* The numeric ranks.
LEMMA RankValues ==
  /\ rank("Active") = 0 /\ rank("Suspected") = 1
  /\ rank("Leaving") = 2 /\ rank("Offline") = 3
  BY DEF rank

\* Neither register dominates the other exactly when their keys are equal.
LEMMA TotalOrder ==
  ASSUME NEW a \in MemberRegister, NEW b \in MemberRegister
  PROVE  /\ ~ dominates(a, b) /\ ~ dominates(b, a) <=> SameKey(a, b)
         /\ ~ (dominates(a, b) /\ dominates(b, a))
  <1>1. /\ a.state \in MemberState /\ b.state \in MemberState
        /\ a.incarnation \in Nat /\ b.incarnation \in Nat
        /\ a.heartbeat \in Nat /\ b.heartbeat \in Nat
    BY DEF MemberRegister, U64
  <1>2. /\ rank(a.state) \in Nat /\ rank(b.state) \in Nat
        /\ rank(a.state) = rank(b.state) <=> a.state = b.state
    BY <1>1, RankFacts
  <1> QED
    BY <1>1, <1>2 DEF dominates, SameKey

\* Dominance is transitive, also through registers with equal keys.
LEMMA DominatesTransitive ==
  ASSUME NEW a \in MemberRegister, NEW b \in MemberRegister, NEW c \in MemberRegister
  PROVE  /\ dominates(a, b) /\ dominates(b, c) => dominates(a, c)
         /\ SameKey(a, b) => (dominates(a, c) <=> dominates(b, c))
         /\ SameKey(a, b) => (dominates(c, a) <=> dominates(c, b))
         /\ SameKey(a, b) => (SameKey(a, c) <=> SameKey(b, c))
  <1>1. /\ a.state \in MemberState /\ b.state \in MemberState /\ c.state \in MemberState
        /\ a.incarnation \in Nat /\ b.incarnation \in Nat /\ c.incarnation \in Nat
        /\ a.heartbeat \in Nat /\ b.heartbeat \in Nat /\ c.heartbeat \in Nat
    BY DEF MemberRegister, U64
  <1>2. /\ rank(a.state) \in Nat /\ rank(b.state) \in Nat /\ rank(c.state) \in Nat
    BY <1>1, RankFacts
  <1>3. dominates(a, b) /\ dominates(b, c) => dominates(a, c)
    BY <1>1, <1>2 DEF dominates
  <1> QED
    BY <1>3 DEF dominates, SameKey

\* A merge yields a register.
LEMMA MergeType ==
  ASSUME NEW a \in MemberRegister, NEW b \in MemberRegister
  PROVE  merge(a, b) \in MemberRegister
  BY DEF MemberRegister, U64, merge, larger

\* When the keys are equal the merge keeps the key and the larger fields.
LEMMA MergeSameKey ==
  ASSUME NEW a \in MemberRegister, NEW b \in MemberRegister, SameKey(a, b)
  PROVE  LET m == merge(a, b)
         IN  /\ m \in MemberRegister
             /\ SameKey(m, a)
             /\ m.address = larger(a.address, b.address)
             /\ m.labels = larger(a.labels, b.labels)
             /\ m.annotations = larger(a.annotations, b.annotations)
  <1>1. ~ dominates(a, b) /\ ~ dominates(b, a)
    BY TotalOrder
  <1>2. merge(a, b) = [a EXCEPT !.address     = larger(@, b.address),
                                !.labels      = larger(@, b.labels),
                                !.annotations = larger(@, b.annotations)]
    BY <1>1 DEF merge
  <1> QED
    BY <1>2, MergeType DEF MemberRegister, U64, SameKey

\* A saturating addition stays in range.
LEMMA SaturatingType ==
  ASSUME NEW n \in U64
  PROVE  saturating_inc(n) \in U64 /\ n \in Nat /\ saturating_inc(n) >= n
  BY U64MaxAssumption DEF saturating_inc, U64

\* Every local mutation, under the condition in which the daemon applies it,
\* yields a register at or above the one it replaces.
LEMMA MutationsClimb ==
  ASSUME NEW a \in MemberRegister
  PROVE  /\ bump_heartbeat(a) \in MemberRegister
         /\ suspect(a) \in MemberRegister
         /\ offline(a) \in MemberRegister
         /\ leave(a) \in MemberRegister
         /\ refute(a) \in MemberRegister
         /\ a.state \in {"Active", "Leaving"} =>
              dominates(bump_heartbeat(a), a) \/ bump_heartbeat(a) = a
         /\ a.state = "Active" => dominates(suspect(a), a)
         /\ a.state = "Suspected" => dominates(offline(a), a)
         /\ a.state \in {"Active", "Leaving"} => dominates(leave(a), a) \/ leave(a) = a
         /\ a.state = "Active" => dominates(refute(a), a) \/ refute(a) = a
  <1>0. /\ a.incarnation \in U64 /\ a.heartbeat \in U64
        /\ saturating_inc(a.incarnation) \in U64 /\ saturating_inc(a.heartbeat) \in U64
    BY SaturatingType DEF MemberRegister
  <1>1. /\ a.incarnation \in Nat /\ a.heartbeat \in Nat /\ a.state \in MemberState
        /\ a.address \in Nat /\ a.labels \in Nat /\ a.annotations \in Nat
    BY DEF MemberRegister, U64
  <1>2. \A n \in Nat : saturating_inc(n) \in Nat /\ (saturating_inc(n) > n \/ saturating_inc(n) = n)
    BY U64MaxAssumption DEF saturating_inc
  <1>3. /\ bump_heartbeat(a) \in MemberRegister
        /\ a.state \in {"Active", "Leaving"} => dominates(bump_heartbeat(a), a) \/ bump_heartbeat(a) = a
    <2>1. bump_heartbeat(a) \in MemberRegister
      BY <1>0, <1>1 DEF bump_heartbeat, is_active, MemberRegister, MemberState
    <2>2. ASSUME a.state \in {"Active", "Leaving"} PROVE dominates(bump_heartbeat(a), a) \/ bump_heartbeat(a) = a
      <3>1. /\ bump_heartbeat(a).incarnation = a.incarnation
            /\ bump_heartbeat(a).state = a.state
            /\ bump_heartbeat(a).heartbeat = saturating_inc(a.heartbeat)
            /\ bump_heartbeat(a).address = a.address
            /\ bump_heartbeat(a).labels = a.labels
            /\ bump_heartbeat(a).annotations = a.annotations
        BY <2>2 DEF bump_heartbeat, is_active, MemberRegister, U64
      <3>2. SameKey(bump_heartbeat(a), a) => bump_heartbeat(a) = a
        BY <2>1, <3>1 DEF SameKey, MemberRegister, U64
      <3>3. dominates(bump_heartbeat(a), a) \/ SameKey(bump_heartbeat(a), a)
        BY <1>1, <1>2, <2>2, <3>1, RankValues DEF dominates, SameKey
      <3> QED
        BY <3>2, <3>3
    <2> QED
      BY <2>1, <2>2
  <1>4. /\ suspect(a) \in MemberRegister
        /\ a.state \in {"Active"} => dominates(suspect(a), a)
    <2>1. suspect(a) \in MemberRegister
      BY <1>0, <1>1 DEF suspect, is_active, MemberRegister, MemberState
    <2>2. ASSUME a.state \in {"Active"} PROVE dominates(suspect(a), a)
      <3>1. /\ suspect(a).incarnation = a.incarnation
            /\ suspect(a).state = "Suspected"
            /\ suspect(a).heartbeat = saturating_inc(a.heartbeat)
            /\ suspect(a).address = a.address
            /\ suspect(a).labels = a.labels
            /\ suspect(a).annotations = a.annotations
        BY <2>2 DEF suspect, is_active, MemberRegister, U64
      <3> QED
        BY <1>1, <2>2, <3>1, RankValues DEF dominates
    <2> QED
      BY <2>1, <2>2
  <1>5. /\ offline(a) \in MemberRegister
        /\ a.state \in {"Suspected"} => dominates(offline(a), a)
    <2>1. offline(a) \in MemberRegister
      BY <1>0, <1>1 DEF offline, is_active, MemberRegister, MemberState
    <2>2. ASSUME a.state \in {"Suspected"} PROVE dominates(offline(a), a)
      <3>1. /\ offline(a).incarnation = a.incarnation
            /\ offline(a).state = "Offline"
            /\ offline(a).heartbeat = saturating_inc(a.heartbeat)
            /\ offline(a).address = a.address
            /\ offline(a).labels = a.labels
            /\ offline(a).annotations = a.annotations
        BY <2>2 DEF offline, is_active, MemberRegister, U64
      <3> QED
        BY <1>1, <2>2, <3>1, RankValues DEF dominates
    <2> QED
      BY <2>1, <2>2
  <1>6. /\ leave(a) \in MemberRegister
        /\ a.state \in {"Active", "Leaving"} => dominates(leave(a), a) \/ leave(a) = a
    <2>1. leave(a) \in MemberRegister
      BY <1>0, <1>1 DEF leave, is_active, MemberRegister, MemberState
    <2>2. ASSUME a.state \in {"Active", "Leaving"} PROVE dominates(leave(a), a) \/ leave(a) = a
      <3>1. /\ leave(a).incarnation = a.incarnation
            /\ leave(a).state = "Leaving"
            /\ leave(a).heartbeat = saturating_inc(a.heartbeat)
            /\ leave(a).address = a.address
            /\ leave(a).labels = a.labels
            /\ leave(a).annotations = a.annotations
        BY <2>2 DEF leave, is_active, MemberRegister, U64
      <3>2. SameKey(leave(a), a) => leave(a) = a
        BY <2>1, <3>1 DEF SameKey, MemberRegister, U64
      <3>3. dominates(leave(a), a) \/ SameKey(leave(a), a)
        BY <1>1, <1>2, <2>2, <3>1, RankValues DEF dominates, SameKey
      <3> QED
        BY <3>2, <3>3
    <2> QED
      BY <2>1, <2>2
  <1>7. /\ refute(a) \in MemberRegister
        /\ a.state \in {"Active"} => dominates(refute(a), a) \/ refute(a) = a
    <2>1. refute(a) \in MemberRegister
      BY <1>0, <1>1 DEF refute, is_active, MemberRegister, MemberState
    <2>2. ASSUME a.state \in {"Active"} PROVE dominates(refute(a), a) \/ refute(a) = a
      <3>1. /\ refute(a).incarnation = saturating_inc(a.incarnation)
            /\ refute(a).state = "Active"
            /\ refute(a).heartbeat = saturating_inc(a.heartbeat)
            /\ refute(a).address = a.address
            /\ refute(a).labels = a.labels
            /\ refute(a).annotations = a.annotations
        BY <2>2 DEF refute, is_active, MemberRegister, U64
      <3>2. SameKey(refute(a), a) => refute(a) = a
        BY <2>1, <3>1 DEF SameKey, MemberRegister, U64
      <3>3. dominates(refute(a), a) \/ SameKey(refute(a), a)
        BY <1>1, <1>2, <2>2, <3>1, RankValues DEF dominates, SameKey
      <3> QED
        BY <3>2, <3>3
    <2> QED
      BY <2>1, <2>2
  <1> QED
    BY <1>3, <1>4, <1>5, <1>6, <1>7

\* A merge never falls below either of the registers merged.
LEMMA MergeClimbs ==
  ASSUME NEW a \in MemberRegister, NEW b \in MemberRegister
  PROVE  ~ dominates(a, merge(a, b)) /\ ~ dominates(b, merge(a, b))
  <1>1. ~ dominates(a, a) /\ ~ dominates(b, b)
    BY TotalOrder
  <1>2. CASE dominates(b, a)
    BY <1>1, <1>2, TotalOrder DEF merge
  <1>3. CASE ~ dominates(b, a) /\ dominates(a, b)
    BY <1>1, <1>3 DEF merge
  <1>4. CASE ~ dominates(b, a) /\ ~ dominates(a, b)
    <2>1. SameKey(a, b)
      BY <1>4, TotalOrder
    <2>2. merge(a, b) \in MemberRegister /\ SameKey(merge(a, b), a)
      BY <2>1, MergeSameKey
    <2> QED
      BY <1>1, <1>4, <2>2, DominatesTransitive
  <1> QED
    BY <1>2, <1>3, <1>4
=============================================================================
