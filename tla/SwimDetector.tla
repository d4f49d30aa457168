---------------------------- MODULE SwimDetector ----------------------------
(***************************************************************************)
(* The failure detector of one node: Swim::tick with its probes, failure   *)
(* counters and suspicion timers (crates/membership/src/swim.rs), between  *)
(* the messages that change the same membership.                           *)
(*                                                                         *)
(* Times are kept as ages, the local clock minus the recorded timestamp,   *)
(* saturating at the threshold the code compares them with; a tick first   *)
(* lets d units of time pass.  A register is reduced to the part of the    *)
(* order key that decides between states: incarnation and state.           *)
(***************************************************************************)
EXTENDS Integers, FiniteSets, FiniteSetsExt

CONSTANTS Member,            \* the other nodes
          PingInterval, PingTimeout, FailureThreshold, SuspectTimeout,
          MaxStep,           \* bound: time between two ticks
          MaxRenewals,       \* bound: incarnations the members take together
          SeqModulus,        \* the width of Swim::sequence
          OldestGap          \* bound: gaps are told apart up to here

ASSUME SwimDetectorAssumption ==
  /\ \A c \in {PingInterval, PingTimeout, FailureThreshold, SuspectTimeout,
               MaxStep, MaxRenewals, SeqModulus, OldestGap} : c \in Nat \ {0}
  /\ OldestGap >= PingInterval

VARIABLES member,     \* Swim::membership without the local entry
          pending,    \* pending_pings: [seq, target, age]
          failures,   \* consecutive_failures, 0 when absent
          gap,        \* now - last_probe_ms, OldestGap when never probed
          since,      \* now - suspected_since_ms, Untimed when absent
          sequence,
          wire,       \* probes whose ack may still arrive: [seq, target]
          own,        \* own[m]: the incarnation m itself is at, 0 before it joins
          alive,      \* alive[m]: whether m's process runs
          renewals,   \* incarnations taken so far, by all members
          misses      \* history: probes of m timed out since its last ack or strike

env  == <<own, alive, renewals>>
vars == <<member, pending, failures, gap, since, sequence, wire, env, misses>>

States  == {"Active", "Suspected", "Leaving", "Offline"}
Untimed == -1
Unknown == [incarnation |-> 0, state |-> "Offline"]

is_active(r) == r.state \in {"Active", "Suspected"}

rank(s) ==
  CASE s = "Active" -> 0 [] s = "Suspected" -> 1 [] s = "Leaving" -> 2 [] s = "Offline" -> 3

\* MemberRegister::merge on what is kept of the order key.
merge(a, b) ==
  IF \/ b.incarnation > a.incarnation
     \/ b.incarnation = a.incarnation /\ rank(b.state) > rank(a.state)
    THEN b ELSE a

Capped(x, c) == IF x < c THEN x ELSE c

Init ==
  /\ member = [m \in Member |-> Unknown]
  /\ pending = {}
  /\ failures = [m \in Member |-> 0]
  /\ gap = [m \in Member |-> OldestGap]
  /\ since = [m \in Member |-> Untimed]
  /\ sequence = 0
  /\ wire = {}
  /\ own = [m \in Member |-> 0]
  /\ alive = [m \in Member |-> FALSE]
  /\ renewals = 0
  /\ misses = [m \in Member |-> 0]
-----------------------------------------------------------------------------
(* Swim::tick, phase by phase.                                             *)

\* check_timeouts: the pings found unanswered, and mark_suspected for each.
TimedOut(d) == {p \in pending : p.age + d >= PingTimeout}

\* Mutant: a ping found unanswered stays pending.
Waiting_Keeps(d) == {[p EXCEPT !.age = @ + d] : p \in pending}

Waiting(d) == {[p EXCEPT !.age = @ + d] : p \in pending \ TimedOut(d)}

Missed(d) == {p.target : p \in TimedOut(d)}

Struck(d) == {m \in Missed(d) : failures[m] + 1 >= FailureThreshold}

Suspecting(d) ==
  [m \in Member |-> IF m \in Struck(d) /\ member[m].state = "Active"
                      THEN [member[m] EXCEPT !.state = "Suspected"] ELSE member[m]]

\* check_suspect_timeouts: the timers after retain and or_insert, then expiry.
Timers(d) ==
  [m \in Member |->
     IF Suspecting(d)[m].state # "Suspected" THEN Untimed
     ELSE IF since[m] = Untimed THEN 0 ELSE Capped(since[m] + d, SuspectTimeout)]

Expiring(d) ==
  [m \in Member |-> IF Timers(d)[m] >= SuspectTimeout
                      THEN [member[m] EXCEPT !.state = "Offline"] ELSE Suspecting(d)[m]]

\* generate_probes: an active member without a pending ping and with the
\* largest gap; the iteration order of a HashMap decides between equal gaps.
Gap(d) == [m \in Member |-> Capped(gap[m] + d, OldestGap)]

\* Mutant: a member is probed again before its last ping is settled.
Candidates_Pending(d) ==
  {m \in Member : is_active(Expiring(d)[m]) /\ Gap(d)[m] >= PingInterval}

Candidates(d) ==
  {m \in Member : /\ is_active(Expiring(d)[m])
                  /\ Gap(d)[m] >= PingInterval
                  /\ m \notin {p.target : p \in Waiting(d)}}

\* Mutant: any candidate is probed, not the one waiting longest.
Probed_Any(d) == Candidates(d)

Probed(d) == {m \in Candidates(d) : \A k \in Candidates(d) : Gap(d)[k] <= Gap(d)[m]}

\* send_ping_to; the ack of a probe of a running member may arrive.  A number
\* is not reused while its ack is on the wire, which 64 bits ensure.
send_ping_to(d, m) ==
  LET seq == (sequence + 1) % SeqModulus
  IN  /\ seq \notin {p.seq : p \in Waiting(d)} \union {w.seq : w \in wire}
      /\ sequence' = seq
      /\ pending' = Waiting(d) \union {[seq |-> seq, target |-> m, age |-> 0]}
      /\ gap' = [Gap(d) EXCEPT ![m] = 0]
      /\ wire' = IF alive[m] THEN wire \union {[seq |-> seq, target |-> m]} ELSE wire

NoProbe(d) ==
  /\ Probed(d) = {}
  /\ pending' = Waiting(d)
  /\ gap' = Gap(d)
  /\ UNCHANGED <<sequence, wire>>

tick(d) ==
  /\ failures' = [m \in Member |-> IF m \in Struck(d) THEN 0
                                   ELSE IF m \in Missed(d) THEN failures[m] + 1
                                   ELSE failures[m]]
  /\ since' = Timers(d)
  /\ member' = Expiring(d)
  /\ NoProbe(d) \/ \E m \in Probed(d) : send_ping_to(d, m)
  /\ misses' = [m \in Member |-> IF m \in Struck(d) THEN 0
                                 ELSE IF m \in Missed(d) THEN misses[m] + 1 ELSE misses[m]]
  /\ UNCHANGED env
-----------------------------------------------------------------------------
(* Swim::on_message.                                                       *)

\* Mutant: the ack clears the ping but not the failure counter.
handle_ack_KeepsCount(w) ==
  /\ wire' = wire \ {w}
  /\ LET acked == {p \in pending : p.seq = w.seq}
     IN  /\ pending' = pending \ acked
         /\ misses' = [m \in Member |-> IF m \in {p.target : p \in acked}
                                          THEN 0 ELSE misses[m]]
  /\ UNCHANGED <<member, failures, gap, since, sequence, env>>

handle_ack(w) ==
  /\ wire' = wire \ {w}
  /\ LET acked   == {p \in pending : p.seq = w.seq}
         Cleared(count) == [m \in Member |-> IF m \in {p.target : p \in acked}
                                               THEN 0 ELSE count[m]]
     IN  /\ pending' = pending \ acked
         /\ failures' = Cleared(failures)
         /\ misses' = Cleared(misses)
  /\ UNCHANGED <<member, gap, since, sequence, env>>

\* A message leaves m's entry at r.
Entry(m, r) ==
  /\ member' = [member EXCEPT ![m] = r]
  /\ UNCHANGED <<pending, failures, gap, since, sequence, wire, env, misses>>

handle_alive_state(m, r) == Entry(m, merge(member[m], r))

Restamped(m, i, from, to) ==
  LET s == member[m].state
  IN  [incarnation |-> i, state |-> IF s \in from THEN to ELSE s]

handle_suspect_state(m, i) ==
  /\ member[m] # Unknown /\ member[m].incarnation <= i
  /\ Entry(m, merge(member[m], Restamped(m, i, {"Active"}, "Suspected")))

handle_leave_state(m, i) ==
  /\ member[m] # Unknown /\ member[m].incarnation <= i
  /\ Entry(m, merge(member[m], Restamped(m, i, States, "Leaving")))
-----------------------------------------------------------------------------
(* The members and the network.                                            *)

Lose(w) ==
  /\ wire' = wire \ {w}
  /\ UNCHANGED <<member, pending, failures, gap, since, sequence, env, misses>>

\* m joins, refutes a rumour or restarts: each takes the next incarnation.
Renew(m) ==
  /\ renewals < MaxRenewals
  /\ renewals' = renewals + 1
  /\ own' = [own EXCEPT ![m] = @ + 1]
  /\ alive' = [alive EXCEPT ![m] = TRUE]
  /\ UNCHANGED <<member, pending, failures, gap, since, sequence, wire, misses>>

Die(m) ==
  /\ alive[m]
  /\ alive' = [alive EXCEPT ![m] = FALSE]
  /\ UNCHANGED <<member, pending, failures, gap, since, sequence, wire, own, renewals, misses>>

Rumour(m) ==
  \E i \in 1..own[m] :
    \/ \E s \in States : handle_alive_state(m, [incarnation |-> i, state |-> s])
    \/ handle_suspect_state(m, i)
    \/ handle_leave_state(m, i)

Tick == \E d \in 1..MaxStep : tick(d)

Next ==
  \/ Tick
  \/ \E w \in wire : handle_ack(w) \/ Lose(w)
  \/ \E m \in Member : Rumour(m) \/ Renew(m) \/ Die(m)

Spec == Init /\ [][Next]_vars

(***************************************************************************)
(* run_swim ticks for as long as the process runs, and a probe's RPC ends  *)
(* with an ack, an error or its timeout.                                   *)
(***************************************************************************)
FairSpec ==
  /\ Spec
  /\ WF_vars(Tick)
  /\ WF_vars(\E w \in wire : handle_ack(w) \/ Lose(w))
-----------------------------------------------------------------------------
Register == [incarnation : Nat, state : States]

TypeOK ==
  /\ member \in [Member -> Register]
  /\ pending \subseteq [seq : 0..(SeqModulus - 1), target : Member, age : 0..(PingTimeout - 1)]
  /\ failures \in [Member -> 0..(FailureThreshold - 1)]
  /\ gap \in [Member -> 0..OldestGap]
  /\ since \in [Member -> Untimed..SuspectTimeout]
  /\ sequence \in 0..(SeqModulus - 1)
  /\ wire \subseteq [seq : 0..(SeqModulus - 1), target : Member]
  /\ own \in [Member -> Nat]
  /\ alive \in [Member -> BOOLEAN]
  /\ renewals \in Nat
  /\ misses \in [Member -> Nat]

(***************************************************************************)
(* A member has at most one unsettled probe, so a tick counts at most one  *)
(* failure against it however late the tick is (generate_probes).          *)
(***************************************************************************)
OnePing == \A p, q \in pending : p.target = q.target => p = q

(***************************************************************************)
(* The node itself suspects a member only after failure_threshold probes   *)
(* in a row went unanswered: rumours, refutations, late acks and earlier   *)
(* suspicions leave nothing behind that shortens the count.                *)
(***************************************************************************)
SuspicionEarned ==
  [][Tick => \A m \in Member :
       member[m].state = "Active" /\ member'[m].state # "Active"
         => /\ misses[m] + 1 >= FailureThreshold
            /\ \E p \in pending : p.target = m]_vars

(***************************************************************************)
(* Completeness: a member whose process is gone does not stay in the       *)
(* active membership, whatever rumours about it are still going around.    *)
(***************************************************************************)
Detects ==
  \A m \in Member : ~ alive[m] ~> (alive[m] \/ ~ is_active(member[m]))
=============================================================================
