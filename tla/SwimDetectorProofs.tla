------------------------- MODULE SwimDetectorProofs -------------------------
(***************************************************************************)
(* TypeOK, OnePing and SuspicionEarned for every set of members and every  *)
(* configuration of the detector.  The link between the counter the code   *)
(* keeps and the probes that really went unanswered is FailuresCounted.    *)
(***************************************************************************)
EXTENDS SwimDetector, TLAPS

\* consecutive_failures never runs ahead of the unanswered probes.
FailuresCounted == \A m \in Member : failures[m] <= misses[m]

IInv == TypeOK /\ OnePing /\ FailuresCounted

USE SwimDetectorAssumption

\* The thresholds are positive.
LEMMA Thresholds ==
  /\ PingInterval \in Nat \ {0} /\ PingTimeout \in Nat \ {0}
  /\ FailureThreshold \in Nat \ {0} /\ SuspectTimeout \in Nat \ {0}
  /\ MaxStep \in Nat \ {0} /\ SeqModulus \in Nat \ {0} /\ OldestGap \in Nat \ {0}
OBVIOUS

\* An age that saturates at its threshold stays a natural number below it.
LEMMA CappedType ==
  ASSUME NEW c \in Nat, NEW x \in Nat
  PROVE  Capped(x, c) \in 0..c /\ (x >= c => Capped(x, c) = c) /\ (x < c => Capped(x, c) = x)
BY DEF Capped

\* Merging two registers gives one of the two (MemberRegister::merge).
LEMMA MergeType ==
  ASSUME NEW a \in Register, NEW b \in Register
  PROVE  merge(a, b) \in Register
BY DEF merge

\* check_timeouts: the pings kept are the younger ones, with their targets.
LEMMA WaitingFacts ==
  ASSUME TypeOK, OnePing, NEW d \in 1..MaxStep
  PROVE  /\ Waiting(d) \subseteq [seq : 0..(SeqModulus - 1), target : Member,
                                  age : 0..(PingTimeout - 1)]
         /\ \A p, q \in Waiting(d) : p.target = q.target => p = q
<1>1. ASSUME NEW p \in pending \ TimedOut(d)
      PROVE  [p EXCEPT !.age = @ + d] \in [seq : 0..(SeqModulus - 1), target : Member,
                                           age : 0..(PingTimeout - 1)]
  <2>1. p \in [seq : 0..(SeqModulus - 1), target : Member, age : 0..(PingTimeout - 1)]
    BY DEF TypeOK
  <2>2. p.age + d \in 0..(PingTimeout - 1)
    BY <2>1, <1>1 DEF TimedOut
  <2> QED
    BY <2>1, <2>2
<1>2. ASSUME NEW p \in pending \ TimedOut(d), NEW q \in pending \ TimedOut(d),
             [p EXCEPT !.age = @ + d].target = [q EXCEPT !.age = @ + d].target
      PROVE  p = q
  <2>1. /\ p \in [seq : 0..(SeqModulus - 1), target : Member, age : 0..(PingTimeout - 1)]
        /\ q \in [seq : 0..(SeqModulus - 1), target : Member, age : 0..(PingTimeout - 1)]
    BY DEF TypeOK
  <2>2. p.target = q.target
    BY <1>2, <2>1
  <2> QED
    BY <2>2 DEF OnePing
<1> QED
  BY <1>1, <1>2 DEF Waiting

\* mark_suspected and check_suspect_timeouts change states, never the shape.
LEMMA TickTypes ==
  ASSUME TypeOK, NEW d \in 1..MaxStep
  PROVE  /\ Suspecting(d) \in [Member -> Register]
         /\ Timers(d) \in [Member -> Untimed..SuspectTimeout]
         /\ Expiring(d) \in [Member -> Register]
         /\ Gap(d) \in [Member -> 0..OldestGap]
<1>1. \A m \in Member, s \in States : [member[m] EXCEPT !.state = s] \in Register
  BY DEF TypeOK, Register
<1>2. "Suspected" \in States /\ "Offline" \in States
  BY DEF States
<1>3. Suspecting(d) \in [Member -> Register]
  BY <1>1, <1>2 DEF Suspecting, TypeOK
<1>4. ASSUME NEW m \in Member
      PROVE  Timers(d)[m] \in Untimed..SuspectTimeout
  <2>1. since[m] \in Untimed..SuspectTimeout
    BY DEF TypeOK
  <2>2. since[m] # Untimed => Capped(since[m] + d, SuspectTimeout) \in 0..SuspectTimeout
    <3> SUFFICES ASSUME since[m] # Untimed
                 PROVE  Capped(since[m] + d, SuspectTimeout) \in 0..SuspectTimeout
      OBVIOUS
    <3>1. since[m] + d \in Nat /\ SuspectTimeout \in Nat
      BY <2>1, Thresholds DEF Untimed
    <3> QED
      BY <3>1, CappedType
  <2> QED
    BY <2>1, <2>2 DEF Timers, Untimed
<1>5. Timers(d) \in [Member -> Untimed..SuspectTimeout]
  BY <1>4 DEF Timers
<1>6. Expiring(d) \in [Member -> Register]
  BY <1>1, <1>2, <1>3 DEF Expiring
<1>7. Gap(d) \in [Member -> 0..OldestGap]
  <2> SUFFICES ASSUME NEW m \in Member PROVE Capped(gap[m] + d, OldestGap) \in 0..OldestGap
    BY DEF Gap
  <2>1. gap[m] + d \in Nat /\ OldestGap \in Nat
    BY Thresholds DEF TypeOK
  <2> QED
    BY <2>1, CappedType
<1> QED
  BY <1>3, <1>5, <1>6, <1>7

\* A tick takes a member out of Active only through mark_suspected.
LEMMA SuspicionStruck ==
  ASSUME TypeOK, NEW d \in 1..MaxStep, NEW m \in Member,
         member[m].state = "Active", Expiring(d)[m].state # "Active"
  PROVE  m \in Struck(d)
<1> SUFFICES ASSUME m \notin Struck(d) PROVE FALSE
  OBVIOUS
<1>1. Suspecting(d)[m] = member[m]
  BY DEF Suspecting
<1>2. Timers(d)[m] = Untimed
  BY <1>1 DEF Timers
<1>3. Expiring(d)[m] = member[m]
  BY <1>1, <1>2 DEF Expiring, Untimed
<1> QED
  BY <1>3

\* A tick counts a failure for a probe it found unanswered and for no other.
LEMMA TickCounts ==
  ASSUME TypeOK, FailuresCounted, NEW d \in 1..MaxStep, tick(d)
  PROVE  /\ failures' \in [Member -> 0..(FailureThreshold - 1)]
         /\ misses' \in [Member -> Nat]
         /\ FailuresCounted'
         /\ \A m \in Struck(d) : misses[m] + 1 >= FailureThreshold
<1>1. ASSUME NEW m \in Member
      PROVE  /\ failures'[m] \in 0..(FailureThreshold - 1)
             /\ misses'[m] \in Nat
             /\ failures'[m] <= misses'[m]
             /\ m \in Struck(d) => misses[m] + 1 >= FailureThreshold
  <2>1. /\ failures[m] \in 0..(FailureThreshold - 1)
        /\ misses[m] \in Nat
        /\ failures[m] <= misses[m]
    BY DEF TypeOK, FailuresCounted
  <2>2. failures'[m] = IF m \in Struck(d) THEN 0
                       ELSE IF m \in Missed(d) THEN failures[m] + 1 ELSE failures[m]
    BY DEF tick
  <2>3. misses'[m] = IF m \in Struck(d) THEN 0
                     ELSE IF m \in Missed(d) THEN misses[m] + 1 ELSE misses[m]
    BY DEF tick
  <2>4. m \in Struck(d) <=> m \in Missed(d) /\ failures[m] + 1 >= FailureThreshold
    BY DEF Struck
  <2> QED
    BY <2>1, <2>2, <2>3, <2>4, Thresholds
<1>2. Struck(d) \subseteq Member
  BY DEF Struck, Missed, TimedOut, TypeOK
<1>3. /\ failures' = [m \in Member |-> failures'[m]]
      /\ misses' = [m \in Member |-> misses'[m]]
  BY DEF tick
<1> QED
  BY <1>1, <1>2, <1>3 DEF FailuresCounted

\* Swim::tick keeps the invariant.
LEMMA TickInv ==
  ASSUME IInv, NEW d \in 1..MaxStep, tick(d)
  PROVE  IInv'
<1> USE DEF IInv
<1>1. /\ Waiting(d) \subseteq [seq : 0..(SeqModulus - 1), target : Member,
                               age : 0..(PingTimeout - 1)]
      /\ \A p, q \in Waiting(d) : p.target = q.target => p = q
  BY WaitingFacts
<1>2. /\ pending' \subseteq [seq : 0..(SeqModulus - 1), target : Member,
                             age : 0..(PingTimeout - 1)]
      /\ gap' \in [Member -> 0..OldestGap]
      /\ sequence' \in 0..(SeqModulus - 1)
      /\ wire' \subseteq [seq : 0..(SeqModulus - 1), target : Member]
      /\ OnePing'
  <2>1. CASE NoProbe(d)
    BY <1>1, <2>1, TickTypes DEF NoProbe, TypeOK, OnePing
  <2>2. ASSUME NEW m \in Probed(d), send_ping_to(d, m)
        PROVE  <1>2!1 /\ <1>2!2 /\ <1>2!3 /\ <1>2!4 /\ <1>2!5
    <3> DEFINE ping == [seq |-> sequence', target |-> m, age |-> 0]
    <3>1. m \in Member /\ m \notin {p.target : p \in Waiting(d)}
      BY DEF Probed, Candidates
    <3>2. sequence' \in 0..(SeqModulus - 1)
      <4>1. sequence' = (sequence + 1) % SeqModulus
        BY <2>2 DEF send_ping_to
      <4>2. sequence + 1 \in Nat /\ SeqModulus \in Nat \ {0}
        BY Thresholds DEF TypeOK
      <4> QED
        BY <4>1, <4>2
    <3>3. pending' = Waiting(d) \union {ping}
      BY <2>2 DEF send_ping_to
    <3>4. ping \in [seq : 0..(SeqModulus - 1), target : Member, age : 0..(PingTimeout - 1)]
      BY <3>1, <3>2
    <3>5. gap' \in [Member -> 0..OldestGap]
      <4>1. gap' = [Gap(d) EXCEPT ![m] = 0]
        BY <2>2 DEF send_ping_to
      <4>2. Gap(d) \in [Member -> 0..OldestGap]
        BY TickTypes
      <4>3. 0 \in 0..OldestGap
        BY Thresholds
      <4> QED
        BY <4>1, <4>2, <4>3, Zenon
    <3>6. wire' \subseteq [seq : 0..(SeqModulus - 1), target : Member]
      BY <2>2, <3>1, <3>2 DEF send_ping_to, TypeOK
    <3>7. OnePing'
      <4>1. ping.target = m
        OBVIOUS
      <4> HIDE DEF ping
      <4> QED
        BY <1>1, <3>1, <3>3, <4>1 DEF OnePing
    <3> QED
      BY <1>1, <3>2, <3>3, <3>4, <3>5, <3>6, <3>7
  <2> QED
    BY <2>1, <2>2 DEF tick
<1>3. failures' \in [Member -> 0..(FailureThreshold - 1)] /\ misses' \in [Member -> Nat]
      /\ FailuresCounted'
  BY TickCounts
<1>4. member' \in [Member -> Register] /\ since' \in [Member -> Untimed..SuspectTimeout]
  BY TickTypes DEF tick
<1>5. own' \in [Member -> Nat] /\ alive' \in [Member -> BOOLEAN] /\ renewals' \in Nat
  BY DEF tick, env, TypeOK
<1> QED
  BY <1>2, <1>3, <1>4, <1>5 DEF TypeOK

\* An ack settles the ping of its sequence number and both counts with it.
LEMMA AckInv ==
  ASSUME IInv, NEW w \in wire, handle_ack(w)
  PROVE  IInv'
<1> USE DEF IInv
<1>1. pending' \subseteq pending /\ wire' \subseteq wire
  BY DEF handle_ack
<1>2. PICK S : /\ failures' = [m \in Member |-> IF m \in S THEN 0 ELSE failures[m]]
               /\ misses' = [m \in Member |-> IF m \in S THEN 0 ELSE misses[m]]
  BY DEF handle_ack
<1>3. failures' \in [Member -> 0..(FailureThreshold - 1)] /\ misses' \in [Member -> Nat]
  BY <1>2 DEF TypeOK
<1>4. FailuresCounted'
  BY <1>2 DEF FailuresCounted
<1>5. OnePing'
  BY <1>1 DEF OnePing
<1>6. UNCHANGED <<member, gap, since, sequence, own, alive, renewals>>
  BY DEF handle_ack, env
<1> QED
  BY <1>1, <1>3, <1>4, <1>5, <1>6 DEF TypeOK

\* A message changes the member's register and no probe or counter.
LEMMA EntryInv ==
  ASSUME IInv, NEW m \in Member, NEW r \in Register, Entry(m, r)
  PROVE  IInv'
<1> USE DEF IInv
<1>1. member' \in [Member -> Register]
  BY DEF Entry, TypeOK
<1>2. UNCHANGED <<pending, failures, gap, since, sequence, wire, own, alive, renewals, misses>>
  BY DEF Entry, env
<1> QED
  BY <1>1, <1>2 DEF TypeOK, OnePing, FailuresCounted

\* Alive, Suspect and Leave messages (Swim::on_message) keep the invariant.
LEMMA RumourInv ==
  ASSUME IInv, NEW m \in Member, Rumour(m)
  PROVE  IInv'
<1>1. own[m] \in Nat /\ member[m] \in Register
  BY DEF IInv, TypeOK
<1>2. PICK i \in 1..own[m] :
        \/ \E s \in States : handle_alive_state(m, [incarnation |-> i, state |-> s])
        \/ handle_suspect_state(m, i)
        \/ handle_leave_state(m, i)
  BY DEF Rumour
<1>3. \A s \in States : [incarnation |-> i, state |-> s] \in Register
  BY <1>1 DEF Register
<1>4. "Suspected" \in States /\ "Leaving" \in States /\ member[m].state \in States
  BY <1>1 DEF States, Register
<1>5. /\ Restamped(m, i, {"Active"}, "Suspected") \in Register
      /\ Restamped(m, i, States, "Leaving") \in Register
  BY <1>3, <1>4 DEF Restamped
<1>6. CASE \E s \in States : handle_alive_state(m, [incarnation |-> i, state |-> s])
  BY <1>6, <1>1, <1>3, MergeType, EntryInv DEF handle_alive_state
<1>7. CASE handle_suspect_state(m, i)
  BY <1>7, <1>1, <1>5, MergeType, EntryInv DEF handle_suspect_state
<1>8. CASE handle_leave_state(m, i)
  BY <1>8, <1>1, <1>5, MergeType, EntryInv DEF handle_leave_state
<1> QED
  BY <1>2, <1>6, <1>7, <1>8

\* A fresh detector (Swim::new) satisfies the invariant.
LEMMA InitInv == Init => IInv
<1> SUFFICES ASSUME Init PROVE IInv
  OBVIOUS
<1>1. member \in [Member -> Register]
  BY DEF Init, Unknown, Register, States
<1>2. since \in [Member -> Untimed..SuspectTimeout]
  BY DEF Init, Untimed
<1>3. /\ failures \in [Member -> 0..(FailureThreshold - 1)] /\ gap \in [Member -> 0..OldestGap]
      /\ own \in [Member -> Nat] /\ alive \in [Member -> BOOLEAN] /\ renewals \in Nat
      /\ misses \in [Member -> Nat]
  BY DEF Init
<1>4. sequence \in 0..(SeqModulus - 1) /\ pending = {} /\ wire = {}
  BY DEF Init
<1>5. TypeOK
  BY <1>1, <1>2, <1>3, <1>4 DEF TypeOK
<1> QED
  BY <1>5 DEF Init, IInv, OnePing, FailuresCounted

\* Every step keeps the invariant.
LEMMA StepInv == IInv /\ [Next]_vars => IInv'
<1> SUFFICES ASSUME IInv, [Next]_vars PROVE IInv'
  OBVIOUS
<1>1. CASE Tick
  BY <1>1, TickInv DEF Tick
<1>2. ASSUME NEW w \in wire, handle_ack(w) PROVE IInv'
  BY <1>2, AckInv
<1>3. ASSUME NEW w \in wire, Lose(w) PROVE IInv'
  BY <1>3 DEF Lose, env, IInv, TypeOK, OnePing, FailuresCounted
<1>4. ASSUME NEW m \in Member, Rumour(m) PROVE IInv'
  BY <1>4, RumourInv
<1>5. ASSUME NEW m \in Member, Renew(m) PROVE IInv'
  <2>1. own' \in [Member -> Nat] /\ alive' \in [Member -> BOOLEAN] /\ renewals' \in Nat
    BY <1>5 DEF Renew, IInv, TypeOK
  <2> QED
    BY <1>5, <2>1 DEF Renew, IInv, TypeOK, OnePing, FailuresCounted
<1>6. ASSUME NEW m \in Member, Die(m) PROVE IInv'
  <2>1. alive' \in [Member -> BOOLEAN]
    BY <1>6 DEF Die, IInv, TypeOK
  <2> QED
    BY <1>6, <2>1 DEF Die, IInv, TypeOK, OnePing, FailuresCounted
<1>7. CASE UNCHANGED vars
  BY <1>7 DEF vars, env, IInv, TypeOK, OnePing, FailuresCounted
<1> QED
  BY <1>1, <1>2, <1>3, <1>4, <1>5, <1>6, <1>7 DEF Next

\* The detector's maps keep their types and bounds: no ping outlives
\* ping_timeout_ms and no counter reaches failure_threshold.
THEOREM TypeOKTheorem == Spec => []TypeOK
<1>1. IInv => TypeOK
  BY DEF IInv
<1> QED
  BY InitInv, StepInv, <1>1, PTL DEF Spec

\* A member never has two unsettled probes (generate_probes), so one tick
\* counts at most one failure against it.
THEOREM OnePingTheorem == Spec => []OnePing
<1>1. IInv => OnePing
  BY DEF IInv
<1> QED
  BY InitInv, StepInv, <1>1, PTL DEF Spec

\* The node suspects a member on its own (mark_suspected) only after
\* failure_threshold probes in a row went unanswered, whatever rumours,
\* refutations and late acks came in between.
THEOREM SuspicionEarnedTheorem == Spec => SuspicionEarned
<1>1. ASSUME IInv, [Next]_vars, Tick, NEW m \in Member,
             member[m].state = "Active", member'[m].state # "Active"
      PROVE  misses[m] + 1 >= FailureThreshold /\ \E p \in pending : p.target = m
  <2>1. PICK d \in 1..MaxStep : tick(d)
    BY <1>1 DEF Tick
  <2>2. member' = Expiring(d)
    BY <2>1 DEF tick
  <2>3. m \in Struck(d)
    BY <1>1, <2>2, SuspicionStruck DEF IInv
  <2>4. misses[m] + 1 >= FailureThreshold
    BY <1>1, <2>1, <2>3, TickCounts DEF IInv
  <2>5. \E p \in pending : p.target = m
    BY <2>3 DEF Struck, Missed, TimedOut
  <2> QED
    BY <2>4, <2>5
<1>2. IInv /\ [Next]_vars =>
        [Tick => \A m \in Member : member[m].state = "Active" /\ member'[m].state # "Active"
                                     => /\ misses[m] + 1 >= FailureThreshold
                                        /\ \E p \in pending : p.target = m]_vars
  BY <1>1
<1> QED
  BY InitInv, StepInv, <1>2, PTL DEF Spec, SuspicionEarned
=============================================================================
