------------------------- MODULE RtpStream_proofs -------------------------
(***************************************************************************)
(* Proofs about RtpStream: what a scenario does to the packets of a stream *)
(* that is already running, and that a client which loses nothing sees     *)
(* continuous counters, for any payloads, any startup delay and any order  *)
(* of scenario changes, losses and ends of the stream.                     *)
(***************************************************************************)
EXTENDS RtpStream, NaturalsInduction, WellFoundedInduction, SequenceTheorems, TLAPS

(* The invariant.                                                          *)

Behaviors == {"rtp_stop", "rtp_loss", "rtp_jitter", "rtp_blackhole", "delayed_psi", "none"}

CountTypes ==
  /\ scenario \in ScenarioNames
  /\ pc \in {"wait", "load", "send", "gone"}
  /\ behavior \in [name : Behaviors, count : Nat]
  /\ since \in [sent : 0..(PacketLimit + 2), streak : 0..(DropEvery + 1), dropped : 0..3]

\* Where a sender is in its tick under each behavior: the packet limit ends it, a
\* blackhole sends nothing, a loss sends no packet whose number it drops, and
\* nothing is loaded while a startup delay runs.
Paced ==
  /\ behavior.name = "rtp_stop" =>
       behavior.count <= PacketLimit /\ (pc # "gone" => behavior.count < PacketLimit)
  /\ behavior.name = "rtp_loss" =>
       behavior.count < DropEvery /\ (pc = "send" => behavior.count # 0)
  /\ behavior.name = "rtp_blackhole" => pc # "send"
  /\ behavior.name = "delayed_psi" =>
       behavior.count <= StartupTicks /\ (behavior.count < StartupTicks => pc \in {"wait", "gone"})

\* Until the sender has seen a new scenario, one packet was on its way at most.
OneOnItsWay ==
  behavior.name # BehaviorOf(scenario) =>
    /\ since.sent <= 1 /\ since.streak + since.dropped <= 1
    /\ since.sent + since.streak + since.dropped > 0 => pc \in {"wait", "gone"}

\* From then on its counters tell how many followed.
Followed ==
  behavior.name = BehaviorOf(scenario) =>
    /\ behavior.name = "rtp_stop" => since.sent <= behavior.count + 1
    /\ behavior.name = "rtp_blackhole" => since.sent <= 1
    /\ behavior.name = "delayed_psi" /\ behavior.count < StartupTicks => since.sent <= 1
    /\ behavior.name = "rtp_loss" =>
         /\ since.streak <= behavior.count + (IF pc = "send" THEN 0 ELSE 1)
         /\ since.dropped <= 1
         /\ pc \in {"wait", "load"} /\ behavior.count # 0 => since.dropped = 0

CountInv == CountTypes /\ Paced /\ OneOnItsWay /\ Followed

-----------------------------------------------------------------------------

\* What a scenario does to a stream is one of the behaviors.
LEMMA BehaviorType == \A name : BehaviorOf(name) \in Behaviors
BY DEF BehaviorOf, Behaviors

\* Setting a scenario starts the history over.
LEMMA CountSet ==
  ASSUME CountInv, NEW name \in Scenarios, SetScenario(name)
  PROVE  CountInv'
<1>1. /\ pc' = pc /\ behavior' = behavior /\ scenario' \in ScenarioNames
      /\ since' = [sent |-> 0, streak |-> 0, dropped |-> 0]
  BY StreamAssumption DEF SetScenario, NoHistory
<1>2. QED BY <1>1 DEF CountInv, CountTypes, Paced, OneOnItsWay, Followed, PacketLimit, DropEvery

\* A tick under a new scenario starts its counters over.
LEMMA CountTick ==
  ASSUME CountInv, Tick
  PROVE  CountInv'
<1> DEFINE read == BehaviorOf(scenario)
<1>1. /\ pc = "wait" /\ scenario' = scenario /\ since' = since
      /\ behavior' = IF read # behavior.name THEN [name |-> read, count |-> 0]
                     ELSE IF read = "delayed_psi"
                       THEN [behavior EXCEPT !.count = Counted(@, StartupTicks)]
                     ELSE behavior
      /\ pc' = IF read = "delayed_psi" /\ behavior'.count < StartupTicks THEN "wait" ELSE "load"
  BY DEF Tick, envVars, Fresh
<1>2. read \in Behaviors
  BY BehaviorType
<1>3. StartupTicks \in Nat /\ StartupTicks > 0
  BY StreamAssumption
<1>4. CASE read # behavior.name
  BY <1>1, <1>2, <1>3, <1>4
     DEF CountInv, CountTypes, Paced, OneOnItsWay, Followed, PacketLimit, DropEvery
<1>5. CASE read = behavior.name /\ read = "delayed_psi"
  <2>1. behavior' = [behavior EXCEPT !.count = Counted(@, StartupTicks)]
    BY <1>1, <1>5
  <2>2. behavior.count \in Nat /\ Counted(behavior.count, StartupTicks) \in Nat
    BY <1>3 DEF CountInv, CountTypes, Counted
  <2>3. behavior' \in [name : Behaviors, count : Nat] /\ behavior'.name = "delayed_psi"
    BY <1>5, <2>1, <2>2 DEF CountInv, CountTypes
  <2>4. behavior.count <= behavior'.count /\ behavior'.count <= StartupTicks
    <3>1. behavior.count <= StartupTicks
      BY <1>5 DEF CountInv, Paced
    <3>2. behavior'.count = Counted(behavior.count, StartupTicks)
      BY <2>1 DEF CountInv, CountTypes
    <3>3. QED BY <1>3, <2>2, <3>1, <3>2 DEF Counted
  <2>5. QED BY <1>1, <1>3, <1>5, <2>3, <2>4
            DEF CountInv, CountTypes, Paced, OneOnItsWay, Followed
<1>6. CASE read = behavior.name /\ read # "delayed_psi"
  BY <1>1, <1>3, <1>6 DEF CountInv, CountTypes, Paced, OneOnItsWay, Followed
<1>7. QED BY <1>4, <1>5, <1>6

\* What a dropped chunk adds to the history.
LEMMA CountedDrop ==
  ASSUME CountTypes
  PROVE  /\ SinceDropped \in [sent : 0..(PacketLimit + 2), streak : 0..(DropEvery + 1), dropped : 0..3]
         /\ SinceDropped.sent = since.sent /\ SinceDropped.streak = 0
         /\ SinceDropped.dropped <= IF scenario = "rtp_loss" THEN since.dropped + 1 ELSE 0
<1> DEFINE dropped == IF scenario = "rtp_loss" THEN Counted(since.dropped, 3) ELSE 0
<1>1. SinceDropped = [since EXCEPT !.streak = 0, !.dropped = dropped]
  BY DEF SinceDropped
<1>2. since.dropped \in 0..3
  BY DEF CountTypes
<1>3. dropped \in 0..3 /\ dropped <= IF scenario = "rtp_loss" THEN since.dropped + 1 ELSE 0
  BY <1>2 DEF Counted
<1> HIDE DEF dropped
<1>4. 0 \in 0..(DropEvery + 1)
  BY DEF DropEvery
<1>5. QED BY <1>1, <1>3, <1>4 DEF CountTypes

\* Loading a chunk drops it or hands it to Send, and counts it under a loss.
LEMMA CountLoad ==
  ASSUME CountInv, Load
  PROVE  CountInv'
<1>1. /\ pc = "load" /\ scenario' = scenario
      /\ behavior' = IF behavior.name = "rtp_loss"
                       THEN [behavior EXCEPT !.count = (@ + 1) % DropEvery] ELSE behavior
      /\ \/ Drops /\ since' = SinceDropped /\ pc' = "wait"
         \/ ~Drops /\ since' = since /\ pc' = "send"
  BY DEF Load, envVars
<1>2. CASE behavior.name = "rtp_loss"
  <2>1. behavior.count \in 0..2
    BY <1>2 DEF CountInv, CountTypes, Paced, DropEvery
  <2>2. /\ behavior' \in [name : Behaviors, count : Nat] /\ behavior'.name = "rtp_loss"
        /\ behavior'.count = IF behavior.count = 2 THEN 0 ELSE behavior.count + 1
        /\ Drops <=> behavior.count = 2
    BY <1>1, <1>2, <2>1 DEF CountInv, CountTypes, DropEvery, Drops
  <2>3. CountTypes' /\ Paced'
    BY <1>1, <2>1, <2>2, CountedDrop DEF CountInv, CountTypes, Paced, DropEvery
  <2>4. CASE scenario = "rtp_loss"
    <3>1. CASE behavior.count = 2
      <4>1. since' = SinceDropped /\ pc' = "wait" /\ pc = "load"
        BY <1>1, <2>2, <3>1
      <4>2. behavior.name = BehaviorOf(scenario) /\ behavior'.name = BehaviorOf(scenario)'
        BY <1>1, <1>2, <2>2, <2>4 DEF BehaviorOf
      <4>3. since.dropped = 0
        BY <1>2, <2>4, <3>1, <4>1, <4>2 DEF CountInv, Followed
      <4>4. since'.streak = 0 /\ since'.dropped <= 1 /\ behavior'.count = 0
        BY <2>2, <2>4, <3>1, <4>1, <4>3, CountedDrop DEF CountInv, CountTypes
      <4>5. Followed' /\ OneOnItsWay'
        BY <2>2, <4>1, <4>2, <4>4 DEF Followed, OneOnItsWay
      <4>6. QED BY <2>3, <4>5 DEF CountInv
    <3>2. CASE behavior.count # 2
      <4>1. since' = since /\ pc' = "send"
        BY <1>1, <2>2, <3>2
      <4>2. QED BY <1>1, <1>2, <2>1, <2>2, <2>3, <2>4, <3>2, <4>1
                DEF CountInv, CountTypes, OneOnItsWay, Followed, BehaviorOf
    <3>3. QED BY <2>3, <3>1, <3>2 DEF CountInv
  <2>5. CASE scenario # "rtp_loss"
    BY <1>1, <1>2, <2>2, <2>3, <2>5, CountedDrop
       DEF CountInv, CountTypes, OneOnItsWay, Followed, BehaviorOf
  <2>6. QED BY <2>4, <2>5
<1>3. CASE behavior.name # "rtp_loss"
  <2>1. behavior' = behavior /\ (Drops <=> behavior.name = "rtp_blackhole")
    BY <1>1, <1>3 DEF Drops
  <2>2. CountTypes' /\ Paced'
    BY <1>1, <1>3, <2>1, CountedDrop DEF CountInv, CountTypes, Paced
  <2>3. OneOnItsWay'
    BY <1>1, <1>3, <2>1, CountedDrop DEF CountInv, CountTypes, OneOnItsWay
  <2>4. Followed'
    BY <1>1, <1>3, <2>1, CountedDrop DEF CountInv, CountTypes, Followed
  <2>5. QED BY <2>2, <2>3, <2>4 DEF CountInv
<1>4. QED BY <1>2, <1>3

\* Sending a chunk counts it under rtp_stop, whether or not the write gets through.
LEMMA CountSend ==
  ASSUME CountInv, NEW delivered, Send(delivered)
  PROVE  CountInv'
<1>1. /\ pc = "send" /\ scenario' = scenario /\ since' = SinceSent
      /\ IF behavior.name = "rtp_stop"
           THEN /\ behavior' = [behavior EXCEPT !.count = @ + 1]
                /\ pc' = IF behavior'.count >= PacketLimit THEN "gone" ELSE "wait"
           ELSE pc' = "wait" /\ behavior' = behavior
  BY DEF Send, envVars
<1>2. CASE behavior.name = "rtp_stop"
  <2>1. /\ behavior' \in [name : Behaviors, count : Nat] /\ behavior'.name = "rtp_stop"
        /\ behavior'.count = behavior.count + 1 /\ behavior.count \in 0..2
    BY <1>1, <1>2 DEF CountInv, CountTypes, Paced, PacketLimit
  <2>2. QED BY <1>1, <1>2, <2>1
            DEF CountInv, CountTypes, Paced, OneOnItsWay, Followed, SinceSent, Counted,
                PacketLimit, DropEvery, BehaviorOf, ScenarioNames
<1>3. CASE behavior.name # "rtp_stop"
  BY <1>1, <1>3
     DEF CountInv, CountTypes, Paced, OneOnItsWay, Followed, SinceSent, Counted,
         PacketLimit, DropEvery, BehaviorOf, ScenarioNames
<1>4. QED BY <1>2, <1>3

\* Every step preserves the invariant.
LEMMA CountStep ==
  ASSUME CountInv, [Next]_vars
  PROVE  CountInv'
<1>1. CASE Tick
  BY <1>1, CountTick
<1>2. CASE Load
  BY <1>2, CountLoad
<1>3. ASSUME NEW delivered \in BOOLEAN, Send(delivered) PROVE CountInv'
  BY <1>3, CountSend
<1>4. CASE Break \/ Stop
  BY <1>4 DEF Break, Stop, envVars, CountInv, CountTypes, Paced, OneOnItsWay, Followed
<1>5. ASSUME NEW name \in Scenarios, SetScenario(name) PROVE CountInv'
  BY <1>5, CountSet
<1>6. CASE UNCHANGED vars
  BY <1>6 DEF vars, CountInv, CountTypes, Paced, OneOnItsWay, Followed
<1>7. QED BY <1>1, <1>2, <1>3, <1>4, <1>5, <1>6 DEF Next, Sender

\* The invariant holds.
THEOREM CountInvariant == Spec => []CountInv
<1>1. Init => CountInv
  BY StreamAssumption
     DEF Init, Fresh, NoHistory, CountInv, CountTypes, Paced, OneOnItsWay, Followed,
         Behaviors, PacketLimit, DropEvery
<1>2. CountInv /\ [Next]_vars => CountInv'
  BY CountStep
<1>3. QED BY <1>1, <1>2, PTL DEF Spec

\* ImpairmentTakesHold: rtp_stop, rtp_blackhole and delayed_psi bind a stream that was
\* running before they were set, save for the packet on its way (streamBehavior).
THEOREM ImpairmentTakesHoldHolds == Spec => []ImpairmentTakesHold
<1>1. CountInv => ImpairmentTakesHold
  <2>1. SUFFICES ASSUME CountInv PROVE ImpairmentTakesHold
    OBVIOUS
  <2>2. since.sent \in 0..5 /\ behavior.count \in Nat
    BY <2>1 DEF CountInv, CountTypes, PacketLimit
  <2>3. CASE scenario = "rtp_stop"
    BY <2>1, <2>2, <2>3 DEF CountInv, Paced, OneOnItsWay, Followed, ImpairmentTakesHold,
       PacketLimit, BehaviorOf
  <2>4. CASE scenario = "rtp_blackhole"
    BY <2>1, <2>2, <2>4 DEF CountInv, OneOnItsWay, Followed, ImpairmentTakesHold, BehaviorOf
  <2>5. CASE scenario = "delayed_psi"
    <3>1. behavior.count < StartupTicks \/ behavior.name # "delayed_psi" => since.sent <= 1
      BY <2>1, <2>5 DEF CountInv, OneOnItsWay, Followed, BehaviorOf
    <3>2. behavior.count = StartupTicks \/ behavior.count < StartupTicks \/ behavior.name # "delayed_psi"
      BY <2>1, <2>2, StreamAssumption DEF CountInv, Paced
    <3>3. QED BY <2>2, <2>5, <3>1, <3>2 DEF ImpairmentTakesHold, PacketLimit
  <2>6. CASE scenario \notin {"rtp_stop", "rtp_blackhole", "delayed_psi"}
    BY <2>2, <2>6 DEF ImpairmentTakesHold, PacketLimit
  <2>7. QED BY <2>3, <2>4, <2>5, <2>6
<1>2. QED BY <1>1, CountInvariant, PTL

\* EveryThirdDropped: under rtp_loss no two packets in a row are dropped and no four in
\* a row sent, wherever in the count the scenario was set (shouldDrop).
THEOREM EveryThirdDroppedHolds == Spec => []EveryThirdDropped
<1>1. CountInv => EveryThirdDropped
  BY DEF CountInv, CountTypes, Paced, OneOnItsWay, Followed, EveryThirdDropped, DropEvery,
         BehaviorOf
<1>2. QED BY <1>1, CountInvariant, PTL
----------------------------------------------------------------------------
(* Recursion over a sequence.                                              *)

\* A nonempty set of numbers has a least one.
LEMMA LeastNumber ==
  ASSUME NEW S \in SUBSET Nat, S # {}
  PROVE  \E n \in S : \A m \in S : n <= m
<1> DEFINE R == {ss \in Nat \X Nat : ss[1] < ss[2]}
<1>1. IsWellFoundedOn(R, Nat)
  BY NatLessThanWellFounded, Zenon DEF OpToRel
<1> HIDE DEF R
<1>2. PICK n \in S : \A m \in S : ~ (<<m, n>> \in R)
  BY <1>1, WFMin
<1>3. \A m \in S : ~ (m < n)
  BY <1>2 DEF R
<1> QED
  BY <1>3

\* What holds of 0 and passes from a number to the next holds up to n.
LEMMA Upwards ==
  ASSUME NEW n \in Nat, NEW S, 0 \in S,
         \A i \in 0..n : i \in S /\ i < n => i + 1 \in S
  PROVE  \A i \in 0..n : i \in S
<1> DEFINE Missed == {i \in 0..n : i \notin S}
<1>1. SUFFICES ASSUME Missed # {} PROVE FALSE
  OBVIOUS
<1>2. Missed \in SUBSET Nat
  OBVIOUS
<1>3. PICK m \in Missed : \A i \in Missed : m <= i
  <2> HIDE DEF Missed
  <2> QED
    BY <1>1, <1>2, LeastNumber
<1>4. m \in 0..n /\ m \notin S /\ m # 0
  OBVIOUS
<1>5. PICK k \in 0..n : m = k + 1
  <2>1. m - 1 \in 0..n /\ m = (m - 1) + 1
    BY <1>4
  <2> QED
    BY <2>1
<1>6. k \notin Missed /\ k < n
  BY <1>3, <1>4, <1>5
<1> QED
  BY <1>4, <1>5, <1>6

\* The first value of f is start, and step[i] makes the one at i from the one before.
Follows(f, n, S, start, step) ==
  /\ f \in [0..n -> S] /\ f[0] = start
  /\ \A i \in 1..n : f[i] = step[i][f[i - 1]]

\* Such a function exists.
LEMMA RecursionExists ==
  ASSUME NEW n \in Nat, NEW S, NEW start \in S, NEW step \in [1..n -> [S -> S]]
  PROVE  \E f : Follows(f, n, S, start, step)
<1> DEFINE Solves(f, m) == f[0] = start /\ \A i \in 1..m : f[i] = step[i][f[i - 1]]
           Solved == {m \in 0..n : \E f \in [0..m -> S] : Solves(f, m)}
<1>1. 0 \in Solved
  <2> DEFINE f == [i \in 0..0 |-> start]
  <2>1. f \in [0..0 -> S] /\ Solves(f, 0) /\ 0 \in 0..n
    OBVIOUS
  <2> QED
    BY <2>1
<1>2. ASSUME NEW k \in 0..n, k \in Solved, k < n
      PROVE  k + 1 \in Solved
  <2>1. PICK f \in [0..k -> S] : Solves(f, k)
    BY <1>2
  <2>2. PICK m \in 1..n : m = k + 1
    BY <1>2
  <2>3. f[k] \in S /\ step[m][f[k]] \in S
    BY <2>1
  <2> DEFINE g == [i \in 0..m |-> IF i = m THEN step[m][f[k]] ELSE f[i]]
  <2>4. g \in [0..m -> S]
    BY <2>1, <2>2, <2>3
  <2>5. \A i \in 0..k : g[i] = f[i]
    BY <2>2
  <2>6. g[m] = step[m][f[k]]
    BY <2>2
  <2> HIDE DEF g
  <2>7. g[0] = start /\ g[k] = f[k]
    BY <2>1, <2>5
  <2>8. ASSUME NEW i \in 1..m
        PROVE  g[i] = step[i][g[i - 1]]
    <3>1. CASE i = m
      BY <2>2, <2>6, <2>7, <3>1
    <3>2. CASE i # m
      <4>1. i \in 1..k /\ i \in 0..k /\ i - 1 \in 0..k
        BY <2>2, <3>2
      <4> QED
        BY <2>1, <2>5, <4>1
    <3> QED
      BY <3>1, <3>2
  <2> QED
    BY <2>2, <2>4, <2>7, <2>8
<1>3. \A m \in 0..n : m \in Solved
  <2> HIDE DEF Solved
  <2> QED
    BY <1>1, <1>2, Upwards
<1>4. n \in Solved
  BY <1>3
<1> QED
  BY <1>4 DEF Follows

\* What PacketsAt returns is made of packets, and of some if there is a position.
LEMMA PacketsAtType ==
  ASSUME NEW payload \in Seq(Packet), NEW positions
  PROVE  /\ PacketsAt(payload, positions) \in Seq(Packet)
         /\ positions \cap DOMAIN payload # {} => PacketsAt(payload, positions) # <<>>
<1> DEFINE n    == Len(payload)
           P    == Seq(Packet)
           Next1(s, i) == IF i \in positions THEN Append(s, payload[i]) ELSE s
           Rec(f) == f = [i \in 0..n |-> IF i = 0 THEN <<>>
                                         ELSE IF i \in positions THEN Append(f[i - 1], payload[i])
                                              ELSE f[i - 1]]
           step == [i \in 1..n |-> [s \in P |-> Next1(s, i)]]
<1>1. n \in Nat /\ DOMAIN payload = 1..n /\ \A i \in 1..n : payload[i] \in Packet
  OBVIOUS
<1>2. \A s \in P, i \in 1..n : Next1(s, i) \in P
  BY <1>1
<1>3. step \in [1..n -> [P -> P]] /\ <<>> \in P
  <2> HIDE DEF Next1
  <2> QED
    BY <1>2
<1>4. \A i \in 1..n, s \in P : step[i][s] = Next1(s, i)
  OBVIOUS
<1>5. PICK f : Follows(f, n, P, <<>>, step)
  <2> HIDE DEF step, P, n
  <2> QED
    BY <1>1, <1>3, RecursionExists
<1>6. \A i \in 1..n : i - 1 \in 0..n /\ i \in 0..n
  BY <1>1
<1>7. \A i \in 1..n : f[i] = Next1(f[i - 1], i)
  <2> HIDE DEF step, P, n, Next1
  <2> QED
    BY <1>4, <1>5, <1>6 DEF Follows
<1>8. Rec(f)
  <2>1. \A i \in 0..n : i = 0 \/ i \in 1..n
    BY <1>1
  <2> HIDE DEF P, n, step
  <2> QED
    BY <1>5, <1>7, <2>1 DEF Follows
<1> DEFINE upTo == CHOOSE h : Rec(h)
<1>9. Rec(upTo)
  BY <1>8
<1>10. PacketsAt(payload, positions) = upTo[n]
  BY DEF PacketsAt
<1> HIDE DEF upTo, step
<1>11. upTo[0] = <<>> /\ \A i \in 1..n : upTo[i] = Next1(upTo[i - 1], i)
  <2>1. 0 \in 0..n /\ \A i \in 1..n : i # 0 /\ i \in 0..n
    BY <1>1
  <2> HIDE DEF n
  <2> QED
    BY <1>9, <2>1
<1> DEFINE Right == {i \in 0..n : upTo[i] \in P /\ (positions \cap 1..i # {} => upTo[i] # <<>>)}
<1>12. 0 \in Right
  <2>1. 0 \in 0..n /\ 1..0 = {}
    BY <1>1
  <2> HIDE DEF n, P
  <2> QED
    BY <1>3, <1>11, <2>1
<1>13. ASSUME NEW k \in 0..n, k \in Right, k < n
       PROVE  k + 1 \in Right
  <2>1. PICK m \in 1..n : m = k + 1
    BY <1>1, <1>13
  <2>2. m - 1 = k /\ 1..m = 1..k \cup {m} /\ m \in 0..n
    BY <1>1, <2>1
  <2>3. upTo[m] = Next1(upTo[k], m) /\ upTo[k] \in P /\ payload[m] \in Packet
    BY <1>1, <1>11, <1>13, <2>2
  <2>4. upTo[m] \in P
    BY <2>3
  <2>5. m \in positions => upTo[m] # <<>>
    <3>1. \A s \in P, p \in Packet : Append(s, p) # <<>>
      OBVIOUS
    <3> QED
      BY <2>3, <3>1
  <2>6. m \notin positions => (positions \cap 1..m # {} => positions \cap 1..k # {})
                              /\ upTo[m] = upTo[k]
    BY <2>2, <2>3
  <2> HIDE DEF P, n
  <2>7. m \in Right
    BY <1>13, <2>2, <2>4, <2>5, <2>6
  <2> QED
    BY <2>1, <2>7
<1>14. \A i \in 0..n : i \in Right
  <2> HIDE DEF Right
  <2> QED
    BY <1>1, <1>12, <1>13, Upwards
<1>15. n \in 0..n
  BY <1>1
<1> QED
  BY <1>1, <1>10, <1>14, <1>15

----------------------------------------------------------------------------
(* Numbers that wrap, and the greatest and least of them.                  *)

\* What % does next to its range.
LEMMA Wrap ==
  ASSUME NEW range \in Nat \ {0}
  PROVE  /\ \A x \in 0..(range - 1) : x % range = x
         /\ \A x \in range..(2 * range - 1) : x % range = x - range
         /\ \A x \in Int : x % range \in 0..(range - 1)
         /\ \A x \in 0..(range - 1) : (x + range) % range = x
<1>1. \A x \in 0..(range - 1) : x % range = x
  OBVIOUS
<1>2. \A x \in range..(2 * range - 1) : x % range = x - range
  OBVIOUS
<1>3. \A x \in Int : x % range \in 0..(range - 1)
  OBVIOUS
<1>4. \A x \in 0..(range - 1) : (x + range) % range = x
  OBVIOUS
<1> QED
  BY <1>1, <1>2, <1>3, <1>4

\* A counter that goes on by one, and the one before the next.
LEMMA NextBefore ==
  ASSUME NEW range \in Nat \ {0}, NEW x \in 0..(range - 1)
  PROVE  /\ (x + 1) % range \in 0..(range - 1)
         /\ (((x + 1) % range) + range - 1) % range = x
<1>1. CASE x = range - 1
  <2>1. (x + 1) % range = 0
    BY <1>1, Wrap
  <2>2. (0 + range - 1) % range = range - 1
    <3>1. range - 1 \in 0..(range - 1) /\ 0 + range - 1 = range - 1
      OBVIOUS
    <3> QED
      BY <3>1, Wrap
  <2> QED
    BY <1>1, <2>1, <2>2
<1>2. CASE x # range - 1
  <2>1. (x + 1) % range = x + 1
    <3>1. x + 1 \in 0..(range - 1)
      BY <1>2
    <3> QED
      BY <3>1, Wrap
  <2>2. (x + 1 + range - 1) % range = x
    <3>1. PICK y \in range..(2 * range - 1) : y = x + 1 + range - 1
      OBVIOUS
    <3>2. y % range = y - range
      BY <3>1, Wrap
    <3> QED
      BY <3>1, <3>2
  <2> QED
    BY <1>2, <2>1, <2>2
<1> QED
  BY <1>1, <1>2

\* A multiple goes to the next.
LEMMA NextMultiple ==
  ASSUME NEW step \in Nat \ {0}, NEW x \in Nat, x % step = 0
  PROVE  (x + step) % step = 0
<1> DEFINE k == x \div step
<1>1. k \in Int
  OBVIOUS
<1>2. x = step * k + (x % step)
  OBVIOUS
<1> HIDE DEF k
<1>3. step * (k + 1) = step * k + step
  BY <1>1
<1>4. x + step = step * (k + 1)
  BY <1>1, <1>2, <1>3
<1>5. (step * (k + 1)) % step = 0
  BY <1>1
<1> QED
  BY <1>4, <1>5

\* A nonempty set of numbers up to n has a greatest one.
LEMMA GreatestNumber ==
  ASSUME NEW n \in Nat, NEW S \in SUBSET (0..n), S # {}
  PROVE  \E m \in S : \A k \in S : k <= m
<1> DEFINE Below == {b \in 0..n : \E k \in S : k + b = n}
<1>1. Below # {}
  <2>1. PICK k \in S : k \in 0..n
    OBVIOUS
  <2>2. PICK b \in 0..n : k + b = n
    <3>1. n - k \in 0..n /\ k + (n - k) = n
      BY <2>1
    <3> QED
      BY <3>1
  <2> QED
    BY <2>2
<1>2. PICK b \in Below : \A c \in Below : b <= c
  <2>1. Below \in SUBSET Nat
    OBVIOUS
  <2> HIDE DEF Below
  <2> QED
    BY <1>1, <2>1, LeastNumber
<1>3. PICK m \in S : m + b = n
  OBVIOUS
<1>4. ASSUME NEW k \in S
      PROVE  k <= m
  <2>1. PICK c \in 0..n : k + c = n
    <3>1. n - k \in 0..n /\ k + (n - k) = n
      OBVIOUS
    <3> QED
      BY <3>1
  <2>2. b <= c /\ b \in 0..n
    BY <1>2, <2>1
  <2> QED
    BY <1>3, <2>1, <2>2
<1> QED
  BY <1>4

\* Of finitely many integers one is the greatest.
LEMMA GreatestValue ==
  ASSUME NEW n \in Nat, NEW f \in [0..n -> Int]
  PROVE  \E m \in 0..n : \A k \in 0..n : f[k] <= f[m]
<1> DEFINE S == {i \in 0..n : \E m \in 0..i : \A k \in 0..i : f[k] <= f[m]}
<1>1. 0 \in S
  OBVIOUS
<1>2. ASSUME NEW i \in 0..n, i \in S, i < n
      PROVE  i + 1 \in S
  <2>1. PICK m \in 0..i : \A k \in 0..i : f[k] <= f[m]
    BY <1>2
  <2>2. PICK j \in 0..n : j = i + 1
    BY <1>2
  <2>3. \A k \in 0..j : k \in 0..i \/ k = j
    BY <2>2
  <2>4. f[m] \in Int /\ f[j] \in Int /\ m \in 0..j /\ j \in 0..j
        /\ \A k \in 0..j : f[k] \in Int
    BY <2>2
  <2>5. \E l \in 0..j : \A k \in 0..j : f[k] <= f[l]
    <3>1. CASE f[m] <= f[j]
      <4>1. \A k \in 0..j : f[k] <= f[j]
        BY <2>1, <2>3, <2>4, <3>1
      <4> QED
        BY <2>4, <4>1
    <3>2. CASE ~(f[m] <= f[j])
      <4>1. \A k \in 0..j : f[k] <= f[m]
        BY <2>1, <2>3, <2>4, <3>2
      <4> QED
        BY <2>4, <4>1
    <3> QED
      BY <3>1, <3>2
  <2> QED
    BY <2>2, <2>5
<1>3. \A i \in 0..n : i \in S
  <2> HIDE DEF S
  <2> QED
    BY <1>1, <1>2, Upwards
<1>4. n \in S
  <2>1. n \in 0..n
    OBVIOUS
  <2> HIDE DEF S
  <2> QED
    BY <1>3, <2>1
<1> QED
  BY <1>4

\* So has their set a Max, and with the signs turned round a Min.
LEMMA Extremes ==
  ASSUME NEW n \in Nat, NEW f \in [0..n -> Int], NEW S, S = {f[i] : i \in 0..n}
  PROVE  /\ Max(S) \in S /\ \A x \in S : x <= Max(S)
         /\ Min(S) \in S /\ \A x \in S : Min(S) <= x
         /\ S \subseteq Int
<1>1. S \subseteq Int
  OBVIOUS
<1>2. \E m \in S : \A x \in S : m >= x
  <2>1. PICK m \in 0..n : \A k \in 0..n : f[k] <= f[m]
    BY GreatestValue
  <2>2. f[m] \in S /\ \A x \in S : \E k \in 0..n : x = f[k]
    OBVIOUS
  <2> QED
    BY <1>1, <2>1, <2>2
<1>3. \E m \in S : \A x \in S : m =< x
  <2> DEFINE g == [i \in 0..n |-> -f[i]]
  <2>1. g \in [0..n -> Int]
    OBVIOUS
  <2>2. PICK m \in 0..n : \A k \in 0..n : g[k] <= g[m]
    <3> HIDE DEF g
    <3> QED
      BY <2>1, GreatestValue
  <2>3. \A k \in 0..n : f[m] <= f[k]
    <3>1. ASSUME NEW k \in 0..n
          PROVE  f[m] <= f[k]
      <4>1. g[k] <= g[m]
        BY <2>2
      <4>2. f[k] \in Int /\ f[m] \in Int /\ -f[k] <= -f[m]
        BY <4>1
      <4> QED
        BY <4>2
    <3> QED
      BY <3>1
  <2> QED
    BY <2>3
<1>4. Max(S) \in S /\ \A x \in S : Max(S) >= x
  <2> HIDE DEF Max
  <2> QED
    BY <1>2 DEF Max
<1>5. Min(S) \in S /\ \A x \in S : Min(S) =< x
  BY <1>3 DEF Min
<1> QED
  BY <1>1, <1>4, <1>5

----------------------------------------------------------------------------
(* The cycle of a payload (timestampCycleDuration).                        *)

LEMMA Distances ==
  \A from, to \in Int : Distance(from, to) \in Int
<1> SUFFICES ASSUME NEW from \in Int, NEW to \in Int
             PROVE  Distance(from, to) \in Int
  OBVIOUS
<1>1. StampRange \in Nat \ {0}
  BY LoopAssumption
<1>2. (to - from) % StampRange \in Int
  BY <1>1, Wrap
<1> QED
  BY <1>1, <1>2 DEF Distance

LEMMA TrackType ==
  ASSUME NEW payload \in Seq(Packet), NEW pid, NEW kind \in Kind
  PROVE  Track(payload, pid, kind) \in Seq(Int)
<1> DEFINE found   == {i \in DOMAIN payload : payload[i].pid = pid /\ payload[i].stamp[kind] # Unset}
           stamped == PacketsAt(payload, found)
<1>1. stamped \in Seq(Packet)
  BY PacketsAtType
<1>2. \A p \in Packet : p.stamp[kind] \in Int
  BY LoopAssumption DEF Packet, Stamps, Unset
<1>3. Track(payload, pid, kind) = [i \in DOMAIN stamped |-> stamped[i].stamp[kind]]
  BY DEF Track
<1> HIDE DEF stamped
<1>4. DOMAIN stamped = 1..Len(stamped) /\ \A i \in 1..Len(stamped) : stamped[i] \in Packet
  BY <1>1
<1>5. Track(payload, pid, kind) \in [1..Len(stamped) -> Int]
  BY <1>2, <1>3, <1>4
<1>6. Len(stamped) \in Nat
  BY <1>1
<1> QED
  BY <1>5, <1>6

\* The unwrapped values of a track are numbers.
LEMMA UnwrappedType ==
  ASSUME NEW raw \in Seq(Int), raw # <<>>
  PROVE  Unwrapped(raw) \in [1..Len(raw) -> Int]
<1> DEFINE top    == Len(raw)
           Rec(f) == f = [i \in DOMAIN raw |-> IF i = 1 THEN raw[1]
                                               ELSE f[i - 1] + Distance(raw[i - 1], raw[i])]
<1>1. PICK n \in Nat : top = n + 1
  <2>1. top \in Nat \ {0}
    OBVIOUS
  <2>2. top - 1 \in Nat /\ top = (top - 1) + 1
    BY <2>1
  <2> QED
    BY <2>2
<1>2. DOMAIN raw = 1..top /\ \A i \in 1..top : raw[i] \in Int
  OBVIOUS
<1> DEFINE step == [i \in 1..n |-> [x \in Int |-> x + Distance(raw[i], raw[i + 1])]]
<1>3. \A i \in 1..n : i \in 1..top /\ i + 1 \in 1..top /\ i - 1 \in 0..n
  BY <1>1
<1>4. \A i \in 1..n : Distance(raw[i], raw[i + 1]) \in Int
  BY <1>2, <1>3, Distances
<1>5. step \in [1..n -> [Int -> Int]]
  BY <1>4
<1>6. PICK f : Follows(f, n, Int, raw[1], step)
  <2>1. raw[1] \in Int
    BY <1>1, <1>2
  <2> HIDE DEF step
  <2> QED
    BY <1>5, <2>1, RecursionExists
<1> DEFINE g == [i \in 1..top |-> f[i - 1]]
<1>7. \A i \in 1..n : f[i] = f[i - 1] + Distance(raw[i], raw[i + 1])
  <2>1. SUFFICES ASSUME NEW i \in 1..n
                 PROVE  f[i] = f[i - 1] + Distance(raw[i], raw[i + 1])
    OBVIOUS
  <2>2. f[i - 1] \in Int /\ f[i] = step[i][f[i - 1]]
    <3> HIDE DEF step
    <3> QED
      BY <1>3, <1>6 DEF Follows
  <2> QED
    BY <2>2
<1>8. \A i \in 1..top : g[i] = IF i = 1 THEN raw[1] ELSE g[i - 1] + Distance(raw[i - 1], raw[i])
  <2>1. SUFFICES ASSUME NEW i \in 1..top
                 PROVE  g[i] = IF i = 1 THEN raw[1] ELSE g[i - 1] + Distance(raw[i - 1], raw[i])
    OBVIOUS
  <2>2. CASE i = 1
    BY <1>6, <2>2 DEF Follows
  <2>3. CASE i # 1
    <3>1. PICK k \in 1..n : i = k + 1
      <4>1. i - 1 \in 1..n /\ i = (i - 1) + 1
        BY <1>1, <2>3
      <4> QED
        BY <4>1
    <3>2. k \in 1..top /\ i - 1 = k /\ i \in 1..top
      BY <1>3, <3>1
    <3>3. g[i] = f[k] /\ g[k] = f[k - 1]
      BY <3>2
    <3> HIDE DEF g
    <3>4. g[i] = g[k] + Distance(raw[k], raw[i])
      BY <1>7, <3>1, <3>3
    <3> QED
      BY <2>3, <3>2, <3>4
  <2> QED
    BY <2>2, <2>3
<1>9. Rec(g)
  <2> DEFINE G == [i \in 1..top |-> IF i = 1 THEN raw[1]
                                    ELSE g[i - 1] + Distance(raw[i - 1], raw[i])]
  <2>1. g = [i \in 1..top |-> g[i]]
    OBVIOUS
  <2> HIDE DEF g
  <2>2. g = G
    BY <1>8, <2>1
  <2> QED
    BY <1>2, <2>2
<1> DEFINE at == CHOOSE h : Rec(h)
<1>10. Rec(at)
  <2> HIDE DEF Rec
  <2> QED
    BY <1>9
<1>11. Unwrapped(raw) = [i \in DOMAIN raw |-> at[i]]
  BY DEF Unwrapped
<1> HIDE DEF at
<1>12. \A i \in 1..top : at[i] = IF i = 1 THEN raw[1] ELSE at[i - 1] + Distance(raw[i - 1], raw[i])
  BY <1>2, <1>10
<1> DEFINE Right == {i \in 0..n : at[i + 1] \in Int}
<1>13. 0 \in Right
  <2>1. 1 \in 1..top /\ raw[1] \in Int /\ 0 + 1 = 1 /\ 0 \in 0..n
    BY <1>1, <1>2
  <2> QED
    BY <1>12, <2>1
<1>14. ASSUME NEW k \in 0..n, k \in Right, k < n
       PROVE  k + 1 \in Right
  <2>1. PICK m \in 1..n : m = k + 1
    BY <1>14
  <2>2. PICK l \in 1..top : l = m + 1
    BY <1>3, <2>1
  <2>3. l # 1 /\ l - 1 = m /\ at[m] \in Int /\ m \in 0..n
    BY <1>14, <2>1, <2>2
  <2>4. at[l] = at[m] + Distance(raw[m], raw[l])
    BY <1>12, <2>2, <2>3
  <2>5. Distance(raw[m], raw[l]) \in Int
    BY <1>4, <2>1, <2>2
  <2>6. at[m + 1] \in Int
    BY <2>2, <2>3, <2>4, <2>5
  <2> QED
    BY <2>1, <2>3, <2>6
<1>15. \A i \in 0..n : i \in Right
  <2> HIDE DEF Right
  <2> QED
    BY <1>13, <1>14, Upwards
<1>16. \A i \in 1..top : at[i] \in Int
  <2>1. SUFFICES ASSUME NEW i \in 1..top PROVE at[i] \in Int
    OBVIOUS
  <2>2. i - 1 \in 0..n /\ (i - 1) + 1 = i
    BY <1>1
  <2> QED
    BY <1>15, <2>2
<1> QED
  BY <1>2, <1>11, <1>16

LEMMA SpanType ==
  ASSUME NEW raw \in Seq(Int), raw # <<>>
  PROVE  Span(raw) \in Int
<1> DEFINE values == {Unwrapped(raw)[i] : i \in DOMAIN raw}
<1>1. PICK n \in Nat : Len(raw) = n + 1 /\ DOMAIN raw = 1..(n + 1)
  <2>1. Len(raw) \in Nat \ {0} /\ DOMAIN raw = 1..Len(raw)
    OBVIOUS
  <2>2. Len(raw) - 1 \in Nat /\ Len(raw) = (Len(raw) - 1) + 1
    BY <2>1
  <2> QED
    BY <2>1, <2>2
<1> DEFINE f == [i \in 0..n |-> Unwrapped(raw)[i + 1]]
<1>2. \A i \in 0..n : i + 1 \in 1..(n + 1)
  OBVIOUS
<1>3. \A i \in 1..(n + 1) : i - 1 \in 0..n /\ (i - 1) + 1 = i
  OBVIOUS
<1>4. f \in [0..n -> Int]
  BY <1>1, <1>2, UnwrappedType
<1>5. values = {f[i] : i \in 0..n}
  <2>1. \A i \in 0..n : f[i] \in values
    BY <1>1, <1>2
  <2>2. \A i \in 1..(n + 1) : Unwrapped(raw)[i] = f[i - 1]
    BY <1>3
  <2>3. \A x \in values : \E i \in 0..n : x = f[i]
    BY <1>1, <1>3, <2>2
  <2> HIDE DEF f, values
  <2> QED
    BY <2>1, <2>3
<1>6. Max(values) \in Int /\ Min(values) \in Int
  <2> HIDE DEF f, values
  <2> QED
    BY <1>4, <1>5, Extremes
<1> QED
  BY <1>6 DEF Span

\* A payload has a cycle, if only the default one.
LEMMA DurationType ==
  ASSUME NEW payload \in Seq(Packet), NEW kind \in Kind
  PROVE  DurationForKind(payload, kind) \in Nat
<1> DEFINE Raw(pid) == Track(payload, pid, kind)
           D(pid)   == IF ForwardSteps(Raw(pid)) = {} THEN 0
                       ELSE Span(Raw(pid)) + Min(ForwardSteps(Raw(pid)))
           tracks   == {Raw(pid) : pid \in PIDs}
           all      == {0} \cup {Span(raw) + Min(ForwardSteps(raw)) :
                                   raw \in {r \in tracks : ForwardSteps(r) # {}}}
<1>1. ASSUME NEW pid \in PIDs
      PROVE  D(pid) \in Int
  <2>1. Raw(pid) \in Seq(Int)
    BY TrackType
  <2>2. CASE ForwardSteps(Raw(pid)) # {}
    <3>1. Raw(pid) # <<>>
      <4>1. Raw(pid) = <<>> => Len(Raw(pid)) = 0 /\ 2..0 = {}
        OBVIOUS
      <4> QED
        BY <2>2, <4>1 DEF ForwardSteps
    <3>2. Span(Raw(pid)) \in Int
      BY <2>1, <3>1, SpanType
    <3>3. ForwardSteps(Raw(pid)) \in SUBSET Nat
      BY DEF ForwardSteps
    <3>4. Min(ForwardSteps(Raw(pid))) \in Nat
      <4>1. \E m \in ForwardSteps(Raw(pid)) : \A k \in ForwardSteps(Raw(pid)) : m =< k
        BY <2>2, <3>3, LeastNumber
      <4> HIDE DEF Raw
      <4> QED
        BY <3>3, <4>1 DEF Min
    <3> HIDE DEF Raw
    <3> QED
      BY <2>2, <3>2, <3>4
  <2> QED
    BY <2>2
<1>2. PICK e \in Seq(PIDs) : \A pid \in PIDs : \E i \in 1..Len(e) : e[i] = pid
  BY LoopAssumption DEF IsFiniteSet
<1> DEFINE n == Len(e)
           f == [i \in 0..n |-> IF i = 0 THEN 0 ELSE D(e[i])]
<1>3. n \in Nat /\ \A i \in 1..n : e[i] \in PIDs
  OBVIOUS
<1> HIDE DEF D
<1>4. f \in [0..n -> Int]
  BY <1>1, <1>3
<1>5. \A i \in 0..n : f[i] \in all
  <2>1. ASSUME NEW pid \in PIDs
        PROVE  D(pid) \in all
    BY DEF D
  <2> HIDE DEF all
  <2>2. 0 \in all
    BY DEF all
  <2> QED
    BY <1>3, <2>1, <2>2
<1>6. \A x \in all : \E i \in 0..n : x = f[i]
  <2>1. \A x \in all : x = 0 \/ \E pid \in PIDs : x = D(pid)
    BY DEF D
  <2>2. 0 \in 0..n /\ f[0] = 0
    BY <1>3
  <2>3. \A i \in 1..n : i \in 0..n /\ f[i] = D(e[i])
    BY <1>3
  <2> HIDE DEF all, f, n
  <2> QED
    BY <1>2, <2>1, <2>2, <2>3 DEF n
<1>7. all = {f[i] : i \in 0..n}
  <2> HIDE DEF all, f, n
  <2> QED
    BY <1>5, <1>6
<1>8. 0 \in all
  OBVIOUS
<1>9. Max(all) \in Int /\ 0 <= Max(all)
  <2> HIDE DEF all, f, n
  <2> QED
    BY <1>3, <1>4, <1>7, <1>8, Extremes
<1>10. DurationForKind(payload, kind) = Max(all)
  BY DEF DurationForKind
<1> HIDE DEF all
<1> QED
  BY <1>9, <1>10

LEMMA CycleType ==
  ASSUME NEW payload \in Seq(Packet)
  PROVE  CycleDuration(payload) \in Nat
<1> DEFINE usable == {i \in DOMAIN Kinds : DurationForKind(payload, Kinds[i]) > 0}
<1>1. DOMAIN Kinds \in SUBSET Nat /\ \A i \in DOMAIN Kinds : Kinds[i] \in Kind
  BY DEF Kinds, Kind
<1>2. CASE usable = {}
  BY <1>2, LoopAssumption DEF CycleDuration
<1>3. CASE usable # {}
  <2>1. Min(usable) \in usable
    <3>1. usable \in SUBSET Nat
      BY <1>1
    <3> HIDE DEF usable
    <3>2. \E m \in usable : \A k \in usable : m =< k
      BY <1>3, <3>1, LeastNumber
    <3> QED
      BY <3>2 DEF Min
  <2>2. DurationForKind(payload, Kinds[Min(usable)]) \in Nat
    BY <1>1, <2>1, DurationType
  <2> QED
    BY <1>3, <2>2 DEF CycleDuration
<1> QED
  BY <1>2, <1>3

----------------------------------------------------------------------------
(* Continuity counters (rewriteContinuityCounters).                        *)

Known == [PIDs -> CCs \cup {Unset}]

LEMMA CounterRange ==
  /\ CCRange \in Nat \ {0} /\ CCs = 0..(CCRange - 1) /\ Unset \notin CCs /\ CCs \in SUBSET Nat
  /\ \A x \in Int : x % CCRange \in CCs
  /\ \A x \in CCs : /\ (x + 1) % CCRange \in CCs
                   /\ (((x + 1) % CCRange) + CCRange - 1) % CCRange = x
<1>1. CCRange \in Nat \ {0} /\ CCs = 0..(CCRange - 1) /\ Unset = -1
  BY LoopAssumption DEF CCs, Unset
<1>2. \A x \in Int : x % CCRange \in CCs
  BY <1>1, Wrap
<1>3. \A x \in CCs : /\ (x + 1) % CCRange \in CCs
                    /\ (((x + 1) % CCRange) + CCRange - 1) % CCRange = x
  BY <1>1, NextBefore
<1>4. Unset \notin CCs /\ CCs \in SUBSET Nat
  BY <1>1
<1> QED
  BY <1>1, <1>2, <1>3, <1>4

LEMMA KnownType ==
  ASSUME NEW known \in Known, NEW p \in Packet, NEW preserve
  PROVE  /\ Renumbered(known, p, preserve) \in CCs
         /\ KnownAfter(known, p, preserve) \in Known
<1>1. p.pid \in PIDs /\ p.cc \in CCs
  BY DEF Packet
<1>2. known[p.pid] \in CCs \cup {Unset}
  BY <1>1 DEF Known
<1>3. Renumbered(known, p, preserve) \in CCs
  <2>1. CASE preserve \/ known[p.pid] = Unset
    BY <1>1, <2>1 DEF Renumbered
  <2>2. CASE ~(preserve \/ known[p.pid] = Unset)
    <3>1. known[p.pid] \in Nat /\ known[p.pid] \in CCs
      BY <1>2, <2>2, CounterRange
    <3>2. known[p.pid] + CCRange - 1 \in Int
      <4>1. CCRange \in Nat
        BY CounterRange
      <4> QED
        BY <3>1, <4>1
    <3>3. (known[p.pid] + CCRange - 1) % CCRange \in CCs
      BY <3>2, CounterRange
    <3> QED
      BY <2>2, <3>1, <3>3 DEF Renumbered
  <2> QED
    BY <2>1, <2>2
<1>4. (Renumbered(known, p, preserve) + 1) % CCRange \in CCs
  <2>1. Renumbered(known, p, preserve) + 1 \in Int
    BY <1>3, CounterRange
  <2> QED
    BY <2>1, CounterRange
<1>5. KnownAfter(known, p, preserve) \in Known
  <2> DEFINE next == (Renumbered(known, p, preserve) + 1) % CCRange
  <2>1. [known EXCEPT ![p.pid] = next] \in Known
    <3> HIDE DEF next
    <3> QED
      BY <1>1, <1>4 DEF Known, next
  <2> HIDE DEF next
  <2>2. KnownAfter(known, p, preserve) \in {known, [known EXCEPT ![p.pid] = next]}
    BY DEF KnownAfter, next
  <2> QED
    BY <2>1, <2>2
<1> QED
  BY <1>3, <1>5

\* The counters next are taken along from packet to packet.
LEMMA CountersType ==
  ASSUME NEW known \in Known, NEW packets \in Seq(Packet), NEW preserve
  PROVE  LET after == Counters(known, packets, preserve)
         IN  /\ after \in [0..Len(packets) -> Known] /\ after[0] = known
             /\ \A i \in 1..Len(packets) :
                  after[i] = KnownAfter(after[i - 1], packets[i], preserve)
<1> DEFINE n      == Len(packets)
           On(k, i) == KnownAfter(k, packets[i], preserve)
           Rec(f) == f = [i \in 0..n |-> IF i = 0 THEN known ELSE On(f[i - 1], i)]
           step   == [i \in 1..n |-> [k \in Known |-> On(k, i)]]
<1>1. n \in Nat /\ \A i \in 1..n : packets[i] \in Packet
  OBVIOUS
<1>2. \A i \in 1..n, k \in Known : On(k, i) \in Known
  BY <1>1, KnownType
<1>3. step \in [1..n -> [Known -> Known]]
  <2> HIDE DEF On
  <2> QED
    BY <1>2
<1>4. PICK f : Follows(f, n, Known, known, step)
  <2> HIDE DEF step, n
  <2> QED
    BY <1>1, <1>3, RecursionExists
<1>5. \A i \in 1..n, k \in Known : step[i][k] = On(k, i)
  OBVIOUS
<1>6. \A i \in 1..n : i - 1 \in 0..n /\ i \in 0..n /\ i # 0
  BY <1>1
<1>7. \A i \in 1..n : f[i] = On(f[i - 1], i)
  <2> HIDE DEF step, n, On
  <2> QED
    BY <1>4, <1>5, <1>6 DEF Follows
<1>8. Rec(f)
  <2>1. \A i \in 0..n : i = 0 \/ i \in 1..n
    BY <1>1
  <2> HIDE DEF n, step, On
  <2> QED
    BY <1>4, <1>7, <2>1 DEF Follows
<1> DEFINE after == CHOOSE h : Rec(h)
<1>9. Rec(after)
  <2> HIDE DEF Rec
  <2> QED
    BY <1>8
<1>10. Counters(known, packets, preserve) = after
  BY DEF Counters
<1> HIDE DEF after, step
<1>11. after[0] = known /\ \A i \in 1..n : after[i] = On(after[i - 1], i)
  <2>1. 0 \in 0..n
    BY <1>1
  <2> HIDE DEF n, On
  <2> QED
    BY <1>6, <1>9, <2>1
<1> DEFINE Right == {i \in 0..n : after[i] \in Known}
<1>12. 0 \in Right
  BY <1>1, <1>11
<1>13. ASSUME NEW k \in 0..n, k \in Right, k < n
       PROVE  k + 1 \in Right
  <2>1. PICK m \in 1..n : m = k + 1
    BY <1>1, <1>13
  <2>2. m - 1 = k /\ m \in 0..n
    BY <1>1, <2>1
  <2>3. after[m] = On(after[k], m) /\ after[k] \in Known
    BY <1>11, <1>13, <2>2
  <2>4. after[m] \in Known
    BY <1>2, <2>3
  <2> HIDE DEF n
  <2> QED
    BY <2>1, <2>2, <2>4
<1>14. \A i \in 0..n : i \in Right
  <2> HIDE DEF Right, n
  <2> QED
    BY <1>1, <1>12, <1>13, Upwards
<1>15. after \in [0..n -> Known]
  <2> HIDE DEF n, On
  <2>1. after = [i \in 0..n |-> IF i = 0 THEN known ELSE On(after[i - 1], i)]
    BY <1>9
  <2>2. \A i \in 0..n : after[i] \in Known
    BY <1>14
  <2>3. after = [i \in 0..n |-> after[i]]
    BY <2>1
  <2> QED
    BY <2>2, <2>3
<1> QED
  BY <1>10, <1>11, <1>15

\* The packets of a chunk carry the counters that are next for them; after[i] is what
\* is next after i packets.
Numbered(packets, preserve, after) ==
  /\ after \in [0..Len(packets) -> Known]
  /\ \A i \in 1..Len(packets) :
       /\ packets[i].cc = Renumbered(after[i - 1], packets[i], preserve)
       /\ after[i] = KnownAfter(after[i - 1], packets[i], preserve)

\* So does a chunk that was renumbered.
LEMMA RenumberedChunk ==
  ASSUME NEW known \in Known, NEW packets \in Seq(Packet), NEW preserve,
         NEW after, after = Counters(known, packets, preserve),
         NEW renumbered,
         renumbered = [i \in DOMAIN packets |->
           [packets[i] EXCEPT !.cc = Renumbered(after[i - 1], packets[i], preserve)]]
  PROVE  /\ renumbered \in Seq(Packet) /\ Len(renumbered) = Len(packets)
         /\ after[0] = known /\ Numbered(renumbered, preserve, after)
<1> DEFINE n == Len(packets)
           Got(i) == Renumbered(after[i - 1], packets[i], preserve)
<1>1. /\ n \in Nat /\ DOMAIN packets = 1..n /\ \A i \in 1..n : packets[i] \in Packet
  OBVIOUS
<1>2. /\ after \in [0..n -> Known] /\ after[0] = known
      /\ \A i \in 1..n : after[i] = KnownAfter(after[i - 1], packets[i], preserve)
  BY CountersType
<1>3. \A i \in 1..n : after[i - 1] \in Known
  <2>1. \A i \in 1..n : i - 1 \in 0..n
    BY <1>1
  <2> HIDE DEF n
  <2> QED
    BY <1>2, <2>1
<1>4. \A i \in 1..n : Got(i) \in CCs
  BY <1>1, <1>3, KnownType
<1>5. \A i \in 1..n : renumbered[i] = [packets[i] EXCEPT !.cc = Got(i)]
  BY <1>1
<1>6. ASSUME NEW i \in 1..n
      PROVE  /\ renumbered[i] \in Packet /\ renumbered[i].cc = Got(i)
             /\ Renumbered(after[i - 1], renumbered[i], preserve) = Got(i)
             /\ KnownAfter(after[i - 1], renumbered[i], preserve) = after[i]
  <2>1. packets[i] \in Packet /\ Got(i) \in CCs /\ renumbered[i] = [packets[i] EXCEPT !.cc = Got(i)]
    BY <1>1, <1>4, <1>5
  <2> DEFINE got == Got(i)
             q   == renumbered[i]
             p   == packets[i]
             known1 == after[i - 1]
  <2>2. q \in Packet /\ q.cc = got /\ q.pid = p.pid /\ q.hasPayload = p.hasPayload
    <3> HIDE DEF got, q, p
    <3>1. p \in Packet /\ got \in CCs /\ q = [p EXCEPT !.cc = got]
      BY <2>1 DEF got, q, p
    <3> QED
      BY <3>1 DEF Packet
  <2>3. Renumbered(known1, q, preserve) = got
    <3>1. got = Renumbered(known1, p, preserve)
      OBVIOUS
    <3> HIDE DEF got, q, p, known1
    <3> QED
      BY <2>2, <3>1 DEF Renumbered
  <2>4. KnownAfter(known1, q, preserve) = KnownAfter(known1, p, preserve)
    <3>1. got = Renumbered(known1, p, preserve)
      OBVIOUS
    <3> HIDE DEF got, q, p, known1
    <3> QED
      BY <2>2, <2>3, <3>1 DEF KnownAfter
  <2> QED
    BY <1>2, <2>2, <2>3, <2>4
<1>7. renumbered \in Seq(Packet) /\ Len(renumbered) = n
  <2>1. DOMAIN renumbered = 1..n /\ renumbered = [i \in 1..n |-> renumbered[i]]
    BY <1>1
  <2>2. renumbered \in [1..n -> Packet]
    BY <1>6, <2>1
  <2> HIDE DEF n
  <2> QED
    BY <1>1, <2>2
<1> QED
  BY <1>2, <1>6, <1>7 DEF Numbered

----------------------------------------------------------------------------
(* The client.                                                             *)

Carries(p, pid) == p.pid = pid /\ p.hasPayload

\* The last counter of a PID in the first i packets.
LastIn(packets, i, pid, known) ==
  LET found == {k \in 1..i : Carries(packets[k], pid)}
  IN  IF found = {} THEN known ELSE packets[Max(found)].cc

LEMMA FirstPackets ==
  ASSUME NEW packets \in Seq(Packet), NEW i \in 0..Len(packets)
  PROVE  /\ DOMAIN SubSeq(packets, 1, i) = 1..i
         /\ \A k \in 1..i : SubSeq(packets, 1, i)[k] = packets[k]
<1> DEFINE first == SubSeq(packets, 1, i)
<1>1. \A k \in 1..i : packets[k] \in Packet
  OBVIOUS
<1>2. /\ first \in Seq(Packet)
      /\ Len(first) = IF 1 <= i THEN i - 1 + 1 ELSE 0
      /\ \A k \in 1..(i - 1 + 1) : first[k] = packets[1 + k - 1]
  <2>1. 1 \in Int /\ i \in Int
    OBVIOUS
  <2> HIDE DEF first
  <2> QED
    BY <1>1, <2>1, SubSeqProperties DEF first
<1> HIDE DEF first
<1>3. i - 1 + 1 = i /\ \A k \in 1..i : 1 + k - 1 = k
  OBVIOUS
<1>4. Len(first) = i
  BY <1>2
<1>5. DOMAIN first = 1..i
  BY <1>2, <1>4
<1>6. \A k \in 1..i : first[k] = packets[k]
  BY <1>2, <1>3
<1> QED
  BY <1>5, <1>6 DEF first

LEMMA LastCCIn ==
  ASSUME NEW packets \in Seq(Packet), NEW i \in 0..Len(packets), NEW pid, NEW known
  PROVE  LastCC(SubSeq(packets, 1, i), pid, known) = LastIn(packets, i, pid, known)
<1> DEFINE first == SubSeq(packets, 1, i)
           here  == {k \in DOMAIN first : first[k].pid = pid /\ first[k].hasPayload}
           there == {k \in 1..i : Carries(packets[k], pid)}
<1>1. LastCC(first, pid, known) = IF here = {} THEN known ELSE first[Max(here)].cc
  BY DEF LastCC, LastOf
<1>2. DOMAIN first = 1..i /\ \A k \in 1..i : first[k] = packets[k]
  BY FirstPackets
<1> HIDE DEF first
<1>3. here = there
  BY <1>2 DEF Carries
<1>4. there # {} => Max(there) \in 1..i
  <2>1. there \in SUBSET (0..i) /\ i \in Nat
    OBVIOUS
  <2>2. there \in SUBSET (1..i)
    OBVIOUS
  <2> HIDE DEF there
  <2>3. there # {} => \E m \in there : \A k \in there : m >= k
    <3>1. there # {} => \E m \in there : \A k \in there : k <= m
      BY <2>1, GreatestNumber
    <3> QED
      BY <2>1, <3>1
  <2> QED
    BY <2>2, <2>3 DEF Max
<1> HIDE DEF here, there
<1>5. LastCC(first, pid, known) = IF there = {} THEN known ELSE packets[Max(there)].cc
  BY <1>1, <1>2, <1>3, <1>4
<1> QED
  BY <1>5 DEF first, there, LastIn

\* One packet more.
LEMMA LastNext ==
  ASSUME NEW packets \in Seq(Packet), NEW i \in 1..Len(packets), NEW pid, NEW known
  PROVE  LastIn(packets, i, pid, known) =
           IF Carries(packets[i], pid) THEN packets[i].cc
                                       ELSE LastIn(packets, i - 1, pid, known)
<1> DEFINE F(k) == {l \in 1..k : Carries(packets[l], pid)}
<1>1. LastIn(packets, i, pid, known) = IF F(i) = {} THEN known ELSE packets[Max(F(i))].cc
  BY DEF LastIn
<1>2. CASE Carries(packets[i], pid)
  <2>1. i \in F(i) /\ \A k \in F(i) : i >= k
    BY <1>2
  <2>2. F(i) \in SUBSET Int
    OBVIOUS
  <2> HIDE DEF F
  <2>3. Max(F(i)) = i
    <3>1. Max(F(i)) \in F(i) /\ \A k \in F(i) : Max(F(i)) >= k
      BY <2>1 DEF Max
    <3> QED
      BY <2>1, <2>2, <3>1
  <2> QED
    BY <1>1, <1>2, <2>1, <2>3
<1>3. CASE ~Carries(packets[i], pid)
  <2>1. \A l \in 1..i : l = i \/ l \in 1..(i - 1)
    OBVIOUS
  <2>2. \A l \in 1..(i - 1) : l \in 1..i
    OBVIOUS
  <2>3. F(i) = F(i - 1)
    BY <1>3, <2>1, <2>2
  <2>4. LastIn(packets, i - 1, pid, known) =
          IF F(i - 1) = {} THEN known ELSE packets[Max(F(i - 1))].cc
    BY DEF LastIn
  <2> HIDE DEF F
  <2> QED
    BY <1>1, <1>3, <2>3, <2>4
<1> QED
  BY <1>2, <1>3

\* What a client saw last of every PID fits the counters next.
Matched(seen, next) ==
  \A pid \in PIDs : seen[pid] # Unset => next[pid] = (seen[pid] + 1) % CCRange

\* The counters of the packets before leave the client where they leave the sender.
LEMMA ClientFollows ==
  ASSUME NEW packets \in Seq(Packet), NEW preserve, NEW after, Numbered(packets, preserve, after),
         NEW seen \in Known, Matched(seen, after[0])
  PROVE  \A i \in 0..Len(packets), pid \in PIDs :
           LET last == LastIn(packets, i, pid, seen[pid])
           IN  /\ last \in CCs \cup {Unset}
               /\ last # Unset => after[i][pid] = (last + 1) % CCRange
<1> DEFINE n == Len(packets)
           Last(i, pid) == LastIn(packets, i, pid, seen[pid])
           Right == {i \in 0..n : \A pid \in PIDs :
                       /\ Last(i, pid) \in CCs \cup {Unset}
                       /\ Last(i, pid) # Unset => after[i][pid] = (Last(i, pid) + 1) % CCRange}
<1>1. n \in Nat /\ 0 \in 0..n /\ \A i \in 1..n : packets[i] \in Packet
  OBVIOUS
<1>2. 0 \in Right
  <2>1. \A pid \in PIDs : Last(0, pid) = seen[pid]
    <3>1. 1..0 = {}
      OBVIOUS
    <3> QED
      BY <3>1 DEF LastIn
  <2>2. \A pid \in PIDs : seen[pid] \in CCs \cup {Unset}
    BY DEF Known
  <2> HIDE DEF Last, n
  <2> QED
    BY <1>1, <2>1, <2>2 DEF Matched
<1>3. ASSUME NEW k \in 0..n, k \in Right, k < n
      PROVE  k + 1 \in Right
  <2>1. PICK i \in 1..n : i = k + 1
    BY <1>1, <1>3
  <2>2. i - 1 = k /\ i \in 0..n
    BY <1>1, <2>1
  <2> DEFINE p     == packets[i]
             before == after[k]
  <2>3. p \in Packet /\ before \in Known
    BY <1>1 DEF Numbered
  <2>4. /\ p.cc = Renumbered(before, p, preserve)
        /\ after[i] = KnownAfter(before, p, preserve)
    BY <2>2 DEF Numbered
  <2>5. ASSUME NEW pid \in PIDs
        PROVE  Last(i, pid) = IF Carries(p, pid) THEN p.cc ELSE Last(k, pid)
    BY <2>2, LastNext
  <2> HIDE DEF p, before, n, Last
  <2>6. ASSUME NEW pid \in PIDs
        PROVE  /\ Last(i, pid) \in CCs \cup {Unset}
               /\ Last(i, pid) # Unset => after[i][pid] = (Last(i, pid) + 1) % CCRange
    <3>1. /\ Last(k, pid) \in CCs \cup {Unset}
          /\ Last(k, pid) # Unset => before[pid] = (Last(k, pid) + 1) % CCRange
      BY <1>3 DEF before
    <3>2. ASSUME Last(k, pid) # Unset PROVE before[pid] # Unset
      <4>1. Last(k, pid) \in CCs
        BY <3>1, <3>2
      <4>2. (Last(k, pid) + 1) % CCRange \in CCs /\ Unset \notin CCs
        BY <4>1, CounterRange
      <4> QED
        BY <3>1, <3>2, <4>2
    <3>3. CASE Carries(p, pid)
      <4>1. Last(i, pid) = p.cc /\ p.cc \in CCs
        BY <2>3, <2>5, <3>3 DEF Packet
      <4>2. after[i] = [before EXCEPT ![p.pid] = (p.cc + 1) % CCRange]
        BY <2>4, <3>3 DEF KnownAfter, Carries
      <4>3. after[i][pid] = (p.cc + 1) % CCRange
        BY <2>3, <3>3, <4>2 DEF Carries, Known
      <4> QED
        BY <4>1, <4>3
    <3>4. CASE ~Carries(p, pid)
      <4>1. Last(i, pid) = Last(k, pid)
        BY <2>5, <3>4
      <4>2. before[pid] # Unset => after[i][pid] = before[pid]
        <5>1. CASE p.pid = pid
          BY <2>4, <3>4, <5>1 DEF KnownAfter, Carries
        <5>2. CASE p.pid # pid
          BY <2>3, <2>4, <5>2 DEF KnownAfter, Known
        <5> QED
          BY <5>1, <5>2
      <4> QED
        BY <3>1, <3>2, <4>1, <4>2
    <3> QED
      BY <3>3, <3>4
  <2>7. i \in Right
    BY <2>2, <2>6
  <2> QED
    BY <2>1, <2>7
<1>4. \A i \in 0..n : i \in Right
  <2> HIDE DEF Right, n
  <2> QED
    BY <1>1, <1>2, <1>3, Upwards
<1> QED
  BY <1>4

\* Nothing is seen wrongly where nothing was seen.
LEMMA NothingSeen ==
  ASSUME NEW next
  PROVE  [pid \in PIDs |-> Unset] \in Known /\ Matched([pid \in PIDs |-> Unset], next)
BY DEF Known, Matched

----------------------------------------------------------------------------
(* The loop (TimestampLoop.Next).                                          *)

\* A loop that has begun stands at a chunk of its payload.
LoopOK(l) ==
  /\ l \in Loop
  /\ l # NewLoop => l.offset < Len(l.payload) /\ l.offset % ChunkPackets = 0

LEMMA LoopType ==
  ASSUME NEW l \in Loop
  PROVE  /\ l.payload \in Seq(Packet) /\ Len(l.payload) \in Nat /\ l.offset \in Nat
         /\ l.stampOffset \in Nat /\ l.stampOffset \in Stamps /\ l.cycle \in Nat
         /\ l.cc \in Known
<1>1. /\ l.payload \in Seq(Packet) /\ l.offset \in Nat
      /\ l.stampOffset \in Stamps /\ l.cycle \in Nat /\ l.cc \in [PIDs -> CCs \cup {Unset}]
  BY DEF Loop
<1>2. Len(l.payload) \in Nat
  BY <1>1
<1>3. Stamps \in SUBSET Nat
  BY LoopAssumption DEF Stamps
<1> QED
  BY <1>1, <1>2, <1>3 DEF Known

LEMMA Started ==
  LoopOK(NewLoop) /\ NewLoop.cc = [pid \in PIDs |-> Unset]
<1>1. 0 \in Stamps
  <2>1. StampRange \in Nat \ {0}
    BY LoopAssumption
  <2> QED
    BY <2>1 DEF Stamps
<1>2. [pid \in PIDs |-> Unset] \in [PIDs -> CCs \cup {Unset}]
  OBVIOUS
<1>3. NewLoop \in Loop
  <2>1. <<>> \in Seq(Packet)
    OBVIOUS
  <2> QED
    BY <1>1, <1>2, <2>1 DEF NewLoop, Loop
<1>4. NewLoop.cc = [pid \in PIDs |-> Unset]
  BY DEF NewLoop
<1>5. LoopOK(NewLoop)
  BY <1>3, Zenon DEF LoopOK
<1> QED
  BY <1>4, <1>5

LEMMA ShiftedType ==
  ASSUME NEW p \in Packet, NEW offset \in Nat
  PROVE  Shifted(p, offset) \in Packet
<1> DEFINE stamp == [kind \in Kind |-> IF p.stamp[kind] = Unset THEN Unset
                                       ELSE (p.stamp[kind] + offset) % StampRange]
<1>1. StampRange \in Nat \ {0} /\ Stamps = 0..(StampRange - 1)
  BY LoopAssumption DEF Stamps
<1>2. p.stamp \in [Kind -> Stamps \cup {Unset}]
  BY DEF Packet
<1>3. \A kind \in Kind : p.stamp[kind] # Unset => p.stamp[kind] + offset \in Int
  BY <1>1, <1>2
<1>4. \A kind \in Kind : p.stamp[kind] # Unset => (p.stamp[kind] + offset) % StampRange \in Stamps
  BY <1>1, <1>3, Wrap
<1>5. stamp \in [Kind -> Stamps \cup {Unset}]
  BY <1>4
<1>6. Shifted(p, offset) = [p EXCEPT !.stamp = stamp]
  BY DEF Shifted
<1> HIDE DEF stamp
<1> QED
  BY <1>5, <1>6 DEF Packet

\* Taking a payload in and turning it over leaves the loop at a chunk of it.
LEMMA LoadedOK ==
  ASSUME NEW l, LoopOK(l), NEW key \in Keys, NEW payload \in Seq(Packet), payload # <<>>
  PROVE  LET next == Wrapped(Loaded(l, key, payload))
         IN  /\ next \in Loop /\ next.cc = l.cc
             /\ next.offset < Len(next.payload) /\ next.offset % ChunkPackets = 0
<1> DEFINE loaded == Loaded(l, key, payload)
           next   == Wrapped(loaded)
<1>1. /\ l \in Loop /\ CycleDuration(payload) \in Nat
      /\ ChunkPackets \in Nat \ {0} /\ 0 % ChunkPackets = 0
  <2>1. ChunkPackets \in Nat \ {0}
    BY LoopAssumption
  <2>2. 0 \in 0..(ChunkPackets - 1)
    BY <2>1
  <2>3. 0 % ChunkPackets = 0
    BY <2>1, <2>2, Wrap
  <2>4. CycleDuration(payload) \in Nat
    BY CycleType
  <2>5. l \in Loop
    BY DEF LoopOK
  <2> QED
    BY <2>1, <2>3, <2>4, <2>5
<1>2. Len(payload) \in Nat /\ 0 < Len(payload)
  OBVIOUS
<1>3. l # NewLoop => l.offset < Len(l.payload) /\ l.offset % ChunkPackets = 0
  BY DEF LoopOK
<1>4. /\ loaded \in Loop /\ loaded.cc = l.cc
      /\ loaded.offset < Len(loaded.payload) /\ loaded.offset % ChunkPackets = 0
  <2>1. CASE l.payload # <<>> /\ key = l.key
    <3>1. loaded = l
      BY <2>1 DEF Loaded
    <3>2. l # NewLoop
      <4>1. NewLoop.payload = <<>>
        BY DEF NewLoop
      <4> QED
        BY <2>1, <4>1, Zenon
    <3> QED
      BY <1>1, <1>3, <3>1, <3>2
  <2>2. CASE ~(l.payload # <<>> /\ key = l.key)
    <3> DEFINE offset == IF l.offset >= Len(payload) THEN 0 ELSE l.offset
               cycle  == CycleDuration(payload)
    <3>1. l.offset \in Nat /\ l.offset % ChunkPackets = 0
      <4>1. NewLoop.offset = 0
        BY DEF NewLoop
      <4>2. l.offset \in Nat
        BY <1>1, LoopType
      <4> QED
        BY <1>1, <1>3, <4>1, <4>2
    <3>2. offset \in Nat /\ offset < Len(payload) /\ offset % ChunkPackets = 0
      BY <1>1, <1>2, <3>1
    <3>3. loaded = [l EXCEPT !.key = key, !.payload = payload, !.cycle = cycle, !.offset = offset]
      BY <1>1, <2>2 DEF Loaded, Loop
    <3>4. cycle \in Nat
      BY <1>1
    <3> HIDE DEF offset, cycle, loaded
    <3>5. /\ loaded \in Loop /\ loaded.cc = l.cc
          /\ loaded.offset = offset /\ loaded.payload = payload
      BY <1>1, <3>2, <3>3, <3>4 DEF Loop
    <3> QED
      BY <3>2, <3>5
  <2> QED
    BY <2>1, <2>2
<1> HIDE DEF loaded
<1>5. Len(loaded.payload) \in Nat /\ loaded.offset \in Nat
  BY <1>4, LoopType
<1>6. loaded.stampOffset \in Nat /\ loaded.cycle \in Nat
  BY <1>4, LoopType
<1>7. /\ next \in Loop /\ next.cc = loaded.cc
      /\ next.offset < Len(next.payload) /\ next.offset % ChunkPackets = 0
  <2>1. CASE ~loaded.nextLoop
    <3>1. next = loaded
      BY <2>1 DEF Wrapped
    <3> HIDE DEF next
    <3> QED
      BY <1>4, <3>1
  <2>2. CASE loaded.nextLoop
    <3> DEFINE turned == (loaded.stampOffset + loaded.cycle) % StampRange
    <3>1. loaded.stampOffset + loaded.cycle \in Int
      BY <1>6
    <3>2. turned \in Stamps
      BY <3>1, LoopAssumption, Wrap DEF Stamps
    <3>3. next = [loaded EXCEPT !.stampOffset = turned, !.offset = 0, !.nextLoop = FALSE]
      BY <1>4, <2>2 DEF Wrapped, Loop
    <3> HIDE DEF turned, next
    <3>4. /\ next \in Loop /\ next.cc = loaded.cc
          /\ next.offset = 0 /\ next.payload = loaded.payload
      BY <1>4, <3>2, <3>3 DEF Loop
    <3>5. 0 < Len(loaded.payload)
      BY <1>4, <1>5
    <3> QED
      BY <1>1, <3>4, <3>5
  <2> QED
    BY <2>1, <2>2
<1>8. next.cc = l.cc
  BY <1>4, <1>7
<1> QED
  BY <1>7, <1>8 DEF loaded

\* The chunk at the offset.
LEMMA ChunkType ==
  ASSUME NEW l \in Loop, l.offset < Len(l.payload)
  PROVE  /\ ChunkAt(l) \in Seq(Packet) /\ ChunkAt(l) # <<>>
         /\ ChunkEnd(l) \in (l.offset + 1)..Len(l.payload)
         /\ ChunkEnd(l) < Len(l.payload) => ChunkEnd(l) = l.offset + ChunkPackets
<1>1. /\ l.offset \in Nat /\ l.payload \in Seq(Packet) /\ l.stampOffset \in Nat
      /\ ChunkPackets \in Nat \ {0} /\ Len(l.payload) \in Nat
  BY LoopAssumption, LoopType
<1>2. /\ ChunkEnd(l) \in (l.offset + 1)..Len(l.payload)
      /\ ChunkEnd(l) < Len(l.payload) => ChunkEnd(l) = l.offset + ChunkPackets
  BY <1>1 DEF ChunkEnd
<1> DEFINE from    == l.offset + 1
           to      == ChunkEnd(l)
           packets == SubSeq(l.payload, from, to)
<1>3. from \in Int /\ to \in Int /\ from <= to
  BY <1>1, <1>2
<1>4. \A i \in from..to : l.payload[i] \in Packet
  BY <1>1, <1>2
<1>5. packets \in Seq(Packet) /\ Len(packets) = to - from + 1
  <2> HIDE DEF from, to
  <2>1. /\ SubSeq(l.payload, from, to) \in Seq(Packet)
        /\ Len(SubSeq(l.payload, from, to)) = IF from <= to THEN to - from + 1 ELSE 0
    BY <1>3, <1>4, SubSeqProperties
  <2> QED
    BY <1>3, <2>1
<1>6. ChunkAt(l) = [i \in DOMAIN packets |-> Shifted(packets[i], l.stampOffset)]
  BY DEF ChunkAt
<1> HIDE DEF packets, from, to
<1>7. Len(packets) \in Nat \ {0} /\ DOMAIN packets = 1..Len(packets)
  BY <1>3, <1>5
<1>8. ChunkAt(l) \in [1..Len(packets) -> Packet]
  <2>1. \A i \in 1..Len(packets) : Shifted(packets[i], l.stampOffset) \in Packet
    BY <1>1, <1>5, ShiftedType
  <2> QED
    BY <1>6, <1>7, <2>1
<1>9. ChunkAt(l) \in Seq(Packet) /\ Len(ChunkAt(l)) = Len(packets)
  BY <1>7, <1>8
<1> QED
  BY <1>2, <1>7, <1>9

\* What Next returns: a loop at its following chunk, and packets that carry on where
\* the loop was, one after the other.
LEMMA NextChunkOK ==
  ASSUME NEW l, LoopOK(l), NEW key \in Keys, NEW payload \in Seq(Packet), payload # <<>>,
         NEW preserve, NEW next, next = NextChunk(l, key, payload, preserve)
  PROVE  /\ LoopOK(next.loop)
         /\ next.chunk \in Seq(Packet) /\ next.chunk # <<>>
         /\ \E after : /\ Numbered(next.chunk, preserve, after) /\ after[0] = l.cc
                       /\ after[Len(next.chunk)] = next.loop.cc
<1> DEFINE now     == Wrapped(Loaded(l, key, payload))
           packets == ChunkAt(now)
           after   == Counters(now.cc, packets, preserve)
           end     == ChunkEnd(now) % Len(now.payload)
           chunk1  == [i \in DOMAIN packets |->
                         [packets[i] EXCEPT !.cc = Renumbered(after[i - 1], packets[i], preserve)]]
           known   == after[Len(packets)]
           loop1   == [now EXCEPT !.offset = end, !.nextLoop = (end = 0), !.cc = known]
<1>1. next.loop = loop1 /\ next.chunk = chunk1
  BY DEF NextChunk
<1>2. /\ now \in Loop /\ now.cc = l.cc
      /\ now.offset < Len(now.payload) /\ now.offset % ChunkPackets = 0
  BY LoadedOK
<1> HIDE DEF now
<1>3. /\ packets \in Seq(Packet) /\ packets # <<>>
      /\ ChunkEnd(now) \in (now.offset + 1)..Len(now.payload)
      /\ ChunkEnd(now) < Len(now.payload) => ChunkEnd(now) = now.offset + ChunkPackets
  BY <1>2, ChunkType
<1>4. now.cc \in Known /\ now.offset \in Nat /\ Len(now.payload) \in Nat
  BY <1>2, LoopType
<1> HIDE DEF packets
<1>5. /\ chunk1 \in Seq(Packet) /\ Len(chunk1) = Len(packets)
      /\ after[0] = now.cc /\ Numbered(chunk1, preserve, after)
  BY <1>3, <1>4, RenumberedChunk
<1>6. known \in Known
  <2>1. after \in [0..Len(packets) -> Known] /\ Len(packets) \in 0..Len(packets)
    BY <1>3, <1>4, CountersType
  <2> HIDE DEF after
  <2> QED
    BY <2>1
<1> HIDE DEF after, chunk1
<1>7. chunk1 # <<>>
  <2>1. Len(packets) # 0
    BY <1>3
  <2> QED
    BY <1>5, <2>1
<1>8. /\ end \in Nat /\ end < Len(now.payload) /\ end % ChunkPackets = 0
  <2> DEFINE size == Len(now.payload)
             e    == ChunkEnd(now)
  <2>1. e \in (now.offset + 1)..size /\ size \in Nat \ {0} /\ e \in Nat
    BY <1>3, <1>4
  <2>2. ChunkPackets \in Nat \ {0} /\ 0 % ChunkPackets = 0
    BY LoopAssumption, Wrap
  <2>3. CASE e = size
    <3>1. e % size = 0
      <4>1. size \in size..(2 * size - 1) /\ size - size = 0
        BY <2>1
      <4> HIDE DEF size, e
      <4> QED
        BY <2>1, <2>3, <4>1, Wrap
    <3> QED
      BY <2>1, <2>2, <3>1
  <2>4. CASE e # size
    <3>1. e < size /\ e \in 0..(size - 1)
      BY <2>1, <2>4
    <3>2. e % size = e
      <4> HIDE DEF size, e
      <4> QED
        BY <2>1, <3>1, Wrap
    <3>3. e = now.offset + ChunkPackets
      BY <1>3, <3>1
    <3>4. e % ChunkPackets = 0
      BY <1>2, <1>4, <2>2, <3>3, NextMultiple
    <3> QED
      BY <2>1, <3>1, <3>2, <3>4
  <2> QED
    BY <2>3, <2>4
<1> HIDE DEF end, known
<1>9. /\ loop1 \in Loop /\ loop1.offset = end /\ loop1.payload = now.payload
      /\ loop1.cc = known
  BY <1>2, <1>6, <1>8 DEF Loop, Known
<1>10. LoopOK(next.loop)
  BY <1>1, <1>8, <1>9 DEF LoopOK
<1>11. after[Len(next.chunk)] = next.loop.cc
  BY <1>1, <1>5, <1>9 DEF known
<1> QED
  BY <1>1, <1>2, <1>5, <1>7, <1>10, <1>11

----------------------------------------------------------------------------
(* The invariant of the stream.                                            *)

Numbers == 0..(SeqRange - 1)

StreamTypes ==
  /\ scenario \in Scenarios /\ base \in Bases /\ transport \in Transports
  /\ lastKey \in Keys
  /\ behavior.name \notin {"rtp_stop", "rtp_loss", "delayed_psi"} => behavior.count = 0
  /\ LoopOK(loop)
  /\ chunk \in [packets : Seq(Packet), exact : BOOLEAN]
  /\ chunk.packets # <<>> <=> pc = "send"
  /\ seq \in Numbers /\ gap \in 0..MaxLost
  /\ client.seq \in Numbers \cup {Unset} /\ client.cc \in Known

\* The number to come is as far from the last one seen as chunks were lost.
InOrder ==
  client.seq # Unset => gap < MaxLost /\ seq = (client.seq + gap + 1) % SeqRange

InTouch == client.seq # Unset /\ gap = 0

\* A client that missed nothing has seen what fits the counters next; those of a
\* chunk on its way lie between it and the loop.
Fits ==
  /\ pc \in {"wait", "load"} /\ InTouch => Matched(client.cc, loop.cc)
  /\ pc = "send" =>
       \E after : /\ Numbered(chunk.packets, ~chunk.exact, after)
                  /\ InTouch => Matched(client.cc, after[0])
                  /\ after[Len(chunk.packets)] = loop.cc

StreamInv == CountInv /\ StreamTypes /\ InOrder /\ Fits

LEMMA NumberRange ==
  /\ SeqRange \in Nat \ {0} /\ MaxLost \in 1..(SeqRange - 1) /\ Unset \notin Numbers
  /\ \A x \in Numbers : (x + 1) % SeqRange \in Numbers
  /\ \A x \in Numbers, lost \in 0..(SeqRange - 1) :
       /\ (((x + lost + 1) % SeqRange) + 1) % SeqRange = (x + lost + 2) % SeqRange
       /\ (x + lost + 1) % SeqRange = (x + 1) % SeqRange => lost = 0
<1>1. SeqRange \in Nat \ {0} /\ MaxLost \in 1..(SeqRange - 1) /\ Unset = -1
  BY StreamAssumption DEF Unset
<1>2. \A x \in Numbers : (x + 1) % SeqRange \in Numbers
  BY <1>1, NextBefore DEF Numbers
<1>3. ASSUME NEW x \in Numbers, NEW lost \in 0..(SeqRange - 1)
      PROVE  /\ (((x + lost + 1) % SeqRange) + 1) % SeqRange = (x + lost + 2) % SeqRange
             /\ (x + lost + 1) % SeqRange = (x + 1) % SeqRange => lost = 0
  <2>1. /\ \A y \in 0..(SeqRange - 1) : y % SeqRange = y
        /\ \A y \in SeqRange..(2 * SeqRange - 1) : y % SeqRange = y - SeqRange
        /\ \A y \in 0..(SeqRange - 1) : (y + SeqRange) % SeqRange = y
    BY <1>1, Wrap
  <2>2. x \in 0..(SeqRange - 1) /\ x + lost + 1 \in Nat /\ x + lost + 2 \in Nat
    BY <1>1 DEF Numbers
  <2>3. CASE x + lost + 1 < SeqRange
    <3>1. (x + lost + 1) % SeqRange = x + lost + 1
      BY <1>1, <2>1, <2>2, <2>3
    <3>2. (x + 1) % SeqRange = x + 1
      BY <1>1, <2>1, <2>2, <2>3
    <3>3. x + lost + 1 + 1 = x + lost + 2
      BY <2>2
    <3>4. x + lost + 1 = x + 1 => lost = 0
      BY <2>2
    <3> QED
      BY <3>1, <3>2, <3>3, <3>4
  <2>4. CASE ~(x + lost + 1 < SeqRange)
    <3>1. PICK z \in 0..(SeqRange - 1) : x + lost + 1 = z + SeqRange
      <4>1. /\ x + lost + 1 - SeqRange \in 0..(SeqRange - 1)
            /\ x + lost + 1 = (x + lost + 1 - SeqRange) + SeqRange
        BY <1>1, <2>2, <2>4
      <4> QED
        BY <4>1
    <3>2. (x + lost + 1) % SeqRange = z
      BY <2>1, <3>1
    <3>3. z <= x
      BY <1>1, <2>2, <3>1
    <3>4. (z + 1) % SeqRange = (x + lost + 2) % SeqRange
      <4>1. x + lost + 2 = z + 1 + SeqRange /\ z + 1 \in Nat
        BY <1>1, <2>2, <3>1
      <4>2. CASE z + 1 < SeqRange
        <5>1. z + 1 \in 0..(SeqRange - 1)
          BY <1>1, <4>2
        <5>2. (z + 1 + SeqRange) % SeqRange = z + 1 /\ (z + 1) % SeqRange = z + 1
          BY <2>1, <5>1
        <5> QED
          BY <4>1, <5>2
      <4>3. CASE z + 1 = SeqRange
        <5>1. x + lost + 2 = 2 * SeqRange
          BY <1>1, <4>1, <4>3
        <5>2. z <= x /\ x <= SeqRange - 1 /\ lost <= SeqRange - 1
          BY <2>2, <3>3
        <5>3. (2 * SeqRange) % SeqRange = 0
          BY <1>1
        <5>4. SeqRange % SeqRange = 0
          <6>1. SeqRange \in SeqRange..(2 * SeqRange - 1) /\ SeqRange - SeqRange = 0
            BY <1>1
          <6> QED
            BY <2>1, <6>1
        <5> QED
          BY <4>3, <5>1, <5>3, <5>4
      <4> QED
        BY <1>1, <4>2, <4>3
    <3>5. (x + lost + 1) % SeqRange = (x + 1) % SeqRange => lost = 0
      <4>1. CASE x + 1 < SeqRange
        <5>1. x + 1 \in 0..(SeqRange - 1)
          BY <1>1, <2>2, <4>1
        <5>2. (x + 1) % SeqRange = x + 1
          BY <2>1, <5>1
        <5>3. z # x + 1
          BY <2>2, <3>3
        <5> QED
          BY <3>2, <5>2, <5>3
      <4>2. CASE x + 1 = SeqRange
        <5>1. lost = z
          BY <1>1, <2>2, <3>1, <4>2
        <5>2. (x + 1) % SeqRange = 0
          <6>1. SeqRange \in SeqRange..(2 * SeqRange - 1) /\ SeqRange - SeqRange = 0
            BY <1>1
          <6> QED
            BY <2>1, <4>2, <6>1
        <5> QED
          BY <3>2, <5>1, <5>2
      <4> QED
        BY <1>1, <2>2, <4>1, <4>2
    <3> QED
      BY <3>2, <3>4, <3>5
  <2> QED
    BY <2>3, <2>4
<1>4. Unset \notin Numbers
  BY <1>1 DEF Numbers
<1> QED
  BY <1>1, <1>2, <1>3, <1>4

\* A client takes a number for the next one only if none was lost.
LEMMA ConsecutiveInTouch ==
  ASSUME StreamTypes, InOrder, Consecutive(seq)
  PROVE  InTouch
<1>1. client.seq # Unset /\ seq = (client.seq + 1) % SeqRange
  BY DEF Consecutive
<1>2. client.seq \in Numbers /\ gap \in 0..(SeqRange - 1)
  <2>1. MaxLost \in 1..(SeqRange - 1) /\ SeqRange \in Nat
    BY NumberRange
  <2>2. client.seq \in Numbers /\ gap \in 0..MaxLost
    BY <1>1 DEF StreamTypes
  <2>3. gap \in 0..(SeqRange - 1)
    BY <2>1, <2>2
  <2> QED
    BY <2>2, <2>3
<1>3. (client.seq + gap + 1) % SeqRange = (client.seq + 1) % SeqRange
  BY <1>1 DEF InOrder
<1>4. gap = 0
  BY <1>2, <1>3, NumberRange
<1> QED
  BY <1>1, <1>4 DEF InTouch

\* Counting a lost chunk.
LEMMA LostKeeps ==
  ASSUME StreamTypes, InOrder, Lost, seq' = (seq + 1) % SeqRange
  PROVE  /\ seq' \in Numbers /\ gap' \in 0..MaxLost
         /\ client'.seq \in Numbers \cup {Unset} /\ client'.cc \in Known
         /\ InOrder' /\ ~InTouch'
<1>1. /\ gap' = IF gap < MaxLost THEN gap + 1 ELSE gap
      /\ client' = IF gap' = MaxLost THEN NoClient ELSE client
      /\ seq \in Numbers /\ gap \in 0..MaxLost /\ MaxLost \in 1..(SeqRange - 1)
      /\ client.seq \in Numbers \cup {Unset} /\ client.cc \in Known
      /\ SeqRange \in Nat
  BY NumberRange DEF StreamTypes, Lost
<1>2. gap' \in 1..MaxLost
  BY <1>1
<1>3. seq' \in Numbers
  BY <1>1, NumberRange
<1>4. CASE gap' = MaxLost
  <2>1. client'.seq = Unset /\ client'.cc = [pid \in PIDs |-> Unset]
    BY <1>1, <1>4 DEF NoClient
  <2> QED
    BY <1>2, <1>3, <2>1, NothingSeen DEF InOrder, InTouch
<1>5. CASE gap' # MaxLost
  <2>1. client' = client /\ gap' = gap + 1 /\ gap' < MaxLost
    BY <1>1, <1>2, <1>5
  <2>2. client.seq # Unset => seq' = (client.seq + gap' + 1) % SeqRange
    <3>1. SUFFICES ASSUME client.seq # Unset
                   PROVE  seq' = (client.seq + gap' + 1) % SeqRange
      OBVIOUS
    <3>2. client.seq \in Numbers /\ seq = (client.seq + gap + 1) % SeqRange
      BY <1>1, <3>1 DEF InOrder
    <3>3. gap \in 0..(SeqRange - 1)
      BY <1>1
    <3>4. seq' = (client.seq + gap + 2) % SeqRange
      BY <3>2, <3>3, NumberRange
    <3>5. client.seq + gap' + 1 = client.seq + gap + 2
      <4>1. client.seq \in Int /\ gap \in Int
        BY <1>1, <3>2 DEF Numbers
      <4> QED
        BY <2>1, <4>1
    <3> QED
      BY <3>4, <3>5
  <2>3. gap' # 0
    BY <1>2
  <2> QED
    BY <1>1, <1>2, <1>3, <2>1, <2>2, <2>3 DEF InOrder, InTouch
<1> QED
  BY <1>4, <1>5

----------------------------------------------------------------------------
(* The steps of the stream.                                                *)

LEMMA KeyType == \A name : KeyOf(name) \in Keys
BY DEF KeyOf, Keys

\* Whatever the scenario, there is something to play.
LEMMA PayloadType ==
  ASSUME base \in Bases, NEW key
  PROVE  PayloadFor(key) \in Seq(Packet) /\ PayloadFor(key) # <<>>
<1>1. base \in Seq(Packet) /\ \E i \in DOMAIN base : base[i].pid # EitPID
  BY StreamAssumption
<1>2. base # <<>> /\ Len(base) \in Nat /\ DOMAIN base = 1..Len(base)
      /\ \A i \in 1..Len(base) : base[i] \in Packet
  <2>1. PICK i \in DOMAIN base : base[i].pid # EitPID
    BY <1>1
  <2>2. DOMAIN base = 1..Len(base) /\ Len(base) \in Nat
    BY <1>1
  <2>3. base # <<>>
    BY <2>1
  <2>4. \A k \in 1..Len(base) : base[k] \in Packet
    BY <1>1
  <2> QED
    BY <2>2, <2>3, <2>4
<1>3. Corrupted(base) \in Seq(Packet) /\ Corrupted(base) # <<>>
  <2> DEFINE Odd(i) == Cardinality({j \in 1..(i - 1) : base[j].pid = base[i].pid}) % 2 = 0
             Bad(i) == [base[i] EXCEPT !.cc = (@ + 7) % CCRange]
  <2>1. Corrupted(base) = [i \in DOMAIN base |-> IF Odd(i) THEN Bad(i) ELSE base[i]]
    BY DEF Corrupted
  <2>2. ASSUME NEW i \in 1..Len(base)
        PROVE  Bad(i) \in Packet
    <3>1. base[i] \in Packet /\ base[i].cc \in CCs
      BY <1>2 DEF Packet
    <3>2. (base[i].cc + 7) % CCRange \in CCs
      <4>1. base[i].cc \in Nat
        BY <3>1, CounterRange
      <4>2. base[i].cc + 7 \in Int
        BY <4>1
      <4> QED
        BY <4>2, CounterRange
    <3> DEFINE cc == (base[i].cc + 7) % CCRange
    <3>3. Bad(i) = [base[i] EXCEPT !.cc = cc]
      BY <3>1 DEF Packet
    <3> HIDE DEF cc
    <3>4. cc \in CCs
      BY <3>2 DEF cc
    <3> QED
      BY <3>1, <3>3, <3>4 DEF Packet
  <2> HIDE DEF Odd, Bad
  <2>3. Corrupted(base) \in [1..Len(base) -> Packet]
    BY <1>2, <2>1, <2>2
  <2>4. Len(base) # 0
    BY <1>1, <1>2
  <2>5. Corrupted(base) \in Seq(Packet) /\ Len(Corrupted(base)) = Len(base)
    BY <1>2, <2>3
  <2> QED
    BY <2>4, <2>5
<1>4. WithoutEIT(base) \in Seq(Packet) /\ WithoutEIT(base) # <<>>
  <2>1. NotEIT(base) \cap DOMAIN base # {}
    BY <1>1 DEF NotEIT
  <2> QED
    BY <1>1, <2>1, PacketsAtType DEF WithoutEIT
<1> QED
  BY <1>1, <1>2, <1>3, <1>4 DEF PayloadFor

\* Loading advances the loop; what it takes from it is on its way or lost.
LEMMA StreamLoad ==
  ASSUME StreamInv, Load
  PROVE  StreamTypes' /\ InOrder' /\ Fits'
<1>1. /\ pc = "load" /\ envVars' = envVars
      /\ behavior' = IF behavior.name = "rtp_loss"
                       THEN [behavior EXCEPT !.count = (@ + 1) % DropEvery] ELSE behavior
  BY DEF Load
<1>2. PICK key \in Provided :
        \E next \in {NextChunk(loop, key, PayloadFor(key), Preserves(key))} :
          /\ lastKey' = key
          /\ loop' = next.loop
          /\ IF Drops
               THEN /\ Lost
                    /\ since' = SinceDropped
                    /\ seq' = (seq + 1) % SeqRange
                    /\ chunk' = NoChunk
                    /\ pc' = "wait"
               ELSE /\ chunk' = [packets |-> next.chunk, exact |-> ~Preserves(key)]
                    /\ pc' = "send"
                    /\ UNCHANGED <<since, seq, gap, client>>
  BY DEF Load
<1> DEFINE next == NextChunk(loop, key, PayloadFor(key), Preserves(key))
<1>3. /\ lastKey' = key /\ loop' = next.loop
      /\ \/ /\ Lost /\ seq' = (seq + 1) % SeqRange /\ chunk' = NoChunk /\ pc' = "wait"
         \/ /\ chunk' = [packets |-> next.chunk, exact |-> ~Preserves(key)]
            /\ pc' = "send" /\ seq' = seq /\ gap' = gap /\ client' = client
  BY <1>2
<1>4. /\ StreamTypes /\ InOrder /\ Fits /\ LoopOK(loop) /\ base \in Bases
      /\ behavior \in [name : Behaviors, count : Nat]
  BY DEF StreamInv, StreamTypes, CountInv, CountTypes
<1>5. key \in Keys
  BY <1>4, KeyType DEF Provided, StreamTypes
<1>6. /\ LoopOK(next.loop) /\ next.chunk \in Seq(Packet) /\ next.chunk # <<>>
      /\ \E after : /\ Numbered(next.chunk, Preserves(key), after) /\ after[0] = loop.cc
                    /\ after[Len(next.chunk)] = next.loop.cc
  <2>1. PayloadFor(key) \in Seq(Packet) /\ PayloadFor(key) # <<>>
    BY <1>4, PayloadType
  <2> QED
    BY <1>4, <1>5, <2>1, NextChunkOK
<1> HIDE DEF next
<1>7. /\ scenario' = scenario /\ base' = base /\ transport' = transport
      /\ behavior'.name \notin {"rtp_stop", "rtp_loss", "delayed_psi"} => behavior'.count = 0
  <2>1. behavior.name = "rtp_loss" => behavior'.name = "rtp_loss"
    BY <1>1, <1>4
  <2>2. behavior.name # "rtp_loss" => behavior' = behavior
    BY <1>1
  <2> QED
    BY <1>1, <1>4, <2>1, <2>2 DEF envVars, StreamTypes
<1>8. CASE Lost /\ seq' = (seq + 1) % SeqRange /\ chunk' = NoChunk /\ pc' = "wait"
  <2>1. /\ seq' \in Numbers /\ gap' \in 0..MaxLost
        /\ client'.seq \in Numbers \cup {Unset} /\ client'.cc \in Known
        /\ InOrder' /\ ~InTouch'
    BY <1>4, <1>8, LostKeeps
  <2>2. chunk' \in [packets : Seq(Packet), exact : BOOLEAN] /\ chunk'.packets = <<>>
    BY <1>8 DEF NoChunk
  <2>3. StreamTypes'
    BY <1>3, <1>4, <1>5, <1>6, <1>7, <1>8, <2>1, <2>2 DEF StreamTypes
  <2>4. Fits'
    BY <1>8, <2>1 DEF Fits
  <2> QED
    BY <2>1, <2>3, <2>4
<1>9. CASE /\ chunk' = [packets |-> next.chunk, exact |-> ~Preserves(key)]
           /\ pc' = "send" /\ seq' = seq /\ gap' = gap /\ client' = client
  <2>1. /\ chunk'.packets = next.chunk /\ chunk'.exact = ~Preserves(key)
        /\ chunk' \in [packets : Seq(Packet), exact : BOOLEAN]
    BY <1>6, <1>9 DEF Preserves
  <2>2. StreamTypes'
    BY <1>3, <1>4, <1>5, <1>6, <1>7, <1>9, <2>1 DEF StreamTypes
  <2>3. InOrder'
    BY <1>4, <1>9 DEF InOrder
  <2>4. Fits'
    <3>1. PICK after : /\ Numbered(next.chunk, Preserves(key), after) /\ after[0] = loop.cc
                       /\ after[Len(next.chunk)] = next.loop.cc
      BY <1>6
    <3>2. Numbered(chunk'.packets, ~chunk'.exact, after)
      <4>1. (~chunk'.exact) = Preserves(key)
        BY <2>1 DEF Preserves
      <4> QED
        BY <2>1, <3>1, <4>1
    <3>3. InTouch' => Matched(client'.cc, after[0])
      BY <1>1, <1>4, <1>9, <3>1 DEF Fits, InTouch
    <3>4. after[Len(chunk'.packets)] = loop'.cc
      BY <1>3, <2>1, <3>1
    <3> QED
      BY <1>9, <3>2, <3>3, <3>4 DEF Fits
  <2> QED
    BY <2>2, <2>3, <2>4
<1> QED
  BY <1>3, <1>8, <1>9

\* What a client knows after a chunk fits the counters after it.
LEMMA ReceivedFits ==
  ASSUME StreamTypes, InOrder, Fits, pc = "send", client' = Received(seq, chunk.packets)
  PROVE  client'.seq = seq /\ client'.cc \in Known /\ Matched(client'.cc, loop.cc)
<1> DEFINE packets == chunk.packets
           n       == Len(packets)
           seen    == IF Consecutive(seq) THEN client.cc ELSE [pid \in PIDs |-> Unset]
<1>1. packets \in Seq(Packet) /\ n \in Nat /\ n \in 0..n /\ client.cc \in Known
  BY DEF StreamTypes
<1>2. PICK after : /\ Numbered(packets, ~chunk.exact, after)
                   /\ InTouch => Matched(client.cc, after[0])
                   /\ after[n] = loop.cc
  BY DEF Fits
<1>3. seen \in Known /\ Matched(seen, after[0])
  <2>1. CASE Consecutive(seq)
    BY <1>1, <1>2, <2>1, ConsecutiveInTouch
  <2>2. CASE ~Consecutive(seq)
    BY <2>2, NothingSeen
  <2> QED
    BY <2>1, <2>2
<1>4. \A pid \in PIDs :
        LET last == LastIn(packets, n, pid, seen[pid])
        IN  /\ last \in CCs \cup {Unset}
            /\ last # Unset => after[n][pid] = (last + 1) % CCRange
  <2> HIDE DEF seen, packets, n
  <2>1. packets \in Seq(Packet) /\ n = Len(packets)
    BY <1>1 DEF n
  <2> QED
    BY <1>1, <1>2, <1>3, <2>1, ClientFollows
<1>5. ASSUME NEW pid \in PIDs
      PROVE  client'.cc[pid] = LastIn(packets, n, pid, seen[pid])
  <2>1. SubSeq(packets, 1, n) = packets
    BY <1>1, SubSeqFull
  <2>2. client'.cc[pid] =
          LastCC(packets, pid, IF Consecutive(seq) THEN client.cc[pid] ELSE Unset)
    BY DEF Received
  <2>3. seen[pid] = IF Consecutive(seq) THEN client.cc[pid] ELSE Unset
    OBVIOUS
  <2> HIDE DEF seen, packets, n
  <2>4. LastCC(SubSeq(packets, 1, n), pid, seen[pid]) = LastIn(packets, n, pid, seen[pid])
    BY <1>1, LastCCIn DEF n
  <2> QED
    BY <2>1, <2>2, <2>3, <2>4 DEF packets
<1>6. client'.seq = seq /\ client'.cc = [pid \in PIDs |-> client'.cc[pid]]
  BY DEF Received
<1> HIDE DEF seen, packets, n
<1>7. client'.cc \in Known
  BY <1>4, <1>5, <1>6 DEF Known
<1>8. Matched(client'.cc, loop.cc)
  BY <1>2, <1>4, <1>5 DEF Matched
<1> QED
  BY <1>6, <1>7, <1>8

\* Sending delivers the chunk to the client or loses it.
LEMMA StreamSend ==
  ASSUME StreamInv, NEW delivered \in BOOLEAN, Send(delivered)
  PROVE  StreamTypes' /\ InOrder' /\ Fits'
<1>1. /\ pc = "send" /\ envVars' = envVars /\ lastKey' = lastKey /\ loop' = loop
      /\ IF delivered THEN client' = Received(seq, chunk.packets) /\ gap' = 0 ELSE Lost
      /\ seq' = (seq + 1) % SeqRange /\ chunk' = NoChunk
      /\ IF behavior.name = "rtp_stop"
           THEN /\ behavior' = [behavior EXCEPT !.count = @ + 1]
                /\ pc' = IF behavior'.count >= PacketLimit THEN "gone" ELSE "wait"
           ELSE pc' = "wait" /\ behavior' = behavior
  BY DEF Send
<1>2. /\ StreamTypes /\ InOrder /\ Fits
      /\ behavior \in [name : Behaviors, count : Nat]
  BY DEF StreamInv, CountInv, CountTypes
<1>3. /\ scenario' = scenario /\ base' = base /\ transport' = transport
      /\ pc' \in {"wait", "gone"}
      /\ behavior'.name \notin {"rtp_stop", "rtp_loss", "delayed_psi"} => behavior'.count = 0
  <2>1. behavior.name = "rtp_stop" => behavior'.name = "rtp_stop" /\ pc' \in {"wait", "gone"}
    BY <1>1, <1>2
  <2>2. behavior.name # "rtp_stop" => behavior' = behavior /\ pc' = "wait"
    BY <1>1
  <2> QED
    BY <1>1, <1>2, <2>1, <2>2 DEF envVars, StreamTypes
<1>4. chunk' \in [packets : Seq(Packet), exact : BOOLEAN] /\ chunk'.packets = <<>>
  BY <1>1 DEF NoChunk
<1>5. /\ seq' \in Numbers /\ gap' \in 0..MaxLost
      /\ client'.seq \in Numbers \cup {Unset} /\ client'.cc \in Known
      /\ InOrder' /\ (InTouch' => Matched(client'.cc, loop.cc))
  <2>1. CASE delivered
    <3>1. client' = Received(seq, chunk.packets) /\ gap' = 0 /\ seq \in Numbers
      BY <1>1, <1>2, <2>1 DEF StreamTypes
    <3>2. client'.seq = seq /\ client'.cc \in Known /\ Matched(client'.cc, loop.cc)
      BY <1>1, <1>2, <3>1, ReceivedFits
    <3>3. seq' \in Numbers /\ MaxLost \in 1..(SeqRange - 1) /\ SeqRange \in Nat
      BY <1>1, <3>1, NumberRange
    <3>4. InOrder'
      <4>1. seq + 0 + 1 = seq + 1
        BY <3>1, <3>3 DEF Numbers
      <4> QED
        BY <1>1, <3>1, <3>2, <3>3, <4>1 DEF InOrder
    <3> QED
      BY <3>1, <3>2, <3>3, <3>4
  <2>2. CASE ~delivered
    BY <1>1, <1>2, <2>2, LostKeeps
  <2> QED
    BY <2>1, <2>2
<1>6. StreamTypes'
  BY <1>1, <1>2, <1>3, <1>4, <1>5 DEF StreamTypes
<1>7. Fits'
  BY <1>1, <1>3, <1>5 DEF Fits
<1> QED
  BY <1>5, <1>6, <1>7

\* A tick or the end of the stream takes nothing from the loop.
LEMMA StreamRest ==
  ASSUME StreamInv, Tick \/ Break \/ Stop \/ (\E name \in Scenarios : SetScenario(name))
  PROVE  StreamTypes' /\ InOrder' /\ Fits'
<1>1. /\ base' = base /\ transport' = transport /\ lastKey' = lastKey /\ loop' = loop
      /\ seq' = seq /\ gap' = gap /\ client' = client
      /\ scenario' = scenario \/ scenario' \in Scenarios
  BY DEF Tick, Break, Stop, SetScenario, envVars
<1>2. StreamTypes /\ InOrder /\ Fits /\ behavior \in [name : Behaviors, count : Nat]
  BY DEF StreamInv, CountInv, CountTypes
<1>3. \/ chunk' = chunk /\ pc \in {"wait", "load"} /\ pc' \in {"wait", "load", "gone"}
      \/ chunk' = chunk /\ pc' = pc
      \/ chunk' = NoChunk /\ pc' = "gone"
  BY DEF Tick, Break, Stop, SetScenario
<1>4. behavior'.name \notin {"rtp_stop", "rtp_loss", "delayed_psi"} => behavior'.count = 0
  <2>1. CASE Tick
    <3> DEFINE read == BehaviorOf(scenario)
    <3>1. behavior' = IF read # behavior.name THEN Fresh(read)
                      ELSE IF read = "delayed_psi"
                        THEN [behavior EXCEPT !.count = Counted(@, StartupTicks)]
                      ELSE behavior
      BY <2>1 DEF Tick
    <3>2. read # behavior.name => behavior'.count = 0
      BY <3>1 DEF Fresh
    <3>3. read = behavior.name /\ read = "delayed_psi" => behavior'.name = "delayed_psi"
      BY <1>2, <3>1
    <3>4. read = behavior.name /\ read # "delayed_psi" => behavior' = behavior
      BY <3>1
    <3> QED
      BY <1>2, <3>2, <3>3, <3>4 DEF StreamTypes
  <2>2. CASE ~Tick
    <3>1. behavior' = behavior
      BY <2>2 DEF Break, Stop, SetScenario
    <3> QED
      BY <1>2, <3>1 DEF StreamTypes
  <2> QED
    BY <2>1, <2>2
<1>5. chunk' \in [packets : Seq(Packet), exact : BOOLEAN] /\ (chunk'.packets # <<>> <=> pc' = "send")
  <2>1. NoChunk \in [packets : Seq(Packet), exact : BOOLEAN] /\ NoChunk.packets = <<>>
    BY DEF NoChunk
  <2> QED
    BY <1>2, <1>3, <2>1 DEF StreamTypes
<1>6. StreamTypes'
  BY <1>1, <1>2, <1>4, <1>5 DEF StreamTypes
<1>7. InOrder'
  BY <1>1, <1>2 DEF InOrder
<1>8. Fits'
  <2>1. (InTouch' <=> InTouch) /\ client'.cc = client.cc /\ loop'.cc = loop.cc
    BY <1>1 DEF InTouch
  <2>2. pc' \in {"wait", "load"} => pc \in {"wait", "load"}
    BY <1>3
  <2>3. pc' = "send" => pc = "send" /\ chunk' = chunk
    BY <1>3
  <2>4. pc' \in {"wait", "load"} /\ InTouch' => Matched(client'.cc, loop'.cc)
    BY <1>2, <2>1, <2>2 DEF Fits
  <2>5. pc' = "send" =>
          \E after : /\ Numbered(chunk'.packets, ~chunk'.exact, after)
                     /\ InTouch' => Matched(client'.cc, after[0])
                     /\ after[Len(chunk'.packets)] = loop'.cc
    BY <1>2, <2>1, <2>3 DEF Fits
  <2> QED
    BY <2>4, <2>5 DEF Fits
<1> QED
  BY <1>6, <1>7, <1>8

LEMMA StreamInit == Init => StreamInv
<1> SUFFICES ASSUME Init PROVE StreamInv
  OBVIOUS
<1>1. CountInv
  BY StreamAssumption
     DEF Init, Fresh, NoHistory, CountInv, CountTypes, Paced, OneOnItsWay, Followed,
         Behaviors, PacketLimit, DropEvery
<1>2. /\ scenario \in Scenarios /\ base \in Bases /\ transport \in Transports
      /\ lastKey \in Keys /\ behavior.count = 0 /\ pc = "wait" /\ loop = NewLoop /\ chunk = NoChunk
      /\ seq = 0 /\ gap = MaxLost /\ client.seq = Unset /\ client.cc = [pid \in PIDs |-> Unset]
  BY KeyType DEF Init, Fresh, NoClient
<1>3. LoopOK(loop)
  BY <1>2, Started
<1>4. chunk \in [packets : Seq(Packet), exact : BOOLEAN] /\ chunk.packets = <<>>
  BY <1>2 DEF NoChunk
<1>5. seq \in Numbers /\ gap \in 0..MaxLost
  BY <1>2, NumberRange DEF Numbers
<1>6. client.cc \in Known
  BY <1>2, NothingSeen
<1> QED
  BY <1>1, <1>2, <1>3, <1>4, <1>5, <1>6 DEF StreamInv, StreamTypes, InOrder, Fits, InTouch

LEMMA StreamStep == StreamInv /\ [Next]_vars => StreamInv'
<1> SUFFICES ASSUME StreamInv, [Next]_vars PROVE StreamInv'
  OBVIOUS
<1>1. CountInv'
  BY CountStep DEF StreamInv
<1>2. CASE Load
  BY <1>1, <1>2, StreamLoad DEF StreamInv
<1>3. CASE Send(TRUE) \/ Send(FALSE)
  BY <1>1, <1>3, StreamSend DEF StreamInv
<1>4. CASE Tick \/ Break \/ Stop \/ (\E name \in Scenarios : SetScenario(name))
  BY <1>1, <1>4, StreamRest DEF StreamInv
<1>5. CASE UNCHANGED vars
  BY <1>1, <1>5 DEF vars, StreamInv, StreamTypes, InOrder, InTouch, Fits
<1> QED
  BY <1>2, <1>3, <1>4, <1>5 DEF Next, Sender

\* The invariant of the stream holds.
THEOREM StreamInvariant == Spec => []StreamInv
<1> QED
  BY StreamInit, StreamStep, PTL DEF Spec

\* TypeOK: the loop stands at a chunk of its payload and every packet is a packet,
\* whatever payloads follow one another in mid cycle (TimestampLoop.Next).
THEOREM StreamTypeCorrect == Spec => []TypeOK
<1>1. ASSUME StreamInv PROVE TypeOK
  <2>1. CountTypes /\ Paced /\ StreamTypes
    BY <1>1 DEF StreamInv, CountInv
  <2>2. behavior.name \in {BehaviorOf(n) : n \in ScenarioNames} /\ behavior.count \in Nat
    <3>1. behavior.name \in Behaviors /\ behavior.count \in Nat
      BY <2>1 DEF CountTypes
    <3>2. \A name \in Behaviors : \E n \in ScenarioNames : name = BehaviorOf(n)
      <4>1. BehaviorOf("normal") = "none"
        BY DEF BehaviorOf
      <4>2. \A name \in Behaviors \ {"none"} : name \in ScenarioNames /\ BehaviorOf(name) = name
        BY DEF BehaviorOf, Behaviors, ScenarioNames
      <4> QED
        BY <4>1, <4>2 DEF ScenarioNames
    <3> QED
      BY <3>1, <3>2
  <2>3. behavior.count \in 0..(CASE behavior.name = "rtp_stop"    -> PacketLimit
                                  [] behavior.name = "rtp_loss"    -> DropEvery - 1
                                  [] behavior.name = "delayed_psi" -> StartupTicks
                                  [] OTHER                         -> 0)
    <3>1. CASE behavior.name = "rtp_stop"
      BY <2>1, <2>2, <3>1 DEF Paced, PacketLimit
    <3>2. CASE behavior.name = "rtp_loss"
      BY <2>1, <2>2, <3>2 DEF Paced, DropEvery
    <3>3. CASE behavior.name = "delayed_psi"
      BY <2>1, <2>2, <3>3, StreamAssumption DEF Paced
    <3>4. CASE behavior.name \notin {"rtp_stop", "rtp_loss", "delayed_psi"}
      BY <2>1, <3>4 DEF StreamTypes
    <3> QED
      BY <3>1, <3>2, <3>3, <3>4
  <2>4. loop \in Loop
        /\ (loop # NewLoop => loop.offset < Len(loop.payload) /\ loop.offset % ChunkPackets = 0)
    BY <2>1 DEF StreamTypes, LoopOK
  <2> QED
    BY <2>1, <2>2, <2>3, <2>4 DEF TypeOK, CountTypes, StreamTypes, Numbers
<1> QED
  BY <1>1, StreamInvariant, PTL

\* ErrorsAreLosses: a client that missed no number sees no counter error, across loops,
\* changes of the payload in mid cycle and dropped chunks (rewriteContinuityCounters).
THEOREM ErrorsAreLossesHolds == Spec => ErrorsAreLosses
<1> DEFINE Right(i) ==
      LET p      == chunk.packets[i]
          before == LastCC(SubSeq(chunk.packets, 1, i - 1), p.pid, client.cc[p.pid])
      IN  before # Unset => p.cc = IF p.hasPayload THEN (before + 1) % CCRange ELSE before
<1>1. ASSUME StreamInv, Next, Delivered, chunk.exact, Consecutive(seq)
      PROVE  \A i \in DOMAIN chunk.packets : Right(i)
  <2>1. StreamTypes /\ InOrder /\ Fits /\ InTouch
    BY <1>1, ConsecutiveInTouch DEF StreamInv
  <2> DEFINE packets == chunk.packets
             n       == Len(packets)
  <2>2. packets \in Seq(Packet) /\ DOMAIN packets = 1..n /\ client.cc \in Known
    BY <2>1 DEF StreamTypes
  <2>3. SUFFICES ASSUME NEW i \in 1..n PROVE Right(i)
    BY <2>2
  <2>4. pc = "send"
    <3>1. packets # <<>>
      BY <2>2
    <3> QED
      BY <2>1, <3>1 DEF StreamTypes
  <2>5. PICK after : Numbered(packets, ~chunk.exact, after) /\ Matched(client.cc, after[0])
    BY <2>1, <2>4 DEF Fits
  <2> DEFINE p      == packets[i]
             before == LastIn(packets, i - 1, p.pid, client.cc[p.pid])
             known  == after[i - 1]
  <2>6. i - 1 \in 0..n /\ p \in Packet /\ p.pid \in PIDs
    <3>1. i - 1 \in 0..n
      BY <2>2
    <3>2. p \in Packet
      BY <2>2
    <3>3. p.pid \in PIDs
      BY <3>2 DEF Packet
    <3> QED
      BY <3>1, <3>2, <3>3
  <2>7. before \in CCs \cup {Unset} /\ (before # Unset => known[p.pid] = (before + 1) % CCRange)
    <3> HIDE DEF packets
    <3> QED
      BY <2>2, <2>5, <2>6, ClientFollows
  <2>8. p.cc = Renumbered(known, p, FALSE)
    BY <1>1, <2>5 DEF Numbered
  <2>9. LastCC(SubSeq(packets, 1, i - 1), p.pid, client.cc[p.pid]) = before
    <3> HIDE DEF packets
    <3> QED
      BY <2>2, <2>6, LastCCIn
  <2> HIDE DEF p, before, known, packets
  <2>10. before # Unset => p.cc = IF p.hasPayload THEN (before + 1) % CCRange ELSE before
    <3>1. SUFFICES ASSUME before # Unset
                   PROVE  p.cc = IF p.hasPayload THEN (before + 1) % CCRange ELSE before
      OBVIOUS
    <3>2. before \in CCs /\ known[p.pid] = (before + 1) % CCRange
      BY <2>7, <3>1
    <3>3. /\ known[p.pid] \in CCs /\ Unset \notin CCs
          /\ (known[p.pid] + CCRange - 1) % CCRange = before
      BY <3>2, CounterRange
    <3> QED
      BY <2>8, <3>2, <3>3 DEF Renumbered
  <2> QED
    BY <2>9, <2>10 DEF packets, p
<1>2. StreamInv /\ [Next]_vars =>
        [Delivered /\ chunk.exact /\ Consecutive(seq) =>
           \A i \in DOMAIN chunk.packets : Right(i)]_vars
  BY <1>1
<1> QED
  BY <1>2, StreamInvariant, PTL DEF Spec, ErrorsAreLosses
=============================================================================
