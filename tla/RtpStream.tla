----------------------------- MODULE RtpStream -----------------------------
(***************************************************************************)
(* One sender goroutine of internal/rtsp/server.go from the PLAY that      *)
(* starts it to its end: startUDPStreamingLocked and                       *)
(* startInterleavedStreamingLocked with the payload provider, the          *)
(* TimestampLoop and the RTPSender they use.                               *)
(*                                                                         *)
(* The lab's scenario is read twice in every tick, first for the behavior  *)
(* and then for the payload, each time under the lab's mutex, and it may   *)
(* change before, between and after.  A tick is therefore three steps:     *)
(* Tick (behavior), Load (payload and chunk) and Send.  Jitter only makes  *)
(* the time between Load and Send longer, so it needs no step.  Which      *)
(* services a scenario applies to is LabScenario!AppliesTo: "scenario" is  *)
(* the active one as far as it applies to this session, else "normal".     *)
(***************************************************************************)
EXTENDS TsLoop

CONSTANTS
  Bases,          \* payloads a service may have: files and synthetic ones
  Scenarios,      \* scenarios somebody sets while the stream runs
  Transports,     \* subset of {"udp", "tcp"}; "tcp" is interleaved
  SeqRange,       \* RTP sequence numbers: 2^16
  StartupTicks,   \* ticks in delayedPSIStartupDelay
  MaxLost         \* chunks lost in a row before a client starts over

ScenarioNames == {"normal", "rtp_stop", "rtp_loss", "rtp_jitter", "rtp_blackhole",
                  "delayed_psi", "malformed_psi", "cc_errors", "epg_gap"}

\* What a synthetic payload announces its programmes on.
EitPID == "eit"

\* Every payload has packets besides the EIT: tables or a recording.
ASSUME StreamAssumption ==
  /\ \A payload \in Bases : /\ payload \in Seq(Packet)
                            /\ \E i \in DOMAIN payload : payload[i].pid # EitPID
  /\ Scenarios \subseteq ScenarioNames
  /\ Transports \subseteq {"udp", "tcp"}
  /\ SeqRange \in Nat \ {0} /\ StartupTicks \in Nat \ {0}
  /\ 7 % CCRange # 0
  /\ MaxLost \in 1..(SeqRange - 1)   \* so fewer lost in a row than a whole range of numbers

VARIABLES
  scenario,   \* the lab's active scenario
  since,      \* history: what was sent and dropped since then
  base,       \* what LoadServicePayloadWithOptions returns, EIT included
  transport,
  pc,         \* "wait" for the ticker, "load", "send", or "gone"
  behavior,   \* lastBehavior and what is counted since it changed
  lastKey,    \* the key of the payload the provider returned last
  loop,       \* the TimestampLoop
  chunk,      \* the chunk about to be sent
  seq,        \* RTPSender.sequence
  gap,        \* history: chunks the client missed since the last it got, MaxLost before the first
  client      \* what the client saw last of every PID and clock

vars == <<scenario, since, base, transport, pc, behavior, lastKey,
          loop, chunk, seq, gap, client>>

envVars  == <<scenario, base, transport>>

----------------------------------------------------------------------------
(* The behaviors and payloads of scenarios.                                *)

PacketLimit == 3
DropEvery   == 3

\* streamBehavior: two scenarios without one are the same to the sender.
BehaviorOf(name) ==
  IF name \in {"rtp_stop", "rtp_loss", "rtp_jitter", "rtp_blackhole", "delayed_psi"}
    THEN name ELSE "none"

\* streamPayloadKey.
KeyOf(name) ==
  IF name \in {"malformed_psi", "cc_errors", "epg_gap"} THEN name ELSE "normal"

\* ContinuityCounterErrors: every other packet of a PID is off by seven.
Corrupted(payload) ==
  [i \in DOMAIN payload |->
     LET seen == Cardinality({j \in 1..(i - 1) : payload[j].pid = payload[i].pid})
     IN  IF seen % 2 = 0 THEN [payload[i] EXCEPT !.cc = (@ + 7) % CCRange] ELSE payload[i]]

\* EITOptions.Suppress leaves the EIT packets out of a synthetic payload; in a
\* file nothing has this PID.
NotEIT(payload)     == {i \in DOMAIN payload : payload[i].pid # EitPID}
WithoutEIT(payload) == PacketsAt(payload, NotEIT(payload))

\* playPayloadForScenario.  malformed_psi changes table ids, which nothing here
\* looks at.
PayloadFor(key) == CASE key = "cc_errors" -> Corrupted(base)
                     [] key = "epg_gap"   -> WithoutEIT(base)
                     [] OTHER             -> base

Preserves(key) == key = "cc_errors"     \* preserveContinuityErrors

----------------------------------------------------------------------------
(* The client: an observer that takes RTP in order.                        *)

NoClient == [seq |-> Unset, cc |-> [pid \in PIDs |-> Unset],
             stamp |-> [t \in PIDs \X Kind |-> Unset]]

\* The last value of a field in the packets of a chunk, or what was known before.
LastOf(packets, known, Has(_), Value(_)) ==
  LET found == {i \in DOMAIN packets : Has(packets[i])}
  IN  IF found = {} THEN known ELSE Value(packets[Max(found)])

LastCC(packets, pid, known) ==
  LastOf(packets, known, LAMBDA p : p.pid = pid /\ p.hasPayload, LAMBDA p : p.cc)
LastStamp(packets, pid, kind, known) ==
  LastOf(packets, known, LAMBDA p : p.pid = pid /\ p.stamp[kind] # Unset,
                         LAMBDA p : p.stamp[kind])

Consecutive(number) == client.seq # Unset /\ number = (client.seq + 1) % SeqRange

\* After a gap the counters it knew mean nothing; the clocks still do.
Received(number, packets) ==
  [seq   |-> number,
   cc    |-> [pid \in PIDs |->
                LastCC(packets, pid, IF Consecutive(number) THEN client.cc[pid] ELSE Unset)],
   stamp |-> [t \in PIDs \X Kind |-> LastStamp(packets, t[1], t[2], client.stamp[t])]]

\* A chunk is lost.  After MaxLost of them, before a whole range of sequence numbers
\* has gone by, the client starts over.
Lost == /\ gap' = IF gap < MaxLost THEN gap + 1 ELSE gap
        /\ client' = IF gap' = MaxLost THEN NoClient ELSE client

----------------------------------------------------------------------------

\* Counters that are only compared with a bound stop there.
Counted(n, bound) == IF n < bound THEN n + 1 ELSE n

\* What was sent under the scenarios that limit it, what was sent and dropped in a
\* row under rtp_loss.
NoHistory == [sent |-> 0, streak |-> 0, dropped |-> 0]
SinceSent ==
  [sent    |-> IF scenario \in {"rtp_stop", "rtp_blackhole", "delayed_psi"}
                 THEN Counted(since.sent, PacketLimit + 2) ELSE 0,
   streak  |-> IF scenario = "rtp_loss" THEN Counted(since.streak, DropEvery + 1) ELSE 0,
   dropped |-> 0]
SinceDropped ==
  [since EXCEPT !.streak = 0,
                !.dropped = IF scenario = "rtp_loss" THEN Counted(@, 3) ELSE 0]

\* behaviorSent, behaviorPacketNumber and the time since behaviorStartedAt all start
\* over when the behavior changes, and each is read under one behavior only: the
\* packets sent under rtp_stop, the number of the packet under rtp_loss (up to a
\* multiple of DropEvery), the ticks passed under delayed_psi.
Fresh(name) == [name |-> name, count |-> 0]
NoChunk  == [packets |-> <<>>, exact |-> TRUE]

\* handlePlay: the payload of the scenario active then is loaded before the
\* sender starts; a failure fails the PLAY.
Init ==
  /\ scenario \in Scenarios
  /\ since = NoHistory
  /\ base \in Bases
  /\ transport \in Transports
  /\ pc = "wait"
  /\ behavior = Fresh("none")
  /\ lastKey = KeyOf(scenario)
  /\ loop = NewLoop /\ chunk = NoChunk
  /\ seq = 0 /\ gap = MaxLost
  /\ client = NoClient

\* POST /api/scenario or a timeline step.
SetScenario(name) ==
  /\ scenario # name
  /\ scenario' = name
  /\ since' = NoHistory
  /\ UNCHANGED <<base, transport, pc, behavior, lastKey, loop, chunk, seq, gap, client>>

\* fault: a scenario without a behavior leaves the one before.
Tick_Sticky ==
  /\ pc = "wait"
  /\ LET read == IF BehaviorOf(scenario) = "none" THEN behavior.name ELSE BehaviorOf(scenario)
     IN  /\ behavior' = IF read # behavior.name THEN Fresh(read)
                        ELSE IF read = "delayed_psi"
                          THEN [behavior EXCEPT !.count = Counted(@, StartupTicks)]
                        ELSE behavior
         /\ pc' = IF read = "delayed_psi" /\ behavior'.count < StartupTicks
                    THEN "wait" ELSE "load"
  /\ UNCHANGED <<envVars, since, lastKey, loop, chunk, seq, gap, client>>

\* The ticker fires.  The behavior is read; when it changed, its counters and its
\* clock start over; while a startup delay runs nothing else happens.
Tick ==
  /\ pc = "wait"
  /\ LET read == BehaviorOf(scenario)
     IN  /\ behavior' = IF read # behavior.name THEN Fresh(read)
                        ELSE IF read = "delayed_psi"
                          THEN [behavior EXCEPT !.count = Counted(@, StartupTicks)]
                        ELSE behavior
         /\ pc' = IF read = "delayed_psi" /\ behavior'.count < StartupTicks
                    THEN "wait" ELSE "load"
  /\ UNCHANGED <<envVars, since, lastKey, loop, chunk, seq, gap, client>>

\* The keys whose payload the provider may return: that of the scenario it reads
\* or, when loading that payload fails, the last one it returned.  A key once loaded
\* is cached and does not fail again; that it may fail here only adds behaviors.
Provided == {KeyOf(scenario), lastKey}

\* fault: a blackhole is only told from a loss by its name.
Drops_LossOnly == behavior.name = "rtp_loss" /\ (behavior.count + 1) % DropEvery = 0

\* fault: the packets to drop and the packets to send are swapped.
Drops_Swapped == \/ behavior.name = "rtp_blackhole"
                 \/ behavior.name = "rtp_loss" /\ (behavior.count + 1) % DropEvery # 0

\* shouldDrop, for the packet that follows.
Drops == \/ behavior.name = "rtp_blackhole"
         \/ behavior.name = "rtp_loss" /\ (behavior.count + 1) % DropEvery = 0

\* The payload is read and the loop advanced; the chunk is dropped or kept to be
\* sent.  A dropped chunk takes its sequence number with it.
Load ==
  /\ pc = "load"
  /\ \E key \in Provided :
       \E next \in {NextChunk(loop, key, PayloadFor(key), Preserves(key))} :
         /\ lastKey' = key
         /\ loop' = next.loop
         /\ IF Drops
              THEN /\ Lost
                   /\ since' = SinceDropped
                   /\ seq' = (seq + 1) % SeqRange
                   /\ chunk' = NoChunk
                   /\ pc' = "wait"
              ELSE /\ chunk' = [packets |-> next.chunk, exact |-> ~Preserves(key)]
                   /\ pc' = "send"
                   /\ UNCHANGED <<since, seq, gap, client>>
  /\ behavior' = IF behavior.name = "rtp_loss"
                   THEN [behavior EXCEPT !.count = (@ + 1) % DropEvery] ELSE behavior
  /\ UNCHANGED envVars

\* The write.  A UDP write that fails, as it does once the socket is
\* closed, is passed over; either way the packet counts
\* against the limit, and the last one ends the sender.
Send(delivered) ==
  /\ pc = "send"
  /\ transport = "tcp" => delivered
  /\ IF delivered THEN client' = Received(seq, chunk.packets) /\ gap' = 0
                  ELSE Lost
  /\ since' = SinceSent
  /\ seq' = (seq + 1) % SeqRange
  /\ chunk' = NoChunk
  /\ IF behavior.name = "rtp_stop"
       THEN /\ behavior' = [behavior EXCEPT !.count = @ + 1]
            /\ pc' = IF behavior'.count >= PacketLimit THEN "gone" ELSE "wait"
       ELSE /\ pc' = "wait"
            /\ UNCHANGED behavior
  /\ UNCHANGED <<envVars, lastKey, loop>>

\* An interleaved write fails, of a chunk or of an RTCP report: the sender ends
\* and takes the session with it.
Break ==
  /\ transport = "tcp" /\ pc \in {"wait", "send"}
  /\ pc' = "gone"
  /\ chunk' = NoChunk
  /\ UNCHANGED <<envVars, since, behavior, lastKey, loop, seq, gap, client>>

\* stopStreamingLocked, by PAUSE, TEARDOWN, a new PLAY, the reaper or a reset: select
\* finds the stop channel closed.
Stop ==
  /\ pc = "wait"
  /\ pc' = "gone"
  /\ UNCHANGED <<envVars, since, behavior, lastKey, loop, chunk, seq, gap, client>>

Sender == Tick \/ Load \/ Send(TRUE) \/ Send(FALSE)

Next == \/ Sender \/ Break \/ Stop
        \/ \E name \in Scenarios : SetScenario(name)

\* Weak fairness of Sender: the goroutine is scheduled and its ticker ticks.  It is
\* enabled until it is gone, which is written out.
Fairness == []<>(pc = "gone") \/ []<><<Sender>>_vars

Spec == Init /\ [][Next]_vars /\ Fairness

----------------------------------------------------------------------------
(* Properties.                                                             *)

\* The variables keep their types; the
\* loop stands at a chunk of its payload.
TypeOK ==
  /\ scenario \in Scenarios /\ base \in Bases /\ transport \in Transports
  /\ since \in [sent : 0..(PacketLimit + 2), streak : 0..(DropEvery + 1), dropped : 0..3]
  /\ pc \in {"wait", "load", "send", "gone"}
  /\ behavior.name \in {BehaviorOf(n) : n \in ScenarioNames}
  /\ behavior.count \in 0..(CASE behavior.name = "rtp_stop"    -> PacketLimit
                               [] behavior.name = "rtp_loss"    -> DropEvery - 1
                               [] behavior.name = "delayed_psi" -> StartupTicks
                               [] OTHER                         -> 0)
  /\ lastKey \in Keys
  /\ loop \in Loop
  /\ loop # NewLoop => loop.offset < Len(loop.payload) /\ loop.offset % ChunkPackets = 0
  /\ chunk \in [packets : Seq(Packet), exact : BOOLEAN]
  /\ chunk.packets # <<>> <=> pc = "send"
  /\ seq \in 0..(SeqRange - 1) /\ gap \in 0..MaxLost

Delivered == client'.seq \notin {client.seq, Unset}

\* A client that misses no sequence number misses no packet and sees no counter
\* error, unless errors are the scenario: loops, payloads that change in mid
\* cycle, dropped chunks and startup delays in any order leave no other trace in
\* the continuity counters (rewriteContinuityCounters, RTPSender.Skip).
ErrorsAreLosses ==
  [][Delivered /\ chunk.exact /\ Consecutive(seq) =>
       \A i \in DOMAIN chunk.packets :
         LET p      == chunk.packets[i]
             before == LastCC(SubSeq(chunk.packets, 1, i - 1), p.pid, client.cc[p.pid])
         IN  before # Unset => p.cc = IF p.hasPayload THEN (before + 1) % CCRange ELSE before]_vars

\* Clocks only move forward, by less than half their range, across loops, wraps of
\* the 33 bits, scenario changes and losses (timestampCycleDuration): every
\* track that is not longer than the cycle of its payload.
ClocksMoveForward ==
  [][Delivered =>
       \A i \in DOMAIN chunk.packets, kind \in Kind :
         LET p      == chunk.packets[i]
             before == LastStamp(SubSeq(chunk.packets, 1, i - 1), p.pid, kind,
                                 client.stamp[<<p.pid, kind>>])
         IN  /\ before # Unset /\ p.stamp[kind] # Unset
             /\ Span(Track(base, p.pid, kind)) < CycleDuration(base)
             => Distance(before, p.stamp[kind]) > 0]_vars

\* A scenario takes hold at once, save for the one packet already on its way:
\* rtp_stop lets no more than PacketLimit packets follow, rtp_blackhole none and
\* delayed_psi none before its delay has passed (docs/agents/README.md).
ImpairmentTakesHold ==
  LET DelayOver == behavior.name = "delayed_psi" /\ behavior.count = StartupTicks
      settled == CASE scenario = "rtp_stop"      -> PacketLimit
                   [] scenario = "rtp_blackhole" -> 0
                   [] scenario = "delayed_psi" /\ ~DelayOver -> 0
                   [] OTHER                      -> PacketLimit + 1
  IN  since.sent <= settled + 1

\* Under rtp_loss every third packet is dropped and no two in a row, wherever in
\* the count it begins, save for the packet already on its way.
EveryThirdDropped ==
  scenario = "rtp_loss" => /\ since.streak <= DropEvery
                           /\ since.dropped <= 1

\* A stream that has not ended recovers from every scenario without another
\* PLAY: once the scenario is normal for good, packets are sent for ever.
Recovers == <>[](scenario = "normal") => []<>(pc \in {"gone", "send"})
=============================================================================
