------------------------------- MODULE TsLoop -------------------------------
(***************************************************************************)
(* internal/ts/loop.go: a finite MPEG-TS payload played for ever.  Next    *)
(* returns the following chunk with its clocks shifted by the cycles       *)
(* played so far and its continuity counters renumbered per PID.  A loop   *)
(* is a record, a payload a sequence of packets; the bytes that carry the  *)
(* fields (readPCRBase, writePESTimestamp, ...) are the fields themselves. *)
(***************************************************************************)
EXTENDS Integers, Sequences, FiniteSets, FiniteSetsExt

CONSTANTS
  PIDs,          \* the PIDs payloads use
  ChunkPackets,  \* packets in chunkSize bytes: 1316 / 188 = 7
  CCRange,       \* continuity counters: 2^4
  StampRange,    \* timestampMask + 1: 2^33
  DefaultStep    \* defaultTimestampStep: 3600

ASSUME LoopAssumption ==
  /\ IsFiniteSet(PIDs)
  /\ ChunkPackets \in Nat \ {0} /\ DefaultStep \in Nat \ {0}
  /\ CCRange \in Nat \ {0} /\ StampRange \in Nat \ {0} /\ StampRange % 2 = 0

CCs    == 0..(CCRange - 1)        \* the low bits of packet[3]
Stamps == 0..(StampRange - 1)
Unset  == -1                      \* a map without the key

Kinds == <<"R", "D", "P">>        \* PCR, DTS, PTS, in order of preference
Kind  == {Kinds[i] : i \in DOMAIN Kinds}

\* hasPayload is false for a packet that is adaptation field only; a packet
\* carries at most one stamp of a kind.
Packet ==
  [pid : PIDs, hasPayload : BOOLEAN, cc : CCs, stamp : [Kind -> Stamps \cup {Unset}]]

\* The names a sender has for the payloads of one service.
Keys == {"normal", "malformed_psi", "cc_errors", "epg_gap"}

Loop == [key : Keys \cup {""}, payload : Seq(Packet), offset : Nat, nextLoop : BOOLEAN,
         stampOffset : Stamps, cycle : Nat, cc : [PIDs -> CCs \cup {Unset}]]

\* The zero TimestampLoop.
NewLoop == [key |-> "", payload |-> <<>>, offset |-> 0, nextLoop |-> FALSE,
            stampOffset |-> 0, cycle |-> 0, cc |-> [pid \in PIDs |-> Unset]]

\* The packets at some positions of a payload, in order.
PacketsAt(payload, positions) ==
  LET upTo[n \in 0..Len(payload)] ==
        IF n = 0 THEN <<>>
        ELSE IF n \in positions THEN Append(upTo[n - 1], payload[n]) ELSE upTo[n - 1]
  IN  upTo[Len(payload)]

----------------------------------------------------------------------------
(* timestampCycleDuration: how far the clocks move when the payload repeats. *)

\* The values of one track in the order they are visited.
Track(payload, pid, kind) ==
  LET stamped == PacketsAt(payload, {i \in DOMAIN payload : /\ payload[i].pid = pid
                                                            /\ payload[i].stamp[kind] # Unset})
  IN  [i \in DOMAIN stamped |-> stamped[i].stamp[kind]]

\* The signed distance from one raw value to the next, whichever way is shorter.
Distance(from, to) ==
  LET ahead == (to - from) % StampRange
  IN  IF ahead >= StampRange \div 2 THEN ahead - StampRange ELSE ahead

\* observe: the values of a track as they go on without wrapping.
Unwrapped(raw) ==
  LET at[i \in DOMAIN raw] == IF i = 1 THEN raw[1]
                              ELSE at[i - 1] + Distance(raw[i - 1], raw[i])
  IN  [i \in DOMAIN raw |-> at[i]]

Span(raw) == LET values == {Unwrapped(raw)[i] : i \in DOMAIN raw}
             IN  Max(values) - Min(values)

ForwardSteps(raw) == {Distance(raw[i - 1], raw[i]) : i \in 2..Len(raw)} \cap (Nat \ {0})

\* timestampDurationForKind: the longest candidate, 0 for none.
DurationForKind(payload, kind) ==
  LET tracks == {Track(payload, pid, kind) : pid \in PIDs}
  IN  Max({0} \cup {Span(raw) + Min(ForwardSteps(raw)) :
                      raw \in {r \in tracks : ForwardSteps(r) # {}}})

CycleDuration(payload) ==
  LET usable == {i \in DOMAIN Kinds : DurationForKind(payload, Kinds[i]) > 0}
  IN  IF usable = {} THEN DefaultStep ELSE DurationForKind(payload, Kinds[Min(usable)])

----------------------------------------------------------------------------
(* Next.                                                                   *)

\* rewriteTimestamps, for one packet.
Shifted(p, offset) ==
  [p EXCEPT !.stamp = [kind \in Kind |->
     IF @[kind] = Unset THEN Unset ELSE (@[kind] + offset) % StampRange]]

\* rewriteContinuityCounters, for one packet: the counter it gets when "known" is the
\* counter each PID has next.  A packet without payload repeats the counter before
\* it; the first of its PID keeps its own.
Renumbered(known, p, preserveErrors) ==
  LET next == known[p.pid]
  IN  IF preserveErrors \/ next = Unset THEN p.cc
      ELSE IF p.hasPayload THEN next ELSE (next + CCRange - 1) % CCRange

\* fault: counters that are kept as they are leave the map behind.
KnownAfter_MapKept(known, p, preserveErrors) ==
  IF ~preserveErrors /\ (p.hasPayload \/ known[p.pid] = Unset)
    THEN [known EXCEPT ![p.pid] = (Renumbered(known, p, preserveErrors) + 1) % CCRange]
    ELSE known
\* The counters next after it.
KnownAfter(known, p, preserveErrors) ==
  IF p.hasPayload \/ known[p.pid] = Unset
    THEN [known EXCEPT ![p.pid] = (Renumbered(known, p, preserveErrors) + 1) % CCRange]
    ELSE known

\* The counters next after each packet of a chunk, from those before the first.
Counters(known, packets, preserveErrors) ==
  LET after[n \in 0..Len(packets)] ==
        IF n = 0 THEN known ELSE KnownAfter(after[n - 1], packets[n], preserveErrors)
  IN  after

\* fault: the offset is never looked at.
Loaded_OffsetKept(l, key, payload) ==
  IF l.payload # <<>> /\ key = l.key THEN l
  ELSE [l EXCEPT !.key = key, !.payload = payload, !.cycle = CycleDuration(payload)]

\* A new key takes the new payload in at the old offset and with the old clocks;
\* an offset behind its end starts over.
Loaded(l, key, payload) ==
  IF l.payload # <<>> /\ key = l.key THEN l
  ELSE [l EXCEPT !.key = key, !.payload = payload, !.cycle = CycleDuration(payload),
                 !.offset = IF @ >= Len(payload) THEN 0 ELSE @]

\* fault: every cycle is sent with the clocks of the first.
Wrapped_ClockKept(l) ==
  IF ~l.nextLoop THEN l ELSE [l EXCEPT !.offset = 0, !.nextLoop = FALSE]

\* The chunk before was the last of its cycle.
Wrapped(l) ==
  IF ~l.nextLoop THEN l
  ELSE [l EXCEPT !.stampOffset = (@ + l.cycle) % StampRange, !.offset = 0, !.nextLoop = FALSE]

\* ChunkAt: the chunk at the offset and the offset after it, 0 at the end.
ChunkEnd(l) == IF l.offset + ChunkPackets >= Len(l.payload) THEN Len(l.payload)
               ELSE l.offset + ChunkPackets
ChunkAt(l)  == LET packets == SubSeq(l.payload, l.offset + 1, ChunkEnd(l))
               IN  [i \in DOMAIN packets |-> Shifted(packets[i], l.stampOffset)]

\* TimestampLoop.Next: the loop after the call and the chunk it returns.
NextChunk(loop, key, payload, preserveErrors) ==
  LET l       == Wrapped(Loaded(loop, key, payload))
      packets == ChunkAt(l)
      after   == Counters(l.cc, packets, preserveErrors)
      next    == ChunkEnd(l) % Len(l.payload)
  IN  [loop  |-> [l EXCEPT !.offset = next, !.nextLoop = (next = 0),
                           !.cc = after[Len(packets)]],
       chunk |-> [i \in DOMAIN packets |->
                    [packets[i] EXCEPT !.cc = Renumbered(after[i - 1], packets[i], preserveErrors)]]]
=============================================================================
