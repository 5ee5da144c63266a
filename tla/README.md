# A TLA+ model of satip-lab

satip-lab simulates a SAT>IP server with faults on demand: clients set up, play
and tear down streams over RTSP, an operator sets fault scenarios over HTTP, and
both look at one lab model of services, muxes, tuners and sessions. These
modules model the parts that carry state or decide something, TLC checks them on
small instances, and TLAPS proves for every size what is safety in them: of the lab, the
RTSP server and its connections, the senders and the simulator.

Source paths are relative to `src/`. `PROJECT.json` maps each definition to the
lines it stands for.

## Inventory

| Part | State | Operations | What is hard |
|---|---|---|---|
| Lab manager, `internal/lab/manager.go` | sessions, tuners, scenario, timeline, events, under one mutex | Setup, Play, Pause, UpdatePIDs, Touch, Teardown, ExpireSessions, SetRTPTransport, RecordRTPSent, Status, Scenario, SetScenario, SetScenarioTimeline, Reset | tuner sharing; cached frontends; clocks read before the wait for the mutex; timelines advanced by whoever looks; a capped log |
| RTSP server, `internal/rtsp/server.go` | session map (`sessionMu`), session structs and stop channels (`streamMu`), connections, reaper | request handlers, connection loss, `expireSessions`, `Reset`, start and end of senders | one session in three places no common lock covers; handlers that use a struct after it left the map |
| RTSP connection, `internal/rtsp/server.go` | the two byte streams, `connectionState`, `writeMu` | `readRequest`, the handlers' responses, the senders' frames, `afterWrite` | frames among requests; a sender that must not write before the PLAY response; one lock held during a blocking write |
| RTP sender, `internal/rtsp/server.go`, `rtp.go` | per goroutine: behavior and its counters, payload key, sequence number | one tick: behavior, payload, drop or send | the scenario is read twice a tick and may change in between; counters that must start over |
| Transport stream loop, `internal/ts/loop.go`, `source.go` | offset, clock offset, cycle, counters per PID | `Next` | 33-bit clocks wrap; payloads change in mid cycle; corrupted and clean payloads share one counter map |
| Transport stream synthesis, `internal/ts/service.go` | none | PSI/SI tables, EIT, marker packets | a schedule and an `epg_gap` of its own, apart from XMLTV's |
| Catalog, `internal/channels`, `internal/lab/catalog.go` | built once at start | load and validate a file, muxes and services, M3U, match a query | texts that differ in case or spaces; services whose PIDs overlap |
| EPG, `internal/epg/epg.go` | none | programme grid from catalog and scenario | slots that straddle the end of a gap or of the day |
| HTTP API, `internal/httpserver/` | none of its own | `/api/status`, `/api/scenario`, `/api/reset`, diagnostics, routes of each profile, documents | reset is two calls; diagnostics and POST read the lab twice |
| SSDP, `internal/ssdp/server.go` | socket, stop channel | read loop, notify loop, Stop | Stop writes what the loops read without a lock |
| Simulator, configuration, topology, profiles | wiring, the topology document | New, Start, Stop; environment, flags, defaults | partial starts; two copies of the configuration |
| MCP server, commands, simctl, smoke | none | clients of the above | sequential |
| Compatibility evidence | static tables | document validation | none |

How they interact: the RTSP handlers and the reaper call the lab and then their
own maps; sender goroutines read the scenario from the lab at every tick, count
packets back into it and write to their client's connection; a POST
`/api/reset` clears the RTSP server first and the lab second; timelines move when
anybody reads the lab. The simulator builds one catalog that lab, M3U, guide and
streams share, and starts HTTP, RTSP and SSDP in this order.

What makes each part correct:

* Lab: tuners and sessions agree, muxes are not split, a SETUP is refused only for
  the reasons given, staying sessions are not disturbed by leaving ones, every
  frontend shows the active fault and reports it, the log tells what happened.
* RTSP: the map and the lab know the same sessions, no sender runs for a session
  that is gone or paused, everything is freed when the clients are gone.
* Connection: every request is answered once, in order and eventually; frames only
  between the PLAY that starts them and what ends them.
* Sender and loop: a scenario takes hold at once and leaves no trace afterwards; a
  client that loses nothing sees continuous counters and clocks.
* Catalog and guides: a link tunes the entry it belongs to; the two guides agree
  with the list and with each other.
* Simulator: what is announced is served; the SSDP loops live exactly until Stop.

## Modules

| Module | Models |
|---|---|
| `PidFilter` | pids, addpids and delpids: the pure part of UpdatePIDs |
| `LabScenario` | scenarios, timelines and the frontend state they impose: the pure part of the manager |
| `LabManager` | the manager, one action per method; extends the two above |
| `LabStatus` | what a status says: frontend locks of `/api/status`, the RTCP report of a session; extends `LabManager` |
| `LabReaders` | an HTTP request that calls the lab twice, with every other call in between; extends `LabManager` |
| `LabSessions` | the abstract promise of the manager: sessions, capacity by mux, refusals |
| `RtspServer` | sessions, senders, reaper and reset, one action per critical section; its lab is `LabSessions` |
| `RtspWire` | one connection as its two byte streams, every request method and every status |
| `TsLoop` | `TimestampLoop` as operators on a loop record |
| `RtpStream` | one sender goroutine with an observing client; extends `TsLoop` |
| `Catalog`, `Guide` | catalog files, muxes, services, M3U, matching; XMLTV and EIT |
| `Device` | configuration, profiles, topology documents, HTTP routes |
| `Simulator` | the life of one simulator with SSDP, and a client that discovers it; extends `Device` and `Guide` |
| `LabManager_proofs` | theorems about `LabManager`: accounting, admission, and that it implements `LabSessions` |
| `LabEvents_proofs` | theorems about its event log |
| `LabReaders_proofs` | theorems about frontends, RTCP reports, and requests of two calls |
| `RtspServer_proofs`, `RtspOwned_proofs` | theorems about `RtspServer`: for any clients; for clients that keep to their own sessions |
| `RtspWire_proofs` | theorems about the answers and frames of one connection |
| `RtpStream_proofs` | theorems about what a scenario does to a stream, and about its continuity counters |
| `Simulator_proofs` | theorems about catalog, guides and SSDP loops in the life of a simulator |
| `MC...` | small instances for TLC |

`LabManager` implements `LabSessions` (`ImplementsLabSessions`), and `RtspServer`
takes `LabSessions` for its lab, so that it need not carry tuners and clocks.
`RtspServer` treats a sender as a goroutine that runs, is told to stop, fails or
ends by itself; what it sends is `RtpStream`, and in what order it reaches the
client is `RtspWire`.

Operators marked `fault:` are plausible bugs of the definition they precede. No
specification uses them; substituting one for its original shows that a property
notices (`PROJECT.json`, "mutants").

### Correspondence

`LabManager`. All methods hold the mutex for their whole body, so each is one
atomic action. `now` is the clock; methods that are handed a time
(`StatusAt`, `Touch`, `ExpireSessions`, ...) run with any time up to `MaxLag` behind it.
`mode` joins scenario, change time and timeline because they change together.
`answer` is the error of the last call. Frontends keep their state and the time
since when; signal figures are a function of the state (`LabStatus`). Sessions
keep what the properties tell apart; texts, addresses and byte counts are left out.

`LabReaders`. `reader` is one request and what it has read: the sessions of a status and
then the scenario of a playback diagnosis, or an accepted POST and the scenario its
response shows. Between the two calls any action of `LabManager` happens;
`overtaken` is history and says that somebody replaced the scenario meanwhile. A
complete answer no longer changes, and only `Done` follows it.

`RtspServer`. `lab`, `sessions` and `struct`/`stopCh` are the three places of a session.
A handler walks through `pc`; everything between two locks is one action.
`req` is the request it handles, `owned` and `pending` are the connection's
state, `doomed[p]` the ids an expirer got from the lab and has not yet swept.
`silent` stands for sessions whose last activity is older than the timeout: real
time is replaced by the event that a session nobody is asking about falls silent.
Handlers are taken to be quicker than the session timeout but for writing the response,
which waits without a limit for `writeMu` and the client: a session may fall silent,
be expired and be swept while a response about it is waiting.
A sender is a triple of session, generation and what it is doing, so that an old
and a new sender of one session are told apart. Where the code picks at random
between ticker and stop channel, both are possible.

`RtspWire`. `up` holds tokens: a line, the first byte of a frame, or a payload byte
together with what it looks like, since a payload byte may look like a line or a
dollar sign. `buffer` and `skip` are where `readRequest` is; `response` and
`afterWrite` what the handler still has to do; `senders` the goroutines of the
connection, in `select`, waiting for `writeMu` or writing. The lab answers
anything it can answer. A profile is whether DESCRIBE must precede SETUP (a
switch of the code that no profile turns on today) and whether the
configuration says `tuner_busy`.

`RtpStream`. `Tick` reads the behavior, `Load` reads the payload and advances the loop,
`Send` writes; `SetScenario` may come between any two. `client` remembers
the last sequence number, counters and clocks, and starts over after `MaxLost` losses
in a row; `since` and `gap` are history that only properties read. A UDP write
may fail or be lost at any time; an interleaved one that fails ends the sender
(`Break`). Scenarios aimed at another service are `"normal"` here.

`TsLoop`. A packet is its PID, whether it has payload, its counter and at most one
stamp per kind of clock. `rewriteContinuityCounters` works in place on the rendered
payload; each rendering is read through once before it is made anew, so
renumbering the chunk alone gives the same packets.

`Catalog`, `Guide`, `Device`. Pure functions of configuration, catalog and scenario. A text
is a word with the spaces and the case the loader normalises; a programme is
its interval in minutes from the lab clock; a URL is host, port and path.

`Simulator`. `main` walks through Start and Stop. When RTSP cannot start, the program
ends; an embedded simulator is left with HTTP open (`"failed"`) until Stop. The two SSDP loops take one step per
access to `stopCh` or `conn`, which Stop writes without a lock; a call on a nil
connection ends the process (`"crashed"`). The client finds the device, reads
description, list, guide and topology, and tunes one link; an operator changes
the scenario in between.

## What the runs show

| Run | Shows | Instance |
|---|---|---|
| `MCLabAdmission` | tuners accounted for, muxes not split, SETUP admits exactly what fits, `LabManager` implements `LabSessions` | 3 sessions, 3 muxes, 2 tuners, the refusing scenarios, expiry |
| `MCLabFrontend` | scenario, timeline step, every cached frontend, the hardware counts and the RTCP reports agree; no early lock, recovering or not; no retuning under a session | 2 sessions, 3 services on 2 muxes, 2 tuners, two faults aimed at two services of one mux, a timeline of 3 steps and a refused one, clock to 2, lag 1, expiry |
| `MCLabEvents` | the log is typed, tells lives in order, agrees with the sessions | 2 sessions, log of 4, progress every 2 packets |
| `MCLabReaders` | the two readings of one request fit together, and what it answers was in force meanwhile; a filter is all or a list, never both | 1 session, 2 services on a mux, a fault, a timeline, clock to 2, lag 1, one query for each way a filter changes |
| `MCRtspOwned` | sender and session state agree; no sender is lost but to a PLAY that outlasts its session; every session drains | 1 client, 1 session, 3 senders, all methods, both transports |
| `MCRtspShared` | what holds even when connections share a session and a reset runs: no channel without its sender, no tuner lost; every tuner comes free in the end | 2 clients, 1 session, a reset, both transports |
| `MCRtspWire` | answers in order and in the end; frames follow PLAY and cease; statuses make sense | 3 scripts of 8 to 10 items, all profiles, all answers of the lab |
| `MCRtpStream` | scenarios take hold and end without a trace; counters and clocks are continuous | 3 payloads, 7 scenarios, both transports |
| `MCSimulator` | what is announced is served, what is listed tunes, the guides agree, the loops live until Stop | 9 catalogs, each in the normal scenario and under one of 6 faults at a time, 5 ways to name a profile, tuner counts 2, 0 and -1, no public host, no RTSP port, fixtures good and bad (an id twice, no host, no RTSP port), a failure at each step of starting |
| `MCLabRewind` | violated: a reader moves a timeline back | see below |
| `MCRtspResetSession` | violated: a session outlives a reset for good | see below |
| `MCSimFixture` | violated: the program ignores its topology fixture | see below |

### Bounds, and why they are enough

* Lab: three sessions on two tuners are the least with a tuner shared, one full and
  one refused. Two sessions on one mux are the least where one leaves and one stays.
  The clock runs past the lock time and past every step that changes the frontend.
  `EventCap` 4 makes the log overflow by one call that logs several.
  `EventCap` 0 in the other runs switches the log off.
* RTSP: two connections, because every race is between two actors on one session, with
  reaper, senders and reset as further actors. `MaxPlays` 3 in
  `MCRtspOwned` lets a third sender meet the end of the first. In `MCRtspShared` it
  is 1, so no sender is replaced by another there; the theorem `StopChannelHeardHolds` is
  about any number.
* Wire: `UpCap` 2 and `WireCap` 2 let a request be cut anywhere and let the
  socket fill up while a sender and a handler both want to write. A body
  or frame of 2 bytes has a first and a last one.
* Stream: chunks of 2 packets, counters of 2 bits, clocks of 3 bits and sequence numbers of
  2 bits wrap within a few loops. The payloads are what a service
  can have: a synthetic one whose EIT comes before its media, a file whose clocks wrap inside
  it, a file without PCR. `since` counts to just past the limits. The default step is a
  whole turn of the clocks: it matters only for payloads without two stamps of one clock.
* Simulator: the catalogs have three entries on one or two muxes, with PIDs that are
  contained in one another, and one catalog for each rule of validation; guide
  times are the real ones (slots of 30, 45 and 60 minutes over a day, gaps of 45, 60
  and 90 minutes).
* Session ids are symmetric in `LabManager`; symmetry is off where liveness is checked.
* `CHECK_DEADLOCK FALSE` in the RTSP and simulator runs only: each connection is used
  once, and a server whose clients have left, or that has stopped, has nothing to do.

### Fairness

* `RtspServer`: goroutines are scheduled. Handlers, senders, reaper ticks, and the second
  half of a reset are weakly fair, and a session nobody asks about falls silent
  (nor does it stay fresh because a response about it is stuck).
  Clients owe nothing: they need not ask, answer or leave. A sender's ticker ticks.
* `RtspWire`: the handler, the client's sending and its reading are weakly fair; a
  client that stops reading blocks the connection, as it does in the code.
  Taking `writeMu` is strongly fair, because Go's mutex hands itself over to a
  waiter that has starved, and so is a sender's noticing of its closed stop
  channel, because `select` chooses at random among what is ready.
* `RtpStream`: weak fairness of the sender is written out (`Fairness`): it is enabled until gone.
* `Simulator`: the starting and stopping goroutine and the two SSDP loops are weakly fair.

## What is proved

TLC checks small instances; the theorems hold for every value of the constants that
satisfies the assumptions their modules name. Those of the lab are `CatalogAssumption`
(every service has a mux), `LockTimeAssumption`, `CountAssumption` (there is a tuner; caps
and times are natural numbers) and `RequestAssumption` (requests have the types the HTTP
and RTSP layers give them). `BoundAssumption` of `RtspServer` says that there are finitely
many connections, that the reaper is none of them, and that the bounds are natural
numbers. `ScriptAssumption` of `RtspWire`: a client sends a sequence of requests and frames,
and both byte streams hold something. `LoopAssumption` and `StreamAssumption`: there are
finitely many PIDs; a payload is a sequence of packets, at least one of which is not of the
EIT; adding 7 changes a counter, as it does with 4 bits; and fewer packets are lost in a row
than there are sequence numbers. `StartsAssumption` of `Simulator`: ports, tuner counts and
durations are integers, the port announced is positive, the RTSP port not negative, a catalog is a sequence, and no
channel has the id that the fault `epg_mismatch` makes up.

Each invariant is proved as `Init => Inv`, `Inv /\ [Next]_vars => Inv'` and
`Inv => property`, with one step per action. Every inductive invariant below was first
checked by TLC on the instance of the run that checks the property.

**The manager** (`LabManager_proofs`)

* `TypeCorrect`: `TypeOK` is inductive. The facts that carry it are that the due step of a
  timeline exists (`DueStepIsStep`: the first step begins at once and steps are
  validated), that appending events and cutting the log keeps it within `EventCap`
  (`RecordAllType`), and that a tuner is only allocated when there is one
  (`AllocatedTunerType`).
* `TunerAccountingHolds`, `MuxExclusiveHolds`. The inductive invariant is `AccountingInv`,
  their conjunction with `TypeOK`: neither is inductive alone. That no mux is on two tuners
  follows only because an idle tuner, which is what a new mux gets, is taken when no
  tuned one has that mux; that a session's tuner lists it needs that its id is fresh.
  Removal is proved for any set of sessions (`RemoveAccounting`), which covers TEARDOWN and
  expiry alike.
* `AdmitsWhatFitsHolds`: it follows from `AccountingInv`, because the tuned tuners and the
  muxes in use are in bijection (`MuxesInUse`, `OneTunerPerMux`); an idle tuner is left
  exactly while fewer muxes than tuners are in use.
* `NoRetuneHolds`: an action property, from `AccountingInv` and the same case split.
* `TimelineConsistentHolds`: with `TypeOK`, inductive by `ModeAtRight`: the step due at a
  clock reading that is not ahead of the clock has begun, even if the reading is older
  than the timeline.
* `FilterCanonicalHolds`: with `TypeOK`, from `CanonicalFilter`.

**Refinement** (`LabManager_proofs`). `LabKeepsPromise` proves `ImplementsLabSessions`:
initial states map to initial states and every call is a step of `LabSessions` or a
stutter. The hard step is SETUP: that the abstract capacity by mux decides what the
first-fit search over tuners decides is `AdmitsWhatFits` in both directions, so
`AccountingInv` is assumed in every step. Whatever `RtspServer` relies on in its lab is
thereby true of the manager for any number of tuners.

**Frontends and reports** (`LabReaders_proofs`). `FrontendInv` says that every cached
frontend is what `recomputeTunerFrontendLocked` would compute for the tuner's present
sessions and the present mode, at some clock reading already past, and that no time the lab
keeps lies ahead of the clock. The properties alone are not inductive: a recomputation skips ids
the session map does not have, and which fault a cache shows depends on every field
it was computed from.

* `FrontendShowsFaultHolds`, and `RtcpShowsFaultHolds` through the report of each session.
* `LockNotEarlyHolds`, by `LockingTimes`: "locked" is only computed at a reading that lies
  `LockTime` after the tuner was tuned, after the step that follows a loss, or after a
  `signal_recovery` was set. A frontend computed at an old reading still shows one of these
  (`FrontendTimes`).

**The event log** (`LabEvents_proofs`). `EventLifecycleHolds` and `LogMatchesStateHolds`. A log
that is cut at the front forgets how a session began, so the invariant, `LogInv`, says only
what every suffix of a good log inherits: of any two events, what the later one may
be (`Lives`), and of any event, what it says of the session map if nothing follows it
(`Agrees`). A new event fits because of what the log says of the map; a batch of
events, as an expiry logs, is one append (`LogGrows`).

**Requests of two calls** (`LabReaders_proofs`). To the manager each half of a request is
a call like any other (`CallOfLab`), so the manager's invariants carry over. `ReaderInv`
adds that what a request read first is what is due, by the present timeline, at the time of that
reading (`FirstReading`), unless the request was overtaken. The index the lab holds cannot
take that place: a reader with an older clock may move it back (`MCLabRewind`).
`OneRequestNeverRewindsHolds` follows because a later time never has an earlier step due
(`LaterFindsLater`). `AnswerInForceHolds` needs no such condition: whoever replaced the
timeline, the second reading finds the step due at a time between the request's arrival
and now (`DueIsInForce`).

**The RTSP server** (`RtspServer_proofs`), for any number of connections, sessions, senders
and resets, and for clients that share sessions as they like.

* `TypeCorrect`. `TypeOK` is not inductive: that a handler finds the struct it stores into
  needs `Placed` and `Holds` (what a connection has in hand at each place of its
  handler), that ids and senders stay within their bounds needs `Room` (requests under way
  are counted), that two SETUPs do not register one id needs `Distinct`.
* `StopChannelHeardHolds`, `NoTunerLeakHolds`, `ForgottenOnlyInPassingHolds`,
  `MapMatchesLabHolds`, from `MapInv`: a stop channel is that of a sender in its loop; a lab
  session outside the map is about to be entered or torn down by a handler, a failed sender
  or a reset; and, without a reset, a map entry the lab forgot is one an expirer is about to
  sweep. What makes them inductive is that a session leaving the lab has left the map for
  good (`LeavingMap`), and that one about to enter it is not yet silent (`Entering`).

**Clients that keep to their sessions** (`RtspOwned_proofs`), under `~SharedUse`, the
condition of `MCRtspOwned`. Without it both properties are false (see below).

* `SilentUnlessPlayingHolds`, resets or not. `OwnInv` adds that no two connections
  have one id in hand, that a PLAY about to start a sender has told the lab, and that a PAUSE
  about to tell the lab has stopped every sender.
* `NoOrphanSenderHolds`, with `Resets = 0` as well: a reset between a PLAY's look into the
  map and its sender is the other race reported below. It is an action property: no step
  leaves a sender of a live connection outside the map with nobody about to stop it,
  except the start of a sender in `afterWrite` once the lab has expired the session
  (`LateStart`). `StartsAlive` (`AliveInvariant`) carries it: a PLAY that is about to
  start a sender, or to leave the start to the end of its response, finds its session alive.

**One connection** (`RtspWire_proofs`), for any script, any lengths of bodies and frames,
any answers of the lab and any number of senders. `WireInv` joins what the three
properties need from each other:

* `InStep`: upstream lie the unread rest of the item being read and then the items sent
  after it, token by token (`Laid`, `Lies`). So the lines the server joins are those of one
  request, the bytes it skips are those of one frame or body, whatever they look like, and
  the request it handles is the one sent (`AsSent`). `Begun` counts: every request
  read to its end is answered, and no other.
* `Numbered`: answers, written or not, carry the CSeqs in order. `AnswersInOrderHolds`
  follows from it because CSeqs number the requests of a script without a gap (`Numbers`).
* `Sensible`: `described` and `live` are what the answers given so far say they are, so a
  200 that rests on them rests on an earlier answer. From it, `StatusesMakeSenseHolds`.
* `Started`: every sender, and one waiting in `afterWrite`, belongs to a PLAY answered 200.
  With it `FramesFollowPlay` is inductive (`FramesFollowPlayHolds`): a frame reaches
  the wire only through `writeMu`, after the response of its PLAY was written.

**Senders** (`RtpStream_proofs`), for every payload, counter width and loop.

* `ImpairmentTakesHoldHolds`, `EveryThirdDroppedHolds`. `CountInv` ties the counters of
  `streamBehavior` to what a client has observed since the scenario was set, at each
  place of the tick; at most one packet is on its way under the old scenario
  (`OneOnItsWay`).
* `StreamTypeCorrect` and `ErrorsAreLossesHolds`, an action property: a client that
  lost nothing sees each PID's counters continue, through loops, changes of payload in mid
  cycle and the end of a scenario that corrupted them. `StreamInv` adds to `CountInv`
  that the next sequence number is as far from the last one seen as packets were lost
  (`InOrder`), so that a client notices every loss; and that what a client in touch saw last
  fits the counters the loop gives next, or, while a chunk is on its way, that the chain of
  counters of this chunk leads from the one to the other (`Fits`).
* What a chunk does is computed packet by packet, by recursive functions over positions. The
  lemmas get by without induction over data: a least counterexample is found in
  the well-founded order of the numbers (`LeastNumber`), from which follow that such a
  function exists and satisfies its equation (`RecursionExists`) and that what each step
  keeps holds all along (`Upwards`). `ChunkType`, `CountersType`, `CycleType` and
  `DurationType` type the loop's operators, `NextChunkOK` says that a chunk is numbered
  from the loop's counters on, and `ClientFollows` that a client reading a chunk ends up
  where the loop is.

**The simulator** (`Simulator_proofs`), for any catalog, schedule times, faults and way of
starting, also after a start that failed. `SimInv` remembers which servers listen in which phase (`Phases`), what the
SSDP loops have while nobody stops them (`Loops`), that ids and tvg-ids name one service
each (`Distinct`), and that list, guide and tuned link of the client were made from the
catalog served now under some scenario set meanwhile (`Learned`).

* `LinkTunesEntryHolds`: the first service that matches the query of a link is the link's
  own, or an earlier one of its mux that asks for no other PIDs (`LinkFindsService`).
* `GuideMatchesListHolds`, `StreamMatchesGuideHolds`: the slots of a day follow each other
  and fill it whatever the step (`Multiples`, `SlotsFollow`, `ProgrammesFill`), so the EIT
  has the programme that the guide has at that time.
* `AnnouncedIsServedHolds`: when SSDP announces a location both servers listen, the path is
  routed to the description, and the default topology document names the same location.
* `LoopsLiveHolds` is the safety half of `LoopsLiveUntilStop`: until Stop takes the stop
  channel no loop has ended, and none crashes before.

### Only model-checked

* Liveness (`Drained`, `TunersFreed`, `Recovers`, `EveryRequestAnswered`, `FramesCease`, and
  the liveness half of `LoopsLiveUntilStop`): out of the prover's reach.
* `ClocksMoveForward`: it does not hold of arbitrary payloads. A track of a recording may
  itself step back, or be wide enough that a few losses span half a clock's range. It holds
  of the payloads checked.

## Where code and documentation differ

Shown by a run:

* `MCLabRewind`: `scenarioAtLocked` takes the step due at the caller's clock, which may be
  older than the step another caller reached; the timeline goes back, with
  recomputed frontends (and one more step event, which the run leaves out). `docs/supported-profile.md:231` promises elapsed time
  from the accepted request. `MCLabReaders` shows that one request never sees it.
* `MCRtspResetSession`: SETUP puts its session into the map after the lab admitted
  it; a reset in between leaves a session the lab does not know. The reaper asks the lab
  what to remove and so never removes it.
* `MCSimFixture`: `cmd/satip-lab/main.go:49` copies the configuration field by field
  and leaves out `TopologyPath`, so that `SATIP_LAB_TOPOLOGY`
  (`docs/api.md:109`) has no effect on the program.

Seen while modelling, without a run of their own:

* On two connections that share a session, PAUSE stops the sender and then tells the
  lab while PLAY tells the lab and then starts the sender; interleaved, they leave
  a paused session that sends.
* A PLAY that found its session before a reset, or before a TEARDOWN on another
  connection, starts its sender afterwards; nothing can stop that sender.
* An interleaved PLAY whose client does not read for longer than the session timeout is
  still writing its response when the session is expired and swept; `runAfterWrite` then
  starts a sender for a session that is gone. No request can stop it; it ends with its
  connection. `NoOrphanSender` names this as its one exception.
* `POST /api/scenario` replaces `tuner_wedged`, which `docs/api.md:367` leaves to a
  reset.
* After a timeline returned to normal, a SETUP on an idle tuner may show
  `recovering` or `locked` instead of `tuning`, because the recovery looks at the services
  on the tuner now (`docs/support-matrix.md:68`).
* A reset keeps the event log, which `internal/mcp/server.go:218` says it clears.
* A clock that spans more than the cycle of its payload goes back at the loop: the
  cycle is taken from the PCR if there is one, whatever the length of the other tracks.
  `ClocksMoveForward` covers the tracks that are not longer.
* Stop of the SSDP server sets `conn` to nil while a loop may be about to use it; the
  loop then panics and the process ends. `LoopsLiveUntilStop` says that this can
  happen during Stop only.
* With a tuner count of 0 the lab has one tuner and the description says
  `DVBS2-1`, but `/api/topology` says two; with a negative one the default topology
  document fails its own validation and keeps an empty location, which is why
  `AnnouncedIsServed` leaves it out.
* Without a public host the SSDP location has no host, while `/api/topology` says
  `127.0.0.1`; `AnnouncedIsServed` compares the two only when a host is configured.
* When RTSP cannot listen, `Start` of an embedded simulator returns the error and leaves
  the HTTP server open until Stop.
* Stop of the RTSP server closes the listener; connections that are open go on being served.

## Not modelled

* Byte layouts and texts: PSI/SI tables, RTP and RTCP packets, XML, JSON, M3U and SDP
  rendering, parsing of YAML, URLs and headers. The RTP timestamp moves in step
  with the sequence number. Jitter only stretches the time between two steps.
* The early return of `ExpireSessions` for a timeout of 0 or less: its only caller passes
  `rtspSessionTimeout`, a constant.
* `SATIP_LAB_EPG_CLOCK=real`, with which guide and EIT are cut at the two moments they are asked
  for (`internal/epg/epg.go:77`); `StreamMatchesGuide` is about one moment.
* Frames in the middle of an RTSP request: the scripts of `RtspWire` send them between requests.
* HTTP endpoints that render one snapshot: `StatusAt` of `LabManager`, or constants.
* The MCP server, `simctl`, the smoke client and the command line: they call the HTTP and
  RTSP interfaces one request at a time and keep no state between them.
* Validation of compatibility evidence (`internal/compatibility` and its tools): offline
  checks of documents against static tables.

## Plan

The plan is done: the lab with its abstract specification, RTSP sessions and connections,
streams, catalog and guides, the simulator with SSDP, and the proofs above. What could
follow:

1. `ClocksMoveForward` as a theorem, under a condition on the tracks of a payload that
   excludes the cases above. It needs a bound on the distance of two stamps of one track
   along a chunk, next to the chain of counters `StreamInv` has.
2. An abstract specification of the manager that also shows scenario and frontends, which
   would let `LabReaders` and `RtpStream` read the lab through one promise.
