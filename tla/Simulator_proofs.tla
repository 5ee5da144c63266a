-------------------------- MODULE Simulator_proofs --------------------------
(***************************************************************************)
(* The simulator's life for every way of starting it.  Three things have   *)
(* to be remembered along the way: which servers listen in which phase     *)
(* (Phases), that the SSDP loops have what they use as long as nobody      *)
(* stops them (Loops), and that whatever a client holds was made from the  *)
(* catalog that is served now (Learned).                                   *)
(***************************************************************************)
EXTENDS Simulator, NaturalsInduction, WellFoundedInduction, TLAPS

Before  == {"new", "start http", "start rtsp", "start ssdp", "failed"}
SSDPUp  == {"running", "stop ssdp", "clear stopCh", "close conn"}
After   == {"stop rtsp", "stop http", "stopped"}
Ended   == {"exited", "crashed"}

\* Start opens HTTP, then RTSP, then SSDP; Stop closes them in the opposite order,
\* after a failed Start too.
Phases ==
  /\ main \in Before \cup SSDPUp \cup {"clear conn"} \cup After \cup Ended
  /\ main \in {"start rtsp", "start ssdp", "failed", "clear conn", "stop rtsp", "stop http"}
               \cup SSDPUp => http = "open"
  /\ main \in {"start ssdp", "running"} => rtsp = "open"
  /\ socket = "open" => conn /\ rtsp = "open" /\ main \in SSDPUp
  /\ main \in (Before \ {"new"}) \cup SSDPUp \cup {"clear conn"} =>
       topology = IF Cfg.topology = <<>> THEN DefaultTopology(Cfg) ELSE Normalized(Cfg.topology)

Alive == reader # "none" \/ notifier # "none"

\* A loop that runs has its socket and an open stop channel until Stop takes the
\* channel, and a set conn until the last write of Stop.
Loops ==
  /\ main \in Before \cup Ended => ~Alive
  /\ main \in Before => conn = FALSE /\ socket = "none" /\ stopCh = "nil"
  /\ Alive /\ main \in {"running", "stop ssdp"} =>
       stopCh = "open" /\ socket = "open" /\ "gone" \notin {reader, notifier}
  /\ Alive /\ main \in SSDPUp \cup {"clear conn"} => conn
  /\ main \in {"close conn", "clear conn", "crashed"} \cup After => stopCh = "nil"

\* The services of a catalog that loaded: a sequence in which ids and tvg-ids name
\* one service each.
Distinct(list) ==
  /\ Len(list) \in Nat /\ DOMAIN list = 1..Len(list)
  /\ \A i \in DOMAIN list : list[i].id # Blank /\ list[i].tvgID # MismatchedID
  /\ \A i, j \in DOMAIN list : i # j => /\ list[i].id # list[j].id
                                        /\ list[i].tvgID # list[j].tvgID

Scenarios == {NormalScenario} \cup start.faults

\* The guide and the answer to tuning link i that one scenario makes.
GuideOf(scn) == [scenario |-> scn, channels |-> GenerateXMLTV(services, scn),
                 lastModified |-> LastModified(scn)]
TunedTo(i, scn) ==
  LET service == MatchService(services, TuningQuery(services[i]))
  IN  [link |-> i, service |-> service, scenario |-> scn,
       eit |-> IF service = NoService THEN {} ELSE EIT(service, scn, start.recorded)]

\* A client holds what the catalog served now makes of some scenario set meanwhile,
\* and it learns a list before a guide and a guide before it tunes.
Learned ==
  /\ client = [location |-> client.location, page |-> client.page, list |-> client.list,
               guide |-> client.guide, tuned |-> client.tuned, topology |-> client.topology]
  /\ scenario \in Scenarios
  /\ main = "new" => /\ http = "closed" /\ rtsp = "closed"
                     /\ client.list = <<>> /\ client.guide = <<>> /\ client.tuned = <<>>
  /\ client.list # <<>> => client.list = BuildM3U(services)
  /\ client.guide # <<>> =>
       client.list # <<>> /\ \E scn \in Scenarios : client.guide = <<GuideOf(scn)>>
  /\ client.tuned # <<>> =>
       /\ client.guide # <<>>
       /\ \E i \in DOMAIN services, scn \in Scenarios : client.tuned = <<TunedTo(i, scn)>>

SimInv == /\ start \in Starts
          /\ Phases
          /\ Loops
          /\ Distinct(services)
          /\ Learned

----------------------------------------------------------------------------
(* The catalog.                                                            *)

\* A nonempty set of positions has a first one.
LEMMA FirstPosition ==
  ASSUME NEW S \in SUBSET Nat, S # {}
  PROVE  \E n \in S : \A m \in S : n <= m
<1> DEFINE R == {ss \in Nat \X Nat : ss[1] < ss[2]}
<1>1. IsWellFoundedOn(R, Nat)
  BY NatLessThanWellFounded, Zenon DEF OpToRel
<1> HIDE DEF R
<1>2. PICK n \in S : \A m \in S : ~ (<<m, n>> \in R)
  BY <1>1, WFMin
<1>3. \A m \in S : ~ (m < n)
  BY <1>2 DEF R
<1> QED
  BY <1>3

LEMMA ValidIsNamed ==
  \A ch : ValidChannel(ch) => ch.id # Blank
  BY Zenon DEF ValidChannel

\* LoadCatalogFile refuses what is not distinct, and the catalog keeps the entries'
\* order, ids and tvg-ids.
LEMMA LoadedIsDistinct ==
  ASSUME start \in Starts, NEW list, list = LoadCatalog(Source(Cfg.catalog)), list # <<>>
  PROVE  Distinct(CatalogFromChannels(list))
<1> DEFINE entries == Source(start.catalog)
           loaded  == [i \in DOMAIN entries |-> Normalised(entries[i])]
<1>1. Cfg.catalog = start.catalog
  BY DEF Cfg, Config
<1>2. /\ list = loaded
      /\ \A i \in DOMAIN loaded : ValidChannel(loaded[i])
      /\ \A i, j \in DOMAIN loaded : i # j => loaded[i].id # loaded[j].id
                                            /\ loaded[i].tvgID # loaded[j].tvgID
  BY <1>1 DEF LoadCatalog
<1>3. /\ Len(entries) \in Nat /\ DOMAIN entries = 1..Len(entries)
      /\ \A i \in DOMAIN entries : Normalised(entries[i]).tvgID # MismatchedID
  BY StartsAssumption
<1>4. DOMAIN loaded = DOMAIN entries /\ \A i \in DOMAIN entries : loaded[i].tvgID # MismatchedID
  BY <1>3
<1> HIDE DEF entries, loaded
<1>5. \A i \in DOMAIN list : list[i].id # Blank
  BY <1>2, ValidIsNamed
<1> DEFINE new == CatalogFromChannels(list)
<1>6. /\ DOMAIN new = DOMAIN list
      /\ \A i \in DOMAIN list : new[i].id = list[i].id /\ new[i].tvgID = list[i].tvgID
  BY DEF CatalogFromChannels, ServiceOf
<1> HIDE DEF new
<1>7. Len(new) = Len(entries)
  BY <1>2, <1>3, <1>4, <1>6
<1> QED
  BY <1>2, <1>3, <1>4, <1>5, <1>6, <1>7 DEF Distinct, new

\* The first service that fits exists for the query of every link, is the link's own
\* or an earlier one, and fits the query.
LEMMA LinkFindsService ==
  ASSUME Distinct(services), NEW link \in DOMAIN services
  PROVE  LET query == TuningQuery(services[link])
         IN  \E i \in 1..link : /\ MatchService(services, query) = services[i]
                                /\ services[i].mux = query.mux
                                /\ ServiceMatchesPIDs(services[i], query.pids)
<1> DEFINE query == TuningQuery(services[link])
           found == {i \in DOMAIN services : /\ services[i].mux = query.mux
                                             /\ ServiceMatchesPIDs(services[i], query.pids)}
<1>1. DOMAIN services = 1..Len(services) /\ Len(services) \in Nat
  BY DEF Distinct
<1>2. query.mux = services[link].mux
      /\ query.pids = <<0, 17, services[link].pmt, services[link].video, services[link].audio>>
  BY DEF TuningQuery
<1>3. {services[link].pmt, services[link].video, services[link].audio} \subseteq Members(query.pids)
  <2> DEFINE p == query.pids
  <2>1. DOMAIN p = 1..5
    BY <1>2
  <2>2. /\ p[3] = services[link].pmt /\ p[4] = services[link].video
        /\ p[5] = services[link].audio
    BY <1>2
  <2>3. 3 \in DOMAIN p /\ 4 \in DOMAIN p /\ 5 \in DOMAIN p
    BY <2>1
  <2> HIDE DEF p
  <2>4. \A i \in DOMAIN p : p[i] \in Members(p)
    BY DEF Members
  <2> QED
    BY <2>2, <2>3, <2>4 DEF p
<1>4. link \in found
  BY <1>2, <1>3 DEF ServiceMatchesPIDs
<1>5. found \in SUBSET Nat
  BY <1>1
<1>6. \E n \in found : \A m \in found : n <= m
  BY <1>4, <1>5, FirstPosition
<1> DEFINE first == CHOOSE i \in found : \A j \in found : i <= j
<1>7. MatchService(services, query) = services[first]
  BY <1>4 DEF MatchService
<1>8. first \in found /\ first <= link
  BY <1>4, <1>6
<1>9. first \in 1..link
  BY <1>1, <1>8
<1> QED
  BY <1>7, <1>8, <1>9

----------------------------------------------------------------------------
(* The schedule.                                                           *)

Steps == {30, 45, 60, 90, 120}

LEMMA DensityIsStep ==
  ASSUME NEW id
  PROVE  Density(id) \in Steps /\ DensityForSyntheticService(id) = Density(id)
  BY DEF Density, DensityForSyntheticService, Steps

\* Every stretch of a slot's length holds a multiple of it, and the numbers of the
\* slots cover the day.
LEMMA Multiples ==
  ASSUME NEW step \in Steps
  PROVE  /\ \A gap \in Nat : \E k \in Nat : gap <= k * step /\ k * step < gap + step
         /\ \A k \in Nat : k * step < Day => k \in 0..(Day \div step)
         /\ \A k \in Nat : k * step \in Nat /\ (k + 1) * step = k * step + step
         /\ step < Day
<1>1. step \in Nat /\ 0 < step /\ step < Day /\ Day = 1440
  BY DEF Steps, Day
<1>2. \A k \in Nat : k * step \in Nat /\ (k + 1) * step = k * step + step /\ k <= k * step
  BY DEF Steps
<1>3. ASSUME NEW k \in Nat, k * step < Day
      PROVE  k \in 0..(Day \div step)
  <2>1. CASE step = 30
    BY <1>1, <1>3, <2>1
  <2>2. CASE step = 45
    BY <1>1, <1>3, <2>2
  <2>3. CASE step = 60
    BY <1>1, <1>3, <2>3
  <2>4. CASE step = 90
    BY <1>1, <1>3, <2>4
  <2>5. CASE step = 120
    BY <1>1, <1>3, <2>5
  <2> QED
    BY <2>1, <2>2, <2>3, <2>4, <2>5 DEF Steps
<1>4. ASSUME NEW gap \in Nat
      PROVE  \E k \in Nat : gap <= k * step /\ k * step < gap + step
  <2> DEFINE S == {k \in Nat : gap <= k * step}
  <2>1. PICK k \in S : \A n \in S : k <= n
    <3>1. gap \in S
      BY <1>2
    <3> QED
      BY <3>1, FirstPosition
  <2>2. k \in Nat /\ gap <= k * step
    OBVIOUS
  <2>3. CASE k = 0
    BY <1>1, <2>2, <2>3
  <2>4. CASE k # 0
    <3>1. PICK n \in Nat : k = n + 1
      BY <2>2, <2>4
    <3>2. ~(gap <= n * step)
      BY <2>1, <3>1
    <3>3. n * step \in Nat /\ k * step = n * step + step
      BY <1>2, <3>1
    <3> QED
      BY <1>1, <2>2, <3>2, <3>3
  <2> QED
    BY <2>3, <2>4
<1> QED
  BY <1>1, <1>2, <1>3, <1>4

\* The slots of a day follow one another from 0 to its end without a hole, and one
\* of them begins in every stretch of a slot's length.
LEMMA SlotsFollow ==
  ASSUME NEW step \in Steps
  PROVE  /\ 0 \in SlotStarts(step) /\ step \in SlotStarts(step)
         /\ \A t \in SlotStarts(step) :
              t \in Nat /\ (t + step < Day => t + step \in SlotStarts(step))
         /\ \A gap \in Nat : gap < Day - step =>
              \E t \in SlotStarts(step) : gap <= t /\ t < gap + step
<1>1. \A k \in Nat : k * step < Day => k * step \in SlotStarts(step)
  BY Multiples DEF SlotStarts
<1>2. \A t \in SlotStarts(step) : \E k \in Nat : t = k * step
  BY DEF SlotStarts, Steps, Day
<1>3. 0 = 0 * step /\ step = 1 * step /\ 0 < Day /\ step \in Nat /\ Day \in Nat
  BY DEF Steps, Day
<1>4. 0 \in SlotStarts(step) /\ step \in SlotStarts(step)
  BY <1>1, <1>3, Multiples
<1>5. ASSUME NEW t \in SlotStarts(step)
      PROVE  t \in Nat /\ (t + step < Day => t + step \in SlotStarts(step))
  <2>1. PICK k \in Nat : t = k * step
    BY <1>2
  <2>2. k * step \in Nat /\ (k + 1) * step = k * step + step
    BY Multiples
  <2>3. PICK n \in Nat : n = k + 1
    OBVIOUS
  <2>4. n * step < Day => n * step \in SlotStarts(step)
    BY <1>1
  <2> QED
    BY <2>1, <2>2, <2>3, <2>4
<1>6. ASSUME NEW gap \in Nat, gap < Day - step
      PROVE  \E t \in SlotStarts(step) : gap <= t /\ t < gap + step
  <2>1. PICK k \in Nat : gap <= k * step /\ k * step < gap + step
    BY Multiples
  <2>2. k * step \in Nat
    BY Multiples
  <2>3. k * step < Day
    BY <1>3, <1>6, <2>1, <2>2
  <2> QED
    BY <1>1, <2>1, <2>3
<1> QED
  BY <1>4, <1>5, <1>6
\* From when on a service has programmes.
GapOf(service, scn) == IF Gapped(scn, service) THEN GapMinutes(scn) ELSE 0

\* What a schedule holds: the slots from the gap on, each up to the next or to
\* midnight.
LEMMA ProgrammesFill ==
  ASSUME NEW service, NEW scn, scn.duration \in Int
  PROVE  LET programmes == ProgrammesForService(service, scn)
             gap        == GapOf(service, scn)
         IN  /\ \A p \in programmes : /\ p.start \in Nat /\ p.start >= gap
                                     /\ p.stop \in {q.start : q \in programmes} \cup {Day}
             /\ gap < Day - Density(service.id) =>
                  \E p \in programmes : p.start < gap + Density(service.id)
             /\ gap = 0 => PresentFollowing(service) \subseteq programmes
             /\ Gapped(scn, service) <=> gap # 0
<1> DEFINE step       == Density(service.id)
           gap        == GapOf(service, scn)
           programmes == ProgrammesForService(service, scn)
           Slot(t)    == [start |-> t, stop |-> Earlier(t + step, Day)]
<1>1. step \in Steps /\ step \in Nat /\ 0 < step /\ Day = 1440 /\ 2 * step < Day
  BY DensityIsStep DEF Steps, Day
<1>2. gap \in Nat /\ (Gapped(scn, service) => gap = GapMinutes(scn) /\ gap # 0)
      /\ (~Gapped(scn, service) => gap = 0)
  BY DEF GapOf, GapMinutes
<1>3. \A t \in SlotStarts(step) : t \in Nat
  BY <1>1, SlotsFollow
<1>4. programmes = {Slot(t) : t \in {k \in SlotStarts(step) : k >= gap}}
  <2>1. \A k \in SlotStarts(step) :
          ~(Gapped(scn, service) /\ k < GapMinutes(scn)) <=> k >= gap
    BY <1>2, <1>3
  <2> QED
    BY <2>1 DEF ProgrammesForService
<1> HIDE DEF step, gap, programmes
<1>5. \A t \in SlotStarts(step) : t >= gap => Slot(t) \in programmes
  BY <1>4
<1>6. ASSUME NEW p \in programmes
      PROVE  /\ p.start \in Nat /\ p.start >= gap
             /\ p.stop \in {q.start : q \in programmes} \cup {Day}
  <2>1. PICK t \in SlotStarts(step) : t >= gap /\ p = Slot(t)
    BY <1>4
  <2>2. p.start = t /\ p.stop = Earlier(t + step, Day)
    BY <2>1
  <2>3. CASE t + step < Day
    <3>1. t + step \in SlotStarts(step) /\ t + step >= gap
      BY <1>1, <1>2, <1>3, <2>1, <2>3, SlotsFollow
    <3>2. PICK u \in SlotStarts(step) : u = t + step /\ u >= gap
      BY <3>1
    <3>3. Slot(u) \in programmes /\ Slot(u).start = u
      BY <1>5, <3>2
    <3>4. p.stop = u
      BY <2>2, <2>3, <3>2 DEF Earlier
    <3> QED
      BY <1>3, <2>1, <2>2, <3>3, <3>4
  <2>4. CASE ~(t + step < Day)
    BY <1>3, <2>1, <2>2, <2>4 DEF Earlier
  <2> QED
    BY <2>3, <2>4
<1>7. ASSUME gap < Day - step
      PROVE  \E p \in programmes : p.start < gap + step
  <2>1. PICK t \in SlotStarts(step) : gap <= t /\ t < gap + step
    BY <1>1, <1>2, <1>7, SlotsFollow
  <2>2. Slot(t) \in programmes /\ Slot(t).start = t
    BY <1>2, <1>3, <1>5, <2>1
  <2> QED
    BY <2>1, <2>2
<1>8. ASSUME gap = 0
      PROVE  PresentFollowing(service) \subseteq programmes
  <2>1. PresentFollowing(service) =
          {[start |-> 0, stop |-> step], [start |-> step, stop |-> 2 * step]}
    BY DensityIsStep DEF PresentFollowing, step
  <2>2. Slot(0) \in programmes /\ Slot(step) \in programmes
    BY <1>1, <1>3, <1>5, <1>8, SlotsFollow
  <2>3. Earlier(0 + step, Day) = step /\ Earlier(step + step, Day) = 2 * step
    BY <1>1 DEF Earlier
  <2>4. Slot(0) = [start |-> 0, stop |-> step] /\ Slot(step) = [start |-> step, stop |-> 2 * step]
    BY <2>3
  <2> QED
    BY <2>1, <2>2, <2>4
<1> QED
  BY <1>2, <1>6, <1>7, <1>8 DEF step, gap, programmes

----------------------------------------------------------------------------
(* The invariant.                                                          *)

LEMMA SimInit == Init => SimInv
<1> SUFFICES ASSUME Init PROVE SimInv
  OBVIOUS
<1>1. Phases
  BY DEF Init, Phases, Before, SSDPUp, After, Ended
<1>2. Loops
  BY DEF Init, Loops, Alive, Before, SSDPUp, After, Ended
<1>3. Distinct(services)
  BY DEF Init, Distinct
<1>4. Learned
  BY DEF Init, Learned, NewClient, Scenarios
<1> QED
  BY <1>1, <1>2, <1>3, <1>4 DEF SimInv, Init

\* The part of a client's knowledge that the catalog and the scenarios vouch for
\* stays true while neither is replaced and the client learns nothing.
LEMMA LearnedStays ==
  ASSUME SimInv, UNCHANGED <<start, services, scenario>>,
         main' = "new" => main = "new" /\ UNCHANGED <<http, rtsp>>,
         client' = client \/ \E l : client' = [client EXCEPT !.location = l]
                          \/ \E p : client' = [client EXCEPT !.page = p]
                          \/ \E t : client' = [client EXCEPT !.topology = t]
  PROVE  Learned'
<1>1. /\ client'.list = client.list /\ client'.guide = client.guide
      /\ client'.tuned = client.tuned
      /\ client' = [location |-> client'.location, page |-> client'.page,
                    list |-> client'.list, guide |-> client'.guide,
                    tuned |-> client'.tuned, topology |-> client'.topology]
  BY DEF SimInv, Learned
<1>2. Scenarios' = Scenarios /\ \A scn : GuideOf(scn)' = GuideOf(scn)
  BY DEF Scenarios, GuideOf
<1>3. \A i, scn : TunedTo(i, scn)' = TunedTo(i, scn)
  BY DEF TunedTo
<1> QED
  BY <1>1, <1>2, <1>3 DEF SimInv, Learned
\* A process may end anywhere, and by a panic once Stop has taken the channel.
LEMMA DieKeeps ==
  ASSUME SimInv, NEW how \in Ended, Die(how), how = "crashed" => stopCh = "nil"
  PROVE  SimInv'
<1>1. /\ main' = how /\ main' \notin Before \cup SSDPUp \cup {"clear conn"} \cup After
      /\ main' \in Ended /\ main' # "new"
  BY DEF Die, Ended, Before, SSDPUp, After
<1>2. Phases'
  BY <1>1 DEF Die, Phases, Before, SSDPUp, After, Ended
<1>3. Loops'
  BY <1>1 DEF Die, Loops, Alive, Before, SSDPUp, After, Ended
<1>4. Learned'
  <2>1. UNCHANGED <<start, services, scenario, client>>
    BY DEF Die, config, outside
  <2> QED
    BY <1>1, <2>1, LearnedStays
<1> QED
  BY <1>2, <1>3, <1>4 DEF SimInv, Die, config

\* Reading the catalog, from built-in channels or a file.
LEMMA NewKeeps ==
  ASSUME SimInv, New
  PROVE  SimInv'
<1> DEFINE list == LoadCatalog(Source(Cfg.catalog))
<1>1. CASE Die("exited")
  BY <1>1, DieKeeps DEF Ended
<1>2. CASE ~Die("exited")
  <2>1. /\ main = "new" /\ main' = "start http" /\ list # <<>>
        /\ services' = CatalogFromChannels(list)
        /\ topology' = IF Cfg.topology = <<>> THEN DefaultTopology(Cfg)
                       ELSE Normalized(Cfg.topology)
        /\ UNCHANGED <<start, http, rtsp, stopCh, conn, socket, reader, notifier,
                       scenario, client>>
    BY <1>2, Zenon DEF New, Goto, config, ssdp, loops, outside
  <2>2. Cfg' = Cfg
    BY <2>1 DEF Cfg
  <2>3. Phases'
    BY <2>1, <2>2 DEF SimInv, Phases, Before, SSDPUp, After, Ended
  <2>4. Loops'
    BY <2>1 DEF SimInv, Loops, Alive, Before, SSDPUp, After, Ended
  <2>5. Distinct(services')
    BY <2>1, LoadedIsDistinct DEF SimInv
  <2>6. Learned'
    <3>1. /\ client'.list = <<>> /\ client'.guide = <<>> /\ client'.tuned = <<>>
          /\ client' = [location |-> client'.location, page |-> client'.page,
                        list |-> client'.list, guide |-> client'.guide,
                        tuned |-> client'.tuned, topology |-> client'.topology]
      BY <2>1 DEF SimInv, Learned
    <3>2. scenario' \in Scenarios' /\ main' # "new"
      BY <2>1 DEF SimInv, Learned, Scenarios
    <3> QED
      BY <3>1, <3>2 DEF Learned
  <2>7. Distinct(services)'
    BY <2>5 DEF Distinct
  <2> QED
    BY <2>1, <2>3, <2>4, <2>6, <2>7 DEF SimInv
<1> QED
  BY <1>1, <1>2

\* The rest of starting and stopping, one write after the other.
LEMMA MainKeeps ==
  ASSUME SimInv, Main \/ Interrupt
  PROVE  SimInv'
<1> DEFINE Rest == /\ UNCHANGED <<start, services, topology, scenario, client>>
                   /\ main' # "new"
<1>1. ASSUME Rest, Phases', Loops'
      PROVE  SimInv'
  BY <1>1, LearnedStays DEF SimInv, Distinct
<1>2. Rest => Cfg' = Cfg
  BY DEF Cfg
<1>3. CASE \E how \in Ended : Die(how) /\ how = "exited"
  BY <1>3, DieKeeps
<1>4. CASE New
  BY <1>4, NewKeeps
<1> USE DEF SimInv, Goto, config, servers, ssdp, loops, outside, Before, SSDPUp, After, Ended
<1>5. CASE StartHTTP
  BY <1>1, <1>2, <1>3, <1>5 DEF StartHTTP, Phases, Loops, Alive
<1>6. CASE StartRTSP
  BY <1>1, <1>2, <1>3, <1>6 DEF StartRTSP, Phases, Loops, Alive
<1>7. CASE StartSSDP
  BY <1>1, <1>2, <1>7 DEF StartSSDP, Phases, Loops, Alive
<1>8. CASE Interrupt
  BY <1>1, <1>2, <1>8 DEF Interrupt, Phases, Loops, Alive
<1>9. CASE CloseStopCh
  BY <1>1, <1>2, <1>9 DEF CloseStopCh, Phases, Loops, Alive
<1>10. CASE ClearStopCh
  BY <1>1, <1>2, <1>10 DEF ClearStopCh, Phases, Loops, Alive
<1>11. CASE CloseConn
  BY <1>1, <1>2, <1>11 DEF CloseConn, Phases, Loops, Alive
<1>12. CASE ClearConn
  BY <1>1, <1>2, <1>12 DEF ClearConn, Phases, Loops, Alive
<1>13. CASE StopRTSP
  BY <1>1, <1>2, <1>13 DEF StopRTSP, Phases, Loops, Alive
<1>14. CASE StopHTTP
  BY <1>1, <1>2, <1>14 DEF StopHTTP, Phases, Loops, Alive
<1>15. CASE Exit
  BY <1>3, <1>15 DEF Exit
<1> QED
  BY <1>4, <1>5, <1>6, <1>7, <1>8, <1>9, <1>10, <1>11, <1>12, <1>13, <1>14, <1>15 DEF Main

\* A loop uses a conn that is not there only after Stop has cleared the channel.
LEMMA CrashAfterStop ==
  ASSUME SimInv, Alive, ~conn
  PROVE  stopCh = "nil"
  BY DEF SimInv, Phases, Loops, Before, SSDPUp, After, Ended

\* The steps of both loops.
LEMMA LoopsKeep ==
  ASSUME SimInv, ReadLoop \/ NotifyLoop
  PROVE  SimInv'
<1> DEFINE Rest == /\ UNCHANGED <<config, main, servers, ssdp, scenario>>
                   /\ client' = client \/ Advertise
<1>1. ASSUME Rest, Alive, main = "running" => "gone" \notin {reader', notifier'},
             main = "stop ssdp" => "gone" \notin {reader', notifier'}
      PROVE  SimInv'
  <2>1. UNCHANGED <<start, main, services, topology, http, rtsp, stopCh, conn, socket, scenario>>
    BY <1>1 DEF config, servers, ssdp
  <2>2. Cfg' = Cfg
    BY <2>1 DEF Cfg
  <2>3. Phases'
    BY <2>1, <2>2 DEF SimInv, Phases, Before, SSDPUp, After, Ended
  <2>4. Loops'
    BY <1>1, <2>1 DEF SimInv, Loops, Alive, Before, SSDPUp, After, Ended
  <2>5. Learned'
    BY <1>1, <2>1, LearnedStays DEF Advertise
  <2> QED
    BY <2>1, <2>3, <2>4, <2>5 DEF SimInv, Distinct
<1>2. CASE Die("crashed") /\ Alive /\ ~conn
  BY <1>2, CrashAfterStop, DieKeeps DEF Ended
<1>3. Alive /\ main \in {"running", "stop ssdp"} =>
        stopCh = "open" /\ socket = "open" /\ "gone" \notin {reader, notifier}
  BY DEF SimInv, Loops
<1> USE DEF outside
<1>4. CASE ReadCheck
  BY <1>1, <1>3, <1>4 DEF ReadCheck, ReadGoto, Alive
<1>5. CASE ReadDeadline
  BY <1>1, <1>2, <1>3, <1>5 DEF ReadDeadline, ReadGoto, Alive
<1>6. CASE ReadEnter
  BY <1>1, <1>2, <1>3, <1>6 DEF ReadEnter, ReadGoto, Alive
<1>7. CASE ReadSearch
  BY <1>1, <1>3, <1>7 DEF ReadSearch, ReadGoto, Alive
<1>8. CASE ReadTimeout
  BY <1>1, <1>3, <1>8 DEF ReadTimeout, ReadGoto, Alive
<1>9. CASE ReadClosed
  BY <1>1, <1>3, <1>9 DEF ReadClosed, ReadGoto, Alive
<1>10. CASE ReadReply
  BY <1>1, <1>2, <1>3, <1>10 DEF ReadReply, Alive
<1>11. CASE NotifyEnter
  BY <1>1, <1>3, <1>11 DEF NotifyEnter, NotifyGoto, Alive
<1>12. CASE NotifyStop
  BY <1>1, <1>3, <1>12 DEF NotifyStop, NotifyGoto, Alive
<1>13. CASE NotifyTick
  BY <1>1, <1>3, <1>13 DEF NotifyTick, NotifyGoto, Alive
<1>14. CASE NotifySend
  BY <1>1, <1>2, <1>3, <1>14 DEF NotifySend, Alive
<1> QED
  BY <1>4, <1>5, <1>6, <1>7, <1>8, <1>9, <1>10, <1>11, <1>12, <1>13, <1>14
     DEF ReadLoop, NotifyLoop
\* What the operator and the client do: no server notices any of it.
LEMMA ClientKeeps ==
  ASSUME SimInv, SetScenario \/ Client
  PROVE  SimInv'
<1>1. UNCHANGED Served
  BY DEF Client, SetScenario, Search, FetchDescription, FetchList, FetchGuide, FetchTopology,
         Tune
<1>2. UNCHANGED <<start, main, services, topology, http, rtsp, stopCh, conn, socket,
                  reader, notifier>>
  BY <1>1 DEF Served, config, servers, ssdp, loops
<1>3. Cfg' = Cfg
  BY <1>2 DEF Cfg
<1>4. Phases' /\ Loops' /\ start' \in Starts
  BY <1>2, <1>3 DEF SimInv, Phases, Loops, Alive
<1>5. Distinct(services)'
  BY <1>2 DEF SimInv, Distinct
<1>6. SUFFICES Learned'
  BY <1>4, <1>5 DEF SimInv
<1>7. Scenarios' = Scenarios /\ \A scn : GuideOf(scn)' = GuideOf(scn)
  BY <1>2 DEF Scenarios, GuideOf
<1>8. \A i, scn : TunedTo(i, scn)' = TunedTo(i, scn)
  BY <1>2 DEF TunedTo
<1>9. CASE SetScenario
  <2>1. scenario' \in Scenarios' /\ client' = client
    BY <1>7, <1>9 DEF SetScenario, Scenarios
  <2> QED
    BY <1>2, <1>7, <1>8, <2>1 DEF SimInv, Learned
<1>10. CASE Search \/ FetchDescription \/ FetchTopology
  BY <1>2, <1>10, LearnedStays DEF Search, FetchDescription, FetchTopology, Learn
<1>11. CASE FetchList
  <2>1. /\ http = "open" /\ client.list = <<>> /\ scenario' = scenario
        /\ \E l \in {<<>>, BuildM3U(services)} : client' = [client EXCEPT !.list = l]
    BY <1>11 DEF FetchList, Learn
  <2>2. /\ client'.list # <<>> => client'.list = BuildM3U(services)
        /\ client'.guide = client.guide /\ client'.tuned = client.tuned
        /\ client' = [location |-> client'.location, page |-> client'.page,
                      list |-> client'.list, guide |-> client'.guide,
                      tuned |-> client'.tuned, topology |-> client'.topology]
    BY <2>1 DEF SimInv, Learned
  <2>3. main' # "new" /\ client.guide = <<>> /\ client.tuned = <<>>
    BY <1>2, <2>1 DEF SimInv, Learned
  <2> QED
    BY <1>2, <1>7, <2>1, <2>2, <2>3 DEF SimInv, Learned
<1>12. CASE FetchGuide
  <2>1. /\ http = "open" /\ client.list # <<>> /\ client.guide = <<>> /\ scenario' = scenario
        /\ client' = [client EXCEPT !.guide = <<GuideOf(scenario)>>]
    BY <1>12 DEF FetchGuide, Learn, GuideOf
  <2>2. /\ client'.guide = <<GuideOf(scenario)>>
        /\ client'.list = client.list /\ client'.tuned = client.tuned
        /\ client' = [location |-> client'.location, page |-> client'.page,
                      list |-> client'.list, guide |-> client'.guide,
                      tuned |-> client'.tuned, topology |-> client'.topology]
    BY <2>1 DEF SimInv, Learned
  <2>3. main' # "new" /\ client.tuned = <<>> /\ scenario \in Scenarios
    BY <1>2, <2>1 DEF SimInv, Learned
  <2> QED
    BY <1>2, <1>7, <2>1, <2>2, <2>3 DEF SimInv, Learned
<1>13. CASE Tune
  <2>1. PICK i \in DOMAIN client.list :
          client' = [client EXCEPT !.tuned =
            LET service == MatchService(services, client.list[i].query)
            IN  <<[link |-> i, service |-> service, scenario |-> scenario,
                   eit |-> IF service = NoService THEN {}
                           ELSE EIT(service, scenario, start.recorded)]>>]
    BY <1>13 DEF Tune, Learn
  <2>2. client.guide # <<>> /\ scenario' = scenario /\ rtsp = "open"
    BY <1>13 DEF Tune
  <2>3. client.list = BuildM3U(services) /\ client.list # <<>> /\ scenario \in Scenarios
    BY <2>2 DEF SimInv, Learned
  <2>4. i \in DOMAIN services /\ client.list[i].query = TuningQuery(services[i])
    BY <2>3 DEF BuildM3U
  <2>5. client' = [client EXCEPT !.tuned = <<TunedTo(i, scenario)>>]
    BY <2>1, <2>4 DEF TunedTo
  <2>6. /\ client'.tuned = <<TunedTo(i, scenario)>>
        /\ client'.list = client.list /\ client'.guide = client.guide
        /\ client' = [location |-> client'.location, page |-> client'.page,
                      list |-> client'.list, guide |-> client'.guide,
                      tuned |-> client'.tuned, topology |-> client'.topology]
    BY <2>5 DEF SimInv, Learned
  <2>7. main' # "new"
    BY <1>2, <2>2 DEF SimInv, Learned
  <2> QED
    BY <1>2, <1>7, <1>8, <2>2, <2>3, <2>4, <2>6, <2>7 DEF SimInv, Learned
<1> QED
  BY <1>9, <1>10, <1>11, <1>12, <1>13 DEF Client

LEMMA SimStep == SimInv /\ [Next]_vars => SimInv'
<1> SUFFICES ASSUME SimInv, [Next]_vars PROVE SimInv'
  OBVIOUS
<1>1. CASE Main \/ Interrupt
  BY <1>1, MainKeeps
<1>2. CASE ReadLoop \/ NotifyLoop
  BY <1>2, LoopsKeep
<1>3. CASE SetScenario \/ Client
  BY <1>3, ClientKeeps
<1>4. CASE UNCHANGED vars
  <2>1. UNCHANGED <<start, main, services, topology, http, rtsp, stopCh, conn, socket,
                    reader, notifier, scenario, client>>
    BY <1>4 DEF vars, config, servers, ssdp, loops, outside
  <2>2. Cfg' = Cfg
    BY <2>1 DEF Cfg
  <2>3. Phases' /\ Loops'
    BY <2>1, <2>2 DEF SimInv, Phases, Loops, Alive
  <2>4. Learned'
    BY <2>1, LearnedStays
  <2> QED
    BY <2>1, <2>3, <2>4 DEF SimInv, Distinct
<1> QED
  BY <1>1, <1>2, <1>3, <1>4 DEF Next

\* The phases of Start and Stop, what the SSDP loops rely on in each of them, and what
\* a client's list, guide and tuned link have to do with the catalog served.
THEOREM SimulatorInvariant == Spec => []SimInv
  BY SimInit, SimStep, PTL DEF Spec

----------------------------------------------------------------------------
(* What follows from it.                                                   *)

\* While the simulator runs neither loop of ssdp.Server ends, and a panic on a missing
\* socket comes only after Stop has taken the stop channel: the part of
\* LoopsLiveUntilStop that fairness has no share in.
LoopsLive == /\ main = "running" => "gone" \notin {reader, notifier}
             /\ main = "crashed" => stopCh = "nil"

THEOREM LoopsLiveHolds == Spec => []LoopsLive
<1>1. SimInv => LoopsLive
  BY DEF SimInv, Phases, Loops, Alive, LoopsLive, Before, SSDPUp, After, Ended
<1> QED
  BY <1>1, SimulatorInvariant, PTL

\* Every scenario has a duration, if only 0.
LEMMA DurationsAreNumbers ==
  SimInv => \A scn \in Scenarios : scn.duration \in Int
<1>1. NormalScenario.duration \in Int
  BY DEF NormalScenario
<1>2. SimInv => \A scn \in start.faults : scn.duration \in Int
  BY StartsAssumption DEF SimInv
<1> QED
  BY <1>1, <1>2 DEF Scenarios

\* The link of a list, followed through BuildM3U, the tuning query and MatchService,
\* reaches the service it was written for or an earlier one of its mux with no other
\* PIDs, for any catalog that loads.
THEOREM LinkTunesEntryHolds == Spec => []LinkTunesEntry
<1>1. ASSUME SimInv, client.tuned # <<>>
      PROVE  LET got  == client.tuned[1].service
                 link == client.tuned[1].link
                 own  == services[link]
             IN  /\ \E i \in 1..link : got = services[i]
                 /\ got.mux = own.mux
                 /\ got # own => {got.pmt, got.video, got.audio} \subseteq
                                   {0, 17, own.pmt, own.video, own.audio}
  <2>1. PICK link \in DOMAIN services, scn \in Scenarios : client.tuned = <<TunedTo(link, scn)>>
    BY <1>1 DEF SimInv, Learned
  <2> DEFINE query == TuningQuery(services[link])
  <2>2. client.tuned[1].link = link /\ client.tuned[1].service = MatchService(services, query)
    BY <2>1 DEF TunedTo
  <2>3. PICK i \in 1..link : /\ MatchService(services, query) = services[i]
                             /\ services[i].mux = query.mux
                             /\ ServiceMatchesPIDs(services[i], query.pids)
    BY <1>1, LinkFindsService DEF SimInv
  <2>4. /\ query.mux = services[link].mux /\ query.pids # <<>>
        /\ Members(query.pids) = {0, 17, services[link].pmt, services[link].video,
                                  services[link].audio}
    <3> DEFINE own == services[link]
               p   == <<0, 17, own.pmt, own.video, own.audio>>
    <3>1. query.mux = own.mux /\ query.pids = p
      BY DEF TuningQuery
    <3>2. DOMAIN p = 1..5 /\ 1..5 = {1, 2, 3, 4, 5} /\ p # <<>>
      OBVIOUS
    <3>3. p[1] = 0 /\ p[2] = 17 /\ p[3] = own.pmt /\ p[4] = own.video /\ p[5] = own.audio
      OBVIOUS
    <3> HIDE DEF p
    <3>4. Members(p) = {p[1], p[2], p[3], p[4], p[5]}
      BY <3>2 DEF Members
    <3> QED
      BY <3>1, <3>2, <3>3, <3>4
  <2>5. {services[i].pmt, services[i].video, services[i].audio} \subseteq Members(query.pids)
    BY <2>3, <2>4 DEF ServiceMatchesPIDs
  <2> HIDE DEF query
  <2> QED
    BY <2>2, <2>3, <2>4, <2>5
<1>2. SimInv => LinkTunesEntry
  BY <1>1 DEF LinkTunesEntry
<1> QED
  BY <1>2, SimulatorInvariant, PTL

\* The XMLTV guide belongs to the M3U list and covers each service's day, under every
\* fault an operator can set, for any catalog that loads.
THEOREM GuideMatchesListHolds == Spec => []GuideMatchesList
<1>1. ASSUME SimInv, client.guide # <<>>
      PROVE  LET guide == client.guide[1]
             IN  /\ DOMAIN guide.channels = DOMAIN client.list
                 /\ \A i \in DOMAIN client.list :
                      LET entry      == guide.channels[i]
                          programmes == entry.programmes
                          starts     == {p.start : p \in programmes}
                          gap        == IF Gapped(guide.scenario, services[i])
                                          THEN GapMinutes(guide.scenario) ELSE 0
                      IN  /\ entry.channel # client.list[i].tvgID =>
                               guide.scenario.name = "epg_mismatch"
                          /\ \A j \in DOMAIN client.list \ {i} :
                               guide.channels[j].channel # entry.channel
                          /\ \A p \in programmes : p.start >= gap /\ p.stop \in starts \cup {Day}
                          /\ gap < Day - Density(services[i].id) =>
                               \E p \in programmes : p.start < gap + Density(services[i].id)
  <2>1. PICK scn \in Scenarios : client.guide = <<GuideOf(scn)>>
    BY <1>1 DEF SimInv, Learned
  <2>2. scn.duration \in Int
    BY <1>1, DurationsAreNumbers
  <2> DEFINE guide == client.guide[1]
  <2>3. guide.scenario = scn /\ guide.channels = GenerateXMLTV(services, scn)
    BY <2>1 DEF GuideOf
  <2>4. client.list = BuildM3U(services)
    BY <1>1 DEF SimInv, Learned
  <2>5. /\ DOMAIN client.list = DOMAIN services /\ DOMAIN guide.channels = DOMAIN services
        /\ \A i \in DOMAIN services :
             /\ client.list[i].tvgID = services[i].tvgID
             /\ guide.channels[i].channel = XMLTVChannelID(services[i], scn)
             /\ guide.channels[i].programmes = ProgrammesForService(services[i], scn)
    BY <2>3, <2>4 DEF GenerateXMLTV, BuildM3U
  <2> HIDE DEF guide
  <2>6. ASSUME NEW i \in DOMAIN services, NEW j \in DOMAIN services, i # j
        PROVE  XMLTVChannelID(services[i], scn) # XMLTVChannelID(services[j], scn)
    BY <1>1, <2>6 DEF SimInv, Distinct, XMLTVChannelID
  <2>7. ASSUME NEW i \in DOMAIN services
        PROVE  XMLTVChannelID(services[i], scn) # services[i].tvgID => scn.name = "epg_mismatch"
    BY DEF XMLTVChannelID
  <2>8. ASSUME NEW i \in DOMAIN services
        PROVE  LET programmes == ProgrammesForService(services[i], scn)
                   gap        == GapOf(services[i], scn)
               IN  /\ \A p \in programmes :
                        p.start >= gap /\ p.stop \in {q.start : q \in programmes} \cup {Day}
                   /\ gap < Day - Density(services[i].id) =>
                        \E p \in programmes : p.start < gap + Density(services[i].id)
    BY <2>2, ProgrammesFill
  <2> QED
    BY <2>3, <2>5, <2>6, <2>7, <2>8 DEF GapOf, guide
<1>2. SimInv => GuideMatchesList
  BY <1>1 DEF GuideMatchesList
<1> QED
  BY <1>2, SimulatorInvariant, PTL

\* XMLTV and the EIT of the stream, made from separate tables by separate code, agree
\* on what runs at the lab clock and what follows, under any scenario.
THEOREM StreamMatchesGuideHolds == Spec => []StreamMatchesGuide
<1>1. ASSUME SimInv, client.tuned # <<>>, ~start.recorded,
             client.tuned[1].scenario = client.guide[1].scenario,
             NEW i \in DOMAIN services, services[i] = client.tuned[1].service
      PROVE  LET programmes == client.guide[1].channels[i].programmes
             IN  IF \E p \in programmes : p.start = 0
                   THEN client.tuned[1].eit \subseteq programmes /\ client.tuned[1].eit # {}
                   ELSE client.tuned[1].eit = {}
  <2>1. PICK link \in DOMAIN services, scn \in Scenarios : client.tuned = <<TunedTo(link, scn)>>
    BY <1>1 DEF SimInv, Learned
  <2>2. client.guide # <<>>
    BY <1>1 DEF SimInv, Learned
  <2>3. PICK shown \in Scenarios : client.guide = <<GuideOf(shown)>>
    BY <1>1, <2>2 DEF SimInv, Learned
  <2>4. client.tuned[1].scenario = scn /\ client.guide[1].scenario = shown
    BY <2>1, <2>3 DEF TunedTo, GuideOf
  <2>5. scn = shown /\ scn.duration \in Int
    BY <1>1, <2>4, DurationsAreNumbers
  <2> DEFINE service    == services[i]
             programmes == ProgrammesForService(service, scn)
             gap        == GapOf(service, scn)
  <2>6. client.guide[1].channels[i].programmes = programmes
    BY <2>3, <2>5 DEF GuideOf, GenerateXMLTV
  <2>7. service # NoService
    BY <1>1 DEF SimInv, Distinct, NoService
  <2>8. client.tuned[1].eit = IF Gapped(scn, service) THEN {} ELSE PresentFollowing(service)
    BY <1>1, <2>1, <2>7 DEF TunedTo, EIT
  <2>9. /\ \A p \in programmes : p.start \in Nat /\ p.start >= gap
        /\ gap = 0 => PresentFollowing(service) \subseteq programmes
        /\ Gapped(scn, service) <=> gap # 0
    BY <2>5, ProgrammesFill
  <2>10. /\ PresentFollowing(service) # {}
         /\ \E p \in PresentFollowing(service) : p.start = 0
    BY DEF PresentFollowing
  <2>11. gap \in Nat
    BY <2>5 DEF GapOf, GapMinutes
  <2> HIDE DEF service, programmes, gap
  <2>12. CASE gap = 0
    BY <2>6, <2>8, <2>9, <2>10, <2>12
  <2>13. CASE gap # 0
    BY <2>6, <2>8, <2>9, <2>11, <2>13
  <2> QED
    BY <2>12, <2>13
<1>2. SimInv => StreamMatchesGuide
  BY <1>1 DEF StreamMatchesGuide
<1> QED
  BY <1>2, SimulatorInvariant, PTL

\* Whatever SSDP announces is reachable when it is announced: both servers listen, and
\* the path of the LOCATION is routed to the description under every profile.
THEOREM AnnouncedIsServedHolds == Spec => AnnouncedIsServed
<1> DEFINE Announced(location) ==
             /\ http = "open" /\ rtsp = "open"
             /\ location.port = EffectivePublicHTTPPort(Cfg)
             /\ Route(Cfg, location.path) = "description"
             /\ Cfg.topology = <<>> /\ Cfg.tuners >= 0 /\ Cfg.publicHost # Unset =>
                  topology[1].location = <<location>>
<1>1. ASSUME SimInv, [Next]_vars, client'.location # client.location
      PROVE  socket = "open" /\ client'.location = <<DeviceDescriptionURL(Cfg)>>
  <2>1. client' # client
    BY <1>1
  <2>2. client = [location |-> client.location, page |-> client.page, list |-> client.list,
                  guide |-> client.guide, tuned |-> client.tuned, topology |-> client.topology]
    BY <1>1 DEF SimInv, Learned
  <2>3. ReadLoop \/ NotifyLoop \/ Client
    BY <1>1, <2>1
       DEF Next, vars, outside, Main, New, StartHTTP, StartRTSP, StartSSDP, CloseStopCh,
           ClearStopCh, CloseConn, ClearConn, StopRTSP, StopHTTP, Exit, Interrupt, Die,
           SetScenario
  <2>4. ~Client
    BY <1>1, <2>2 DEF Client, Search, FetchDescription, FetchList, FetchGuide, FetchTopology,
                      Tune, Learn
  <2>5. socket = "open" /\ Advertise
    BY <2>1, <2>3, <2>4
       DEF ReadLoop, ReadCheck, ReadDeadline, ReadEnter, ReadSearch, ReadTimeout, ReadClosed,
           ReadReply, ReadGoto, NotifyLoop, NotifyEnter, NotifyStop, NotifyTick, NotifySend,
           NotifyGoto, Die, outside
  <2> QED
    BY <2>2, <2>5 DEF Advertise
<1>2. ASSUME SimInv, socket = "open"
      PROVE  Announced(DeviceDescriptionURL(Cfg))
  <2> DEFINE profile == CompatibilityProfile(Cfg)
             url     == DeviceDescriptionURL(Cfg)
  <2>1. profile \in ProfileNames
    BY DEF CompatibilityProfile, ForName, ProfileNames, DescriptionPaths
  <2>2. /\ url = [host |-> Cfg.publicHost, port |-> EffectivePublicHTTPPort(Cfg),
                  path |-> DescriptionPaths[profile]]
        /\ url.port = EffectivePublicHTTPPort(Cfg) /\ url.path = DescriptionPaths[profile]
    BY DEF DeviceDescriptionURL
  <2>3. /\ http = "open" /\ rtsp = "open"
        /\ topology = IF Cfg.topology = <<>> THEN DefaultTopology(Cfg)
                      ELSE Normalized(Cfg.topology)
    BY <1>2 DEF SimInv, Phases, SSDPUp
  <2>4. Route(Cfg, url.path) = "description"
    BY <2>1, <2>2 DEF Route, DescriptionPaths, M3UPaths, ProfileNames
  <2>5. ASSUME Cfg.tuners >= 0, Cfg.topology = <<>>, Cfg.publicHost # Unset
        PROVE  topology[1].location = <<url>>
    <3> DEFINE device == [id |-> "default", profile |-> profile,
                          host     |-> FirstSet(Cfg.publicHost, "127.0.0.1"),
                          httpPort |-> OrDefault(EffectivePublicHTTPPort(Cfg), 8875),
                          rtspPort |-> OrDefault(EffectivePublicRTSPPort(Cfg), 554),
                          tuners   |-> OrDefault(Cfg.tuners, 2), location |-> <<>>]
    <3>1. /\ EffectivePublicHTTPPort(Cfg) > 0 /\ EffectivePublicHTTPPort(Cfg) \in Int
          /\ EffectivePublicRTSPPort(Cfg) >= 0 /\ EffectivePublicRTSPPort(Cfg) \in Int
          /\ Cfg.tuners \in Int
      BY <1>2, StartsAssumption
         DEF SimInv, Cfg, Config, EffectivePublicHTTPPort, EffectivePublicRTSPPort
    <3>2. /\ device.tuners > 0 /\ device.rtspPort > 0
          /\ device.host = Cfg.publicHost /\ device.httpPort = EffectivePublicHTTPPort(Cfg)
      BY <2>5, <3>1 DEF OrDefault, FirstSet
    <3>3. ValidTopology(<<device>>)
      <4>1. <<device>> # <<>> /\ DOMAIN <<device>> = {1} /\ <<device>>[1] = device
        OBVIOUS
      <4>2. device.id # Unset /\ device.profile \in ProfileNames /\ device.httpPort > 0
        BY <2>1, <3>1, <3>2 DEF Unset
      <4> HIDE DEF device
      <4> QED
        BY <2>5, <3>2, <4>1, <4>2 DEF ValidTopology
    <3>4. topology = Normalized(<<device>>)
      BY <2>3, <2>5, <3>3 DEF DefaultTopology
    <3>5. topology[1] = NormalizeDevice(device)
      BY <3>4 DEF Normalized
    <3>6. ForName(profile) = profile
      BY <2>1 DEF ForName, ProfileNames, DescriptionPaths, Unset
    <3>7. NormalizeDevice(device).location =
            <<[host |-> device.host, port |-> device.httpPort,
               path |-> DescriptionPaths[profile]]>>
      BY <3>6 DEF NormalizeDevice
    <3> HIDE DEF device, url
    <3> QED
      BY <2>2, <3>2, <3>5, <3>7
  <2> QED
    BY <2>2, <2>3, <2>4, <2>5
<1>3. SimInv /\ [Next]_vars =>
        (client'.location # client.location => Announced(client'.location[1]))
  <2> SUFFICES ASSUME SimInv, [Next]_vars, client'.location # client.location
               PROVE  Announced(client'.location[1])
    OBVIOUS
  <2> HIDE DEF Announced
  <2>1. client'.location[1] = DeviceDescriptionURL(Cfg)
    BY <1>1
  <2> QED
    BY <1>1, <1>2, <2>1
<1>4. SimInv /\ [Next]_vars =>
        [client'.location # client.location =>
           LET location == client'.location[1]
           IN  /\ http = "open" /\ rtsp = "open"
               /\ location.port = EffectivePublicHTTPPort(Cfg)
               /\ Route(Cfg, location.path) = "description"
               /\ Cfg.topology = <<>> /\ Cfg.tuners >= 0 /\ Cfg.publicHost # Unset =>
                    topology[1].location = <<location>>]_vars
  BY <1>3
<1> QED
  BY <1>4, SimulatorInvariant, PTL DEF Spec, AnnouncedIsServed
=============================================================================
