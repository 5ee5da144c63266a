----------------------------- MODULE Simulator -----------------------------
(***************************************************************************)
(* The life of one simulator: internal/simulator assembles the servers and *)
(* starts and stops them one after the other, internal/ssdp announces      *)
(* them from two goroutines, and a client finds the device, reads its      *)
(* description, its channel list and its guide, and tunes a link.          *)
(*                                                                         *)
(* ssdp.Server has no lock: Stop writes stopCh and conn while both loops   *)
(* read them.  Every read and write of a field is a step here, so that the *)
(* loops meet every mixture of old and new.  A method called on a nil      *)
(* *net.UDPConn panics and ends the process.                               *)
(***************************************************************************)
EXTENDS Device, Guide

CONSTANTS
  Starts,        \* environment, flags and files the simulator may be started with;
                 \* with each, the faults an operator may set while it runs
  DachChannels,  \* the built-in channels, as entries of a file
  Failures       \* steps of starting that may fail for reasons outside, one at a
                 \* time: "http", "rtsp", "ssdp" (the port is taken), "group" (no
                 \* multicast), "nothing"

\* The entries New takes: the file's or the built-in ones.
Source(catalog) == IF catalog = <<>> THEN DachChannels ELSE catalog

\* Numbers are integers and a catalog is a sequence.  The announced HTTP port is a
\* fixed one: 0 would let the system choose, and no document could name it; on a
\* negative RTSP port nothing listens.  The made-up
\* id of epg_mismatch, of a domain reserved to be nobody's, is no channel's tvg-id.
ASSUME StartsAssumption ==
  \A s \in Starts :
    /\ {s.httpPort, s.publicPort, s.rtspPort, s.publicRTSP, s.tuners} \subseteq Int
    /\ EffectivePublicHTTPPort(Config(s)) > 0 /\ s.rtspPort >= 0
    /\ \A fault \in s.faults : fault.duration \in Int
    /\ LET entries == Source(s.catalog)
       IN  /\ Len(entries) \in Nat /\ DOMAIN entries = 1..Len(entries)
           /\ \A i \in DOMAIN entries : Normalised(entries[i]).tvgID # MismatchedID

VARIABLES
  start, failing,   \* what this simulator is started with
  main,        \* where the starting and stopping goroutine is
  services,    \* lab.Manager's catalog
  topology,    \* the document behind /api/topology
  http, rtsp,  \* the two TCP listeners: "closed", "open"
  stopCh,      \* ssdp.Server.stopCh: "nil", "open", or "closed" (not yet nil)
  conn,        \* ssdp.Server.conn: whether it is set
  socket,      \* the UDP socket itself: "none", "open", "closed"
  reader,      \* readLoop: its next step
  notifier,    \* notifyLoop: its next step, and in select the channel it waits on
  scenario,    \* the lab's scenario
  search,      \* an M-SEARCH of the client is on its way
  client       \* what the client has learned

config   == <<start, failing>>
servers  == <<services, topology, http, rtsp>>
ssdp     == <<stopCh, conn, socket>>
loops    == <<reader, notifier>>
outside  == <<scenario, search, client>>
vars == <<config, main, servers, ssdp, loops, outside>>

Cfg == Config(start)

NormalScenario == [name |-> "normal", service |-> AnyService, mux |-> AnyMux, duration |-> 0]
NewClient == [location |-> <<>>, page |-> "", list |-> <<>>, guide |-> <<>>,
              tuned |-> <<>>, topology |-> <<>>]

Init ==
  /\ start \in Starts
  /\ failing \in IF start.ssdp THEN Failures ELSE Failures \ {"ssdp", "group"}
  /\ main = "new"
  /\ services = <<>> /\ topology = <<>>
  /\ http = "closed" /\ rtsp = "closed"
  /\ stopCh = "nil" /\ conn = FALSE /\ socket = "none"
  /\ reader = "none" /\ notifier = "none"
  /\ scenario = NormalScenario /\ search = FALSE /\ client = NewClient

----------------------------------------------------------------------------
(* main, simulator.New, Start and Stop.                                    *)

Goto(place) == main' = place

\* The end of the process closes what is open and takes the loops with it.
Die(how) ==
  /\ main' = how
  /\ http' = "closed" /\ rtsp' = "closed"
  /\ socket' = IF socket = "none" THEN "none" ELSE "closed"
  /\ reader' = "none" /\ notifier' = "none"
  /\ UNCHANGED <<config, services, topology, stopCh, conn, outside>>

\* New: a catalog or a topology file that does not load ends it before any socket.
New ==
  /\ main = "new"
  /\ LET list == LoadCatalog(Source(Cfg.catalog))
     IN  IF list = <<>> \/ (Cfg.topology # <<>> /\ ~ValidTopology(Cfg.topology))
           THEN Die("exited")
           ELSE /\ services' = CatalogFromChannels(list)
                /\ topology' = IF Cfg.topology = <<>> THEN DefaultTopology(Cfg)
                               ELSE Normalized(Cfg.topology)
                /\ Goto("start http")
                /\ UNCHANGED <<config, http, rtsp, ssdp, loops, outside>>

\* Start: a TCP port in use ends the program.  The host of an embedded simulator gets
\* the error and lives on; what was opened before stays open until it calls Stop.
StartHTTP ==
  /\ main = "start http"
  /\ IF failing = "http" THEN Die("exited")
       ELSE /\ http' = "open"
            /\ Goto("start rtsp")
            /\ UNCHANGED <<config, services, topology, rtsp, ssdp, loops, outside>>

StartRTSP ==
  /\ main = "start rtsp"
  /\ IF failing = "rtsp"
       THEN \/ ~start.embedded /\ Die("exited")
            \/ /\ start.embedded
               /\ Goto("failed")
               /\ UNCHANGED <<config, servers, ssdp, loops, outside>>
       ELSE /\ rtsp' = "open"
            /\ Goto(IF Cfg.ssdp THEN "start ssdp" ELSE "running")
            /\ UNCHANGED <<config, services, topology, http, ssdp, loops, outside>>

\* ssdp.Start: an error is only a warning.  Without the multicast group the socket
\* stays, bound and set, but nobody reads it.
StartSSDP ==
  /\ main = "start ssdp"
  /\ Goto("running")
  /\ IF failing = "ssdp"
       THEN UNCHANGED <<ssdp, loops>>
       ELSE /\ conn' = TRUE /\ socket' = "open"
            /\ IF failing = "group"
                 THEN UNCHANGED <<stopCh, loops>>
                 ELSE /\ stopCh' = "open"
                      /\ reader' = "check"
                      /\ notifier' = "enter"
  /\ UNCHANGED <<config, servers, outside>>

Interrupt_RTSPFirst ==           \* fault: Stop closes the RTSP server before SSDP
  /\ main = "running"
  /\ rtsp' = "closed"
  /\ Goto("stop ssdp")
  /\ UNCHANGED <<config, services, topology, http, ssdp, loops, outside>>
\* A signal, or the caller of an embedded simulator, started or not.
Interrupt ==
  /\ main \in {"running", "failed"}
  /\ Goto("stop ssdp")
  /\ UNCHANGED <<config, servers, ssdp, loops, outside>>

\* ssdp.Stop, a write at a time.
CloseStopCh ==
  /\ main = "stop ssdp"
  /\ stopCh' = IF stopCh = "open" THEN "closed" ELSE stopCh
  /\ Goto("clear stopCh")
  /\ UNCHANGED <<config, servers, conn, socket, loops, outside>>
ClearStopCh ==
  /\ main = "clear stopCh"
  /\ stopCh' = "nil"
  /\ Goto("close conn")
  /\ UNCHANGED <<config, servers, conn, socket, loops, outside>>
CloseConn ==
  /\ main = "close conn"
  /\ socket' = IF conn THEN "closed" ELSE socket
  /\ Goto("clear conn")
  /\ UNCHANGED <<config, servers, stopCh, conn, loops, outside>>
ClearConn ==
  /\ main = "clear conn"
  /\ conn' = FALSE
  /\ Goto("stop rtsp")
  /\ UNCHANGED <<config, servers, stopCh, socket, loops, outside>>

StopRTSP ==
  /\ main = "stop rtsp"
  /\ rtsp' = "closed"
  /\ Goto("stop http")
  /\ UNCHANGED <<config, services, topology, http, ssdp, loops, outside>>
StopHTTP ==
  /\ main = "stop http"
  /\ http' = "closed"
  /\ Goto("stopped")
  /\ UNCHANGED <<config, services, topology, rtsp, ssdp, loops, outside>>

\* The program ends after Stop; the host of an embedded simulator lives on.
Exit == main = "stopped" /\ ~start.embedded /\ Die("exited")

Stopping == main \in {"stop ssdp", "clear stopCh", "close conn", "clear conn",
                      "stop rtsp", "stop http", "stopped"}

----------------------------------------------------------------------------
(* The loops of ssdp.Server.                                               *)

\* One advertisement reaches the client: a search response or a NOTIFY.
Advertise == client' = [client EXCEPT !.location = <<DeviceDescriptionURL(Cfg)>>]

ReadGoto(place) == reader' = place /\ UNCHANGED <<config, main, servers, ssdp, notifier,
                                                  scenario, client>>

ReadCheck ==       \* if s.stopCh == nil { return }
  /\ reader = "check"
  /\ ReadGoto(IF stopCh = "nil" THEN "gone" ELSE "deadline")
  /\ UNCHANGED search
ReadDeadline ==    \* s.conn.SetReadDeadline
  /\ reader = "deadline"
  /\ IF conn THEN ReadGoto("read") /\ UNCHANGED search ELSE Die("crashed")
ReadEnter ==       \* s.conn.ReadFromUDP, which holds on to the socket
  /\ reader = "read"
  /\ IF conn THEN ReadGoto("reading") /\ UNCHANGED search ELSE Die("crashed")
ReadSearch ==      \* a datagram that isSatIPSearch accepts
  /\ reader = "reading" /\ socket = "open" /\ search
  /\ search' = FALSE
  /\ ReadGoto("reply")
ReadTimeout_Returns ==    \* fault: a deadline counts as any other error
  /\ reader = "reading" /\ socket = "open"
  /\ ReadGoto("gone")
  /\ UNCHANGED search
ReadTimeout ==     \* the deadline, then the select on the stop channel
  /\ reader = "reading" /\ socket = "open"
  /\ ReadGoto(IF stopCh = "closed" THEN "gone" ELSE "check")
  /\ UNCHANGED search
ReadClosed ==      \* any other error ends the loop
  /\ reader = "reading" /\ socket = "closed"
  /\ ReadGoto("gone")
  /\ UNCHANGED search
ReadReply ==       \* s.conn.WriteToUDP: nothing is sent on a closed socket
  /\ reader = "reply"
  /\ IF ~conn THEN Die("crashed")
       ELSE /\ reader' = "check"
            /\ IF socket = "open" THEN Advertise ELSE UNCHANGED client
            /\ UNCHANGED <<config, main, servers, ssdp, notifier, scenario, search>>

ReadLoop == ReadCheck \/ ReadDeadline \/ ReadEnter \/ ReadSearch \/ ReadTimeout
              \/ ReadClosed \/ ReadReply

NotifyGoto(place) == notifier' = place /\ UNCHANGED <<config, main, servers, ssdp, reader,
                                                      outside>>

NotifyEnter ==     \* select evaluates s.stopCh once and then waits
  /\ notifier = "enter"
  /\ NotifyGoto(IF stopCh = "nil" THEN "wait nil" ELSE "wait stop")
NotifyStop ==
  /\ notifier = "wait stop" /\ stopCh # "open"      \* it was closed, set to nil or not
  /\ NotifyGoto("gone")
NotifyTick ==
  /\ notifier \in {"wait nil", "wait stop"}
  /\ NotifyGoto("send")
NotifySend ==
  /\ notifier = "send"
  /\ IF ~conn THEN Die("crashed")
       ELSE /\ notifier' = "enter"
            /\ IF socket = "open" THEN Advertise ELSE UNCHANGED client
            /\ UNCHANGED <<config, main, servers, ssdp, reader, scenario, search>>

NotifyLoop == NotifyEnter \/ NotifyStop \/ NotifyTick \/ NotifySend

----------------------------------------------------------------------------
(* The client, and the operator who sets a fault.                          *)

Served == <<config, main, servers, ssdp, loops>>

SetScenario ==
  /\ http = "open"
  /\ \E scn \in start.faults \ {scenario} : scenario' = scn
  /\ UNCHANGED <<Served, search, client>>

Search ==
  /\ client.location = <<>> /\ ~search /\ socket = "open"
  /\ search' = TRUE
  /\ UNCHANGED <<Served, scenario, client>>

Learn(field, value) == client' = [client EXCEPT ![field] = value]

\* An HTTP answer is whatever the route of the path yields.
FetchDescription ==
  /\ client.location # <<>> /\ client.page = ""
  /\ Learn("page",
           IF http # "open" \/ client.location[1].port # EffectivePublicHTTPPort(Cfg)
             THEN "refused" ELSE Route(Cfg, client.location[1].path))
  /\ UNCHANGED <<Served, scenario, search>>

\* The M3U path is in the description and on the console.  handleM3U: under bad_m3u
\* there is no link to follow.
FetchList ==
  /\ http = "open" /\ client.list = <<>>
  /\ Route(Cfg, M3UPaths[CompatibilityProfile(Cfg)]) = "m3u"
  /\ Learn("list", IF scenario.name = "bad_m3u" THEN <<>> ELSE BuildM3U(services))
  /\ UNCHANGED <<Served, scenario, search>>

FetchGuide ==
  /\ http = "open" /\ client.list # <<>> /\ client.guide = <<>>
  /\ Learn("guide", <<[scenario |-> scenario, channels |-> GenerateXMLTV(services, scenario),
                       lastModified |-> LastModified(scenario)]>>)
  /\ UNCHANGED <<Served, scenario, search>>

FetchTopology ==
  /\ http = "open" /\ client.topology = <<>>
  /\ Learn("topology", topology)
  /\ UNCHANGED <<Served, scenario, search>>

\* SETUP and PLAY of link i, once the guide is there to compare the stream with.
Tune ==
  /\ rtsp = "open" /\ client.guide # <<>> /\ client.tuned = <<>>
  /\ \E i \in DOMAIN client.list :
       LET service == MatchService(services, client.list[i].query)
       IN  Learn("tuned", <<[link |-> i, service |-> service, scenario |-> scenario,
                             eit |-> IF service = NoService THEN {}
                                     ELSE EIT(service, scenario, start.recorded)]>>)
  /\ UNCHANGED <<Served, scenario, search>>

----------------------------------------------------------------------------

Main == New \/ StartHTTP \/ StartRTSP \/ StartSSDP \/ CloseStopCh \/ ClearStopCh
          \/ CloseConn \/ ClearConn \/ StopRTSP \/ StopHTTP \/ Exit
Client == Search \/ FetchDescription \/ FetchList \/ FetchGuide \/ FetchTopology \/ Tune

Next == Main \/ Interrupt \/ ReadLoop \/ NotifyLoop \/ SetScenario \/ Client

Spec == Init /\ [][Next]_vars

\* The goroutines run, the read deadline passes, the ticker ticks.
FairSpec == Spec /\ WF_vars(Main) /\ WF_vars(ReadLoop) /\ WF_vars(NotifyLoop)

----------------------------------------------------------------------------
(* Properties.                                                             *)

\* SSDP speaks only while both TCP servers listen, since Start starts it last and
\* Stop stops it first, and what it says is reachable: its LOCATION is a path of
\* the active profile behind which the description is, and the default topology
\* names the same place, unless the configuration leaves the host out, for which it
\* has a default and SSDP has not.
AnnouncedIsServed ==
  [][client'.location # client.location =>
       LET location == client'.location[1]
       IN  /\ http = "open" /\ rtsp = "open"
           /\ location.port = EffectivePublicHTTPPort(Cfg)
           /\ Route(Cfg, location.path) = "description"
           /\ Cfg.topology = <<>> /\ Cfg.tuners >= 0 /\ Cfg.publicHost # Unset =>
                topology[1].location = <<location>>]_vars

\* Whatever file the catalog came from, a link of the list tunes the entry it
\* belongs to, or an earlier one of its mux that asks for no other PIDs.
LinkTunesEntry ==
  client.tuned # <<>> =>
    LET got  == client.tuned[1].service
        link == client.tuned[1].link
        own  == services[link]
    IN  /\ \E i \in 1..link : got = services[i]
        /\ got.mux = own.mux
        /\ got # own => {got.pmt, got.video, got.audio} \subseteq
                          {0, 17, own.pmt, own.video, own.audio}

\* The guide belongs to the list: one channel per entry under its tvg-id, no two
\* alike but for epg_mismatch; its programmes follow one another without a hole
\* up to the end of the day, from the lab clock or, for the services an epg_gap is
\* aimed at, from the first slot that begins after the gap.
GuideMatchesList ==
  client.guide # <<>> =>
    LET guide == client.guide[1]
    IN  /\ DOMAIN guide.channels = DOMAIN client.list
        /\ \A i \in DOMAIN client.list :
             LET entry      == guide.channels[i]
                 programmes == entry.programmes
                 starts     == {p.start : p \in programmes}
                 gap        == IF Gapped(guide.scenario, services[i])
                                 THEN GapMinutes(guide.scenario) ELSE 0
             IN  /\ entry.channel # client.list[i].tvgID => guide.scenario.name = "epg_mismatch"
                 /\ \A j \in DOMAIN client.list \ {i} :
                      guide.channels[j].channel # entry.channel
                 /\ \A p \in programmes : p.start >= gap /\ p.stop \in starts \cup {Day}
                 /\ gap < Day - Density(services[i].id) =>
                      \E p \in programmes : p.start < gap + Density(services[i].id)

\* The two guides agree when fetched under one scenario: a generated stream carries
\* as present and following what XMLTV lists first for its service, and carries no
\* EIT exactly when XMLTV has no programme running at the lab clock.
StreamMatchesGuide ==
  client.tuned # <<>> /\ ~start.recorded =>
    LET tuned == client.tuned[1]
        guide == client.guide[1]
    IN  tuned.scenario = guide.scenario =>
          \A i \in DOMAIN services :
            services[i] = tuned.service =>
              LET programmes == guide.channels[i].programmes
              IN  IF \E p \in programmes : p.start = 0
                    THEN tuned.eit \subseteq programmes /\ tuned.eit # {}
                    ELSE tuned.eit = {}

\* The loops live exactly until Stop: neither of them ends, and neither of them
\* panics on a missing socket, while the simulator runs; once Stop has begun both
\* end, if need be with the process.
LoopsLiveUntilStop ==
  /\ [](main = "running" => "gone" \notin {reader, notifier})
  /\ [](main = "crashed" => stopCh = "nil")
  /\ (Stopping ~> (reader \in {"none", "gone"} /\ notifier \in {"none", "gone"}))

\* docs/api.md:109 of GET /api/topology: "When SATIP_LAB_TOPOLOGY points to a YAML
\* fixture, it returns the configured device identities".
FixtureServed ==
  client.topology # <<>> /\ start.topology # <<>> =>
    {client.topology[i].id : i \in DOMAIN client.topology} =
      {start.topology[i].id : i \in DOMAIN start.topology}
=============================================================================
