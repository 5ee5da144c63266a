---------------------------- MODULE MCSimulator ----------------------------
(* Small instances of Simulator for TLC.                                   *)
EXTENDS Simulator

Entry(id, number, freq, pids) ==
  [id |-> Written(id), number |-> number, tvgID |-> Written(id), named |-> TRUE,
   src |-> 1, freq |-> freq, pol |-> Written("h"), sr |-> 22000,
   msys |-> Written("dvbs2"), pids |-> pids]

\* Two of the built-in channels on one mux, two of other densities elsewhere.
MCDachChannels ==
  <<Entry("das-erste-hd", 1, 11494, <<0, 17, 5100, 5101, 5102>>),
    Entry("zdf-hd", 2, 11362, <<0, 17, 6100, 6110, 6120>>),
    Entry("arte-hd", 3, 11494, <<0, 17, 5200, 5201, 5202>>)>>

Spaced(text) == [text EXCEPT !.padded = TRUE]
Shouted(text) == [text EXCEPT !.upper = TRUE]

First  == Entry("one", 1, 10000, <<0, 17, 100, 101, 101>>)
Second == Entry("two", 2, 10000, <<0, 17, 100, 101, 102>>)
Third  == Entry("three", 3, 10000, <<0, 17, 100, 201, 202, 203>>)

Catalogs ==
  {<<>>,
   <<First, Second, [Third EXCEPT !.pol = Shouted(Spaced(@))]>>,
   <<Second, First>>,
   <<[First EXCEPT !.pol = Written("v")], [Second EXCEPT !.id = Spaced(@)]>>,
   \* refused: an id used twice but for spaces, a PID out of range, too few PIDs,
   \* a number used twice, an unknown delivery system
   <<First, [Second EXCEPT !.id = Spaced(Written("one"))]>>,
   <<[First EXCEPT !.pids[4] = 8192]>>,
   <<[First EXCEPT !.pids = <<0, 17, 100>>]>>,
   <<First, [Second EXCEPT !.number = 1]>>,
   <<[First EXCEPT !.msys = Written("dvbt")]>>}

Device1(id) == [id |-> id, profile |-> "tvheadend", host |-> "192.0.2.1",
                httpPort |-> 18875, rtspPort |-> 18554, tuners |-> 2, location |-> <<>>]
Fixture   == <<Device1("lab-a"),
               [Device1("lab-b") EXCEPT !.location =
                  <<[host |-> "192.0.2.2", port |-> 80, path |-> "/old.xml"]>>]>>
\* Refused: an id used twice, no host, no RTSP port.
BadFixtures == {<<Device1("lab-a"), Device1("lab-a")>>,
                <<[Device1("lab-a") EXCEPT !.host = Unset]>>,
                <<Device1("lab-a"), [Device1("lab-b") EXCEPT !.rtspPort = 0]>>}

Plain ==
  [embedded |-> FALSE, profileVar |-> Unset, vendorVar |-> Unset, profileFlag |-> Unset,
   vendorFlag |-> Unset, catalog |-> <<>>, topology |-> <<>>,
   publicHost |-> "127.0.0.1", httpPort |-> 8875, publicPort |-> 0, rtspPort |-> 554,
   publicRTSP |-> 0, tuners |-> 2, ssdp |-> TRUE, recorded |-> FALSE, faults |-> {}]
Quiet == [Plain EXCEPT !.ssdp = FALSE]

Gap(service, mux, minutes) ==
  [name |-> "epg_gap", service |-> service, mux |-> mux, duration |-> minutes]
MCFaults ==
  {[NormalScenario EXCEPT !.name = "bad_m3u"],
   [NormalScenario EXCEPT !.name = "epg_mismatch"],
   [NormalScenario EXCEPT !.name = "epg_stale"],
   Gap(Written("zdf-hd"), AnyMux, 45),
   Gap(AnyService, MuxID(MCDachChannels[1]), 0),
   Gap(AnyService, AnyMux, 90)}

\* Every catalog under every fault, without discovery; with it, every way to choose
\* a profile and the rest one at a time.
MCStarts ==
  {[Quiet EXCEPT !.catalog = catalog, !.faults = {NormalScenario, fault}] :
     catalog \in Catalogs, fault \in MCFaults}
  \cup {[Quiet EXCEPT !.recorded = TRUE, !.faults = {NormalScenario, fault}] :
          fault \in MCFaults}
  \cup {Plain,
        [Plain EXCEPT !.profileVar = "tvheadend"],
        [Plain EXCEPT !.profileVar = "unheard-of", !.tuners = -1],
        [Plain EXCEPT !.profileVar = "tvheadend", !.vendorFlag = "octopus",
                      !.publicHost = Unset, !.rtspPort = 0],
        [Plain EXCEPT !.vendorVar = "minisatip", !.profileFlag = "octopus",
                      !.publicPort = 80, !.tuners = 0]}
  \cup {[Plain EXCEPT !.embedded = TRUE, !.topology = devices] :
          devices \in {<<>>, Fixture} \cup BadFixtures}

\* The program started with a topology fixture, discovery switched off.
FixtureStarts == {[Quiet EXCEPT !.topology = Fixture],
                  [Quiet EXCEPT !.embedded = TRUE, !.topology = Fixture]}
=============================================================================
