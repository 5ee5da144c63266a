------------------------------- MODULE Guide -------------------------------
(***************************************************************************)
(* The programme guide, twice: the XMLTV document of internal/epg/epg.go   *)
(* and the EIT present/following a generated transport stream carries      *)
(* (internal/ts/service.go, internal/ts/source.go), each with its own      *)
(* schedule table and its own treatment of epg_gap.  Times are minutes     *)
(* from the lab clock.                                                     *)
(***************************************************************************)
EXTENDS Catalog

AnyService == Blank      \* a scenario without service_id
\* A scenario without mux_id.
AnyMux     == [src |-> 0, freq |-> 0, pol |-> Blank, sr |-> 0, msys |-> Blank]

\* Scenario.AppliesTo.
Targets(scenario, service) ==
  /\ scenario.service \in {AnyService, service.id}
  /\ scenario.mux \in {AnyMux, service.mux}

Gapped(scenario, service) == scenario.name = "epg_gap" /\ Targets(scenario, service)

----------------------------------------------------------------------------
(* XMLTV.                                                                  *)

Day == 24 * 60

Density(id) ==
  CASE id = Written("zdf-hd")     -> 30
    [] id = Written("arte-hd")    -> 45
    [] id = Written("phoenix-hd") -> 90
    [] id = Written("3sat-hd")    -> 120
    [] OTHER                      -> 60

GapMinutes(scenario) == IF scenario.duration > 0 THEN scenario.duration ELSE 60

MismatchedID == Written("zdf-mismatch.invalid")
XMLTVChannelID(service, scenario) ==
  IF scenario.name = "epg_mismatch" /\ service.id = Written("zdf-hd")
    THEN MismatchedID ELSE service.tvgID

SlotStarts(step) == {t \in {k * step : k \in 0..(Day \div step)} : t < Day}
Earlier(a, b) == IF a < b THEN a ELSE b

\* fault: a slot whose end the gap does not reach is kept
ProgrammesForService_ByStop(service, scenario) ==
  LET step == Density(service.id)
  IN  {[start |-> t, stop |-> Earlier(t + step, Day)] :
         t \in {k \in SlotStarts(step) :
                  ~(Gapped(scenario, service) /\ k + step < GapMinutes(scenario))}}
\* The slots of a day; a gap takes those that begin in it.
ProgrammesForService(service, scenario) ==
  LET step == Density(service.id)
  IN  {[start |-> t, stop |-> Earlier(t + step, Day)] :
         t \in {k \in SlotStarts(step) :
                  ~(Gapped(scenario, service) /\ k < GapMinutes(scenario))}}

GenerateXMLTV(services, scenario) ==
  [i \in DOMAIN services |->
     [channel    |-> XMLTVChannelID(services[i], scenario),
      programmes |-> ProgrammesForService(services[i], scenario)]]

\* Last-Modified, from the lab clock.
LastModified(scenario) == IF scenario.name = "epg_stale" THEN -2 * Day ELSE 0

----------------------------------------------------------------------------
(* EIT.                                                                    *)

DensityForSyntheticService(id) ==
  CASE id = Written("zdf-hd")     -> 30
    [] id = Written("arte-hd")    -> 45
    [] id = Written("phoenix-hd") -> 90
    [] id = Written("3sat-hd")    -> 120
    [] OTHER                      -> 60

PresentFollowing(service) ==
  LET step == DensityForSyntheticService(service.id)
  IN  {[start |-> 0, stop |-> step], [start |-> step, stop |-> 2 * step]}

\* playPayloadForScenario, LoadServicePayloadWithOptions: a file given for all
\* services, one found for this service or a sample is sent as it is; otherwise
\* the stream is generated, without EIT under a gap.
EIT_Untargeted(service, scenario, recorded) ==   \* fault: any gap suppresses it
  IF recorded \/ scenario.name = "epg_gap" THEN {} ELSE PresentFollowing(service)
EIT(service, scenario, recorded) ==
  IF recorded \/ Gapped(scenario, service) THEN {} ELSE PresentFollowing(service)
=============================================================================
