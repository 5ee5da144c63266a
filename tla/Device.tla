------------------------------ MODULE Device ------------------------------
(***************************************************************************)
(* How a simulator describes itself: the configuration main.go makes of    *)
(* environment and flags (cmd/satip-lab, internal/config), the profiles of *)
(* internal/vendorprofile, the topology document of internal/topology, and *)
(* the HTTP routes of internal/httpserver that its URLs must reach.        *)
(***************************************************************************)
EXTENDS Integers, Sequences

Unset == ""      \* an environment variable or a flag not given

\* The profiles and the paths their device metadata names.
DescriptionPaths ==
  [generic   |-> "/desc.xml", spec |-> "/desc.xml", minisatip |-> "/desc.xml",
   tvheadend |-> "/satip_server/desc.xml", octopus |-> "/octoserve/octonet.xml"]
M3UPaths ==
  [generic   |-> "/channels.m3u", spec |-> "/channels.m3u", minisatip |-> "/channels.m3u",
   tvheadend |-> "/channellist.m3u", octopus |-> "/channels.m3u"]
ProfileNames == DOMAIN DescriptionPaths

\* vendorprofile.ForName: generic for nothing, spec for an unknown name.
ForName(name) == IF name = Unset THEN "generic"
                 ELSE IF name \in ProfileNames THEN name ELSE "spec"

----------------------------------------------------------------------------
(* Configuration.                                                          *)

FirstSet(a, b) == IF a # Unset THEN a ELSE b

\* envProfile and main: a --vendor-profile beats SATIP_LAB_PROFILE, not --profile.
ActiveProfile(start) ==
  LET fromEnvironment == FirstSet(start.profileVar, FirstSet(start.vendorVar, "generic"))
  IN  FirstSet(start.profileFlag, FirstSet(start.vendorFlag, fromEnvironment))

\* Program: the literal in main leaves TopologyPath at "".  Embedded: as given.
Config(start) ==
  [profile     |-> IF start.embedded THEN FirstSet(start.profileFlag, start.vendorFlag)
                                     ELSE ActiveProfile(start),
   topology    |-> IF start.embedded THEN start.topology ELSE <<>>,
   catalog     |-> start.catalog,
   publicHost  |-> start.publicHost,
   httpPort    |-> start.httpPort,
   publicPort  |-> start.publicPort,
   rtspPort    |-> start.rtspPort,
   publicRTSP  |-> start.publicRTSP,
   tuners      |-> start.tuners,
   ssdp        |-> start.ssdp]

CompatibilityProfile(cfg) == ForName(cfg.profile)

EffectivePublicHTTPPort(cfg) == IF cfg.publicPort > 0 THEN cfg.publicPort ELSE cfg.httpPort
EffectivePublicRTSPPort(cfg) == IF cfg.publicRTSP > 0 THEN cfg.publicRTSP ELSE cfg.rtspPort

DeviceDescriptionURL(cfg) ==
  [host |-> cfg.publicHost,
   port |-> EffectivePublicHTTPPort(cfg),
   path |-> DescriptionPaths[CompatibilityProfile(cfg)]]

----------------------------------------------------------------------------
(* HTTP routes: Handler registers the profile's paths besides the fixed    *)
(* ones; "/" catches everything else with the status page.                 *)

Route(cfg, path) ==
  CASE path \in {"/desc.xml", DescriptionPaths[CompatibilityProfile(cfg)]} -> "description"
    [] path \in {"/channels.m3u", M3UPaths[CompatibilityProfile(cfg)]}     -> "m3u"
    [] path = "/epg/xmltv.xml" -> "xmltv"
    [] path = "/api/topology"  -> "topology"
    [] OTHER -> "status page"

----------------------------------------------------------------------------
(* Topology documents.                                                     *)

\* NormalizeAndValidate: location is filled in unless the fixture gives one.
NormalizeDevice(device) ==
  LET profile == ForName(device.profile)
      path    == DescriptionPaths[profile]
  IN  [device EXCEPT
         !.profile  = profile,
         !.location = IF @ # <<>> THEN @
                      ELSE <<[host |-> device.host, port |-> device.httpPort, path |-> path]>>]

ValidTopology(devices) ==
  /\ devices # <<>>
  /\ \A i \in DOMAIN devices :
       /\ devices[i].id # Unset
       /\ devices[i].profile \in ProfileNames \cup {Unset}
       /\ devices[i].host # Unset
       /\ devices[i].httpPort > 0
       /\ devices[i].rtspPort > 0
       /\ devices[i].tuners > 0
       /\ \A j \in 1..(i - 1) : devices[j].id # devices[i].id

Normalized(devices) == [i \in DOMAIN devices |-> NormalizeDevice(devices[i])]

OrDefault(number, default) == IF number = 0 THEN default ELSE number

\* topologyDocument: one device that is this server, with a default for what is not
\* configured.  The error of a document that is not valid is dropped.
DefaultTopology(cfg) ==
  LET device == [id |-> "default", profile |-> CompatibilityProfile(cfg),
                 host     |-> FirstSet(cfg.publicHost, "127.0.0.1"),
                 httpPort |-> OrDefault(EffectivePublicHTTPPort(cfg), 8875),
                 rtspPort |-> OrDefault(EffectivePublicRTSPPort(cfg), 554),
                 tuners   |-> OrDefault(cfg.tuners, 2), location |-> <<>>]
  IN  IF ValidTopology(<<device>>) THEN Normalized(<<device>>) ELSE <<device>>
=============================================================================
