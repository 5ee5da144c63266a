------------------------------ MODULE Catalog ------------------------------
(***************************************************************************)
(* The channel catalog: internal/channels (loader.go, channel.go,          *)
(* catalog.go) and internal/lab/catalog.go.  A YAML file becomes channels, *)
(* channels become the lab's muxes and services, these become the M3U list *)
(* whose links a client tunes, and a tuning query finds a service again.   *)
(*                                                                         *)
(* A text is a word with what the loader normalises: spaces around it and  *)
(* upper case.  Name, group and the like are only present or missing.      *)
(***************************************************************************)
EXTENDS Integers, Sequences

Written(word)   == [word |-> word, padded |-> FALSE, upper |-> FALSE]
TrimSpace(text) == [text EXCEPT !.padded = FALSE]
ToLower(text)   == [text EXCEPT !.upper = FALSE]
Blank           == Written("")

Members(s) == {s[i] : i \in DOMAIN s}

----------------------------------------------------------------------------
(* LoadCatalogFile.                                                        *)

\* One entry as catalogFile.channels stores it.  The padded and the upper-case
\* spelling are the same once normalised, which is what duplicates are about.
Normalised(entry) ==
  [entry EXCEPT !.id = TrimSpace(@), !.tvgID = TrimSpace(@),
                !.pol = ToLower(TrimSpace(@)), !.msys = ToLower(TrimSpace(@))]

\* validateChannel finds no problem.  named: a name and a group are there.
ValidChannel(ch) ==
  /\ ch.id # Blank /\ ch.tvgID # Blank /\ ch.named
  /\ ch.number > 0 /\ ch.src > 0 /\ ch.freq > 0 /\ ch.sr > 0
  /\ ch.pol \in {Written("h"), Written("v")}
  /\ ch.msys \in {Written("dvbs"), Written("dvbs2")}
  /\ Len(ch.pids) >= 5 /\ ch.pids[1] = 0 /\ ch.pids[2] = 17
  /\ \A i \in DOMAIN ch.pids : ch.pids[i] \in 0..8191

\* The entries of a file, or <<>> for a file that is refused.
LoadCatalog(entries) ==
  LET list == [i \in DOMAIN entries |-> Normalised(entries[i])]
  IN  IF /\ \A i \in DOMAIN list : ValidChannel(list[i])
         /\ \A i, j \in DOMAIN list : i # j =>
              /\ list[i].id # list[j].id
              /\ list[i].number # list[j].number
              /\ list[i].tvgID # list[j].tvgID
        THEN list ELSE <<>>

----------------------------------------------------------------------------
(* The lab's catalog.                                                      *)

\* muxID: the tuning parameters, letters in lower case.
MuxID(ch) == [src |-> ch.src, freq |-> ch.freq, pol |-> ToLower(ch.pol),
              sr |-> ch.sr, msys |-> ToLower(ch.msys)]

PidAt(pids, i) == IF i \in DOMAIN pids THEN pids[i] ELSE 0

ServiceOf(ch) ==
  [id |-> ch.id, number |-> ch.number, tvgID |-> ch.tvgID, mux |-> MuxID(ch),
   pmt |-> PidAt(ch.pids, 3), video |-> PidAt(ch.pids, 4), audio |-> PidAt(ch.pids, 5)]

\* A mux is its ID here: the stored parameters differ from it in case at most.
CatalogFromChannels(list) == [i \in DOMAIN list |-> ServiceOf(list[i])]
CatalogMuxes(services) == {services[i].mux : i \in DOMAIN services}

\* What TuningQuery writes into the link of a service (Service.Channel).
TuningQuery(service) ==
  [mux |-> service.mux, pids |-> <<0, 17, service.pmt, service.video, service.audio>>]

ServiceMatchesPIDs_Any(service, pids) ==    \* fault: one common PID is enough
  {service.pmt, service.video, service.audio} \cap Members(pids) # {}
\* An empty list stands for no pids or pids=all.
ServiceMatchesPIDs(service, pids) ==
  \/ pids = <<>>
  \/ {service.pmt, service.video, service.audio} \subseteq Members(pids)

NoService == [id |-> Blank]

\* The first service in catalog order: at most one mux has the asked parameters.
MatchService(services, query) ==
  LET found == {i \in DOMAIN services : /\ services[i].mux = query.mux
                                        /\ ServiceMatchesPIDs(services[i], query.pids)}
  IN  IF found = {} THEN NoService
      ELSE services[CHOOSE i \in found : \A j \in found : i <= j]

\* BuildM3U over Catalog.Channels.
BuildM3U(services) ==
  [i \in DOMAIN services |->
     [number |-> services[i].number, tvgID |-> services[i].tvgID,
      query |-> TuningQuery(services[i])]]
=============================================================================
