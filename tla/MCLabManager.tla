--------------------------- MODULE MCLabManager ---------------------------
(* Small instances of LabManager for TLC.                                  *)
EXTENDS LabStatus, TLC

CONSTANTS s1, s2, s3, s4

SessionSymmetry == Permutations(SessionIDs)

MCServices    == {"v1", "v2", "v3"}
MCMuxes       == {"m1", "m2"}
MCMuxOf       == ("v1" :> "m1") @@ ("v2" :> "m1") @@ ("v3" :> "m2")
PairServices  == {"v1", "v2"}
PairMuxOf     == ("v1" :> "m1") @@ ("v2" :> "m1")
WideServices  == {"v1", "v2", "v3"}
WideMuxes     == {"m1", "m2", "m3"}
WideMuxOf     == ("v1" :> "m1") @@ ("v2" :> "m2") @@ ("v3" :> "m3")
OneService    == {"v1"}
OneMux        == {"m1"}
OneMuxOf      == ("v1" :> "m1")
NoPIDs        == [svc \in MCServices |-> {}]
PairNoPIDs    == [svc \in PairServices |-> {}]
OneNoPIDs     == [svc \in OneService |-> {}]

Raw(kind)     == [kind |-> kind, pids |-> {}]
RawList(pids) == [kind |-> "list", pids |-> pids]
DefaultQuery  == {Raw("absent")}
ReaderQuery   == {Raw("absent"), Raw("bad")}

\* One PLAY query for each way a filter can change, and one that is refused.
ReaderPIDQueries ==
  {[pids |-> Raw("all"), addpids |-> RawList({0}), delpids |-> Raw("absent")],
   [pids |-> Raw("absent"), addpids |-> RawList({0}), delpids |-> Raw("empty")],
   [pids |-> Raw("absent"), addpids |-> Raw("all"), delpids |-> Raw("absent")],
   [pids |-> Raw("absent"), addpids |-> Raw("absent"), delpids |-> RawList({0})]}

Request(name, svc, mux) ==
  [name |-> name, service |-> svc, mux |-> mux, duration |-> 0]
Global(name) == Request(name, NoTarget, NoTarget)

\* Admission: every scenario that refuses a SETUP, aimed and not.
AdmissionRequests ==
  {Global("normal"), Global("tuner_busy"), Global("tuner_wedged"), Global("no_signal"),
   Request("no_signal", NoTarget, "m1"), Request("tuner_busy", "v1", NoTarget)}

\* RF: two faults that each hit one of two services sharing a mux.
FrontendRequests ==
  {Request("lock_loss", "v1", NoTarget), Request("slow_lock", "v2", NoTarget)}

At(t, r) == [at |-> t, name |-> r.name, service |-> r.service,
             mux |-> r.mux, duration |-> r.duration]
LossAndRecovery == <<At(0, Request("lock_loss", NoTarget, "m1")),
                     At(1, Global("signal_recovery")),
                     At(2, Request("signal_degraded", "v1", NoTarget))>>
LossThenNormal  == <<At(0, Request("lock_loss", "v1", NoTarget)), At(1, Global("normal"))>>
NotIncreasing   == <<At(0, Global("normal")), At(0, Global("lock_loss"))>>
FrontendTimelines == {LossAndRecovery, NotIncreasing}
ReaderRequests    == {Request("lock_loss", "v1", NoTarget)}
ReaderTimelines   == {LossThenNormal}
=============================================================================
