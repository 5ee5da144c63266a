----------------------------- MODULE LabStatus -----------------------------
(***************************************************************************)
(* What a status of the lab says: the frontend locks of GET /api/status    *)
(* (internal/httpserver/server.go) and the RTCP APP report each sender     *)
(* builds from a status of its own (internal/rtsp/server.go).  Both are    *)
(* functions of one snapshot, so they are stated on the state itself.      *)
(***************************************************************************)
EXTENDS LabManager

\* hardwareStatus: the tuners frontend_locks counts.
FrontendLocks == {i \in TunerIDs : tuners[i].frontend.state \in {"locked", "degraded"}}

\* SignalStrength and twice the SNRDB of each frontend (TunerFrontend).
Strength(state) == CASE state \in {"idle", "lost"} -> 0
                     [] state = "degraded"   -> 42
                     [] state = "tuning"     -> 55
                     [] state = "recovering" -> 65
                     [] state = "locked"     -> 88
TwiceSNR(state) == CASE state \in {"idle", "lost"} -> 0
                     [] state = "degraded"   -> 13
                     [] state = "tuning"     -> 16
                     [] state = "recovering" -> 19
                     [] state = "locked"     -> 27

RtcpLock(state) == IF state \in {"locked", "degraded", "recovering"} THEN 1 ELSE 0
RtcpQuality(state) ==
  LET quality == (TwiceSNR(state) + 1) \div 2
  IN  IF RtcpLock(state) = 0 THEN 0
      ELSE IF quality < 1 THEN 1 ELSE IF quality > 15 THEN 15 ELSE quality

Rtcp_FirstTuner(id) ==      \* fault: the report is that of the first tuner
  LET state == tuners[1].frontend.state
  IN  [tuner |-> 1, level |-> Strength(state), lock |-> RtcpLock(state),
       quality |-> RtcpQuality(state)]

\* rtcpStatusForSession.
Rtcp(id) ==
  LET state == tuners[sessions[id].tunerID].frontend.state
  IN  [tuner |-> sessions[id].tunerID, level |-> Strength(state), lock |-> RtcpLock(state),
       quality |-> RtcpQuality(state)]

----------------------------------------------------------------------------
(* Properties.                                                             *)

\* What agent_context.go tells a client to expect of lock_loss, signal_degraded,
\* slow_lock and signal_recovery is what RTCP reports to every session of a mux
\* as soon as the scenario applies to one of them, whoever else shares it, and
\* frontend_locks of GET /api/status counts the tuner accordingly (hardwareStatus).
RtcpShowsFault ==
  \A id, hit \in Live :
    LET scn     == mode.scenario
        report  == Rtcp(id)
        counted == sessions[id].tunerID \in FrontendLocks
    IN  /\ MuxOf[sessions[id].service] = MuxOf[sessions[hit].service]
        /\ AppliesTo(scn, sessions[hit].service)
        => CASE scn.name = "lock_loss" -> /\ report.lock = 0 /\ report.level = 0
                                          /\ report.quality = 0 /\ ~counted
             [] scn.name = "signal_degraded" -> report.lock = 1 /\ report.level = 42 /\ counted
             [] scn.name = "slow_lock"       -> report.lock = 0 /\ ~counted
             [] scn.name = "signal_recovery" -> report.lock = 1
             [] OTHER                        -> TRUE
=============================================================================
