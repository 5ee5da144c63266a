---------------------------- MODULE LabSessions ----------------------------
(***************************************************************************)
(* What the lab model promises its callers, without tuners, clocks,        *)
(* frontends or timelines: sessions on the same mux share one of           *)
(* TunerCount tuners, sessions on different muxes do not, a SETUP is       *)
(* admitted only when the muxes in use and its own fit, refused for want   *)
(* of a tuner only when there is a service that does not fit or a tuner    *)
(* fault is being simulated, and a refused call leaves every session as it *)
(* was.  LabManager implements it.                                         *)
(***************************************************************************)
EXTENDS Integers, FiniteSets

CONSTANTS SessionIDs, Services, MuxOf, TunerCount

VARIABLES
  live,      \* live sessions: id -> service and state
  blocked,   \* a simulated fault (tuner_busy, tuner_wedged) blocks every SETUP
  answer     \* "ok", "no_tuner" or "other"

vars == <<live, blocked, answer>>

InUse     == {MuxOf[live[id].service] : id \in DOMAIN live}
Fits(svc) == Cardinality(InUse \cup {MuxOf[svc]}) <= TunerCount

Init == /\ live = [id \in {} |-> <<>>]
        /\ blocked = FALSE
        /\ answer = "ok"

(* What each kind of call does to the sessions.                            *)

Admit(id, svc) ==
  /\ id \notin DOMAIN live
  /\ Fits(svc)
  /\ live' = [x \in DOMAIN live \cup {id} |->
                IF x = id THEN [service |-> svc, state |-> "setup"] ELSE live[x]]

Move(id, state) ==
  /\ id \in DOMAIN live
  /\ live' = [live EXCEPT ![id].state = state]

\* TEARDOWN, expiry or reset: the sessions in gone end, the others do not notice.
End(gone) == live' = [id \in DOMAIN live \ gone |-> live[id]]

----------------------------------------------------------------------------
(* The calls.                                                              *)

SetupAdmitted ==
  /\ \E id \in SessionIDs, svc \in Services : Admit(id, svc)
  /\ blocked' = FALSE
  /\ answer' = "ok"

SetupRefusedForTuner ==
  /\ blocked' \in BOOLEAN
  /\ blocked' \/ \E svc \in Services : ~Fits(svc)
  /\ answer' = "no_tuner"
  /\ UNCHANGED live

\* Any other refusal, and every call that does not touch session state.
Inert ==
  /\ blocked' \in BOOLEAN
  /\ answer' \in {"ok", "other"}
  /\ UNCHANGED live

Moved ==
  /\ \E id \in SessionIDs, state \in {"playing", "paused"} : Move(id, state)
  /\ blocked' = blocked
  /\ answer' = "ok"

\* A reset may lift the block; nothing else that ends sessions may.
Ended ==
  /\ \E gone \in SUBSET DOMAIN live :
       /\ End(gone)
       /\ blocked' = blocked \/ (blocked' = FALSE /\ gone = DOMAIN live)
  /\ answer' = "ok"

Next == SetupAdmitted \/ SetupRefusedForTuner \/ Inert \/ Moved \/ Ended

Spec == Init /\ [][Next]_vars
=============================================================================
