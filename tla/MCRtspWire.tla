---------------------------- MODULE MCRtspWire ----------------------------
(* A small instance of RtspWire for TLC.                                   *)
EXTENDS RtspWire, TLC

Ask(method, session, transport, body) ==
  [kind |-> "request", method |-> method, session |-> session,
   transport |-> transport, body |-> body]
Frame(n) == [kind |-> "frame", body |-> n]

\* A stream started twice, paused and torn down, with frames and bodies between.
Streaming ==
  <<Ask("DESCRIBE", "none", "none", 0), Ask("SETUP", "none", "tcp", 0), Frame(2),
    Ask("PLAY", "mine", "none", 1), Frame(1), Ask("PLAY", "mine", "none", 0),
    Ask("PAUSE", "mine", "none", 0), Ask("TEARDOWN", "mine", "none", 0)>>

\* Requests in a wrong order or of a wrong kind.
Confused ==
  <<Ask("OPTIONS", "none", "none", 0), Ask("SETUP", "none", "tcp", 2),
    Ask("DESCRIBE", "none", "none", 1), Ask("SETUP", "none", "bad", 0),
    Ask("PLAY", "none", "none", 0), Ask("TEARDOWN", "none", "none", 0),
    Ask("GET_PARAMETER", "mine", "none", 1),
    Ask("TEARDOWN", "mine", "none", 0), Ask("PLAY", "mine", "none", 0),
    Ask("ANNOUNCE", "none", "none", 0)>>

\* Two sessions, one after the other, the second left playing.
Restarting ==
  <<Ask("SETUP", "none", "tcp", 0), Ask("DESCRIBE", "none", "none", 0),
    Ask("SETUP", "none", "tcp", 0), Ask("PLAY", "mine", "none", 0),
    Ask("TEARDOWN", "mine", "none", 0), Frame(1), Ask("SETUP", "none", "tcp", 1),
    Ask("PLAY", "mine", "none", 0), Ask("OPTIONS", "none", "none", 0)>>

MCScripts == {Streaming, Confused, Restarting}
=============================================================================
