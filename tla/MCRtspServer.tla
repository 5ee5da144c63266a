--------------------------- MODULE MCRtspServer ---------------------------
(* Small instances of RtspServer for TLC.                                  *)
EXTENDS RtspServer, TLC

CONSTANTS c1, c2

ConnSymmetry == Permutations(Conns)

OneService  == {"v1"}
OneMuxOf    == ("v1" :> "m1")
TwoServices == {"v1", "v2"}
TwoMuxOf    == ("v1" :> "m1") @@ ("v2" :> "m2")
=============================================================================
