---------------------------- MODULE MCRtpStream ----------------------------
(* Small instances of RtpStream for TLC.                                   *)
EXTENDS RtpStream

MCPIDs == {"v", "eit"}

NoStamp == [kind \in Kind |-> Unset]
Plain(pid, cc)         == [pid |-> pid, hasPayload |-> TRUE, cc |-> cc, stamp |-> NoStamp]
Stamped(pid, cc, r, p) == [Plain(pid, cc) EXCEPT !.stamp = [R |-> r, D |-> Unset, P |-> p]]
Filler(pid, cc)        == [Plain(pid, cc) EXCEPT !.hasPayload = FALSE]

\* What SyntheticServiceTransportWithOptions builds: EIT before the media, no clocks.
Synthetic == <<Plain("eit", 0), Plain("eit", 1), Plain("v", 0)>>

\* A file whose clocks wrap inside it, with an adaptation-only packet.
ClockedFile == <<Filler("v", 2), Stamped("v", 3, 7, 0), Stamped("v", 0, 0, 1)>>

\* A file without PCR: its PTS are the clock.
AudioFile == <<Stamped("v", 0, Unset, 6), Plain("v", 1), Stamped("v", 2, Unset, 7)>>

MCBases == {Synthetic, ClockedFile, AudioFile}
=============================================================================
