--------------------------- MODULE HaltProtocolMC ---------------------------
(* HaltProtocol with a loop, a server and two installers that may overlap;   *)
(* two starts, of either writer or twice of the same.                        *)
EXTENDS HaltProtocol, TLC

CONSTANTS l1, s1, i1, i2

OneLoop == {l1}
OneServer == {s1}
TwoInstallers == {i1, i2}
=============================================================================
