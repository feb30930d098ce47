-------------------------- MODULE MCIgwMonitorPorts --------------------------
(* Two ports in pipe 0 and one in pipe 2, a threshold of two cycles.        *)
EXTENDS IgwMonitorPorts, TLC

CONSTANTS e17, e18, e33, pipe0, pipe2

MCPortSeq == <<e17, e33, e18>>
MCPortPipe == e17 :> pipe0 @@ e18 :> pipe0 @@ e33 :> pipe2
=============================================================================
