-------------------------- MODULE MCSwitchlinkRoute --------------------------
(* Two gateways on pipe 0, one on pipe 2; routes of up to three next hops,  *)
(* so that a shorter route finds leftovers of a longer one in the buffer,   *)
(* and a gateway list smaller than the buffer.                              *)
EXTENDS SwitchlinkRoute, TLC

CONSTANTS g17, g18, g33, ma1gw, pipe0, pipe2

MCPipeOf == g17 :> pipe0 @@ g18 :> pipe0 @@ g33 :> pipe2
=============================================================================
