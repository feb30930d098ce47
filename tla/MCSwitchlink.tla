---------------------------- MODULE MCSwitchlink ----------------------------
(* Small boxes for the whole switchlink thread.                             *)
EXTENDS Switchlink, TLC

CONSTANTS h17, h33, g17, g18, g33, other, pipe0, pipe2, m1, m2, ma1, mcast

MCPipeOf == g17 :> pipe0 @@ g18 :> pipe0 @@ g33 :> pipe2

OneGwOf == h17 :> g17
OnePipeOf == g17 :> pipe0

Confirmed(mac) == [type |-> "NEWNEIGH", family |-> "inet",
                   intf |-> h17, dst |-> g17, lladdr |-> mac]

(* An entry that failed to resolve: the only one the route runs need.       *)
Unresolved == {Confirmed(NoAttr)}

(* One notification for each reason to leave the table alone.               *)
EveryOtherNeigh ==
    {[Confirmed(m1) EXCEPT !.type = "DELNEIGH"],
     [Confirmed(m1) EXCEPT !.family = "inet6"],
     [Confirmed(m1) EXCEPT !.intf = ma1],
     [Confirmed(m1) EXCEPT !.dst = other],
     [Confirmed(m1) EXCEPT !.dst = NoAttr],
     Confirmed(mcast), Confirmed(NoAttr)}
=============================================================================
