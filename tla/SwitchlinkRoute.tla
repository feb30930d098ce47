--------------------------- MODULE SwitchlinkRoute ---------------------------
(***************************************************************************)
(* The route half of the switchlink thread                                 *)
(* (igw-h/init_setup/switchlink/switchlink_route.c): kernel notifications   *)
(* about the IPv4 default route decide which members of the ECMP groups of  *)
(* the two external pipes are enabled.                                      *)
(*                                                                         *)
(* Three things in the C code shape the model:                              *)
(*  - the loop over the next hops starts at an uninitialised index          *)
(*    ("for (i == 0; ...)"), so any number of leading next hops, all of     *)
(*    them included, may be passed over;                                    *)
(*  - process_ecmp never shortens the remaining length while it walks the   *)
(*    next hops, so the walk runs past the attribute into what an earlier,  *)
(*    longer message left in the receive buffer;                            *)
(*  - a group is only written when at least one of its members was chosen,  *)
(*    and the message type (new or deleted route) is never looked at.       *)
(***************************************************************************)
EXTENDS Naturals, Sequences, FiniteSets

CONSTANTS
    Gateway,    \* gateways of the configured hostifs (gateway_entry_hash_table)
    OtherGw,    \* next hops that are no hostif gateway (management network)
    Pipe,       \* external pipes: 0 and 2
    PipeOf,     \* PipeOf[g]: DEV_PORT_TO_PIPE of the hostif of g
    MaxGateway, \* MAX_GATEWAY: capacity of gateway_list_t
    MaxHops,    \* bound on the next hops of one route
    Starts      \* values the uninitialised loop index may hold

ASSUME RouteAssumption ==
    /\ PipeOf \in [Gateway -> Pipe]
    /\ Gateway \cap OtherGw = {}
    /\ MaxGateway \in Nat \ {0}
    /\ MaxHops \in Nat
    /\ Starts \subseteq Nat

VARIABLES
    up,         \* up[g]: IFF_UP of the interface towards next hop g
    rxbuf,      \* next hop slots of the receive buffer, old contents included
    hop,        \* slot the walk of process_ecmp comes to next
    gwList,     \* gw_list: the next hops collected so far
    phase,      \* "idle", "walk" or "program": where process_route_msg is
    hw,         \* members enabled in the selector groups of the device
    announced   \* history: gateways named by any route message so far

routeVars == <<up, rxbuf, hop, gwList, phase, hw, announced>>

NextHop == Gateway \cup OtherGw

(* A route notification.  The kernel writes a single next hop as            *)
(* RTA_GATEWAY and several as RTA_MULTIPATH, and no next hop for blackhole  *)
(* or device routes.  "zeronet" stands for a prefix of 0.0.0.0 that is not  *)
(* the default route.                                                       *)
RouteMsg ==
    [type : {"NEWROUTE", "DELROUTE"}, dst : {"default", "zeronet", "prefix"},
     hops : UNION {[1..n -> NextHop] : n \in 0..MaxHops}]

IsMultipath(m) == Len(m.hops) > 1

NamedGateways(m) == {m.hops[i] : i \in DOMAIN m.hops} \cap Gateway

GatewaysOn(p) == {g \in Gateway : PipeOf[g] = p}

-----------------------------------------------------------------------------

RouteTypeOK ==
    /\ up \in [NextHop -> BOOLEAN]
    /\ rxbuf \in Seq(NextHop)
    /\ hop \in Nat \ {0}
    /\ gwList \in Seq(NextHop) /\ Len(gwList) <= MaxGateway
    /\ phase \in {"idle", "walk", "program"}
    /\ hw \in [Pipe -> SUBSET Gateway]
    /\ announced \subseteq Gateway

(* route_system_init; ecmp_group02_init created both external groups with   *)
(* every member disabled.  Hostifs are created administratively up.         *)
RouteInit ==
    /\ up = [g \in NextHop |-> TRUE]
    /\ rxbuf = <<>>
    /\ hop = 1
    /\ gwList = <<>>
    /\ phase = "idle"
    /\ hw = [p \in Pipe |-> {}]
    /\ announced = {}

(* recvmsg overwrites the head of the buffer.  Only a multipath attribute   *)
(* reaches the slots that a later multipath attribute does not overwrite.   *)
Overlay(m) ==
    IF IsMultipath(m)
    THEN [i \in 1 .. (IF Len(m.hops) > Len(rxbuf) THEN Len(m.hops) ELSE Len(rxbuf)) |->
            IF i <= Len(m.hops) THEN m.hops[i] ELSE rxbuf[i]]
    ELSE rxbuf

(* Variant that forgets to test for the default route. *)
ConcernsAnyDst(m) == m.hops # <<>>

(* What process_route_msg goes on with: the default route, with next hops.  *)
Concerns(m) == m.dst = "default" /\ m.hops # <<>>

(* The notification is read and its attributes are looked at.  The next hops*)
(* of a prefix of 0.0.0.0 are walked too, but to no effect: only the length *)
(* of the prefix is tested after the walk.                                  *)
ReceiveRoute(m) ==
    /\ phase = "idle"
    /\ rxbuf' = Overlay(m)
    /\ announced' = announced \cup NamedGateways(m)
    /\ phase' = IF ~Concerns(m) THEN "idle"
                ELSE IF IsMultipath(m) THEN "walk" ELSE "program"
    /\ gwList' = IF phase' = "program" THEN m.hops ELSE <<>>
    /\ hop' = 1
    /\ UNCHANGED <<up, hw>>

(* Variant that tests for room only after the next one was stored. *)
RoomLate(list) == Len(list) <= MaxGateway

RoomFor(list) == Len(list) < MaxGateway

(* One round of the walk in process_ecmp: a next hop whose interface is up  *)
(* at this moment is collected.  The walk ends with the buffer or with      *)
(* MAX_GATEWAY of them, and without any nothing is programmed.              *)
ProcessEcmp ==
    /\ phase = "walk"
    /\ gwList' = IF up[rxbuf[hop]] THEN Append(gwList, rxbuf[hop]) ELSE gwList
    /\ IF hop < Len(rxbuf) /\ RoomFor(gwList')
       THEN hop' = hop + 1 /\ phase' = "walk"
       ELSE hop' = 1 /\ phase' = IF gwList' = <<>> THEN "idle" ELSE "program"
    /\ UNCHANGED <<up, rxbuf, hw, announced>>

(* What a loop over gw_list that starts at index start comes to. *)
Walked(start) == {gwList[i] : i \in {j \in DOMAIN gwList : j > start}}

(* Variant without the pipe test: every chosen gateway goes to every pipe.  *)
ChosenAnyPipe(p, start) == Walked(start) \cap Gateway

(* The gateways of pipe p which a loop starting at index start comes to.    *)
Chosen(p, start) == Walked(start) \cap GatewaysOn(p)

(* Variant that writes both groups for every default route. *)
ProgramBoth(start, ok) ==
    /\ phase = "program"
    /\ hw' = [p \in Pipe |-> IF ok[p] THEN Chosen(p, start) ELSE hw[p]]
    /\ phase' = "idle"
    /\ gwList' = <<>>
    /\ UNCHANGED <<up, rxbuf, hop, announced>>

(* Second half.  The status arrays pipeX_memberstatus_val are cleared and   *)
(* refilled from the chosen gateways; nothing reads them between two        *)
(* messages, so they are no variable here.  A group with a chosen member is *)
(* written with its array, a group without one is left alone; ok[p] tells   *)
(* whether the device took the write, and a failure is only logged.         *)
ProgramSelectors(start, ok) ==
    /\ phase = "program"
    /\ hw' = [p \in Pipe |->
                IF Chosen(p, start) # {} /\ ok[p] THEN Chosen(p, start) ELSE hw[p]]
    /\ phase' = "idle"
    /\ gwList' = <<>>
    /\ UNCHANGED <<up, rxbuf, hop, announced>>

(* The port callback, an operator, or the kernel changes an interface.      *)
IntfChange(g) ==
    /\ up' = [up EXCEPT ![g] = ~up[g]]
    /\ UNCHANGED <<rxbuf, hop, gwList, phase, hw, announced>>

(* switchlink_main calls process_netlink_loop anew after it returned: the   *)
(* buffer is an uninitialised local, at the same place of the stack.        *)
RestartLoop ==
    /\ phase = "idle"
    /\ rxbuf' \in {rxbuf, <<>>}
    /\ UNCHANGED <<up, hop, gwList, phase, hw, announced>>

RouteNext ==
    \/ RestartLoop
    \/ \E m \in RouteMsg : ReceiveRoute(m)
    \/ ProcessEcmp
    \/ \E start \in Starts, ok \in [Pipe -> BOOLEAN] : ProgramSelectors(start, ok)
    \/ \E g \in NextHop : IntfChange(g)

RouteSpec == RouteInit /\ [][RouteNext]_routeVars

-----------------------------------------------------------------------------

(* What the device selects is what some route named, on the pipe that owns  *)
(* the port: no reading past the attribute, no lookup and no index can put  *)
(* another gateway into a group (switchlink_route.c:140-167,259-276).       *)
MembersWereAnnounced ==
    \A p \in Pipe : hw[p] \subseteq GatewaysOn(p) \cap announced

(* A pipe that forwards keeps forwarding: withdrawn routes, routes over     *)
(* other pipes or the management port, interfaces that are down, failed     *)
(* writes and skipped list entries never leave a group of the device        *)
(* without an enabled member (switchlink_route.c:247-249,278-299).          *)
NeverBlackholed ==
    [][\A p \in Pipe : hw[p] # {} => hw'[p] # {}]_routeVars

Selector == INSTANCE EcmpSelector WITH active <- hw

(* The detailed handler keeps the promise of the abstract selector. *)
ImplementsSelector == Selector!SelectorSpec
=============================================================================
