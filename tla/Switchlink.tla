----------------------------- MODULE Switchlink -----------------------------
(***************************************************************************)
(* The switchlink thread (igw-h/init_setup/switchlink/switchlink_main.c)    *)
(* with both message handlers, the netlink socket it reads, and the kernel  *)
(* at the other end.                                                       *)
(*                                                                         *)
(* The socket carries events, not state.  The thread never asks for a dump, *)
(* so whatever the kernel reports while the socket is not bound yet, is     *)
(* being reopened, or is full, is gone.  The interfaces change under the    *)
(* feet of the thread, from the port callback.                             *)
(***************************************************************************)
EXTENDS SwitchlinkNeigh, SwitchlinkRoute
LOCAL INSTANCE Functions

CONSTANTS
    OtherNeigh, \* neighbour notifications that tell no gateway's address
    QueueCap,   \* notifications the socket holds
    MaxMoves,   \* bound: how often gateways change their link address
    MaxCloses   \* bound: how often the socket is closed again

ASSUME SwitchlinkAssumption ==
    /\ QueueCap \in Nat \ {0}
    /\ MaxMoves \in Nat /\ MaxCloses \in Nat
    /\ \A h \in Hostif : GwOf[h] \in Gateway
    /\ OtherNeigh \subseteq NeighMsg
    /\ \A m \in OtherNeigh, h \in Hostif : ~AnnouncesGateway(m, h)

VARIABLES
    sock,   \* g_nl_fd: "closed" (-1) or "open"
    nlq,    \* notifications waiting in the socket
    fib,    \* next hops of the kernel's default route, <<>> for none
    lan,    \* lan[h]: link address of the gateway of h, as the kernel knows it
    moves,  \* how often an address changed, at most MaxMoves
    closes, \* how often the socket was closed, at most MaxCloses
    disturbed, \* history: the last default-route notification was dropped, a
               \* group write after it failed, or an interface of the route
               \* changed before its walk was over
    overread,  \* history: the last one's walk found leftovers behind it
    skipped    \* history: the last loop index did not start at zero

kernelVars == <<fib, lan, moves>>
socketVars == <<sock, nlq, closes, disturbed>>
loopVars == <<overread, skipped>>
vars == <<neighVars, routeVars, kernelVars, socketVars, loopVars>>

(* The routing daemon names no next hop twice. *)
Routes == {r \in UNION {[1..n -> NextHop] : n \in 1..MaxHops} : IsInjective(r)}

TypeOK ==
    /\ NeighTypeOK
    /\ RouteTypeOK
    /\ sock \in {"closed", "open"}
    /\ nlq \in Seq([neigh : NeighMsg] \cup [route : RouteMsg]) /\ Len(nlq) <= QueueCap
    /\ fib \in Routes \cup {<<>>}
    /\ lan \in [Hostif -> Mac \cup {NoMac}]
    /\ moves \in 0..MaxMoves
    /\ closes \in 0..MaxCloses
    /\ {disturbed, overread, skipped} \subseteq BOOLEAN

(* sem_post lets the main thread go on before the socket is bound: the      *)
(* thread starts with the socket closed.                                    *)
Init ==
    /\ NeighInit
    /\ RouteInit
    /\ sock = "closed"
    /\ nlq = <<>>
    /\ fib = <<>>
    /\ lan = [h \in Hostif |-> NoMac]
    /\ moves = 0
    /\ closes = 0
    /\ disturbed = FALSE /\ overread = FALSE /\ skipped = FALSE

-----------------------------------------------------------------------------
(* The kernel and the routing daemon (external). *)

IsDefault(e) == "route" \in DOMAIN e /\ e.route.dst = "default"

(* A notification about the default route waits in the socket. *)
Awaited == \E i \in DOMAIN nlq : IsDefault(nlq[i])

(* A notification finds the socket bound and with room, or is dropped.      *)
Notify(e) ==
    LET room == sock = "open" /\ Len(nlq) < QueueCap
    IN  /\ nlq' = IF room THEN Append(nlq, e) ELSE nlq
        /\ disturbed' = IF IsDefault(e) THEN ~room ELSE disturbed
        /\ UNCHANGED <<sock, closes>>

NotifyRoute(type, dst, hops) ==
    Notify([route |-> [type |-> type, dst |-> dst, hops |-> hops]])

NotifyNeigh(m) == Notify([neigh |-> m])

(* The kernel takes no next hop over an interface that is down.             *)
InstallDefault(hops) ==
    /\ \A i \in DOMAIN hops : up[hops[i]]
    /\ fib' = hops
    /\ NotifyRoute("NEWROUTE", "default", hops)
    /\ UNCHANGED <<neighVars, routeVars, lan, moves, loopVars>>

WithdrawDefault ==
    /\ fib # <<>>
    /\ fib' = <<>>
    /\ NotifyRoute("DELROUTE", "default", fib)
    /\ UNCHANGED <<neighVars, routeVars, lan, moves, loopVars>>

OtherRoute(hops) ==
    /\ NotifyRoute("NEWROUTE", "prefix", hops)
    /\ UNCHANGED <<neighVars, routeVars, kernelVars, loopVars>>

(* The gateway behind h answers with another address than before. *)
GatewayMoves(h, mac) ==
    /\ moves < MaxMoves
    /\ moves' = moves + 1
    /\ lan' = [lan EXCEPT ![h] = mac]
    /\ UNCHANGED <<neighVars, routeVars, fib, socketVars, loopVars>>

(* The kernel confirms the neighbour entry of the gateway, again and again. *)
ConfirmGateway(h) ==
    /\ lan[h] # NoMac
    /\ NotifyNeigh([type |-> "NEWNEIGH", family |-> "inet",
                    intf |-> h, dst |-> GwOf[h], lladdr |-> lan[h]])
    /\ UNCHANGED <<neighVars, routeVars, kernelVars, loopVars>>

(* Another host of the link, another interface, an entry that failed to     *)
(* resolve, one that is deleted, an IPv6 neighbour, a multicast address.    *)
OtherNeighbour(m) ==
    /\ NotifyNeigh(m)
    /\ UNCHANGED <<neighVars, routeVars, kernelVars, loopVars>>

-----------------------------------------------------------------------------
(* The thread. *)

(* switchlink_sock_init succeeded; while it fails the thread tries again.   *)
OpenSocket ==
    /\ sock = "closed"
    /\ sock' = "open"
    /\ UNCHANGED <<neighVars, routeVars, kernelVars, nlq, closes, disturbed, loopVars>>

(* recvmsg returned 0: the loop is left and the socket closed. *)
CloseSocket ==
    /\ sock = "open"
    /\ sock' = "closed"
    /\ closes < MaxCloses
    /\ closes' = closes + 1
    /\ nlq' = <<>>
    /\ disturbed' = (disturbed \/ Awaited)
    /\ RestartLoop
    /\ UNCHANGED <<neighVars, kernelVars, loopVars>>

(* process_netlink_message on the oldest notification. *)
ReceiveNeigh ==
    /\ phase = "idle"
    /\ nlq # <<>> /\ "neigh" \in DOMAIN Head(nlq)
    /\ ProcessNeighMsg(Head(nlq).neigh)
    /\ nlq' = Tail(nlq)
    /\ UNCHANGED <<routeVars, kernelVars, sock, closes, disturbed, loopVars>>

(* process_ecmp comes to slots which this message did not fill. *)
ReadsLeftovers(m, buf) == IsMultipath(m) /\ Len(buf) > Len(m.hops)

ReceiveDefaultOrOther ==
    /\ nlq # <<>> /\ "route" \in DOMAIN Head(nlq)
    /\ ReceiveRoute(Head(nlq).route)
    /\ nlq' = Tail(nlq)
    /\ overread' = IF IsDefault(Head(nlq))
                   THEN ReadsLeftovers(Head(nlq).route, rxbuf') ELSE overread
    /\ UNCHANGED <<neighVars, kernelVars, sock, closes, disturbed, skipped>>

WalkRoute ==
    /\ ProcessEcmp
    /\ UNCHANGED <<neighVars, kernelVars, socketVars, loopVars>>

FinishRoute(start, ok) ==
    /\ ProgramSelectors(start, ok)
    /\ disturbed' = (disturbed \/ (~Awaited /\ \E p \in Pipe : ~ok[p]))
    /\ skipped' = (start # 0)
    /\ UNCHANGED <<neighVars, kernelVars, sock, nlq, closes, overread>>

(* The link handler of the port thread, or isolate_hostif and               *)
(* recover_hostif, change an interface.  The scripts first make the routing *)
(* daemon drop or take the gateway, which is an InstallDefault or           *)
(* WithdrawDefault of its own; nothing stops the link handler from setting  *)
(* an isolated interface up again.                                         *)
IntfFlip(g) ==
    /\ IntfChange(g)
    /\ disturbed' = \/ disturbed
                    \/ (Awaited \/ phase = "walk") /\ \E i \in DOMAIN fib : fib[i] = g
    /\ UNCHANGED <<neighVars, kernelVars, sock, nlq, closes, loopVars>>

Kernel ==
    \/ \E hops \in Routes : InstallDefault(hops) \/ OtherRoute(hops)
    \/ WithdrawDefault
    \/ \E h \in Hostif :
        \/ \E mac \in Mac : GatewayMoves(h, mac)
        \/ ConfirmGateway(h)
    \/ \E m \in OtherNeigh : OtherNeighbour(m)
    \/ \E g \in NextHop : IntfFlip(g)

Thread ==
    \/ OpenSocket
    \/ CloseSocket
    \/ ReceiveNeigh
    \/ ReceiveDefaultOrOther
    \/ WalkRoute
    \/ \E start \in Starts, ok \in [Pipe -> BOOLEAN] : FinishRoute(start, ok)

Next == Kernel \/ Thread

Spec == Init /\ [][Next]_vars

-----------------------------------------------------------------------------

(* What the thread is owed: it is scheduled, the kernel keeps confirming    *)
(* the gateway and not every confirmation is lost, and a table write that   *)
(* is tried again and again succeeds once.                                  *)
ConfirmationArrives(h) == ConfirmGateway(h) /\ nlq' # nlq

WriteSucceeds(h) == ReceiveNeigh /\ hwMac'[h] = lan[h]

Fairness ==
    /\ WF_vars(OpenSocket)
    /\ WF_vars(ReceiveNeigh)
    /\ WF_vars(ReceiveDefaultOrOther)
    /\ WF_vars(WalkRoute)
    /\ WF_vars(\E start \in Starts, ok \in [Pipe -> BOOLEAN] : FinishRoute(start, ok))
    /\ \A h \in Hostif : SF_vars(ConfirmationArrives(h)) /\ SF_vars(WriteSucceeds(h))

FairSpec == Spec /\ Fairness

(* Once gateways stop changing their addresses, the device ends up with     *)
(* the current one, whatever was lost, reordered by reopening, or failed on *)
(* the way: the periodic confirmation repairs it, because the cache never   *)
(* claims more than was written (switchlink_neigh.c:116-135).               *)
GatewayAddressConverges ==
    \A h \in Hostif : <>[](lan[h] # NoMac => hwMac[h] = lan[h])

FibOn(p) == {fib[i] : i \in DOMAIN fib} \cap GatewaysOn(p)

Settled == ~disturbed /\ sock = "open" /\ nlq = <<>> /\ phase = "idle"

(* One notification of the default route that gets through repairs all that *)
(* went wrong before it.  However many notifications were lost with a full  *)
(* or closed socket, writes failed, walks read leftovers or passed over     *)
(* next hops earlier: if the last one was taken, its walk saw the route's   *)
(* interfaces up and no leftovers, its loop started at index zero and its   *)
(* writes worked, then the enabled members of a pipe the route uses are     *)
(* exactly the route's gateways on it, and a gateway that isolate_hostif    *)
(* took out stays out, whatever the link handler does to its interface      *)
(* (switchlink_route.c:140-299, switch_port.c:287-325).                     *)
ExactOnUsedPipes ==
    Settled /\ ~overread /\ ~skipped =>
        \A p \in Pipe : FibOn(p) # {} => hw[p] = FibOn(p)

(* The next two say what the log line "IGW: default route nexthop changed!" *)
(* claims (switchlink_route.c:258): once every notification is handled and  *)
(* the last one was not lost, a group follows the default route's next hops.*)

(* A pipe the route uses selects no gateway the route does not name. *)
NoLeftoverMember ==
    Settled /\ ~skipped => \A p \in Pipe : FibOn(p) # {} => hw[p] \subseteq FibOn(p)

(* A pipe the route uses selects every gateway the route names. *)
NoSkippedMember ==
    Settled /\ ~overread => \A p \in Pipe : FibOn(p) \subseteq hw[p]
=============================================================================
