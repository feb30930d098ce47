--------------------------- MODULE SwitchlinkProofs ---------------------------
(***************************************************************************)
(* The switchlink thread with its socket and the kernel keeps the promises  *)
(* of its two handlers.  The handlers were proved for arbitrary sequences   *)
(* of messages; here the messages come out of the socket, which closes and  *)
(* overflows, and interfaces change from other threads.  Each step of the   *)
(* whole is a step of one handler, or none, provided that the socket only   *)
(* holds messages the handler is specified for: that is part of TypeOK.     *)
(***************************************************************************)
EXTENDS Switchlink, SwitchlinkNeighProofs, SwitchlinkRouteProofs

Event == [neigh : NeighMsg] \cup [route : RouteMsg]

(* The routing daemon's default routes are next hops of some RouteMsg.      *)
LEMMA RouteHops ==
    ASSUME NEW hops \in Routes
    PROVE  hops \in UNION {[1..n -> NextHop] : n \in 0..MaxHops}
<1>1. PICK n \in 1..MaxHops : hops \in [1..n -> NextHop]
  BY DEF Routes
<1>2. n \in 0..MaxHops
  BY RouteAssumption
<1> QED
  BY <1>1, <1>2

(* The first event of a queue, and what is left behind it.                  *)
LEMMA HeadIsEvent ==
    ASSUME NEW q \in Seq(Event), q # <<>>
    PROVE  /\ Head(q) \in Event /\ Tail(q) \in Seq(Event)
           /\ Len(Tail(q)) <= Len(q)
  OBVIOUS

LEMMA NeighEvent ==
    ASSUME NEW e \in Event, "neigh" \in DOMAIN e
    PROVE  e.neigh \in NeighMsg
<1>1. CASE e \in [neigh : NeighMsg]
  BY <1>1
<1>2. CASE e \in [route : RouteMsg]
  <2>1. DOMAIN e = {"route"}
    BY <1>2
  <2> QED
    BY <2>1
<1> QED
  BY <1>1, <1>2 DEF Event

LEMMA RouteEvent ==
    ASSUME NEW e \in Event, "route" \in DOMAIN e
    PROVE  e.route \in RouteMsg
<1>1. CASE e \in [route : RouteMsg]
  BY <1>1
<1>2. CASE e \in [neigh : NeighMsg]
  <2>1. DOMAIN e = {"neigh"}
    BY <1>2
  <2> QED
    BY <2>1
<1> QED
  BY <1>1, <1>2 DEF Event

(* What the socket holds is what the handlers are specified for.            *)
QueueOK == nlq \in Seq(Event) /\ Len(nlq) <= QueueCap

LEMMA TypeHasQueue == TypeOK => QueueOK
  BY DEF TypeOK, QueueOK, Event

(* A notification of the right kind leaves the socket's part typed.         *)
LEMMA NotifyKeepsQueue ==
    ASSUME QueueOK, disturbed \in BOOLEAN, NEW e \in Event, Notify(e)
    PROVE  QueueOK' /\ disturbed' \in BOOLEAN
<1> DEFINE room == sock = "open" /\ Len(nlq) < QueueCap
<1>1. nlq' = IF room THEN Append(nlq, e) ELSE nlq
  BY DEF Notify
<1>2. disturbed' = IF IsDefault(e) THEN ~room ELSE disturbed
  BY DEF Notify
<1>3. nlq \in Seq(Event) /\ Len(nlq) \in Nat /\ QueueCap \in Nat
  BY SwitchlinkAssumption DEF QueueOK
<1>4. QueueOK'
  <2>1. CASE room
    BY <1>1, <1>3, <2>1 DEF QueueOK
  <2>2. CASE ~room
    BY <1>1, <2>2 DEF QueueOK
  <2> QED
    BY <2>1, <2>2
<1> QED
  BY <1>2, <1>4

-----------------------------------------------------------------------------
(* Every step of the whole is a step of each half, or leaves it alone.      *)

LEMMA KernelLeavesHandlers ==
    ASSUME Kernel
    PROVE  UNCHANGED neighVars /\ [RouteNext]_routeVars
<1>1. ASSUME NEW hops \in Routes, InstallDefault(hops) \/ OtherRoute(hops)
      PROVE  UNCHANGED neighVars /\ UNCHANGED routeVars
  BY <1>1 DEF InstallDefault, OtherRoute
<1>2. CASE WithdrawDefault
  BY <1>2 DEF WithdrawDefault
<1>3. ASSUME NEW h \in Hostif,
             (\E mac \in Mac : GatewayMoves(h, mac)) \/ ConfirmGateway(h)
      PROVE  UNCHANGED neighVars /\ UNCHANGED routeVars
  BY <1>3 DEF GatewayMoves, ConfirmGateway
<1>4. ASSUME NEW m \in OtherNeigh, OtherNeighbour(m)
      PROVE  UNCHANGED neighVars /\ UNCHANGED routeVars
  BY <1>4 DEF OtherNeighbour
<1>5. ASSUME NEW g \in NextHop, IntfFlip(g)
      PROVE  UNCHANGED neighVars /\ RouteNext
  BY <1>5 DEF IntfFlip, RouteNext
<1> QED
  BY <1>1, <1>2, <1>3, <1>4, <1>5 DEF Kernel

LEMMA StepOfHalves ==
    ASSUME QueueOK, [Next]_vars
    PROVE  [NeighNext]_neighVars /\ [RouteNext]_routeVars
<1>1. CASE Kernel
  BY <1>1, KernelLeavesHandlers
<1>2. CASE OpenSocket
  BY <1>2 DEF OpenSocket
<1>3. CASE CloseSocket
  BY <1>3 DEF CloseSocket, RouteNext
<1>4. CASE ReceiveNeigh
  <2>1. Head(nlq) \in Event
    BY <1>4, HeadIsEvent DEF ReceiveNeigh, QueueOK
  <2>2. Head(nlq).neigh \in NeighMsg
    BY <1>4, <2>1, NeighEvent DEF ReceiveNeigh
  <2> QED
    BY <1>4, <2>2 DEF ReceiveNeigh, NeighNext
<1>5. CASE ReceiveDefaultOrOther
  <2>1. Head(nlq) \in Event
    BY <1>5, HeadIsEvent DEF ReceiveDefaultOrOther, QueueOK
  <2>2. Head(nlq).route \in RouteMsg
    BY <1>5, <2>1, RouteEvent DEF ReceiveDefaultOrOther
  <2> QED
    BY <1>5, <2>2 DEF ReceiveDefaultOrOther, RouteNext
<1>6. ASSUME NEW start \in Starts, NEW ok \in [Pipe -> BOOLEAN], FinishRoute(start, ok)
      PROVE  [NeighNext]_neighVars /\ [RouteNext]_routeVars
  BY <1>6 DEF FinishRoute, RouteNext
<1>7. CASE WalkRoute
  BY <1>7 DEF WalkRoute, RouteNext
<1>8. CASE UNCHANGED vars
  BY <1>8 DEF vars
<1> QED
  BY <1>1, <1>2, <1>3, <1>4, <1>5, <1>6, <1>7, <1>8 DEF Next, Thread

-----------------------------------------------------------------------------
(* The socket, the kernel's state and the histories keep their types.       *)

RestOK ==
    /\ QueueOK
    /\ sock \in {"closed", "open"}
    /\ fib \in Routes \cup {<<>>}
    /\ lan \in [Hostif -> Mac \cup {NoMac}]
    /\ moves \in 0..MaxMoves
    /\ closes \in 0..MaxCloses
    /\ disturbed \in BOOLEAN /\ overread \in BOOLEAN /\ skipped \in BOOLEAN

LEMMA TypeInParts == TypeOK <=> NeighTypeOK /\ RouteTypeOK /\ RestOK
  BY DEF TypeOK, RestOK, QueueOK, Event

LEMMA KernelKeepsRest ==
    ASSUME RestOK, Kernel
    PROVE  RestOK'
<1>1. ASSUME NEW type \in {"NEWROUTE", "DELROUTE"}, NEW dst \in {"default", "prefix"},
             NEW hops \in Routes, NotifyRoute(type, dst, hops)
      PROVE  QueueOK' /\ disturbed' \in BOOLEAN /\ UNCHANGED <<sock, closes>>
  <2>1. [route |-> [type |-> type, dst |-> dst, hops |-> hops]] \in Event
    BY RouteHops DEF Event, RouteMsg
  <2>2. UNCHANGED <<sock, closes>>
    BY <1>1 DEF NotifyRoute, Notify
  <2> QED
    BY <1>1, <2>1, <2>2, NotifyKeepsQueue DEF NotifyRoute, RestOK
<1>2. ASSUME NEW m \in NeighMsg, NotifyNeigh(m)
      PROVE  QueueOK' /\ disturbed' \in BOOLEAN /\ UNCHANGED <<sock, closes>>
  <2>1. [neigh |-> m] \in Event
    BY DEF Event
  <2>2. UNCHANGED <<sock, closes>>
    BY <1>2 DEF NotifyNeigh, Notify
  <2> QED
    BY <1>2, <2>1, <2>2, NotifyKeepsQueue DEF NotifyNeigh, RestOK
<1>3. ASSUME NEW hops \in Routes, InstallDefault(hops)
      PROVE  RestOK'
  BY <1>1, <1>3 DEF InstallDefault, loopVars, RestOK
<1>4. ASSUME NEW hops \in Routes, OtherRoute(hops)
      PROVE  RestOK'
  BY <1>1, <1>4 DEF OtherRoute, kernelVars, loopVars, RestOK
<1>5. CASE WithdrawDefault
  <2>1. fib \in Routes
    BY <1>5 DEF WithdrawDefault, RestOK
  <2> QED
    BY <1>1, <1>5, <2>1 DEF WithdrawDefault, loopVars, RestOK
<1>6. ASSUME NEW h \in Hostif, NEW mac \in Mac, GatewayMoves(h, mac)
      PROVE  RestOK'
  <2>1. moves' \in 0..MaxMoves
    BY <1>6, SwitchlinkAssumption DEF GatewayMoves, RestOK
  <2>2. lan' \in [Hostif -> Mac \cup {NoMac}]
    BY <1>6 DEF GatewayMoves, RestOK
  <2> QED
    BY <1>6, <2>1, <2>2 DEF GatewayMoves, socketVars, loopVars, RestOK, QueueOK
<1>7. ASSUME NEW h \in Hostif, ConfirmGateway(h)
      PROVE  RestOK'
  <2>1. lan[h] \in Mac /\ GwOf[h] \in Ip
    BY <1>7, NeighAssumption DEF ConfirmGateway, RestOK
  <2>2. [type |-> "NEWNEIGH", family |-> "inet", intf |-> h, dst |-> GwOf[h],
         lladdr |-> lan[h]] \in NeighMsg
    BY <2>1 DEF NeighMsg
  <2> QED
    BY <1>2, <1>7, <2>2 DEF ConfirmGateway, kernelVars, loopVars, RestOK
<1>8. ASSUME NEW m \in OtherNeigh, OtherNeighbour(m)
      PROVE  RestOK'
  <2>1. m \in NeighMsg
    BY SwitchlinkAssumption
  <2> QED
    BY <1>2, <1>8, <2>1 DEF OtherNeighbour, kernelVars, loopVars, RestOK
<1>9. ASSUME NEW g \in NextHop, IntfFlip(g)
      PROVE  RestOK'
  <2>1. disturbed' \in BOOLEAN
    BY <1>9 DEF IntfFlip
  <2> QED
    BY <1>9, <2>1 DEF IntfFlip, kernelVars, loopVars, RestOK, QueueOK
<1> QED
  BY <1>3, <1>4, <1>5, <1>6, <1>7, <1>8, <1>9 DEF Kernel

LEMMA ThreadKeepsRest ==
    ASSUME RestOK, Thread
    PROVE  RestOK'
<1>0. nlq \in Seq(Event) /\ Len(nlq) \in Nat /\ QueueCap \in Nat /\ Len(nlq) <= QueueCap
  BY SwitchlinkAssumption DEF RestOK, QueueOK
<1>1. CASE OpenSocket
  BY <1>1 DEF OpenSocket, kernelVars, loopVars, RestOK, QueueOK
<1>2. CASE CloseSocket
  <2>1. closes' \in 0..MaxCloses
    BY <1>2, SwitchlinkAssumption DEF CloseSocket, RestOK
  <2>2. QueueOK'
    BY <1>0, <1>2 DEF CloseSocket, QueueOK
  <2>3. disturbed' \in BOOLEAN
    BY <1>2 DEF CloseSocket
  <2> QED
    BY <1>2, <2>1, <2>2, <2>3 DEF CloseSocket, kernelVars, loopVars, RestOK
<1>3. ASSUME nlq # <<>>, nlq' = Tail(nlq)
      PROVE  QueueOK'
  <2>1. Tail(nlq) \in Seq(Event) /\ Len(Tail(nlq)) <= Len(nlq) /\ Len(Tail(nlq)) \in Nat
    BY <1>0, <1>3
  <2> QED
    BY <1>0, <1>3, <2>1 DEF QueueOK
<1>4. CASE ReceiveNeigh
  BY <1>3, <1>4 DEF ReceiveNeigh, kernelVars, loopVars, RestOK
<1>5. CASE ReceiveDefaultOrOther
  <2>1. ReadsLeftovers(Head(nlq).route, rxbuf') \in BOOLEAN
    BY DEF ReadsLeftovers, IsMultipath
  <2>2. overread' = IF IsDefault(Head(nlq))
                    THEN ReadsLeftovers(Head(nlq).route, rxbuf') ELSE overread
    BY <1>5 DEF ReceiveDefaultOrOther
  <2>3. overread' \in BOOLEAN
    <3>1. CASE IsDefault(Head(nlq))
      BY <2>1, <2>2, <3>1
    <3>2. CASE ~IsDefault(Head(nlq))
      BY <2>2, <3>2 DEF RestOK
    <3> QED
      BY <3>1, <3>2
  <2> QED
    BY <1>3, <1>5, <2>3 DEF ReceiveDefaultOrOther, kernelVars, RestOK
<1>6. ASSUME NEW start \in Starts, NEW ok \in [Pipe -> BOOLEAN], FinishRoute(start, ok)
      PROVE  RestOK'
  <2>1. disturbed' \in BOOLEAN /\ skipped' \in BOOLEAN
    BY <1>6 DEF FinishRoute
  <2> QED
    BY <1>6, <2>1 DEF FinishRoute, kernelVars, RestOK, QueueOK
<1>7. CASE WalkRoute
  BY <1>7 DEF WalkRoute, kernelVars, socketVars, loopVars, RestOK, QueueOK
<1> QED
  BY <1>1, <1>2, <1>4, <1>5, <1>6, <1>7 DEF Thread

LEMMA RestStep == RestOK /\ [Next]_vars => RestOK'
<1>1. ASSUME RestOK, UNCHANGED vars
      PROVE  RestOK'
  BY <1>1 DEF vars, kernelVars, socketVars, loopVars, RestOK, QueueOK
<1> QED
  BY <1>1, KernelKeepsRest, ThreadKeepsRest DEF Next

LEMMA RestCorrect == Spec => []RestOK
<1>1. Init => RestOK
  <2> SUFFICES ASSUME Init PROVE RestOK
    OBVIOUS
  <2>1. QueueOK
    BY SwitchlinkAssumption DEF Init, QueueOK
  <2>2. moves \in 0..MaxMoves /\ closes \in 0..MaxCloses
    BY SwitchlinkAssumption DEF Init
  <2>3. lan \in [Hostif -> Mac \cup {NoMac}]
    BY DEF Init
  <2>4. disturbed \in BOOLEAN /\ overread \in BOOLEAN /\ skipped \in BOOLEAN
    BY DEF Init
  <2> QED
    BY <2>1, <2>2, <2>3, <2>4 DEF Init, RestOK
<1> QED
  BY <1>1, RestStep, PTL DEF Spec

-----------------------------------------------------------------------------
(* The whole thread, whatever its socket loses and whenever interfaces      *)
(* change, behaves for the neighbour table like process_neigh_msg on some   *)
(* sequence of messages, and for the selector groups like process_route_msg *)
(* (switchlink_main.c:29-110).                                              *)
THEOREM SwitchlinkImplementsHandlers == Spec => NeighSpec /\ RouteSpec
<1>1. Init => NeighInit /\ RouteInit
  BY DEF Init
<1>2. RestOK /\ [Next]_vars => [NeighNext]_neighVars /\ [RouteNext]_routeVars
  BY StepOfHalves DEF RestOK
<1> QED
  BY <1>1, <1>2, RestCorrect, PTL DEF Spec, NeighSpec, RouteSpec

(* Every variable of the thread, its socket and the kernel keeps its type;  *)
(* the socket only ever holds messages the two handlers are specified for.  *)
THEOREM SwitchlinkTypeCorrect == Spec => []TypeOK
<1>1. NeighTypeOK /\ RouteTypeOK /\ RestOK => TypeOK
  BY TypeInParts
<1> QED
  BY <1>1, RestCorrect, SwitchlinkImplementsHandlers, NeighTypeCorrect, RouteTypeCorrect, PTL

(* The cache of link addresses equals the device in the whole thread, so a  *)
(* message that is lost, or found unchanged, never hides a missing write    *)
(* (switchlink_neigh.c:116-135).                                           *)
THEOREM SwitchlinkCacheCorrect == Spec => []CacheMatchesHardware /\ []OnlyGatewayAddresses
  BY SwitchlinkImplementsHandlers, CacheMatchesHardwareCorrect, OnlyGatewayAddressesCorrect, PTL

(* The groups of the device follow the abstract selector in the whole       *)
(* thread: only announced gateways of the pipe are members, and no step     *)
(* empties a group (switchlink_route.c:178-300).                            *)
THEOREM SwitchlinkImplementsSelector ==
    Spec => ImplementsSelector /\ NeverBlackholed /\ []MembersWereAnnounced
  BY SwitchlinkImplementsHandlers, RouteImplementsSelector, NeverBlackholedCorrect,
     MembersWereAnnouncedCorrect, PTL

-----------------------------------------------------------------------------
(* ExactOnUsedPipes.  Unless its last notification was lost, the default    *)
(* route the kernel has is at every moment in one place: in the last        *)
(* default notification of the queue, under the walk that collects its next *)
(* hops, in the list that was collected, or in the device.                  *)

HopsOf(route) == {route[i] : i \in DOMAIN route}

DefaultAt(i) == IsDefault(nlq[i])
NoDefaultAfter(n) == \A j \in DOMAIN nlq : DefaultAt(j) => j <= n

FibIsUp == \A i \in DOMAIN fib : up[fib[i]]

InQueue ==
    /\ FibIsUp
    /\ \E i \in DOMAIN nlq : DefaultAt(i) /\ nlq[i].route.hops = fib /\ NoDefaultAfter(i)

InWalk ==
    /\ phase = "walk" /\ ~Awaited /\ FibIsUp
    /\ ~overread => /\ rxbuf = fib /\ hop \in 1 .. Len(fib)
                    /\ Len(gwList) = hop - 1
                    /\ \A i \in 1 .. hop - 1 : gwList[i] = fib[i]

InList ==
    /\ phase = "program" /\ ~Awaited
    /\ ~overread => HopsOf(gwList) = HopsOf(fib)

InDevice ==
    /\ phase = "idle" /\ ~Awaited
    /\ ~overread /\ ~skipped => \A p \in Pipe : FibOn(p) # {} => hw[p] = FibOn(p)

Somewhere == InQueue \/ InWalk \/ InList \/ InDevice

FibIsSomewhere == ~disturbed => fib = <<>> \/ Somewhere

somewhereVars ==
    <<up, rxbuf, hop, gwList, phase, hw, nlq, fib, disturbed, overread, skipped>>

LEMMA SomewhereStays ==
    ASSUME UNCHANGED somewhereVars, FibIsSomewhere
    PROVE  FibIsSomewhere'
  BY DEF somewhereVars, FibIsSomewhere, Somewhere, InQueue, InWalk, InList, InDevice, FibIsUp,
         NoDefaultAfter, DefaultAt, Awaited, FibOn

(* A route of the kernel: some next hops, and room for them in gw_list.     *)
LEMMA FibFits ==
    ASSUME RestOK, fib # <<>>, MaxHops <= MaxGateway
    PROVE  /\ fib \in Seq(NextHop) /\ Len(fib) \in Nat \ {0} /\ Len(fib) <= MaxGateway
           /\ DOMAIN fib = 1 .. Len(fib)
<1>1. fib \in Routes
  BY DEF RestOK
<1>2. PICK n \in 1..MaxHops : fib \in [1..n -> NextHop]
  BY <1>1 DEF Routes
<1> QED
  BY <1>2, RouteAssumption

(* The buffer after a message that leaves no leftovers behind it.           *)
LEMMA OverlayWithoutLeftovers ==
    ASSUME rxbuf \in Seq(NextHop), NEW m \in RouteMsg, IsMultipath(m),
           ~ReadsLeftovers(m, Overlay(m))
    PROVE  Overlay(m) = m.hops
<1> DEFINE n == IF Len(m.hops) > Len(rxbuf) THEN Len(m.hops) ELSE Len(rxbuf)
<1>1. m.hops \in Seq(NextHop) /\ Len(m.hops) \in Nat /\ Len(rxbuf) \in Nat
  BY HopsAreSequence
<1>2. Overlay(m) = [i \in 1 .. n |-> IF i <= Len(m.hops) THEN m.hops[i] ELSE rxbuf[i]]
  BY DEF Overlay
<1>3. Len(Overlay(m)) = n
  <2>1. n \in Nat
    BY <1>1
  <2> HIDE DEF n
  <2> QED
    BY <1>2, <2>1
<1>4. n <= Len(m.hops)
  BY <1>1, <1>3 DEF ReadsLeftovers
<1>5. n = Len(m.hops)
  BY <1>1, <1>4
<1> QED
  BY <1>1, <1>2, <1>5

-----------------------------------------------------------------------------
(* The queue. *)

(* A notification that finds room waits behind the others.                  *)
LEMMA NotificationIsLast ==
    ASSUME QueueOK, NEW e \in Event, nlq' = Append(nlq, e)
    PROVE  /\ DOMAIN nlq = 1 .. Len(nlq) /\ Len(nlq) \in Nat
           /\ DOMAIN nlq' = 1 .. (Len(nlq) + 1)
           /\ \A i \in 1 .. Len(nlq) : nlq'[i] = nlq[i]
           /\ nlq'[Len(nlq) + 1] = e
  BY DEF QueueOK

LEMMA NewDefaultIsQueued ==
    ASSUME QueueOK, NEW hops \in Routes, InstallDefault(hops), ~disturbed'
    PROVE  InQueue'
<1> DEFINE m == [type |-> "NEWROUTE", dst |-> "default", hops |-> hops]
           e == [route |-> m]
<1>1. m \in RouteMsg
  BY RouteHops DEF RouteMsg
<1>2. e \in Event /\ Notify(e) /\ fib' = hops
  BY <1>1 DEF Event, InstallDefault, NotifyRoute
<1>3. IsDefault(e) /\ e.route.hops = hops
  BY DEF IsDefault
<1> HIDE DEF e
<1>4. nlq' = Append(nlq, e)
  BY <1>2, <1>3 DEF Notify
<1>5. /\ DOMAIN nlq' = 1 .. (Len(nlq) + 1) /\ Len(nlq) \in Nat
      /\ nlq'[Len(nlq) + 1] = e
  BY <1>2, <1>4, NotificationIsLast
<1>6. PICK last \in Nat : last = Len(nlq) + 1
  BY <1>5
<1>7. last \in DOMAIN nlq' /\ nlq'[last] = e
  BY <1>5, <1>6
<1>8. DefaultAt(last)' /\ nlq'[last].route.hops = fib'
  BY <1>2, <1>3, <1>7 DEF DefaultAt
<1>9. NoDefaultAfter(last)'
  BY <1>5, <1>6 DEF NoDefaultAfter
<1>10. FibIsUp'
  BY <1>2 DEF FibIsUp, InstallDefault, routeVars
<1> QED
  BY <1>7, <1>8, <1>9, <1>10 DEF InQueue

(* A notification about something else waits behind, or is dropped.         *)
LEMMA OtherNotificationWaits ==
    ASSUME QueueOK, NEW e \in Event, Notify(e), ~IsDefault(e),
           UNCHANGED <<routeVars, fib, loopVars>>, Somewhere
    PROVE  Somewhere'
<1>1. UNCHANGED <<up, rxbuf, hop, gwList, phase, hw, fib, overread, skipped>>
  BY DEF routeVars, loopVars
<1>2. CASE nlq' = nlq
  BY <1>1, <1>2 DEF Somewhere, InQueue, InWalk, InList, InDevice, FibIsUp, NoDefaultAfter,
                    DefaultAt, Awaited, FibOn
<1>3. CASE nlq' = Append(nlq, e)
  <2>1. /\ DOMAIN nlq = 1 .. Len(nlq) /\ Len(nlq) \in Nat
        /\ DOMAIN nlq' = 1 .. (Len(nlq) + 1)
        /\ \A i \in 1 .. Len(nlq) : nlq'[i] = nlq[i]
        /\ nlq'[Len(nlq) + 1] = e
    BY <1>3, NotificationIsLast
  <2>2. \A i \in DOMAIN nlq : DefaultAt(i)' <=> DefaultAt(i)
    BY <2>1 DEF DefaultAt
  <2>3. \A j \in DOMAIN nlq' : DefaultAt(j)' => j \in DOMAIN nlq
    BY <2>1 DEF DefaultAt
  <2>4. ~Awaited => ~Awaited'
    BY <2>2, <2>3 DEF Awaited, DefaultAt
  <2>5. ASSUME InQueue
        PROVE  InQueue'
    <3>1. PICK i \in DOMAIN nlq : DefaultAt(i) /\ nlq[i].route.hops = fib /\ NoDefaultAfter(i)
      BY <2>5 DEF InQueue
    <3>2. i \in DOMAIN nlq' /\ nlq'[i] = nlq[i]
      BY <2>1, <3>1
    <3>3. DefaultAt(i)' /\ NoDefaultAfter(i)'
      BY <2>2, <2>3, <3>1 DEF NoDefaultAfter
    <3> QED
      BY <1>1, <2>5, <3>1, <3>2, <3>3 DEF InQueue, FibIsUp
  <2> QED
    BY <1>1, <2>4, <2>5 DEF Somewhere, InWalk, InList, InDevice, FibIsUp, FibOn
<1> QED
  BY <1>2, <1>3 DEF Notify

(* The queue without its oldest notification.                               *)
LEMMA QueueShifts ==
    ASSUME QueueOK, nlq # <<>>, nlq' = Tail(nlq)
    PROVE  /\ DOMAIN nlq = 1 .. Len(nlq) /\ Len(nlq) \in Nat \ {0}
           /\ nlq[1] = Head(nlq)
           /\ DOMAIN nlq' = 1 .. (Len(nlq) - 1)
           /\ \A i \in 1 .. (Len(nlq) - 1) : nlq'[i] = nlq[i + 1]
  BY DEF QueueOK

LEMMA LaterDefaultMovesUp ==
    ASSUME QueueOK, nlq # <<>>, nlq' = Tail(nlq), UNCHANGED <<fib, up>>, FibIsUp,
           NEW i \in DOMAIN nlq, i # 1,
           DefaultAt(i), nlq[i].route.hops = fib, NoDefaultAfter(i)
    PROVE  InQueue'
<1>1. /\ DOMAIN nlq = 1 .. Len(nlq) /\ Len(nlq) \in Nat \ {0}
      /\ DOMAIN nlq' = 1 .. (Len(nlq) - 1)
      /\ \A j \in 1 .. (Len(nlq) - 1) : nlq'[j] = nlq[j + 1]
  BY QueueShifts
<1>2. i - 1 \in DOMAIN nlq' /\ nlq'[i - 1] = nlq[i]
  BY <1>1
<1>3. DefaultAt(i - 1)'
  BY <1>2 DEF DefaultAt
<1>4. NoDefaultAfter(i - 1)'
  <2> SUFFICES ASSUME NEW j \in DOMAIN nlq', DefaultAt(j)' PROVE j <= i - 1
    BY DEF NoDefaultAfter
  <2>1. j + 1 \in DOMAIN nlq /\ nlq'[j] = nlq[j + 1]
    BY <1>1
  <2>2. DefaultAt(j + 1)
    BY <2>1 DEF DefaultAt
  <2> QED
    BY <1>1, <2>1, <2>2 DEF NoDefaultAfter
<1>5. FibIsUp'
  BY DEF FibIsUp
<1> QED
  BY <1>2, <1>3, <1>4, <1>5 DEF InQueue

LEMMA NoneBehindTheLast ==
    ASSUME QueueOK, nlq # <<>>, nlq' = Tail(nlq), NoDefaultAfter(1)
    PROVE  ~Awaited'
<1>1. /\ DOMAIN nlq = 1 .. Len(nlq) /\ Len(nlq) \in Nat \ {0}
      /\ DOMAIN nlq' = 1 .. (Len(nlq) - 1)
      /\ \A j \in 1 .. (Len(nlq) - 1) : nlq'[j] = nlq[j + 1]
  BY QueueShifts
<1> SUFFICES ASSUME NEW j \in DOMAIN nlq', DefaultAt(j)' PROVE FALSE
  BY DEF Awaited, DefaultAt
<1>2. j + 1 \in DOMAIN nlq /\ nlq'[j] = nlq[j + 1]
  BY <1>1
<1>3. DefaultAt(j + 1)
  BY <1>2 DEF DefaultAt
<1> QED
  BY <1>1, <1>2, <1>3 DEF NoDefaultAfter

-----------------------------------------------------------------------------
(* The handler. *)

(* A handled message that is no default route changes nothing here.         *)
LEMMA OtherIsHandled ==
    ASSUME QueueOK, nlq # <<>>, nlq' = Tail(nlq), ~IsDefault(Head(nlq)),
           phase = "idle", phase' = "idle", UNCHANGED <<up, fib, hw, loopVars>>,
           Somewhere
    PROVE  Somewhere'
<1>1. 1 \in DOMAIN nlq /\ nlq[1] = Head(nlq)
  BY QueueShifts
<1>2. ~DefaultAt(1)
  BY <1>1 DEF DefaultAt
<1>3. CASE InQueue
  BY <1>2, <1>3, LaterDefaultMovesUp DEF InQueue, Somewhere
<1>4. CASE InDevice
  <2>1. NoDefaultAfter(1)
    BY <1>4 DEF InDevice, NoDefaultAfter, DefaultAt, Awaited
  <2>2. ~Awaited'
    BY <2>1, NoneBehindTheLast
  <2> QED
    BY <1>4, <2>2 DEF InDevice, FibOn, loopVars, Somewhere
<1> QED
  BY <1>3, <1>4 DEF Somewhere, InList, InWalk

(* The last default notification is taken: its walk begins, or its single   *)
(* next hop is in the list (switchlink_route.c:199-256).                    *)
LEMMA DefaultIsTaken ==
    ASSUME RestOK, RouteTypeOK, ReceiveDefaultOrOther, IsDefault(Head(nlq)),
           fib # <<>>, MaxHops <= MaxGateway, Somewhere
    PROVE  Somewhere'
<1> DEFINE m == Head(nlq).route
<1>0. QueueOK /\ rxbuf \in Seq(NextHop)
  BY DEF RestOK, RouteTypeOK
<1>1. /\ nlq # <<>> /\ nlq' = Tail(nlq) /\ UNCHANGED <<fib, up>>
      /\ phase = "idle" /\ rxbuf' = Overlay(m) /\ hop' = 1
      /\ phase' = IF ~Concerns(m) THEN "idle"
                  ELSE IF IsMultipath(m) THEN "walk" ELSE "program"
      /\ gwList' = IF phase' = "program" THEN m.hops ELSE <<>>
      /\ overread' = ReadsLeftovers(m, Overlay(m))
  BY DEF ReceiveDefaultOrOther, ReceiveRoute, kernelVars
<1>2. Head(nlq) \in Event /\ "route" \in DOMAIN Head(nlq) /\ m.dst = "default"
  BY <1>0, <1>1, HeadIsEvent DEF QueueOK, IsDefault
<1>3. m \in RouteMsg
  BY <1>2, RouteEvent
<1>4. 1 \in DOMAIN nlq /\ nlq[1] = Head(nlq)
  BY <1>0, <1>1, QueueShifts
<1>5. DefaultAt(1) /\ Awaited
  BY <1>4 DEF DefaultAt, Awaited
<1>6. InQueue
  BY <1>5 DEF Somewhere, InWalk, InList, InDevice
<1>7. PICK i \in DOMAIN nlq : DefaultAt(i) /\ nlq[i].route.hops = fib /\ NoDefaultAfter(i)
  BY <1>6 DEF InQueue
<1>8. CASE i # 1
  BY <1>0, <1>1, <1>6, <1>7, <1>8, LaterDefaultMovesUp DEF InQueue, Somewhere
<1>9. CASE i = 1
  <2>1. ~Awaited'
    BY <1>0, <1>1, <1>7, <1>9, NoneBehindTheLast
  <2>2. m.hops = fib
    BY <1>4, <1>7, <1>9
  <2>3. Concerns(m)
    BY <1>2, <2>2 DEF Concerns
  <2>4. Len(fib) \in Nat \ {0}
    BY FibFits
  <2>5. CASE IsMultipath(m)
    <3>1. phase' = "walk" /\ gwList' = <<>> /\ hop' = 1
      BY <1>1, <2>3, <2>5
    <3>2. ~overread' => rxbuf' = fib'
      BY <1>0, <1>1, <1>3, <2>2, <2>5, OverlayWithoutLeftovers
    <3>3. FibIsUp'
      BY <1>1, <1>6 DEF InQueue, FibIsUp
    <3>4. hop' \in 1 .. Len(fib') /\ Len(gwList') = hop' - 1 /\ 1 .. hop' - 1 = {}
      BY <1>1, <2>4, <3>1
    <3> QED
      BY <2>1, <3>1, <3>2, <3>3, <3>4 DEF InWalk, Somewhere
  <2>6. CASE ~IsMultipath(m)
    <3>1. phase' = "program" /\ gwList' = fib'
      BY <1>1, <2>2, <2>3, <2>6
    <3> QED
      BY <2>1, <3>1 DEF InList, Somewhere
  <2> QED
    BY <2>5, <2>6
<1> QED
  BY <1>8, <1>9

(* A round of the walk over the route's own next hops, all of them up,      *)
(* collects the next one; the last round leaves them all in the list        *)
(* (switchlink_route.c:146-160).                                            *)
LEMMA WalkCollects ==
    ASSUME RestOK, RouteTypeOK, WalkRoute, fib # <<>>, MaxHops <= MaxGateway, Somewhere
    PROVE  Somewhere'
<1>1. /\ phase = "walk"
      /\ UNCHANGED <<up, rxbuf, hw, fib, nlq, overread, skipped>>
      /\ gwList' = IF up[rxbuf[hop]] THEN Append(gwList, rxbuf[hop]) ELSE gwList
      /\ IF hop < Len(rxbuf) /\ RoomFor(gwList')
         THEN hop' = hop + 1 /\ phase' = "walk"
         ELSE hop' = 1 /\ phase' = IF gwList' = <<>> THEN "idle" ELSE "program"
  BY DEF WalkRoute, ProcessEcmp, kernelVars, socketVars, loopVars
<1>2. Awaited' = Awaited /\ FibIsUp' = FibIsUp
  BY <1>1 DEF Awaited, FibIsUp
<1>3. CASE InQueue
  BY <1>1, <1>2, <1>3 DEF InQueue, NoDefaultAfter, DefaultAt, Somewhere
<1>4. CASE InWalk /\ overread
  BY <1>1, <1>2, <1>4 DEF InWalk, InList, InDevice, Somewhere
<1>5. CASE InWalk /\ ~overread
  <2>1. /\ fib \in Seq(NextHop) /\ Len(fib) \in Nat \ {0} /\ Len(fib) <= MaxGateway
        /\ DOMAIN fib = 1 .. Len(fib) /\ MaxGateway \in Nat
    BY FibFits, RouteAssumption
  <2>2. /\ rxbuf = fib /\ hop \in 1 .. Len(fib) /\ Len(gwList) = hop - 1
        /\ \A i \in 1 .. hop - 1 : gwList[i] = fib[i]
        /\ ~Awaited /\ FibIsUp
    BY <1>5 DEF InWalk
  <2>3. gwList \in Seq(NextHop) /\ fib[hop] \in NextHop
    BY <2>1, <2>2 DEF RouteTypeOK
  <2>4. gwList' = Append(gwList, fib[hop])
    BY <1>1, <2>1, <2>2 DEF FibIsUp
  <2>5. /\ Len(gwList') = hop /\ DOMAIN gwList' = 1 .. hop
        /\ \A i \in 1 .. hop : gwList'[i] = fib[i]
    BY <2>1, <2>2, <2>3, <2>4
  <2>6. CASE hop < Len(fib)
    <3>1. RoomFor(gwList')
      BY <2>1, <2>2, <2>5, <2>6 DEF RoomFor
    <3>2. hop' = hop + 1 /\ phase' = "walk"
      BY <1>1, <2>2, <2>6, <3>1
    <3>3. hop' \in 1 .. Len(fib') /\ Len(gwList') = hop' - 1 /\ hop' - 1 = hop
      BY <1>1, <2>1, <2>2, <2>5, <2>6, <3>2
    <3>4. \A i \in 1 .. hop' - 1 : gwList'[i] = fib'[i]
      BY <1>1, <2>5, <3>3
    <3> QED
      BY <1>1, <1>2, <2>2, <3>2, <3>3, <3>4 DEF InWalk, Somewhere
  <2>7. CASE ~(hop < Len(fib))
    <3>1. hop = Len(fib)
      <4>1. ~(hop < Len(fib))
        BY <2>2, <2>7
      <4>2. hop \in Nat /\ hop <= Len(fib) /\ Len(fib) \in Nat
        BY <2>1, <2>2
      <4> QED
        BY <4>1, <4>2
    <3>2. gwList' # <<>>
      BY <2>1, <2>5, <3>1
    <3>3. phase' = "program"
      BY <1>1, <2>2, <2>7, <3>2
    <3>4. HopsOf(gwList') = HopsOf(fib)
      BY <2>1, <2>5, <3>1 DEF HopsOf
    <3>5. HopsOf(gwList)' = HopsOf(fib)'
      BY <1>1, <3>4 DEF HopsOf
    <3> QED
      BY <1>2, <2>2, <3>3, <3>5 DEF InList, Somewhere
  <2> QED
    BY <2>6, <2>7
<1> QED
  BY <1>1, <1>3, <1>4, <1>5 DEF Somewhere, InList, InDevice

(* A loop that starts at the first entry and writes every group it found a  *)
(* member for puts the collected route into the device                      *)
(* (switchlink_route.c:259-299).                                            *)
LEMMA ListIsProgrammed ==
    ASSUME RouteTypeOK, NEW start \in Starts, NEW ok \in [Pipe -> BOOLEAN],
           FinishRoute(start, ok), ~disturbed', Somewhere
    PROVE  Somewhere'
<1>1. /\ UNCHANGED <<up, nlq, fib, overread>> /\ phase = "program" /\ phase' = "idle"
      /\ skipped' = (start # 0)
      /\ ~Awaited => \A p \in Pipe : ok[p]
      /\ hw' = [p \in Pipe |->
                  IF Chosen(p, start) # {} /\ ok[p] THEN Chosen(p, start) ELSE hw[p]]
  BY DEF FinishRoute, ProgramSelectors, kernelVars
<1>2. CASE InQueue
  BY <1>1, <1>2 DEF InQueue, DefaultAt, NoDefaultAfter, FibIsUp, Somewhere
<1>3. CASE InList
  <2>1. ~Awaited'
    BY <1>1, <1>3 DEF InList, Awaited
  <2>2. ASSUME ~overread, start = 0, NEW p \in Pipe, FibOn(p) # {}
        PROVE  hw'[p] = FibOn(p)
    <3>1. \A i \in DOMAIN gwList : i > 0
      BY DEF RouteTypeOK
    <3>2. {j \in DOMAIN gwList : j > 0} = DOMAIN gwList
      BY <3>1
    <3>3. Walked(0) = HopsOf(gwList)
      BY <3>2 DEF Walked, HopsOf
    <3>4. Chosen(p, 0) = FibOn(p)
      BY <1>3, <2>2, <3>3 DEF InList, Chosen, FibOn, HopsOf
    <3> QED
      BY <1>1, <1>3, <2>2, <3>4 DEF InList
  <2>3. \A p \in Pipe : FibOn(p)' = FibOn(p)
    BY <1>1 DEF FibOn
  <2> QED
    BY <1>1, <2>1, <2>2, <2>3 DEF InDevice, Somewhere
<1> QED
  BY <1>1, <1>2, <1>3 DEF Somewhere, InWalk, InDevice

-----------------------------------------------------------------------------

(* The default route gets lost nowhere but in its last notification.        *)
LEMMA FibStep ==
    ASSUME RestOK, RouteTypeOK, MaxHops <= MaxGateway, FibIsSomewhere, [Next]_vars
    PROVE  FibIsSomewhere'
<1> SUFFICES ASSUME ~disturbed', fib' # <<>>
             PROVE  Somewhere'
  BY DEF FibIsSomewhere
<1>2. QueueOK
  BY DEF RestOK
<1>3. ASSUME NEW hops \in Routes, InstallDefault(hops)
      PROVE  Somewhere'
  BY <1>2, <1>3, NewDefaultIsQueued DEF Somewhere
<1>4. ASSUME NEW e \in Event, Notify(e), ~IsDefault(e),
             UNCHANGED <<routeVars, fib, loopVars>>
      PROVE  Somewhere'
  <2>1. ~disturbed
    BY <1>4 DEF Notify
  <2> QED
    BY <1>2, <1>4, <2>1, OtherNotificationWaits DEF FibIsSomewhere
<1>5. ASSUME UNCHANGED somewhereVars
      PROVE  Somewhere'
  <2>1. FibIsSomewhere'
    BY <1>5, SomewhereStays
  <2> QED
    BY <2>1 DEF FibIsSomewhere
<1>7. ASSUME NEW hops \in Routes, OtherRoute(hops)
      PROVE  Somewhere'
  <2> DEFINE m == [type |-> "NEWROUTE", dst |-> "prefix", hops |-> hops]
             e == [route |-> m]
  <2>1. e \in Event /\ ~IsDefault(e)
    BY RouteHops DEF Event, RouteMsg, IsDefault
  <2> QED
    BY <1>4, <1>7, <2>1 DEF OtherRoute, NotifyRoute, kernelVars
<1>8. CASE WithdrawDefault
  BY <1>8 DEF WithdrawDefault
<1>9. ASSUME NEW m \in NeighMsg, NotifyNeigh(m), UNCHANGED <<routeVars, fib, loopVars>>
      PROVE  Somewhere'
  <2> DEFINE e == [neigh |-> m]
  <2>1. e \in Event /\ ~IsDefault(e)
    BY DEF Event, IsDefault
  <2> QED
    BY <1>4, <1>9, <2>1 DEF NotifyNeigh
<1>10. ASSUME NEW h \in Hostif, ConfirmGateway(h)
       PROVE  Somewhere'
  <2> DEFINE m == [type |-> "NEWNEIGH", family |-> "inet", intf |-> h, dst |-> GwOf[h],
                   lladdr |-> lan[h]]
  <2>1. m \in NeighMsg
    BY <1>10, NeighAssumption DEF ConfirmGateway, RestOK, NeighMsg
  <2> QED
    BY <1>9, <1>10, <2>1 DEF ConfirmGateway, kernelVars
<1>11. ASSUME NEW m \in OtherNeigh, OtherNeighbour(m)
       PROVE  Somewhere'
  BY <1>9, <1>11, SwitchlinkAssumption DEF OtherNeighbour, kernelVars
<1>12. ASSUME NEW h \in Hostif, NEW mac \in Mac, GatewayMoves(h, mac)
       PROVE  UNCHANGED somewhereVars
  BY <1>12 DEF GatewayMoves, somewhereVars, routeVars, socketVars, loopVars
<1>13. ASSUME NEW g \in NextHop, IntfFlip(g)
       PROVE  Somewhere'
  <2>1. /\ UNCHANGED <<fib, rxbuf, hop, gwList, phase, hw, nlq, overread, skipped>>
        /\ up' = [up EXCEPT ![g] = ~up[g]]
        /\ ~disturbed
        /\ Awaited \/ phase = "walk" => \A i \in DOMAIN fib : fib[i] # g
    BY <1>13 DEF IntfFlip, IntfChange, kernelVars, loopVars
  <2>2. Somewhere /\ fib \in Seq(NextHop)
    BY <2>1, FibFits DEF FibIsSomewhere
  <2>3. \A i \in DOMAIN fib : fib[i] \in NextHop
    BY <2>2
  <2>4. Awaited \/ phase = "walk" => \A i \in DOMAIN fib : up'[fib[i]] = up[fib[i]]
    BY <2>1, <2>3 DEF RouteTypeOK
  <2>5. Awaited \/ phase = "walk" => FibIsUp' = FibIsUp
    BY <2>1, <2>4 DEF FibIsUp
  <2>6. InQueue => Awaited
    BY DEF InQueue, Awaited, DefaultAt
  <2>7. Awaited' = Awaited
    BY <2>1 DEF Awaited
  <2>8. InQueue => InQueue'
    BY <2>1, <2>5, <2>6 DEF InQueue, NoDefaultAfter, DefaultAt
  <2>9. InWalk => InWalk'
    BY <2>1, <2>5, <2>7 DEF InWalk
  <2>10. (InList => InList') /\ (InDevice => InDevice')
    BY <2>1, <2>7 DEF InList, InDevice, HopsOf, FibOn
  <2> QED
    BY <2>2, <2>8, <2>9, <2>10 DEF Somewhere
<1>14. CASE OpenSocket
  <2>1. UNCHANGED somewhereVars
    BY <1>14 DEF OpenSocket, somewhereVars, routeVars, kernelVars, loopVars
  <2> QED
    BY <1>5, <2>1
<1>15. CASE CloseSocket
  <2>1. ~disturbed /\ ~Awaited /\ phase = "idle" /\ nlq' = <<>> /\ phase' = "idle"
    BY <1>15 DEF CloseSocket, RestartLoop
  <2>2. UNCHANGED <<hw, fib, overread, skipped>>
    BY <1>15 DEF CloseSocket, RestartLoop, kernelVars, loopVars
  <2>3. InDevice
    BY <2>1, <2>2 DEF FibIsSomewhere, Somewhere, InQueue, InWalk, InList, Awaited, DefaultAt
  <2>4. ~Awaited'
    BY <2>1 DEF Awaited
  <2> QED
    BY <2>1, <2>2, <2>3, <2>4 DEF InDevice, FibOn, Somewhere
<1>16. CASE ReceiveNeigh
  <2>1. ~IsDefault(Head(nlq))
    <3>1. Head(nlq) \in Event /\ "neigh" \in DOMAIN Head(nlq)
      BY <1>2, <1>16, HeadIsEvent DEF ReceiveNeigh, QueueOK
    <3>2. "route" \notin DOMAIN Head(nlq)
      BY <3>1 DEF Event
    <3> QED
      BY <3>2 DEF IsDefault
  <2>2. /\ nlq # <<>> /\ nlq' = Tail(nlq) /\ phase = "idle" /\ phase' = "idle"
        /\ UNCHANGED <<up, fib, hw, loopVars>> /\ ~disturbed
    BY <1>16 DEF ReceiveNeigh, routeVars, kernelVars
  <2> QED
    BY <1>2, <2>1, <2>2, OtherIsHandled DEF FibIsSomewhere
<1>17. CASE ReceiveDefaultOrOther
  <2>1. /\ nlq # <<>> /\ nlq' = Tail(nlq) /\ phase = "idle"
        /\ UNCHANGED <<up, fib, hw, skipped>> /\ ~disturbed
    BY <1>17 DEF ReceiveDefaultOrOther, ReceiveRoute, kernelVars
  <2>2. Somewhere
    BY <2>1 DEF FibIsSomewhere
  <2>3. CASE IsDefault(Head(nlq))
    BY <1>17, <2>1, <2>2, <2>3, DefaultIsTaken
  <2>4. CASE ~IsDefault(Head(nlq))
    <3>1. phase' = "idle" /\ overread' = overread
      BY <1>17, <2>4 DEF ReceiveDefaultOrOther, ReceiveRoute, Concerns, IsDefault
    <3> QED
      BY <1>2, <2>1, <2>2, <2>4, <3>1, OtherIsHandled DEF loopVars
  <2> QED
    BY <2>3, <2>4
<1>18. ASSUME NEW start \in Starts, NEW ok \in [Pipe -> BOOLEAN], FinishRoute(start, ok)
       PROVE  Somewhere'
  <2>1. fib' = fib /\ ~disturbed
    BY <1>18 DEF FinishRoute, kernelVars
  <2> QED
    BY <1>18, <2>1, ListIsProgrammed DEF FibIsSomewhere
<1>19. CASE WalkRoute
  <2>1. fib' = fib /\ ~disturbed
    BY <1>19 DEF WalkRoute, kernelVars, socketVars
  <2> QED
    BY <1>19, <2>1, WalkCollects DEF FibIsSomewhere
<1>20. CASE UNCHANGED vars
  <2>1. UNCHANGED somewhereVars
    BY <1>20 DEF vars, somewhereVars, routeVars, kernelVars, socketVars, loopVars
  <2> QED
    BY <1>5, <2>1
<1>21. CASE Kernel
  BY <1>3, <1>5, <1>7, <1>8, <1>10, <1>11, <1>12, <1>13, <1>21 DEF Kernel
<1>22. CASE Thread
  BY <1>14, <1>15, <1>16, <1>17, <1>18, <1>19, <1>22 DEF Thread
<1> QED
  BY <1>20, <1>21, <1>22 DEF Next

(* With at most MAX_GATEWAY next hops in a route, the members of every      *)
(* group the default route uses are its gateways once all is handled,       *)
(* provided that its last notification got through and was walked from its  *)
(* first slot to its last; whatever went wrong before is repaired           *)
(* (switchlink_route.c:140-299).                                            *)
THEOREM ExactOnUsedPipesCorrect ==
    ASSUME MaxHops <= MaxGateway
    PROVE  Spec => []ExactOnUsedPipes
<1>1. Init => FibIsSomewhere
  BY DEF Init, FibIsSomewhere
<1>2. RestOK /\ RouteTypeOK /\ FibIsSomewhere /\ [Next]_vars => FibIsSomewhere'
  BY FibStep
<1>3. RestOK /\ FibIsSomewhere => ExactOnUsedPipes
  <2> SUFFICES ASSUME RestOK, FibIsSomewhere, Settled, ~overread, ~skipped
               PROVE  \A p \in Pipe : FibOn(p) # {} => hw[p] = FibOn(p)
    BY DEF ExactOnUsedPipes
  <2>1. nlq = <<>> /\ phase = "idle" /\ ~disturbed
    BY DEF Settled
  <2>2. fib = <<>> \/ InDevice
    BY <2>1 DEF FibIsSomewhere, Somewhere, InQueue, InWalk, InList
  <2>3. CASE fib = <<>>
    BY <2>3 DEF FibOn
  <2> QED
    BY <2>2, <2>3 DEF InDevice
<1>4. Spec => []RouteTypeOK
  BY SwitchlinkImplementsHandlers, RouteTypeCorrect, PTL
<1> QED
  BY <1>1, <1>2, <1>3, <1>4, RestCorrect, PTL DEF Spec
=============================================================================
