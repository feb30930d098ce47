------------------------ MODULE SwitchlinkRouteProofs ------------------------
(***************************************************************************)
(* The safety of the route half, for any gateways, pipes and routes, any    *)
(* start of the loop, any reading past an attribute and any failing write.  *)
(*                                                                         *)
(* That the enabled members were announced is not inductive: a member comes *)
(* from the gateway list, and the list from the receive buffer, which holds *)
(* more than the last message.  The strengthening says that both hold only  *)
(* gateways some message named.                                            *)
(***************************************************************************)
EXTENDS SwitchlinkRoute, TLAPS

(* Every gateway in the receive buffer, leftovers included, was named.      *)
BufferAnnounced == \A i \in DOMAIN rxbuf : rxbuf[i] \in Gateway => rxbuf[i] \in announced

(* Every gateway in gw_list was named. *)
ListAnnounced == \A i \in DOMAIN gwList : gwList[i] \in Gateway => gwList[i] \in announced

(* A walk under way stands at a slot of the buffer and has room for it.     *)
WalkHasRoom == phase = "walk" => hop <= Len(rxbuf) /\ Len(gwList) < MaxGateway

RouteInv ==
    RouteTypeOK /\ BufferAnnounced /\ ListAnnounced /\ WalkHasRoom /\ MembersWereAnnounced

-----------------------------------------------------------------------------

(* The next hops of a message are a sequence. *)
LEMMA HopsAreSequence ==
    ASSUME NEW m \in RouteMsg
    PROVE  /\ m.hops \in Seq(NextHop)
           /\ DOMAIN m.hops = 1 .. Len(m.hops)
  BY DEF RouteMsg

(* What recvmsg leaves in the buffer: a sequence whose slots are hops of    *)
(* the message or older slots (switchlink_main.c:72-99).                    *)
LEMMA OverlaySlots ==
    ASSUME rxbuf \in Seq(NextHop), NEW m \in RouteMsg
    PROVE  /\ Overlay(m) \in Seq(NextHop)
           /\ \A i \in DOMAIN Overlay(m) :
                \/ i \in DOMAIN m.hops /\ Overlay(m)[i] = m.hops[i]
                \/ i \in DOMAIN rxbuf /\ Overlay(m)[i] = rxbuf[i]
<1>1. m.hops \in Seq(NextHop) /\ DOMAIN m.hops = 1 .. Len(m.hops) /\ Len(m.hops) \in Nat
  BY HopsAreSequence
<1>2. DOMAIN rxbuf = 1 .. Len(rxbuf) /\ Len(rxbuf) \in Nat
  OBVIOUS
<1>3. CASE ~IsMultipath(m)
  BY <1>3 DEF Overlay
<1>4. CASE IsMultipath(m)
  <2> DEFINE n == IF Len(m.hops) > Len(rxbuf) THEN Len(m.hops) ELSE Len(rxbuf)
             f == [i \in 1..n |-> IF i <= Len(m.hops) THEN m.hops[i] ELSE rxbuf[i]]
  <2>1. Overlay(m) = f
    BY <1>4 DEF Overlay
  <2>2. n \in Nat
    BY <1>1, <1>2
  <2>3. \A i \in 1..n :
           \/ i \in DOMAIN m.hops /\ f[i] = m.hops[i]
           \/ i \in DOMAIN rxbuf /\ f[i] = rxbuf[i]
    BY <1>1, <1>2
  <2>4. \A i \in 1..n : f[i] \in NextHop
    BY <1>1, <1>2, <2>3
  <2>5. f \in Seq(NextHop)
    <3>1. f \in [1..n -> NextHop]
      BY <2>4
    <3> HIDE DEF n, f
    <3> QED
      BY <2>2, <3>1 DEF Seq
  <2> QED
    BY <2>1, <2>3, <2>5
<1> QED
  BY <1>3, <1>4

(* A single next hop fits into gw_list, and a walk begins inside the buffer *)
(* (switchlink_route.c:140-167,253-256).                                    *)
LEMMA ReceiveStarts ==
    ASSUME rxbuf \in Seq(NextHop), NEW m \in RouteMsg, ReceiveRoute(m)
    PROVE  /\ phase' \in {"idle", "walk", "program"}
           /\ gwList' \in Seq(NextHop) /\ Len(gwList') <= MaxGateway
           /\ gwList' = <<>> \/ gwList' = m.hops
           /\ phase' = "walk" => gwList' = <<>> /\ 1 <= Len(rxbuf')
<1>1. m.hops \in Seq(NextHop) /\ Len(m.hops) \in Nat
  BY HopsAreSequence
<1>2. /\ phase' = IF ~Concerns(m) THEN "idle"
                 ELSE IF IsMultipath(m) THEN "walk" ELSE "program"
      /\ gwList' = IF phase' = "program" THEN m.hops ELSE <<>>
      /\ rxbuf' = Overlay(m)
  BY DEF ReceiveRoute
<1>3. CASE ~Concerns(m)
  <2>1. phase' = "idle" /\ gwList' = <<>>
    BY <1>2, <1>3
  <2>2. <<>> \in Seq(NextHop) /\ Len(<<>>) = 0 /\ 0 <= MaxGateway
    BY RouteAssumption
  <2> QED
    BY <2>1, <2>2
<1>4. CASE Concerns(m) /\ IsMultipath(m)
  <2>1. phase' = "walk" /\ gwList' = <<>>
    BY <1>2, <1>4
  <2>2. Overlay(m) = [i \in 1 .. (IF Len(m.hops) > Len(rxbuf) THEN Len(m.hops) ELSE Len(rxbuf)) |->
                         IF i <= Len(m.hops) THEN m.hops[i] ELSE rxbuf[i]]
    BY <1>4 DEF Overlay
  <2>3. Len(m.hops) > 1
    BY <1>4 DEF IsMultipath
  <2>4. DOMAIN Overlay(m) = 1 .. (IF Len(m.hops) > Len(rxbuf) THEN Len(m.hops) ELSE Len(rxbuf))
    BY <2>2
  <2>5. Overlay(m) \in Seq(NextHop)
    BY OverlaySlots
  <2>6. 1 <= Len(rxbuf')
    BY <1>1, <1>2, <2>3, <2>4, <2>5
  <2> QED
    BY <2>1, <2>6, RouteAssumption
<1>5. CASE Concerns(m) /\ ~IsMultipath(m)
  <2>1. phase' = "program" /\ gwList' = m.hops
    BY <1>2, <1>5
  <2>2. Len(m.hops) <= 1
    BY <1>1, <1>5 DEF IsMultipath
  <2> QED
    BY <1>1, <2>1, <2>2, RouteAssumption
<1> QED
  BY <1>3, <1>4, <1>5

(* One round of the walk collects a slot of the buffer or nothing, and never*)
(* more than gw_list holds (switchlink_route.c:146-160).                    *)
LEMMA WalkRound ==
    ASSUME RouteTypeOK, WalkHasRoom, ProcessEcmp
    PROVE  /\ gwList' \in Seq(NextHop) /\ Len(gwList') <= MaxGateway
           /\ hop' \in Nat \ {0} /\ phase' \in {"idle", "walk", "program"}
           /\ WalkHasRoom'
           /\ hop \in DOMAIN rxbuf
           /\ \A i \in DOMAIN gwList' : \/ i \in DOMAIN gwList /\ gwList'[i] = gwList[i]
                                       \/ gwList'[i] = rxbuf[hop]
<1>1. /\ hop \in Nat \ {0} /\ rxbuf \in Seq(NextHop) /\ gwList \in Seq(NextHop)
      /\ hop <= Len(rxbuf) /\ Len(gwList) < MaxGateway /\ MaxGateway \in Nat
  BY RouteAssumption DEF RouteTypeOK, WalkHasRoom, ProcessEcmp
<1>2. hop \in DOMAIN rxbuf /\ rxbuf[hop] \in NextHop
  BY <1>1
<1>3. gwList' = IF up[rxbuf[hop]] THEN Append(gwList, rxbuf[hop]) ELSE gwList
  BY DEF ProcessEcmp
<1>4. /\ gwList' \in Seq(NextHop) /\ Len(gwList') <= MaxGateway
      /\ \A i \in DOMAIN gwList' : \/ i \in DOMAIN gwList /\ gwList'[i] = gwList[i]
                                  \/ gwList'[i] = rxbuf[hop]
  <2>1. CASE up[rxbuf[hop]]
    BY <1>1, <1>2, <1>3, <2>1
  <2>2. CASE ~up[rxbuf[hop]]
    BY <1>1, <1>3, <2>2
  <2> QED
    BY <2>1, <2>2
<1>5. /\ rxbuf' = rxbuf
      /\ \/ /\ hop < Len(rxbuf) /\ Len(gwList') < MaxGateway
            /\ hop' = hop + 1 /\ phase' = "walk"
         \/ hop' = 1 /\ phase' \in {"idle", "program"}
  BY DEF ProcessEcmp, RoomFor
<1> QED
  BY <1>1, <1>2, <1>4, <1>5 DEF WalkHasRoom

-----------------------------------------------------------------------------

(* The invariant is preserved by every step of the handler and of the       *)
(* environment.                                                            *)
LEMMA RouteInvStep ==
    ASSUME RouteInv, [RouteNext]_routeVars
    PROVE  RouteInv'
<1> USE RouteAssumption
<1>1. CASE RestartLoop
  <2>1. rxbuf' \in Seq(NextHop) /\ \A i \in DOMAIN rxbuf' : rxbuf'[i] \in Gateway => rxbuf'[i] \in announced
    <3>1. CASE rxbuf' = rxbuf
      BY <3>1 DEF RouteInv, RouteTypeOK, BufferAnnounced
    <3>2. CASE rxbuf' = <<>>
      BY <3>2
    <3> QED
      BY <1>1, <3>1, <3>2 DEF RestartLoop
  <2> QED
    BY <1>1, <2>1 DEF RestartLoop, RouteInv, RouteTypeOK, BufferAnnounced, ListAnnounced,
                      WalkHasRoom, MembersWereAnnounced
<1>2. ASSUME NEW m \in RouteMsg, ReceiveRoute(m)
      PROVE  RouteInv'
  <2>1. /\ rxbuf' = Overlay(m)
        /\ announced' = announced \cup NamedGateways(m)
        /\ hop' = 1 /\ UNCHANGED <<up, hw>>
    BY <1>2 DEF ReceiveRoute
  <2>2. /\ rxbuf' \in Seq(NextHop)
        /\ \A i \in DOMAIN rxbuf' : \/ i \in DOMAIN m.hops /\ rxbuf'[i] = m.hops[i]
                                    \/ i \in DOMAIN rxbuf /\ rxbuf'[i] = rxbuf[i]
    BY <2>1, OverlaySlots DEF RouteInv, RouteTypeOK
  <2>3. \A i \in DOMAIN m.hops : m.hops[i] \in Gateway => m.hops[i] \in announced'
    BY <2>1 DEF NamedGateways
  <2>4. BufferAnnounced'
    BY <2>1, <2>2, <2>3 DEF RouteInv, BufferAnnounced
  <2>5. /\ phase' \in {"idle", "walk", "program"}
        /\ gwList' \in Seq(NextHop) /\ Len(gwList') <= MaxGateway
        /\ gwList' = <<>> \/ gwList' = m.hops
        /\ phase' = "walk" => gwList' = <<>> /\ 1 <= Len(rxbuf')
    BY <1>2, ReceiveStarts DEF RouteInv, RouteTypeOK
  <2>6. ListAnnounced'
    BY <2>3, <2>5 DEF ListAnnounced
  <2>7. announced' \subseteq Gateway
    BY <2>1 DEF NamedGateways, RouteInv, RouteTypeOK
  <2>8. RouteTypeOK'
    BY <2>1, <2>2, <2>5, <2>7 DEF RouteInv, RouteTypeOK
  <2>9. MembersWereAnnounced'
    BY <2>1 DEF RouteInv, MembersWereAnnounced
  <2>10. WalkHasRoom'
    BY <2>1, <2>5, RouteAssumption DEF WalkHasRoom
  <2> QED
    BY <2>4, <2>6, <2>8, <2>9, <2>10 DEF RouteInv
<1>3. ASSUME NEW start \in Starts, NEW ok \in [Pipe -> BOOLEAN], ProgramSelectors(start, ok)
      PROVE  RouteInv'
  <2>1. \A p \in Pipe : Chosen(p, start) \subseteq GatewaysOn(p) \cap announced
    BY DEF Chosen, Walked, GatewaysOn, RouteInv, ListAnnounced
  <2>2. \A p \in Pipe : hw'[p] = hw[p] \/ hw'[p] = Chosen(p, start)
    BY <1>3 DEF ProgramSelectors
  <2>3. MembersWereAnnounced'
    BY <1>3, <2>1, <2>2 DEF ProgramSelectors, MembersWereAnnounced, RouteInv
  <2>4. hw' \in [Pipe -> SUBSET Gateway]
    BY <1>3, <2>1 DEF ProgramSelectors, GatewaysOn, RouteInv, RouteTypeOK
  <2>5. phase' = "idle" /\ gwList' = <<>> /\ UNCHANGED <<up, rxbuf, hop, announced>>
    BY <1>3 DEF ProgramSelectors
  <2>6. RouteTypeOK'
    BY <2>4, <2>5 DEF RouteInv, RouteTypeOK
  <2> QED
    BY <2>3, <2>5, <2>6 DEF RouteInv, BufferAnnounced, ListAnnounced, WalkHasRoom
<1>4. ASSUME NEW g \in NextHop, IntfChange(g)
      PROVE  RouteInv'
  BY <1>4 DEF IntfChange, RouteInv, RouteTypeOK, BufferAnnounced, ListAnnounced, WalkHasRoom,
              MembersWereAnnounced
<1>5. CASE ProcessEcmp
  <2>1. /\ gwList' \in Seq(NextHop) /\ Len(gwList') <= MaxGateway
        /\ hop' \in Nat \ {0} /\ phase' \in {"idle", "walk", "program"}
        /\ WalkHasRoom'
        /\ hop \in DOMAIN rxbuf
        /\ \A i \in DOMAIN gwList' : \/ i \in DOMAIN gwList /\ gwList'[i] = gwList[i]
                                    \/ gwList'[i] = rxbuf[hop]
    BY <1>5, WalkRound DEF RouteInv
  <2>2. UNCHANGED <<up, rxbuf, hw, announced>>
    BY <1>5 DEF ProcessEcmp
  <2>3. ListAnnounced'
    BY <2>1, <2>2 DEF RouteInv, ListAnnounced, BufferAnnounced
  <2>4. RouteTypeOK'
    BY <2>1, <2>2 DEF RouteInv, RouteTypeOK
  <2> QED
    BY <2>1, <2>2, <2>3, <2>4 DEF RouteInv, BufferAnnounced, MembersWereAnnounced
<1>6. CASE UNCHANGED routeVars
  BY <1>6 DEF routeVars, RouteInv, RouteTypeOK, BufferAnnounced, ListAnnounced, WalkHasRoom,
              MembersWereAnnounced
<1> QED
  BY <1>1, <1>2, <1>3, <1>4, <1>5, <1>6 DEF RouteNext

(* The strengthened invariant of process_route_msg. *)
LEMMA RouteInvCorrect == RouteSpec => []RouteInv
<1>1. RouteInit => RouteInv
  BY RouteAssumption
  DEF RouteInit, RouteInv, RouteTypeOK, BufferAnnounced, ListAnnounced, WalkHasRoom,
      MembersWereAnnounced
<1>2. RouteInv /\ [RouteNext]_routeVars => RouteInv'
  BY RouteInvStep
<1> QED
  BY <1>1, <1>2, PTL DEF RouteSpec

-----------------------------------------------------------------------------

(* The variables of the route half keep their types. *)
THEOREM RouteTypeCorrect == RouteSpec => []RouteTypeOK
<1>1. RouteInv => RouteTypeOK
  BY DEF RouteInv
<1> QED
  BY <1>1, RouteInvCorrect, PTL

(* The device selects only gateways that routes named, each on the pipe     *)
(* that owns its port (switchlink_route.c:140-167,259-276).                 *)
THEOREM MembersWereAnnouncedCorrect == RouteSpec => []MembersWereAnnounced
<1>1. RouteInv => MembersWereAnnounced
  BY DEF RouteInv
<1> QED
  BY <1>1, RouteInvCorrect, PTL

(* No step leaves a group that had an enabled member without one            *)
(* (switchlink_route.c:278-299).                                            *)
THEOREM NeverBlackholedCorrect == RouteSpec => NeverBlackholed
<1>1. [RouteNext]_routeVars => [\A p \in Pipe : hw[p] # {} => hw'[p] # {}]_routeVars
  <2> SUFFICES ASSUME [RouteNext]_routeVars, NEW p \in Pipe, hw[p] # {}, routeVars' # routeVars
               PROVE  hw'[p] # {}
    OBVIOUS
  <2>1. ASSUME NEW start \in Starts, NEW ok \in [Pipe -> BOOLEAN], ProgramSelectors(start, ok)
        PROVE  hw'[p] # {}
    BY <2>1 DEF ProgramSelectors
  <2>2. CASE hw' = hw
    BY <2>2
  <2> QED
    BY <2>1, <2>2 DEF RouteNext, RestartLoop, ReceiveRoute, ProcessEcmp, IntfChange
<1> QED
  BY <1>1, PTL DEF RouteSpec, NeverBlackholed

(* The detailed handler implements the abstract selector: collecting the    *)
(* next hops is an announcement, the writes are one programming step.       *)
THEOREM RouteImplementsSelector == RouteSpec => ImplementsSelector
<1>1. RouteInit => Selector!SelectorInit
  BY DEF RouteInit, Selector!SelectorInit
<1>2. RouteInv /\ [RouteNext]_routeVars => [Selector!SelectorNext]_(Selector!selectorVars)
  <2> SUFFICES ASSUME RouteInv, [RouteNext]_routeVars
               PROVE  [Selector!SelectorNext]_(Selector!selectorVars)
    OBVIOUS
  <2>1. ASSUME NEW m \in RouteMsg, ReceiveRoute(m)
        PROVE  Selector!Announce(NamedGateways(m)) /\ NamedGateways(m) \in SUBSET Gateway
    BY <2>1 DEF ReceiveRoute, Selector!Announce, NamedGateways
  <2>2. ASSUME NEW start \in Starts, NEW ok \in [Pipe -> BOOLEAN], ProgramSelectors(start, ok)
        PROVE  \E P \in SUBSET Pipe, f \in [Pipe -> SUBSET Gateway] : Selector!Program(P, f)
    <3> DEFINE P == {p \in Pipe : Chosen(p, start) # {} /\ ok[p]}
               f == [p \in Pipe |-> Chosen(p, start)]
    <3>1. \A p \in Pipe : Chosen(p, start) \subseteq GatewaysOn(p) \cap announced
      BY DEF Chosen, Walked, GatewaysOn, RouteInv, ListAnnounced
    <3>2. f \in [Pipe -> SUBSET Gateway] /\ P \in SUBSET Pipe
      BY <3>1 DEF GatewaysOn
    <3>3. \A p \in P : f[p] # {} /\ f[p] \subseteq Selector!GatewaysOn(p) \cap announced
      BY <3>1 DEF Selector!GatewaysOn, GatewaysOn
    <3>4. hw' = [p \in Pipe |-> IF p \in P THEN f[p] ELSE hw[p]]
      BY <2>2 DEF ProgramSelectors
    <3>5. announced' = announced
      BY <2>2 DEF ProgramSelectors
    <3>6. Selector!Program(P, f)
      BY <3>3, <3>4, <3>5 DEF Selector!Program
    <3> QED
      BY <3>2, <3>6
  <2>3. CASE UNCHANGED <<announced, hw>>
    BY <2>3 DEF Selector!selectorVars
  <2> QED
    BY <2>1, <2>2, <2>3
    DEF RouteNext, routeVars, RestartLoop, ProcessEcmp, IntfChange, Selector!SelectorNext
<1> QED
  BY <1>1, <1>2, RouteInvCorrect, PTL DEF RouteSpec, ImplementsSelector, Selector!SelectorSpec
=============================================================================
