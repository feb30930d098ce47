------------------------------ MODULE IgwPipeline ------------------------------
(***************************************************************************)
(* The data plane: a packet's way through a gateway and from gateway to    *)
(* gateway.  A gateway is a folded Tofino with four pipes.  Pipes 0 and 2  *)
(* face the network and run P02_Ingress and P02_Egress, pipes 1 and 3 are  *)
(* looped back and run P13_Egress and then P13_Ingress:                    *)
(*                                                                         *)
(*   in:   P02_Ingress -> P13_Egress -> P13_Ingress -> P02_Egress -> wire  *)
(*   out:  P02_Ingress -----------------------------> P02_Egress -> wire   *)
(*                                                                         *)
(* A bandwidth is enforced in one place, so a packet may be redirected: to *)
(* another cluster (the shared_bw_vip, TOF_AZ_x), and inside a cluster to  *)
(* the gateway owning the dl_ip its bandwidth hashes to (TOF_EIP_x).  The  *)
(* vxlan header of a redirected packet carries the kind of redirect (tof). *)
(*                                                                         *)
(* One packet is followed at a time: packets share only the tables, the    *)
(* meters and the history below.  The model is of a four-pipe device with  *)
(* enabled members in the selectors of both external pipes.                *)
(***************************************************************************)
EXTENDS Integers, FiniteSets, IgwTables

CONSTANTS
    Gateways,      \* the gateways, of all clusters
    Cluster,       \* Cluster[g]: the cluster of g, whose gateways share a vip
    SharedBwVip,   \* SharedBwVip[c]: the cluster whose vip is shared_bw_vip in c
    DlOwner,       \* DlOwner[c][b]: the gateway announcing the dl_ip that b hashes to
    NoShared,      \* shared_bandwidth_id = 0, and a bandwidth_id without a meter
    Entries,       \* what the controller may write for an eip
    Tables,        \* what the tables may hold at first
    MaxPackets,    \* bound: packets that arrive from outside
    MaxUpdates,    \* bound: entries rewritten by the controller
    NoPacket

VARIABLES
    tab,       \* tab[g][e]: the entries of eip e on gateway g
    pkt,       \* the packet being followed, or NoPacket
    meters,    \* history: where each bandwidth was enforced
    packets, updates

vars == <<tab, pkt, meters, packets, updates>>

(* known: the eip has entries in the redirect, meter and SNAT tables;      *)
(* path: what the VM location, nexthop and tunnel tables hold for it.      *)
EipEntry == [known: BOOLEAN, within: BOOLEAN, between: BOOLEAN,
             shared: Eips \union {NoShared},
             path: {"ok", "noVm", "noNexthop", "noTunnel"}]

ASSUME PipelineAssumption ==
    /\ SharedBwVip \in [{Cluster[g] : g \in Gateways} -> {Cluster[g] : g \in Gateways}]
    /\ DlOwner \in [{Cluster[g] : g \in Gateways} -> [Eips -> Gateways]]
    /\ NoShared \notin Eips
    /\ Entries \subseteq EipEntry
    /\ Tables \subseteq [Gateways -> [Eips -> Entries]]
    /\ MaxPackets \in Nat /\ MaxUpdates \in Nat

External == {0, 2}
Pipes == 0..3
Tofs == {"none", "AZ_IN", "EIP_IN", "AZ_OUT", "EIP_OUT"}

Packet == [gw: Gateways, at: {"P02_Ingress", "P13_Egress", "P13_Ingress", "P02_Egress", "wire"},
           igrPipe: External,     \* the pipe of bg_md.igr_port
           pipe: Pipes,           \* the pipe the packet is in
           to: {"eip", "vip", "dl", "vm", "internet", "local", "fromCpu", "mcast6", "unknown"},
           next: SUBSET Gateways, \* the gateways a redirected packet may reach
           outer: {"v4", "v6", "none"},   \* hdr.ipv4 / hdr.ipv6 valid
           vx: {"none", "std", "jd"},     \* hdr.vxlan valid, and its type
           tof: Tofs, eip: Eips,
           send: {"MATCH", "DL", "SKIP"}, \* bg_md.tunnel_direct_send
           type: {"IN", "OUT"},           \* bg_md.igr_tunnel_type
           dl: BOOLEAN,                   \* bg_md.dl_pkt
           needDrop: BOOLEAN,             \* bg_md.need_drop
           color: {"green", "red"},       \* bg_md.meter_packet_color
           bw: Eips \union {NoShared},    \* bg_md.eip_or_bwid (out), meta bandwidth_id (in)
           shared: Eips \union {NoShared},  \* bg_md.shared_bandwidth_id
           metered: {0, 1, 2},                \* history: passes through an eip meter
           stamped: SUBSET Tofs,          \* history: redirects so far
           again: SUBSET Tofs]            \* history: redirects repeated

Init ==
    /\ tab \in Tables
    /\ pkt = NoPacket
    /\ meters = {}
    /\ packets = 0 /\ updates = 0

-----------------------------------------------------------------------------
(* eip_x_redirect, modify_jd_vxlan and select_redirect_ip.                 *)

(* The packet re-addressed and stamped with a tof.                         *)
Redirected(p, tof, to, next) ==
    [p EXCEPT !.vx = "jd", !.tof = tof, !.to = to, !.next = next, !.send = "DL",
              !.stamped = @ \union {tof},
              !.again = @ \union ({tof} \cap p.stamped)]

Vip(c) == {g \in Gateways : Cluster[g] = c}

HashByAddress(p, ent) == p.eip

(* The bandwidth that the dl_ip is chosen by.                              *)
HashIndex(p, ent) == IF ent.shared # NoShared THEN ent.shared ELSE p.eip

ModifyJdVxlan(p, ent, az, eip) ==
    CASE JdRedirect(p, ent, az) = "az"  -> Redirected(p, az, "vip", Vip(SharedBwVip[Cluster[p.gw]]))
      [] JdRedirect(p, ent, az) = "eip" ->
           Redirected(p, eip, "dl", {DlOwner[Cluster[p.gw]][HashIndex(p, ent)]})
      [] OTHER -> p

(* The redirect table's entry; a miss sets no flag (nop).                  *)
Lookup(p) ==
    LET ent == tab[p.gw][p.eip]
    IN IF ent.known THEN ent ELSE [ent EXCEPT !.within = FALSE, !.between = FALSE,
                                              !.shared = NoShared]

(* A miss leaves the bandwidth id as it was: junk.                          *)
EipRedirect(p, junk, az, eip) ==
    ModifyJdVxlan([p EXCEPT !.shared = Lookup(p).shared,
                            !.bw = IF Lookup(p).known THEN p.eip ELSE junk],
                  Lookup(p), az, eip)

(* A packet through the meter of its bandwidth id, and through the meter of its     *)
(* shared bandwidth unless already red.  The meters may color it at will.  *)
EipMeter(p) ==
    IF p.bw # NoShared
    THEN {[p EXCEPT !.color = c, !.metered = IF @ = 2 THEN 2 ELSE @ + 1] : c \in {"green", "red"}}
    ELSE {p}

MeetsSharedMeter(p) == p.color # "red" /\ p.eip \in V4 /\ p.shared # NoShared

SharedMeter(p) ==
    IF MeetsSharedMeter(p) THEN {[p EXCEPT !.color = c] : c \in {"green", "red"}} ELSE {p}

Enforced(p, id) == [id |-> id, type |-> p.type, gw |-> p.gw, pipe |-> p.pipe]
EipEnforced(p) == IF p.bw # NoShared THEN {Enforced(p, <<"eip", p.bw>>)} ELSE {}
SharedEnforced(p) == IF MeetsSharedMeter(p) THEN {Enforced(p, <<"shared", p.shared>>)} ELSE {}

-----------------------------------------------------------------------------
At(stage) == pkt # NoPacket /\ pkt.at = stage
Dropped == pkt' = NoPacket

(* A packet from the network or the CPU reaches a gateway.  The color is   *)
(* not initialised by ig_init_bridge.                                      *)
Fresh(g, to, outer, vx, e, i, c) ==
    [gw |-> g, at |-> "P02_Ingress", igrPipe |-> i, pipe |-> i, to |-> to, next |-> {},
     outer |-> outer, vx |-> vx, tof |-> "none", eip |-> e, send |-> "MATCH", type |-> "IN",
     dl |-> FALSE, needDrop |-> FALSE, color |-> c, bw |-> NoShared, shared |-> NoShared,
     metered |-> 0, stamped |-> {}, again |-> {}]

Arrive ==
    /\ pkt = NoPacket /\ packets < MaxPackets
    /\ \E g \in Gateways, e \in Eips, i \in External, c \in {"green", "red"} :
          \/ pkt' = Fresh(g, "eip", IF e \in V4 THEN "v4" ELSE "v6", "none", e, i, c)
          \/ pkt' = Fresh(g, "vip", "v4", "std", e, i, c)
          \/ \E to \in {"local", "fromCpu"} : pkt' = Fresh(g, to, "v4", "none", e, i, c)
          \/ pkt' = Fresh(g, "unknown", "none", "none", e, i, c)
          \/ pkt' = Fresh(g, "mcast6", "v6", "none", e, i, c)
    /\ packets' = packets + 1
    /\ UNCHANGED <<tab, meters, updates>>

(* process_local_packet: packets to and from the CPU skip every table.     *)
P02IngressLocal ==
    /\ At("P02_Ingress") /\ pkt.to \in {"local", "fromCpu"}
    /\ pkt' = [pkt EXCEPT !.send = "SKIP", !.at = "P02_Egress"]
    /\ UNCHANGED <<tab, meters, packets, updates>>

P02IngressDrop ==
    /\ At("P02_Ingress") /\ pkt.to \notin {"local", "fromCpu"}
    /\ IgwIpType(pkt) = NeedDrop
    /\ Dropped
    /\ UNCHANGED <<tab, meters, packets, updates>>

(* The packet leaves P02_Ingress with its bridge header.                    *)
Bridged(p, hit, pipe) ==
    [p EXCEPT !.type = hit.type, !.dl = hit.dl, !.pipe = pipe,
              !.at = IF pipe \in External THEN "P02_Egress" ELSE "P13_Egress"]

(* Nothing initialises eip_or_bwid on the way out: a packet of an eip that  *)
(* is not known may carry the bandwidth id of any other.                   *)
P02IngressOut ==
    /\ At("P02_Ingress") /\ pkt.to \notin {"local", "fromCpu"}
    /\ \E junk \in Eips \union {NoShared} :
       LET hit == IgwIpType(pkt)
           q == EipRedirect(pkt, junk, "AZ_OUT", "EIP_OUT")
       IN /\ hit.type = "OUT"
          /\ pkt' = Bridged(q, hit, EcmpGroup(PipelineFix(q, hit.egr), q.shared # NoShared))
    /\ UNCHANGED <<tab, meters, packets, updates>>

(* have_shared_bd and inner_have_shared_bd hold IPv4 addresses only.       *)
P02IngressIn ==
    /\ At("P02_Ingress") /\ pkt.to \notin {"local", "fromCpu"}
    /\ LET hit == IgwIpType(pkt)
           bd == pkt.eip \in V4 /\ Lookup(pkt).shared # NoShared
       IN /\ hit.type = "IN"
          /\ pkt' = Bridged(pkt, hit, EcmpGroup(hit.egr, bd))
    /\ UNCHANGED <<tab, meters, packets, updates>>

EnCapVxlan(p) ==
    IF ~p.dl /\ p.vx = "none" THEN [p EXCEPT !.vx = "std", !.outer = "v4"] ELSE p

MeterDlToo ==
    /\ At("P13_Egress")
    /\ LET q == [EipRedirect(EnCapVxlan(pkt), NoShared, "AZ_IN", "EIP_IN") EXCEPT !.at = "P13_Ingress"]
       IN pkt' \in EipMeter(q) /\ meters' = meters \union EipEnforced(q)
    /\ UNCHANGED <<tab, packets, updates>>

P13Egress ==
    /\ At("P13_Egress")
    /\ LET q == [EipRedirect(EnCapVxlan(pkt), NoShared, "AZ_IN", "EIP_IN") EXCEPT !.at = "P13_Ingress"]
       IN IF q.send = "MATCH"
          THEN pkt' \in EipMeter(q) /\ meters' = meters \union EipEnforced(q)
          ELSE pkt' = q /\ UNCHANGED meters
    /\ UNCHANGED <<tab, packets, updates>>

(* Back to the port the packet came in by.                                  *)
ToIngressPort(p) == [p EXCEPT !.pipe = p.igrPipe, !.at = "P02_Egress"]

VmLocation(p) ==
    IF tab[p.gw][p.eip].path \in {"noVm", "noNexthop"} THEN [p EXCEPT !.needDrop = TRUE] ELSE p

P13Ingress ==
    /\ At("P13_Ingress")
    /\ IF pkt.send = "MATCH"
       THEN /\ \E q \in SharedMeter(pkt) :
                  IF q.color = "red" THEN Dropped ELSE pkt' = ToIngressPort(VmLocation(q))
            /\ meters' = meters \union SharedEnforced(pkt)
       ELSE pkt' = ToIngressPort(pkt) /\ UNCHANGED meters
    /\ UNCHANGED <<tab, packets, updates>>

InternetIn(p) ==
    [p EXCEPT !.to = "vm", !.vx = "std", !.tof = "none",
              !.needDrop = IF tab[p.gw][p.eip].path = "noTunnel" THEN TRUE ELSE @]

InternetOut(p) == [p EXCEPT !.to = "internet", !.vx = "none", !.outer = "none"]

Transmit(p) ==
    IF p.to # "local" /\ EgressSystemAcl(p) THEN Dropped ELSE pkt' = [p EXCEPT !.at = "wire"]

P02Egress ==
    /\ At("P02_Egress")
    /\ IF pkt.send = "MATCH" /\ pkt.type = "OUT"
       THEN \E q \in EipMeter(pkt) : \E r \in SharedMeter(q) :
               /\ Transmit(InternetOut(r))
               /\ meters' = meters \union EipEnforced(pkt) \union SharedEnforced(q)
       ELSE /\ Transmit(IF pkt.send = "MATCH" THEN InternetIn(pkt) ELSE pkt)
            /\ UNCHANGED meters
    /\ UNCHANGED <<tab, packets, updates>>

(* The network delivers: a redirected packet to a gateway, where it enters  *)
(* P02_Ingress with a new bridge header, any other to its destination.     *)
Deliver ==
    /\ At("wire")
    /\ IF pkt.send = "DL"
       THEN \E g \in pkt.next, i \in External, c \in {"green", "red"} :
               pkt' = [pkt EXCEPT !.gw = g, !.at = "P02_Ingress", !.igrPipe = i, !.pipe = i,
                                  !.send = "MATCH", !.needDrop = FALSE, !.color = c,
                                  !.next = {}, !.bw = NoShared, !.shared = NoShared]
       ELSE pkt' = NoPacket
    /\ UNCHANGED <<tab, meters, packets, updates>>

(* The controller rewrites an eip's entries, one gateway at a time.         *)
Update ==
    /\ updates < MaxUpdates
    /\ \E g \in Gateways, e \in Eips, ent \in Entries : tab' = [tab EXCEPT ![g][e] = ent]
    /\ updates' = updates + 1
    /\ UNCHANGED <<pkt, meters, packets>>

Forward == P02IngressLocal \/ P02IngressDrop \/ P02IngressOut \/ P02IngressIn
           \/ P13Egress \/ P13Ingress \/ P02Egress \/ Deliver

Next == Arrive \/ Forward \/ Update

Spec == Init /\ [][Next]_vars

(* The device and the network forward a packet they hold.                  *)
FairSpec == Spec /\ WF_vars(Forward)

-----------------------------------------------------------------------------
PipelineTypeOK ==
    /\ tab \in [Gateways -> [Eips -> Entries]]
    /\ pkt \in Packet \union {NoPacket}
    /\ \A m \in meters : m.gw \in Gateways /\ m.pipe \in Pipes
    /\ packets \in 0..MaxPackets /\ updates \in 0..MaxUpdates

(* However the tables of the gateways differ, and whatever the controller   *)
(* rewrites while the packet travels, it is redirected at most once to     *)
(* another cluster and once inside a cluster, in one direction: the keys   *)
(* of modify_jd_vxlan on the tof of the redirect before.                   *)
RedirectOnce ==
    pkt # NoPacket =>
        /\ pkt.again = {}
        /\ pkt.stamped \subseteq {"AZ_IN", "EIP_IN"} \/ pkt.stamped \subseteq {"AZ_OUT", "EIP_OUT"}

(* A packet that a missing VM, nexthop or tunnel condemned (need_drop), or  *)
(* a meter colored red, never leaves the gateway, although the verdict is  *)
(* only carried out one or two passes later, by an ACL that asks for an    *)
(* IPv4 header which those passes add and remove.                          *)
DroppedNeverLeaves ==
    pkt # NoPacket /\ pkt.at = "wire" /\ pkt.to # "local" =>
        ~pkt.needDrop /\ pkt.color # "red"

(* Through however many gateways a packet goes, a meter of an eip sees it   *)
(* once, on the last: EipInMeter and EipOutMeter pass over DL_PACKETs.     *)
MeteredOnce ==
    pkt # NoPacket /\ pkt.at = "wire" =>
        pkt.metered = IF pkt.to \in {"vm", "internet"} /\ pkt.bw # NoShared THEN 1 ELSE 0

(* What the controllers have to agree on: shared[e] is the bandwidth that e  *)
(* shares, home[b] the cluster that keeps bandwidth b.  Every gateway knows  *)
(* every eip, redirects it to that cluster and, inside it, to a gateway.     *)
Bandwidth(shared, e) == IF shared[e] # NoShared THEN shared[e] ELSE e

Agree(t, shared, home) ==
    \A g \in Gateways, e \in Eips :
        /\ t[g][e].known /\ t[g][e].within
        /\ t[g][e].shared = shared[e]
        /\ t[g][e].between <=> Cluster[g] # home[Bandwidth(shared, e)]
        /\ t[g][e].between => SharedBwVip[Cluster[g]] = home[Bandwidth(shared, e)]

(* A bandwidth is enforced by one meter in each direction: all its packets *)
(* are metered on the same gateway and in the same pipe, wherever they     *)
(* enter and whichever of the eips sharing it they belong to.              *)
OneMeter ==
    \A m, n \in meters : m.id = n.id /\ m.type = n.type => m.gw = n.gw /\ m.pipe = n.pipe

(* Every packet is delivered or dropped: no gateways send it to and fro.   *)
Terminates == pkt # NoPacket ~> pkt = NoPacket
====
