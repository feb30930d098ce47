--------------------------- MODULE IgwPipelineProofs ---------------------------
(***************************************************************************)
(* Proofs about IgwPipeline, for any gateways, clusters, eips and tables.   *)
(***************************************************************************)
EXTENDS IgwPipeline, TLAPS

Tabs == [Gateways -> [Eips -> Entries]]

LEMMA LookupType ==
    ASSUME tab \in Tabs, NEW p \in Packet
    PROVE  Lookup(p) \in EipEntry
<1>1. tab[p.gw][p.eip] \in EipEntry
  BY PipelineAssumption DEF Tabs, Packet
<1> QED BY <1>1 DEF Lookup, EipEntry

LEMMA RedirectedType ==
    ASSUME NEW p \in Packet, NEW tof \in Tofs, NEW to \in {"vip", "dl"}, NEW next \in SUBSET Gateways
    PROVE  Redirected(p, tof, to, next) \in Packet
BY ZenonT(60) DEF Redirected, Packet

LEMMA ModifyType ==
    ASSUME NEW p \in Packet, NEW ent \in EipEntry, NEW az \in Tofs, NEW eip \in Tofs
    PROVE  ModifyJdVxlan(p, ent, az, eip) \in Packet
<1>1. HashIndex(p, ent) \in Eips
  BY DEF HashIndex, EipEntry, Packet
<1>2. DlOwner[Cluster[p.gw]][HashIndex(p, ent)] \in Gateways
  BY <1>1, PipelineAssumption DEF Packet
<1>3. Vip(SharedBwVip[Cluster[p.gw]]) \subseteq Gateways
  BY DEF Vip
<1> QED BY <1>2, <1>3, RedirectedType DEF ModifyJdVxlan, JdRedirect

LEMMA EipRedirectType ==
    ASSUME tab \in Tabs, NEW p \in Packet, NEW az \in Tofs, NEW eip \in Tofs,
           NEW junk \in Eips \union {NoShared}
    PROVE  EipRedirect(p, junk, az, eip) \in Packet
<1>1. Lookup(p) \in EipEntry
  BY LookupType
<1>2. ASSUME NEW bw \in Eips \union {NoShared}
      PROVE  [p EXCEPT !.shared = Lookup(p).shared, !.bw = bw] \in Packet
  BY <1>1 DEF EipEntry, Packet
<1>3. (IF Lookup(p).known THEN p.eip ELSE junk) \in Eips \union {NoShared}
  BY DEF Packet
<1> QED BY <1>1, <1>2, <1>3, ModifyType DEF EipRedirect

-----------------------------------------------------------------------------
(***************************************************************************)
(* What holds of a packet wherever it is.  The tof says which redirects lie *)
(* behind it; a vxlan header has an outer IPv4 header, and so has a packet  *)
(* with a verdict; the eip's meter has been passed exactly when the packet  *)
(* is past it.                                                             *)
(***************************************************************************)
TofTellsRedirects(p) ==
    /\ p.again = {}
    /\ p.stamped \subseteq {"AZ_IN", "EIP_IN"} \/ p.stamped \subseteq {"AZ_OUT", "EIP_OUT"}
    /\ p.to # "vm" =>
          /\ p.tof = "none" => p.stamped = {}
          /\ p.tof \in {"AZ_IN", "AZ_OUT"} => p.stamped = {p.tof}
          /\ p.tof = "EIP_IN" => p.stamped \subseteq {"AZ_IN", "EIP_IN"}
          /\ p.tof = "EIP_OUT" => p.stamped \subseteq {"AZ_OUT", "EIP_OUT"}

OnTheWay(p) ==
    /\ p.to \in {"vm", "internet"} => p.at = "wire"
    /\ p.send = "DL" => p.to \in {"vip", "dl"}
    /\ p.at = "P02_Ingress" => p.send = "MATCH"
    /\ p.at = "P13_Egress" => p.send = "MATCH" /\ p.type = "IN"
    /\ p.at = "P13_Ingress" => p.send # "SKIP" /\ p.type = "IN"

HeaderForVerdict(p) ==
    /\ p.at # "wire" \/ p.send = "DL" => (p.vx # "none" => p.outer = "v4")
    /\ p.at # "wire" \/ p.send = "DL" => (p.dl => p.vx = "jd")
    /\ p.at = "P13_Ingress" => p.outer = "v4"
    /\ p.at = "P02_Egress" /\ p.type = "IN" /\ p.send = "MATCH" => p.outer = "v4"
    /\ p.needDrop => p.at = "P02_Egress" /\ p.type = "IN" /\ p.send = "MATCH"
    /\ p.at = "wire" /\ p.to # "local" => p.color # "red"

PastMeter(p) ==
    CASE p.at = "P13_Ingress"                    -> p.send = "MATCH" /\ p.bw # NoShared
      [] p.at = "P02_Egress"                     -> p.send = "MATCH" /\ p.type = "IN" /\ p.bw # NoShared
      [] p.at = "wire"                           -> p.to \in {"vm", "internet"} /\ p.bw # NoShared
      [] OTHER                                   -> FALSE

PacketInv(p) ==
    /\ TofTellsRedirects(p)
    /\ OnTheWay(p)
    /\ HeaderForVerdict(p)
    /\ p.metered = IF PastMeter(p) THEN 1 ELSE 0

PipelineInv ==
    /\ PipelineTypeOK
    /\ pkt # NoPacket => PacketInv(pkt)

-----------------------------------------------------------------------------
(* What a redirect control does to a packet: which fields it keeps, and how *)
(* the tof it finds decides what it may do.                                *)
Kept(p, r) ==
    /\ r.at = p.at /\ r.outer = p.outer /\ r.type = p.type /\ r.dl = p.dl
    /\ r.needDrop = p.needDrop /\ r.color = p.color /\ r.metered = p.metered
    /\ r.eip = p.eip

Passed(p, r) ==
    /\ r.vx = p.vx /\ r.tof = p.tof /\ r.to = p.to /\ r.send = p.send
    /\ r.stamped = p.stamped /\ r.again = p.again

Stamped(p, r, tof, to) ==
    /\ p.vx # "none" /\ r.vx = "jd" /\ r.tof = tof /\ r.to = to /\ r.send = "DL"
    /\ r.stamped = p.stamped \union {tof}
    /\ r.again = p.again \union ({tof} \cap p.stamped)

RedirectedAs(p, r, az, eip) ==
    \/ Passed(p, r)
    \/ p.tof = "none" /\ Stamped(p, r, az, "vip")
    \/ p.tof \in {"none", az} /\ Stamped(p, r, eip, "dl")

LEMMA RedirectOutcome ==
    ASSUME tab \in Tabs, NEW p \in Packet, NEW az \in Tofs, NEW eip \in Tofs,
           NEW junk \in Eips \union {NoShared}
    PROVE  LET r == EipRedirect(p, junk, az, eip)
           IN Kept(p, r) /\ RedirectedAs(p, r, az, eip)
<1> DEFINE ent == Lookup(p)
           bw == IF ent.known THEN p.eip ELSE junk
           q == [p EXCEPT !.shared = ent.shared, !.bw = bw]
<1>1. ent \in EipEntry /\ bw \in Eips \union {NoShared}
  BY LookupType DEF Packet
<1> HIDE DEF bw
<1>2. q \in Packet /\ Kept(p, q) /\ Passed(p, q)
  BY <1>1 DEF EipEntry, Packet, Kept, Passed
<1>3. EipRedirect(p, junk, az, eip) = ModifyJdVxlan(q, ent, az, eip)
  BY DEF EipRedirect, bw
<1> HIDE DEF q, ent
<1>4. ASSUME NEW tof \in Tofs, NEW to \in {"vip", "dl"}, NEW next \in SUBSET Gateways,
             p.vx # "none"
      PROVE  /\ Kept(p, Redirected(q, tof, to, next))
             /\ Stamped(p, Redirected(q, tof, to, next), tof, to)
  BY <1>2, <1>4 DEF Redirected, Packet, Kept, Passed, Stamped
<1>5. HashIndex(q, ent) \in Eips
  BY <1>1, <1>2 DEF HashIndex, EipEntry, Packet
<1>6. {DlOwner[Cluster[q.gw]][HashIndex(q, ent)]} \in SUBSET Gateways
  BY <1>2, <1>5, PipelineAssumption DEF Packet
<1>7. Vip(SharedBwVip[Cluster[q.gw]]) \in SUBSET Gateways
  BY DEF Vip
<1>8. CASE q.vx # "none" /\ q.tof = "none" /\ ent.between
  <2>1. EipRedirect(p, junk, az, eip) = Redirected(q, az, "vip", Vip(SharedBwVip[Cluster[q.gw]]))
    BY <1>3, <1>8 DEF ModifyJdVxlan, JdRedirect
  <2> QED BY <2>1, <1>2, <1>4, <1>7, <1>8 DEF RedirectedAs, Passed
<1>9. CASE q.vx # "none" /\ q.tof \in {"none", az} /\ (q.tof = "none" => ~ent.between) /\ ent.within
  <2>1. EipRedirect(p, junk, az, eip) = Redirected(q, eip, "dl", {DlOwner[Cluster[q.gw]][HashIndex(q, ent)]})
    BY <1>3, <1>9 DEF ModifyJdVxlan, JdRedirect
  <2> QED BY <2>1, <1>2, <1>4, <1>6, <1>9 DEF RedirectedAs, Passed
<1>10. CASE /\ ~(q.vx # "none" /\ q.tof = "none" /\ ent.between)
            /\ ~(q.vx # "none" /\ q.tof \in {"none", az} /\ (q.tof = "none" => ~ent.between) /\ ent.within)
  <2>1. EipRedirect(p, junk, az, eip) = q
    BY <1>3, <1>10 DEF ModifyJdVxlan, JdRedirect
  <2> QED BY <2>1, <1>2 DEF RedirectedAs
<1> QED BY <1>8, <1>9, <1>10

Kinds == {<<"AZ_IN", "EIP_IN">>, <<"AZ_OUT", "EIP_OUT">>}

(* A redirect of either kind keeps the tof and the redirects in step.       *)
LEMMA RedirectKeepsTof ==
    ASSUME NEW p, NEW r, TofTellsRedirects(p), p.to # "vm", NEW k \in Kinds,
           RedirectedAs(p, r, k[1], k[2])
    PROVE  TofTellsRedirects(r)
<1>1. CASE Passed(p, r)
  BY <1>1 DEF Passed, TofTellsRedirects
<1>2. CASE p.tof = "none" /\ Stamped(p, r, k[1], "vip")
  BY <1>2 DEF Stamped, TofTellsRedirects, Kinds
<1>3. CASE p.tof = "none" /\ Stamped(p, r, k[2], "dl")
  BY <1>3 DEF Stamped, TofTellsRedirects, Kinds
<1>4. CASE p.tof = k[1] /\ Stamped(p, r, k[2], "dl")
  BY <1>4 DEF Stamped, TofTellsRedirects, Kinds
<1> QED BY <1>1, <1>2, <1>3, <1>4 DEF RedirectedAs

-----------------------------------------------------------------------------
(* The packets that come in, and the verdicts of igw_ip_type.               *)
LEMMA FreshInv ==
    ASSUME NEW g \in Gateways, NEW to \in {"eip", "vip", "local", "fromCpu", "unknown", "mcast6"},
           NEW outer \in {"v4", "v6", "none"}, NEW vx \in {"none", "std"}, NEW e \in Eips,
           NEW i \in External, NEW c \in {"green", "red"},
           vx = "std" => outer = "v4"
    PROVE  Fresh(g, to, outer, vx, e, i, c) \in Packet /\ PacketInv(Fresh(g, to, outer, vx, e, i, c))
<1> DEFINE f == Fresh(g, to, outer, vx, e, i, c)
<1>1. f \in Packet
  BY DEF Fresh, Packet, External, Pipes, Tofs
<1>2. TofTellsRedirects(f)
  BY DEF Fresh, TofTellsRedirects
<1>3. OnTheWay(f)
  BY DEF Fresh, OnTheWay
<1>4. HeaderForVerdict(f)
  BY DEF Fresh, HeaderForVerdict
<1>5. f.metered = IF PastMeter(f) THEN 1 ELSE 0
  BY DEF Fresh, PastMeter
<1> QED BY <1>1, <1>2, <1>3, <1>4, <1>5 DEF PacketInv

LEMMA ArriveInv == PipelineInv /\ Arrive => PipelineInv'
<1> SUFFICES ASSUME PipelineInv, Arrive PROVE PipelineInv'
  OBVIOUS
<1>1. pkt' \in Packet /\ PacketInv(pkt')
  <2>1. PICK g \in Gateways, e \in Eips, i \in External, c \in {"green", "red"} :
          \/ pkt' = Fresh(g, "eip", IF e \in V4 THEN "v4" ELSE "v6", "none", e, i, c)
          \/ pkt' = Fresh(g, "vip", "v4", "std", e, i, c)
          \/ \E to \in {"local", "fromCpu"} : pkt' = Fresh(g, to, "v4", "none", e, i, c)
          \/ pkt' = Fresh(g, "unknown", "none", "none", e, i, c)
          \/ pkt' = Fresh(g, "mcast6", "v6", "none", e, i, c)
    BY DEF Arrive
  <2> QED BY <2>1, FreshInv
<1>2. packets' \in 0..MaxPackets
  BY PipelineAssumption DEF PipelineInv, PipelineTypeOK, Arrive
<1> QED BY <1>1, <1>2 DEF PipelineInv, PipelineTypeOK, Arrive, PacketInv, TofTellsRedirects, OnTheWay, HeaderForVerdict, PastMeter

LEMMA HitType ==
    ASSUME NEW p \in Packet, NEW hit, hit = IgwIpType(p), hit.type \in {"IN", "OUT"}
    PROVE  /\ hit.dl \in BOOLEAN
           /\ hit.dl => p.vx = "jd"
           /\ hit.type = "IN" => hit.egr \in {1, 3}
           /\ hit.type = "OUT" => hit.egr \in {0, 2}
<1>1. \/ hit = OutHit(p, FALSE) \/ hit = InHit(p, FALSE)
      \/ p.vx = "jd" /\ (hit = OutHit(p, TRUE) \/ hit = InHit(p, TRUE))
      \/ hit = NeedDrop
  <2> DEFINE A == p.to = "vip" /\ p.vx = "std" /\ p.tof = "none"
             B == p.vx = "jd" /\ <<p.to, p.tof>> \in Redirects("OUT")
             C == p.vx = "jd" /\ <<p.to, p.tof>> \in Redirects("IN")
             D == p.to = "mcast6" \/ p.outer = "none"
  <2>1. hit = CASE A -> OutHit(p, FALSE) [] B -> OutHit(p, TRUE) [] C -> InHit(p, TRUE)
                [] D -> NeedDrop [] OTHER -> InHit(p, FALSE)
    BY DEF IgwIpType
  <2>2. B \/ C => p.vx = "jd"
    OBVIOUS
  <2> HIDE DEF A, B, C, D
  <2> QED BY <2>1, <2>2
<1>2. hit # NeedDrop
  BY DEF NeedDrop
<1>3. \A d \in BOOLEAN : /\ OutHit(p, d).type = "OUT" /\ OutHit(p, d).dl = d
                         /\ OutHit(p, d).egr \in {0, 2}
                         /\ InHit(p, d).type = "IN" /\ InHit(p, d).dl = d
                         /\ InHit(p, d).egr \in {1, 3}
  BY DEF OutHit, InHit
<1> QED BY <1>1, <1>2, <1>3

-----------------------------------------------------------------------------
(* One lemma per pass.  Each leaves a packet that is well-formed again.      *)
MetersType(ms) == \A m \in ms : m.gw \in Gateways /\ m.pipe \in Pipes

LEMMA PassKeepsInv ==
    ASSUME PipelineInv, UNCHANGED <<tab, packets, updates>>, MetersType(meters'),
           pkt' = NoPacket \/ (pkt' \in Packet /\ PacketInv(pkt'))
    PROVE  PipelineInv'
BY DEF PipelineInv, PipelineTypeOK, MetersType, PacketInv, TofTellsRedirects, OnTheWay,
       HeaderForVerdict, PastMeter

LEMMA LocalInv == PipelineInv /\ P02IngressLocal => PipelineInv'
<1> SUFFICES ASSUME PipelineInv, P02IngressLocal PROVE PipelineInv'
  OBVIOUS
<1>1. pkt \in Packet /\ PacketInv(pkt) /\ MetersType(meters)
  BY DEF PipelineInv, PipelineTypeOK, P02IngressLocal, At, MetersType
<1> DEFINE q == [pkt EXCEPT !.send = "SKIP", !.at = "P02_Egress"]
<1>2. q \in Packet
  BY <1>1, ZenonT(60) DEF Packet
<1>3. PacketInv(q)
  BY <1>1 DEF P02IngressLocal, At, Packet, PacketInv, TofTellsRedirects, OnTheWay,
              HeaderForVerdict, PastMeter
<1> QED BY <1>1, <1>2, <1>3, PassKeepsInv DEF P02IngressLocal

LEMMA BridgedInv ==
    ASSUME NEW p \in Packet, PacketInv(p), p.at = "P02_Ingress",
           NEW q \in Packet, Kept(p, q), TofTellsRedirects(q),
           (q.vx = p.vx /\ q.to = p.to /\ q.send = p.send)
             \/ (p.vx # "none" /\ q.vx = "jd" /\ q.to \in {"vip", "dl"} /\ q.send = "DL"),
           NEW hit, hit.type \in {"IN", "OUT"}, hit.dl \in BOOLEAN, hit.dl => p.vx = "jd",
           NEW pipe \in Pipes,
           hit.type = "IN" => q.send = "MATCH" /\ pipe \notin External,
           hit.type = "OUT" => pipe \in External
    PROVE  Bridged(q, hit, pipe) \in Packet /\ PacketInv(Bridged(q, hit, pipe))
<1> DEFINE b == Bridged(q, hit, pipe)
<1>1. b \in Packet
  <2>1. ASSUME NEW t \in {"IN", "OUT"}, NEW d \in BOOLEAN, NEW s \in {"P02_Egress", "P13_Egress"}
        PROVE  [q EXCEPT !.type = t, !.dl = d, !.pipe = pipe, !.at = s] \in Packet
    BY ZenonT(60) DEF Packet
  <2> QED BY <2>1 DEF Bridged
<1>2. /\ b.type = hit.type /\ b.dl = hit.dl /\ b.vx = q.vx /\ b.to = q.to /\ b.send = q.send
      /\ b.tof = q.tof /\ b.stamped = q.stamped /\ b.again = q.again
      /\ b.outer = p.outer /\ b.needDrop = p.needDrop /\ b.metered = p.metered
      /\ b.at = IF pipe \in External THEN "P02_Egress" ELSE "P13_Egress"
  BY DEF Bridged, Packet, Kept
<1> HIDE DEF b
<1>3. TofTellsRedirects(b)
  BY <1>2 DEF TofTellsRedirects
<1>4. OnTheWay(b)
  BY <1>2 DEF OnTheWay, PacketInv
<1>5. HeaderForVerdict(b)
  BY <1>2 DEF HeaderForVerdict, PacketInv, Packet
<1>6. b.metered = IF PastMeter(b) THEN 1 ELSE 0
  BY <1>2 DEF PastMeter, PacketInv
<1> QED BY <1>1, <1>3, <1>4, <1>5, <1>6 DEF PacketInv, b

LEMMA OutInv == PipelineInv /\ P02IngressOut => PipelineInv'
<1> SUFFICES ASSUME PipelineInv, P02IngressOut PROVE PipelineInv'
  OBVIOUS
<1>0. PICK junk \in Eips \union {NoShared} :
        LET hit == IgwIpType(pkt)
            q == EipRedirect(pkt, junk, "AZ_OUT", "EIP_OUT")
        IN /\ hit.type = "OUT"
           /\ pkt' = Bridged(q, hit, EcmpGroup(PipelineFix(q, hit.egr), q.shared # NoShared))
  BY DEF P02IngressOut
<1> DEFINE hit == IgwIpType(pkt)
           q == EipRedirect(pkt, junk, "AZ_OUT", "EIP_OUT")
           pipe == EcmpGroup(PipelineFix(q, hit.egr), q.shared # NoShared)
<1>1. /\ pkt \in Packet /\ PacketInv(pkt) /\ MetersType(meters) /\ tab \in Tabs
      /\ pkt.at = "P02_Ingress" /\ hit.type = "OUT"
      /\ pkt' = Bridged(q, hit, pipe)
  BY <1>0 DEF PipelineInv, PipelineTypeOK, P02IngressOut, At, MetersType, Tabs
<1>2. q \in Packet
  BY <1>1, EipRedirectType DEF Tofs
<1>3. Kept(pkt, q) /\ RedirectedAs(pkt, q, "AZ_OUT", "EIP_OUT")
  BY <1>1, RedirectOutcome DEF Tofs
<1>4. TofTellsRedirects(q)
  <2>1. pkt.to # "vm" /\ TofTellsRedirects(pkt)
    BY <1>1 DEF PacketInv, OnTheWay
  <2> DEFINE k == <<"AZ_OUT", "EIP_OUT">>
  <2>2. k \in Kinds /\ k[1] = "AZ_OUT" /\ k[2] = "EIP_OUT"
    BY DEF Kinds
  <2> HIDE DEF k
  <2>3. RedirectedAs(pkt, q, k[1], k[2])
    BY <1>3, <2>2
  <2> QED BY <2>1, <2>2, <2>3, RedirectKeepsTof
<1>5. hit.dl \in BOOLEAN /\ (hit.dl => pkt.vx = "jd") /\ hit.egr \in {0, 2}
  BY <1>1, HitType
<1>6. pipe \in External
  <2>1. PipelineFix(q, hit.egr) \in {0, 2}
    BY <1>5 DEF PipelineFix
  <2> QED BY <2>1 DEF EcmpGroup, External
<1>7. pipe \in Pipes
  BY <1>6 DEF External, Pipes
<1>8. \/ q.vx = pkt.vx /\ q.to = pkt.to /\ q.send = pkt.send
      \/ pkt.vx # "none" /\ q.vx = "jd" /\ q.to \in {"vip", "dl"} /\ q.send = "DL"
  BY <1>3 DEF RedirectedAs, Passed, Stamped
<1> HIDE DEF hit, q, pipe
<1>9. pkt' \in Packet /\ PacketInv(pkt')
  BY <1>1, <1>2, <1>3, <1>4, <1>5, <1>6, <1>7, <1>8, BridgedInv
<1> QED BY <1>1, <1>9, PassKeepsInv DEF P02IngressOut

LEMMA InInv == PipelineInv /\ P02IngressIn => PipelineInv'
<1> SUFFICES ASSUME PipelineInv, P02IngressIn PROVE PipelineInv'
  OBVIOUS
<1> DEFINE hit == IgwIpType(pkt)
           bd == pkt.eip \in V4 /\ Lookup(pkt).shared # NoShared
           pipe == EcmpGroup(hit.egr, bd)
<1>1. /\ pkt \in Packet /\ PacketInv(pkt) /\ MetersType(meters)
      /\ pkt.at = "P02_Ingress" /\ hit.type = "IN"
      /\ pkt' = Bridged(pkt, hit, pipe)
  BY DEF PipelineInv, PipelineTypeOK, P02IngressIn, At, MetersType
<1>2. hit.dl \in BOOLEAN /\ (hit.dl => pkt.vx = "jd") /\ hit.egr \in {1, 3}
  BY <1>1, HitType
<1>3. pipe \in {1, 3}
  BY <1>2 DEF EcmpGroup
<1>4. pipe \in Pipes /\ pipe \notin External
  BY <1>3 DEF External, Pipes
<1>5. pkt.send = "MATCH" /\ TofTellsRedirects(pkt) /\ Kept(pkt, pkt)
  BY <1>1 DEF PacketInv, OnTheWay, Kept
<1> HIDE DEF hit, pipe
<1>6. pkt' \in Packet /\ PacketInv(pkt')
  BY <1>1, <1>2, <1>4, <1>5, BridgedInv
<1> QED BY <1>1, <1>6, PassKeepsInv DEF P02IngressIn

(* A meter changes the color and the count of meters passed.                *)
Recolored(p, q) ==
    /\ q.gw = p.gw /\ q.at = p.at /\ q.igrPipe = p.igrPipe /\ q.pipe = p.pipe
    /\ q.to = p.to /\ q.outer = p.outer /\ q.vx = p.vx /\ q.tof = p.tof /\ q.send = p.send
    /\ q.type = p.type /\ q.dl = p.dl /\ q.needDrop = p.needDrop /\ q.bw = p.bw
    /\ q.stamped = p.stamped /\ q.again = p.again /\ q.eip = p.eip

LEMMA EipMeterOutcome ==
    ASSUME NEW p \in Packet, p.metered = 0, NEW q \in EipMeter(p)
    PROVE  q \in Packet /\ Recolored(p, q) /\ q.metered = IF p.bw # NoShared THEN 1 ELSE 0
<1>1. CASE p.bw # NoShared
  <2>1. PICK c \in {"green", "red"} :
          q = [p EXCEPT !.color = c, !.metered = IF @ = 2 THEN 2 ELSE @ + 1]
    BY <1>1 DEF EipMeter
  <2>2. q = [p EXCEPT !.color = c, !.metered = 1]
    BY <2>1
  <2>3. q \in Packet
    <3>1. [p EXCEPT !.color = c] \in Packet
      BY DEF Packet
    <3>2. ASSUME NEW r \in Packet PROVE [r EXCEPT !.metered = 1] \in Packet
      BY DEF Packet
    <3> QED BY <2>2, <3>1, <3>2
  <2>4. Recolored(p, q)
    BY <2>2 DEF Packet, Recolored
  <2>5. q.metered = 1
    BY <2>2 DEF Packet
  <2> QED BY <1>1, <2>3, <2>4, <2>5
<1>2. CASE p.bw = NoShared
  BY <1>2 DEF EipMeter, Recolored
<1> QED BY <1>1, <1>2

LEMMA SharedMeterOutcome ==
    ASSUME NEW p \in Packet, NEW q \in SharedMeter(p)
    PROVE  q \in Packet /\ Recolored(p, q) /\ q.metered = p.metered
<1>1. CASE MeetsSharedMeter(p)
  <2>1. PICK c \in {"green", "red"} : q = [p EXCEPT !.color = c]
    BY <1>1 DEF SharedMeter
  <2> QED BY <2>1 DEF Packet, Recolored
<1>2. CASE ~MeetsSharedMeter(p)
  BY <1>2 DEF SharedMeter, Recolored
<1> QED BY <1>1, <1>2

LEMMA EnforcedType ==
    ASSUME NEW p \in Packet
    PROVE  MetersType(EipEnforced(p)) /\ MetersType(SharedEnforced(p))
BY DEF MetersType, EipEnforced, SharedEnforced, Enforced, Packet

(* EnCapVxlan leaves every packet with an outer IPv4 header.                *)
LEMMA EnCapOutcome ==
    ASSUME NEW p \in Packet, PacketInv(p), p.at = "P13_Egress"
    PROVE  LET e == EnCapVxlan(p)
           IN /\ e \in Packet /\ e.outer = "v4"
              /\ e.at = p.at /\ e.to = p.to /\ e.tof = p.tof /\ e.send = p.send /\ e.type = p.type
              /\ e.stamped = p.stamped /\ e.again = p.again /\ e.metered = p.metered
              /\ e.needDrop = p.needDrop /\ e.dl = p.dl /\ (e.dl => e.vx = "jd")
<1>1. CASE ~p.dl /\ p.vx = "none"
  <2>1. EnCapVxlan(p) = [p EXCEPT !.vx = "std", !.outer = "v4"]
    BY <1>1 DEF EnCapVxlan
  <2> QED BY <1>1, <2>1, ZenonT(60) DEF Packet
<1>2. CASE ~(~p.dl /\ p.vx = "none")
  <2>1. EnCapVxlan(p) = p
    BY <1>2 DEF EnCapVxlan
  <2>2. p.vx # "none" /\ p.outer = "v4" /\ (p.dl => p.vx = "jd")
    BY <1>2 DEF PacketInv, HeaderForVerdict
  <2> QED BY <2>1, <2>2
<1> QED BY <1>1, <1>2

LEMMA EgressInv == PipelineInv /\ P13Egress => PipelineInv'
<1> SUFFICES ASSUME PipelineInv, P13Egress PROVE PipelineInv'
  OBVIOUS
<1> DEFINE e == EnCapVxlan(pkt)
           r == EipRedirect(e, NoShared, "AZ_IN", "EIP_IN")
           q == [r EXCEPT !.at = "P13_Ingress"]
<1>1. /\ pkt \in Packet /\ PacketInv(pkt) /\ MetersType(meters) /\ tab \in Tabs
      /\ pkt.at = "P13_Egress"
      /\ IF q.send = "MATCH"
         THEN pkt' \in EipMeter(q) /\ meters' = meters \union EipEnforced(q)
         ELSE pkt' = q /\ UNCHANGED meters
  BY DEF PipelineInv, PipelineTypeOK, P13Egress, At, MetersType, Tabs
<1>2. /\ e \in Packet /\ e.outer = "v4"
      /\ e.at = pkt.at /\ e.to = pkt.to /\ e.tof = pkt.tof /\ e.send = pkt.send /\ e.type = pkt.type
      /\ e.stamped = pkt.stamped /\ e.again = pkt.again /\ e.metered = pkt.metered
      /\ e.needDrop = pkt.needDrop /\ e.dl = pkt.dl /\ (e.dl => e.vx = "jd")
  BY <1>1, EnCapOutcome
<1> HIDE DEF e
<1>3. r \in Packet /\ Kept(e, r) /\ RedirectedAs(e, r, "AZ_IN", "EIP_IN")
  BY <1>1, <1>2, EipRedirectType, RedirectOutcome DEF Tofs
<1>4. TofTellsRedirects(r)
  <2>1. e.to # "vm" /\ TofTellsRedirects(e)
    BY <1>1, <1>2 DEF PacketInv, OnTheWay, TofTellsRedirects
  <2> DEFINE k == <<"AZ_IN", "EIP_IN">>
  <2>2. k \in Kinds /\ k[1] = "AZ_IN" /\ k[2] = "EIP_IN"
    BY DEF Kinds
  <2> HIDE DEF k
  <2>3. RedirectedAs(e, r, k[1], k[2])
    BY <1>3, <2>2
  <2> QED BY <2>1, <2>2, <2>3, RedirectKeepsTof
<1>5. /\ r.outer = "v4" /\ r.type = "IN" /\ r.metered = 0 /\ ~r.needDrop
      /\ r.dl => r.vx = "jd"
      /\ r.to \notin {"vm", "internet"} /\ r.send \in {"MATCH", "DL"}
      /\ r.send = "DL" => r.to \in {"vip", "dl"}
  <2>1. /\ pkt.type = "IN" /\ pkt.metered = 0 /\ ~pkt.needDrop
        /\ pkt.to \notin {"vm", "internet"} /\ pkt.send = "MATCH"
    BY <1>1 DEF PacketInv, OnTheWay, HeaderForVerdict, PastMeter
  <2> QED BY <1>2, <1>3, <2>1 DEF Kept, RedirectedAs, Passed, Stamped
<1> HIDE DEF r
<1>6. q \in Packet /\ Recolored([r EXCEPT !.at = "P13_Ingress"], q) /\ q.at = "P13_Ingress"
      /\ q.metered = 0 /\ q.outer = "v4" /\ q.type = "IN" /\ ~q.needDrop
      /\ (q.dl => q.vx = "jd") /\ q.to = r.to /\ q.send = r.send
      /\ q.tof = r.tof /\ q.stamped = r.stamped /\ q.again = r.again
  BY <1>3, <1>5 DEF Packet, Recolored
<1> HIDE DEF q
<1>7. ASSUME NEW s, Recolored(q, s), s.metered = IF q.send = "MATCH" /\ q.bw # NoShared THEN 1 ELSE 0
      PROVE  PacketInv(s)
  BY <1>4, <1>5, <1>6, <1>7 DEF Recolored, PacketInv, TofTellsRedirects, OnTheWay,
                               HeaderForVerdict, PastMeter
<1>8. CASE q.send = "MATCH"
  <2>1. pkt' \in Packet /\ PacketInv(pkt')
    BY <1>1, <1>6, <1>7, <1>8, EipMeterOutcome
  <2>2. MetersType(meters')
    BY <1>1, <1>6, <1>8, EnforcedType DEF MetersType
  <2> QED BY <2>1, <2>2, PassKeepsInv DEF P13Egress
<1>9. CASE q.send # "MATCH"
  <2>1. pkt' \in Packet /\ PacketInv(pkt')
    BY <1>1, <1>6, <1>7, <1>9 DEF Recolored
  <2> QED BY <1>1, <1>9, <2>1, PassKeepsInv DEF P13Egress
<1> QED BY <1>8, <1>9

LEMMA IngressInv == PipelineInv /\ P13Ingress => PipelineInv'
<1> SUFFICES ASSUME PipelineInv, P13Ingress PROVE PipelineInv'
  OBVIOUS
<1>1. /\ pkt \in Packet /\ PacketInv(pkt) /\ MetersType(meters) /\ tab \in Tabs
      /\ pkt.at = "P13_Ingress"
  BY DEF PipelineInv, PipelineTypeOK, P13Ingress, At, MetersType, Tabs
<1>2. ASSUME NEW q \in Packet, Recolored(pkt, q), q.metered = pkt.metered,
             NEW v \in Packet, v = q \/ (v = [q EXCEPT !.needDrop = TRUE] /\ q.send = "MATCH")
      PROVE  ToIngressPort(v) \in Packet /\ PacketInv(ToIngressPort(v))
  <2> DEFINE t == ToIngressPort(v)
  <2>1. t \in Packet
    <3>1. v.igrPipe \in External
      BY DEF Packet
    <3>2. v.igrPipe \in Pipes
      BY <3>1 DEF External, Pipes
    <3>3. ASSUME NEW x \in Pipes PROVE [v EXCEPT !.pipe = x, !.at = "P02_Egress"] \in Packet
      BY ZenonT(60) DEF Packet
    <3> QED BY <3>2, <3>3 DEF ToIngressPort
  <2>2. /\ t.at = "P02_Egress" /\ t.to = q.to /\ t.outer = q.outer /\ t.vx = q.vx
        /\ t.tof = q.tof /\ t.send = q.send /\ t.type = q.type /\ t.dl = q.dl /\ t.bw = q.bw
        /\ t.stamped = q.stamped /\ t.again = q.again /\ t.metered = q.metered
        /\ (t.needDrop => q.needDrop \/ q.send = "MATCH")
    BY <1>2 DEF ToIngressPort, Packet
  <2> HIDE DEF t
  <2>3. PacketInv(t)
    BY <1>1, <1>2, <2>2 DEF Recolored, PacketInv, TofTellsRedirects, OnTheWay, HeaderForVerdict, PastMeter
  <2> QED BY <2>1, <2>3 DEF t
<1>3. CASE pkt.send = "MATCH"
  <2>1. PICK q \in SharedMeter(pkt) :
          IF q.color = "red" THEN Dropped ELSE pkt' = ToIngressPort(VmLocation(q))
    BY <1>3 DEF P13Ingress
  <2>2. q \in Packet /\ Recolored(pkt, q) /\ q.metered = pkt.metered
    BY <1>1, SharedMeterOutcome
  <2>3. /\ VmLocation(q) \in Packet
        /\ VmLocation(q) = q \/ (VmLocation(q) = [q EXCEPT !.needDrop = TRUE] /\ q.send = "MATCH")
    <3>1. [q EXCEPT !.needDrop = TRUE] \in Packet
      BY <2>2 DEF Packet
    <3>2. q.send = "MATCH"
      BY <1>3, <2>2 DEF Recolored
    <3>3. VmLocation(q) = q \/ VmLocation(q) = [q EXCEPT !.needDrop = TRUE]
      BY DEF VmLocation
    <3> QED BY <2>2, <3>1, <3>2, <3>3
  <2>4. pkt' = NoPacket \/ (pkt' \in Packet /\ PacketInv(pkt'))
    BY <1>2, <2>1, <2>2, <2>3 DEF Dropped
  <2>5. MetersType(meters')
    BY <1>1, <1>3, EnforcedType DEF P13Ingress, MetersType
  <2> QED BY <2>4, <2>5, PassKeepsInv DEF P13Ingress
<1>4. CASE pkt.send # "MATCH"
  <2>1. Recolored(pkt, pkt) /\ pkt' = ToIngressPort(pkt)
    BY <1>4 DEF Recolored, P13Ingress
  <2>2. pkt' \in Packet /\ PacketInv(pkt')
    BY <1>1, <1>2, <2>1
  <2> QED BY <1>1, <1>4, <2>2, PassKeepsInv DEF P13Ingress
<1> QED BY <1>3, <1>4

(* What the last pass leaves is dropped, or has neither verdict nor red.     *)
LEMMA TransmitInv ==
    ASSUME NEW p \in Packet, p.at = "P02_Egress", TofTellsRedirects(p), Transmit(p),
           p.needDrop => p.outer = "v4", p.to = "local" => ~p.needDrop,
           p.send = "DL" => /\ p.to \in {"vip", "dl"}
                            /\ p.vx # "none" => p.outer = "v4"
                            /\ p.dl => p.vx = "jd",
           p.metered = IF p.to \in {"vm", "internet"} /\ p.bw # NoShared THEN 1 ELSE 0
    PROVE  pkt' = NoPacket \/ (pkt' \in Packet /\ PacketInv(pkt'))
<1>1. CASE p.to # "local" /\ EgressSystemAcl(p)
  BY <1>1 DEF Transmit, Dropped
<1>2. CASE ~(p.to # "local" /\ EgressSystemAcl(p))
  <2> DEFINE w == [p EXCEPT !.at = "wire"]
  <2>1. pkt' = w
    BY <1>2 DEF Transmit
  <2>2. w \in Packet
    BY DEF Packet
  <2>3. /\ w.at = "wire" /\ w.to = p.to /\ w.tof = p.tof /\ w.send = p.send /\ w.bw = p.bw
        /\ w.stamped = p.stamped /\ w.again = p.again /\ w.metered = p.metered
        /\ w.needDrop = p.needDrop /\ w.color = p.color
        /\ w.vx = p.vx /\ w.outer = p.outer /\ w.dl = p.dl
    BY DEF Packet
  <2>4. ~p.needDrop /\ (p.to # "local" => p.color # "red")
    BY <1>2 DEF EgressSystemAcl
  <2> HIDE DEF w
  <2>5. PacketInv(w)
    BY <2>3, <2>4 DEF PacketInv, TofTellsRedirects, OnTheWay, HeaderForVerdict, PastMeter
  <2> QED BY <2>1, <2>2, <2>5
<1> QED BY <1>1, <1>2

LEMMA DropInv == PipelineInv /\ P02IngressDrop => PipelineInv'
<1> SUFFICES ASSUME PipelineInv, P02IngressDrop PROVE PipelineInv'
  OBVIOUS
<1>1. pkt' = NoPacket /\ UNCHANGED <<tab, packets, updates>> /\ MetersType(meters')
  BY DEF PipelineInv, PipelineTypeOK, P02IngressDrop, Dropped, MetersType
<1> QED BY <1>1, PassKeepsInv

LEMMA LastPassInv == PipelineInv /\ P02Egress => PipelineInv'
<1> SUFFICES ASSUME PipelineInv, P02Egress PROVE PipelineInv'
  OBVIOUS
<1>1. /\ pkt \in Packet /\ PacketInv(pkt) /\ MetersType(meters)
      /\ pkt.at = "P02_Egress" /\ pkt.to \notin {"vm", "internet"}
      /\ UNCHANGED <<tab, packets, updates>>
  BY DEF PipelineInv, PipelineTypeOK, P02Egress, At, MetersType, PacketInv, OnTheWay
<1>2. CASE pkt.send = "MATCH" /\ pkt.type = "OUT"
  <2>1. pkt.metered = 0 /\ ~pkt.needDrop /\ TofTellsRedirects(pkt)
    BY <1>1, <1>2 DEF PacketInv, PastMeter, HeaderForVerdict
  <2>2. PICK q \in EipMeter(pkt) : \E r \in SharedMeter(q) :
           /\ Transmit(InternetOut(r))
           /\ meters' = meters \union EipEnforced(pkt) \union SharedEnforced(q)
    BY <1>2 DEF P02Egress
  <2> PICK r \in SharedMeter(q) :
           /\ Transmit(InternetOut(r))
           /\ meters' = meters \union EipEnforced(pkt) \union SharedEnforced(q)
    BY <2>2
  <2>3. q \in Packet /\ Recolored(pkt, q) /\ q.metered = IF pkt.bw # NoShared THEN 1 ELSE 0
    BY <1>1, <2>1, EipMeterOutcome
  <2>4. r \in Packet /\ Recolored(q, r) /\ r.metered = q.metered
    BY <2>3, SharedMeterOutcome
  <2> DEFINE o == InternetOut(r)
  <2>5. /\ o \in Packet /\ o.at = r.at /\ o.to = "internet" /\ o.tof = r.tof /\ o.send = r.send
        /\ o.bw = r.bw /\ o.stamped = r.stamped /\ o.again = r.again
        /\ o.metered = r.metered /\ o.needDrop = r.needDrop
    BY <2>4, ZenonT(60) DEF InternetOut, Packet
  <2> HIDE DEF o
  <2>6. TofTellsRedirects(o) /\ o.at = "P02_Egress" /\ ~o.needDrop /\ o.send = "MATCH"
        /\ o.metered = IF o.bw # NoShared THEN 1 ELSE 0
    BY <1>1, <1>2, <2>1, <2>3, <2>4, <2>5 DEF Recolored, TofTellsRedirects
  <2>7. Transmit(o)
    BY DEF o
  <2>8. pkt' = NoPacket \/ (pkt' \in Packet /\ PacketInv(pkt'))
    BY <2>5, <2>6, <2>7, TransmitInv
  <2>9. MetersType(meters')
    BY <1>1, <2>3, EnforcedType DEF MetersType
  <2> QED BY <1>1, <2>8, <2>9, PassKeepsInv
<1>3. CASE pkt.send = "MATCH" /\ pkt.type = "IN"
  <2>1. /\ TofTellsRedirects(pkt) /\ pkt.outer = "v4" /\ pkt.metered = IF pkt.bw # NoShared THEN 1 ELSE 0
    BY <1>1, <1>3 DEF PacketInv, PastMeter, HeaderForVerdict
  <2>2. Transmit(InternetIn(pkt)) /\ UNCHANGED meters
    BY <1>3 DEF P02Egress
  <2> DEFINE o == InternetIn(pkt)
  <2>3. o \in Packet
    <3>1. ASSUME NEW d \in BOOLEAN
          PROVE [pkt EXCEPT !.to = "vm", !.vx = "std", !.tof = "none", !.needDrop = d] \in Packet
      BY <1>1, ZenonT(60) DEF Packet, Tofs
    <3>2. (IF tab[pkt.gw][pkt.eip].path = "noTunnel" THEN TRUE ELSE pkt.needDrop) \in BOOLEAN
      BY <1>1 DEF Packet
    <3> QED BY <3>1, <3>2 DEF InternetIn
  <2>4. /\ o.at = pkt.at /\ o.to = "vm" /\ o.outer = pkt.outer /\ o.send = pkt.send
        /\ o.bw = pkt.bw /\ o.stamped = pkt.stamped /\ o.again = pkt.again
        /\ o.metered = pkt.metered
    BY <1>1 DEF InternetIn, Packet
  <2> HIDE DEF o
  <2>5. TofTellsRedirects(o)
    BY <2>1, <2>4 DEF TofTellsRedirects
  <2>6. Transmit(o)
    BY <2>2 DEF o
  <2>7. pkt' = NoPacket \/ (pkt' \in Packet /\ PacketInv(pkt'))
    BY <1>1, <1>3, <2>1, <2>3, <2>4, <2>5, <2>6, TransmitInv
  <2> QED BY <1>1, <2>2, <2>7, PassKeepsInv
<1>4. CASE pkt.send # "MATCH"
  <2>1. Transmit(pkt) /\ UNCHANGED meters
    BY <1>4 DEF P02Egress
  <2>2. /\ TofTellsRedirects(pkt) /\ pkt.metered = 0 /\ ~pkt.needDrop
        /\ pkt.send = "DL" => pkt.to \in {"vip", "dl"}
        /\ pkt.vx # "none" => pkt.outer = "v4"
        /\ pkt.dl => pkt.vx = "jd"
    BY <1>1, <1>4 DEF PacketInv, PastMeter, HeaderForVerdict, OnTheWay
  <2>3. pkt' = NoPacket \/ (pkt' \in Packet /\ PacketInv(pkt'))
    BY <1>1, <1>4, <2>1, <2>2, TransmitInv
  <2> QED BY <1>1, <2>1, <2>3, PassKeepsInv
<1>5. pkt.type \in {"IN", "OUT"}
  BY <1>1 DEF Packet
<1> QED BY <1>2, <1>3, <1>4, <1>5

(* A delivered packet carries nothing of its last bridge header.           *)
Renewed(p, c) ==
    [p EXCEPT !.send = "MATCH", !.needDrop = FALSE, !.color = c,
              !.next = {}, !.bw = NoShared, !.shared = NoShared]

LEMMA RenewedType ==
    ASSUME NEW p \in Packet, NEW c \in {"green", "red"}
    PROVE  Renewed(p, c) \in Packet
<1>1. ASSUME NEW q \in Packet, NEW n \in SUBSET Gateways PROVE [q EXCEPT !.next = n] \in Packet
  BY DEF Packet
<1>2. ASSUME NEW q \in Packet PROVE [q EXCEPT !.color = c] \in Packet
  BY DEF Packet
<1>3. ASSUME NEW q \in Packet PROVE [q EXCEPT !.send = "MATCH"] \in Packet
  BY SMTT(60) DEF Packet
<1>4. ASSUME NEW q \in Packet, NEW x \in BOOLEAN PROVE [q EXCEPT !.needDrop = x] \in Packet
  BY SMTT(60) DEF Packet
<1>5. ASSUME NEW q \in Packet, NEW x \in Eips \union {NoShared} PROVE [q EXCEPT !.bw = x] \in Packet
  BY SMTT(60) DEF Packet
<1>6. ASSUME NEW q \in Packet PROVE [q EXCEPT !.shared = NoShared] \in Packet
  BY SMTT(60) DEF Packet
<1> DEFINE a == [p EXCEPT !.send = "MATCH"]
           b == [a EXCEPT !.needDrop = FALSE]
           d == [b EXCEPT !.color = c]
           e == [d EXCEPT !.next = {}]
           f == [e EXCEPT !.bw = NoShared]
           g == [f EXCEPT !.shared = NoShared]
<1>7. [p EXCEPT !.send = "MATCH", !.needDrop = FALSE, !.color = c] = d
  BY SMTT(60) DEF Packet
<1>8. [d EXCEPT !.next = {}, !.bw = NoShared, !.shared = NoShared] = g
  <2>1. d \in Packet
    BY <1>2, <1>3, <1>4
  <2> HIDE DEF d
  <2> QED BY <2>1, SMTT(60) DEF Packet
<1>9. Renewed(p, c) = [[p EXCEPT !.send = "MATCH", !.needDrop = FALSE, !.color = c]
                       EXCEPT !.next = {}, !.bw = NoShared, !.shared = NoShared]
  BY SMTT(60) DEF Renewed, Packet
<1>10. d \in Packet
  BY <1>2, <1>3, <1>4
<1>11. Renewed(p, c) = g
  BY <1>7, <1>8, <1>9
<1> HIDE DEF d
<1>12. e \in Packet
  BY <1>1, <1>10
<1> HIDE DEF e
<1>13. f \in Packet
  BY <1>5, <1>12
<1> HIDE DEF f
<1> QED BY <1>6, <1>11, <1>13

LEMMA DeliverInv == PipelineInv /\ Deliver => PipelineInv'
<1> SUFFICES ASSUME PipelineInv, Deliver PROVE PipelineInv'
  OBVIOUS
<1>1. /\ pkt \in Packet /\ PacketInv(pkt) /\ MetersType(meters') /\ pkt.at = "wire"
      /\ UNCHANGED <<tab, packets, updates>>
  BY DEF PipelineInv, PipelineTypeOK, Deliver, At, MetersType
<1>2. CASE pkt.send = "DL"
  <2>1. PICK g \in pkt.next, i \in External, c \in {"green", "red"} :
           pkt' = [pkt EXCEPT !.gw = g, !.at = "P02_Ingress", !.igrPipe = i, !.pipe = i,
                              !.send = "MATCH", !.needDrop = FALSE, !.color = c,
                              !.next = {}, !.bw = NoShared, !.shared = NoShared]
    BY <1>2 DEF Deliver
  <2>2. g \in Gateways /\ i \in Pipes
    BY <1>1 DEF Packet, External, Pipes
  <2>3. pkt' \in Packet
    <3> DEFINE a == [pkt EXCEPT !.gw = g, !.at = "P02_Ingress", !.igrPipe = i, !.pipe = i]
    <3>1. a \in Packet
      BY <1>1, <2>2 DEF Packet
    <3>2. pkt' = Renewed(a, c)
      BY <1>1, <2>1 DEF Packet, Renewed
    <3> QED BY <3>1, <3>2, RenewedType
  <2>4. /\ pkt'.at = "P02_Ingress" /\ pkt'.send = "MATCH" /\ ~pkt'.needDrop
        /\ pkt'.to = pkt.to /\ pkt'.outer = pkt.outer /\ pkt'.vx = pkt.vx /\ pkt'.tof = pkt.tof
        /\ pkt'.dl = pkt.dl /\ pkt'.stamped = pkt.stamped /\ pkt'.again = pkt.again
        /\ pkt'.metered = pkt.metered
    BY <1>1, <2>1 DEF Packet
  <2>5. pkt.to \in {"vip", "dl"} /\ pkt.metered = 0
    BY <1>1, <1>2 DEF PacketInv, OnTheWay, PastMeter
  <2>6. PacketInv(pkt')
    BY <1>1, <1>2, <2>4, <2>5, SMTT(40)
       DEF PacketInv, TofTellsRedirects, OnTheWay, HeaderForVerdict, PastMeter
  <2> QED BY <1>1, <2>3, <2>6, PassKeepsInv
<1>3. CASE pkt.send # "DL"
  <2>1. pkt' = NoPacket
    BY <1>3 DEF Deliver
  <2> QED BY <1>1, <2>1, PassKeepsInv
<1> QED BY <1>2, <1>3

LEMMA UpdateInv == PipelineInv /\ Update => PipelineInv'
<1> SUFFICES ASSUME PipelineInv, Update PROVE PipelineInv'
  OBVIOUS
<1>1. PICK g \in Gateways, e \in Eips, ent \in Entries : tab' = [tab EXCEPT ![g][e] = ent]
  BY DEF Update
<1>2. tab' \in Tabs
  BY <1>1 DEF PipelineInv, PipelineTypeOK, Tabs
<1>3. updates' \in 0..MaxUpdates
  BY PipelineAssumption DEF PipelineInv, PipelineTypeOK, Update
<1> QED BY <1>2, <1>3 DEF Tabs, PipelineInv, PipelineTypeOK, Update

LEMMA PipelineInit == Init => PipelineInv
BY PipelineAssumption DEF Init, PipelineInv, PipelineTypeOK

LEMMA PipelineStep == PipelineInv /\ [Next]_vars => PipelineInv'
<1> SUFFICES ASSUME PipelineInv, [Next]_vars PROVE PipelineInv'
  OBVIOUS
<1>1. CASE Arrive          BY <1>1, ArriveInv
<1>2. CASE P02IngressLocal BY <1>2, LocalInv
<1>3. CASE P02IngressDrop  BY <1>3, DropInv
<1>4. CASE P02IngressOut   BY <1>4, OutInv
<1>5. CASE P02IngressIn    BY <1>5, InInv
<1>6. CASE P13Egress       BY <1>6, EgressInv
<1>7. CASE P13Ingress      BY <1>7, IngressInv
<1>8. CASE P02Egress       BY <1>8, LastPassInv
<1>9. CASE Deliver         BY <1>9, DeliverInv
<1>10. CASE Update         BY <1>10, UpdateInv
<1>11. CASE UNCHANGED vars
  BY <1>11 DEF vars, PipelineInv, PipelineTypeOK, PacketInv, TofTellsRedirects, OnTheWay,
               HeaderForVerdict, PastMeter
<1> QED BY <1>1, <1>2, <1>3, <1>4, <1>5, <1>6, <1>7, <1>8, <1>9, <1>10, <1>11 DEF Next, Forward

-----------------------------------------------------------------------------
(* The passes of every pipe keep the packet's history in step with its tof, *)
(* its bridge header and its place: the inductive invariant.               *)
THEOREM PipelineInvariant == Spec => []PipelineInv
BY PipelineInit, PipelineStep, PTL DEF Spec

(* The fields the pipes hand on keep the values their headers allow, for    *)
(* any number of gateways, eips, packets and updates of the tables.        *)
THEOREM PipelineTypeCorrect == Spec => []PipelineTypeOK
<1>1. PipelineInv => PipelineTypeOK
  BY DEF PipelineInv
<1> QED BY <1>1, PipelineInvariant, PTL

(* Whatever the tables of the gateways hold and however they are rewritten  *)
(* while the packet travels, the keys of modify_jd_vxlan on the tof let it *)
(* be redirected at most once to a cluster and once inside one.            *)
THEOREM RedirectOnceCorrect == Spec => []RedirectOnce
<1>1. PipelineInv => RedirectOnce
  BY DEF PipelineInv, PacketInv, TofTellsRedirects, RedirectOnce
<1> QED BY <1>1, PipelineInvariant, PTL

(* A verdict given in P13_Ingress or in a meter is carried out by           *)
(* egress_system_acl in P02_Egress, because the packet has an outer IPv4   *)
(* header by then whenever need_drop is set.                               *)
THEOREM DroppedNeverLeavesCorrect == Spec => []DroppedNeverLeaves
<1>1. PipelineInv => DroppedNeverLeaves
  BY DEF PipelineInv, PacketInv, HeaderForVerdict, DroppedNeverLeaves
<1> QED BY <1>1, PipelineInvariant, PTL

(* EipInMeter and EipOutMeter together see a packet once, on the gateway it *)
(* is not redirected from, however many gateways it goes through.          *)
THEOREM MeteredOnceCorrect == Spec => []MeteredOnce
<1>1. PipelineInv => MeteredOnce
  BY DEF PipelineInv, PacketInv, PastMeter, MeteredOnce
<1> QED BY <1>1, PipelineInvariant, PTL

-----------------------------------------------------------------------------
(***************************************************************************)
(* OneMeter, where the tables agree.  A packet is metered only on the       *)
(* gateway that its bandwidth hashes to in the cluster that keeps it: the   *)
(* tof it carries says how far it has come on the way there, and the pipe  *)
(* it takes there depends on nothing but its eip.                          *)
(***************************************************************************)
CONSTANTS SharedOf, Home   \* what the controllers agree on

Agreed ==
    /\ SharedOf \in [Eips -> Eips \union {NoShared}]
    /\ Home \in [Eips -> {Cluster[g] : g \in Gateways}]
    /\ Agree(tab, SharedOf, Home)

Bw(e) == Bandwidth(SharedOf, e)
Owner(e) == DlOwner[Home[Bw(e)]][Bw(e)]

InPipe(e) == EcmpGroup(IF e \in OddEips THEN 1 ELSE 3, e \in V4 /\ SharedOf[e] # NoShared)
OutPipe(e) == EcmpGroup(IF e \in OddEips THEN 0 ELSE 2, SharedOf[e] # NoShared)

AzTofs == {"AZ_IN", "AZ_OUT"}
EipTofs == {"EIP_IN", "EIP_OUT"}

(* The address of a redirected packet goes with its tof.                    *)
Addressed(p) ==
    p.to \notin {"vm", "internet"} =>
        p.tof = "none" \/ (p.vx = "jd" /\ <<p.to, p.tof>> \in Redirects("OUT") \union Redirects("IN"))

(* Where a redirect has brought the packet, or brings it next.              *)
OnItsWay(p) ==
    /\ p.send = "DL" /\ p.tof \in AzTofs => p.next \subseteq Vip(Home[Bw(p.eip)])
    /\ p.send = "DL" /\ p.tof \in EipTofs => p.next = {Owner(p.eip)}
    /\ p.send = "MATCH" /\ p.tof \in AzTofs => Cluster[p.gw] = Home[Bw(p.eip)]
    /\ p.send = "MATCH" /\ p.tof \in EipTofs => p.gw = Owner(p.eip)

(* What the passes that meter find.                                         *)
BeforeMeter(p) ==
    /\ p.at = "P13_Egress" => p.pipe = InPipe(p.eip) /\ p.tof \in {"none", "AZ_IN", "EIP_IN"}
    /\ p.at = "P13_Ingress" /\ p.send = "MATCH" =>
          p.pipe = InPipe(p.eip) /\ p.tof = "EIP_IN" /\ p.shared = SharedOf[p.eip]
    /\ p.at = "P02_Egress" /\ p.send = "MATCH" /\ p.type = "OUT" =>
          /\ p.pipe = OutPipe(p.eip) /\ p.tof = "EIP_OUT"
          /\ p.shared = SharedOf[p.eip] /\ p.bw = p.eip

PlaceInv(p) == Addressed(p) /\ OnItsWay(p) /\ BeforeMeter(p)

(* A meter belongs to an eip, or to the bandwidth that an eip shares.       *)
EipMeterOf(m, e) ==
    /\ m.id = <<"eip", e>> /\ m.gw = Owner(e)
    /\ m.pipe = IF m.type = "IN" THEN InPipe(e) ELSE OutPipe(e)

SharedMeterOf(m, e) ==
    /\ m.id = <<"shared", SharedOf[e]>> /\ SharedOf[e] # NoShared /\ m.gw = Owner(e)
    /\ m.pipe = IF m.type = "IN" THEN 3 ELSE 2

MeterOfEip(m) == \E e \in Eips : EipMeterOf(m, e) \/ SharedMeterOf(m, e)

OneMeterInv ==
    /\ pkt # NoPacket => PlaceInv(pkt)
    /\ \A m \in meters : MeterOfEip(m)

LEMMA OneMeterFollows ==
    ASSUME OneMeterInv PROVE OneMeter
<1> SUFFICES ASSUME NEW m \in meters, NEW n \in meters, m.id = n.id, m.type = n.type
             PROVE  m.gw = n.gw /\ m.pipe = n.pipe
  BY DEF OneMeter
<1>1. PICK d \in Eips : EipMeterOf(m, d) \/ SharedMeterOf(m, d)
  BY DEF OneMeterInv, MeterOfEip
<1>2. PICK e \in Eips : EipMeterOf(n, e) \/ SharedMeterOf(n, e)
  BY DEF OneMeterInv, MeterOfEip
<1>3. CASE EipMeterOf(m, d)
  <2>1. EipMeterOf(n, e) /\ d = e
    BY <1>2, <1>3 DEF EipMeterOf, SharedMeterOf
  <2> QED BY <1>3, <2>1 DEF EipMeterOf
<1>4. CASE SharedMeterOf(m, d)
  <2>1. SharedMeterOf(n, e) /\ SharedOf[d] = SharedOf[e]
    BY <1>2, <1>4 DEF EipMeterOf, SharedMeterOf
  <2>2. Owner(d) = Owner(e)
    BY <1>4, <2>1 DEF SharedMeterOf, Owner, Bw, Bandwidth
  <2> QED BY <1>4, <2>1, <2>2 DEF SharedMeterOf
<1> QED BY <1>1, <1>3, <1>4

-----------------------------------------------------------------------------
(* A redirect control where the tables agree.                               *)
SamePlace(p, r) ==
    /\ r.gw = p.gw /\ r.pipe = p.pipe /\ r.igrPipe = p.igrPipe /\ r.eip = p.eip

LEMMA AgreedLookup ==
    ASSUME tab \in Tabs, Agreed, NEW p \in Packet
    PROVE  /\ Lookup(p) = tab[p.gw][p.eip]
           /\ Lookup(p).within /\ Lookup(p).known
           /\ Lookup(p).shared = SharedOf[p.eip]
           /\ Lookup(p).between <=> Cluster[p.gw] # Home[Bw(p.eip)]
           /\ Lookup(p).between => SharedBwVip[Cluster[p.gw]] = Home[Bw(p.eip)]
<1>1. p.gw \in Gateways /\ p.eip \in Eips
  BY DEF Packet
<1>2. tab[p.gw][p.eip].known
  BY <1>1 DEF Agreed, Agree
<1>3. Lookup(p) = tab[p.gw][p.eip]
  BY <1>2 DEF Lookup
<1> QED BY <1>1, <1>3 DEF Agreed, Agree, Bw

LEMMA RedirectedPlace ==
    ASSUME NEW p \in Packet, NEW tof, NEW to, NEW next
    PROVE  LET r == Redirected(p, tof, to, next)
           IN SamePlace(p, r) /\ r.shared = p.shared /\ r.bw = p.bw /\ r.next = next /\ r.tof = tof
              /\ r.to = to /\ r.vx = "jd" /\ r.send = "DL"
BY DEF Redirected, Packet, SamePlace

LEMMA RedirectPlaces ==
    ASSUME tab \in Tabs, Agreed, NEW p \in Packet, p.vx # "none", NEW k \in Kinds,
           NEW junk \in Eips \union {NoShared}
    PROVE  LET r == EipRedirect(p, junk, k[1], k[2])
           IN /\ SamePlace(p, r) /\ r.shared = SharedOf[p.eip] /\ r.bw = p.eip
              /\ \/ /\ p.tof = "none" /\ Cluster[p.gw] # Home[Bw(p.eip)]
                    /\ r.send = "DL" /\ r.vx = "jd" /\ r.to = "vip" /\ r.tof = k[1]
                    /\ r.next = Vip(Home[Bw(p.eip)])
                 \/ /\ p.tof = "none" => Cluster[p.gw] = Home[Bw(p.eip)]
                    /\ p.tof \in {"none", k[1]}
                    /\ r.send = "DL" /\ r.vx = "jd" /\ r.to = "dl" /\ r.tof = k[2]
                    /\ r.next = {DlOwner[Cluster[p.gw]][Bw(p.eip)]}
                 \/ /\ p.tof \notin {"none", k[1]}
                    /\ r.send = p.send /\ r.vx = p.vx /\ r.to = p.to /\ r.tof = p.tof
                    /\ r.next = p.next
<1> DEFINE ent == Lookup(p)
           q == [p EXCEPT !.shared = ent.shared, !.bw = p.eip]
<1>1. /\ ent \in EipEntry /\ ent.within /\ ent.known /\ p.eip \in Eips
      /\ ent.shared = SharedOf[p.eip]
      /\ ent.between <=> Cluster[p.gw] # Home[Bw(p.eip)]
      /\ ent.between => SharedBwVip[Cluster[p.gw]] = Home[Bw(p.eip)]
  BY LookupType, AgreedLookup DEF Packet
<1>2. q \in Packet
  BY <1>1 DEF EipEntry, Packet
<1>3. SamePlace(p, q) /\ q.shared = ent.shared /\ q.bw = p.eip /\ q.vx = p.vx /\ q.tof = p.tof /\ q.to = p.to
      /\ q.send = p.send /\ q.next = p.next
  BY DEF Packet, SamePlace
<1>4. EipRedirect(p, junk, k[1], k[2]) = ModifyJdVxlan(q, ent, k[1], k[2])
  BY <1>1 DEF EipRedirect
<1> HIDE DEF q, ent
<1>5. HashIndex(q, ent) = Bw(p.eip)
  BY <1>1, <1>3 DEF HashIndex, Bw, Bandwidth, SamePlace
<1>6. k[1] # "none"
  BY DEF Kinds
<1>7. CASE p.tof = "none" /\ ent.between
  <2>1. EipRedirect(p, junk, k[1], k[2]) = Redirected(q, k[1], "vip", Vip(SharedBwVip[Cluster[q.gw]]))
    BY <1>3, <1>4, <1>7 DEF ModifyJdVxlan, JdRedirect
  <2>2. Vip(SharedBwVip[Cluster[q.gw]]) = Vip(Home[Bw(p.eip)])
    BY <1>1, <1>3, <1>7 DEF SamePlace
  <2> QED BY <1>1, <1>2, <1>3, <1>7, <2>1, <2>2, RedirectedPlace DEF SamePlace
<1>8. CASE p.tof \in {"none", k[1]} /\ (p.tof = "none" => ~ent.between)
  <2>1. EipRedirect(p, junk, k[1], k[2])
          = Redirected(q, k[2], "dl", {DlOwner[Cluster[q.gw]][HashIndex(q, ent)]})
    BY <1>1, <1>3, <1>4, <1>6, <1>8 DEF ModifyJdVxlan, JdRedirect
  <2>2. {DlOwner[Cluster[q.gw]][HashIndex(q, ent)]} = {DlOwner[Cluster[p.gw]][Bw(p.eip)]}
    BY <1>3, <1>5 DEF SamePlace
  <2> QED BY <1>1, <1>2, <1>3, <1>8, <2>1, <2>2, RedirectedPlace DEF SamePlace
<1>9. CASE p.tof \notin {"none", k[1]}
  <2>1. EipRedirect(p, junk, k[1], k[2]) = q
    BY <1>3, <1>4, <1>9 DEF ModifyJdVxlan, JdRedirect
  <2> QED BY <1>1, <1>3, <1>9, <2>1 DEF SamePlace
<1> QED BY <1>7, <1>8, <1>9

(* Where a packet goes depends on few of its fields.                        *)
SameWay(p, r) ==
    /\ r.gw = p.gw /\ r.eip = p.eip /\ r.to = p.to /\ r.vx = p.vx /\ r.tof = p.tof
    /\ r.send = p.send /\ r.next = p.next

LEMMA WayStays ==
    ASSUME NEW p, NEW r, Addressed(p), OnItsWay(p), SameWay(p, r)
    PROVE  Addressed(r) /\ OnItsWay(r)
BY DEF SameWay, Addressed, OnItsWay

LEMMA PlaceStep ==
    ASSUME pkt' = NoPacket \/ PlaceInv(pkt'), \A m \in meters' : MeterOfEip(m)
    PROVE  OneMeterInv'
BY DEF OneMeterInv, PlaceInv, Addressed, OnItsWay, BeforeMeter, Owner, Bw, InPipe, OutPipe,
       MeterOfEip, EipMeterOf, SharedMeterOf

(* A redirect, or its absence, sends the packet on its way.                 *)
LEMMA RedirectOnItsWay ==
    ASSUME tab \in Tabs, Agreed, NEW p \in Packet, p.vx # "none", NEW k \in Kinds,
           p.send = "MATCH", OnItsWay(p), p.tof \in {"none", k[1], k[2]},
           p.tof # "none" => p.vx = "jd",
           Addressed(p), p.to \notin {"vm", "internet"},
           NEW junk \in Eips \union {NoShared}
    PROVE  LET r == EipRedirect(p, junk, k[1], k[2])
           IN /\ Addressed(r) /\ OnItsWay(r) /\ SamePlace(p, r)
              /\ r.shared = SharedOf[p.eip] /\ r.bw = p.eip
              /\ r.send = "MATCH" => r.tof = k[2]
<1> DEFINE r == EipRedirect(p, junk, k[1], k[2])
<1>1. SamePlace(p, r) /\ r.shared = SharedOf[p.eip] /\ r.bw = p.eip
  BY RedirectPlaces
<1>2. /\ <<"vip", k[1]>> \in Redirects("OUT") \union Redirects("IN")
      /\ <<"dl", k[2]>> \in Redirects("OUT") \union Redirects("IN")
      /\ k[1] \in AzTofs /\ k[1] \notin EipTofs /\ k[2] \in EipTofs /\ k[2] \notin AzTofs
      /\ k[1] # "none" /\ k[2] # "none"
  BY DEF Kinds, Redirects, AzTofs, EipTofs
<1>3. CASE /\ p.tof = "none" /\ Cluster[p.gw] # Home[Bw(p.eip)]
           /\ r.send = "DL" /\ r.vx = "jd" /\ r.to = "vip" /\ r.tof = k[1]
           /\ r.next = Vip(Home[Bw(p.eip)])
  BY <1>1, <1>2, <1>3 DEF Addressed, OnItsWay, SamePlace
<1>4. CASE /\ p.tof = "none" => Cluster[p.gw] = Home[Bw(p.eip)]
           /\ p.tof \in {"none", k[1]}
           /\ r.send = "DL" /\ r.vx = "jd" /\ r.to = "dl" /\ r.tof = k[2]
           /\ r.next = {DlOwner[Cluster[p.gw]][Bw(p.eip)]}
  <2>1. Cluster[p.gw] = Home[Bw(p.eip)]
    BY <1>2, <1>4 DEF OnItsWay
  <2>2. r.next = {Owner(p.eip)}
    BY <1>4, <2>1 DEF Owner
  <2> QED BY <1>1, <1>2, <1>4, <2>2 DEF Addressed, OnItsWay, SamePlace
<1>5. CASE /\ p.tof \notin {"none", k[1]}
           /\ r.send = p.send /\ r.vx = p.vx /\ r.to = p.to /\ r.tof = p.tof
           /\ r.next = p.next
  <2>1. SameWay(p, r)
    BY <1>1, <1>5 DEF SamePlace, SameWay
  <2> QED BY <1>1, <1>5, <2>1, WayStays
<1> HIDE DEF r
<1>6. \/ /\ p.tof = "none" /\ Cluster[p.gw] # Home[Bw(p.eip)]
         /\ r.send = "DL" /\ r.vx = "jd" /\ r.to = "vip" /\ r.tof = k[1]
         /\ r.next = Vip(Home[Bw(p.eip)])
      \/ /\ p.tof = "none" => Cluster[p.gw] = Home[Bw(p.eip)]
         /\ p.tof \in {"none", k[1]}
         /\ r.send = "DL" /\ r.vx = "jd" /\ r.to = "dl" /\ r.tof = k[2]
         /\ r.next = {DlOwner[Cluster[p.gw]][Bw(p.eip)]}
      \/ /\ p.tof \notin {"none", k[1]}
         /\ r.send = p.send /\ r.vx = p.vx /\ r.to = p.to /\ r.tof = p.tof
         /\ r.next = p.next
  BY RedirectPlaces DEF r
<1> QED BY <1>3, <1>4, <1>5, <1>6 DEF r

(* What igw_ip_type says of a packet that is addressed by its tof.          *)
LEMMA HitPlaces ==
    ASSUME NEW p \in Packet, Addressed(p), p.to \notin {"vm", "internet"},
           NEW hit, hit = IgwIpType(p), hit.type \in {"IN", "OUT"}
    PROVE  /\ hit.type = "OUT" => /\ p.vx # "none" /\ p.tof \in {"none", "AZ_OUT", "EIP_OUT"}
                                  /\ hit.egr = IF p.eip \in OddEips \ V4 THEN 0 ELSE 2
           /\ hit.type = "IN" => /\ p.tof \in {"none", "AZ_IN", "EIP_IN"}
                                 /\ hit.egr = IF p.eip \in OddEips THEN 1 ELSE 3
<1> DEFINE A == p.to = "vip" /\ p.vx = "std" /\ p.tof = "none"
           B == p.vx = "jd" /\ <<p.to, p.tof>> \in Redirects("OUT")
           C == p.vx = "jd" /\ <<p.to, p.tof>> \in Redirects("IN")
           D == p.to = "mcast6" \/ p.outer = "none"
<1>1. hit = CASE A -> OutHit(p, FALSE) [] B -> OutHit(p, TRUE) [] C -> InHit(p, TRUE)
              [] D -> NeedDrop [] OTHER -> InHit(p, FALSE)
  BY DEF IgwIpType
<1>2. /\ A => p.vx # "none" /\ p.tof = "none"
      /\ B => p.vx # "none" /\ p.tof \in {"AZ_OUT", "EIP_OUT"}
      /\ C => p.tof \in {"AZ_IN", "EIP_IN"}
      /\ ~B /\ ~C => p.tof = "none"
  BY DEF Redirects, Addressed
<1>3. \A d \in BOOLEAN : /\ OutHit(p, d).type = "OUT" /\ InHit(p, d).type = "IN"
                         /\ OutHit(p, d).egr = IF p.eip \in OddEips \ V4 THEN 0 ELSE 2
                         /\ InHit(p, d).egr = IF p.eip \in OddEips THEN 1 ELSE 3
  BY DEF OutHit, InHit
<1>4. NeedDrop.type = "DROP"
  BY DEF NeedDrop
<1> HIDE DEF A, B, C, D
<1>5. \/ A /\ hit = OutHit(p, FALSE)
      \/ B /\ hit = OutHit(p, TRUE)
      \/ C /\ hit = InHit(p, TRUE)
      \/ hit = NeedDrop
      \/ ~B /\ ~C /\ hit = InHit(p, FALSE)
  BY <1>1
<1> QED BY <1>2, <1>3, <1>4, <1>5

-----------------------------------------------------------------------------
(* One lemma per pass.                                                      *)
LEMMA FreshPlace ==
    ASSUME NEW g, NEW to, NEW outer, NEW vx, NEW e, NEW i, NEW c
    PROVE  PlaceInv(Fresh(g, to, outer, vx, e, i, c))
<1> DEFINE f == Fresh(g, to, outer, vx, e, i, c)
<1>1. f.tof = "none" /\ f.at = "P02_Ingress"
  BY DEF Fresh
<1> HIDE DEF f
<1>2. PlaceInv(f)
  BY <1>1 DEF PlaceInv, Addressed, OnItsWay, BeforeMeter, AzTofs, EipTofs
<1> QED BY <1>2 DEF f

LEMMA ArrivePlace == ASSUME OneMeterInv, Arrive PROVE OneMeterInv'
<1>1. PlaceInv(pkt')
  <2>1. PICK g \in Gateways, e \in Eips, i \in External, c \in {"green", "red"} :
          \/ pkt' = Fresh(g, "eip", IF e \in V4 THEN "v4" ELSE "v6", "none", e, i, c)
          \/ pkt' = Fresh(g, "vip", "v4", "std", e, i, c)
          \/ \E to \in {"local", "fromCpu"} : pkt' = Fresh(g, to, "v4", "none", e, i, c)
          \/ pkt' = Fresh(g, "unknown", "none", "none", e, i, c)
          \/ pkt' = Fresh(g, "mcast6", "v6", "none", e, i, c)
    BY DEF Arrive
  <2> QED BY <2>1, FreshPlace
<1>2. \A m \in meters' : MeterOfEip(m)
  BY DEF Arrive, OneMeterInv
<1> QED BY <1>1, <1>2, PlaceStep

LEMMA LocalPlace == ASSUME PipelineInv, OneMeterInv, P02IngressLocal PROVE OneMeterInv'
<1>1. /\ pkt \in Packet /\ PacketInv(pkt) /\ PlaceInv(pkt) /\ pkt.at = "P02_Ingress"
      /\ \A m \in meters' : MeterOfEip(m)
      /\ pkt' = [pkt EXCEPT !.send = "SKIP", !.at = "P02_Egress"]
  BY DEF PipelineInv, PipelineTypeOK, OneMeterInv, P02IngressLocal, At
<1>2. pkt'.to = pkt.to /\ pkt'.vx = pkt.vx /\ pkt'.tof = pkt.tof /\ pkt'.send = "SKIP"
      /\ pkt'.at = "P02_Egress"
  BY <1>1 DEF Packet
<1>3. PlaceInv(pkt')
  BY <1>1, <1>2 DEF PlaceInv, Addressed, OnItsWay, BeforeMeter
<1> QED BY <1>1, <1>3, PlaceStep

LEMMA BridgedPlace ==
    ASSUME NEW q \in Packet, Addressed(q), OnItsWay(q), NEW hit, NEW pipe \in Pipes,
           pipe \notin External => pipe = InPipe(q.eip) /\ q.tof \in {"none", "AZ_IN", "EIP_IN"},
           pipe \in External /\ q.send = "MATCH" =>
              /\ pipe = OutPipe(q.eip) /\ q.tof = "EIP_OUT"
              /\ q.shared = SharedOf[q.eip] /\ q.bw = q.eip
    PROVE  PlaceInv(Bridged(q, hit, pipe))
<1> DEFINE b == Bridged(q, hit, pipe)
<1>1. SameWay(q, b) /\ b.shared = q.shared /\ b.bw = q.bw /\ b.pipe = pipe
      /\ b.at = IF pipe \in External THEN "P02_Egress" ELSE "P13_Egress"
  BY DEF Bridged, Packet, SameWay
<1> HIDE DEF b
<1>2. Addressed(b) /\ OnItsWay(b)
  BY <1>1, WayStays
<1>3. BeforeMeter(b)
  BY <1>1 DEF BeforeMeter, SameWay
<1>4. PlaceInv(b)
  BY <1>2, <1>3 DEF PlaceInv
<1> QED BY <1>4 DEF b

LEMMA OutPlace == ASSUME PipelineInv, Agreed, OneMeterInv, P02IngressOut PROVE OneMeterInv'
<1>0. PICK junk \in Eips \union {NoShared} :
        LET hit == IgwIpType(pkt)
            q == EipRedirect(pkt, junk, "AZ_OUT", "EIP_OUT")
        IN /\ hit.type = "OUT"
           /\ pkt' = Bridged(q, hit, EcmpGroup(PipelineFix(q, hit.egr), q.shared # NoShared))
  BY DEF P02IngressOut
<1> DEFINE hit == IgwIpType(pkt)
           q == EipRedirect(pkt, junk, "AZ_OUT", "EIP_OUT")
           pipe == EcmpGroup(PipelineFix(q, hit.egr), q.shared # NoShared)
           k == <<"AZ_OUT", "EIP_OUT">>
<1>1. /\ pkt \in Packet /\ PacketInv(pkt) /\ PlaceInv(pkt) /\ tab \in Tabs
      /\ pkt.at = "P02_Ingress" /\ hit.type = "OUT"
      /\ pkt' = Bridged(q, hit, pipe)
      /\ \A m \in meters' : MeterOfEip(m)
  BY <1>0 DEF PipelineInv, PipelineTypeOK, OneMeterInv, P02IngressOut, At, Tabs
<1>2. pkt.to \notin {"vm", "internet"} /\ pkt.send = "MATCH" /\ Addressed(pkt) /\ OnItsWay(pkt)
  BY <1>1 DEF PacketInv, OnTheWay, PlaceInv
<1>3. /\ pkt.vx # "none" /\ pkt.tof \in {"none", "AZ_OUT", "EIP_OUT"}
      /\ hit.egr = IF pkt.eip \in OddEips \ V4 THEN 0 ELSE 2
  BY <1>1, <1>2, HitPlaces
<1>4. k \in Kinds /\ k[1] = "AZ_OUT" /\ k[2] = "EIP_OUT"
  BY DEF Kinds
<1> HIDE DEF k
<1>5. q = EipRedirect(pkt, junk, k[1], k[2])
  BY <1>4
<1>6. pkt.tof # "none" => pkt.vx = "jd"
  BY <1>2 DEF Addressed
<1>7. /\ Addressed(q) /\ OnItsWay(q) /\ SamePlace(pkt, q)
      /\ q.shared = SharedOf[pkt.eip] /\ q.bw = pkt.eip
      /\ q.send = "MATCH" => q.tof = "EIP_OUT"
  BY <1>1, <1>2, <1>3, <1>4, <1>5, <1>6, RedirectOnItsWay
<1>8. q \in Packet
  BY <1>1, EipRedirectType DEF Tofs
<1> HIDE DEF q, hit
<1>9. PipelineFix(q, hit.egr) = IF q.eip \in OddEips THEN 0 ELSE 2
  BY <1>3, <1>7 DEF PipelineFix, SamePlace
<1>10. pipe = OutPipe(q.eip)
  BY <1>7, <1>9 DEF OutPipe, SamePlace
<1>11. pipe \in External /\ pipe \in Pipes
  BY <1>9 DEF EcmpGroup, External, Pipes
<1> HIDE DEF pipe
<1>12. PlaceInv(Bridged(q, hit, pipe))
  BY <1>7, <1>8, <1>10, <1>11, BridgedPlace DEF SamePlace
<1> QED BY <1>1, <1>12, PlaceStep

LEMMA InPlace == ASSUME PipelineInv, Agreed, OneMeterInv, P02IngressIn PROVE OneMeterInv'
<1> DEFINE hit == IgwIpType(pkt)
           bd == pkt.eip \in V4 /\ Lookup(pkt).shared # NoShared
           pipe == EcmpGroup(hit.egr, bd)
<1>1. /\ pkt \in Packet /\ PacketInv(pkt) /\ PlaceInv(pkt) /\ tab \in Tabs
      /\ pkt.at = "P02_Ingress" /\ hit.type = "IN"
      /\ pkt' = Bridged(pkt, hit, pipe)
      /\ \A m \in meters' : MeterOfEip(m)
  BY DEF PipelineInv, PipelineTypeOK, OneMeterInv, P02IngressIn, At, Tabs
<1>2. pkt.to \notin {"vm", "internet"} /\ pkt.send = "MATCH" /\ Addressed(pkt) /\ OnItsWay(pkt)
  BY <1>1 DEF PacketInv, OnTheWay, PlaceInv
<1>3. /\ pkt.tof \in {"none", "AZ_IN", "EIP_IN"}
      /\ hit.egr = IF pkt.eip \in OddEips THEN 1 ELSE 3
  BY <1>1, <1>2, HitPlaces
<1>4. Lookup(pkt).shared = SharedOf[pkt.eip]
  BY <1>1, AgreedLookup
<1> HIDE DEF hit
<1>5. pipe = InPipe(pkt.eip)
  BY <1>3, <1>4 DEF InPipe
<1>6. pipe \notin External /\ pipe \in Pipes
  BY <1>3 DEF EcmpGroup, External, Pipes
<1> HIDE DEF pipe
<1>7. PlaceInv(Bridged(pkt, hit, pipe))
  BY <1>1, <1>2, <1>3, <1>5, <1>6, BridgedPlace
<1> QED BY <1>1, <1>7, PlaceStep

(* Meters leave the way of a packet as it is.                               *)
MeterKeeps(p, q) ==
    /\ SameWay(p, q) /\ q.pipe = p.pipe /\ q.at = p.at /\ q.type = p.type /\ q.shared = p.shared
    /\ q.bw = p.bw

LEMMA MetersKeep ==
    ASSUME NEW p \in Packet
    PROVE  /\ \A q \in EipMeter(p) : MeterKeeps(p, q)
           /\ \A q \in SharedMeter(p) : MeterKeeps(p, q)
<1>1. ASSUME NEW q \in EipMeter(p) PROVE MeterKeeps(p, q)
  <2>1. CASE p.bw # NoShared
    <3>1. PICK c \in {"green", "red"} :
            q = [p EXCEPT !.color = c, !.metered = IF @ = 2 THEN 2 ELSE @ + 1]
      BY <2>1 DEF EipMeter
    <3> QED BY <3>1 DEF Packet, MeterKeeps, SameWay
  <2>2. CASE p.bw = NoShared
    BY <2>2 DEF EipMeter, MeterKeeps, SameWay
  <2> QED BY <2>1, <2>2
<1>2. ASSUME NEW q \in SharedMeter(p) PROVE MeterKeeps(p, q)
  <2>1. CASE MeetsSharedMeter(p)
    <3>1. PICK c \in {"green", "red"} : q = [p EXCEPT !.color = c]
      BY <2>1 DEF SharedMeter
    <3> QED BY <3>1 DEF Packet, MeterKeeps, SameWay
  <2>2. CASE ~MeetsSharedMeter(p)
    BY <2>2 DEF SharedMeter, MeterKeeps, SameWay
  <2> QED BY <2>1, <2>2
<1> QED BY <1>1, <1>2

LEMMA MeterKeepsPlace ==
    ASSUME NEW p, NEW q, PlaceInv(p), MeterKeeps(p, q) PROVE PlaceInv(q)
<1>1. Addressed(q) /\ OnItsWay(q)
  BY WayStays DEF PlaceInv, MeterKeeps
<1>2. BeforeMeter(q)
  BY DEF PlaceInv, MeterKeeps, SameWay, BeforeMeter
<1> QED BY <1>1, <1>2 DEF PlaceInv

(* Both kinds of meters are found where their eip says.                     *)
LEMMA EnforcedOf ==
    ASSUME NEW p \in Packet, p.gw = Owner(p.eip),
           p.pipe = IF p.type = "IN" THEN InPipe(p.eip) ELSE OutPipe(p.eip)
    PROVE  /\ p.bw = p.eip => \A m \in EipEnforced(p) : MeterOfEip(m)
           /\ p.shared = SharedOf[p.eip] => \A m \in SharedEnforced(p) : MeterOfEip(m)
<1>1. p.eip \in Eips /\ p.type \in {"IN", "OUT"}
  BY DEF Packet
<1>2. ASSUME p.bw = p.eip, NEW m \in EipEnforced(p) PROVE MeterOfEip(m)
  <2>1. m = Enforced(p, <<"eip", p.eip>>)
    BY <1>2 DEF EipEnforced
  <2>2. EipMeterOf(m, p.eip)
    BY <1>2, <2>1 DEF Enforced, EipMeterOf
  <2> QED BY <1>1, <2>2 DEF MeterOfEip
<1>3. ASSUME p.shared = SharedOf[p.eip], NEW m \in SharedEnforced(p) PROVE MeterOfEip(m)
  <2>1. m = Enforced(p, <<"shared", p.shared>>) /\ p.eip \in V4 /\ p.shared # NoShared
    BY <1>3 DEF SharedEnforced, MeetsSharedMeter
  <2>2. p.pipe = IF p.type = "IN" THEN 3 ELSE 2
    BY <1>1, <1>3, <2>1 DEF InPipe, OutPipe, EcmpGroup
  <2>3. SharedMeterOf(m, p.eip)
    BY <1>3, <2>1, <2>2 DEF Enforced, SharedMeterOf
  <2> QED BY <1>1, <2>3 DEF MeterOfEip
<1> QED BY <1>2, <1>3

LEMMA EnCapPlace ==
    ASSUME NEW p \in Packet, PacketInv(p), p.at = "P13_Egress"
    PROVE  LET e == EnCapVxlan(p)
           IN /\ SamePlace(p, e) /\ e.vx # "none" /\ (p.vx = "jd" => e.vx = "jd")
              /\ e.to = p.to /\ e.tof = p.tof /\ e.send = p.send /\ e.next = p.next /\ e.type = p.type
<1>1. CASE ~p.dl /\ p.vx = "none"
  <2>1. EnCapVxlan(p) = [p EXCEPT !.vx = "std", !.outer = "v4"]
    BY <1>1 DEF EnCapVxlan
  <2> QED BY <1>1, <2>1 DEF Packet, SamePlace
<1>2. CASE ~(~p.dl /\ p.vx = "none")
  <2>1. EnCapVxlan(p) = p
    BY <1>2 DEF EnCapVxlan
  <2>2. p.vx # "none"
    BY <1>2 DEF PacketInv, HeaderForVerdict
  <2> QED BY <2>1, <2>2 DEF SamePlace
<1> QED BY <1>1, <1>2

LEMMA EgressPlace == ASSUME PipelineInv, Agreed, OneMeterInv, P13Egress PROVE OneMeterInv'
<1> DEFINE e == EnCapVxlan(pkt)
           r == EipRedirect(e, NoShared, "AZ_IN", "EIP_IN")
           q == [r EXCEPT !.at = "P13_Ingress"]
           k == <<"AZ_IN", "EIP_IN">>
<1>1. /\ pkt \in Packet /\ PacketInv(pkt) /\ PlaceInv(pkt) /\ tab \in Tabs
      /\ pkt.at = "P13_Egress" /\ \A m \in meters : MeterOfEip(m)
      /\ IF q.send = "MATCH"
         THEN pkt' \in EipMeter(q) /\ meters' = meters \union EipEnforced(q)
         ELSE pkt' = q /\ UNCHANGED meters
  BY DEF PipelineInv, PipelineTypeOK, OneMeterInv, P13Egress, At, Tabs
<1>2. /\ pkt.to \notin {"vm", "internet"} /\ pkt.send = "MATCH" /\ pkt.type = "IN"
      /\ Addressed(pkt) /\ OnItsWay(pkt) /\ pkt.pipe = InPipe(pkt.eip)
      /\ pkt.tof \in {"none", "AZ_IN", "EIP_IN"}
  BY <1>1 DEF PacketInv, OnTheWay, PlaceInv, BeforeMeter
<1>3. /\ SamePlace(pkt, e) /\ e.vx # "none" /\ (pkt.vx = "jd" => e.vx = "jd")
      /\ e.to = pkt.to /\ e.tof = pkt.tof /\ e.send = pkt.send /\ e.next = pkt.next
      /\ e.type = pkt.type
  BY <1>1, EnCapPlace
<1>4. e \in Packet
  BY <1>1, EnCapOutcome
<1> HIDE DEF e
<1>5. Addressed(e) /\ OnItsWay(e) /\ (e.tof # "none" => e.vx = "jd")
  BY <1>2, <1>3 DEF Addressed, OnItsWay, SamePlace
<1>6. k \in Kinds /\ k[1] = "AZ_IN" /\ k[2] = "EIP_IN"
  BY DEF Kinds
<1> HIDE DEF k
<1>7. r = EipRedirect(e, NoShared, k[1], k[2])
  BY <1>6
<1>8. /\ Addressed(r) /\ OnItsWay(r) /\ SamePlace(e, r)
      /\ r.shared = SharedOf[e.eip] /\ r.bw = e.eip
      /\ r.send = "MATCH" => r.tof = "EIP_IN"
  BY <1>1, <1>2, <1>3, <1>4, <1>5, <1>6, <1>7, RedirectOnItsWay
<1>9. r \in Packet /\ r.type = "IN"
  <2>1. "AZ_IN" \in Tofs /\ "EIP_IN" \in Tofs
    BY DEF Tofs
  <2>2. r \in Packet
    BY <1>1, <1>4, <2>1, EipRedirectType
  <2>3. Kept(e, r)
    BY <1>1, <1>4, <2>1, RedirectOutcome
  <2>4. r.type = e.type
    BY <2>3 DEF Kept
  <2> QED BY <1>2, <1>3, <2>2, <2>4
<1> HIDE DEF r
<1>10. /\ q \in Packet /\ SameWay(r, q) /\ q.at = "P13_Ingress" /\ q.pipe = r.pipe
       /\ q.shared = r.shared /\ q.bw = r.bw /\ q.type = "IN"
  BY <1>9 DEF Packet, SameWay
<1> HIDE DEF q
<1>11. q.pipe = InPipe(q.eip) /\ q.shared = SharedOf[q.eip] /\ q.bw = q.eip /\ (q.send = "MATCH" => q.tof = "EIP_IN")
  BY <1>2, <1>3, <1>8, <1>10 DEF SamePlace, SameWay
<1>12. PlaceInv(q)
  <2>1. Addressed(q) /\ OnItsWay(q)
    BY <1>8, <1>10, WayStays
  <2>2. BeforeMeter(q)
    BY <1>10, <1>11 DEF BeforeMeter
  <2> QED BY <2>1, <2>2 DEF PlaceInv
<1>13. CASE q.send = "MATCH"
  <2>1. PlaceInv(pkt')
    BY <1>1, <1>10, <1>12, <1>13, MetersKeep, MeterKeepsPlace
  <2>2. q.gw = Owner(q.eip)
    BY <1>11, <1>12, <1>13 DEF PlaceInv, OnItsWay, EipTofs
  <2>3. \A m \in EipEnforced(q) : MeterOfEip(m)
    BY <1>10, <1>11, <2>2, EnforcedOf
  <2> QED BY <1>1, <1>13, <2>1, <2>3, PlaceStep
<1>14. CASE q.send # "MATCH"
  BY <1>1, <1>12, <1>14, PlaceStep
<1> QED BY <1>13, <1>14

LEMMA ToIngressPortPlace ==
    ASSUME NEW p \in Packet, Addressed(p), OnItsWay(p), p.send = "MATCH" => p.type = "IN",
           NEW v, v = p \/ v = [p EXCEPT !.needDrop = TRUE]
    PROVE  PlaceInv(ToIngressPort(v))
<1> DEFINE t == ToIngressPort(v)
<1>1. SameWay(p, t) /\ t.type = p.type /\ t.at = "P02_Egress"
  BY DEF ToIngressPort, Packet, SameWay
<1> HIDE DEF t
<1>2. Addressed(t) /\ OnItsWay(t)
  BY <1>1, WayStays
<1>3. BeforeMeter(t)
  BY <1>1 DEF BeforeMeter, SameWay
<1>4. PlaceInv(t)
  BY <1>2, <1>3 DEF PlaceInv
<1> QED BY <1>4 DEF t

LEMMA IngressPlace == ASSUME PipelineInv, OneMeterInv, P13Ingress PROVE OneMeterInv'
<1>1. /\ pkt \in Packet /\ PacketInv(pkt) /\ PlaceInv(pkt) /\ pkt.at = "P13_Ingress"
      /\ \A m \in meters : MeterOfEip(m)
  BY DEF PipelineInv, PipelineTypeOK, OneMeterInv, P13Ingress, At
<1>2. pkt.type = "IN" /\ Addressed(pkt) /\ OnItsWay(pkt) /\ BeforeMeter(pkt)
  BY <1>1 DEF PacketInv, OnTheWay, PlaceInv
<1>3. CASE pkt.send = "MATCH"
  <2>1. PICK q \in SharedMeter(pkt) :
          IF q.color = "red" THEN Dropped ELSE pkt' = ToIngressPort(VmLocation(q))
    BY <1>3 DEF P13Ingress
  <2>2. q \in Packet /\ MeterKeeps(pkt, q)
    BY <1>1, SharedMeterOutcome, MetersKeep
  <2>3. Addressed(q) /\ OnItsWay(q) /\ q.type = "IN"
    BY <1>1, <1>2, <2>2, MeterKeepsPlace DEF MeterKeeps, PlaceInv
  <2>4. VmLocation(q) = q \/ VmLocation(q) = [q EXCEPT !.needDrop = TRUE]
    BY DEF VmLocation
  <2>5. pkt' = NoPacket \/ PlaceInv(pkt')
    BY <2>1, <2>2, <2>3, <2>4, ToIngressPortPlace DEF Dropped
  <2>6. /\ pkt.gw = Owner(pkt.eip) /\ pkt.pipe = InPipe(pkt.eip)
        /\ pkt.shared = SharedOf[pkt.eip]
    BY <1>1, <1>2, <1>3 DEF OnItsWay, BeforeMeter, EipTofs
  <2>7. \A m \in SharedEnforced(pkt) : MeterOfEip(m)
    BY <1>1, <1>2, <2>6, EnforcedOf
  <2>8. meters' = meters \union SharedEnforced(pkt)
    BY <1>3 DEF P13Ingress
  <2> QED BY <1>1, <2>5, <2>7, <2>8, PlaceStep
<1>4. CASE pkt.send # "MATCH"
  <2>1. pkt' = ToIngressPort(pkt) /\ UNCHANGED meters
    BY <1>4 DEF P13Ingress
  <2>2. PlaceInv(pkt')
    BY <1>1, <1>2, <1>4, <2>1, ToIngressPortPlace
  <2> QED BY <1>1, <2>1, <2>2, PlaceStep
<1> QED BY <1>3, <1>4

LEMMA TransmitPlace ==
    ASSUME NEW p \in Packet, Addressed(p), OnItsWay(p), Transmit(p)
    PROVE  pkt' = NoPacket \/ PlaceInv(pkt')
<1>1. pkt' = NoPacket \/ pkt' = [p EXCEPT !.at = "wire"]
  BY DEF Transmit, Dropped
<1> DEFINE w == [p EXCEPT !.at = "wire"]
<1>2. SameWay(p, w) /\ w.at = "wire"
  BY DEF Packet, SameWay
<1> HIDE DEF w
<1>3. Addressed(w) /\ OnItsWay(w)
  BY <1>2, WayStays
<1>4. PlaceInv(w)
  BY <1>2, <1>3 DEF PlaceInv, BeforeMeter
<1> QED BY <1>1, <1>4 DEF w

LEMMA LastPassPlace == ASSUME PipelineInv, OneMeterInv, P02Egress PROVE OneMeterInv'
<1>1. /\ pkt \in Packet /\ PacketInv(pkt) /\ PlaceInv(pkt) /\ pkt.at = "P02_Egress"
      /\ \A m \in meters : MeterOfEip(m)
  BY DEF PipelineInv, PipelineTypeOK, OneMeterInv, P02Egress, At
<1>2. Addressed(pkt) /\ OnItsWay(pkt) /\ BeforeMeter(pkt) /\ pkt.type \in {"IN", "OUT"}
  BY <1>1 DEF PlaceInv, Packet
<1>3. CASE pkt.send = "MATCH" /\ pkt.type = "OUT"
  <2>1. pkt.metered = 0
    BY <1>1, <1>3 DEF PacketInv, PastMeter
  <2>2. PICK q \in EipMeter(pkt) : \E r \in SharedMeter(q) :
           /\ Transmit(InternetOut(r))
           /\ meters' = meters \union EipEnforced(pkt) \union SharedEnforced(q)
    BY <1>3 DEF P02Egress
  <2> PICK r \in SharedMeter(q) :
           /\ Transmit(InternetOut(r))
           /\ meters' = meters \union EipEnforced(pkt) \union SharedEnforced(q)
    BY <2>2
  <2>3. q \in Packet /\ MeterKeeps(pkt, q)
    BY <1>1, <2>1, EipMeterOutcome, MetersKeep
  <2>4. r \in Packet /\ MeterKeeps(q, r)
    BY <2>3, SharedMeterOutcome, MetersKeep
  <2>5. OnItsWay(r)
    BY <1>1, <2>3, <2>4, MeterKeepsPlace DEF PlaceInv
  <2> DEFINE o == InternetOut(r)
  <2>6. o \in Packet /\ o.to = "internet" /\ o.tof = r.tof /\ o.send = r.send /\ o.next = r.next
        /\ o.gw = r.gw /\ o.eip = r.eip
    <3>1. o \in Packet
      BY <2>4, ZenonT(60) DEF InternetOut, Packet
    <3>2. o.to = "internet" /\ o.tof = r.tof /\ o.send = r.send /\ o.next = r.next
          /\ o.gw = r.gw /\ o.eip = r.eip
      BY <2>4 DEF InternetOut, Packet
    <3> QED BY <3>1, <3>2
  <2>7. Transmit(o)
    BY DEF o
  <2> HIDE DEF o
  <2>8. Addressed(o) /\ OnItsWay(o)
    BY <2>5, <2>6 DEF Addressed, OnItsWay
  <2>9. pkt' = NoPacket \/ PlaceInv(pkt')
    BY <2>6, <2>7, <2>8, TransmitPlace
  <2>10. /\ pkt.gw = Owner(pkt.eip) /\ pkt.pipe = OutPipe(pkt.eip)
         /\ pkt.shared = SharedOf[pkt.eip] /\ pkt.bw = pkt.eip
    BY <1>1, <1>2, <1>3 DEF OnItsWay, BeforeMeter, EipTofs
  <2>11. /\ q.gw = Owner(q.eip) /\ q.pipe = OutPipe(q.eip) /\ q.shared = SharedOf[q.eip]
         /\ q.type = "OUT"
    BY <1>3, <2>3, <2>10 DEF MeterKeeps, SameWay
  <2>12. /\ \A m \in EipEnforced(pkt) : MeterOfEip(m)
         /\ \A m \in SharedEnforced(q) : MeterOfEip(m)
    BY <1>1, <1>3, <2>3, <2>10, <2>11, EnforcedOf
  <2> QED BY <1>1, <2>9, <2>12, PlaceStep
<1>4. CASE pkt.send = "MATCH" /\ pkt.type = "IN"
  <2>1. Transmit(InternetIn(pkt)) /\ UNCHANGED meters
    BY <1>4 DEF P02Egress
  <2> DEFINE o == InternetIn(pkt)
  <2>2. o \in Packet
    <3>1. ASSUME NEW d \in BOOLEAN
          PROVE [pkt EXCEPT !.to = "vm", !.vx = "std", !.tof = "none", !.needDrop = d] \in Packet
      BY <1>1, ZenonT(60) DEF Packet, Tofs
    <3>2. (IF tab[pkt.gw][pkt.eip].path = "noTunnel" THEN TRUE ELSE pkt.needDrop) \in BOOLEAN
      BY <1>1 DEF Packet
    <3> QED BY <3>1, <3>2 DEF InternetIn
  <2>3. o.to = "vm" /\ o.tof = "none"
    BY <1>1 DEF InternetIn, Packet
  <2>4. Transmit(o)
    BY <2>1 DEF o
  <2> HIDE DEF o
  <2>5. Addressed(o) /\ OnItsWay(o)
    BY <2>3 DEF Addressed, OnItsWay, AzTofs, EipTofs
  <2>6. pkt' = NoPacket \/ PlaceInv(pkt')
    BY <2>2, <2>4, <2>5, TransmitPlace
  <2> QED BY <1>1, <2>1, <2>6, PlaceStep
<1>5. CASE pkt.send # "MATCH"
  <2>1. Transmit(pkt) /\ UNCHANGED meters
    BY <1>5 DEF P02Egress
  <2>2. pkt' = NoPacket \/ PlaceInv(pkt')
    BY <1>1, <1>2, <2>1, TransmitPlace
  <2> QED BY <1>1, <2>1, <2>2, PlaceStep
<1> QED BY <1>2, <1>3, <1>4, <1>5

LEMMA DeliverPlace == ASSUME PipelineInv, OneMeterInv, Deliver PROVE OneMeterInv'
<1>1. /\ pkt \in Packet /\ PacketInv(pkt) /\ PlaceInv(pkt) /\ \A m \in meters' : MeterOfEip(m)
  BY DEF PipelineInv, PipelineTypeOK, OneMeterInv, Deliver, At
<1>2. CASE pkt.send = "DL"
  <2>1. PICK g \in pkt.next, i \in External, c \in {"green", "red"} :
           pkt' = [pkt EXCEPT !.gw = g, !.at = "P02_Ingress", !.igrPipe = i, !.pipe = i,
                              !.send = "MATCH", !.needDrop = FALSE, !.color = c,
                              !.next = {}, !.bw = NoShared, !.shared = NoShared]
    BY <1>2 DEF Deliver
  <2>2. /\ pkt'.gw = g /\ pkt'.at = "P02_Ingress" /\ pkt'.send = "MATCH" /\ pkt'.eip = pkt.eip
        /\ pkt'.to = pkt.to /\ pkt'.vx = pkt.vx /\ pkt'.tof = pkt.tof
    BY <1>1, <2>1 DEF Packet
  <2>3. Addressed(pkt) /\ OnItsWay(pkt)
    BY <1>1 DEF PlaceInv
  <2>4. pkt.tof \in AzTofs => Cluster[g] = Home[Bw(pkt.eip)]
    BY <1>2, <2>3 DEF OnItsWay, Vip
  <2>5. pkt.tof \in EipTofs => g = Owner(pkt.eip)
    BY <1>2, <2>3 DEF OnItsWay
  <2>6. PlaceInv(pkt')
    BY <2>2, <2>3, <2>4, <2>5 DEF PlaceInv, Addressed, OnItsWay, BeforeMeter
  <2> QED BY <1>1, <2>6, PlaceStep
<1>3. CASE pkt.send # "DL"
  <2>1. pkt' = NoPacket
    BY <1>3 DEF Deliver
  <2> QED BY <1>1, <2>1, PlaceStep
<1> QED BY <1>2, <1>3

LEMMA MeterStep == ASSUME PipelineInv, Agreed, OneMeterInv, [Next]_vars PROVE OneMeterInv'
<1>1. CASE Arrive          BY <1>1, ArrivePlace
<1>2. CASE P02IngressLocal BY <1>2, LocalPlace
<1>3. CASE P02IngressDrop
  <2>1. pkt' = NoPacket /\ UNCHANGED meters
    BY <1>3 DEF P02IngressDrop, Dropped
  <2>2. \A m \in meters' : MeterOfEip(m)
    BY <2>1 DEF OneMeterInv
  <2> QED BY <2>1, <2>2, PlaceStep
<1>4. CASE P02IngressOut   BY <1>4, OutPlace
<1>5. CASE P02IngressIn    BY <1>5, InPlace
<1>6. CASE P13Egress       BY <1>6, EgressPlace
<1>7. CASE P13Ingress      BY <1>7, IngressPlace
<1>8. CASE P02Egress       BY <1>8, LastPassPlace
<1>9. CASE Deliver         BY <1>9, DeliverPlace
<1>10. CASE Update \/ UNCHANGED vars
  <2>1. UNCHANGED <<pkt, meters>>
    BY <1>10 DEF Update, vars
  <2>2. (pkt' = NoPacket \/ PlaceInv(pkt')) /\ \A m \in meters' : MeterOfEip(m)
    BY <2>1 DEF OneMeterInv
  <2> QED BY <2>2, PlaceStep
<1> QED BY <1>1, <1>2, <1>3, <1>4, <1>5, <1>6, <1>7, <1>8, <1>9, <1>10 DEF Next, Forward

(* Where the tables agree, and as long as they do, whatever else the        *)
(* controllers rewrite, a bandwidth is enforced by one meter in each        *)
(* direction, for any number of gateways, clusters and eips                 *)
(* (redirect.p4:84-255, switch_ecmp_group2.c:163-198).                     *)
THEOREM OneMeterCorrect == Spec /\ []Agreed => []OneMeter
<1>1. Init => OneMeterInv
  BY DEF Init, OneMeterInv
<1>2. PipelineInv /\ Agreed /\ OneMeterInv /\ [Next]_vars => OneMeterInv'
  BY MeterStep
<1>3. OneMeterInv => OneMeter
  BY OneMeterFollows
<1> QED BY <1>1, <1>2, <1>3, PipelineInvariant, PTL DEF Spec
=============================================================================
