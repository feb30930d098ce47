------------------------------- MODULE IgwTables -------------------------------
(***************************************************************************)
(* What the constant tables of the data plane decide about a packet, once   *)
(* init_setup has filled them: igw_ip_type and pipeline_fix (where a packet *)
(* comes from and which pipe it takes), eip_in_jd_vxlan and                 *)
(* eip_out_jd_vxlan (whether it is redirected), ecmp_group_02_v2 (which     *)
(* pipe's ports it leaves by) and egress_system_acl (whether it leaves).    *)
(* IgwPipeline carries packets through these decisions; StartTables shows   *)
(* that the entries written at start make them.                             *)
(***************************************************************************)
EXTENDS Naturals

CONSTANTS
    Eips,          \* elastic addresses; each is also its own bandwidth id
    V4,            \* the eips that are IPv4 (the others are IPv6)
    OddEips        \* the eips whose last bit is 1

ASSUME EipAssumption == V4 \subseteq Eips /\ OddEips \subseteq Eips

(* igw_ip_type: the action hit, its pipeline and dl_pkt.  Any IP packet     *)
(* that no other entry matches is taken for one from the Internet.         *)
OutHit(p, dl)  == [type |-> "OUT", dl |-> dl,
                   egr |-> IF p.eip \in OddEips \ V4 THEN 0 ELSE 2]
InHit(p, dl)   == [type |-> "IN", dl |-> dl, egr |-> IF p.eip \in OddEips THEN 1 ELSE 3]
NeedDrop       == [type |-> "DROP"]

(* How the redirected packets of a direction are addressed and stamped.     *)
Redirects(type) == IF type = "OUT" THEN {<<"vip", "AZ_OUT">>, <<"dl", "EIP_OUT">>}
                                   ELSE {<<"vip", "AZ_IN">>, <<"dl", "EIP_IN">>}

IgwIpType(p) ==
    CASE p.to = "vip" /\ p.vx = "std" /\ p.tof = "none"      -> OutHit(p, FALSE)
      [] p.vx = "jd" /\ <<p.to, p.tof>> \in Redirects("OUT") -> OutHit(p, TRUE)
      [] p.vx = "jd" /\ <<p.to, p.tof>> \in Redirects("IN")  -> InHit(p, TRUE)
      [] p.to = "mcast6" \/ p.outer = "none"                 -> NeedDrop
      [] OTHER                                               -> InHit(p, FALSE)

(* pipeline_fix: an IPv4 packet going out takes the pipe of its eip's bit. *)
PipelineFix(p, egr) == IF p.eip \in V4 THEN (IF p.eip \in OddEips THEN 0 ELSE 2) ELSE egr

(* Variant: the group of the pipe's pair, two pipes further on.             *)
EcmpGroupNextPair(egr, haveSharedBd) == IF haveSharedBd THEN egr + 2 ELSE egr

(* ecmp_group_02_v2: the pipe whose selector chooses the egress port.      *)
EcmpGroup(egr, haveSharedBd) ==
    CASE egr = 1 /\ haveSharedBd -> 3
      [] egr = 0 /\ haveSharedBd -> 2
      [] OTHER                   -> egr

(* Variant that redirects whatever was redirected before.                   *)
JdRedirectAgain(p, ent, az) ==
    CASE p.vx # "none" /\ ent.between                -> "az"
      [] p.vx # "none" /\ ~ent.between /\ ent.within -> "eip"
      [] OTHER                                       -> "nop"

(* eip_in_jd_vxlan and eip_out_jd_vxlan, for the tof az of redirects        *)
(* between clusters in their direction.                                     *)
JdRedirect(p, ent, az) ==
    CASE p.vx # "none" /\ p.tof = "none" /\ ent.between -> "az"
      [] p.vx # "none" /\ p.tof \in {"none", az} /\ (p.tof = "none" => ~ent.between) /\ ent.within -> "eip"
      [] OTHER -> "nop"

(* Variant: both entries of the ACL ask for an IPv4 header.                 *)
AclBothNeedIpv4(p) == (p.color = "red" \/ p.needDrop) /\ p.outer = "v4"

(* egress_system_acl, as acl_table_init fills it.                           *)
EgressSystemAcl(p) == p.color = "red" \/ (p.needDrop /\ p.outer = "v4")
================================================================================
