------------------------------- MODULE StartTables -------------------------------
(***************************************************************************)
(* The constant tables of the data plane, entry by entry in the order in    *)
(* which init_setup writes them.  The ports are up by then, so packets pass *)
(* while a table is only half filled.                                       *)
(*                                                                         *)
(* An entry is ternary: its key holds the fields it asks for, a field whose *)
(* mask is 0 is left out of it.  The entry with the lowest priority number  *)
(* decides; of several with the same one, any may.                          *)
(***************************************************************************)
EXTENDS IgwTables, SwitchConfig
SeqExt == INSTANCE SequencesExt

Highest == 0
Middle == 10
Lowest == 20

Entry(table, pri, key, act) == [table |-> table, pri |-> pri, key |-> key, act |-> act]

(* A key that asks for the fields of both.                                  *)
And(k1, k2) == [n \in DOMAIN k1 \union DOMAIN k2 |-> IF n \in DOMAIN k1 THEN k1[n] ELSE k2[n]]

Matches(fields, e) == \A k \in DOMAIN e.key : fields[k] = e.key[k]

(* The actions the first n writes allow for fields in a table.             *)
Verdict(writes, n, table, fields) ==
    LET hits == {i \in 1..n : writes[i].table = table /\ Matches(fields, writes[i])}
    IN {writes[i].act : i \in {j \in hits : \A k \in hits : writes[j].pri <= writes[k].pri}}

-----------------------------------------------------------------------------
(* igw_ip_type_table_init, for a file f.                                    *)
Hit(type, dl, egr) == [type |-> type, dl |-> dl, egr |-> egr]

AddIgwIpType(pri, key, act) == Entry("igw_ip_type", pri, key, act)

(* f.backup: whether the file has a backup_vip, and one that differs.       *)
Vips(f) == CASE f.backup = "none"  -> <<"vip">>
             [] f.backup = "other" -> <<"vip", "backup_vip">>
             [] f.backup = "vip"   -> <<"vip", "vip">>

(* What the entries of a direction ask of the packet inside the vxlan, and  *)
(* the pipeline each sets.                                                  *)
InnerOut == <<[egr |-> 2, key |-> [inner |-> "v4"]],
              [egr |-> 0, key |-> [inner |-> "v6", innerSrcOdd |-> TRUE]],
              [egr |-> 2, key |-> [inner |-> "v6", innerSrcOdd |-> FALSE]]>>
InnerIn ==  <<[egr |-> 1, key |-> [inner |-> "v4", innerDstOdd |-> TRUE]],
              [egr |-> 3, key |-> [inner |-> "v4", innerDstOdd |-> FALSE]],
              [egr |-> 1, key |-> [inner |-> "v6", innerDstOdd |-> TRUE]],
              [egr |-> 3, key |-> [inner |-> "v6", innerDstOdd |-> FALSE]]>>

(* One entry for each of inner and dsts.                                    *)
Tunnelled(dsts, vx, tof, inner, type) ==
    SeqExt!FlattenSeq([i \in 1..Len(inner) |-> [d \in 1..Len(dsts) |->
        AddIgwIpType(Highest,
                     And(inner[i].key, [outer |-> "v4", dst |-> dsts[d], vx |-> vx, tof |-> tof]),
                     Hit(type, tof # "none", inner[i].egr))]])

InternetOut(f) == Tunnelled(Vips(f), "std", "none", InnerOut, "OUT")
InternetOutBetweenClusters(f) == Tunnelled(Vips(f), "jd", "AZ_OUT", InnerOut, "OUT")
InternetOutWithinCluster == Tunnelled(<<"dl">>, "jd", "EIP_OUT", InnerOut, "OUT")
InternetInBetweenClusters(f) == Tunnelled(Vips(f), "jd", "AZ_IN", InnerIn, "IN")
InternetInWithinCluster == Tunnelled(<<"dl">>, "jd", "EIP_IN", InnerIn, "IN")

FromInternet(outer, odd) ==
    AddIgwIpType(Lowest, [outer |-> outer, dstOdd |-> odd], Hit("IN", FALSE, IF odd THEN 1 ELSE 3))

(* Variant whose entry for multicast has the priority of the ones below it. *)
InternetInLowest ==
    <<FromInternet("v4", TRUE), FromInternet("v4", FALSE),
      AddIgwIpType(Lowest, [outer |-> "v6", dst |-> "mcast6"], NeedDrop),
      FromInternet("v6", TRUE), FromInternet("v6", FALSE)>>

(* internet_in_entry_init.                                                  *)
InternetIn ==
    <<FromInternet("v4", TRUE), FromInternet("v4", FALSE),
      AddIgwIpType(Highest, [outer |-> "v6", dst |-> "mcast6"], NeedDrop),
      FromInternet("v6", TRUE), FromInternet("v6", FALSE)>>

SetPipeline(key, egr) == Entry("pipeline_fix", Highest, key, egr)

PipelineFixWrites ==
    <<SetPipeline([inner |-> "v4", innerSrcOdd |-> TRUE], 0),
      SetPipeline([inner |-> "v4", innerSrcOdd |-> FALSE], 2)>>

IgwIpTypeWrites(f) ==
    InternetOut(f) \o InternetOutBetweenClusters(f) \o InternetOutWithinCluster
    \o InternetIn \o InternetInBetweenClusters(f) \o InternetInWithinCluster
    \o PipelineFixWrites

(* eip_in_jd_vxlan_table_init and its twin for the other direction.         *)
Rewrite(table, key, act) == Entry(table, Highest, And([vxlan |-> TRUE], key), act)

JdVxlanWrites(table, az) ==
    <<Rewrite(table, [tof |-> "none", between |-> FALSE, within |-> TRUE], "eip"),
      Rewrite(table, [tof |-> az, within |-> TRUE], "eip"),
      Rewrite(table, [tof |-> "none", between |-> TRUE], "az")>>

EipInJdVxlanWrites  == JdVxlanWrites("eip_in_jd_vxlan", "AZ_IN")
EipOutJdVxlanWrites == JdVxlanWrites("eip_out_jd_vxlan", "AZ_OUT")

MeterDropWrites == <<Entry("eip_in_meter_drop", Highest, [color |-> "red"], "drop")>>

Acl(pri, key) == Entry("egress_system_acl", pri, key, "drop")
AclWrites == <<Acl(Lowest, [outer |-> "v4", needDrop |-> TRUE]), Acl(Highest, [color |-> "red"])>>

DropWrites == MeterDropWrites \o AclWrites

(* The entries of ecmp_group_02_v2, by ecmp_group02_init_4p.                *)
ChooseGroup(key, pipe) == Entry("ecmp_group_02_v2", Highest, key, pipe)

EcmpWrites ==
    <<ChooseGroup([egr |-> 1, bd |-> FALSE], 1), ChooseGroup([egr |-> 1, bd |-> TRUE], 3),
      ChooseGroup([egr |-> 3], 3),
      ChooseGroup([egr |-> 0, bd |-> FALSE], 0), ChooseGroup([egr |-> 0, bd |-> TRUE], 2),
      ChooseGroup([egr |-> 2], 2)>>

-----------------------------------------------------------------------------
(* process_protocol_packet: which frames the kernel gets.  Port 0 is the    *)
(* CPU's, port i has the i-th hostif of the file.                           *)
Cpu == 0

(* The address of the file's i-th hostif in IPv6, the link-local one its    *)
(* MAC gives it, and their solicited-node groups, which are the same when   *)
(* the last 24 bits of the two agree.                                       *)
Ip6Addresses(i, h) ==
    <<<<"ip6", i>>, <<"ip6_mc", i>>, <<"linklocal", i>>,
      IF h.same_mc THEN <<"ip6_mc", i>> ELSE <<"linklocal_mc", i>>>>

Copy(key) == Entry("process_protocol_packet", Lowest, key, "copy_to_cpu_nos")

CopyAt(i, ether, outer, dst) == Copy([ether |-> ether, outer |-> outer, dst |-> dst, port |-> i])

HostifWrites(i, h) ==
    <<CopyAt(i, "ipv4", "v4", <<"ip", i>>)>>
    \o IF h.ip6 THEN [a \in 1..4 |-> CopyAt(i, "ipv6", "v6", Ip6Addresses(i, h)[a])] ELSE <<>>

(* receive_from_cpu_lldp_init.                                              *)
Lldp ==
    <<Entry("process_protocol_packet", Highest,
            [ether |-> "lldp", outer |-> "none", vxlan |-> FALSE, port |-> Cpu], "receive_from_cpu_lldp"),
      Copy([ether |-> "lldp", outer |-> "none", vxlan |-> FALSE])>>

FromCpu(pri) == Entry("process_protocol_packet", pri, [port |-> Cpu], "receive_from_cpu_nos")

(* Variant without a priority of its own for frames from the CPU.           *)
ReceiveFromCpuLowest == FromCpu(Lowest)

ReceiveFromCpu == FromCpu(Middle)

ArpWrite   == Copy([ether |-> "arp", outer |-> "none", vxlan |-> FALSE])
MgtIpWrite == Copy([ether |-> "ipv4", outer |-> "v4", dst |-> <<"mgt_ip", 0>>])

(* Variant that copies all that is addressed to the vip.                    *)
VipWithVxlan(vip) == Copy([ether |-> "ipv4", outer |-> "v4", dst |-> <<vip, 0>>])

(* vip_copy_to_cpu_nos_init and its twin for the backup vip.                *)
VipWrite(vip) == Copy([ether |-> "ipv4", outer |-> "v4", dst |-> <<vip, 0>>, vxlan |-> FALSE])

LocalWrites(f) ==
    Lldp \o <<ReceiveFromCpu, ArpWrite, MgtIpWrite>>
    \o [v \in 1..Len(Vips(f)) |-> VipWrite(Vips(f)[v])]
    \o SeqExt!FlattenSeq([i \in 1..Len(f.hostifs) |-> HostifWrites(i, f.hostifs[i])])

-----------------------------------------------------------------------------
(* The steps of the start that fill these tables, and what each writes.     *)
FillStep == {"tables", "drops", "ecmp", "packets"}

Writes(step, f) ==
    CASE step = "tables"  -> IgwIpTypeWrites(f) \o EipInJdVxlanWrites \o EipOutJdVxlanWrites
      [] step = "drops"   -> DropWrites
      [] step = "ecmp"    -> EcmpWrites
      [] step = "packets" -> LocalWrites(f)

(* The driver refuses to add an entry whose key the table has already.      *)
Refused(writes, n) ==
    \E i \in 1..n - 1 : /\ writes[i].table = writes[n].table
                        /\ writes[i].pri = writes[n].pri
                        /\ writes[i].key = writes[n].key

(* Variant that adds without looking.                                       *)
AddOnly(writes, n) == ~Refused(writes, n)

(* entry_add_with_copy_to_cpu_nos and the others of process_protocol_packet *)
(* look for the key first and modify the entry they find; the other tables  *)
(* are only added to, and a refused entry ends the process.                 *)
Accepted(writes, n) == writes[n].table = "process_protocol_packet" \/ ~Refused(writes, n)

(* The files as the program may have them (Loaded).                         *)
Loadable == Files \union {WithoutHostifs(f) : f \in Files}

(* <<step, f, n>>: of a step's writes for f, another follows the first n;   *)
(* the driver refuses it.                                                   *)
ToCome ==
    UNION {{<<step, f, n>> : n \in 0..Len(Writes(step, f)) - 1} : step \in FillStep, f \in Loadable}
ToFail == {t \in ToCome : ~Accepted(Writes(t[1], t[2]), t[3] + 1)}

VARIABLE written   \* written[step]: how many of a step's writes are done

FillInit == written = [step \in FillStep |-> 0]

Reached(step) == <<step, Loaded, written[step]>>
Full(step) == Reached(step) \notin ToCome

WriteEntry(step) ==
    /\ Reached(step) \in ToCome \ ToFail
    /\ written' = [written EXCEPT ![step] = @ + 1]

WriteFails(step) ==
    /\ Reached(step) \in ToFail
    /\ UNCHANGED written

-----------------------------------------------------------------------------
(* Packets as IgwPipeline has them at P02_Ingress, and the fields the keys  *)
(* see in them: the eip is the outer destination, the inner destination or  *)
(* the inner source, and the last bit of the other addresses is any.        *)
Arrival(to, outer, vx, tof, e) == [to |-> to, outer |-> outer, vx |-> vx, tof |-> tof, eip |-> e]

Arrivals ==
    UNION {{Arrival("eip", IF e \in V4 THEN "v4" ELSE "v6", "none", "none", e),
            Arrival("vip", "v4", "std", "none", e),
            Arrival("mcast6", "v6", "none", "none", e),
            Arrival("unknown", "none", "none", "none", e)}
           \union {Arrival(r[1], "v4", "jd", r[2], e) : r \in Redirects("IN") \union Redirects("OUT")}
           : e \in Eips}

GoesOut(p) == p.vx = "std" \/ <<p.to, p.tof>> \in Redirects("OUT")

Fields(p, vip, other) ==
    LET odd == p.eip \in OddEips
    IN [outer |-> p.outer, dst |-> IF p.to = "vip" THEN vip ELSE p.to, vx |-> p.vx, tof |-> p.tof,
        dstOdd |-> IF p.to = "eip" THEN odd ELSE other,
        inner |-> IF p.vx = "none" THEN "none" ELSE IF p.eip \in V4 THEN "v4" ELSE "v6",
        innerSrcOdd |-> IF GoesOut(p) THEN odd ELSE other,
        innerDstOdd |-> IF GoesOut(p) THEN other ELSE odd]

(* A full table decides as it should: exactly one action, and none only     *)
(* where the default action is the right one.                               *)
Decides(writes, table, fields, default, act) ==
    LET v == Verdict(writes, Len(writes), table, fields)
    IN v = {act} \/ (v = {} /\ act = default)

DecidesType(f) ==
    \A p \in Arrivals, v \in 1..Len(Vips(f)), other \in BOOLEAN :
        Decides(IgwIpTypeWrites(f), "igw_ip_type", Fields(p, Vips(f)[v], other), NeedDrop, IgwIpType(p))

DecidesPipe(f) ==
    \A p \in {q \in Arrivals : GoesOut(q)}, other \in BOOLEAN, egr \in {0, 2} :
        Decides(IgwIpTypeWrites(f), "pipeline_fix", Fields(p, "vip", other), egr, PipelineFix(p, egr))

DecidesRedirect ==
    \A d \in {<<"eip_in_jd_vxlan", "AZ_IN">>, <<"eip_out_jd_vxlan", "AZ_OUT">>},
       vx \in {"none", "std", "jd"}, tof \in {"none", "AZ_IN", "EIP_IN", "AZ_OUT", "EIP_OUT"},
       within \in BOOLEAN, between \in BOOLEAN :
        Decides(JdVxlanWrites(d[1], d[2]), d[1],
                [vxlan |-> vx # "none", tof |-> tof, within |-> within, between |-> between], "nop",
                JdRedirect([vx |-> vx, tof |-> tof], [within |-> within, between |-> between], d[2]))

DecidesDrop ==
    \A color \in {"green", "red"}, needDrop \in BOOLEAN, outer \in {"v4", "none"} :
        LET p == [color |-> color, needDrop |-> needDrop, outer |-> outer]
        IN /\ Decides(DropWrites, "egress_system_acl", p, "go", IF EgressSystemAcl(p) THEN "drop" ELSE "go")
           /\ Decides(DropWrites, "eip_in_meter_drop", p, "go", IF color = "red" THEN "drop" ELSE "go")

DecidesGroup ==
    \A egr \in 0..3, bd \in BOOLEAN :
        Decides(EcmpWrites, "ecmp_group_02_v2", [egr |-> egr, bd |-> bd], "none", EcmpGroup(egr, bd))

(* The kinds of file whose tables, once full, all decide as they should.    *)
Decided ==
    {backup \in {"none", "other"} :
        LET f == [backup |-> backup]
        IN DecidesType(f) /\ DecidesPipe(f) /\ DecidesRedirect /\ DecidesDrop /\ DecidesGroup}

-----------------------------------------------------------------------------
(* Frames at process_protocol_packet, for files with n hostifs: from the    *)
(* wire by any port (the last has no hostif), from a hostif, whose driver   *)
(* puts a header with an ether type of its own before them, and raw frames  *)
(* of the CPU's own interface.                                              *)
Addresses(n) ==
    {<<a, 0>> : a \in {"mgt_ip", "vip", "backup_vip", "other"}}
    \union {"ip", "ip6", "ip6_mc", "linklocal", "linklocal_mc"} \X (1..n)

Ip6Kinds == {"ip6", "ip6_mc", "linklocal", "linklocal_mc", "other"}

Headers(n) ==
    {[ether |-> e, outer |-> "none", vxlan |-> FALSE, dst |-> <<"none", 0>>] : e \in {"arp", "lldp"}}
    \union {[ether |-> "ipv4", outer |-> "v4", vxlan |-> x, dst |-> a] :
               x \in BOOLEAN, a \in {b \in Addresses(n) : b[1] \notin Ip6Kinds \ {"other"}}}
    \union {[ether |-> "ipv6", outer |-> "v6", vxlan |-> FALSE, dst |-> a] :
               a \in {b \in Addresses(n) : b[1] \in Ip6Kinds}}

AtPort(h, port) == [ether |-> h.ether, outer |-> h.outer, vxlan |-> h.vxlan, dst |-> h.dst, port |-> port]
FromWire(n) == {AtPort(h, i) : h \in Headers(n), i \in 1..n + 1}
RawFromCpu(n) == {AtPort(h, Cpu) : h \in Headers(n)}
FromHostifs(n) == {[r EXCEPT !.ether = "bfn"] : r \in RawFromCpu(n)}

(* What the kernel has to see: the protocols of the link, the gateway's own *)
(* addresses, and a hostif's addresses where it is; but no tunnelled packet *)
(* of a tenant.                                                             *)
ForKernel(f, fr) ==
    \/ fr.ether \in {"arp", "lldp"}
    \/ fr.dst = <<"mgt_ip", 0>>
    \/ fr.dst[1] \in SeqExt!ToSet(Vips(f)) /\ ~fr.vxlan
    \/ fr.port \in 1..Len(f.hostifs) /\ fr.dst = <<"ip", fr.port>>
    \/ /\ fr.port \in 1..Len(f.hostifs)
       /\ LET h == f.hostifs[fr.port]
          IN h.ip6 /\ \E a \in 1..4 : fr.dst = Ip6Addresses(fr.port, h)[a]

LocalVerdict(f, n, fr) == Verdict(LocalWrites(f), n, "process_protocol_packet", fr)

KeepsOutOfKernel(f, n) ==
    \A fr \in FromWire(Len(f.hostifs)) : LocalVerdict(f, n, fr) # {} => ForKernel(f, fr)

ServesKernel(f) ==
    LET n == Len(LocalWrites(f))
    IN /\ \A fr \in FromWire(Len(f.hostifs)) :
              ForKernel(f, fr) => LocalVerdict(f, n, fr) = {"copy_to_cpu_nos"}
       /\ \A fr \in FromHostifs(Len(f.hostifs)) : LocalVerdict(f, n, fr) = {"receive_from_cpu_nos"}

SendsAway(f, n) ==
    \A fr \in FromHostifs(Len(f.hostifs)) \union RawFromCpu(Len(f.hostifs)) :
        "copy_to_cpu_nos" \notin LocalVerdict(f, n, fr)

(* Up to which entry process_protocol_packet does so, for each file.        *)
Filled   == UNION {{<<f, n>> : n \in 0..Len(LocalWrites(f))} : f \in Loadable}
SentAway == {t \in Filled : SendsAway(t[1], t[2])}
KeptOut  == {t \in Filled : KeepsOutOfKernel(t[1], t[2])}
Served   == {f \in Loadable : ServesKernel(f)}
================================================================================
