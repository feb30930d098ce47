---------------------------- MODULE SwitchConfig ----------------------------
(***************************************************************************)
(* switch_config.c: the file /etc/hostif.json is parsed into the struct     *)
(* switch_cfg.  get_field_of_int always stores an int, also where its       *)
(* caller passes the address of a 16- or 8-bit field: such a store zeroes   *)
(* what follows the field in memory.  The values of the file are taken to   *)
(* fit their fields, so that only the zero bytes spill.                     *)
(***************************************************************************)
EXTENDS Naturals, Sequences

CONSTANTS
    HostifsSize,   \* HOSTIFS_SIZE, the length of the array hostifs
    Files          \* the files that may be found

(* Of each hostif: whether it has an address in IPv6 and (StartTables)      *)
(* whether that has the solicited-node group of the link-local one.  bad is *)
(* the first store whose field is missing or refused (<<>>: none).  dl_ip   *)
(* and prefix_len: EipDl.  backup_vip may be absent or repeat the vip.      *)
File == [hostifs : Seq([ip6 : BOOLEAN, same_mc : BOOLEAN]), bad : {<<>>} \union (Nat \X Nat),
         dl_ip : Nat, prefix_len : Nat, backup : {"none", "other", "vip"}]

ASSUME ConfigAssumption ==
    /\ HostifsSize \in Nat \ {0}
    /\ \A f \in Files : f \in File /\ Len(f.hostifs) \in 1..HostifsSize

VARIABLES
    file,     \* the file found
    cfg,      \* cfg[c]: cell c holds what the file says, or zero
    at,       \* <<s, k>>: the next store is the k-th of section s
    parse     \* "parsing", "done" or "failed"

configVars == <<file, cfg, at, parse>>

(* Cells of switch_config_t that stores fill or spill into.  Those of the   *)
(* i-th element of hostifs come first; hostif_num follows the last element. *)
HostifField == {"intf_name", "ip_addr", "gw_ip_addr", "net_mask_len", "ip6_addr",
                "ip6_prefix_len", "ipv6_enable", "mac_str", "mac", "fp_port"}
HigwField == {"hostif_num", "dl_ip", "dl_ip_prefix_len", "port_speed", "hardware_model", "fec_model"}

Higw(f) == <<HostifsSize, f>>
Cell == ((0..HostifsSize - 1) \X HostifField) \union {Higw(f) : f \in HigwField}

(* The cells the store into cell c spills into.                             *)
Overrun(c) ==
    CASE c[2] = "net_mask_len"   -> {<<c[1], "ip6_addr">>}
      [] c[2] = "ip6_prefix_len" -> {<<c[1], "ipv6_enable">>, <<c[1], "mac_str">>}
      [] c[2] = "fp_port"        -> {IF c[1] + 1 = HostifsSize THEN Higw("hostif_num")
                                                               ELSE <<c[1] + 1, "intf_name">>}
      [] c[2] = "port_speed"     -> {Higw("hardware_model")}
      [] c[2] = "hardware_model" -> {Higw("fec_model")}
      [] OTHER                   -> {}

(* Variant that enables IPv6 as soon as it has seen an address.             *)
EnableFirst(h) ==
    IF h.ip6 THEN <<"intf_name", "ip_addr", "net_mask_len", "gw_ip_addr", "ip6_addr", "ipv6_enable",
                    "ip6_prefix_len", "mac_str", "mac", "fp_port">>
             ELSE <<"intf_name", "ip_addr", "net_mask_len", "gw_ip_addr", "mac_str", "mac", "fp_port">>

(* The fields switch_config_set_hostif stores, in its order.                *)
HostifStores(h) ==
    IF h.ip6 THEN <<"intf_name", "ip_addr", "net_mask_len", "gw_ip_addr", "ip6_addr", "ip6_prefix_len",
                    "ipv6_enable", "mac_str", "mac", "fp_port">>
             ELSE <<"intf_name", "ip_addr", "net_mask_len", "gw_ip_addr", "mac_str", "mac", "fp_port">>

(* Section 0 is higw, RedirectIP and the number of hostifs, section i the   *)
(* i-th hostif.                                                             *)
Stores(s) ==
    IF s = 0 THEN <<"port_speed", "hardware_model", "fec_model", "dl_ip", "dl_ip_prefix_len", "hostif_num">>
             ELSE HostifStores(file.hostifs[s])

StoredAt(s, k) == IF s = 0 THEN Higw(Stores(0)[k]) ELSE <<s - 1, Stores(s)[k]>>

AtEnd == at[1] > Len(file.hostifs)

ConfigInit ==
    /\ file \in Files
    /\ cfg = [c \in Cell |-> "zero"]
    /\ at = <<0, 1>>
    /\ parse = "parsing"

ParseField ==
    /\ parse = "parsing" /\ ~AtEnd /\ file.bad # at
    /\ LET stored == StoredAt(at[1], at[2])
       IN cfg' = [c \in Cell |-> CASE c = stored            -> "file"
                                   [] c \in Overrun(stored) -> "zero"
                                   [] OTHER                 -> cfg[c]]
    /\ at' = IF at[2] = Len(Stores(at[1])) THEN <<at[1] + 1, 1>> ELSE <<at[1], at[2] + 1>>
    /\ UNCHANGED <<file, parse>>

ParseEnds ==
    /\ parse = "parsing"
    /\ \/ ~AtEnd /\ file.bad = at /\ parse' = "failed"
       \/ AtEnd /\ parse' = "done"
    /\ UNCHANGED <<file, cfg, at>>

ParseStep == ParseField \/ ParseEnds

(* The file as the program has it: it counts its hostifs by hostif_num.     *)
WithoutHostifs(f) == [f EXCEPT !.hostifs = <<>>]
Loaded == IF cfg[Higw("hostif_num")] = "file" THEN file ELSE WithoutHostifs(file)

-----------------------------------------------------------------------------
(* Whatever a store spills into is stored again later, or was never set: a  *)
(* file that is accepted leaves every cell as the file has it, although     *)
(* each int stored destroys a neighbour.  It rests on the order of the      *)
(* fields in the struct and in the parser (switch_config.c:67-141,          *)
(* 217-250).  The one exception: HOSTIFS_SIZE hostifs are accepted, and the *)
(* last fp_port wipes out their number (switch_config.c:160-165).           *)
InFile(c) ==
    \/ c[1] = HostifsSize
    \/ /\ c[1] < Len(file.hostifs)
       /\ c[2] \in {"ip6_addr", "ip6_prefix_len", "ipv6_enable"} => file.hostifs[c[1] + 1].ip6

Lost(c) == c = Higw("hostif_num") /\ Len(file.hostifs) = HostifsSize

ParsedAsWritten ==
    parse = "done" => cfg = [c \in Cell |-> IF InFile(c) /\ ~Lost(c) THEN "file" ELSE "zero"]
=============================================================================
