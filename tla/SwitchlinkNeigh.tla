--------------------------- MODULE SwitchlinkNeigh ---------------------------
(***************************************************************************)
(* The neighbour half of the switchlink thread                             *)
(* (igw-h/init_setup/switchlink/switchlink_neigh.c): the daemon listens to  *)
(* the kernel's neighbour notifications and keeps the Tofino table          *)
(* tunnel_mac_rewrite, one destination address per external port, equal to  *)
(* the link address of the gateway behind that port.                        *)
(*                                                                         *)
(* A mac_rewrite_entry_t caches what the daemon believes to be in the       *)
(* table.  The table is only written when the cache says it differs, so a   *)
(* cache that runs ahead of the hardware would never be repaired.           *)
(***************************************************************************)

CONSTANTS
    Hostif,     \* the configured hostifs, one mac_rewrite_entry_t each
    OtherIntf,  \* interfaces of the box that are not hostifs (lo, ma1, ...)
    Ip,         \* IPv4 hosts on the links
    GwOf,       \* GwOf[h]: the gw_ip configured for hostif h
    Mac,        \* link addresses is_valid_ether_addr accepts
    BadMac,     \* multicast and zero link addresses
    NoAttr,     \* "the attribute is absent"
    NoMac       \* "no entry", "no address yet"

ASSUME NeighAssumption ==
    /\ GwOf \in [Hostif -> Ip]
    /\ Hostif \cap OtherIntf = {}
    /\ Mac \cap BadMac = {}
    /\ NoMac \notin Mac
    /\ NoAttr \notin Ip \cup Mac \cup BadMac

VARIABLES
    macEntry,   \* macEntry[h] = [valid, dmac]: the cached entry of hostif h
    hwMac,      \* hwMac[h]: dmac of the tunnel_mac_rewrite entry of its port
    announcedMac \* history: link addresses announced for h's own gateway

neighVars == <<macEntry, hwMac, announcedMac>>

(* What the kernel sends.  Entries of other hosts on the same link, other   *)
(* interfaces, IPv6 neighbours, entries without a link address (NUD_FAILED, *)
(* NUD_INCOMPLETE) and deletions arrive on the same group.                  *)
NeighMsg ==
    [type : {"NEWNEIGH", "DELNEIGH"}, family : {"inet", "inet6"},
     intf : Hostif \cup OtherIntf, dst : Ip \cup {NoAttr},
     lladdr : Mac \cup BadMac \cup {NoAttr}]

(* m tells the link address of the gateway of hostif h. *)
AnnouncesGateway(m, h) ==
    /\ m.type = "NEWNEIGH" /\ m.family = "inet"
    /\ m.intf = h /\ m.dst = GwOf[h] /\ m.lladdr \in Mac

-----------------------------------------------------------------------------

NeighTypeOK ==
    /\ macEntry \in [Hostif -> [valid : BOOLEAN, dmac : Mac \cup {NoMac}]]
    /\ hwMac \in [Hostif -> Mac \cup {NoMac}]
    /\ announcedMac \in [Hostif -> SUBSET Mac]

(* neigh_system_init: entries are zeroed, the table is empty after the      *)
(* switch driver has initialised the device.                               *)
NeighInit ==
    /\ macEntry = [h \in Hostif |-> [valid |-> FALSE, dmac |-> NoMac]]
    /\ hwMac = [h \in Hostif |-> NoMac]
    /\ announcedMac = [h \in Hostif |-> {}]

(* Variant without the comparison with gw_ip. *)
AcceptsAnyHost(m) ==
    /\ m.type = "NEWNEIGH"
    /\ m.family = "inet"
    /\ m.intf \in Hostif
    /\ m.dst # NoAttr
    /\ m.lladdr # NoAttr /\ m.lladdr \notin BadMac

(* The early returns of process_neigh_msg. *)
Accepts(m) ==
    /\ m.type = "NEWNEIGH"
    /\ m.family = "inet"
    /\ m.intf \in Hostif
    /\ m.dst # NoAttr /\ m.dst = GwOf[m.intf]
    /\ m.lladdr # NoAttr /\ m.lladdr \notin BadMac

(* Variant that writes an entry only once. *)
NeedWriteOnce(m) == ~macEntry[m.intf].valid

(* need_write_flag: the entry was never written, or holds another address. *)
NeedWrite(m) ==
    \/ ~macEntry[m.intf].valid
    \/ macEntry[m.intf].dmac # m.lladdr

(* Variant that writes an absent address into the table. *)
MacRewriteEntryZero(h, dmac, ok) ==
    hwMac' = IF ok THEN [hwMac EXCEPT ![h] = dmac] ELSE [hwMac EXCEPT ![h] = NoAttr]

(* mac_rewrite_table_entry_add: looks the port up, then adds or modifies.   *)
(* Any of the driver's calls may fail, and the upper 16 bits of the two     *)
(* address words are never initialised, which the driver may refuse: the    *)
(* entry is then left as it was.                                            *)
MacRewriteEntryAdd(h, dmac, ok) ==
    hwMac' = IF ok THEN [hwMac EXCEPT ![h] = dmac] ELSE hwMac

(* Variant that remembers the address before the write is known to be done. *)
UpdateEntryEarly(h, dmac, ok) ==
    macEntry' = [macEntry EXCEPT ![h] = [valid |-> TRUE, dmac |-> dmac]]

(* The cache follows the table only when the write succeeded. *)
UpdateEntry(h, dmac, ok) ==
    macEntry' = IF ok THEN [macEntry EXCEPT ![h] = [valid |-> TRUE, dmac |-> dmac]]
                      ELSE macEntry

RecordAnnouncement(m) ==
    announcedMac' = [h \in Hostif |->
        announcedMac[h] \cup (IF AnnouncesGateway(m, h) THEN {m.lladdr} ELSE {})]

(* process_neigh_msg returns without touching the table. *)
SkipNeigh(m) ==
    /\ ~(Accepts(m) /\ NeedWrite(m))
    /\ UNCHANGED <<macEntry, hwMac>>

(* process_neigh_msg writes the table; ok is the outcome of the write. *)
WriteNeigh(m, ok) ==
    /\ Accepts(m)
    /\ NeedWrite(m)
    /\ MacRewriteEntryAdd(m.intf, m.lladdr, ok)
    /\ UpdateEntry(m.intf, m.lladdr, ok)

ProcessNeighMsg(m) ==
    /\ RecordAnnouncement(m)
    /\ \/ SkipNeigh(m)
       \/ \E ok \in BOOLEAN : WriteNeigh(m, ok)

NeighNext == \E m \in NeighMsg : ProcessNeighMsg(m)

NeighSpec == NeighInit /\ [][NeighNext]_neighVars

-----------------------------------------------------------------------------

(* The cache equals the hardware, entry by entry.  This is what makes it    *)
(* sound to skip the write when the cached address is unchanged: a failed   *)
(* write must leave the cache behind, so that the next notification of the  *)
(* same address tries again (switchlink_neigh.c:116-135).                   *)
CacheMatchesHardware ==
    \A h \in Hostif :
        hwMac[h] = IF macEntry[h].valid THEN macEntry[h].dmac ELSE NoMac

(* A port only ever rewrites to an address that was announced for its own   *)
(* gateway: other hosts of the link, other interfaces and deleted entries   *)
(* never redirect the traffic of a port (switchlink_neigh.c:82-114).        *)
OnlyGatewayAddresses ==
    \A h \in Hostif : hwMac[h] # NoMac => hwMac[h] \in announcedMac[h]
=============================================================================
