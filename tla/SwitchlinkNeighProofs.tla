------------------------ MODULE SwitchlinkNeighProofs ------------------------
(***************************************************************************)
(* The safety of the neighbour half, for any hostifs, gateways and link     *)
(* addresses.  Each invariant is inductive on its own, given the typing of  *)
(* the variables: a step looks at one entry only, the one of the interface  *)
(* the message names.                                                      *)
(***************************************************************************)
EXTENDS SwitchlinkNeigh, TLAPS

(* A message that is acted upon names a hostif and carries a usable link    *)
(* address of that hostif's gateway (switchlink_neigh.c:82-114).            *)
LEMMA AcceptedIsAnnouncement ==
    ASSUME NEW m \in NeighMsg, Accepts(m)
    PROVE  /\ m.intf \in Hostif /\ m.lladdr \in Mac
           /\ AnnouncesGateway(m, m.intf)
  BY DEF Accepts, NeighMsg, AnnouncesGateway

(* Typing is preserved by the handler. *)
LEMMA NeighTypeStep ==
    ASSUME NeighTypeOK, [NeighNext]_neighVars
    PROVE  NeighTypeOK'
<1>1. ASSUME NEW m \in NeighMsg, ProcessNeighMsg(m)
      PROVE  NeighTypeOK'
  <2>1. announcedMac' \in [Hostif -> SUBSET Mac]
    BY <1>1 DEF ProcessNeighMsg, RecordAnnouncement, AnnouncesGateway, NeighTypeOK
  <2>2. CASE SkipNeigh(m)
    BY <2>1, <2>2 DEF SkipNeigh, NeighTypeOK
  <2>3. ASSUME NEW ok \in BOOLEAN, WriteNeigh(m, ok)
        PROVE  NeighTypeOK'
    <3>1. m.intf \in Hostif /\ m.lladdr \in Mac
      BY <2>3, AcceptedIsAnnouncement DEF WriteNeigh
    <3>2. hwMac' \in [Hostif -> Mac \cup {NoMac}]
      BY <2>3, <3>1 DEF WriteNeigh, MacRewriteEntryAdd, NeighTypeOK
    <3>3. macEntry' \in [Hostif -> [valid : BOOLEAN, dmac : Mac \cup {NoMac}]]
      BY <2>3, <3>1 DEF WriteNeigh, UpdateEntry, NeighTypeOK
    <3> QED
      BY <2>1, <3>2, <3>3 DEF NeighTypeOK
  <2> QED
    BY <1>1, <2>2, <2>3 DEF ProcessNeighMsg
<1>2. CASE UNCHANGED neighVars
  BY <1>2 DEF neighVars, NeighTypeOK
<1> QED
  BY <1>1, <1>2 DEF NeighNext

(* Cache, table and history keep their types, for every configuration       *)
(* (mac_rewrite_entry_t and the tunnel_mac_rewrite table).                  *)
THEOREM NeighTypeCorrect == NeighSpec => []NeighTypeOK
<1>1. NeighInit => NeighTypeOK
  BY DEF NeighInit, NeighTypeOK
<1>2. NeighTypeOK /\ [NeighNext]_neighVars => NeighTypeOK'
  BY NeighTypeStep
<1> QED
  BY <1>1, <1>2, PTL DEF NeighSpec

(* The cache never runs ahead of, or behind, the table: skipping a write    *)
(* because the cached address is unchanged is sound                         *)
(* (switchlink_neigh.c:116-135).                                           *)
THEOREM CacheMatchesHardwareCorrect == NeighSpec => []CacheMatchesHardware
<1>1. NeighInit => CacheMatchesHardware
  <2> SUFFICES ASSUME NeighInit, NEW h \in Hostif
               PROVE  ~macEntry[h].valid /\ hwMac[h] = NoMac
    BY DEF CacheMatchesHardware
  <2>1. macEntry[h] = [valid |-> FALSE, dmac |-> NoMac] /\ hwMac[h] = NoMac
    BY DEF NeighInit
  <2> QED
    BY <2>1
<1>2. NeighTypeOK /\ CacheMatchesHardware /\ [NeighNext]_neighVars => CacheMatchesHardware'
  <2> SUFFICES ASSUME NeighTypeOK, CacheMatchesHardware, [NeighNext]_neighVars
               PROVE  CacheMatchesHardware'
    OBVIOUS
  <2>1. ASSUME NEW m \in NeighMsg, NEW ok \in BOOLEAN, WriteNeigh(m, ok)
        PROVE  CacheMatchesHardware'
    <3>1. m.intf \in Hostif
      BY <2>1, AcceptedIsAnnouncement DEF WriteNeigh
    <3>2. CASE ok
      <4>1. hwMac' = [hwMac EXCEPT ![m.intf] = m.lladdr]
        BY <2>1, <3>2 DEF WriteNeigh, MacRewriteEntryAdd
      <4>2. macEntry' = [macEntry EXCEPT ![m.intf] = [valid |-> TRUE, dmac |-> m.lladdr]]
        BY <2>1, <3>2 DEF WriteNeigh, UpdateEntry
      <4> QED
        BY <3>1, <4>1, <4>2 DEF CacheMatchesHardware, NeighTypeOK
    <3>3. CASE ~ok
      BY <2>1, <3>3 DEF WriteNeigh, MacRewriteEntryAdd, UpdateEntry, CacheMatchesHardware
    <3> QED
      BY <3>2, <3>3
  <2>2. ASSUME NEW m \in NeighMsg, SkipNeigh(m)
        PROVE  CacheMatchesHardware'
    BY <2>2 DEF SkipNeigh, CacheMatchesHardware
  <2>3. CASE UNCHANGED neighVars
    BY <2>3 DEF neighVars, CacheMatchesHardware
  <2> QED
    BY <2>1, <2>2, <2>3 DEF NeighNext, ProcessNeighMsg
<1> QED
  BY <1>1, <1>2, NeighTypeCorrect, PTL DEF NeighSpec

(* Only link addresses of a port's own gateway reach the port's entry,      *)
(* whatever the kernel says about other hosts, interfaces and deleted       *)
(* neighbours (switchlink_neigh.c:82-114).                                  *)
THEOREM OnlyGatewayAddressesCorrect == NeighSpec => []OnlyGatewayAddresses
<1>1. NeighInit => OnlyGatewayAddresses
  BY DEF NeighInit, OnlyGatewayAddresses
<1>2. NeighTypeOK /\ OnlyGatewayAddresses /\ [NeighNext]_neighVars => OnlyGatewayAddresses'
  <2> SUFFICES ASSUME NeighTypeOK, OnlyGatewayAddresses, [NeighNext]_neighVars
               PROVE  OnlyGatewayAddresses'
    OBVIOUS
  <2>1. ASSUME NEW m \in NeighMsg, ProcessNeighMsg(m)
        PROVE  OnlyGatewayAddresses'
    <3>1. \A h \in Hostif :
              announcedMac'[h] = announcedMac[h] \cup
                  (IF AnnouncesGateway(m, h) THEN {m.lladdr} ELSE {})
      BY <2>1 DEF ProcessNeighMsg, RecordAnnouncement
    <3>2. CASE SkipNeigh(m)
      BY <3>1, <3>2 DEF SkipNeigh, OnlyGatewayAddresses
    <3>3. ASSUME NEW ok \in BOOLEAN, WriteNeigh(m, ok)
          PROVE  OnlyGatewayAddresses'
      <4>1. m.intf \in Hostif /\ AnnouncesGateway(m, m.intf)
        BY <3>3, AcceptedIsAnnouncement DEF WriteNeigh
      <4>2. \A h \in Hostif : hwMac'[h] = hwMac[h] \/ (h = m.intf /\ hwMac'[h] = m.lladdr)
        BY <3>3, <4>1 DEF WriteNeigh, MacRewriteEntryAdd, NeighTypeOK
      <4> QED
        BY <3>1, <4>1, <4>2 DEF OnlyGatewayAddresses
    <3> QED
      BY <2>1, <3>2, <3>3 DEF ProcessNeighMsg
  <2>2. CASE UNCHANGED neighVars
    BY <2>2 DEF neighVars, OnlyGatewayAddresses
  <2> QED
    BY <2>1, <2>2 DEF NeighNext
<1> QED
  BY <1>1, <1>2, NeighTypeCorrect, PTL DEF NeighSpec
=============================================================================
