------------------------------- MODULE EipDl -------------------------------
(***************************************************************************)
(* switch_eip_dl.c: the table of dl_ips that a redirect inside a cluster    *)
(* chooses from.  Every gateway of a cluster fills it from its own file,    *)
(* once for traffic coming in and once for traffic going out; the hash of   *)
(* a bandwidth picks a member, and the packet goes to the gateway that      *)
(* announces the member's address.                                          *)
(***************************************************************************)
EXTENDS Integers, FiniteSets, Functions

CONSTANTS
    AddrBits,     \* bits of an address (32)
    MaxDlIpNum    \* MAX_DL_IP_NUM (120)

ASSUME EipDlAssumption == AddrBits \in Nat \ {0} /\ MaxDlIpNum \in Nat \ {0}

VARIABLES
    profile,   \* profile[d]: the dl_ip of each member id
    group,     \* group[d]: the member ids of the selector's group
    dlLoop         \* the loop: [dir: direction being filled, ip: next address]

dlVars == <<profile, group, dlLoop>>

Direction == {"in", "out"}
BlockSize(len) == 2 ^ (AddrBits - len)

(* As many dl_ips as the prefix has and the table takes.                    *)
Fitting(len) == IF BlockSize(len) <= MaxDlIpNum THEN BlockSize(len) ELSE MaxDlIpNum

(* Variant that starts at the address of the file.                          *)
FirstUnmasked(addr, len) == addr

(* first_ip and last_ip.                                                    *)
FirstAddress(addr, len) == addr - (addr % BlockSize(len))
LastAddress(addr, len) == (addr - (addr % BlockSize(len))) + BlockSize(len) - 1

(* A prefix of unicast addresses: there are addresses above those that the  *)
(* loops come to.                                                           *)
UnicastPrefix(addr, len) ==
    /\ addr \in Nat /\ BlockSize(len) \in Nat \ {0}
    /\ LastAddress(addr, len) < 2 ^ AddrBits
    /\ addr - (addr % BlockSize(len)) + Fitting(len) < 2 ^ AddrBits

Members(d) == Cardinality(DOMAIN profile[d])

DlInit ==
    /\ profile = [d \in Direction |-> [m \in {} |-> 0]]
    /\ group = [d \in Direction |-> {}]
    /\ dlLoop = [dir |-> "none", ip |-> 0]

StartDl(addr, len) ==
    /\ dlLoop.dir = "none"
    /\ dlLoop' = [dir |-> "in", ip |-> FirstAddress(addr, len)]
    /\ UNCHANGED <<profile, group>>

InLoop(addr, len) == dlLoop.ip <= LastAddress(addr, len) /\ Members(dlLoop.dir) < MaxDlIpNum

(* eip_in_action_profile_entry_add and its twin.                            *)
ProfileEntryAdd(d, member, ip) ==
    profile' = [profile EXCEPT ![d] = [m \in DOMAIN @ \union {member} |->
                                          IF m = member THEN ip ELSE @[m]]]

AddMember(addr, len) ==
    /\ dlLoop.dir \in Direction /\ InLoop(addr, len)
    /\ ProfileEntryAdd(dlLoop.dir, Members(dlLoop.dir) + 1, dlLoop.ip)
    /\ dlLoop' = [dlLoop EXCEPT !.ip = (@ + 1) % 2 ^ AddrBits]
    /\ UNCHANGED group

(* eip_in_selector_entry_add, and the entry of select_redirect_ip that      *)
(* names the group.                                                         *)
SelectorEntryAdd(d, num) == group' = [group EXCEPT ![d] = 1..num]

AddGroup(addr, len) ==
    /\ dlLoop.dir \in Direction /\ ~InLoop(addr, len)
    /\ SelectorEntryAdd(dlLoop.dir, Members(dlLoop.dir))
    /\ dlLoop' = IF dlLoop.dir = "in" THEN [dir |-> "out", ip |-> FirstAddress(addr, len)]
                              ELSE [dir |-> "done", ip |-> 0]
    /\ UNCHANGED profile

(* eip_ecmp_dl_table_init.                                                  *)
DlStep(addr, len) == StartDl(addr, len) \/ AddMember(addr, len) \/ AddGroup(addr, len)

-----------------------------------------------------------------------------
(* The addresses that the entries for redirects inside the cluster of       *)
(* igw_ip_type accept, a ternary key of dl_ip under the mask of prefix_len. *)
Recognised(addr, len) ==
    {a \in 0..2 ^ AddrBits - 1 : a \div BlockSize(len) = addr \div BlockSize(len)}

(* What every gateway must have in common for a bandwidth to have one owner: *)
(* in both directions each member of the group has an address, all of them  *)
(* are recognised where they lead to, and the m-th member is the m-th       *)
(* address of the prefix whatever host address the file gives for it; as    *)
(* many as fit the table (switch_eip_dl.c:36-138).                          *)
DlTableComplete(addr, len) ==
    dlLoop.dir = "done" =>
        \A d \in Direction :
            /\ group[d] = DOMAIN profile[d]
            /\ \A m \in group[d] :
                 /\ profile[d][m] \in Recognised(addr, len)
                 /\ Cardinality({a \in Recognised(addr, len) : a < profile[d][m]}) = m - 1
            /\ Cardinality(group[d]) = Fitting(len)
=============================================================================
