------------------------------ MODULE Startup ------------------------------
(***************************************************************************)
(* The start of init_setup (main.c, switch_device.c) and the threads that   *)
(* run beside it: the driver's port thread, which reports link changes to   *)
(* switch_port_state_change once that is registered, and the switchlink     *)
(* thread, whose start the main thread waits for.                           *)
(*                                                                         *)
(* One process; InitSetup has several, and the script that replaces them.   *)
(* A call of the driver that fails ends the process (SETUP_PANIC, assert):  *)
(* such a start is a prefix of one that is modelled.                        *)
(***************************************************************************)
EXTENDS EipDl, StartTables

CONSTANTS
    Ports,      \* front ports; the i-th hostif of the file is on port i
    MaxFlips,   \* bound: link changes
    MaxFails    \* bound: failing calls of ioctl

ASSUME PortsAssumption == Ports \subseteq Nat \ {0}

ASSUME FilesAssumption == \A f \in Files : UnicastPrefix(f.dl_ip, f.prefix_len)

VARIABLES
    lock,       \* /var/run/init_setup.file exists
    main,       \* position of the main thread in Order
    link, seen, \* state of a port's link; what the port thread last saw of it
    intf,       \* admin state of a port's hostif
    told,       \* history: ports whose last change reached their hostif
    sem,        \* netlink_sem
    thread,     \* the switchlink thread
    crashed,    \* history: something was used that nobody had set up
    flips, fails

portVars == <<link, seen, intf, told, flips, fails>>
vars == <<configVars, dlVars, written, portVars, lock, main, sem, thread, crashed>>

(* Variant that registers before the table of hostifs is filled.            *)
NotifyFirst == <<"lock", "config", "ports", "hostifs", "notify", "hash", "bfrt", "tables", "dl",
                 "drops", "ecmp", "switchlink", "wait", "packets", "monitor">>

(* Variant that chooses egress ports before it fills the drop tables.       *)
EcmpFirst == <<"lock", "config", "ports", "hostifs", "hash", "notify", "bfrt", "tables", "dl",
               "ecmp", "drops", "switchlink", "wait", "packets", "monitor">>

(* Variant that does not wait for the switchlink thread.                    *)
PacketsFirst == <<"lock", "config", "ports", "hostifs", "hash", "notify", "bfrt", "tables", "dl",
                  "drops", "ecmp", "switchlink", "packets", "wait", "monitor">>

(* main and, from "config" to "notify", switch_device_create.               *)
Order == <<"lock", "config", "ports", "hostifs", "hash", "notify", "bfrt", "tables", "dl",
           "drops", "ecmp", "switchlink", "wait", "packets", "monitor">>

Done == Len(Order) + 1
Aborted == 0

HasHostif(p) == p \in 1..Len(Loaded.hostifs)

(* The main thread has passed a step.                                       *)
HasRun(step) == \E i \in 1..Len(Order) : Order[i] = step /\ i < main

AtStep(step) == main \in 1..Len(Order) /\ Order[main] = step
Uses(steps) == crashed' = (crashed \/ \E s \in steps : ~HasRun(s))

Init ==
    /\ ConfigInit /\ DlInit /\ FillInit
    /\ lock \in BOOLEAN
    /\ main = 1
    /\ link = [p \in Ports |-> FALSE] /\ seen = link
    /\ intf = [p \in Ports |-> "none"]
    /\ told = {}
    /\ sem = 0
    /\ thread = "none"
    /\ crashed = FALSE
    /\ flips = 0 /\ fails = 0

-----------------------------------------------------------------------------
(* The main thread.                                                         *)

(* init_setup_check.                                                        *)
CheckLock ==
    /\ AtStep("lock")
    /\ main' = IF lock THEN Aborted ELSE main + 1
    /\ lock' = TRUE
    /\ UNCHANGED <<configVars, dlVars, written, portVars, sem, thread, crashed>>

ReadConfig ==
    /\ AtStep("config")
    /\ ParseStep
    /\ \/ parse' = "parsing" /\ main' = main
       \/ parse' = "done"    /\ main' = main + 1
       \/ parse' = "failed"  /\ main' = Aborted
    /\ UNCHANGED <<dlVars, written, portVars, lock, sem, thread, crashed>>

(* create_hostif: every hostif is created with its admin state up.          *)
CreateHostifs ==
    /\ AtStep("hostifs")
    /\ intf' = [p \in Ports |-> IF HasHostif(p) THEN "up" ELSE "none"]
    /\ main' = main + 1
    /\ UNCHANGED <<configVars, dlVars, written, link, seen, told, flips, fails, lock, sem, thread, crashed>>

FillDl ==
    /\ AtStep("dl")
    /\ DlStep(file.dl_ip, file.prefix_len)
    /\ main' = IF dlLoop'.dir = "done" THEN main + 1 ELSE main
    /\ UNCHANGED <<configVars, written, portVars, lock, sem, thread, crashed>>

SwitchlinkInit ==
    /\ AtStep("switchlink")
    /\ thread' = "starting"
    /\ main' = main + 1
    /\ UNCHANGED <<configVars, dlVars, written, portVars, lock, sem, crashed>>

SemWait ==
    /\ AtStep("wait") /\ sem > 0
    /\ sem' = sem - 1
    /\ main' = main + 1
    /\ UNCHANGED <<configVars, dlVars, written, portVars, lock, thread, crashed>>

(* switch_device_init: adding a port also enables it.                       *)
AddPorts ==
    /\ AtStep("ports")
    /\ main' = main + 1
    /\ UNCHANGED <<configVars, dlVars, written, portVars, lock, sem, thread, crashed>>

(* A step that fills tables, one write at a time; a write that the driver   *)
(* refuses ends the process.                                                *)
FillTables ==
    /\ UNCHANGED <<configVars, dlVars, portVars, lock, sem, thread, crashed>>
    /\ \E step \in FillStep :
          /\ AtStep(step)
          /\ \/ WriteEntry(step) /\ main' = IF Full(step)' THEN main + 1 ELSE main
             \/ WriteFails(step) /\ main' = Aborted

(* The other steps register something or start a thread of no concern here. *)
PlainStep ==
    /\ \E s \in {"hash", "notify", "bfrt", "monitor"} : AtStep(s)
    /\ main' = main + 1
    /\ UNCHANGED <<configVars, dlVars, written, portVars, lock, sem, thread, crashed>>

MainThread == \/ CheckLock \/ ReadConfig \/ AddPorts \/ CreateHostifs \/ FillDl
              \/ FillTables \/ SwitchlinkInit \/ SemWait \/ PlainStep

-----------------------------------------------------------------------------
(* The driver's port thread.                                                *)
LinkChange(p) ==
    /\ HasRun("ports") /\ flips < MaxFlips
    /\ link' = [link EXCEPT ![p] = ~@]
    /\ flips' = flips + 1
    /\ UNCHANGED <<configVars, dlVars, written, seen, intf, told, fails, lock, main, sem, thread, crashed>>

HostifDownOnly(p, up) == IF up THEN intf' = intf ELSE intf' = [intf EXCEPT ![p] = "down"]

(* set_hostif_admin_state.                                                  *)
SetHostif(p, up) == intf' = [intf EXCEPT ![p] = IF up THEN "up" ELSE "down"]

(* switch_port_state_change, if it is registered; else the change is lost.  *)
PortStateChange(p) ==
    /\ main # Aborted /\ link[p] # seen[p]
    /\ seen' = [seen EXCEPT ![p] = link[p]]
    /\ IF ~HasRun("notify")
       THEN told' = told \ {p} /\ UNCHANGED <<intf, fails, crashed>>
       ELSE /\ Uses({"hash", "hostifs"})
            /\ \/ HasHostif(p) /\ SetHostif(p, link[p]) /\ told' = told \union {p} /\ UNCHANGED fails
               \/ HasHostif(p) /\ fails < MaxFails
                  /\ fails' = fails + 1 /\ told' = told \ {p} /\ UNCHANGED intf
               \/ ~HasHostif(p) /\ UNCHANGED <<intf, told, fails>>
    /\ UNCHANGED <<configVars, dlVars, written, link, flips, lock, main, sem, thread>>

-----------------------------------------------------------------------------
(* The switchlink thread.                                                   *)

(* Variant that posts when the socket is open.                              *)
PostWhenOpen ==
    /\ main # Aborted /\ thread = "starting"
    /\ Uses({"hostifs", "bfrt"})
    /\ thread' = "opening"
    /\ UNCHANGED <<configVars, dlVars, written, portVars, lock, main, sem>>

(* Variant that posts after each of the two.                                *)
PostTwice ==
    /\ main # Aborted /\ thread = "starting"
    /\ Uses({"hostifs", "bfrt"})
    /\ sem' = sem + 2
    /\ thread' = "opening"
    /\ UNCHANGED <<configVars, dlVars, written, portVars, lock, main>>

(* neigh_system_init and route_system_init, then sem_post.                  *)
ThreadStarts ==
    /\ main # Aborted /\ thread = "starting"
    /\ Uses({"hostifs", "bfrt"})
    /\ sem' = sem + 1
    /\ thread' = "opening"
    /\ UNCHANGED <<configVars, dlVars, written, portVars, lock, main>>

(* switchlink_sock_init; while it fails the thread sleeps and tries again.  *)
OpenSocket ==
    /\ main # Aborted /\ thread = "opening"
    /\ thread' = "listening"
    /\ UNCHANGED <<configVars, dlVars, written, portVars, lock, main, sem, crashed>>

(* A message leads to a write of a table.                                   *)
HandleMessage ==
    /\ main # Aborted /\ thread = "listening"
    /\ Uses({"hostifs", "bfrt", "ecmp"})
    /\ UNCHANGED <<configVars, dlVars, written, portVars, lock, main, sem, thread>>

Next ==
    \/ MainThread
    \/ \E p \in Ports : LinkChange(p) \/ PortStateChange(p)
    \/ ThreadStarts \/ OpenSocket \/ HandleMessage

Spec == Init /\ [][Next]_vars

(* Threads are scheduled.  Nothing says that the socket can be opened.      *)
FairSpec ==
    /\ Spec
    /\ WF_vars(MainThread) /\ WF_vars(ThreadStarts)
    /\ \A p \in Ports : WF_vars(PortStateChange(p))

-----------------------------------------------------------------------------
StartupTypeOK ==
    /\ main \in 0..Done
    /\ cfg \in [Cell -> {"zero", "file"}]
    /\ intf \in [Ports -> {"none", "up", "down"}]
    /\ told \subseteq Ports
    /\ sem \in 0..1
    /\ thread \in {"none", "starting", "opening", "listening"}
    /\ DOMAIN profile = Direction
    /\ written \in [FillStep -> Nat]

(* No thread uses what another has still to set up: the handler of a link   *)
(* change finds the hash table of hostifs (it does not check the pointer),  *)
(* and the switchlink thread finds hostifs, the driver's session and the    *)
(* groups, whenever ports change and messages come during the start         *)
(* (switch_device.c:91-149, main.c:596-622).                                *)
NothingUsedBeforeSetUp == ~crashed

(* The dl_ip tables as every gateway needs them.                            *)
GatewaysChooseAlike == DlTableComplete(file.dl_ip, file.prefix_len)

(* The constant tables, written entry by entry, decide about every packet   *)
(* as the data plane needs it (IgwTables): whatever the parities of its     *)
(* addresses, exactly one action, although entries with the same priority   *)
(* overlap and one key of an entry may be left over from the entry before   *)
(* it (switch_igw_ip_type_table.c:35-600, switch_eip_in_jd_vxlan_table.c:28,*)
(* switch_acl_table_init.c:25, switch_ecmp_group2.c:163-198).               *)
TablesDecide ==
    (\A step \in FillStep \ {"packets"} : Full(step)) => file.backup \in Decided

(* Packets come from the moment the ports are up, but none is given an      *)
(* egress port before all the tables that decide about it, the ones that    *)
(* drop included, are full (main.c:606-612).                                *)
ForwardsOnlyByFullTables ==
    written["ecmp"] > 0 => \A step \in {"tables", "drops"} : Full(step)

(* A half-filled process_protocol_packet never hands a frame that the CPU   *)
(* sends, by a hostif or raw, back to the CPU (switch_packet_table.c:25-93, *)
(* 402-412: the entries for frames from the CPU come first and have the     *)
(* better priorities).                                                      *)
NothingReturnsToCpu == <<Loaded, written["packets"]>> \in SentAway

(* The kernel gets the frames that are meant for it and no packet of a      *)
(* tenant, also while the table is filled, and once it is full it gets all  *)
(* of them, exactly once, and what it sends goes out                        *)
(* (switch_packet_table.c:120-346).                                         *)
LocalFramesReachKernel ==
    /\ <<Loaded, written["packets"]>> \in KeptOut
    /\ Full("packets") => Loaded \in Served

(* The kernel hears from the network only when the tables of the switchlink *)
(* thread are set up, so that no neighbour it learns meets a cache without  *)
(* an entry for its port: "switchlink_init must execute before              *)
(* process_protocol_packet_table_init" (main.c:616).                        *)
KernelHearsAfterSwitchlink ==
    written["packets"] > 0 => thread \in {"opening", "listening"}

(* A process that has accepted its file finishes its start, even if the      *)
(* netlink socket can never be opened: the semaphore is posted before the   *)
(* socket is tried, and an entry of the local table that is there already   *)
(* is modified.  Only a file whose backup_vip is the vip again ends it half *)
(* way, always: igw_ip_type refuses the second entry for one address.  The  *)
(* files are small enough for the driver's tables (switchlink_main.c:167-185,*)
(* main.c:606-622, switch_igw_ip_type_table.c:35-100,                       *)
(* bf_process_protocl_packet_table.c:376-399).                              *)
StartEnds == parse = "done" ~> main = IF file.backup = "vip" THEN Aborted ELSE Done

(* Unless the start fails, a hostif ends up in the state of its port,       *)
(* however often links changed before and after the handler was registered. *)
(* Where the last change came before that, or no change ever did, nothing   *)
(* is made up for: the hostif stays up, as it was created, link or no link; *)
(* and after a failed ioctl it stays as it is (switch_device.c:91-149,      *)
(* switch_port.c:287-326).                                                  *)
HostifFollowsLink ==
    <>[](main = Aborted \/ \A p \in Ports : HasHostif(p) =>
            IF p \in told THEN intf[p] = IF link[p] THEN "up" ELSE "down"
                          ELSE fails > 0 \/ intf[p] = "up")
=============================================================================
