# A TLA+ model of the internet gateway (igw-p4)

The repository holds an internet gateway: a P4 program for a Tofino switch
(`p4src/`), the process `init_setup` that configures the switch and keeps it in
step with the Linux box it sits in (`igw-h/init_setup/`), and scripts that
announce the gateway to the network or withdraw it (`tools/ops/`). This
directory holds TLA+ modules that model the gateway, TLC configurations that
check them on small instances, and proofs that the TLA+ proof system checks for
every instance. `PROJECT.json` says which lines of the source each definition
stands for.

Paths below are relative to `src/`; `switchapi/`, `switchlink/` and
`switchbfrt/` lie under `igw-h/init_setup/`.

## 1. The system

### 1.1 Components

| Component | State it keeps | Operations | What makes it correct |
|---|---|---|---|
| switchlink, neighbours (`switchlink/switchlink_neigh.c`) | per host interface a cached `mac_rewrite_entry_t`; the device table `tunnel_mac_rewrite` | `process_neigh_msg` | the cache never claims what the device does not hold; a port only rewrites to its own gateway's address; the device converges to the current address |
| switchlink, default route (`switchlink/switchlink_route.c`) | `gw_list`, the receive buffer, the selector groups of pipes 0 and 2 | `process_route_msg`, `process_ecmp` | a group selects the gateways of the route; a group that forwards is never emptied |
| switchlink, thread and socket (`switchlink/switchlink_main.c`) | socket, its queue | open, receive, close, open again | messages lost by the socket do no lasting harm |
| monitor (`switchapi/switch_monitor.c`, `tools/ops/set_igw_*`) | `igw_oper_state`, two down counters, a retry counter; what BGP announces | a scan per cycle, the two scripts | a pipe that stays down withdraws the gateway, and nothing else does; a healthy gateway is announced, and none with a pipe without a port |
| data plane (`p4src/`) | the tables the controller writes, the meters; the bridge header and the `tof` of a packet | four pipeline passes per gateway | a packet is redirected at most once each way, metered once, dropped when condemned; a bandwidth has one meter |
| start-up tables (`switchapi/switch_*_table.c`, `switch_ecmp_group2.c`) | constant ternary entries with priorities | filled once, entry by entry, while packets pass | full, they decide about every packet as the data plane needs it; half filled, they let nothing through and send nothing of the CPU's back to it |
| dl_ip tables (`switchapi/switch_eip_dl.c`) | action profile and selector, one per direction | two loops | every gateway of a cluster chooses the same owner |
| configuration (`switchapi/switch_config.c`) | `switch_cfg` | a sequence of stores | the struct holds what the file says |
| process start (`main.c`, `switchapi/switch_device.c`) | lock file, hash table of hostifs, `netlink_sem` | the steps of `main`, beside three threads | nothing is used before it is set up; the start ends |
| ports and hostifs (`switchapi/switch_port.c`, `switch_hostif.c`) | admin state of the hostifs | creation, `switch_port_state_change` | a hostif follows the link of its port |
| `initsetup` (`igw-h/init_setup/initsetup`, `main.c`) | the lock file, the processes and their pids | kill, remove the lock, start; open and create the lock, fork twice, block signals | one process drives the device, and whoever runs the script gets one that does |
| isolation scripts (`tools/ops/isolate_hostif`, `recover_hostif`) | admin state, BGP neighbour, addresses | run by hand | an isolated gateway is not selected again where the pipe has another |

Meter adjustment, mirroring, statistics, address translation, the
monitoring scripts, the RPC client, the packet tests and the packaging complete
the inventory; section 8 says why they are left out. The wrappers of the driver
(`switchbfrt/`) appear as the key and action of the entry each of them writes.

### 1.2 How they interact

```
  kernel --netlink--> switchlink thread --writes--> tunnel_mac_rewrite
  (FRR)               (sem_post to main)            ecmp selectors of pipes 0, 2
                                                        |
  port thread --link change--> hostif (ioctl)           v  egress port
  of the driver                                     data plane <--entries-- controller
                                                     ^      |
  monitor thread --reads ports-- (every cycle)       |      | redirected packets
        |                                            +------+ (other gateways)
        +--set_igw_down / set_igw_up--> BGP (vtysh): segments, fips, dl networks
```

* *Messages*: netlink notifications reach the switchlink thread through a
  socket that drops what does not fit; packets travel between gateways.
* *Callbacks*: the driver calls `switch_port_state_change` in its own thread.
* *Shared state*: the hash tables of hostifs and gateways, filled by the main
  thread and read by the others without a lock; the state of an interface, which
  `process_ecmp` reads while the port thread changes it; the device tables,
  which the controller writes while packets pass.
* *Processes*: the monitor runs shell scripts and does not look at their result;
  the routing daemon outlives a restart of `init_setup`; `initsetup` and starts by
  hand compete for the device through a lock file.

### 1.3 What is hard

Lost notifications with no dump to repair them; a write cached as done although
it failed; a next-hop walk that leaves its attribute and reads an older message;
a loop whose index is never initialised; ports that flap while a scan reads
them; a script that half fails; a restart that forgets a withdrawal; gateways
whose tables disagree or change under a packet; a decision to drop that is
carried out two passes later; int stores into smaller fields; a handler that is
registered during a start; tables whose entries overlap and which are filled
under traffic; a lock file that is tested and created in two steps, outlives a
crash and is removed from under a process that is still dying. `PROJECT.json`
lists each at its line under `hazards`, with the properties aimed at it.

## 2. The modules

| Module | Models | Builds on |
|---|---|---|
| `SwitchlinkNeigh` | `process_neigh_msg` and its table writes | |
| `EcmpSelector` | abstract: what the two external selector groups promise | |
| `SwitchlinkRoute` | `process_route_msg`, `process_ecmp`, group writes | refines `EcmpSelector` |
| `Switchlink` | the thread, its socket, the kernel | extends `SwitchlinkNeigh`, `SwitchlinkRoute` |
| `IgwMonitor` | the monitor thread and the scripts | |
| `IgwMonitorPorts` | what the ports really did while the monitor read them | extends `IgwMonitor` |
| `IgwTables` | what the constant tables decide about a packet | |
| `IgwPipeline` | a packet's way through and between gateways | extends `IgwTables` |
| `SwitchConfig` | the parser of the configuration file | |
| `EipDl` | the dl_ip tables | |
| `StartTables` | the entries of the constant tables and their writes | extends `IgwTables`, `SwitchConfig` |
| `Startup` | main, port and switchlink threads during the start | extends `StartTables`, `EipDl` |
| `InitSetup` | processes, their lock file, the script that replaces them | |

`MC*` modules give constants their values; `*Proofs` modules hold the theorems.
`IgwTables` is the hinge between two halves: `IgwPipeline` carries packets by its
decisions, `StartTables` shows that the entries written at start make them.
Operators called *Variant* in a comment are mutated forms of the definition
after them: no specification uses them, and putting one in place of the
definition it varies makes a property fail (`PROJECT.json`, `mutants`). This is
how each property is known to say something about the code.

### 2.1 SwitchlinkNeigh

`macEntry[h]` is the cached entry of a hostif, `hwMac[h]` the entry of the device,
`announcedMac` a history of what the kernel said. `ProcessNeighMsg(m)` is the
whole handler: `Accepts` its early returns, `NeedWrite` the flag
`need_write_flag`, `WriteNeigh` the table write with its outcome `ok` followed by
the update of the cache. Messages of every kind the netlink group carries are
inputs: other hosts, other interfaces, IPv6, deletions, absent attributes. In
the composition they come through the socket (`OtherNeigh`).

### 2.2 SwitchlinkRoute and EcmpSelector

`process_route_msg` is split where interfaces may change under it:
`ReceiveRoute` reads the notification (`Concerns` is its early returns),
`ProcessEcmp` is one round of the walk over the next hops, with the one ioctl
that asks whether the next hop's interface is up (`up`), and `ProgramSelectors`
writes the groups from the collected `gwList`. Three facts of the C code are
modelled as they are:

* The loop over the collected gateways is `for (i == 0; ...)`: its index is
  uninitialised, a value of `Starts`.
* `process_ecmp` does not shorten `attrlen`. `rxbuf` holds the next-hop slots of
  the receive buffer; `Overlay` lets a message overwrite its head only, and the
  walk (`hop`) goes on through the leftovers behind it, to the end of the buffer
  or until `MAX_GATEWAY` are collected (`RoomFor`).
* The message type is never tested, and a group is written only if one of its
  members was chosen.

`EcmpSelector` states what survives all of this: a group holds only announced
gateways of its pipe, and is never reprogrammed to be empty. `SwitchlinkRoute`
implements it with `active <- hw`.

### 2.3 Switchlink

Adds the socket (`sock`, `nlq` with room for `QueueCap`), the kernel's default
route `fib` and link addresses `lan`, and composes both handlers with them.
`Notify` drops what a closed or full socket cannot take; `CloseSocket` discards
the queue and leaves the loop, whose buffer is a local that may come back with
its old contents (`RestartLoop`). Three histories speak of the last
notification of the default route that the kernel sent: `disturbed` (it was
dropped, a write after it failed, or an interface of the route changed before its
walk was over), `overread` (its walk found leftovers) and `skipped` (the loop
over what it collected did not start at zero). Whatever happened to the ones
before it is forgotten, because the last one has to repair it.

`isolate_hostif` and `recover_hostif` make the routing daemon drop or take a
gateway (`InstallDefault`, `WithdrawDefault`) and set its interface down or up
(`IntfFlip`); the link handler may set an isolated interface up again, which is
the same action. `disturbed` therefore only counts interfaces of gateways that are
on the default route: an isolated gateway is not, and has to stay out.

### 2.4 IgwMonitor and IgwMonitorPorts

`StartScan` (on the device and program the thread watches, `WatchesPorts`),
`ReadPort` (one port per step, while `LinkFlip` changes them), `ReadFails` (the
cycle is given up before any counter moves), and the three outcomes of a
complete scan: `WithdrawIgw`, `RestoreIgw`, `KeepIgw`. `adv` is what BGP
announces, in the four items the scripts handle separately; `ok` is the set of
script steps that succeed (those of `MayFail` may not), and `Effective` says which
of them are reached when the first one fails. `Restart` resets the process's memory
and keeps `adv`. Counters are capped one above `MaxDownCount`, which loses nothing
because they are only compared with it. `FaultyPort` are ports that can never be
read.

Three histories say what the scripts came to: `script` is the one that ran last,
`failed` the items for which it has not worked since the other one ran, and
`forgot` is true of a process that was restarted while withdrawn until a script
runs again.

`IgwMonitorPorts` keeps beside each step what the ports really did: which were up
and which were down at some moment of the present scan (`wasUp`, `wasDown`), and
for how many complete scans in a row each port was down at some moment
(`outage`). A decision of the monitor is held against these and not against its
own variables.

### 2.5 IgwTables and IgwPipeline

`IgwTables` has one operator per constant table: `IgwIpType`, `PipelineFix`,
`JdRedirect`, `EcmpGroup`, `EgressSystemAcl`. `IgwPipeline` is the path of one packet: `P02_Ingress`, `P13_Egress`, `P13_Ingress`, `P02_Egress`,
the wire, and from there possibly to another gateway (`Deliver`). A packet
carries what later tables tell apart: where it is addressed, which headers are
valid, the `tof` of its last redirect, and the fields of the bridge header
(`send` for `tunnel_direct_send`, `needDrop`, `color`, `shared`, ...).
`EipRedirect` with `ModifyJdVxlan` is the control of `redirect.p4` in both
directions. `Agree` says when the tables of all gateways tell one story.
`Update` lets the controller rewrite an entry of one gateway at any time. The
colour of a packet is not initialised by `ig_init_bridge` and starts arbitrary.
So does, on the way out, the bandwidth id of a packet whose eip the redirect table
does not know: nothing initialises `eip_or_bwid`, and it may be that of another eip
(`junk`). `stamped`, `again`, `metered` and `meters` are histories.

### 2.6 SwitchConfig, EipDl, Startup

`SwitchConfig` is the lists of stores the parser makes, one for the sections of
the file that come once and one for each hostif (`Stores`); `at` is the section
and the store in it that comes next. Each has the cells that the int store
overruns (`Overrun`): `get_field_of_int` writes four bytes wherever it points.
`Loaded` is the file as the rest of the program has it: it counts its hostifs by
`hostif_num`, and has none when that was overrun. `EipDl` is the loop over the
addresses of the prefix, bounded by the last address and by `MAX_DL_IP_NUM`. `Startup` runs both inside the
ordered steps of `main` and `switch_device_create` (`Order`), beside the driver's
port thread (`PortStateChange`) and the switchlink thread (`ThreadStarts` posts
the semaphore, `OpenSocket` may never succeed). `Uses` records what a thread
relies on; `crashed` becomes true when it was not set up yet.

### 2.7 StartTables

Every entry of the constant tables, in the order of the writes. An entry is a
record of the table, the priority, the key and the action; the key is a function
on the fields it asks for, so that a masked field is simply absent. `Verdict` is
what the first n writes allow for a packet: the actions of the matching entries
with the best priority, more than one where entries overlap. `Decides` asks that
a full table allows exactly the action of `IgwTables`, or none where the default
action is that one; it is asked of every kind of packet `IgwPipeline` has at the
entrance, with every parity of the addresses that do not matter.

`LocalWrites` is `process_protocol_packet`, which tells the kernel's frames from
the tenants': `ForKernel` says what the kernel has to see, `FromWire`,
`FromHostifs` and `RawFromCpu` are the frames that come to the table.
`Accepted` is the difference between the two ways to write: most tables add,
and the driver refuses a key that is there; `process_protocol_packet` looks first
and modifies. `WriteEntry` and `WriteFails` are the two outcomes, one entry per
step of `Startup`'s main thread, so that packets meet the table half filled.
`Decided`, `SentAway`, `KeptOut` and `Served` are constants: they name the files,
or the file and the number of entries, for which the tables do what they should,
and are computed once instead of in every state. They range over `Loadable`, the
files with and without their hostifs.

### 2.8 InitSetup

A process goes through `check`, `create`, `fork`, `signals`, `drives`: opening and
creating the lock file are two steps, each of the two forks changes the pid, and
until the signals are blocked a SIGTERM kills at once. A run of `initsetup` looks
for a process, lists pids (`ListPids`), signals them one after the other
(`SendSigterm`; a listed pid may be gone by then), removes the lock file without
waiting, and starts a process. `ByHand` are starts without the script. `raced`
becomes true in exactly the two cases that the lock file cannot help: it is
removed while a process that relies on it is there, or two processes open it
before either creates it.

## 3. The runs

| Run | Instance | Distinct states | Result |
|---|---|---|---|
| `route` | 2 gateways on pipe 0, 1 on pipe 2, 1 on the management net; routes of up to 3 hops; index 0, 1 or 2 | 215 712 | `MembersWereAnnounced`, `NeverBlackholed`, refinement of `EcmpSelector` hold |
| `routes` | the same gateways with kernel, socket and isolated interfaces; routes of up to 2 hops, a queue of 1, index 0 or 1 | 3 217 632 | `ExactOnUsedPipes` holds |
| `neighbours` | 1 hostif, 1 other interface, 2 hosts, 2 good addresses and a multicast one; a queue of 2, 2 moves, 1 close | 14 232 | `CacheMatchesHardware`, `OnlyGatewayAddresses`, `GatewayAddressConverges` hold |
| `leftover` | 3 gateways, 3 hops | | `NoLeftoverMember` is violated |
| `skipped` | 1 gateway, index 0 or 1 | | `NoSkippedMember` is violated |
| `monitor` | 2 ports on pipe 0, 1 on pipe 2; threshold 2; 1 failed read, 1 restart, any failing steps of the script but the dl networks' | 734 672 | `CountersAgree`, `AnnouncementsAgree`, `DownPipeWithdraws`, `HealthyIsAnnounced` hold |
| `monitor_ports` | the same ports, no failing steps | 2 477 136 | `WithdrawOnlyInOutage`, `AnnounceOnlyWithBothPipes` hold |
| `monitor_faulty` | the same with one port that cannot be read | | `DownPipeWithdraws` is violated |
| `pipeline` | 2 gateways of 2 clusters, an IPv4 and an IPv6 eip, any of 8 entries on each gateway at first, 1 packet, 1 update | 382 372 | `RedirectOnce`, `DroppedNeverLeaves`, `MeteredOnce`, `Terminates` hold |
| `agreed` | 3 gateways of 2 clusters, 3 eips of which two share a bandwidth, consistent tables, 3 packets | 49 928 | `OneMeter` holds |
| `startup` | 2 ports, 3 places for hostifs, 21 files (1 to 3 hostifs, IPv6 or not, with and without a shared multicast group; prefixes of 1 to 8 addresses, a table of 5; every kind of `backup_vip`; 2 that are rejected), 4 eips, 3 link changes, 1 failing ioctl | 71 686 | ten properties hold besides the type invariant, two of them liveness |
| `initsetup` | 2 runs of the script, 1 start by hand, an earlier process or its leftovers or none, 1 crash | 32 071 | `OneDriver`, `InitsetupStarts` hold |

### 3.1 What the properties say

* `CacheMatchesHardware` is what makes it sound to skip a write when the cached
  address is unchanged: a failed write leaves the cache behind.
* `MembersWereAnnounced`, `NeverBlackholed`: reading past the attribute, skipping
  entries, failing writes and interfaces that go down never select a gateway
  nobody named and never leave a forwarding pipe without one.
* `ExactOnUsedPipes`: one default-route notification that gets through repairs
  everything before it. However many were lost, failed to be written, read over
  their end or passed over: once the last one was taken without any of this, a
  pipe the default route uses has exactly the route's gateways; an isolated
  gateway stays out, whatever the link handler does to its interface, and members
  of a withdrawn route are gone.
* `GatewayAddressConverges`: once addresses stop changing, the device holds the
  right one, although notifications are dropped, the socket is reopened and
  writes fail.
* `CountersAgree`: a counter past the threshold means DOWN, UP means no retry half
  done.
* `AnnouncementsAgree`: while a pipe is counted down `set_igw_down` ran last, and
  while the state is UP `set_igw_up` did; what is announced differs from that by
  no more than the items for which every run since then failed (`failed`). A
  process restarted while withdrawn, which takes itself for announced, is the one
  exception (`forgot`), and only until a script runs again.
* `DownPipeWithdraws`, `HealthyIsAnnounced`: the two promises of the monitor, with
  failing script steps, interrupted retries and restarts. The second has the
  exceptions of `AnnouncementsAgree`: the UP script runs up to three times and is
  then taken for done.
* `WithdrawOnlyInOutage`, `AnnounceOnlyWithBothPipes`: the scan may act on a
  combination of states that never held at once, and counts over many cycles.
  Still, nothing is withdrawn unless every port of some pipe really was down at a
  moment of this scan and of each of the `MAX_DOWN_COUNT` complete scans before
  it, and nothing announced again unless every pipe really had a port up during
  the scan that decides it.
* `RedirectOnce`, `Terminates`: whatever the tables of two clusters hold, each
  naming the other as the home of a bandwidth included, a packet is redirected
  at most once to a cluster and once inside one, and does not circle.
* `DroppedNeverLeaves`: a packet condemned in `P13_Ingress` or coloured red does not
  reach the wire, although the entry of the ACL for `need_drop` asks for an
  outer IPv4 header that the passes in between add and remove.
* `MeteredOnce`: every packet that goes to its VM or to the internet with the
  bandwidth id of some eip has met that eip's meter exactly once, on the last
  gateway.
* `OneMeter`: with tables that agree, the packets of a bandwidth meet one meter
  in each direction, on one gateway and in one pipe, wherever they entered.
* `ParsedAsWritten`: each int store of the parser destroys a neighbouring field,
  and each destroyed field is stored again later or was never set; the number of
  hostifs is the one exception, when there are as many as the array holds.
* `GatewaysChooseAlike`: the m-th member of the table is the m-th address of the
  prefix, whatever host address the file gives, and no member falls outside the
  addresses that `igw_ip_type` recognises.
* `NothingUsedBeforeSetUp`, `StartEnds`, `HostifFollowsLink`: the start is safe
  under link changes and messages at any moment, it ends although the socket
  never opens and although two addresses of a hostif may have one multicast
  group (the same key is then written twice), and a hostif follows its link.
  `StartEnds` also says that a file whose `backup_vip` is the vip ends the process
  every time, because its second entry is refused, and that nothing else in an
  accepted file does; the files of the run fit the driver's tables (section 7).
  `HostifFollowsLink` also says what becomes of the ports whose last change came
  before the handler was registered, or that never had one: their hostif stays
  up. After an ioctl that failed a hostif stays as it is.
* `TablesDecide`: entries of one table overlap with equal priorities and are told
  apart by the parity of an address, the headers that are valid and, in one
  place, by a key that keeps what the entry before left in it; together they
  decide about each packet exactly once and as `IgwPipeline` assumes.
* `ForwardsOnlyByFullTables`: packets pass while the tables are filled, and none
  gets an egress port before those that decide and drop are full.
* `NothingReturnsToCpu`, `LocalFramesReachKernel`: at every number of entries of
  `process_protocol_packet` no frame of the CPU comes back to it and no tenant's
  packet reaches the kernel; once full, everything meant for the kernel does.
* `KernelHearsAfterSwitchlink`: no frame reaches the kernel, which would learn
  neighbours from it, before the switchlink thread has set up its tables.
* `OneDriver`: two processes drive the device only after one of the two races of
  section 2.8; forks, pids that are gone, crashes and starts by hand add none.
* `InitsetupStarts`: whoever runs `initsetup` ends up with a process that drives the
  device, for good, whatever the lock file was and whoever else starts one at the
  same time, unless a process crashes.

### 3.2 Why the bounds are enough

* *Switchlink.* Leftovers need a long message and a shorter one that is still
  multipath: three hops and then two. Full lists need `MaxGateway` below the
  length of the buffer: 2 of 3. "The other pipe" needs two pipes, and two
  gateways on one of them make a partial choice possible. A queue of 2 lets a
  stale address be followed by a newer one; two moves let an address come back.
  The number of messages is not bounded. `routes` opens the socket once and
  closes it no more: messages are lost before that and with a full queue of 1,
  and losing them with the socket's closing is left to `neighbours` and to the
  proof.
* *Monitor.* Two ports on one pipe are needed for "some port up" to differ from
  "this port up"; a threshold of 2 separates off-by-one from right; the number
  of cycles and flips is not bounded. Three of the four script steps may fail:
  the IPv4 list's, which takes the IPv6 list with it, the IPv6 list's own, and one
  of the two that stand alone.
* *Pipeline.* Two clusters that point at each other are the shortest cycle of
  redirects. `RedirectOnce` and `MeteredOnce` concern one packet; one update is
  enough for two passes to see different entries, and the proofs of section 6
  remove this bound. `OneMeter` compares packets: three packets enter anywhere,
  and the target cluster has two gateways and two owners, so that a wrong choice
  of owner shows.
* *Start.* Prefixes of one to eight addresses against a table of five reach both
  exits of the loop; the files have one, two or all three of three places for
  hostifs, with and without IPv6; a rejected file fails in two different stores. The keys of
  the tables ask for no more of an address than its parity and whom it belongs
  to, so four eips stand for all; two hostifs and a port without one tell "this
  hostif's address here" from "another's" and from "elsewhere".
* *Processes.* Both races need two processes; a script that signals pids which are
  gone or new needs a third. One crash leaves a stale lock file.

Deadlock is checked except in `pipeline`, `agreed`, `startup` and `initsetup`. These
stop when the bounded packets, updates, link changes and runs are used up or the
start has been given up; `Terminates`, `StartEnds` and `InitsetupStarts` say that
they do not stop early.

## 4. Fairness

* *Switchlink.* Weak fairness of the thread's own steps, each round of the walk
  among them: it is scheduled and its loop does not block but on the socket. Strong fairness of
  `ConfirmationArrives(h)`: the kernel confirms a gateway in use again and again,
  and not every confirmation meets a full or closed socket. Strong fairness of
  `WriteSucceeds(h)`: a table write repeated for ever succeeds once. No fairness
  of routes, moves, closes or interfaces.
* *Monitor.* Weak fairness of starting a scan, reading the next port (or failing)
  and deciding: the thread sleeps a fixed time. Strong fairness of
  `WithdrawIgw(Item)`: the script that is run in every cycle works once. The
  script that announces has none, because it is not repeated for ever.
* *Pipeline.* Weak fairness of `Forward`: device and network move a packet they
  hold. None of arrivals or of the controller.
* *Start.* Weak fairness of the main thread, of the start of the switchlink
  thread, and of the handler of link changes: they are scheduled. None of opening
  the socket.
* *Processes.* Weak fairness of each step of a starting process and of a script
  that was begun: the system schedules them. None of beginning a script, and
  none of the end of a process that was killed, for the driver's handler may
  take as long as it likes.

## 5. Where code and documents disagree

Each of these runs checks one property and ends with its counterexample.

1. `leftover`: `process_ecmp` (`switchlink/switchlink_route.c:147`) does not
   reduce `attrlen`, and may take next hops that an earlier, longer message left
   in the buffer. After a route with three hops, one with two may keep the third
   enabled.
2. `skipped`: `for (i == 0; ...)` (`switchlink/switchlink_route.c:259`) starts at
   an uninitialised index; leading next hops, or all, may be passed over while
   the log says that the next hops were changed.
3. `monitor_faulty`: a port whose state cannot be read makes the monitor return
   before any counter is touched (`switchapi/switch_monitor.c:135`). While it
   stays so, "if pipe0 or pipe2 all port down, set igw down" (line 121) is not
   done.

Three more are known from modelling, and no document claims otherwise.
`process_route_msg` (`switchlink/switchlink_route.c:178`) never looks at `type`:
the notification of a withdrawn default route enables the route's members like
that of a new one, and they stay until the next default route; an empty group
would drop what `NeverBlackholed` keeps flowing. A file with exactly
`HOSTIFS_SIZE` hostifs is accepted although the message at
`switchapi/switch_config.c:161` asks for fewer, and the last `fp_port` then
overwrites half of `hostif_num`: the gateway starts without a hostif.
`ParsedAsWritten` names this exception (`Lost`), and the proof shows that it is
the only one. And a process restarted while the gateway is withdrawn believes
itself UP and never announces it (the reason for `forgot`).

## 6. What is proved

TLAPS proves the following for every value of the constants that satisfies the
named assumptions: any number of hostifs, gateways, pipes, ports, clusters, eips,
hops, addresses, files and any bounds.

| Module | Theorems | Assumption |
|---|---|---|
| `SwitchlinkNeighProofs` | `NeighTypeCorrect`, `CacheMatchesHardwareCorrect`, `OnlyGatewayAddressesCorrect` | none is used |
| `SwitchlinkRouteProofs` | `RouteTypeCorrect`, `MembersWereAnnouncedCorrect`, `NeverBlackholedCorrect`, `RouteImplementsSelector` | `RouteAssumption`: each gateway has a pipe |
| `SwitchlinkProofs` | `SwitchlinkImplementsHandlers`, `SwitchlinkTypeCorrect`, `SwitchlinkCacheCorrect`, `SwitchlinkImplementsSelector`, `ExactOnUsedPipesCorrect` | `RouteAssumption`, `SwitchlinkAssumption`: the messages are ones the handlers are specified for; the last theorem also `MaxHops <= MaxGateway` |
| `IgwMonitorProofs` | `MonitorTypeCorrect`, `CountersAgreeCorrect`, `AnnouncementsAgreeCorrect`, `WithdrawOnlyInOutageCorrect`, `AnnounceOnlyWithBothPipesCorrect` | `MonitorAssumption`: each port has a pipe, the threshold is positive |
| `IgwPipelineProofs` | `PipelineTypeCorrect`, `RedirectOnceCorrect`, `DroppedNeverLeavesCorrect`, `MeteredOnceCorrect`, `OneMeterCorrect` | `PipelineAssumption`: dl_ips are owned by gateways, entries and tables have their shape; the last theorem also `[]Agreed` |
| `StartTablesProofs`, `StartupProofs` | `StartupTypeCorrect`, `NothingUsedBeforeSetUpCorrect`, `ForwardsOnlyByFullTablesCorrect`, `KernelHearsAfterSwitchlinkCorrect`, `GatewaysChooseAlikeCorrect`, `ParsedAsWrittenCorrect`, `TablesDecideCorrect`, `NothingReturnsToCpuCorrect`, `LocalFramesReachKernelCorrect` | `ConfigAssumption`, `EipDlAssumption`, `FilesAssumption`: sizes are positive, the files have their shape and at most `HostifsSize` hostifs, and name prefixes of unicast addresses |
| `InitSetupProofs` | `InitSetupTypeCorrect`, `OneDriverCorrect` | `RunsAssumption`: runs and processes have different names |

The arguments:

* *Neighbours.* `CacheMatchesHardware` is inductive with the type invariant,
  because cache and device change in one step or not at all.
  `OnlyGatewayAddresses` needs only that `Accepts` implies an announcement of
  the port's own gateway.
* *Routes.* `MembersWereAnnounced` is not inductive: members come from `gwList`, and
  `gwList` from a buffer that holds more than the last message. `RouteInv` adds
  that every gateway in the buffer (`BufferAnnounced`) and in the list
  (`ListAnnounced`) was named by some message, and that during a walk the next slot
  is inside the buffer and the list has room (`WalkHasRoom`); `OverlaySlots` says
  that each slot after a receive is a slot of the message or an older one. The
  refinement maps receiving to `Announce`, programming to `Program` of the pipes
  that were written, and the rest, a round of the walk included, to stuttering.
* *Composition.* Each step of `Switchlink` is a step of one handler's own
  specification or stutters for it (`SwitchlinkImplementsHandlers`), provided that
  the socket holds only messages the handler is specified for, which is part of
  the invariant; types, cache and selector then follow from the handlers'
  theorems. `ExactOnUsedPipes` needs where the default route is before it is in
  the groups (`FibIsSomewhere`): in the last notification about it in the queue
  (`InQueue`), under the walk (`InWalk`), in the list the handler has collected
  (`InList`), or in the device (`InDevice`), with its gateways' interfaces up until
  the walk is over. Only that last notification matters: whatever was lost, failed or
  skipped before it is made good by it. It holds for routes of at most
  `MAX_GATEWAY` hops; of longer ones the handler takes the first.
* *Monitor.* `MonitorInv` adds to types, counters and announcements which items can
  be out of step with the script that ran last (`ScriptsTell`). The lemma
  `CountDownBound` carries it: a counter gets past the threshold only in a cycle
  that withdraws. The two action properties are theorems of `PortsSpec`, where
  `PortsInv` ties what the monitor believes to what the ports did: a pipe seen up
  had a port up in this very scan, a port read as down was down in it
  (`ScanTells`), no history survives the end of a scan (`AsleepForgets`), and a
  counter of `n` stands for `n` scans in each of which every port of the pipe was
  down at some moment (`CountersBacked`).
* *Pipeline.* None of the three safety properties is inductive. `PipelineInv` adds
  four statements about the packet under way: `TofTellsRedirects` (the `tof` it
  carries says which redirects lie behind it, so the key of `modify_jd_vxlan` on
  `tof` is enough to exclude another), `OnTheWay` (which verdicts of
  `tunnel_direct_send` and which direction are possible in which pass),
  `HeaderForVerdict` (a packet with `need_drop` set has an outer IPv4 header when
  it comes to the ACL), and `PastMeter` (the eip's meter has been met exactly by
  the packets past it). One lemma per pass shows that it is kept, for any
  entries the controller may write in between.
* *One meter.* `OneMeterInv` says how a packet finds its meter where the tables
  agree (`Agreed`: whatever the controllers write, they share a bandwidth and keep
  it in a cluster alike on all gateways): the `tof` says whether it is on the way
  to the cluster, on the way to the owner, or there (`OnItsWay`); the passes that
  meter find it in the pipe that its eip alone decides (`BeforeMeter`); so each
  meter used belongs to one eip or one shared bandwidth on its owner's gateway
  (`MeterOfEip`). The run `agreed` has tables for which `Agree` holds
  (`AgreedAssumption`).
* *Start.* `StartInv` adds that the switchlink thread exists only beside a main thread
  past the step that starts it (`ThreadBehindMain`), that the semaphore is posted
  once (`SemPostedOnce`), and that a table is full behind the main thread and empty
  before it (`FilledInOrder`). The lemma `Positions` turns the order of the steps
  into positions.
* *dl_ip tables.* `DlInv` is the invariant of the two loops: while one runs, its
  direction holds the first addresses of the prefix in order and the loop stands at
  the next. That a block of `2 ^ n` addresses is a positive number is assumed
  (`UnicastPrefix`), because the prover knows no equation for `2 ^ (n + 1)`; TLC
  evaluates the assumption for every file of the run.
* *Parser.* `ParsedAsWritten` speaks of the end; `ParseInv` says what holds at each
  position: a cell holds the file's value exactly if its own store lies behind the
  position (`Stored`) and it is not the number of hostifs wiped out by the last
  element. The step needs that a store spills only forward, into a cell whose store
  is still to come, or into one that this file never stores (`SpillsForward`,
  `SpillsUnstored`), which is where the order of the fields in the struct meets
  the order of the stores.
* *Tables.* The order of the writes does not matter to a full table, only their
  priorities do. So each list of writes is described by the set of its elements
  (`LocalElements`, `TypeElements`, ...), and a verdict by the entries that match
  and the best priority among them (`OneVerdict`, `Beaten`, `NoVerdict`).
  `process_protocol_packet` has one part per hostif, for any number of them: the
  library flattens these by a recursive function, whose equation and elements are
  proved by induction (`FlattenEquations`, `FlattenElements`).
  `AlwaysKeepsOut`, `AlwaysSendsAway` and `FullServes` then hold for every file and
  every number of entries, `AllDecide` for any eips. Of the start they need that
  the table is empty while the file is read, for `Loaded` changes there, and never
  longer than its writes (`LocalInv`); and that a `backup_vip` which is the vip
  never gets past its first entry (`SameVipRefused`, `DecideInv`).
* *Processes.* `LockInv` adds that, until a race, the file is there as long as a
  process relies on it and only one process is past its test (`Protected`), and
  that forks and runs are counted right (`ForkedTwice`).

Every invariant that a run checks is proved. Only model-checked are the
liveness properties `GatewayAddressConverges`, `DownPipeWithdraws`,
`HealthyIsAnnounced`, `Terminates`, `StartEnds`, `HostifFollowsLink` and
`InitsetupStarts`: liveness under fairness and `ENABLED` are outside what the
prover can do. The library's induction theorems take an operator and cannot be
used either; where a proof needs induction over the naturals it uses
`SetInduction`, which derives it from the well-foundedness of `<` with a set in
the operator's place.

## 7. What the models leave out on purpose

* *Switchlink.* Several netlink messages of one datagram are taken one by one. IPv6
  routes and neighbours are received and ignored by the code, and so they are
  here. Failures of memory allocation are not modelled.
* *Monitor.* The loop that logs error and drop counters of ports; the lengths of
  sleeps. With both pipes past the threshold the script runs twice, and a step
  counts as done if one of the two did it.
* *Pipeline.* One packet at a time: packets share only tables, meters and histories.
  The device has four pipes, with an enabled member in each external selector.
  `backup_vip` behaves like the vip. Inner protocols other than IPv4 and IPv6,
  fragments and checksums are left out; an IPv4 packet to a vip or dl_ip with an
  unexpected vxlan type is one that no other entry matches. An eip has an entry
  in the meter tables when it has one in the redirect table. A meter colours as
  it likes. `agreed` relies on tables that are equal on the gateways of a cluster
  and allow redirects inside it.
* *Start.* Calls of the driver that fail end the process (`SETUP_PANIC`, `assert`):
  such starts are prefixes of modelled ones. Values in the file are taken to fit
  their fields and strings their arrays. The dl_ip prefix is not the topmost
  block of the address space (it is a unicast address), where the loop would
  wrap. One process; the lock file is there or not at first. Whether a table has
  room for all entries is not modelled: `process_protocol_packet` is declared with
  128, and the size it really gets is the compiler's choice.
* *Tables.* A frame that a hostif sends carries the driver's own header, so its
  ether type is not its protocol's: the entry `receive_from_cpu_lldp` never matches
  an LLDP frame of the kernel, which leaves by `receive_from_cpu_nos` like the
  others.
* *Isolation.* The only gateway of a pipe stays selected when it is isolated, which
  `NeverBlackholed` prefers to an empty group.
* *Processes.* `raced` excuses both races from `OneDriver`: they are in the code, and
  whoever operates the gateway has to avoid them.

## 8. What is not modelled

* *Address translation* (`nat.p4`): it rewrites a field no later table looks up.
* *Mirror, statistics, hashes*: copies and counters decide nothing, and a hash is
  an arbitrary index, the same for the same input.
* *Driver wrappers* (`switchbfrt/`): each fills a key and a data object, which is the
  entry `StartTables` writes; looking up the ids of tables and fields is left out, and
  a failing call is a failing write of its caller.
* *Meter adjustment, symmetric mode, mirror tables*: attributes set once.
* *Two-pipe devices*: `ecmp_group02_init_2p` has no entries for two of the four pipes.
* *Monitoring scripts, RPC client, packet tests, packaging*: they read and report,
  or belong to an earlier program, or hold no logic of the gateway.
* *Options of `main`, kernel modules, the configuration look-ups of the isolation
  scripts*: they decide nothing that a model's property is about.

## 9. Plan

The order followed the weight of the behaviour: the thread that steers all
outgoing traffic (`SwitchlinkNeigh`, `SwitchlinkRoute`, `Switchlink`), what attracts
incoming traffic (`IgwMonitor`), what happens to every packet (`IgwTables`,
`IgwPipeline`), the start that makes all of it possible (`SwitchConfig`, `EipDl`,
`StartTables`, `Startup`), and the processes that compete to do it (`InitSetup`).
Worth doing next, in this order:

1. `IgwPipeline`: address translation and the controller's order of writes, which
   decide whether a new eip is reachable before it is metered.
2. An abstract specification of enforcement that the pipeline implements: one
   token bucket per bandwidth, from the invariant of `OneMeter`.
3. The two-pipe device, once its missing entries are decided upon.

## 10. Running it

```
tlc -workers 2 -config MCSwitchlinkRoute.cfg MCSwitchlinkRoute
tlapm SwitchlinkRouteProofs.tla
```

Each run in `PROJECT.json` names its module and configuration. All passing runs
together take a few minutes; the longest is `routes`.
