----------------------------- MODULE IgwMonitor -----------------------------
(***************************************************************************)
(* The monitor thread (igw-h/init_setup/switchapi/switch_monitor.c) and     *)
(* the scripts it runs (tools/ops/set_igw_down, set_igw_up and what these   *)
(* call).  Every MONITOR_CYCLE the thread reads the state of every external *)
(* port; when a whole pipe has been down for long enough it withdraws the   *)
(* gateway's addresses from BGP, and announces them again when both pipes   *)
(* are back.                                                               *)
(*                                                                         *)
(* The ports are read one after the other while they change, a read may     *)
(* fail and end the cycle, every step of a script may fail without the      *)
(* monitor noticing, and a restarted process starts from igw_oper_state =   *)
(* UP while the routing daemon keeps what it was last told.                 *)
(***************************************************************************)
EXTENDS Naturals, Sequences, FiniteSets

CONSTANTS
    Pipe,           \* the external pipes, 0 and 2
    PortSeq,        \* g_monitor_devports: the ports in the order they are read
    PortPipe,       \* PortPipe[x]: pipe of port x
    MaxDownCount,   \* MAX_DOWN_COUNT
    FaultyPort,     \* ports whose state can never be read
    MaxReadFails,   \* bound on the other failed reads
    MayFail,        \* items whose step in a script may fail
    MaxRestarts,    \* bound on restarts of the process
    WatchesPorts    \* hardware_model is Wedge_100BF_65X and P4_NAME "igw_switch"

Port == {PortSeq[k] : k \in DOMAIN PortSeq}

(* What BGP announces while the gateway is up: the IPv4 and the IPv6        *)
(* segments (prefix lists), the floating addresses (ccc), the dl networks.  *)
Item == {"seg4", "seg6", "fip", "dl"}

ASSUME MonitorAssumption ==
    /\ PortSeq \in Seq(Port)
    /\ PortPipe \in [Port -> Pipe]
    /\ MaxDownCount \in Nat \ {0}
    /\ FaultyPort \subseteq Port
    /\ MaxReadFails \in Nat /\ MaxRestarts \in Nat
    /\ MayFail \subseteq Item /\ WatchesPorts \in BOOLEAN

VARIABLES
    link,       \* link[x]: "UP" or "DOWN", the oper state of port x
    pc,         \* "sleep" or "scan"
    next,       \* index of the port the scan reads next
    seenUp,     \* pipes with a port found up in this scan
    downCount,  \* pipeX_port_group_down_count
    operState,  \* igw_oper_state
    upRetry,    \* up_retry_count
    adv,        \* items the routing daemon announces
    script,     \* history: the script that ran last, "up" or "down"
    failed,     \* history: items for which it has not worked since the other ran
    forgot,     \* history: restarted while withdrawn, and no script ran since
    readFails,  \* failed reads so far, at most MaxReadFails
    restarts    \* restarts so far, at most MaxRestarts

history == <<script, failed, forgot>>
vars == <<link, pc, next, seenUp, downCount, operState, upRetry, adv, history,
          readFails, restarts>>

TypeOK ==
    /\ link \in [Port -> {"UP", "DOWN"}]
    /\ pc \in {"sleep", "scan"}
    /\ next \in 1 .. Len(PortSeq) + 1
    /\ seenUp \subseteq Pipe
    /\ downCount \in [Pipe -> 0 .. MaxDownCount + 1]
    /\ operState \in {"UP", "DOWN"}
    /\ upRetry \in 0..2
    /\ adv \subseteq Item
    /\ script \in {"up", "down"} /\ failed \subseteq Item /\ forgot \in BOOLEAN
    /\ readFails \in 0..MaxReadFails
    /\ restarts \in 0..MaxRestarts

Init ==
    /\ link \in [Port -> {"UP", "DOWN"}]
    /\ pc = "sleep"
    /\ next = 1
    /\ seenUp = {}
    /\ downCount = [p \in Pipe |-> 0]
    /\ operState = "UP"
    /\ upRetry = 0
    /\ adv = Item
    /\ script = "up" /\ failed = {} /\ forgot = FALSE
    /\ readFails = 0
    /\ restarts = 0

-----------------------------------------------------------------------------
(* The ports (external). *)

LinkFlip(x) ==
    /\ link' = [link EXCEPT ![x] = IF @ = "UP" THEN "DOWN" ELSE "UP"]
    /\ UNCHANGED <<pc, next, seenUp, downCount, operState, upRetry, adv, history,
                   readFails, restarts>>

-----------------------------------------------------------------------------
(* The scan. *)

(* Variant that keeps the pipes' states of the scan before. *)
StartScanStale ==
    /\ WatchesPorts
    /\ pc = "sleep"
    /\ pc' = "scan"
    /\ next' = 1
    /\ UNCHANGED <<link, seenUp, downCount, operState, upRetry, adv, history, readFails, restarts>>

StartScan ==
    /\ WatchesPorts
    /\ pc = "sleep"
    /\ pc' = "scan"
    /\ next' = 1
    /\ seenUp' = {}
    /\ UNCHANGED <<link, downCount, operState, upRetry, adv, history, readFails, restarts>>

(* Variant in which the last port of a pipe decides for the pipe. *)
ReadPortLast ==
    /\ pc = "scan"
    /\ next <= Len(PortSeq)
    /\ PortSeq[next] \notin FaultyPort
    /\ seenUp' = IF link[PortSeq[next]] = "UP"
                 THEN seenUp \cup {PortPipe[PortSeq[next]]}
                 ELSE seenUp \ {PortPipe[PortSeq[next]]}
    /\ next' = next + 1
    /\ UNCHANGED <<link, pc, downCount, operState, upRetry, adv, history, readFails, restarts>>

ReadPort ==
    /\ pc = "scan"
    /\ next <= Len(PortSeq)
    /\ PortSeq[next] \notin FaultyPort
    /\ seenUp' = IF link[PortSeq[next]] = "UP"
                 THEN seenUp \cup {PortPipe[PortSeq[next]]} ELSE seenUp
    /\ next' = next + 1
    /\ UNCHANGED <<link, pc, downCount, operState, upRetry, adv, history, readFails, restarts>>

(* bf_pal_port_oper_state_get failed: the whole cycle is given up.          *)
ReadFails ==
    /\ pc = "scan"
    /\ next <= Len(PortSeq)
    /\ \/ PortSeq[next] \in FaultyPort /\ UNCHANGED readFails
       \/ readFails < MaxReadFails /\ readFails' = readFails + 1
    /\ pc' = "sleep"
    /\ UNCHANGED <<link, next, seenUp, downCount, operState, upRetry, adv, history, restarts>>

-----------------------------------------------------------------------------
(* The scripts.  ok is the set of steps that succeed. *)

StepOutcomes == {Item \ f : f \in SUBSET MayFail}

(* deny_segment_vip and allow_segment_vip stop when the IPv4 list fails;    *)
(* the three commands of set_igw_down and set_igw_up do not stop each other.*)
Effective(ok) == IF "seg4" \in ok THEN ok ELSE ok \ {"seg6"}

Ran(which, done) ==
    /\ script' = which
    /\ failed' = (IF script = which THEN failed ELSE Item) \ done
    /\ forgot' = FALSE

SetIgwDown(ok) == adv' = adv \ Effective(ok) /\ Ran("down", Effective(ok))

SetIgwUp(ok) == adv' = adv \cup Effective(ok) /\ Ran("up", Effective(ok))

-----------------------------------------------------------------------------
(* The decision at the end of a complete scan. *)

ScanDone == pc = "scan" /\ next > Len(PortSeq)

DownPipes == Pipe \ seenUp

(* pipeX_port_group_down_count++ >= MAX_DOWN_COUNT.  The counter is capped  *)
(* one above the threshold: it is only ever compared with it.               *)
Tripped == {p \in DownPipes : downCount[p] >= MaxDownCount}

(* Variant in which a port of either pipe clears both counters. *)
CountDownShared ==
    downCount' = [p \in Pipe |->
        IF seenUp # {} THEN 0
        ELSE IF downCount[p] > MaxDownCount THEN downCount[p] ELSE downCount[p] + 1]

CountDown ==
    downCount' = [p \in Pipe |->
        IF p \in seenUp THEN 0
        ELSE IF downCount[p] > MaxDownCount THEN downCount[p] ELSE downCount[p] + 1]

EndScan == pc' = "sleep" /\ UNCHANGED <<link, next, seenUp, readFails, restarts>>

(* Variant that runs the script but keeps igw_oper_state. *)
WithdrawQuiet(ok) ==
    /\ ScanDone
    /\ Tripped # {}
    /\ SetIgwDown(ok)
    /\ CountDown
    /\ EndScan
    /\ UNCHANGED <<operState, upRetry>>

(* A pipe has been down for too long.  With both pipes in that state the    *)
(* script runs twice; ok stands for the steps that succeeded at least once. *)
WithdrawIgw(ok) ==
    /\ ScanDone
    /\ Tripped # {}
    /\ SetIgwDown(ok)
    /\ operState' = "DOWN"
    /\ CountDown
    /\ EndScan
    /\ UNCHANGED upRetry

BackUp == seenUp = Pipe

(* Variant that leaves up_retry_count where it is. *)
RestoreNoReset(ok) ==
    /\ ScanDone
    /\ Tripped = {}
    /\ BackUp /\ operState = "DOWN"
    /\ SetIgwUp(ok)
    /\ operState' = IF upRetry + 1 >= 3 THEN "UP" ELSE "DOWN"
    /\ upRetry' = upRetry + 1
    /\ CountDown
    /\ EndScan

(* Variant that sets the state without running the script. *)
RestoreMute(ok) ==
    /\ ScanDone
    /\ Tripped = {}
    /\ BackUp /\ operState = "DOWN"
    /\ operState' = "UP"
    /\ CountDown
    /\ EndScan
    /\ UNCHANGED <<upRetry, adv, history>>

(* Both pipes are back: the script runs in three cycles, then the state is  *)
(* set to UP.                                                              *)
RestoreIgw(ok) ==
    /\ ScanDone
    /\ Tripped = {}
    /\ BackUp /\ operState = "DOWN"
    /\ SetIgwUp(ok)
    /\ IF upRetry + 1 >= 3
       THEN operState' = "UP" /\ upRetry' = 0
       ELSE operState' = "DOWN" /\ upRetry' = upRetry + 1
    /\ CountDown
    /\ EndScan

KeepIgw ==
    /\ ScanDone
    /\ Tripped = {}
    /\ ~(BackUp /\ operState = "DOWN")
    /\ CountDown
    /\ EndScan
    /\ UNCHANGED <<operState, upRetry, adv, history>>

(* The process dies and is started again; the routing daemon does not.      *)
Restart ==
    /\ restarts < MaxRestarts
    /\ restarts' = restarts + 1
    /\ pc' = "sleep" /\ next' = 1 /\ seenUp' = {}
    /\ downCount' = [p \in Pipe |-> 0]
    /\ operState' = "UP"
    /\ upRetry' = 0
    /\ forgot' = (script = "down")
    /\ UNCHANGED <<link, adv, script, failed, readFails>>

Decide ==
    \/ \E ok \in StepOutcomes : WithdrawIgw(ok) \/ RestoreIgw(ok)
    \/ KeepIgw

Next ==
    \/ \E x \in Port : LinkFlip(x)
    \/ StartScan
    \/ ReadPort
    \/ ReadFails
    \/ Decide
    \/ Restart

Spec == Init /\ [][Next]_vars

(* The thread is scheduled, and a script step that is tried again and again *)
(* succeeds once together with the others.                                  *)
Fairness ==
    /\ WF_vars(StartScan)
    /\ WF_vars(ReadPort \/ ReadFails)
    /\ WF_vars(Decide)
    /\ SF_vars(WithdrawIgw(Item))

FairSpec == Spec /\ Fairness

-----------------------------------------------------------------------------

(* The counters and the state tell the same story: a pipe counted past the  *)
(* threshold means DOWN, and UP means that no retry is left half done       *)
(* (switch_monitor.c:150-183).                                              *)
CountersAgree ==
    /\ \A p \in Pipe : downCount[p] > MaxDownCount => operState = "DOWN"
    /\ operState = "UP" => upRetry = 0

(* While a pipe is counted past the threshold, set_igw_down is the script   *)
(* that ran last and only what it never managed to withdraw is announced;   *)
(* while the state is UP, set_igw_up ran last, at least once since the last *)
(* withdrawal however many retries an outage interrupted, and only what it  *)
(* never managed to announce is missing.  The one exception is a process    *)
(* restarted while withdrawn, which believes to be UP                       *)
(* (switch_monitor.c:106-184).                                              *)
AnnouncementsAgree ==
    /\ (\E p \in Pipe : downCount[p] > MaxDownCount) =>
           script = "down" /\ adv \subseteq failed
    /\ operState = "UP" =>
           forgot \/ (script = "up" /\ Item \ adv \subseteq failed)

PipeDown(p) == \A x \in Port : PortPipe[x] = p => link[x] = "DOWN"

(* "if pipe0 or pipe2 all port down, set igw down, just for igw"            *)
(* (switch_monitor.c:121): a pipe that stays down takes the gateway out of  *)
(* BGP, whatever the other pipe does, and although single script steps may  *)
(* fail: the script runs again in every cycle.                              *)
DownPipeWithdraws ==
    \A p \in Pipe : <>[]PipeDown(p) => <>[](operState = "DOWN" /\ adv = {})

(* A gateway whose ports stay up ends up UP and announced                   *)
(* (switch_monitor.c:172-183), but for the items for which every run of     *)
(* set_igw_up since the last withdrawal failed: the script runs up to three *)
(* times and is then not repeated.  Only a process restarted while withdrawn*)
(* has nothing announced.                                                   *)
HealthyIsAnnounced ==
    <>[](\A x \in Port : link[x] = "UP") =>
        <>[](operState = "UP" /\ (forgot \/ Item \ adv \subseteq failed))
=============================================================================
