-------------------------- MODULE IgwMonitorProofs --------------------------
(***************************************************************************)
(* The safety of the monitor for any ports, pipes, thresholds and failures. *)
(* Counters, state and announcements are inductive together with typing and *)
(* with what the histories mean: the step that counts a pipe past the       *)
(* threshold is the step that sets the state and runs the script.  What the *)
(* ports really did is tied to the counters by PortsInv.                    *)
(***************************************************************************)
EXTENDS IgwMonitorPorts, TLAPS

(* What the script that ran last left behind, and when a restart forgot it. *)
ScriptsTell ==
    /\ script = "down" => adv \subseteq failed
    /\ script = "up" => Item \ adv \subseteq failed
    /\ forgot => script = "down"

MonitorInv == TypeOK /\ CountersAgree /\ AnnouncementsAgree /\ ScriptsTell

(* A counter never passes one above the threshold, and gets there only in a *)
(* cycle that withdraws (switch_monitor.c:150-170).                         *)
LEMMA CountDownBound ==
    ASSUME TypeOK, CountDown
    PROVE  /\ downCount' \in [Pipe -> 0 .. MaxDownCount + 1]
           /\ \A p \in Pipe : downCount'[p] > MaxDownCount => p \in Tripped
           /\ \A p \in seenUp : downCount'[p] = 0
<1>1. MaxDownCount \in Nat \ {0}
  BY MonitorAssumption
<1>2. /\ seenUp \subseteq Pipe
      /\ \A p \in Pipe : downCount[p] \in 0 .. MaxDownCount + 1
  BY DEF TypeOK
<1>3. downCount' = [p \in Pipe |->
          IF p \in seenUp THEN 0
          ELSE IF downCount[p] > MaxDownCount THEN downCount[p] ELSE downCount[p] + 1]
  BY DEF CountDown
<1> QED
  BY <1>1, <1>2, <1>3 DEF Tripped, DownPipes

(* A run of a script leaves announced, or missing, only what it failed to   *)
(* withdraw, or to announce, since the other script ran                     *)
(* (set_igw_down, set_igw_up).                                              *)
LEMMA ScriptRuns ==
    ASSUME TypeOK, ScriptsTell, NEW ok \in StepOutcomes, SetIgwDown(ok) \/ SetIgwUp(ok)
    PROVE  /\ adv' \subseteq Item /\ failed' \subseteq Item
           /\ script' \in {"up", "down"} /\ forgot' = FALSE
           /\ SetIgwDown(ok) => script' = "down" /\ adv' \subseteq adv
           /\ SetIgwUp(ok) => script' = "up"
           /\ ScriptsTell'
<1>1. Effective(ok) \subseteq Item
  BY DEF Effective, StepOutcomes
<1>2. CASE SetIgwDown(ok)
  BY <1>1, <1>2 DEF SetIgwDown, SetIgwUp, Ran, TypeOK, ScriptsTell
<1>3. CASE SetIgwUp(ok)
  BY <1>1, <1>3 DEF SetIgwDown, SetIgwUp, Ran, TypeOK, ScriptsTell
<1> QED
  BY <1>2, <1>3

LEMMA MonitorInvStep ==
    ASSUME MonitorInv, [Next]_vars
    PROVE  MonitorInv'
<1> USE MonitorAssumption
<1>0. TypeOK /\ CountersAgree /\ AnnouncementsAgree /\ ScriptsTell
  BY DEF MonitorInv
<1>1. ASSUME NEW x \in Port, LinkFlip(x)
      PROVE  MonitorInv'
  BY <1>1, <1>0 DEF LinkFlip, MonitorInv, TypeOK, CountersAgree, AnnouncementsAgree,
     ScriptsTell, history
<1>2. CASE StartScan
  BY <1>2, <1>0 DEF StartScan, MonitorInv, TypeOK, CountersAgree, AnnouncementsAgree,
     ScriptsTell, history
<1>3. CASE ReadPort
  <2>1. PortSeq[next] \in Port
    BY <1>3, <1>0 DEF ReadPort, TypeOK, Port
  <2>2. seenUp' \subseteq Pipe
    BY <1>3, <1>0, <2>1 DEF ReadPort, TypeOK
  <2>3. next' \in 1 .. Len(PortSeq) + 1
    BY <1>3, <1>0 DEF ReadPort, TypeOK
  <2> QED
    BY <1>3, <1>0, <2>2, <2>3 DEF ReadPort, MonitorInv, TypeOK, CountersAgree, AnnouncementsAgree,
     ScriptsTell, history
<1>4. CASE ReadFails
  <2>1. readFails' \in 0 .. MaxReadFails
    BY <1>4, <1>0 DEF ReadFails, TypeOK
  <2> QED
    BY <1>4, <1>0, <2>1 DEF ReadFails, MonitorInv, TypeOK, CountersAgree, AnnouncementsAgree,
     ScriptsTell, history
<1>5. ASSUME NEW ok \in StepOutcomes, WithdrawIgw(ok)
      PROVE  MonitorInv'
  <2>1. CountDown /\ downCount' \in [Pipe -> 0 .. MaxDownCount + 1]
    BY <1>5, <1>0, CountDownBound DEF WithdrawIgw
  <2>2. /\ operState' = "DOWN" /\ SetIgwDown(ok) /\ pc' = "sleep"
        /\ UNCHANGED <<link, next, seenUp, upRetry, readFails, restarts>>
    BY <1>5 DEF WithdrawIgw, EndScan
  <2>3. /\ adv' \subseteq Item /\ failed' \subseteq Item /\ script' = "down"
        /\ forgot' = FALSE /\ ScriptsTell'
    BY <2>2, <1>0, ScriptRuns
  <2>4. TypeOK'
    BY <2>1, <2>2, <2>3, <1>0 DEF TypeOK
  <2>5. AnnouncementsAgree' /\ CountersAgree'
    BY <2>2, <2>3 DEF AnnouncementsAgree, CountersAgree, ScriptsTell
  <2> QED
    BY <2>3, <2>4, <2>5 DEF MonitorInv
<1>6. ASSUME NEW ok \in StepOutcomes, RestoreIgw(ok)
      PROVE  MonitorInv'
  <2>1. CountDown /\ downCount' \in [Pipe -> 0 .. MaxDownCount + 1]
    BY <1>6, <1>0, CountDownBound DEF RestoreIgw
  <2>2. \A p \in Pipe : ~(downCount'[p] > MaxDownCount)
    BY <1>6, <1>0, CountDownBound DEF RestoreIgw
  <2>3. /\ SetIgwUp(ok) /\ pc' = "sleep"
        /\ UNCHANGED <<link, next, seenUp, readFails, restarts>>
        /\ \/ operState' = "UP" /\ upRetry' = 0
           \/ upRetry + 1 < 3 /\ operState' = "DOWN" /\ upRetry' = upRetry + 1
    BY <1>6, <1>0 DEF RestoreIgw, EndScan, TypeOK
  <2>4. /\ adv' \subseteq Item /\ failed' \subseteq Item /\ script' = "up"
        /\ forgot' = FALSE /\ ScriptsTell'
    BY <2>3, <1>0, ScriptRuns
  <2>5. upRetry' \in 0..2 /\ operState' \in {"UP", "DOWN"}
    BY <2>3, <1>0 DEF TypeOK
  <2>6. TypeOK'
    BY <2>1, <2>3, <2>4, <2>5, <1>0 DEF TypeOK
  <2>7. AnnouncementsAgree' /\ CountersAgree'
    BY <2>2, <2>3, <2>4 DEF AnnouncementsAgree, CountersAgree, ScriptsTell
  <2> QED
    BY <2>4, <2>6, <2>7 DEF MonitorInv
<1>7. CASE KeepIgw
  <2>1. downCount' \in [Pipe -> 0 .. MaxDownCount + 1]
    BY <1>7, <1>0, CountDownBound DEF KeepIgw
  <2>2. \A p \in Pipe : ~(downCount'[p] > MaxDownCount)
    BY <1>7, <1>0, CountDownBound DEF KeepIgw
  <2>3. pc' = "sleep" /\ UNCHANGED <<link, next, seenUp, readFails, restarts, operState,
                                     upRetry, adv, script, failed, forgot>>
    BY <1>7 DEF KeepIgw, EndScan, history
  <2> QED
    BY <2>1, <2>2, <2>3, <1>0
    DEF MonitorInv, TypeOK, CountersAgree, AnnouncementsAgree, ScriptsTell
<1>8. CASE Restart
  <2>1. /\ restarts' \in 0 .. MaxRestarts
        /\ next' \in 1 .. Len(PortSeq) + 1
        /\ downCount' \in [Pipe -> 0 .. MaxDownCount + 1]
        /\ \A p \in Pipe : ~(downCount'[p] > MaxDownCount)
    BY <1>8, <1>0 DEF Restart, TypeOK
  <2>2. /\ pc' = "sleep" /\ seenUp' = {} /\ operState' = "UP" /\ upRetry' = 0
        /\ link' = link /\ adv' = adv /\ readFails' = readFails
        /\ script' = script /\ failed' = failed /\ forgot' = (script = "down")
    BY <1>8 DEF Restart
  <2>3. TypeOK'
    BY <2>1, <2>2, <1>0 DEF TypeOK
  <2>4. CountersAgree' /\ AnnouncementsAgree' /\ ScriptsTell'
    BY <2>1, <2>2, <1>0 DEF CountersAgree, AnnouncementsAgree, ScriptsTell, TypeOK
  <2> QED
    BY <2>3, <2>4 DEF MonitorInv
<1>9. CASE UNCHANGED vars
  BY <1>9, <1>0
  DEF vars, history, MonitorInv, TypeOK, CountersAgree, AnnouncementsAgree, ScriptsTell
<1> QED
  BY <1>1, <1>2, <1>3, <1>4, <1>5, <1>6, <1>7, <1>8, <1>9 DEF Next, Decide

LEMMA MonitorInvInit ==
    ASSUME Init
    PROVE  MonitorInv
<1>1. /\ link \in [Port -> {"UP", "DOWN"}] /\ pc = "sleep" /\ next = 1 /\ seenUp = {}
      /\ downCount = [p \in Pipe |-> 0] /\ operState = "UP" /\ upRetry = 0
      /\ adv = Item /\ script = "up" /\ failed = {} /\ forgot = FALSE
      /\ readFails = 0 /\ restarts = 0
  BY DEF Init
<1>2. /\ 1 \in 1 .. Len(PortSeq) + 1
      /\ [p \in Pipe |-> 0] \in [Pipe -> 0 .. MaxDownCount + 1]
      /\ 0 \in 0..MaxReadFails /\ 0 \in 0..MaxRestarts
  BY MonitorAssumption
<1>3. TypeOK
  <2>1. /\ pc \in {"sleep", "scan"} /\ seenUp \subseteq Pipe
        /\ operState \in {"UP", "DOWN"} /\ upRetry \in 0..2
        /\ adv \subseteq Item /\ script \in {"up", "down"} /\ failed \subseteq Item
    BY <1>1
  <2>2. /\ next \in 1 .. Len(PortSeq) + 1 /\ downCount \in [Pipe -> 0 .. MaxDownCount + 1]
        /\ readFails \in 0..MaxReadFails /\ restarts \in 0..MaxRestarts
    BY <1>1, <1>2, Zenon
  <2>3. forgot \in BOOLEAN
    BY <1>1, Zenon
  <2> QED
    BY <1>1, <2>1, <2>2, <2>3, Zenon DEF TypeOK
<1>4. CountersAgree /\ AnnouncementsAgree /\ ScriptsTell
  BY <1>1, MonitorAssumption DEF CountersAgree, AnnouncementsAgree, ScriptsTell
<1> QED
  BY <1>3, <1>4 DEF MonitorInv

(* The invariants of the monitor hold together. *)
LEMMA MonitorInvCorrect == Spec => []MonitorInv
<1>1. Init => MonitorInv
  BY MonitorInvInit
<1>2. MonitorInv /\ [Next]_vars => MonitorInv'
  BY MonitorInvStep
<1> QED
  BY <1>1, <1>2, PTL DEF Spec

(* The counters, the state and the retries keep their types. *)
THEOREM MonitorTypeCorrect == Spec => []TypeOK
<1>1. MonitorInv => TypeOK
  BY DEF MonitorInv
<1> QED
  BY <1>1, MonitorInvCorrect, PTL

(* A counter past the threshold means DOWN, and UP means that no retry is   *)
(* half done (switch_monitor.c:150-183).                                    *)
THEOREM CountersAgreeCorrect == Spec => []CountersAgree
<1>1. MonitorInv => CountersAgree
  BY DEF MonitorInv
<1> QED
  BY <1>1, MonitorInvCorrect, PTL

(* What BGP announces follows the counters and the state, but for the items *)
(* a script never managed to change and for a process restarted while       *)
(* withdrawn (switch_monitor.c:106-184).                                    *)
THEOREM AnnouncementsAgreeCorrect == Spec => []AnnouncementsAgree
<1>1. MonitorInv => AnnouncementsAgree
  BY DEF MonitorInv
<1> QED
  BY <1>1, MonitorInvCorrect, PTL

-----------------------------------------------------------------------------
(* The ports behind the counters. *)

(* Between scans nothing is remembered. *)
AsleepForgets == pc = "sleep" => wasUp = {} /\ wasDown = {}

(* A pipe taken for up had a port that was up in this scan; a port already  *)
(* read, whose pipe is not taken for up, was down in it.                    *)
ScanTells ==
    pc = "scan" =>
        /\ \A p \in seenUp : \E x \in wasUp : PortPipe[x] = p
        /\ \A x \in Port : link[x] = "DOWN" => x \in wasDown
        /\ \A k \in 1 .. Len(PortSeq) :
               k < next => PortPipe[PortSeq[k]] \in seenUp \/ PortSeq[k] \in wasDown

(* The counter of a pipe is backed by every one of its ports. *)
CountersBacked == \A x \in Port : downCount[PortPipe[x]] <= outage[x]

PortsInv == TypeOK /\ PortsTypeOK /\ AsleepForgets /\ ScanTells /\ CountersBacked

(* Every step of the monitor beside its histories is one of the monitor.    *)
LEMMA PortsStep ==
    ASSUME [PortsNext]_<<vars, ports>>
    PROVE  [Next]_vars
  BY DEF PortsNext, Next

(* At the end of a complete scan every port of a pipe that was not found up *)
(* was down at some moment of it (switch_monitor.c:130-148).                *)
LEMMA DownPipeWasDown ==
    ASSUME PortsInv, ScanDone
    PROVE  /\ \A x \in Port : PortPipe[x] \in seenUp \/ x \in wasDown
           /\ \A p \in seenUp : \E x \in wasUp : PortPipe[x] = p
<1>1. PortSeq \in Seq(Port) /\ next \in 1 .. Len(PortSeq) + 1
  BY MonitorAssumption DEF PortsInv, TypeOK
<1>2. \A k \in 1 .. Len(PortSeq) : k < next
  BY <1>1 DEF ScanDone
<1>3. \A x \in Port : \E k \in 1 .. Len(PortSeq) : x = PortSeq[k]
  BY <1>1 DEF Port
<1> QED
  BY <1>2, <1>3 DEF PortsInv, ScanTells, ScanDone

LEMMA PortsInvStep ==
    ASSUME PortsInv, TypeOK', [PortsNext]_<<vars, ports>>
    PROVE  PortsInv'
<1> USE MonitorAssumption
<1>0. TypeOK /\ PortsTypeOK /\ AsleepForgets /\ ScanTells /\ CountersBacked
  BY DEF PortsInv
<1>1. CASE Decide /\ Remember /\ CountOutages
  <2>1. ScanDone /\ CountDown /\ pc' = "sleep"
    BY <1>1 DEF Decide, WithdrawIgw, RestoreIgw, KeepIgw, EndScan
  <2>2. wasUp' = {} /\ wasDown' = {}
    BY <1>1, <2>1 DEF Remember
  <2>3. /\ \A x \in Port : outage[x] \in 0 .. MaxDownCount + 1 /\ PortPipe[x] \in Pipe
        /\ \A p \in Pipe : downCount[p] \in 0 .. MaxDownCount + 1
        /\ MaxDownCount \in Nat
    BY <1>0 DEF TypeOK, PortsTypeOK
  <2>4. outage' = [x \in Port |->
            IF x \notin wasDown THEN 0
            ELSE IF outage[x] > MaxDownCount THEN outage[x] ELSE outage[x] + 1]
    BY <1>1 DEF CountOutages
  <2>5. PortsTypeOK'
    BY <2>2, <2>3, <2>4 DEF PortsTypeOK
  <2>6. ASSUME NEW x \in Port
        PROVE  downCount'[PortPipe[x]] <= outage'[x]
    <3>1. downCount'[PortPipe[x]] =
              IF PortPipe[x] \in seenUp THEN 0
              ELSE IF downCount[PortPipe[x]] > MaxDownCount THEN downCount[PortPipe[x]]
              ELSE downCount[PortPipe[x]] + 1
      BY <2>1, <2>3 DEF CountDown
    <3>2. PortPipe[x] \in seenUp \/ x \in wasDown
      BY <2>1, DownPipeWasDown
    <3>3. downCount[PortPipe[x]] <= outage[x]
      BY <1>0 DEF CountersBacked
    <3> QED
      BY <3>1, <3>2, <3>3, <2>3, <2>4
  <2> QED
    BY <2>1, <2>2, <2>5, <2>6 DEF PortsInv, AsleepForgets, ScanTells, CountersBacked
<1>2. CASE Restart /\ Remember /\ outage' = [x \in Port |-> 0]
  <2>1. /\ pc' = "sleep" /\ downCount' = [p \in Pipe |-> 0]
        /\ wasUp' = {} /\ wasDown' = {} /\ outage' = [x \in Port |-> 0]
    BY <1>2 DEF Restart, Remember
  <2> QED
    BY <2>1 DEF PortsInv, PortsTypeOK, AsleepForgets, ScanTells, CountersBacked
<1>3. ASSUME NEW x \in Port, LinkFlip(x), Remember, UNCHANGED outage
      PROVE  PortsInv'
  <2>1. UNCHANGED <<pc, next, seenUp, downCount, outage>>
    BY <1>3 DEF LinkFlip
  <2> QED
    BY <1>0, <1>3, <2>1
    DEF Remember, PortsInv, PortsTypeOK, AsleepForgets, ScanTells, CountersBacked
<1>4. CASE StartScan /\ Remember /\ UNCHANGED outage
  <2>1. pc' = "scan" /\ next' = 1 /\ seenUp' = {} /\ UNCHANGED <<link, downCount, outage>>
    BY <1>4 DEF StartScan
  <2> QED
    BY <1>0, <1>4, <2>1
    DEF Remember, PortsInv, PortsTypeOK, AsleepForgets, ScanTells, CountersBacked
<1>5. CASE ReadPort /\ Remember /\ UNCHANGED outage
  <2> DEFINE x == PortSeq[next]
  <2>1. /\ pc = "scan" /\ pc' = "scan" /\ next' = next + 1
        /\ seenUp' = IF link[x] = "UP" THEN seenUp \cup {PortPipe[x]} ELSE seenUp
        /\ UNCHANGED <<link, downCount, outage>>
    BY <1>5 DEF ReadPort
  <2>2. next \in 1 .. Len(PortSeq) /\ x \in Port /\ link[x] \in {"UP", "DOWN"}
    BY <1>0, <1>5 DEF ReadPort, TypeOK, Port
  <2>3. /\ wasUp' = wasUp \cup {y \in Port : link[y] = "UP"}
        /\ wasDown' = wasDown \cup {y \in Port : link[y] = "DOWN"}
    BY <1>5, <2>1 DEF Remember
  <2>4. \A p \in seenUp' : \E y \in wasUp' : PortPipe[y] = p
    BY <1>0, <2>1, <2>2, <2>3 DEF ScanTells
  <2>5. \A k \in 1 .. Len(PortSeq) :
            k < next' => PortPipe[PortSeq[k]] \in seenUp' \/ PortSeq[k] \in wasDown'
    <3> SUFFICES ASSUME NEW k \in 1 .. Len(PortSeq), k < next + 1
                 PROVE  PortPipe[PortSeq[k]] \in seenUp' \/ PortSeq[k] \in wasDown'
      BY <2>1
    <3>1. CASE k < next
      BY <3>1, <1>0, <2>1, <2>3 DEF ScanTells
    <3>2. CASE k = next
      BY <3>2, <2>1, <2>2, <2>3
    <3> QED
      BY <3>1, <3>2, <2>2
  <2>6. \A y \in Port : link'[y] = "DOWN" => y \in wasDown'
    BY <2>1, <2>3
  <2>7. PortsTypeOK' /\ AsleepForgets' /\ CountersBacked'
    BY <1>0, <2>1, <2>3 DEF PortsTypeOK, AsleepForgets, CountersBacked
  <2> QED
    BY <2>4, <2>5, <2>6, <2>7 DEF PortsInv, ScanTells
<1>6. CASE ReadFails /\ Remember /\ UNCHANGED outage
  <2>1. pc' = "sleep" /\ UNCHANGED <<link, downCount, outage>>
    BY <1>6 DEF ReadFails
  <2> QED
    BY <1>0, <1>6, <2>1
    DEF Remember, PortsInv, PortsTypeOK, AsleepForgets, ScanTells, CountersBacked
<1>7. CASE UNCHANGED <<vars, ports>>
  BY <1>0, <1>7
  DEF vars, ports, PortsInv, PortsTypeOK, AsleepForgets, ScanTells, CountersBacked
<1> QED
  BY <1>1, <1>2, <1>3, <1>4, <1>5, <1>6, <1>7 DEF PortsNext

LEMMA PortsInvCorrect == PortsSpec => [](PortsInv /\ MonitorInv)
<1>1. PortsInit => PortsInv /\ MonitorInv
  <2> SUFFICES ASSUME PortsInit PROVE PortsInv /\ MonitorInv
    OBVIOUS
  <2>1. MonitorInv
    BY MonitorInvInit DEF PortsInit
  <2>2. PortsTypeOK /\ AsleepForgets /\ ScanTells /\ CountersBacked
    BY MonitorAssumption
    DEF PortsInit, Init, PortsTypeOK, AsleepForgets, ScanTells, CountersBacked
  <2> QED
    BY <2>1, <2>2 DEF PortsInv, MonitorInv
<1>2. PortsInv /\ MonitorInv /\ [PortsNext]_<<vars, ports>> => (PortsInv /\ MonitorInv)'
  <2> SUFFICES ASSUME PortsInv, MonitorInv, [PortsNext]_<<vars, ports>>
               PROVE  (PortsInv /\ MonitorInv)'
    OBVIOUS
  <2>1. MonitorInv'
    BY PortsStep, MonitorInvStep
  <2>2. TypeOK'
    BY <2>1 DEF MonitorInv
  <2> QED
    BY <2>1, <2>2, PortsInvStep
<1> QED
  BY <1>1, <1>2, PTL DEF PortsSpec

(* What is announced changes only at the end of a complete scan.            *)
LEMMA AnnouncedAtDecision ==
    ASSUME [PortsNext]_<<vars, ports>>, adv' # adv
    PROVE  /\ ScanDone
           /\ ~(adv \subseteq adv') => Tripped # {}
           /\ ~(adv' \subseteq adv) => seenUp = Pipe
<1>1. Decide
  BY DEF PortsNext, LinkFlip, StartScan, ReadPort, ReadFails, Restart, vars
<1>2. ASSUME NEW ok \in StepOutcomes, WithdrawIgw(ok)
      PROVE  ScanDone /\ Tripped # {} /\ adv' \subseteq adv
  BY <1>2 DEF WithdrawIgw, SetIgwDown
<1>3. ASSUME NEW ok \in StepOutcomes, RestoreIgw(ok)
      PROVE  ScanDone /\ seenUp = Pipe /\ adv \subseteq adv'
  BY <1>3 DEF RestoreIgw, BackUp, SetIgwUp
<1>4. ~KeepIgw
  BY DEF KeepIgw
<1> QED
  BY <1>1, <1>2, <1>3, <1>4 DEF Decide

(* For any ports, pipes and threshold: what takes the gateway out of BGP is *)
(* a pipe whose ports were all down at some moment of each of the last      *)
(* complete scans, however they flapped (switch_monitor.c:130-170).         *)
THEOREM WithdrawOnlyInOutageCorrect == PortsSpec => WithdrawOnlyInOutage
<1>1. ASSUME PortsInv, [PortsNext]_<<vars, ports>>, ~(adv \subseteq adv')
      PROVE  \E p \in Pipe : \A x \in Port :
                 PortPipe[x] = p => x \in wasDown /\ outage[x] >= MaxDownCount
  <2>1. ScanDone /\ Tripped # {}
    BY <1>1, AnnouncedAtDecision
  <2>2. PICK p \in Tripped : TRUE
    BY <2>1
  <2>3. p \in Pipe /\ p \notin seenUp /\ downCount[p] >= MaxDownCount
    BY <2>2 DEF Tripped, DownPipes
  <2>4. ASSUME NEW x \in Port, PortPipe[x] = p
        PROVE  x \in wasDown /\ outage[x] >= MaxDownCount
    <3>1. x \in wasDown
      BY <2>1, <2>3, <2>4, <1>1, DownPipeWasDown
    <3>2. downCount[p] <= outage[x]
      BY <2>4, <1>1 DEF PortsInv, CountersBacked
    <3>3. downCount[p] \in Nat /\ outage[x] \in Nat /\ MaxDownCount \in Nat
      BY <2>3, <1>1, MonitorAssumption DEF PortsInv, TypeOK, PortsTypeOK
    <3> QED
      BY <3>1, <3>2, <3>3, <2>3
  <2> QED
    BY <2>3, <2>4
<1>2. PortsInv /\ [PortsNext]_<<vars, ports>> =>
        [~(adv \subseteq adv') => \E p \in Pipe : \A x \in Port :
            PortPipe[x] = p => x \in wasDown /\ outage[x] >= MaxDownCount]_<<vars, ports>>
  BY <1>1
<1> QED
  BY <1>2, PortsInvCorrect, PTL DEF PortsSpec, WithdrawOnlyInOutage

(* For any ports and pipes: what is announced again was preceded, in the    *)
(* scan that decided it, by a port that was up in every pipe                *)
(* (switch_monitor.c:127-176).                                              *)
THEOREM AnnounceOnlyWithBothPipesCorrect == PortsSpec => AnnounceOnlyWithBothPipes
<1>1. ASSUME PortsInv, [PortsNext]_<<vars, ports>>, ~(adv' \subseteq adv)
      PROVE  \A p \in Pipe : \E x \in wasUp : PortPipe[x] = p
  <2>1. ScanDone /\ seenUp = Pipe
    BY <1>1, AnnouncedAtDecision
  <2> QED
    BY <2>1, <1>1, DownPipeWasDown
<1>2. PortsInv /\ [PortsNext]_<<vars, ports>> =>
        [~(adv' \subseteq adv) =>
            \A p \in Pipe : \E x \in wasUp : PortPipe[x] = p]_<<vars, ports>>
  BY <1>1
<1> QED
  BY <1>2, PortsInvCorrect, PTL DEF PortsSpec, AnnounceOnlyWithBothPipes
=============================================================================
