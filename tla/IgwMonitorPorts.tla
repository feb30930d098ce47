--------------------------- MODULE IgwMonitorPorts ---------------------------
(***************************************************************************)
(* What the ports did while the monitor looked at them.  The scan reads     *)
(* each port once (switch_monitor.c:130-148) and draws its conclusion some  *)
(* time later, from counters that may be many cycles old; the histories     *)
(* kept here tell what was really the case, port by port, so that a         *)
(* withdrawal or an announcement can be held against it.                    *)
(***************************************************************************)
EXTENDS IgwMonitor

VARIABLES
    wasUp,      \* history: ports that were up at some moment of this scan
    wasDown,    \* history: ports that were down at some moment of this scan
    outage      \* history: outage[x] consecutive complete scans, up to the last
                \* one, had a moment at which x was down; at most MaxDownCount + 1

ports == <<wasUp, wasDown, outage>>

PortsTypeOK ==
    /\ wasUp \subseteq Port /\ wasDown \subseteq Port
    /\ outage \in [Port -> 0 .. MaxDownCount + 1]

PortsInit ==
    /\ Init
    /\ wasUp = {} /\ wasDown = {}
    /\ outage = [x \in Port |-> 0]

Remember ==
    /\ wasUp' = IF pc' = "scan"
                THEN wasUp \cup {x \in Port : link'[x] = "UP"} ELSE {}
    /\ wasDown' = IF pc' = "scan"
                  THEN wasDown \cup {x \in Port : link'[x] = "DOWN"} ELSE {}

CountOutages ==
    outage' = [x \in Port |->
        IF x \notin wasDown THEN 0
        ELSE IF outage[x] > MaxDownCount THEN outage[x] ELSE outage[x] + 1]

PortsNext ==
    \/ Decide /\ Remember /\ CountOutages
    \/ Restart /\ Remember /\ outage' = [x \in Port |-> 0]
    \/ (\E x \in Port : LinkFlip(x)) /\ Remember /\ UNCHANGED outage
    \/ (StartScan \/ ReadPort \/ ReadFails) /\ Remember /\ UNCHANGED outage

PortsSpec == PortsInit /\ [][PortsNext]_<<vars, ports>>

-----------------------------------------------------------------------------

(* Nothing is taken out of BGP unless some pipe really was in trouble: each *)
(* of its ports was down at some moment of this scan and of each of the     *)
(* MAX_DOWN_COUNT complete scans before it, whatever flapped between the    *)
(* reads and however many cycles were given up (switch_monitor.c:130-170).  *)
WithdrawOnlyInOutage ==
    [][~(adv \subseteq adv') =>
         \E p \in Pipe : \A x \in Port :
             PortPipe[x] = p => x \in wasDown /\ outage[x] >= MaxDownCount]_<<vars, ports>>

(* Nothing is announced again unless every external pipe had a port that    *)
(* was up at some moment of the scan that decides it, not merely of an      *)
(* earlier one or of one that was given up (switch_monitor.c:127-176).      *)
AnnounceOnlyWithBothPipes ==
    [][~(adv' \subseteq adv) =>
         \A p \in Pipe : \E x \in wasUp : PortPipe[x] = p]_<<vars, ports>>
=============================================================================
