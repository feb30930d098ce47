------------------------------ MODULE InitSetup ------------------------------
(***************************************************************************)
(* Starting and replacing the process init_setup: runs of the script        *)
(* initsetup, which kills the process that is there, removes its lock file  *)
(* and starts a new one; starts by hand (run_init_setup.sh), which only the *)
(* lock file keeps from running beside it; and the process itself until it  *)
(* drives the device (Startup has what it does then).                       *)
(*                                                                         *)
(* Each run starts one process, which has the run's name; Old was there     *)
(* before.  A fork changes the pid, and the parent exits at once.  Removing *)
(* and loading the kernel modules only takes time here.                     *)
(***************************************************************************)
EXTENDS Naturals

CONSTANTS
    Scripts,     \* bound: runs of initsetup
    ByHand,      \* bound: starts without it
    Old,         \* the process of an earlier start
    MaxCrashes   \* bound: crashes, SETUP_PANIC among them

Runs == Scripts \union ByHand
Processes == Runs \union {Old}

ASSUME RunsAssumption == Scripts \intersect ByHand = {} /\ Old \notin Runs

VARIABLES
    lock,      \* /var/run/init_setup.file exists
    phase,     \* how far a process is
    forks,     \* how often it has forked, which tells its pids apart
    at,        \* where a run is
    pids,      \* the pids killall has listed and not yet signalled
    crashes,
    raced      \* history: the lock could not protect the process that has it

runVars == <<at, pids>>
vars == <<lock, phase, forks, at, pids, crashes, raced>>

Alive == {"check", "create", "fork", "signals", "drives", "dies"}

(* Has created the lock file; drives the device, or still does.             *)
Holders == {p \in Processes : phase[p] \in {"fork", "signals", "drives", "dies"}}
Drivers == {p \in Processes : phase[p] \in {"drives", "dies"}}

Pid(p) == <<p, forks[p]>>

Init ==
    /\ \E old \in {"none", "drives", "gone"} :
          /\ phase = [p \in Processes |-> IF p = Old THEN old ELSE "none"]
          /\ lock = (old # "none")
    /\ forks = [p \in Processes |-> 0]
    /\ at = [r \in Runs |-> "idle"]
    /\ pids = [r \in Runs |-> {}]
    /\ crashes = 0
    /\ raced = FALSE

-----------------------------------------------------------------------------
(* The process.                                                             *)
Becomes(p, ph) == phase' = [phase EXCEPT ![p] = ph]

(* init_setup_check: open the lock file, which must not exist ...           *)
OpenLock(p) ==
    /\ phase[p] = "check"
    /\ Becomes(p, IF lock THEN "gone" ELSE "create")
    /\ raced' = (raced \/ (~lock /\ \E q \in Processes : phase[q] = "create"))
    /\ UNCHANGED <<lock, forks, runVars, crashes>>

(* Variant whose file is never created.                                     *)
CreateNothing(p) ==
    /\ phase[p] = "create"
    /\ Becomes(p, "fork")
    /\ UNCHANGED <<lock, forks, runVars, crashes, raced>>

(* ... and create it.                                                       *)
CreateLock(p) ==
    /\ phase[p] = "create"
    /\ Becomes(p, "fork")
    /\ lock' = TRUE
    /\ UNCHANGED <<forks, runVars, crashes, raced>>

(* Variant that forks once more each time.                                  *)
DaemonizeAgain(p) ==
    /\ phase[p] = "fork"
    /\ forks' = [forks EXCEPT ![p] = @ + 1]
    /\ Becomes(p, IF forks[p] <= 1 THEN "fork" ELSE "signals")
    /\ UNCHANGED <<lock, runVars, crashes, raced>>

(* init_setup_daemonize: two forks.                                         *)
Daemonize(p) ==
    /\ phase[p] = "fork"
    /\ forks' = [forks EXCEPT ![p] = @ + 1]
    /\ Becomes(p, IF forks[p] = 0 THEN "fork" ELSE "signals")
    /\ UNCHANGED <<lock, runVars, crashes, raced>>

(* bf_switchd_main: the signals are blocked, for a thread of their own,     *)
(* before the driver starts.                                                *)
DriveDevice(p) ==
    /\ phase[p] = "signals"
    /\ Becomes(p, "drives")
    /\ UNCHANGED <<lock, forks, runVars, crashes, raced>>

(* bf_switchd_nominated_signal_thread: the driver's handler returns.        *)
Exit(p) ==
    /\ phase[p] = "dies"
    /\ Becomes(p, "gone")
    /\ UNCHANGED <<lock, forks, runVars, crashes, raced>>

(* A failure ends the process, fopen's among them; the file stays.          *)
Crash(p) ==
    /\ phase[p] \in Alive /\ crashes < MaxCrashes
    /\ crashes' = crashes + 1
    /\ Becomes(p, "gone")
    /\ UNCHANGED <<lock, forks, runVars, raced>>

Starting(p) == OpenLock(p) \/ CreateLock(p) \/ Daemonize(p) \/ DriveDevice(p)

-----------------------------------------------------------------------------
(* initsetup.                                                               *)
GoTo(r, place) == at' = [at EXCEPT ![r] = place]

Begin(r) ==
    /\ at[r] = "idle"
    /\ GoTo(r, IF r \in Scripts THEN "ps" ELSE "start")
    /\ UNCHANGED <<lock, phase, forks, pids, crashes, raced>>

(* ps -ef | grep init_setup; killall passes over what else that finds.      *)
LookForProcess(s) ==
    /\ at[s] = "ps"
    /\ GoTo(s, IF \E p \in Processes : phase[p] \in Alive THEN "killall" ELSE "rm")
    /\ UNCHANGED <<lock, phase, forks, pids, crashes, raced>>

(* killall init_setup: list the pids ...                                    *)
ListPids(s) ==
    /\ at[s] = "killall"
    /\ pids' = [pids EXCEPT ![s] = {Pid(p) : p \in {q \in Processes : phase[q] \in Alive}}]
    /\ GoTo(s, "signal")
    /\ UNCHANGED <<lock, phase, forks, crashes, raced>>

(* ... and send SIGTERM to one after the other; it kills at once a process  *)
(* that has not blocked it.                                                 *)
SendSigterm(s) ==
    /\ at[s] = "signal"
    /\ \E pid \in pids[s] :
          /\ pids' = [pids EXCEPT ![s] = @ \ {pid}]
          /\ \E p \in Processes :
                /\ p = pid[1]
                /\ IF Pid(p) # pid \/ phase[p] \notin Alive
                   THEN phase' = phase
                   ELSE Becomes(p, IF p \in Drivers THEN "dies" ELSE "gone")
    /\ UNCHANGED <<lock, forks, at, crashes, raced>>

Signalled(s) ==
    /\ at[s] = "signal" /\ pids[s] = {}
    /\ GoTo(s, "rm")
    /\ UNCHANGED <<lock, phase, forks, pids, crashes, raced>>

(* Variant that leaves the file where it is.                                *)
KeepLock(s) ==
    /\ at[s] = "rm"
    /\ GoTo(s, "start")
    /\ UNCHANGED <<lock, phase, forks, pids, crashes, raced>>

(* rm -f /var/run/init_setup.file, without waiting for who was killed.      *)
RemoveLock(s) ==
    /\ at[s] = "rm"
    /\ lock' = FALSE
    /\ raced' = (raced \/ Holders # {})
    /\ GoTo(s, "start")
    /\ UNCHANGED <<phase, forks, pids, crashes>>

(* run_init_setup.sh                                                        *)
StartProcess(r) ==
    /\ at[r] = "start"
    /\ Becomes(r, "check")
    /\ GoTo(r, "done")
    /\ UNCHANGED <<lock, forks, pids, crashes, raced>>

Goes(r) ==
    \/ LookForProcess(r) \/ ListPids(r) \/ SendSigterm(r) \/ Signalled(r)
    \/ RemoveLock(r) \/ StartProcess(r)

Next ==
    \/ \E p \in Processes : Starting(p) \/ Exit(p) \/ Crash(p)
    \/ \E r \in Runs : Begin(r) \/ Goes(r)

Spec == Init /\ [][Next]_vars

(* What runs is scheduled; nobody has to start anything, and a process that *)
(* was killed may take as long as it likes.                                 *)
FairSpec ==
    /\ Spec
    /\ \A p \in Processes : WF_vars(Starting(p))
    /\ \A r \in Runs : WF_vars(Goes(r))

-----------------------------------------------------------------------------
InitSetupTypeOK ==
    /\ lock \in BOOLEAN /\ raced \in BOOLEAN
    /\ phase \in [Processes -> {"none", "gone"} \union Alive]
    /\ forks \in [Processes -> 0..2]
    /\ at \in [Runs -> {"idle", "ps", "killall", "signal", "rm", "start", "done"}]
    /\ \A r \in Runs : pids[r] \subseteq Processes \X (0..2)

(* Two processes drive the device at once only if initsetup removed the     *)
(* lock from under one of them, which it had killed a moment before or not  *)
(* found, or two of them opened the lock file before either created it; in  *)
(* any other case the file keeps them apart, through forks, crashes and     *)
(* starts by hand (main.c:39-63, initsetup:5-20).                           *)
OneDriver == raced \/ \A p, q \in Drivers : p = q

(* Whoever runs initsetup gets a process that drives the device, even if a  *)
(* crash has left the lock file behind and others run initsetup or start    *)
(* the process by hand at the same time, unless there is a crash: a process *)
(* that finds the file is refused by one that nobody kills any more.        *)
InitsetupStarts ==
    (\E s \in Scripts : at[s] # "idle")
        ~> [](crashes > 0 \/ \E p \in Processes : phase[p] = "drives")
=============================================================================
