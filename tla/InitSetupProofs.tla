-------------------------- MODULE InitSetupProofs --------------------------
(***************************************************************************)
(* For any number of runs, starts by hand and crashes, the lock file keeps  *)
(* a second process from the device unless the two races of OneDriver       *)
(* happened.  Until then a process that has created the file is the only    *)
(* one that has, the file is there, and nobody is about to create it.       *)
(***************************************************************************)
EXTENDS InitSetup, TLAPS

(* A process forks twice, and a run starts one process.                     *)
ForkedTwice ==
    /\ \A p \in Processes : phase[p] \in {"none", "check", "create"} => forks[p] = 0
    /\ \A p \in Processes : phase[p] = "fork" => forks[p] \in {0, 1}
    /\ \A r \in Runs : at[r] # "done" => phase[r] = "none"

(* The file protects who has created it, until a race.                      *)
Protected ==
    /\ \A p \in Processes : phase[p] \in {"fork", "signals", "drives", "dies"} => lock
    /\ \A p, q \in Processes :
          /\ phase[p] \in {"create", "fork", "signals", "drives", "dies"}
          /\ phase[q] \in {"create", "fork", "signals", "drives", "dies"}
          => p = q

LockInv == InitSetupTypeOK /\ ForkedTwice /\ (raced \/ Protected)

LEMMA InitLock == ASSUME Init PROVE LockInv
  <1>1. PICK old \in {"none", "drives", "gone"} :
           /\ phase = [p \in Processes |-> IF p = Old THEN old ELSE "none"]
           /\ lock = (old # "none")
    BY DEF Init
  <1>2. phase \in [Processes -> {"none", "gone"} \union Alive]
    BY <1>1 DEF Alive
  <1>3. InitSetupTypeOK
    <2>1. raced \in BOOLEAN /\ lock \in BOOLEAN
      BY <1>1 DEF Init
    <2>2. forks \in [Processes -> 0..2] /\ at \in [Runs -> {"idle"}] /\ \A r \in Runs : pids[r] = {}
      BY DEF Init
    <2>3. at \in [Runs -> {"idle", "ps", "killall", "signal", "rm", "start", "done"}]
      BY <2>2
    <2> QED
      BY <1>2, <2>1, <2>2, <2>3 DEF InitSetupTypeOK
  <1>4. ForkedTwice
    BY <1>1, RunsAssumption DEF ForkedTwice, Init, Processes
  <1>5. Protected
    BY <1>1 DEF Protected
  <1> QED
    BY <1>3, <1>4, <1>5 DEF LockInv

(* A process ends, or begins to.                                            *)
LEMMA OneEnds ==
    ASSUME ForkedTwice, phase \in [Processes -> {"none", "gone"} \union Alive],
           NEW p \in Processes, phase[p] \in Alive, NEW ph \in {"gone", "dies"}, Becomes(p, ph),
           UNCHANGED <<forks, at>>
    PROVE  ForkedTwice' /\ phase' \in [Processes -> {"none", "gone"} \union Alive]
  <1>1. \A q \in Processes : phase'[q] = IF q = p THEN ph ELSE phase[q]
    BY DEF Becomes
  <1>2. phase[p] # "none"
    BY DEF Alive
  <1>3. \A r \in Runs : r \in Processes /\ (at[r] # "done" => r # p)
    BY <1>2 DEF ForkedTwice, Processes
  <1>4. ForkedTwice'
    BY <1>1, <1>3 DEF ForkedTwice
  <1> QED
    BY <1>4 DEF Becomes, Alive

(* A step that takes one process from one phase to another: what is left to *)
(* show is about that process.                                              *)
LEMMA OneMoves ==
    ASSUME Protected, NEW p \in Processes, NEW ph, phase \in [Processes -> {"none", "gone"} \union Alive],
           Becomes(p, ph), lock => lock',
           ph \in {"fork", "signals", "drives", "dies"} => lock',
           ph \in {"create", "fork", "signals", "drives", "dies"} =>
               \/ phase[p] \in {"create", "fork", "signals", "drives", "dies"}
               \/ \A q \in Processes : phase[q] \notin {"create", "fork", "signals", "drives", "dies"}
    PROVE  Protected'
  <1>1. \A q \in Processes : phase'[q] = IF q = p THEN ph ELSE phase[q]
    BY DEF Becomes
  <1> QED
    BY <1>1 DEF Protected

(* The steps of a process.                                                  *)
LEMMA ProcessStep ==
    ASSUME LockInv, NEW p \in Processes, Starting(p) \/ Exit(p) \/ Crash(p)
    PROVE  LockInv'
  <1> USE DEF LockInv, InitSetupTypeOK, runVars
  <1>1. CASE OpenLock(p)
    <2>1. InitSetupTypeOK' /\ ForkedTwice'
      BY <1>1 DEF OpenLock, Becomes, ForkedTwice, Alive
    <2>2. ASSUME ~raced' PROVE Protected'
      <3>1. ~raced /\ Protected /\ (lock \/ \A q \in Processes : phase[q] # "create")
        BY <1>1, <2>2 DEF OpenLock
      <3>2. ~lock => \A q \in Processes :
                        phase[q] \notin {"create", "fork", "signals", "drives", "dies"}
        BY <3>1 DEF Protected
      <3>3. Becomes(p, IF lock THEN "gone" ELSE "create") /\ lock' = lock
        BY <1>1 DEF OpenLock
      <3> DEFINE ph == IF lock THEN "gone" ELSE "create"
      <3>4. /\ Becomes(p, ph) /\ (lock => lock')
            /\ ph \in {"fork", "signals", "drives", "dies"} => lock'
            /\ ph \in {"create", "fork", "signals", "drives", "dies"} =>
                  \A q \in Processes : phase[q] \notin {"create", "fork", "signals", "drives", "dies"}
        BY <3>2, <3>3
      <3> HIDE DEF ph
      <3> QED
        BY <3>1, <3>4, OneMoves
    <2> QED
      BY <2>1, <2>2
  <1>2. CASE CreateLock(p)
    <2>1. InitSetupTypeOK' /\ ForkedTwice'
      BY <1>2 DEF CreateLock, Becomes, ForkedTwice, Alive
    <2>2. raced' = raced /\ lock' /\ Becomes(p, "fork") /\ phase[p] = "create"
      BY <1>2 DEF CreateLock
    <2>3. Protected => Protected'
      BY <2>2, OneMoves
    <2> QED
      BY <2>1, <2>2, <2>3
  <1>3. CASE Daemonize(p)
    <2>1. forks[p] \in {0, 1} /\ forks' = [forks EXCEPT ![p] = forks[p] + 1]
      BY <1>3 DEF Daemonize, ForkedTwice
    <2>2. forks' \in [Processes -> 0..2]
      BY <2>1
    <2>3. phase' = [phase EXCEPT ![p] = IF forks[p] = 0 THEN "fork" ELSE "signals"]
      BY <1>3 DEF Daemonize, Becomes
    <2>4. phase' \in [Processes -> {"none", "gone"} \union Alive]
      BY <2>3 DEF Alive
    <2>5. InitSetupTypeOK'
      BY <1>3, <2>2, <2>4 DEF Daemonize
    <2>6. ForkedTwice'
      <3>1. \A q \in Processes : q # p => phase'[q] = phase[q] /\ forks'[q] = forks[q]
        BY <2>1, <2>3
      <3>2. phase'[p] \in {"fork", "signals"} /\ (phase'[p] = "fork" => forks'[p] = 1)
        BY <2>1, <2>3
      <3>3. \A r \in Runs : r \in Processes /\ at'[r] = at[r]
        BY <1>3 DEF Daemonize, Processes
      <3>4. \A r \in Runs : at[r] # "done" => r # p
        BY <1>3 DEF Daemonize, ForkedTwice
      <3> QED
        BY <3>1, <3>2, <3>3, <3>4 DEF ForkedTwice
    <2>7. Protected => Protected'
      <3> DEFINE ph == IF forks[p] = 0 THEN "fork" ELSE "signals"
      <3>1. Becomes(p, ph) /\ lock' = lock /\ phase[p] = "fork"
        BY <1>3 DEF Daemonize
      <3> HIDE DEF ph
      <3> QED
        BY <3>1, OneMoves DEF Protected
    <2> QED
      BY <1>3, <2>5, <2>6, <2>7 DEF Daemonize
  <1>4. CASE DriveDevice(p)
    <2>1. InitSetupTypeOK' /\ ForkedTwice'
      BY <1>4 DEF DriveDevice, Becomes, ForkedTwice, Alive
    <2>2. raced' = raced /\ lock' = lock /\ Becomes(p, "drives") /\ phase[p] = "signals"
      BY <1>4 DEF DriveDevice
    <2>3. Protected => Protected'
      BY <2>2, OneMoves DEF Protected
    <2> QED
      BY <2>1, <2>2, <2>3
  <1>5. CASE Exit(p) \/ Crash(p)
    <2>1. /\ raced' = raced /\ lock' = lock /\ Becomes(p, "gone") /\ phase[p] \in Alive
          /\ UNCHANGED <<forks, at, pids>>
      BY <1>5 DEF Exit, Crash, Alive
    <2>2. InitSetupTypeOK' /\ ForkedTwice'
      BY <2>1, OneEnds
    <2>3. Protected => Protected'
      BY <2>1, OneMoves
    <2> QED
      BY <2>1, <2>2, <2>3
  <1> QED
    BY <1>1, <1>2, <1>3, <1>4, <1>5 DEF Starting

(* The steps of a run.                                                      *)
LEMMA RunStep ==
    ASSUME LockInv, NEW r \in Runs, Begin(r) \/ Goes(r)
    PROVE  LockInv'
  <1> USE DEF LockInv, InitSetupTypeOK, GoTo
  <1>1. CASE Begin(r) \/ LookForProcess(r) \/ Signalled(r)
    <2>1. UNCHANGED <<lock, phase, forks, raced, pids>>
      BY <1>1 DEF Begin, LookForProcess, Signalled
    <2>2. InitSetupTypeOK'
      BY <1>1, <2>1 DEF Begin, LookForProcess, Signalled
    <2>3. \A s \in Runs : at'[s] # "done" => at[s] # "done"
      BY <1>1 DEF Begin, LookForProcess, Signalled
    <2>4. ForkedTwice' /\ (Protected => Protected')
      BY <2>1, <2>3 DEF ForkedTwice, Protected
    <2> QED
      BY <2>1, <2>2, <2>4
  <1>2. CASE ListPids(r)
    <2>1. UNCHANGED <<lock, phase, forks, raced>>
      BY <1>2 DEF ListPids
    <2>2. \A p \in Processes : Pid(p) \in Processes \X (0..2)
      BY DEF Pid
    <2>3. InitSetupTypeOK'
      BY <1>2, <2>1, <2>2 DEF ListPids
    <2>4. \A s \in Runs : at'[s] # "done" => at[s] # "done"
      BY <1>2 DEF ListPids
    <2>5. ForkedTwice' /\ (Protected => Protected')
      BY <2>1, <2>4 DEF ForkedTwice, Protected
    <2> QED
      BY <2>1, <2>3, <2>5
  <1>3. CASE SendSigterm(r)
    <2>1. UNCHANGED <<lock, forks, at, raced>>
      BY <1>3 DEF SendSigterm
    <2>2. PICK p \in Processes :
             \/ phase' = phase
             \/ phase[p] \in Alive /\ Becomes(p, IF p \in Drivers THEN "dies" ELSE "gone")
      BY <1>3 DEF SendSigterm
    <2>3. \/ phase' = phase
          \/ phase[p] \in {"drives", "dies"} /\ Becomes(p, "dies")
          \/ phase[p] \in Alive /\ Becomes(p, "gone")
      BY <2>2 DEF Drivers
    <2>4. ForkedTwice' /\ phase' \in [Processes -> {"none", "gone"} \union Alive]
      <3>1. CASE phase' = phase
        BY <2>1, <3>1 DEF ForkedTwice
      <3>2. CASE phase[p] \in {"drives", "dies"} /\ Becomes(p, "dies")
        BY <2>1, <3>2, OneEnds DEF Alive
      <3>3. CASE phase[p] \in Alive /\ Becomes(p, "gone")
        BY <2>1, <3>3, OneEnds
      <3> QED
        BY <2>3, <3>1, <3>2, <3>3
    <2>5. InitSetupTypeOK'
      BY <1>3, <2>1, <2>4 DEF SendSigterm
    <2>6. Protected => Protected'
      <3>1. CASE phase' = phase
        BY <2>1, <3>1 DEF Protected
      <3>2. CASE phase[p] \in {"drives", "dies"} /\ Becomes(p, "dies")
        BY <2>1, <3>2, OneMoves DEF Protected
      <3>3. CASE Becomes(p, "gone")
        BY <2>1, <3>3, OneMoves
      <3> QED
        BY <2>3, <3>1, <3>2, <3>3
    <2> QED
      BY <2>1, <2>4, <2>5, <2>6
  <1>4. CASE RemoveLock(r)
    <2>1. UNCHANGED <<phase, forks, pids>> /\ raced' = (raced \/ Holders # {}) /\ lock' = FALSE
      BY <1>4 DEF RemoveLock
    <2>2. raced' \in BOOLEAN /\ lock' \in BOOLEAN
      BY <2>1
    <2>3. InitSetupTypeOK'
      BY <1>4, <2>1, <2>2 DEF RemoveLock
    <2>4. \A s \in Runs : at'[s] # "done" => at[s] # "done"
      BY <1>4 DEF RemoveLock
    <2>5. ForkedTwice'
      BY <2>1, <2>4 DEF ForkedTwice
    <2>6. ~raced' => Protected'
      BY <2>1 DEF Protected, Holders
    <2> QED
      BY <2>3, <2>5, <2>6
  <1>5. CASE StartProcess(r)
    <2>1. r \in Processes /\ phase[r] = "none" /\ Becomes(r, "check")
          /\ UNCHANGED <<lock, forks, raced, pids>>
      BY <1>5 DEF StartProcess, ForkedTwice, Processes
    <2>2. InitSetupTypeOK'
      BY <1>5, <2>1 DEF StartProcess, Becomes, Alive
    <2>3. ForkedTwice'
      BY <1>5, <2>1 DEF StartProcess, ForkedTwice, Becomes, Processes
    <2>4. Protected => Protected'
      BY <2>1, OneMoves
    <2> QED
      BY <2>1, <2>2, <2>3, <2>4
  <1> QED
    BY <1>1, <1>2, <1>3, <1>4, <1>5 DEF Goes

LEMMA StepLock ==
    ASSUME LockInv, [Next]_vars
    PROVE  LockInv'
  <1>1. CASE UNCHANGED vars
    BY <1>1 DEF vars, runVars, LockInv, InitSetupTypeOK, ForkedTwice, Protected
  <1> QED
    BY <1>1, ProcessStep, RunStep DEF Next

(* The invariant holds of every behaviour.                                  *)
THEOREM LockInvariant == Spec => []LockInv
  BY InitLock, StepLock, PTL DEF Spec

(* The types are right: in particular a start never forks a third time.     *)
THEOREM InitSetupTypeCorrect == Spec => []InitSetupTypeOK
  <1>1. LockInv => InitSetupTypeOK
    BY DEF LockInv
  <1> QED
    BY <1>1, LockInvariant, PTL

(* Without one of the two races, at most one process drives the device, for *)
(* any number of operators (main.c:39-63, initsetup:5-20).                  *)
THEOREM OneDriverCorrect == Spec => []OneDriver
  <1>1. LockInv => OneDriver
    BY DEF LockInv, Protected, OneDriver, Drivers
  <1> QED
    BY <1>1, LockInvariant, PTL
=============================================================================
