---------------------------- MODULE StartupProofs ----------------------------
(***************************************************************************)
(* For any ports, files and bounds: no thread uses what another has still   *)
(* to set up, no packet gets an egress port before the tables that decide   *)
(* about it are full, and the kernel hears from the network only after the  *)
(* switchlink thread has its tables.  The argument is the order of the      *)
(* start: the position of the main thread never goes back once it is past   *)
(* the configuration, the file stays as it is, and a step that fills a      *)
(* table is left when the table is full.                                    *)
(***************************************************************************)
EXTENDS Startup, StartTablesProofs

(* The switchlink thread runs only beside a main thread that is past the    *)
(* step which starts it.                                                    *)
ThreadBehindMain == thread # "none" => main > 12 \/ main = Aborted

(* The semaphore is posted once, when the thread leaves "starting", and the *)
(* main thread passes its wait after that.                                  *)
SemPostedOnce ==
    /\ sem \in 0..1
    /\ thread \in {"none", "starting"} => sem = 0 /\ main < 14

(* Each table is full behind the main thread and empty before it.           *)
FilledInOrder ==
    /\ main > 8 => Full("tables")
    /\ main > 10 => Full("drops")
    /\ main \in 1..10 => written["ecmp"] = 0
    /\ main \in 1..13 => written["packets"] = 0
    /\ ForwardsOnlyByFullTables

StartInv ==
    /\ StartupTypeOK
    /\ ThreadBehindMain
    /\ SemPostedOnce
    /\ FilledInOrder
    /\ KernelHearsAfterSwitchlink
    /\ NothingUsedBeforeSetUp

(* The positions of the steps that others depend on.                        *)
LEMMA Positions ==
    ASSUME main \in Nat
    PROVE  /\ HasRun("hostifs") <=> main > 4
           /\ HasRun("hash") <=> main > 5
           /\ HasRun("notify") <=> main > 6
           /\ HasRun("bfrt") <=> main > 7
           /\ HasRun("ecmp") <=> main > 11
           /\ AtStep("lock") <=> main = 1
           /\ AtStep("config") <=> main = 2
           /\ AtStep("ports") <=> main = 3
           /\ AtStep("hostifs") <=> main = 4
           /\ AtStep("hash") <=> main = 5
           /\ AtStep("notify") <=> main = 6
           /\ AtStep("bfrt") <=> main = 7
           /\ AtStep("tables") <=> main = 8
           /\ AtStep("dl") <=> main = 9
           /\ AtStep("drops") <=> main = 10
           /\ AtStep("ecmp") <=> main = 11
           /\ AtStep("switchlink") <=> main = 12
           /\ AtStep("wait") <=> main = 13
           /\ AtStep("packets") <=> main = 14
           /\ AtStep("monitor") <=> main = 15
           /\ Done = 16
  <1> DEFINE o == Order
  <1>1. Len(o) = 15
    BY DEF Order
  <1>2. /\ o[1] = "lock" /\ o[2] = "config" /\ o[3] = "ports" /\ o[4] = "hostifs" /\ o[5] = "hash"
        /\ o[6] = "notify" /\ o[7] = "bfrt" /\ o[8] = "tables" /\ o[9] = "dl" /\ o[10] = "drops"
        /\ o[11] = "ecmp" /\ o[12] = "switchlink" /\ o[13] = "wait" /\ o[14] = "packets"
        /\ o[15] = "monitor"
    BY DEF Order
  <1>3. \A i \in 1..15 : i \in {1, 2, 3, 4, 5, 6, 7, 8, 9, 10, 11, 12, 13, 14, 15}
    OBVIOUS
  <1> HIDE DEF o
  <1>4. \A s : HasRun(s) <=> \E i \in 1..15 : o[i] = s /\ i < main
    BY <1>1 DEF HasRun, o
  <1>5. \A s : AtStep(s) <=> main \in 1..15 /\ o[main] = s
    BY <1>1 DEF AtStep, o
  <1> QED
    BY <1>1, <1>2, <1>3, <1>4, <1>5 DEF Done, o

(* The profile keeps its two directions whatever the loop does.             *)
LEMMA DirectionsStay ==
    ASSUME NEW addr, NEW len, DOMAIN profile = Direction, DlStep(addr, len)
    PROVE  DOMAIN profile' = Direction
  BY DEF DlStep, StartDl, AddMember, AddGroup, ProfileEntryAdd

(* Every cell of the struct is zero or as in the file.                      *)
LEMMA CellsStay ==
    ASSUME cfg \in [Cell -> {"zero", "file"}], ParseStep
    PROVE  cfg' \in [Cell -> {"zero", "file"}]
  <1>1. CASE ParseEnds
    BY <1>1 DEF ParseEnds
  <1>2. CASE ParseField
    <2> DEFINE t == StoredAt(at[1], at[2])
    <2>1. cfg' = [c \in Cell |-> CASE c = t            -> "file"
                                   [] c \in Overrun(t) -> "zero"
                                   [] OTHER            -> cfg[c]]
      BY <1>2 DEF ParseField
    <2> HIDE DEF t
    <2> QED
      BY <2>1
  <1> QED
    BY <1>1, <1>2 DEF ParseStep

(* Using only what has been set up does no harm.                            *)
LEMMA UsesWell ==
    ASSUME NEW steps, \A s \in steps : HasRun(s), Uses(steps), ~crashed
    PROVE  ~crashed'
  BY Zenon DEF Uses

LEMMA InitStart ==
    ASSUME Init PROVE StartInv
  <1> USE DEF Init, ConfigInit, DlInit, FillInit
  <1>1. main \in Nat
    OBVIOUS
  <1>2. StartupTypeOK
    BY <1>1, Positions DEF StartupTypeOK, FillStep
  <1>3. FilledInOrder
    BY DEF FilledInOrder, ForwardsOnlyByFullTables, FillStep
  <1> QED
    BY <1>2, <1>3 DEF StartInv, ThreadBehindMain, SemPostedOnce, NothingUsedBeforeSetUp,
                      KernelHearsAfterSwitchlink, FillStep

(* What no step but FillTables, and none before it, does to the tables.     *)
LEMMA TablesStay ==
    ASSUME FilledInOrder, UNCHANGED <<file, written>>, UNCHANGED cfg \/ main = 2,
           main \in Nat, main' \in Nat,
           main' = main \/ (main' = main + 1 /\ main \notin {0, 8, 10}) \/ main' = 0
    PROVE  FilledInOrder'
  <1>1. CASE UNCHANGED cfg
    <2>1. \A step : Full(step)' = Full(step)
      BY <1>1 DEF Full, Reached, Loaded
    <2>2. ForwardsOnlyByFullTables'
      BY <2>1 DEF FilledInOrder, ForwardsOnlyByFullTables
    <2> QED
      BY <2>1, <2>2 DEF FilledInOrder
  <1>2. CASE main = 2
    <2>1. written["ecmp"] = 0 /\ written["packets"] = 0
      BY <1>2 DEF FilledInOrder
    <2> QED
      BY <1>2, <2>1 DEF FilledInOrder, ForwardsOnlyByFullTables
  <1> QED
    BY <1>1, <1>2

(* Filling tables moves main past the step only when its table is full.     *)
LEMMA FillKeepsOrder ==
    ASSUME StartInv, FillTables
    PROVE  /\ FilledInOrder'
           /\ KernelHearsAfterSwitchlink'
           /\ written' \in [FillStep -> Nat]
           /\ main' \in {0, main, main + 1} /\ main \in {8, 10, 11, 14}
  <1> USE DEF StartInv, StartupTypeOK
  <1>0. main \in Nat
    BY Positions
  <1>1. file' = file /\ cfg' = cfg
    BY DEF FillTables, configVars
  <1>2. PICK step \in FillStep :
           /\ AtStep(step)
           /\ \/ WriteEntry(step) /\ main' = IF Full(step)' THEN main + 1 ELSE main
              \/ WriteFails(step) /\ main' = Aborted
    BY DEF FillTables
  <1>3. \/ step = "tables" /\ main = 8
        \/ step = "drops" /\ main = 10
        \/ step = "ecmp" /\ main = 11
        \/ step = "packets" /\ main = 14
    BY <1>0, <1>2, Positions DEF FillStep
  <1>4. /\ written' \in [FillStep -> Nat]
        /\ \A s \in FillStep \ {step} : written'[s] = written[s]
    BY <1>2 DEF WriteEntry, WriteFails
  <1>5. \A s \in FillStep \ {step} : Full(s)' = Full(s)
    BY <1>1, <1>4 DEF Full, Reached, Loaded
  <1>6. /\ main' \in {0, main, main + 1}
        /\ main' = main + 1 => Full(step)'
    BY <1>0, <1>2 DEF Aborted
  <1>7. ForwardsOnlyByFullTables'
    <2>1. CASE main \in {8, 10}
      <3>1. written'["ecmp"] = 0
        BY <1>0, <1>3, <1>4, <2>1 DEF FilledInOrder, FillStep
      <3> QED
        BY <3>1 DEF ForwardsOnlyByFullTables
    <2>2. CASE main \in {11, 14}
      <3>1. Full("tables") /\ Full("drops") /\ step \in {"ecmp", "packets"}
        BY <1>0, <1>3, <2>2 DEF FilledInOrder
      <3>2. Full("tables")' /\ Full("drops")'
        BY <1>5, <3>1 DEF FillStep
      <3> QED
        BY <3>2 DEF ForwardsOnlyByFullTables
    <2> QED
      BY <1>3, <2>1, <2>2
  <1>8. FilledInOrder'
    <2>1. CASE main' = 0
      BY <1>7, <2>1 DEF FilledInOrder
    <2>2. main' \in {main, main + 1} => (main' > 8 => Full("tables")') /\ (main' > 10 => Full("drops")')
      BY <1>0, <1>3, <1>5, <1>6 DEF FilledInOrder, FillStep
    <2>3. main' \in {main, main + 1} =>
              /\ main' \in 1..10 => written'["ecmp"] = 0
              /\ main' \in 1..13 => written'["packets"] = 0
      BY <1>0, <1>3, <1>4 DEF FilledInOrder, FillStep
    <2> QED
      BY <1>6, <1>7, <2>1, <2>2, <2>3 DEF FilledInOrder
  <1>9. KernelHearsAfterSwitchlink'
    <2>1. thread' = thread
      BY DEF FillTables
    <2>2. CASE main = 14
      BY <1>0, <2>1, <2>2 DEF SemPostedOnce, KernelHearsAfterSwitchlink
    <2>3. CASE main \in {8, 10, 11}
      <3>1. written'["packets"] = 0
        BY <1>0, <1>3, <1>4, <2>3 DEF FilledInOrder, FillStep
      <3> QED
        BY <3>1 DEF KernelHearsAfterSwitchlink
    <2> QED
      BY <1>3, <2>2, <2>3
  <1> QED
    BY <1>3, <1>4, <1>6, <1>8, <1>9

(* One step per action.                                                     *)
LEMMA StepStart ==
    ASSUME StartInv, [Next]_vars
    PROVE  StartInv'
  <1> USE DEF StartInv, StartupTypeOK, ThreadBehindMain, SemPostedOnce, NothingUsedBeforeSetUp,
          KernelHearsAfterSwitchlink, Aborted
  <1>0. main \in Nat /\ main \in 0..16 /\ Done = 16 /\ Done' = 16
    BY Positions DEF Done, Order
  <1>1. CASE CheckLock
    <2>1. main = 1 /\ main' \in {0, 2}
      BY <1>0, <1>1, Positions DEF CheckLock, Aborted
    <2>2. FilledInOrder'
      BY <1>0, <1>1, <2>1, TablesStay DEF CheckLock, configVars
    <2> QED
      BY <1>0, <1>1, <2>1, <2>2 DEF CheckLock, configVars, dlVars, portVars
  <1>2. CASE ReadConfig
    <2>1. main = 2 /\ thread = "none"
      BY <1>0, <1>2, Positions DEF ReadConfig
    <2>2. cfg' \in [Cell -> {"zero", "file"}] /\ file' = file
      BY <1>2, CellsStay DEF ReadConfig, ParseStep, ParseEnds, ParseField
    <2>3. main' \in {0, 2, 3}
      BY <1>2, <2>1 DEF ReadConfig, Aborted
    <2>4. FilledInOrder'
      BY <1>2, <2>1, <2>2, <2>3, TablesStay DEF ReadConfig
    <2> QED
      BY <1>0, <1>2, <2>1, <2>2, <2>3, <2>4 DEF ReadConfig, dlVars, portVars
  <1>3. CASE AddPorts \/ PlainStep
    <2>1. main \in {3, 5, 6, 7, 15} /\ main' = main + 1
      BY <1>0, <1>3, Positions DEF AddPorts, PlainStep
    <2>2. FilledInOrder'
      BY <1>0, <1>3, <2>1, TablesStay DEF AddPorts, PlainStep, configVars
    <2> QED
      BY <1>0, <1>3, <2>1, <2>2 DEF AddPorts, PlainStep, configVars, dlVars, portVars
  <1>4. CASE CreateHostifs
    <2>1. main = 4 /\ main' = 5
      BY <1>0, <1>4, Positions DEF CreateHostifs
    <2>2. FilledInOrder'
      BY <1>0, <1>4, <2>1, TablesStay DEF CreateHostifs, configVars
    <2> QED
      BY <1>0, <1>4, <2>1, <2>2 DEF CreateHostifs, configVars, dlVars
  <1>5. CASE FillDl
    <2>1. main = 9 /\ main' \in {9, 10}
      BY <1>0, <1>5, Positions DEF FillDl
    <2>2. DOMAIN profile' = Direction
      BY <1>5, DirectionsStay DEF FillDl
    <2>3. FilledInOrder'
      BY <1>0, <1>5, <2>1, TablesStay DEF FillDl, configVars
    <2> QED
      BY <1>0, <1>5, <2>1, <2>2, <2>3 DEF FillDl, configVars, portVars
  <1>6. CASE SwitchlinkInit
    <2>1. main = 12 /\ thread = "none" /\ main' = 13
      BY <1>0, <1>6, Positions DEF SwitchlinkInit
    <2>2. FilledInOrder'
      BY <1>0, <1>6, <2>1, TablesStay DEF SwitchlinkInit, configVars
    <2> QED
      BY <1>0, <1>6, <2>1, <2>2 DEF SwitchlinkInit, configVars, dlVars, portVars
  <1>7. CASE SemWait
    <2>1. main = 13 /\ main' = 14
      BY <1>0, <1>7, Positions DEF SemWait
    <2>2. FilledInOrder'
      BY <1>0, <1>7, <2>1, TablesStay DEF SemWait, configVars
    <2> QED
      BY <1>0, <1>7, <2>1, <2>2 DEF SemWait, configVars, dlVars, portVars
  <1>8. CASE FillTables
    <2>1. /\ FilledInOrder' /\ KernelHearsAfterSwitchlink' /\ written' \in [FillStep -> Nat]
          /\ main' \in {0, main, main + 1} /\ main \in {8, 10, 11, 14}
      BY <1>8, FillKeepsOrder
    <2> QED
      BY <1>0, <1>8, <2>1 DEF FillTables, configVars, dlVars, portVars, Aborted
  <1>9. ASSUME NEW p \in Ports, LinkChange(p) PROVE StartInv'
    <2>1. FilledInOrder'
      BY <1>0, <1>9, TablesStay DEF LinkChange, configVars
    <2> QED
      BY <1>0, <1>9, <2>1 DEF LinkChange, configVars, dlVars
  <1>10. ASSUME NEW p \in Ports, PortStateChange(p) PROVE StartInv'
    <2>1. intf' \in [Ports -> {"none", "up", "down"}] /\ told' \subseteq Ports
      BY <1>10 DEF PortStateChange, SetHostif
    <2>2. FilledInOrder'
      BY <1>0, <1>10, TablesStay DEF PortStateChange, configVars
    <2>3. ~crashed'
      <3>1. CASE HasRun("notify")
        <4>1. \A s \in {"hash", "hostifs"} : HasRun(s)
          BY <1>0, <3>1, Positions
        <4>2. Uses({"hash", "hostifs"})
          BY <1>10, <3>1 DEF PortStateChange
        <4> QED
          BY <4>1, <4>2, UsesWell
      <3>2. CASE ~HasRun("notify")
        BY <1>10, <3>2 DEF PortStateChange
      <3> QED
        BY <3>1, <3>2
    <2> QED
      BY <1>0, <1>10, <2>1, <2>2, <2>3 DEF PortStateChange, configVars, dlVars
  <1>11. CASE ThreadStarts
    <2>1. \A s \in {"hostifs", "bfrt"} : HasRun(s)
      BY <1>0, <1>11, Positions DEF ThreadStarts
    <2>2. ~crashed'
      BY <1>11, <2>1, UsesWell DEF ThreadStarts
    <2>3. FilledInOrder'
      BY <1>0, <1>11, TablesStay DEF ThreadStarts, configVars
    <2> QED
      BY <1>0, <1>11, <2>2, <2>3 DEF ThreadStarts, configVars, dlVars, portVars
  <1>12. CASE OpenSocket
    <2>1. FilledInOrder'
      BY <1>0, <1>12, TablesStay DEF OpenSocket, configVars
    <2> QED
      BY <1>0, <1>12, <2>1 DEF OpenSocket, configVars, dlVars, portVars
  <1>13. CASE HandleMessage
    <2>1. \A s \in {"hostifs", "bfrt", "ecmp"} : HasRun(s)
      BY <1>0, <1>13, Positions DEF HandleMessage
    <2>2. ~crashed'
      BY <1>13, <2>1, UsesWell DEF HandleMessage
    <2>3. FilledInOrder'
      BY <1>0, <1>13, TablesStay DEF HandleMessage, configVars
    <2> QED
      BY <1>0, <1>13, <2>2, <2>3 DEF HandleMessage, configVars, dlVars, portVars
  <1>14. CASE UNCHANGED vars
    <2>1. FilledInOrder'
      BY <1>0, <1>14, TablesStay DEF vars, configVars
    <2> QED
      BY <1>0, <1>14, <2>1 DEF vars, configVars, dlVars, portVars
  <1> QED
    BY <1>1, <1>2, <1>3, <1>4, <1>5, <1>6, <1>7, <1>8, <1>9, <1>10, <1>11, <1>12, <1>13, <1>14
       DEF Next, MainThread

(* The invariant holds of every behaviour of the start.                     *)
THEOREM StartInvariant == Spec => []StartInv
  BY InitStart, StepStart, PTL DEF Spec

(* The start is type-correct: in particular the semaphore is never posted   *)
(* twice (switchlink_main.c:170).                                           *)
THEOREM StartupTypeCorrect == Spec => []StartupTypeOK
  <1>1. StartInv => StartupTypeOK
    BY DEF StartInv
  <1> QED
    BY <1>1, StartInvariant, PTL

(* Neither the port thread nor the switchlink thread ever uses what the     *)
(* main thread has still to set up (switch_device.c:144-145,                *)
(* main.c:603-618).                                                         *)
THEOREM NothingUsedBeforeSetUpCorrect == Spec => []NothingUsedBeforeSetUp
  <1>1. StartInv => NothingUsedBeforeSetUp
    BY DEF StartInv
  <1> QED
    BY <1>1, StartInvariant, PTL

(* Whatever the file, no packet is given an egress port before the tables   *)
(* that classify, redirect and drop are full (main.c:606-612).              *)
THEOREM ForwardsOnlyByFullTablesCorrect == Spec => []ForwardsOnlyByFullTables
  <1>1. StartInv => ForwardsOnlyByFullTables
    BY DEF StartInv, FilledInOrder
  <1> QED
    BY <1>1, StartInvariant, PTL

(* Whatever the file, no entry brings frames to the kernel before the       *)
(* switchlink thread has initialised its tables: the main thread passes its *)
(* wait only when the thread has posted (main.c:616-619).                   *)
THEOREM KernelHearsAfterSwitchlinkCorrect == Spec => []KernelHearsAfterSwitchlink
  <1>1. StartInv => KernelHearsAfterSwitchlink
    BY DEF StartInv
  <1> QED
    BY <1>1, StartInvariant, PTL

-----------------------------------------------------------------------------
(* The dl_ip tables, for any address width, any size of the table and any   *)
(* prefix of unicast addresses.  While a loop runs, its direction holds the *)
(* first addresses of the prefix in order and the loop stands at the one    *)
(* after them; the direction before it is complete, the one after it empty. *)

(* The first k addresses of the prefix are the members 1 to k.              *)
Holds(d, k, addr, len) ==
    /\ DOMAIN profile[d] = 1..k
    /\ \A m \in 1..k : profile[d][m] = FirstAddress(addr, len) + (m - 1)

Complete(d, addr, len) ==
    Holds(d, Fitting(len), addr, len) /\ group[d] = 1..Fitting(len)

LoopAt(d, addr, len) ==
    \E k \in 0..Fitting(len) :
        Holds(d, k, addr, len) /\ dlLoop.ip = FirstAddress(addr, len) + k

DlInv(addr, len) ==
    /\ DOMAIN profile = Direction /\ DOMAIN group = Direction
    /\ dlLoop \in [dir : {"none", "in", "out", "done"}, ip : Int]
    /\ dlLoop.dir = "none" => \A d \in Direction : DOMAIN profile[d] = {}
    /\ dlLoop.dir = "in" => LoopAt("in", addr, len) /\ DOMAIN profile["out"] = {}
    /\ dlLoop.dir = "out" => Complete("in", addr, len) /\ LoopAt("out", addr, len)
    /\ dlLoop.dir = "done" => \A d \in Direction : Complete(d, addr, len)

-----------------------------------------------------------------------------
(* Quotient and remainder. *)
LEMMA QuotientRemainder ==
    ASSUME NEW a \in Nat, NEW B \in Nat \ {0}
    PROVE  /\ a \div B \in Nat /\ a % B \in Nat /\ a % B < B
           /\ a = B * (a \div B) + (a % B)
  OBVIOUS

(* Two addresses have the same prefix iff one lies in the other's block.    *)
LEMMA SameBlock ==
    ASSUME NEW a \in Nat, NEW c \in Nat, NEW B \in Nat \ {0}
    PROVE  (a \div B = c \div B) <=> (c - (c % B) <= a /\ a <= c - (c % B) + B - 1)
<1> DEFINE k == a \div B
           q == c \div B
<1>1. /\ q \in Nat /\ k \in Nat /\ c - (c % B) = B * q
      /\ a >= B * k /\ a < B * k + B
  BY QuotientRemainder
<1> HIDE DEF q, k
<1>2. CASE k = q
  BY <1>1, <1>2 DEF q, k
<1>3. CASE k < q
  <2>1. B * (k + 1) <= B * q
    BY <1>1, <1>3
  <2>2. B * k + B <= B * q
    BY <1>1, <2>1
  <2> QED
    BY <1>1, <1>3, <2>2 DEF q, k
<1>4. CASE k > q
  <2>1. B * (q + 1) <= B * k
    BY <1>1, <1>4
  <2>2. B * q + B <= B * k
    BY <1>1, <2>1
  <2> QED
    BY <1>1, <1>4, <2>2 DEF q, k
<1> QED
  BY <1>1, <1>2, <1>3, <1>4

(* The smaller of two sizes. *)
LEMMA AtMost ==
    ASSUME NEW a \in Nat \ {0}, NEW b \in Nat \ {0}
    PROVE  LET f == IF a <= b THEN a ELSE b
           IN f \in Nat \ {0} /\ f \in {a, b} /\ f <= a /\ f <= b
  OBVIOUS

(* The numbers of a prefix, as the loops use them.                          *)
LEMMA PrefixNumbers ==
    ASSUME NEW addr, NEW len, UnicastPrefix(addr, len)
    PROVE  /\ BlockSize(len) \in Nat \ {0} /\ 2 ^ AddrBits \in Int
           /\ FirstAddress(addr, len) \in Nat
           /\ LastAddress(addr, len) = FirstAddress(addr, len) + BlockSize(len) - 1
           /\ Fitting(len) \in Nat \ {0}
           /\ Fitting(len) <= BlockSize(len) /\ Fitting(len) <= MaxDlIpNum
           /\ Fitting(len) \in {BlockSize(len), MaxDlIpNum}
           /\ FirstAddress(addr, len) + Fitting(len) < 2 ^ AddrBits
<1>1. BlockSize(len) \in Nat \ {0} /\ addr \in Nat /\ MaxDlIpNum \in Nat \ {0} /\ 2 ^ AddrBits \in Int
  BY EipDlAssumption DEF UnicastPrefix
<1>2. addr % BlockSize(len) \in Nat /\ addr - (addr % BlockSize(len)) \in Nat
  <2> DEFINE B == BlockSize(len)
             r == addr % B
             q == addr \div B
  <2> HIDE DEF B
  <2>1. r \in Nat /\ q \in Nat /\ addr = B * q + r
    BY <1>1, QuotientRemainder DEF B
  <2> HIDE DEF r, q
  <2>2. B * q \in Nat
    BY <1>1, <2>1 DEF B
  <2> QED
    BY <1>1, <2>1, <2>2 DEF B, r
<1>3. FirstAddress(addr, len) \in Nat /\ LastAddress(addr, len) = FirstAddress(addr, len) + BlockSize(len) - 1
  BY <1>2 DEF FirstAddress, LastAddress
<1>4. FirstAddress(addr, len) + Fitting(len) < 2 ^ AddrBits
  BY DEF UnicastPrefix, FirstAddress
<1>5. /\ Fitting(len) \in Nat \ {0} /\ Fitting(len) \in {BlockSize(len), MaxDlIpNum}
      /\ Fitting(len) <= BlockSize(len) /\ Fitting(len) <= MaxDlIpNum
  BY <1>1, AtMost DEF Fitting
<1> QED
  BY <1>1, <1>3, <1>4, <1>5

(* A direction that holds k addresses has k members.                        *)
LEMMA MembersOf ==
    ASSUME NEW d, NEW k \in Nat, NEW addr, NEW len, Holds(d, k, addr, len)
    PROVE  Members(d) = k
<1>1. DOMAIN profile[d] = 1..k
  BY DEF Holds
<1>2. Cardinality(1..k) = k
  BY FS_Interval
<1>3. Members(d) = Cardinality(DOMAIN profile[d])
  BY Zenon DEF Members
<1> QED
  BY <1>1, <1>2, <1>3, Zenon

(* The loop goes on exactly while an address fits.                          *)
LEMMA LoopGoesOn ==
    ASSUME NEW addr, NEW len, UnicastPrefix(addr, len), NEW k \in 0..Fitting(len),
           Holds(dlLoop.dir, k, addr, len), dlLoop.ip = FirstAddress(addr, len) + k
    PROVE  InLoop(addr, len) <=> k < Fitting(len)
<1>1. /\ FirstAddress(addr, len) \in Nat /\ BlockSize(len) \in Nat /\ MaxDlIpNum \in Nat
      /\ LastAddress(addr, len) = FirstAddress(addr, len) + BlockSize(len) - 1
      /\ Fitting(len) \in Nat
      /\ Fitting(len) <= BlockSize(len) /\ Fitting(len) <= MaxDlIpNum
      /\ Fitting(len) \in {BlockSize(len), MaxDlIpNum}
  BY PrefixNumbers, EipDlAssumption
<1>2. Members(dlLoop.dir) = k /\ k \in Nat
  BY <1>1, MembersOf
<1> QED
  BY <1>1, <1>2 DEF InLoop

(* One turn of the loop adds the next address as the next member.           *)
LEMMA TurnOfLoop ==
    ASSUME NEW addr, NEW len, UnicastPrefix(addr, len),
           dlLoop \in [dir : Direction, ip : Int], LoopAt(dlLoop.dir, addr, len),
           DOMAIN profile = Direction, AddMember(addr, len)
    PROVE  /\ dlLoop' \in [dir : {dlLoop.dir}, ip : Int] /\ group' = group
           /\ DOMAIN profile' = Direction
           /\ \A d \in Direction \ {dlLoop.dir} : profile'[d] = profile[d]
           /\ LoopAt(dlLoop.dir, addr, len)'
<1> DEFINE d == dlLoop.dir
           F == FirstAddress(addr, len)
<1>1. PICK k \in 0..Fitting(len) : Holds(d, k, addr, len) /\ dlLoop.ip = F + k
  BY DEF LoopAt
<1>2. /\ F \in Nat /\ Fitting(len) \in Nat /\ F + Fitting(len) < 2 ^ AddrBits
      /\ 2 ^ AddrBits \in Int
  BY PrefixNumbers
<1>3. k < Fitting(len)
  BY <1>1, LoopGoesOn DEF AddMember
<1>4. Members(d) = k
  BY <1>1, <1>2, MembersOf
<1>5. /\ profile' = [profile EXCEPT ![d] = [m \in DOMAIN profile[d] \union {k + 1} |->
                                              IF m = k + 1 THEN F + k ELSE profile[d][m]]]
      /\ dlLoop' = [dlLoop EXCEPT !.ip = (F + k + 1) % 2 ^ AddrBits]
      /\ group' = group
  BY <1>1, <1>4 DEF AddMember, ProfileEntryAdd
<1>6. (F + k + 1) % 2 ^ AddrBits = F + (k + 1)
  <2>1. F + k + 1 \in Nat /\ F + k + 1 < 2 ^ AddrBits
    BY <1>2, <1>3
  <2>2. PICK N \in Int : N = 2 ^ AddrBits
    BY <1>2
  <2>3. PICK x \in Nat : x = F + k + 1
    BY <2>1
  <2>4. x % N = x
    BY <2>1, <2>2, <2>3
  <2> QED
    BY <2>2, <2>3, <2>4, <1>2
<1>7. dlLoop' \in [dir : {d}, ip : Int] /\ dlLoop'.dir = d /\ dlLoop'.ip = F + (k + 1)
  BY <1>1, <1>2, <1>5, <1>6
<1>8. DOMAIN profile' = Direction /\ \A x \in Direction \ {d} : profile'[x] = profile[x]
  BY <1>5
<1>9. profile'[d] = [m \in DOMAIN profile[d] \union {k + 1} |->
                        IF m = k + 1 THEN F + k ELSE profile[d][m]]
  BY <1>5
<1>10. DOMAIN profile'[d] = 1..(k + 1)
  BY <1>1, <1>2, <1>9 DEF Holds
<1>11. \A m \in 1..(k + 1) : profile'[d][m] = F + (m - 1)
  BY <1>1, <1>2, <1>9, <1>10 DEF Holds
<1>12. k + 1 \in 0..Fitting(len)
  BY <1>1, <1>2, <1>3
<1>13. PICK j \in 0..Fitting(len) : j = k + 1
  BY <1>12
<1>14. Holds(dlLoop.dir, j, addr, len)' /\ dlLoop'.ip = F + j
  BY <1>7, <1>10, <1>11, <1>13 DEF Holds
<1> QED
  BY <1>5, <1>7, <1>8, <1>14 DEF LoopAt

LEMMA DlStepKeeps ==
    ASSUME NEW addr, NEW len, UnicastPrefix(addr, len), DlInv(addr, len), DlStep(addr, len)
    PROVE  DlInv(addr, len)'
<1> DEFINE F == FirstAddress(addr, len)
<1>0. F \in Nat /\ Fitting(len) \in Nat
  BY PrefixNumbers
<1>1. CASE StartDl(addr, len)
  <2>1. /\ dlLoop.dir = "none" /\ dlLoop' = [dir |-> "in", ip |-> F]
        /\ UNCHANGED <<profile, group>>
    BY <1>1 DEF StartDl
  <2>2. DOMAIN profile["in"] = {} /\ DOMAIN profile["out"] = {}
    BY <2>1 DEF DlInv, Direction
  <2>3. Holds("in", 0, addr, len)'
    BY <2>1, <2>2 DEF Holds
  <2>4. LoopAt("in", addr, len)'
    BY <1>0, <2>1, <2>3 DEF LoopAt
  <2> QED
    BY <1>0, <2>1, <2>2, <2>4 DEF DlInv
<1>2. CASE AddMember(addr, len)
  <2>1. dlLoop.dir \in Direction
    BY <1>2 DEF AddMember
  <2>2. dlLoop \in [dir : Direction, ip : Int] /\ LoopAt(dlLoop.dir, addr, len)
    BY <2>1 DEF DlInv, Direction
  <2>3. /\ dlLoop' \in [dir : {dlLoop.dir}, ip : Int] /\ group' = group
        /\ DOMAIN profile' = Direction
        /\ \A x \in Direction \ {dlLoop.dir} : profile'[x] = profile[x]
        /\ LoopAt(dlLoop.dir, addr, len)'
    BY <1>2, <2>2, TurnOfLoop DEF DlInv
  <2>4. CASE dlLoop.dir = "in"
    BY <2>3, <2>4 DEF DlInv, Direction
  <2>5. CASE dlLoop.dir = "out"
    <3>1. dlLoop'.dir = "out" /\ profile'["in"] = profile["in"]
      BY <2>3, <2>5 DEF Direction
    <3>2. Complete("in", addr, len)'
      BY <2>3, <2>5, <3>1 DEF DlInv, Complete, Holds
    <3> QED
      BY <2>3, <2>5, <3>1, <3>2 DEF DlInv
  <2> QED
    BY <2>1, <2>4, <2>5 DEF Direction
<1>3. CASE AddGroup(addr, len)
  <2> DEFINE d == dlLoop.dir
  <2>1. /\ d \in Direction /\ ~InLoop(addr, len) /\ profile' = profile
        /\ group' = [group EXCEPT ![d] = 1..Members(d)]
        /\ dlLoop' = IF d = "in" THEN [dir |-> "out", ip |-> F] ELSE [dir |-> "done", ip |-> 0]
    BY <1>3 DEF AddGroup, SelectorEntryAdd
  <2>2. PICK k \in 0..Fitting(len) : Holds(d, k, addr, len) /\ dlLoop.ip = F + k
    BY <2>1 DEF DlInv, LoopAt, Direction
  <2>3. k = Fitting(len)
    BY <1>0, <2>1, <2>2, LoopGoesOn
  <2>4. Members(d) = Fitting(len)
    BY <1>0, <2>2, <2>3, MembersOf
  <2>5. DOMAIN group' = Direction /\ group'[d] = 1..Fitting(len)
        /\ \A x \in Direction \ {d} : group'[x] = group[x]
    BY <2>1, <2>4 DEF DlInv
  <2>6. CASE d = "in"
    <3>1. dlLoop' = [dir |-> "out", ip |-> F] /\ group'["in"] = 1..Fitting(len)
      BY <2>1, <2>5, <2>6
    <3>2. Complete("in", addr, len)'
      BY <2>1, <2>2, <2>3, <2>6, <3>1 DEF Complete, Holds
    <3>3. DOMAIN profile["out"] = {}
      BY <2>6 DEF DlInv
    <3>4. Holds("out", 0, addr, len)'
      BY <2>1, <3>3 DEF Holds
    <3>5. LoopAt("out", addr, len)'
      BY <1>0, <3>1, <3>4 DEF LoopAt
    <3> QED
      BY <1>0, <2>1, <2>5, <3>1, <3>2, <3>5 DEF DlInv
  <2>7. CASE d = "out"
    <3>1. /\ dlLoop' = [dir |-> "done", ip |-> 0] /\ group'["out"] = 1..Fitting(len)
          /\ group'["in"] = group["in"]
      BY <2>1, <2>5, <2>7 DEF Direction
    <3>2. Complete("out", addr, len)'
      BY <2>1, <2>2, <2>3, <2>7, <3>1 DEF Complete, Holds
    <3>3. Complete("in", addr, len)'
      BY <2>1, <2>7, <3>1 DEF DlInv, Complete, Holds
    <3> QED
      BY <2>1, <2>5, <3>1, <3>2, <3>3 DEF DlInv, Direction
  <2> QED
    BY <2>1, <2>6, <2>7 DEF Direction
<1> QED
  BY <1>1, <1>2, <1>3 DEF DlStep

LEMMA DlInitKeeps ==
    ASSUME NEW addr, NEW len, DlInit
    PROVE  DlInv(addr, len)
  BY DEF DlInit, DlInv, Direction

LEMMA DlInvStays ==
    ASSUME NEW addr, NEW len, DlInv(addr, len), UNCHANGED dlVars
    PROVE  DlInv(addr, len)'
  BY DEF dlVars, DlInv, Complete, LoopAt, Holds

(* What the loops leave behind is what every gateway needs.                 *)
LEMMA CompleteTable ==
    ASSUME NEW addr, NEW len, UnicastPrefix(addr, len), DlInv(addr, len)
    PROVE  DlTableComplete(addr, len)
<1> DEFINE F == FirstAddress(addr, len)
           B == BlockSize(len)
<1> SUFFICES ASSUME dlLoop.dir = "done", NEW d \in Direction
             PROVE  /\ group[d] = DOMAIN profile[d]
                    /\ \A m \in group[d] :
                         /\ profile[d][m] \in Recognised(addr, len)
                         /\ Cardinality({a \in Recognised(addr, len) : a < profile[d][m]}) = m - 1
                    /\ Cardinality(group[d]) = Fitting(len)
  BY DEF DlTableComplete
<1>1. /\ F \in Nat /\ B \in Nat \ {0} /\ Fitting(len) \in Nat /\ Fitting(len) <= B
      /\ LastAddress(addr, len) = F + B - 1 /\ addr \in Nat /\ 2 ^ AddrBits \in Int
      /\ LastAddress(addr, len) < 2 ^ AddrBits
  <2>1. addr \in Nat /\ LastAddress(addr, len) < 2 ^ AddrBits
    BY DEF UnicastPrefix
  <2> QED
    BY <2>1, PrefixNumbers
<1>2. /\ group[d] = 1..Fitting(len) /\ DOMAIN profile[d] = 1..Fitting(len)
      /\ \A m \in 1..Fitting(len) : profile[d][m] = F + (m - 1)
  BY DEF DlInv, Complete, Holds
<1>3. Recognised(addr, len) = F .. (F + B - 1)
  <2>1. \A a \in Nat : a \div B = addr \div B <=> F <= a /\ a <= F + B - 1
    BY <1>1, SameBlock DEF FirstAddress
  <2> QED
    BY <1>1, <2>1 DEF Recognised
<1> HIDE DEF F, B
<1>4. ASSUME NEW m \in 1..Fitting(len)
      PROVE  /\ profile[d][m] \in Recognised(addr, len)
             /\ Cardinality({a \in Recognised(addr, len) : a < profile[d][m]}) = m - 1
  <2>1. profile[d][m] = F + (m - 1)
    BY <1>2
  <2>2. PICK hi \in Int : hi = F + m - 2
    BY <1>1
  <2>3. {a \in Recognised(addr, len) : a < profile[d][m]} = F..hi
    BY <1>1, <1>3, <2>1, <2>2
  <2>4. Cardinality(F..hi) = IF F > hi THEN 0 ELSE hi - F + 1
    BY <1>1, FS_Interval
  <2>5. Cardinality(F..hi) = m - 1
    BY <1>1, <2>2, <2>4
  <2>6. profile[d][m] \in Recognised(addr, len)
    BY <1>1, <1>3, <2>1
  <2> QED
    BY <2>3, <2>5, <2>6, Zenon
<1>5. Cardinality(1..Fitting(len)) = Fitting(len)
  BY <1>1, FS_Interval
<1> QED
  BY <1>2, <1>4, <1>5

-----------------------------------------------------------------------------
(* The dl_ip tables are filled for the file that was read, and by nobody    *)
(* else.                                                                    *)
DlForFile == file \in Files /\ DlInv(file.dl_ip, file.prefix_len)

LEMMA OnlyFillDlFills ==
    ASSUME [Next]_vars
    PROVE  /\ file' = file
           /\ UNCHANGED dlVars \/ DlStep(file.dl_ip, file.prefix_len)
  <1>1. CASE ReadConfig
    BY <1>1 DEF ReadConfig, ParseStep, ParseEnds, ParseField
  <1>2. CASE FillDl
    BY <1>2 DEF FillDl, configVars
  <1>3. CASE CheckLock \/ AddPorts \/ CreateHostifs \/ SwitchlinkInit \/ SemWait \/ PlainStep
    BY <1>3 DEF CheckLock, AddPorts, CreateHostifs, SwitchlinkInit, SemWait, PlainStep, configVars
  <1>4. CASE FillTables
    BY <1>4 DEF FillTables, configVars
  <1>5. CASE \E p \in Ports : LinkChange(p) \/ PortStateChange(p)
    BY <1>5 DEF LinkChange, PortStateChange, configVars
  <1>6. CASE ThreadStarts \/ OpenSocket \/ HandleMessage
    BY <1>6 DEF ThreadStarts, OpenSocket, HandleMessage, configVars
  <1>7. CASE UNCHANGED vars
    BY <1>7 DEF vars, configVars
  <1> QED
    BY <1>1, <1>2, <1>3, <1>4, <1>5, <1>6, <1>7 DEF Next, MainThread

LEMMA DlForFileStep ==
    ASSUME DlForFile, [Next]_vars
    PROVE  DlForFile'
  <1>1. PICK addr, len : addr = file.dl_ip /\ len = file.prefix_len
    OBVIOUS
  <1>2. UnicastPrefix(addr, len) /\ DlInv(addr, len)
    BY <1>1, FilesAssumption DEF DlForFile
  <1>3. file' = file /\ (UNCHANGED dlVars \/ DlStep(addr, len))
    BY <1>1, OnlyFillDlFills
  <1>4. DlInv(addr, len)'
    BY <1>2, <1>3, DlStepKeeps, DlInvStays
  <1> QED
    BY <1>1, <1>3, <1>4 DEF DlForFile

(* Whatever address of a prefix the file gives, whatever runs beside the    *)
(* main thread, and however long or short the prefix is: once filled, the   *)
(* dl_ip tables are those of every other gateway of the cluster             *)
(* (switch_eip_dl.c:36-138).                                               *)
THEOREM GatewaysChooseAlikeCorrect == Spec => []GatewaysChooseAlike
  <1>1. Init => DlForFile
    BY DlInitKeeps DEF Init, ConfigInit, DlForFile
  <1>2. DlForFile /\ [Next]_vars => DlForFile'
    BY DlForFileStep
  <1>3. DlForFile => GatewaysChooseAlike
    <2> SUFFICES ASSUME DlForFile PROVE GatewaysChooseAlike
      OBVIOUS
    <2>1. UnicastPrefix(file.dl_ip, file.prefix_len)
      BY FilesAssumption DEF DlForFile
    <2> QED
      BY <2>1, CompleteTable DEF DlForFile, GatewaysChooseAlike
  <1> QED
    BY <1>1, <1>2, <1>3, PTL DEF Spec

-----------------------------------------------------------------------------
(* The file of a start is parsed as SwitchConfig says, beside whatever else *)
(* runs.                                                                    *)
(* Section and place of a store come before those of the next one.          *)
Before(s, k) == s < at[1] \/ (s = at[1] /\ k < at[2])

SectionOf(c) == IF c[1] = HostifsSize THEN 0 ELSE c[1] + 1

Stored(c) ==
    /\ SectionOf(c) <= Len(file.hostifs)
    /\ \E k \in 1..Len(Stores(SectionOf(c))) :
           Stores(SectionOf(c))[k] = c[2] /\ Before(SectionOf(c), k)

(* The number of hostifs, once the array is full.                           *)
Wiped(c) == c = Higw("hostif_num") /\ at[1] > HostifsSize

Position ==
    /\ at \in Nat \X Nat
    /\ at[1] <= Len(file.hostifs) + 1
    /\ ~AtEnd => at[2] \in 1..Len(Stores(at[1]))

ParseInv ==
    /\ file \in Files
    /\ Position
    /\ cfg = [c \in Cell |-> IF Stored(c) /\ ~Wiped(c) THEN "file" ELSE "zero"]
    /\ parse = "done" => AtEnd

LEMMA HigwOrder ==
    /\ Len(Stores(0)) = 6
    /\ Stores(0)[1] = "port_speed" /\ Stores(0)[2] = "hardware_model" /\ Stores(0)[3] = "fec_model"
    /\ Stores(0)[4] = "dl_ip" /\ Stores(0)[5] = "dl_ip_prefix_len" /\ Stores(0)[6] = "hostif_num"
  BY DEF Stores

LEMMA HostifOrder ==
    ASSUME NEW h, NEW f, f = HostifStores(h)
    PROVE  /\ ~h.ip6 => /\ Len(f) = 7
                        /\ f[1] = "intf_name" /\ f[2] = "ip_addr" /\ f[3] = "net_mask_len"
                        /\ f[4] = "gw_ip_addr" /\ f[5] = "mac_str" /\ f[6] = "mac" /\ f[7] = "fp_port"
           /\ h.ip6 => /\ Len(f) = 10
                       /\ f[1] = "intf_name" /\ f[2] = "ip_addr" /\ f[3] = "net_mask_len"
                       /\ f[4] = "gw_ip_addr" /\ f[5] = "ip6_addr" /\ f[6] = "ip6_prefix_len"
                       /\ f[7] = "ipv6_enable" /\ f[8] = "mac_str" /\ f[9] = "mac" /\ f[10] = "fp_port"
  <1>1. CASE ~h.ip6
    BY <1>1 DEF HostifStores
  <1>2. CASE h.ip6
    BY <1>2 DEF HostifStores
  <1> QED
    BY <1>1, <1>2

(* The only stores that spill, by place: what they spill into is stored     *)
(* later in the same section, or in the next one, or never.                 *)
LEMMA SpillsForward ==
    ASSUME NEW h, NEW f, f = HostifStores(h), NEW k \in 1..Len(f), NEW j \in 1..Len(f)
    PROVE  /\ f[k] = "net_mask_len" /\ f[j] = "ip6_addr" => j > k
           /\ f[k] = "ip6_prefix_len" /\ f[j] \in {"ipv6_enable", "mac_str"} => j > k
           /\ f[k] = "fp_port" <=> k = Len(f)
           /\ f[k] \in HostifField
           /\ f[k] = f[j] => k = j
  <1>1. CASE ~h.ip6
    <2>0. \A i \in 1..7 : i \in {1, 2, 3, 4, 5, 6, 7}
      OBVIOUS
    <2>1. Len(f) = 7 /\ k \in {1, 2, 3, 4, 5, 6, 7} /\ j \in {1, 2, 3, 4, 5, 6, 7}
      BY <1>1, <2>0, HostifOrder
    <2>2. /\ f[1] = "intf_name" /\ f[2] = "ip_addr" /\ f[3] = "net_mask_len"
          /\ f[4] = "gw_ip_addr" /\ f[5] = "mac_str" /\ f[6] = "mac" /\ f[7] = "fp_port"
      BY <1>1, HostifOrder
    <2>3. QED
      BY <2>1, <2>2 DEF HostifField
  <1>2. CASE h.ip6
    <2>0. \A i \in 1..10 : i \in {1, 2, 3, 4, 5, 6, 7, 8, 9, 10}
      OBVIOUS
    <2>1. Len(f) = 10 /\ k \in {1, 2, 3, 4, 5, 6, 7, 8, 9, 10} /\ j \in {1, 2, 3, 4, 5, 6, 7, 8, 9, 10}
      BY <1>2, <2>0, HostifOrder
    <2>2. /\ f[1] = "intf_name" /\ f[2] = "ip_addr" /\ f[3] = "net_mask_len"
          /\ f[4] = "gw_ip_addr" /\ f[5] = "ip6_addr" /\ f[6] = "ip6_prefix_len"
          /\ f[7] = "ipv6_enable" /\ f[8] = "mac_str" /\ f[9] = "mac" /\ f[10] = "fp_port"
      BY <1>2, HostifOrder
    <2>3. QED
      BY <2>1, <2>2 DEF HostifField
  <1> QED
    BY <1>1, <1>2

LEMMA CellShape ==
    ASSUME NEW c \in Cell
    PROVE  /\ c = <<c[1], c[2]>>
           /\ \/ c[1] = HostifsSize /\ c[2] \in HigwField
              \/ c[1] \in 0..HostifsSize - 1 /\ c[2] \in HostifField
  BY DEF Cell, Higw

(* The cell that a store of a section fills.                                *)
LEMMA StoreTarget ==
    ASSUME NEW s \in 0..HostifsSize, NEW k, Stores(s)[k] \in IF s = 0 THEN HigwField ELSE HostifField
    PROVE  /\ StoredAt(s, k) \in Cell
           /\ \A c \in Cell : c = StoredAt(s, k) <=> SectionOf(c) = s /\ c[2] = Stores(s)[k]
  <1>0. HostifsSize \in Nat \ {0}
    BY ConfigAssumption DEF File
  <1>1. CASE s = 0
    <2>1. StoredAt(s, k) = <<HostifsSize, Stores(s)[k]>>
      BY <1>1 DEF StoredAt, Higw
    <2>2. \A c \in Cell : SectionOf(c) = 0 <=> c[1] = HostifsSize
      BY <1>0, CellShape DEF SectionOf
    <2>3. StoredAt(s, k) \in Cell
      BY <1>1, <2>1 DEF Cell, Higw
    <2> HIDE DEF Stores, StoredAt
    <2> QED
      BY <1>1, <2>1, <2>2, <2>3, CellShape
  <1>2. CASE s # 0
    <2>1. StoredAt(s, k) = <<s - 1, Stores(s)[k]>>
      BY <1>2 DEF StoredAt
    <2>2. \A c \in Cell : SectionOf(c) = s <=> c[1] = s - 1
      BY <1>0, <1>2, CellShape DEF SectionOf
    <2>3. StoredAt(s, k) \in Cell
      BY <1>0, <1>2, <2>1 DEF Cell
    <2> QED
      BY <1>2, <2>1, <2>2, <2>3, CellShape
  <1> QED
    BY <1>1, <1>2

(* The sections of a file.                                                  *)
LEMMA SectionFields ==
    ASSUME file \in Files, NEW s \in 0..Len(file.hostifs)
    PROVE  /\ Len(Stores(s)) \in Nat \ {0}
           /\ \A k \in 1..Len(Stores(s)) : Stores(s)[k] \in IF s = 0 THEN HigwField ELSE HostifField
           /\ s # 0 => Stores(s) = HostifStores(file.hostifs[s])
  <1>1. CASE s = 0
    <2>1. \A k \in 1..6 : k \in {1, 2, 3, 4, 5, 6}
      OBVIOUS
    <2> QED
      BY <1>1, <2>1, HigwOrder DEF HigwField
  <1>2. CASE s # 0
    <2>1. Stores(s) = HostifStores(file.hostifs[s])
      BY <1>2 DEF Stores
    <2>2. Len(Stores(s)) \in {7, 10}
      BY <2>1, HostifOrder
    <2> DEFINE f == Stores(s)
    <2>3. \A k \in 1..Len(f) : f[k] \in HostifField
      <3>1. f = HostifStores(file.hostifs[s])
        BY <2>1
      <3> HIDE DEF f
      <3> QED
        BY <3>1, SpillsForward
    <2>4. \A n \in {7, 10} : n \in Nat \ {0}
      OBVIOUS
    <2>5. Len(f) \in Nat \ {0}
      BY <2>2, <2>4
    <2> QED
      BY <1>2, <2>1, <2>3, <2>5
  <1> QED
    BY <1>1, <1>2

(* Every field is stored, those of IPv6 where there is an address.          *)
LEMMA HostifFieldsStored ==
    ASSUME NEW h, NEW f, f = HostifStores(h), NEW x \in HostifField
    PROVE  (\E j \in 1..Len(f) : f[j] = x)
           <=> (x \in {"ip6_addr", "ip6_prefix_len", "ipv6_enable"} => h.ip6)
  <1>1. CASE ~h.ip6
    <2>1. \A i \in 1..7 : i \in {1, 2, 3, 4, 5, 6, 7}
      OBVIOUS
    <2>2. {1, 2, 3, 4, 5, 6, 7} \subseteq 1..7
      OBVIOUS
    <2>3. /\ Len(f) = 7
          /\ f[1] = "intf_name" /\ f[2] = "ip_addr" /\ f[3] = "net_mask_len"
          /\ f[4] = "gw_ip_addr" /\ f[5] = "mac_str" /\ f[6] = "mac" /\ f[7] = "fp_port"
      BY <1>1, HostifOrder
    <2> QED
      BY <1>1, <2>1, <2>2, <2>3 DEF HostifField
  <1>2. CASE h.ip6
    <2>1. {1, 2, 3, 4, 5, 6, 7, 8, 9, 10} \subseteq 1..10
      OBVIOUS
    <2>2. /\ Len(f) = 10
          /\ f[1] = "intf_name" /\ f[2] = "ip_addr" /\ f[3] = "net_mask_len"
          /\ f[4] = "gw_ip_addr" /\ f[5] = "ip6_addr" /\ f[6] = "ip6_prefix_len"
          /\ f[7] = "ipv6_enable" /\ f[8] = "mac_str" /\ f[9] = "mac" /\ f[10] = "fp_port"
      BY <1>2, HostifOrder
    <2> QED
      BY <1>2, <2>1, <2>2 DEF HostifField
  <1> QED
    BY <1>1, <1>2

LEMMA FewHostifs ==
    ASSUME file \in Files
    PROVE  Len(file.hostifs) \in Nat \ {0} /\ Len(file.hostifs) <= HostifsSize /\ HostifsSize \in Nat \ {0}
  BY ConfigAssumption DEF File

LEMMA SpillsElsewhere ==
    ASSUME NEW c PROVE c \notin Overrun(c)
  BY DEF Overrun, Higw

(* The cells a store spills into were not stored before it.                 *)
LEMMA SpillsUnstored ==
    ASSUME ParseInv, ~AtEnd, NEW c \in Cell, c \in Overrun(StoredAt(at[1], at[2])), Stored(c)
    PROVE  c = Higw("hostif_num") /\ at[1] = HostifsSize /\ at[2] = Len(Stores(at[1]))
  <1> DEFINE s == at[1]
             k == at[2]
             f == Stores(s)
             n == Len(file.hostifs)
  <1>0. n \in Nat \ {0} /\ n <= HostifsSize /\ HostifsSize \in Nat \ {0}
    BY FewHostifs DEF ParseInv
  <1>1. s \in 0..n /\ k \in 1..Len(f) /\ file \in Files
    BY <1>0 DEF ParseInv, Position, AtEnd
  <1>2. PICK j \in 1..Len(Stores(SectionOf(c))) :
            Stores(SectionOf(c))[j] = c[2] /\ Before(SectionOf(c), j)
    BY DEF Stored
  <1>3. CASE s = 0
    <2>1. StoredAt(s, k) = Higw(f[k]) /\ Higw(f[k])[2] = f[k]
      BY <1>3 DEF StoredAt, Higw
    <2>2. k \in {1, 2, 3, 4, 5, 6}
      <3>1. Len(f) = 6
        BY <1>3, HigwOrder
      <3> HIDE DEF f
      <3> QED
        BY <1>1, <3>1
    <2>3. \/ k = 1 /\ c = Higw("hardware_model")
          \/ k = 2 /\ c = Higw("fec_model")
      BY <1>3, <2>1, <2>2, HigwOrder DEF Overrun
    <2>4. SectionOf(c) = 0 /\ c[2] \in {"hardware_model", "fec_model"}
      BY <2>3 DEF SectionOf, Higw
    <2>5. j \in {1, 2, 3, 4, 5, 6} /\ j < k
      BY <1>2, <1>3, <2>4, HigwOrder DEF Before
    <2> QED
      BY <1>2, <2>2, <2>3, <2>4, <2>5, HigwOrder DEF Higw
  <1>4. CASE s # 0
    <2>1. f = HostifStores(file.hostifs[s]) /\ Len(f) \in Nat \ {0}
      BY <1>1, <1>4, SectionFields
    <2>2. StoredAt(s, k) = <<s - 1, f[k]>>
      BY <1>4 DEF StoredAt
    <2>3. f[k] \in HostifField
      BY <1>1, <1>4, SectionFields
    <2>4. \/ f[k] = "net_mask_len" /\ c = <<s - 1, "ip6_addr">>
          \/ f[k] = "ip6_prefix_len" /\ c \in {<<s - 1, "ipv6_enable">>, <<s - 1, "mac_str">>}
          \/ f[k] = "fp_port" /\ s = HostifsSize /\ c = Higw("hostif_num")
          \/ f[k] = "fp_port" /\ s # HostifsSize /\ c = <<s, "intf_name">>
      BY <1>0, <1>1, <2>2, <2>3 DEF Overrun, HostifField
    <2>5. CASE f[k] = "fp_port" /\ s = HostifsSize /\ c = Higw("hostif_num")
      BY <1>1, <2>1, <2>5, SpillsForward
    <2>6. CASE f[k] = "fp_port" /\ s # HostifsSize /\ c = <<s, "intf_name">>
      <3>1. SectionOf(c) = s + 1
        BY <2>6 DEF SectionOf
      <3> QED
        BY <1>1, <1>2, <3>1 DEF Before
    <2>7. CASE \/ f[k] = "net_mask_len" /\ c = <<s - 1, "ip6_addr">>
               \/ f[k] = "ip6_prefix_len" /\ c \in {<<s - 1, "ipv6_enable">>, <<s - 1, "mac_str">>}
      <3>1. SectionOf(c) = s
        BY <1>0, <1>1, <2>7 DEF SectionOf
      <3>2. j \in 1..Len(f) /\ f[j] = c[2] /\ j < k
        BY <1>1, <1>2, <3>1 DEF Before
      <3>3. \/ f[k] = "net_mask_len" /\ f[j] = "ip6_addr"
            \/ f[k] = "ip6_prefix_len" /\ f[j] \in {"ipv6_enable", "mac_str"}
        BY <2>7, <3>2
      <3>4. j > k
        <4> HIDE DEF f, k
        <4> QED
          BY <1>1, <2>1, <3>2, <3>3, SpillsForward
      <3> QED
        BY <1>1, <2>1, <3>2, <3>4
    <2> QED
      BY <2>4, <2>5, <2>6, <2>7
  <1> QED
    BY <1>3, <1>4

LEMMA ParseInit ==
    ASSUME ConfigInit PROVE ParseInv
  <1>0. Len(file.hostifs) \in Nat \ {0} /\ HostifsSize \in Nat \ {0} /\ file \in Files
    BY FewHostifs DEF ConfigInit
  <1>1. at = <<0, 1>> /\ at \in Nat \X Nat /\ at[1] = 0 /\ at[2] = 1
    BY DEF ConfigInit
  <1>2. Position
    BY <1>0, <1>1, HigwOrder DEF Position
  <1>3. \A c \in Cell : ~Stored(c)
    <2>1. \A c \in Cell : SectionOf(c) \in Nat
      BY <1>0, CellShape DEF SectionOf
    <2>2. \A s \in Nat, k \in Nat \ {0} : ~Before(s, k)
      BY <1>1 DEF Before
    <2>3. \A n : \A k \in 1..n : k \in Nat \ {0}
      OBVIOUS
    <2> QED
      BY <2>1, <2>2, <2>3 DEF Stored
  <1> QED
    BY <1>0, <1>2, <1>3 DEF ParseInv, ConfigInit

(* What one store adds to the cells stored: its own.                        *)
LEMMA StoredNext ==
    ASSUME ParseInv, ParseField, NEW c \in Cell
    PROVE  /\ Position'
           /\ Stored(c)' <=> Stored(c) \/ c = StoredAt(at[1], at[2])
           /\ at'[1] \in Nat
           /\ at'[1] = IF at[2] = Len(Stores(at[1])) THEN at[1] + 1 ELSE at[1]
  <1> DEFINE s == at[1]
             k == at[2]
             m == Len(Stores(s))
             n == Len(file.hostifs)
  <1>0. n \in Nat \ {0} /\ n <= HostifsSize /\ HostifsSize \in Nat \ {0} /\ file \in Files
    BY FewHostifs DEF ParseInv
  <1>1. /\ s \in 0..n /\ s \in Nat /\ k \in 1..m /\ k \in Nat
        /\ at = <<s, k>>
    BY <1>0 DEF ParseInv, Position, AtEnd, ParseField
  <1>2. /\ file' = file
        /\ at' = IF k = m THEN <<s + 1, 1>> ELSE <<s, k + 1>>
    BY DEF ParseField
  <1>3. m \in Nat \ {0}
    BY <1>0, <1>1, SectionFields
  <1>4. \A t : Stores(t)' = Stores(t)
    BY <1>2 DEF Stores
  <1>5. Position'
    <2>1. CASE k = m
      <3>1. at' = <<s + 1, 1>> /\ at'[1] = s + 1 /\ at'[2] = 1
        BY <1>2, <2>1
      <3>2. s + 1 <= n => Len(Stores(s + 1)) \in Nat \ {0}
        BY <1>0, <1>1, SectionFields
      <3> QED
        BY <1>0, <1>1, <1>2, <1>4, <3>1, <3>2 DEF Position, AtEnd
    <2>2. CASE k # m
      <3>1. at' = <<s, k + 1>> /\ at'[1] = s /\ at'[2] = k + 1 /\ k + 1 \in 1..m
        BY <1>1, <1>2, <1>3, <2>2
      <3> QED
        BY <1>0, <1>1, <1>2, <1>4, <3>1 DEF Position, AtEnd
    <2> QED
      BY <2>1, <2>2
  <1>6. \A t \in Nat : \A j \in 1..Len(Stores(t)) : Before(t, j)' <=> Before(t, j) \/ (t = s /\ j = k)
    <2> SUFFICES ASSUME NEW t \in Nat, NEW j \in 1..Len(Stores(t))
                 PROVE  Before(t, j)' <=> Before(t, j) \/ (t = s /\ j = k)
      OBVIOUS
    <2>1. CASE k = m
      <3>1. at'[1] = s + 1 /\ at'[2] = 1
        BY <1>2, <2>1
      <3>2. t = s => j <= k
        BY <1>1, <1>3, <2>1
      <3> QED
        BY <1>1, <3>1, <3>2 DEF Before
    <2>2. CASE k # m
      <3>1. at'[1] = s /\ at'[2] = k + 1
        BY <1>2, <2>2
      <3> QED
        BY <1>1, <3>1 DEF Before
    <2> QED
      BY <2>1, <2>2
  <1>7. SectionOf(c) \in Nat
    BY <1>0, CellShape DEF SectionOf
  <1>8. c = StoredAt(s, k) <=> SectionOf(c) = s /\ c[2] = Stores(s)[k]
    BY <1>0, <1>1, SectionFields, StoreTarget
  <1>9. Stored(c)' <=> /\ SectionOf(c) <= n
                       /\ \E j \in 1..Len(Stores(SectionOf(c))) :
                             Stores(SectionOf(c))[j] = c[2] /\ Before(SectionOf(c), j)'
    BY <1>2, <1>4 DEF Stored
  <1>10. Stored(c)' <=> Stored(c) \/ c = StoredAt(s, k)
    <2>1. Stored(c) => Stored(c)'
      BY <1>6, <1>7, <1>9 DEF Stored
    <2>2. c = StoredAt(s, k) => Stored(c)'
      BY <1>1, <1>6, <1>7, <1>8, <1>9
    <2>3. Stored(c)' => Stored(c) \/ c = StoredAt(s, k)
      <3> SUFFICES ASSUME Stored(c)' PROVE Stored(c) \/ c = StoredAt(s, k)
        OBVIOUS
      <3>1. SectionOf(c) <= n
        BY <1>9
      <3>2. PICK j \in 1..Len(Stores(SectionOf(c))) :
                Stores(SectionOf(c))[j] = c[2] /\ Before(SectionOf(c), j)'
        BY <1>9
      <3>3. CASE Before(SectionOf(c), j)
        BY <3>1, <3>2, <3>3 DEF Stored
      <3>4. CASE SectionOf(c) = s /\ j = k
        BY <1>8, <3>2, <3>4
      <3> QED
        BY <1>6, <1>7, <3>2, <3>3, <3>4
    <2> QED
      BY <2>1, <2>2, <2>3
  <1>11. /\ at'[1] \in Nat
         /\ at'[1] = IF k = m THEN s + 1 ELSE s
    BY <1>1, <1>2
  <1> QED
    BY <1>5, <1>10, <1>11

LEMMA ParseFieldKeeps ==
    ASSUME ParseInv, ParseField
    PROVE  ParseInv'
  <1> DEFINE s == at[1]
             k == at[2]
             t == StoredAt(s, k)
             n == Len(file.hostifs)
  <1>0. n \in Nat \ {0} /\ n <= HostifsSize /\ HostifsSize \in Nat \ {0} /\ file \in Files
    BY FewHostifs DEF ParseInv
  <1>1. s \in 0..n /\ k \in 1..Len(Stores(s)) /\ ~AtEnd
    BY <1>0 DEF ParseInv, Position, AtEnd, ParseField
  <1>2. t \in Cell /\ SectionOf(t) = s
    BY <1>0, <1>1, SectionFields, StoreTarget
  <1>3. cfg' = [c \in Cell |-> CASE c = t            -> "file"
                                 [] c \in Overrun(t) -> "zero"
                                 [] OTHER            -> cfg[c]]
    BY DEF ParseField
  <1>4. cfg = [c \in Cell |-> IF Stored(c) /\ ~Wiped(c) THEN "file" ELSE "zero"]
    BY DEF ParseInv
  <1>5. ASSUME NEW c \in Cell
        PROVE  cfg'[c] = IF Stored(c)' /\ ~Wiped(c)' THEN "file" ELSE "zero"
    <2>1. Stored(c)' <=> Stored(c) \/ c = t
      BY <1>5, StoredNext
    <2>2. at'[1] = IF k = Len(Stores(s)) THEN s + 1 ELSE s
      BY <1>5, StoredNext
    <2>3. CASE c = t
      <3>1. cfg'[c] = "file"
        BY <1>3, <1>5, <2>3, SpillsElsewhere
      <3>2. c = Higw("hostif_num") => s = 0
        BY <1>2, <2>3 DEF SectionOf, Higw
      <3>3. ~Wiped(c)'
        BY <1>0, <2>2, <3>2 DEF Wiped
      <3> QED
        BY <2>1, <2>3, <3>1, <3>3
    <2>4. CASE c # t /\ c \in Overrun(t)
      <3>1. cfg'[c] = "zero"
        BY <1>3, <1>5, <2>4
      <3>2. Stored(c) => Wiped(c)'
        <4>1. Stored(c) => c = Higw("hostif_num") /\ s = HostifsSize /\ k = Len(Stores(s))
          BY <1>1, <1>5, <2>4, SpillsUnstored
        <4> QED
          BY <1>0, <2>2, <4>1 DEF Wiped
      <3> QED
        BY <2>1, <2>4, <3>1, <3>2
    <2>5. CASE c # t /\ c \notin Overrun(t)
      <3>1. cfg'[c] = IF Stored(c) /\ ~Wiped(c) THEN "file" ELSE "zero"
        BY <1>3, <1>4, <1>5, <2>5
      <3>2. Wiped(c)' => Wiped(c)
        <4> SUFFICES ASSUME c = Higw("hostif_num"), at'[1] > HostifsSize PROVE s > HostifsSize
          BY DEF Wiped
        <4>1. CASE s = HostifsSize /\ k = Len(Stores(s))
          <5>1. Stores(s)[k] = "fp_port"
            <6>1. s # 0 /\ Stores(s) = HostifStores(file.hostifs[s])
              BY <1>0, <1>1, <4>1, SectionFields
            <6> QED
              BY <1>1, <4>1, <6>1, SpillsForward
          <5>2. t = <<HostifsSize - 1, "fp_port">>
            BY <1>0, <4>1, <5>1 DEF StoredAt
          <5>3. Overrun(t) = {Higw("hostif_num")}
            BY <1>0, <5>2 DEF Overrun
          <5> QED
            BY <2>5, <5>3
        <4> QED
          BY <1>0, <1>1, <2>2, <4>1
      <3>3. Wiped(c) => Wiped(c)'
        BY <1>0, <1>1, <2>2 DEF Wiped
      <3> QED
        BY <2>1, <2>5, <3>1, <3>2, <3>3
    <2> QED
      BY <2>3, <2>4, <2>5
  <1>6. cfg' = [c \in Cell |-> IF Stored(c)' /\ ~Wiped(c)' THEN "file" ELSE "zero"]
    <2>1. cfg' = [c \in Cell |-> cfg'[c]]
      BY <1>3
    <2> QED
      BY <1>5, <2>1
  <1>7. Position'
    BY <1>2, StoredNext
  <1> QED
    BY <1>0, <1>6, <1>7 DEF ParseInv, ParseField

LEMMA ParseKeeps ==
    ASSUME ParseInv, ParseStep \/ UNCHANGED configVars
    PROVE  ParseInv'
  <1>1. ASSUME UNCHANGED <<file, cfg, at>>, parse' = "done" => parse = "done" \/ AtEnd
        PROVE  ParseInv'
    <2>1. \A c : Stored(c)' <=> Stored(c)
      BY <1>1 DEF Stored, SectionOf, Stores, Before
    <2>2. \A c : Wiped(c)' <=> Wiped(c)
      BY <1>1 DEF Wiped
    <2>3. cfg' = [c \in Cell |-> IF Stored(c)' /\ ~Wiped(c)' THEN "file" ELSE "zero"]
      BY <1>1, <2>1, <2>2 DEF ParseInv
    <2> QED
      BY <1>1, <2>3 DEF ParseInv, Position, AtEnd, Stores
  <1>2. CASE ParseEnds
    BY <1>1, <1>2 DEF ParseEnds
  <1>3. CASE UNCHANGED configVars
    BY <1>1, <1>3 DEF configVars
  <1> QED
    BY <1>2, <1>3, ParseFieldKeeps DEF ParseStep

(* Behind the last hostif the cells stored are those the file has.          *)
LEMMA ParseComplete ==
    ASSUME ParseInv PROVE ParsedAsWritten
  <1> SUFFICES ASSUME parse = "done"
               PROVE  cfg = [c \in Cell |-> IF InFile(c) /\ ~Lost(c) THEN "file" ELSE "zero"]
    BY DEF ParsedAsWritten
  <1> DEFINE n == Len(file.hostifs)
  <1>0. n \in Nat \ {0} /\ n <= HostifsSize /\ HostifsSize \in Nat \ {0} /\ file \in Files
    BY FewHostifs DEF ParseInv
  <1>1. at[1] = n + 1
    BY <1>0 DEF ParseInv, Position, AtEnd
  <1>2. ASSUME NEW c \in Cell
        PROVE  (Stored(c) /\ ~Wiped(c)) <=> (InFile(c) /\ ~Lost(c))
    <2>1. Wiped(c) <=> Lost(c)
      BY <1>0, <1>1 DEF Wiped, Lost
    <2>2. SectionOf(c) <= n => \A j : Before(SectionOf(c), j)
      <3>1. SectionOf(c) \in Nat
        BY <1>0, <1>2, CellShape DEF SectionOf
      <3> QED
        BY <1>0, <1>1, <3>1 DEF Before
    <2>3. Stored(c) <=> InFile(c)
      <3>1. CASE c[1] = HostifsSize
        <4>1. SectionOf(c) = 0 /\ c[2] \in HigwField /\ InFile(c)
          BY <1>0, <1>2, <3>1, CellShape DEF SectionOf, InFile
        <4>2. \E j \in 1..6 : Stores(0)[j] = c[2]
          BY <4>1, HigwOrder DEF HigwField
        <4> QED
          BY <1>0, <2>2, <4>1, <4>2, HigwOrder DEF Stored
      <3>2. CASE c[1] # HostifsSize
        <4>1. c[1] \in 0..HostifsSize - 1 /\ c[2] \in HostifField /\ SectionOf(c) = c[1] + 1
          BY <1>0, <1>2, <3>2, CellShape DEF SectionOf
        <4>2. CASE c[1] >= n
          BY <1>0, <3>2, <4>1, <4>2 DEF Stored, InFile
        <4>3. CASE c[1] < n
          <5> DEFINE h == file.hostifs[c[1] + 1]
                     f == HostifStores(h)
          <5>1. Stores(c[1] + 1) = f
            BY <1>0, <4>1, <4>3, SectionFields
          <5>2. Stored(c) <=> \E j \in 1..Len(f) : f[j] = c[2]
            BY <1>0, <2>2, <4>1, <4>3, <5>1 DEF Stored
          <5>3. InFile(c) <=> (c[2] \in {"ip6_addr", "ip6_prefix_len", "ipv6_enable"} => h.ip6)
            BY <3>2, <4>3 DEF InFile
          <5>4. (\E j \in 1..Len(f) : f[j] = c[2])
                <=> (c[2] \in {"ip6_addr", "ip6_prefix_len", "ipv6_enable"} => h.ip6)
            BY <4>1, HostifFieldsStored
          <5> QED
            BY <5>2, <5>3, <5>4
        <4> QED
          BY <1>0, <4>1, <4>2, <4>3
      <3> QED
        BY <3>1, <3>2
    <2> QED
      BY <2>1, <2>3
  <1> QED
    BY <1>2 DEF ParseInv

(* Only the main thread's second step parses.                               *)
LEMMA OnlyReadConfigParses ==
    ASSUME [Next]_vars PROVE ParseStep \/ UNCHANGED configVars
  <1>1. CASE MainThread
    BY <1>1 DEF MainThread, CheckLock, ReadConfig, AddPorts, CreateHostifs, FillDl, FillTables,
                SwitchlinkInit, SemWait, PlainStep
  <1>2. CASE \E p \in Ports : LinkChange(p) \/ PortStateChange(p)
    BY <1>2 DEF LinkChange, PortStateChange
  <1>3. CASE ThreadStarts \/ OpenSocket \/ HandleMessage \/ UNCHANGED vars
    BY <1>3 DEF ThreadStarts, OpenSocket, HandleMessage, vars
  <1> QED
    BY <1>1, <1>2, <1>3 DEF Next

(* Whatever hostifs a file names, with or without IPv6: once it is accepted *)
(* every cell holds what it says, although ints overrun their fields; only  *)
(* HOSTIFS_SIZE hostifs lose their number (switch_config.c:67-165,          *)
(* switch_config.h:22-53).                                                  *)
THEOREM ParsedAsWrittenCorrect == Spec => []ParsedAsWritten
  <1>1. Init => ParseInv
    BY ParseInit DEF Init
  <1>2. ParseInv /\ [Next]_vars => ParseInv'
    BY OnlyReadConfigParses, ParseKeeps
  <1>3. ParseInv => ParsedAsWritten
    BY ParseComplete
  <1> QED
    BY <1>1, <1>2, <1>3, PTL DEF Spec

-----------------------------------------------------------------------------
(* The file as the program has it is one of those the tables are judged for.*)
LEMMA LoadedLoadable ==
    ASSUME file \in Files
    PROVE  Loaded \in Loadable
  BY DEF Loaded, Loadable

(* process_protocol_packet never has more entries than the file asks for.   *)
LocalInv ==
    /\ StartInv
    /\ file \in Files
    /\ written["packets"] \in 0..Len(LocalWrites(Loaded))

LEMMA EmptyWithin ==
    ASSUME file \in Files
    PROVE  0 \in 0..Len(LocalWrites(Loaded))
  <1>1. PICK w : w = LocalWrites(Loaded)
    OBVIOUS
  <1>2. Len(w) \in Nat
    BY <1>1, LoadedLoadable, LocalElements
  <1> QED
    BY <1>1, <1>2

LEMMA LocalInit ==
    ASSUME Init
    PROVE  LocalInv
  <1>1. file \in Files /\ written["packets"] = 0
    BY DEF Init, ConfigInit, FillInit, FillStep
  <1> QED
    BY <1>1, InitStart, EmptyWithin DEF LocalInv

(* Only FillTables writes entries; only ReadConfig changes the struct, and  *)
(* it runs before any entry is written.                                     *)
LEMMA OnlyFillTablesWrites ==
    ASSUME [Next]_vars
    PROVE  /\ UNCHANGED written \/ (FillTables /\ UNCHANGED cfg)
           /\ UNCHANGED cfg \/ ReadConfig
  <1>1. CASE ReadConfig
    BY <1>1 DEF ReadConfig
  <1>2. CASE FillTables
    BY <1>2 DEF FillTables, configVars
  <1>3. CASE CheckLock \/ AddPorts \/ CreateHostifs \/ FillDl \/ SwitchlinkInit \/ SemWait \/ PlainStep
    BY <1>3 DEF CheckLock, AddPorts, CreateHostifs, FillDl, SwitchlinkInit, SemWait, PlainStep, configVars
  <1>4. CASE \E p \in Ports : LinkChange(p) \/ PortStateChange(p)
    BY <1>4 DEF LinkChange, PortStateChange, configVars
  <1>5. CASE ThreadStarts \/ OpenSocket \/ HandleMessage
    BY <1>5 DEF ThreadStarts, OpenSocket, HandleMessage, configVars
  <1>6. CASE UNCHANGED vars
    BY <1>6 DEF vars, configVars
  <1> QED
    BY <1>1, <1>2, <1>3, <1>4, <1>5, <1>6 DEF Next, MainThread

LEMMA LocalStep ==
    ASSUME LocalInv, [Next]_vars
    PROVE  LocalInv'
  <1>1. StartInv' /\ file' = file /\ file \in Files
    BY StepStart, OnlyFillDlFills DEF LocalInv
  <1>2. CASE UNCHANGED <<cfg, written>>
    BY <1>1, <1>2 DEF LocalInv, Loaded
  <1>3. CASE ReadConfig /\ UNCHANGED written
    <2>1. written["packets"] = 0
      <3>1. main \in Nat
        BY Positions DEF LocalInv, StartInv, StartupTypeOK
      <3>2. main = 2
        BY <1>3, <3>1, Positions DEF ReadConfig
      <3> QED
        BY <3>2 DEF LocalInv, StartInv, FilledInOrder
    <2>2. 0 \in 0..Len(LocalWrites(Loaded'))
      BY <1>1, EmptyWithin DEF Loaded
    <2> QED
      BY <1>1, <1>3, <2>1, <2>2 DEF LocalInv
  <1>4. CASE FillTables /\ UNCHANGED cfg
    <2>1. Loaded' = Loaded
      BY <1>1, <1>4 DEF Loaded
    <2>2. written'["packets"] \in 0..Len(LocalWrites(Loaded))
      <3>1. PICK step \in FillStep : WriteEntry(step) \/ WriteFails(step)
        BY <1>4 DEF FillTables
      <3>2. CASE written'["packets"] = written["packets"]
        BY <3>2 DEF LocalInv
      <3>3. CASE WriteEntry("packets")
        <4>1. PICK w : w = LocalWrites(Loaded)
          OBVIOUS
        <4>2. Len(w) \in Nat
          BY <1>1, <4>1, LoadedLoadable, LocalElements
        <4>3. <<"packets", Loaded, written["packets"]>> \in ToCome
          BY <3>3 DEF WriteEntry, Reached
        <4>4. written["packets"] \in 0..Len(w) - 1
          BY <4>1, <4>3 DEF ToCome, Writes
        <4>5. written'["packets"] = written["packets"] + 1
          BY <3>3 DEF WriteEntry, LocalInv, StartInv, StartupTypeOK, FillStep
        <4> QED
          BY <4>1, <4>2, <4>4, <4>5
      <3>4. written \in [FillStep -> Nat] /\ "packets" \in FillStep
        BY DEF LocalInv, StartInv, StartupTypeOK, FillStep
      <3>5. CASE WriteEntry(step) /\ step # "packets"
        BY <3>2, <3>4, <3>5 DEF WriteEntry
      <3>6. CASE WriteFails(step)
        BY <3>2, <3>6 DEF WriteFails
      <3> QED
        BY <3>1, <3>3, <3>5, <3>6
    <2> QED
      BY <1>1, <2>1, <2>2 DEF LocalInv
  <1> QED
    BY <1>2, <1>3, <1>4, OnlyFillTablesWrites

(* However many hostifs the file names, with IPv6 or without, and however   *)
(* much of process_protocol_packet is written: no frame of the CPU comes    *)
(* back to it (switch_packet_table.c:25-93, 402-412).                       *)
THEOREM NothingReturnsToCpuCorrect == Spec => []NothingReturnsToCpu
  <1>1. ASSUME LocalInv PROVE NothingReturnsToCpu
    <2>1. PICK f, n : f = Loaded /\ n = written["packets"]
      OBVIOUS
    <2>2. f \in Loadable /\ n \in 0..Len(LocalWrites(f))
      BY <1>1, <2>1, LoadedLoadable DEF LocalInv
    <2>3. SendsAway(f, n)
      BY <2>2, AlwaysSendsAway
    <2> QED
      BY <2>1, <2>2, <2>3 DEF NothingReturnsToCpu, SentAway, Filled
  <1> QED
    BY <1>1, LocalInit, LocalStep, PTL DEF Spec

(* However many hostifs the file names: the kernel gets no packet of a      *)
(* tenant while process_protocol_packet is written, and gets every frame    *)
(* meant for it, once, when it is full (switch_packet_table.c:120-346).     *)
THEOREM LocalFramesReachKernelCorrect == Spec => []LocalFramesReachKernel
  <1>1. ASSUME LocalInv PROVE LocalFramesReachKernel
    <2>1. PICK f, n : f = Loaded /\ n = written["packets"]
      OBVIOUS
    <2>2. f \in Loadable /\ n \in 0..Len(LocalWrites(f))
      BY <1>1, <2>1, LoadedLoadable DEF LocalInv
    <2>3. KeepsOutOfKernel(f, n) /\ ServesKernel(f)
      BY <2>2, AlwaysKeepsOut, FullServes
    <2> QED
      BY <2>1, <2>2, <2>3 DEF LocalFramesReachKernel, KeptOut, Filled, Served
  <1> QED
    BY <1>1, LocalInit, LocalStep, PTL DEF Spec

(* The second entry for a backup_vip that is the vip itself is refused, so  *)
(* no more than the first one is written.                                   *)
DecideInv ==
    /\ StartInv
    /\ file \in Files
    /\ file.backup = "vip" => written["tables"] \in 0..1

LEMMA DecideInit ==
    ASSUME Init
    PROVE  DecideInv
  <1>1. file \in Files /\ written["tables"] = 0
    BY DEF Init, ConfigInit, FillInit, FillStep
  <1> QED
    BY <1>1, InitStart DEF DecideInv

(* The program has the file's backup_vip as the file has it.                *)
LEMMA LoadedBackup ==
    ASSUME file \in Files
    PROVE  Loaded \in Loadable /\ Loaded.backup = file.backup
  <1>1. file \in File
    BY ConfigAssumption
  <1> QED
    BY <1>1, LoadedLoadable DEF Loaded, WithoutHostifs, File

LEMMA DecideStep ==
    ASSUME DecideInv, [Next]_vars
    PROVE  DecideInv'
  <1>1. StartInv' /\ file' = file /\ file \in Files
    BY StepStart, OnlyFillDlFills DEF DecideInv
  <1>2. CASE UNCHANGED written
    BY <1>1, <1>2 DEF DecideInv
  <1>3. CASE FillTables
    <2>1. SUFFICES ASSUME file.backup = "vip" PROVE written'["tables"] \in 0..1
      BY <1>1 DEF DecideInv
    <2>2. written \in [FillStep -> Nat] /\ "tables" \in FillStep /\ written["tables"] \in 0..1
      BY <2>1 DEF DecideInv, StartInv, StartupTypeOK, FillStep
    <2>3. PICK step \in FillStep : WriteEntry(step) \/ WriteFails(step)
      BY <1>3 DEF FillTables
    <2>4. CASE WriteEntry("tables")
      <3>1. <<"tables", Loaded, written["tables"]>> \notin ToFail
        BY <2>4 DEF WriteEntry, Reached
      <3>2. written["tables"] # 1
        BY <1>1, <2>1, <3>1, LoadedBackup, SameVipRefused
      <3>3. written'["tables"] = written["tables"] + 1
        BY <2>2, <2>4 DEF WriteEntry
      <3> QED
        BY <2>2, <3>2, <3>3
    <2>5. CASE WriteEntry(step) /\ step # "tables"
      BY <2>2, <2>5 DEF WriteEntry
    <2>6. CASE WriteFails(step)
      BY <2>2, <2>6 DEF WriteFails
    <2> QED
      BY <2>3, <2>4, <2>5, <2>6
  <1> QED
    BY <1>2, <1>3, OnlyFillTablesWrites

(* For any eips and any file: once every table is full, each decides about  *)
(* every packet as IgwTables says; with a backup_vip equal to the vip they  *)
(* never get full (switch_igw_ip_type_table.c:35-600,                       *)
(* switch_eip_in_jd_vxlan_table.c:28, switch_acl_table_init.c:25,           *)
(* switch_ecmp_group2.c:163-198).                                           *)
THEOREM TablesDecideCorrect == Spec => []TablesDecide
  <1>1. ASSUME DecideInv PROVE TablesDecide
    <2>1. file.backup \in {"none", "other", "vip"}
      <3>1. Loaded \in Loadable /\ Loaded.backup = file.backup
        BY <1>1, LoadedBackup DEF DecideInv
      <3> QED
        BY <3>1, LoadableFiles
    <2>2. ASSUME file.backup = "vip" PROVE ~Full("tables")
      <3>1. written["tables"] \in {0, 1}
        BY <1>1, <2>2 DEF DecideInv
      <3>2. <<"tables", Loaded, 0>> \in ToCome /\ <<"tables", Loaded, 1>> \in ToCome
        BY <1>1, <2>2, LoadedBackup, SameVipRefused DEF DecideInv
      <3> QED
        BY <3>1, <3>2 DEF Full, Reached
    <2> QED
      BY <2>1, <2>2, AllDecide DEF TablesDecide, FillStep
  <1> QED
    BY <1>1, DecideInit, DecideStep, PTL DEF Spec
=============================================================================
