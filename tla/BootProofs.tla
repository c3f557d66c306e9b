----------------------------- MODULE BootProofs -----------------------------
(***************************************************************************)
(* Proofs about Boot and the SdCard it extends, for every set of files and *)
(* however often the card is moved.                                        *)
(***************************************************************************)
EXTENDS Boot, TLAPS

Whole == { {"dev", "pm", "fs"}, {"dev", "pm", "part", "fs"} }

(* What is open in each state of the task: between a sample that differs   *)
(* and the end of what it leads to, "last" is ahead of "open".  There is no*)
(* task before mfs_mount_filesystem is called.                             *)
OpenAsFar ==
    /\ mount = "call" => sd = "none"
    /\ sd \in {"none", "start"} => ~last
    /\ sd \in {"none", "start", "wait", "sample"} => open \in IF last THEN Whole ELSE { {} }
    /\ sd = "debounce" => open \in IF last THEN { {} } ELSE Whole
    /\ sd = "open" => last /\ open = {}
    /\ sd = "partition" => last /\ open = {"dev", "pm"}
    /\ sd = "install" => last /\ open \in { {"dev", "pm"}, {"dev", "pm", "part"} }
    /\ sd = "remove" => ~last /\ open \in Whole

(* Nothing is posted for a card before the task waits for one, and an      *)
(* interrupt is counted once.                                              *)
DetectCounted ==
    /\ sd \in {"none", "start"} => detect = 0 /\ ~irq
    /\ detect <= 1 + moves + bounces
    /\ irq => detect <= moves + bounces

(* A card is mounted again only after it was seen pulled, which takes a    *)
(* move to pull it and one to put it in.                                   *)
Mounting == last /\ sd \in {"debounce", "open", "partition", "install"}

MountsCounted ==
    /\ lwsem_mfs <= moves + 1
    /\ ~(last /\ card) => lwsem_mfs <= moves
    /\ Mounting => lwsem_mfs <= moves
    /\ Mounting /\ ~card => lwsem_mfs + 1 <= moves

SdInv == TypeOK /\ OpenAsFar /\ DetectCounted /\ MountsCounted

LEMMA SdInitial == SdInit => SdInv
<1> SUFFICES ASSUME SdInit PROVE SdInv
  OBVIOUS
<1>1. irq \in BOOLEAN /\ last \in BOOLEAN
  BY DEF SdInit
<1>2. TypeOK
  BY <1>1, CardAssumption DEF SdInit, TypeOK, Stacks
<1>3. ~last /\ ~irq
  BY DEF SdInit
<1>4. OpenAsFar
  BY <1>3 DEF SdInit, OpenAsFar
<1>5. DetectCounted /\ MountsCounted
  BY <1>3 DEF SdInit, DetectCounted, MountsCounted, Mounting
<1> QED
  BY <1>2, <1>4, <1>5 DEF SdInv

LEMMA SdTyped ==
    ASSUME SdInv, SdNext PROVE TypeOK'
<1> USE DEF SdInv, TypeOK
<1>1. CASE MountStep
  BY <1>1, CardAssumption DEF MountStep, MountCall, MountReturns, cardVars
<1>2. CASE TaskStart \/ TaskWait \/ TaskSample \/ TaskDebounce
  BY <1>2, CardAssumption 
     DEF TaskStart, TaskWait, TaskSample, TaskDebounce, BlockedWith, Failing, Fault, cardVars
<1>3. CASE TaskOpen
  BY <1>3, CardAssumption DEF TaskOpen, BlockedWith, Failing, Fault, cardVars, OpenAsFar, Stacks
<1>4. CASE TaskPartition
  BY <1>4, CardAssumption DEF TaskPartition, BlockedWith, Failing, Fault, cardVars, OpenAsFar, Stacks
<1>5. CASE TaskInstall
  <2>1. lwsem_mfs' \in 0 .. Moves + 1
    BY <1>5, CardAssumption DEF TaskInstall, cardVars, OpenAsFar, MountsCounted, Mounting
  <2>2. open' \in Stacks
    BY <1>5, CardAssumption DEF TaskInstall, BlockedWith, Failing, Fault, cardVars, OpenAsFar, Stacks
  <2>3. UNCHANGED <<cardVars, mount, detect, last>> /\ sd' \in {"wait", "blocked"}
    BY <1>5 DEF TaskInstall, BlockedWith
  <2>4. faults' \in 0..Faults
    BY <1>5, CardAssumption DEF TaskInstall, Failing, Fault
  <2> QED
    BY <2>1, <2>2, <2>3, <2>4 DEF cardVars
<1>6. CASE TaskRemove
  BY <1>6, CardAssumption DEF TaskRemove, cardVars, Stacks
<1>7. CASE DetectIsr
  <2>1. irq' \in BOOLEAN
    BY <1>7 DEF DetectIsr
  <2>2. detect' \in 0 .. 1 + Moves + Bounces
    BY <1>7, CardAssumption DEF DetectIsr, DetectCounted
  <2> QED
    BY <1>7, <2>1, <2>2 DEF DetectIsr
<1>8. CASE Move \/ Bounce
  <2>1. irq' \in BOOLEAN /\ card' \in BOOLEAN
    BY <1>8 DEF Move, Bounce, EitherEdge
  <2>2. moves' \in 0..Moves /\ bounces' \in 0..Bounces
    BY <1>8, CardAssumption DEF Move, Bounce
  <2> QED
    BY <1>8, <2>1, <2>2 DEF Move, Bounce, taskVars
<1> QED
  BY <1>1, <1>2, <1>3, <1>4, <1>5, <1>6, <1>7, <1>8 DEF SdNext, SdStep

LEMMA SdOpen ==
    ASSUME SdInv, SdNext PROVE OpenAsFar'
<1> USE DEF SdInv, TypeOK, OpenAsFar, Whole
<1>1. CASE MountStep
  BY <1>1, CardAssumption DEF MountStep, MountCall, MountReturns, cardVars
<1>2. CASE TaskStart \/ TaskWait \/ TaskSample \/ TaskDebounce
  BY <1>2, CardAssumption 
     DEF TaskStart, TaskWait, TaskSample, TaskDebounce, BlockedWith, Failing, Fault, cardVars
<1>3. CASE TaskOpen
  BY <1>3, CardAssumption DEF TaskOpen, BlockedWith, Failing, Fault, cardVars
<1>4. CASE TaskPartition
  BY <1>4, CardAssumption DEF TaskPartition, BlockedWith, Failing, Fault, cardVars
<1>5. CASE TaskInstall
  BY <1>5, CardAssumption DEF TaskInstall, BlockedWith, Failing, Fault, cardVars
<1>6. CASE TaskRemove
  BY <1>6, CardAssumption DEF TaskRemove, cardVars
<1>7. CASE DetectIsr
  BY <1>7, CardAssumption DEF DetectIsr
<1>8. CASE Move \/ Bounce
  BY <1>8, CardAssumption DEF Move, Bounce, taskVars
<1> QED
  BY <1>1, <1>2, <1>3, <1>4, <1>5, <1>6, <1>7, <1>8 DEF SdNext, SdStep

LEMMA SdDetect ==
    ASSUME SdInv, SdNext PROVE DetectCounted'
<1> USE DEF SdInv, TypeOK, DetectCounted, OpenAsFar
<1>1. CASE MountStep
  BY <1>1, CardAssumption DEF MountStep, MountCall, MountReturns, cardVars
<1>2. CASE SdStep
  BY <1>2, CardAssumption DEF SdStep, TaskStart, TaskWait, TaskSample, TaskDebounce, TaskOpen, TaskPartition,
              TaskInstall, TaskRemove, BlockedWith, Failing, Fault, cardVars
<1>3. CASE DetectIsr
  BY <1>3, CardAssumption DEF DetectIsr
<1>4. CASE Move \/ Bounce
  BY <1>4, CardAssumption DEF Move, Bounce, EitherEdge, taskVars
<1> QED
  BY <1>1, <1>2, <1>3, <1>4 DEF SdNext

LEMMA SdMounts ==
    ASSUME SdInv, SdNext PROVE MountsCounted'
<1> USE DEF SdInv, TypeOK, MountsCounted, Mounting, OpenAsFar
<1>1. CASE MountStep
  BY <1>1, CardAssumption DEF MountStep, MountCall, MountReturns, cardVars
<1>2. CASE TaskStart \/ TaskWait \/ TaskSample \/ TaskDebounce
  BY <1>2, CardAssumption 
     DEF TaskStart, TaskWait, TaskSample, TaskDebounce, BlockedWith, Failing, Fault, cardVars
<1>3. CASE TaskOpen \/ TaskPartition
  BY <1>3, CardAssumption DEF TaskOpen, TaskPartition, BlockedWith, Failing, Fault, cardVars, OpenAsFar
<1>4. CASE TaskInstall
  BY <1>4, CardAssumption DEF TaskInstall, BlockedWith, Failing, Fault, cardVars, OpenAsFar
<1>5. CASE TaskRemove
  BY <1>5, CardAssumption DEF TaskRemove, cardVars
<1>6. CASE DetectIsr
  BY <1>6, CardAssumption DEF DetectIsr
<1>7. CASE Move
  BY <1>7, CardAssumption DEF Move, taskVars
<1>8. CASE Bounce
  BY <1>8, CardAssumption DEF Bounce, taskVars
<1> QED
  BY <1>1, <1>2, <1>3, <1>4, <1>5, <1>6, <1>7, <1>8 DEF SdNext, SdStep

LEMMA SdInductive == SdInv /\ [SdNext]_sdVars => SdInv'
<1>1. CASE SdNext
  BY <1>1, SdTyped, SdOpen, SdDetect, SdMounts DEF SdInv
<1>2. CASE UNCHANGED sdVars
  BY <1>2, CardAssumption DEF SdInv, TypeOK, OpenAsFar, DetectCounted, MountsCounted, Mounting,
              sdVars, cardVars, taskVars
<1> QED
  BY <1>1, <1>2

(* The task waits for a card with the last one mounted whole, or nothing   *)
(* left of it.                                                             *)
LEMMA SdWhole == SdInv => WholeOrNothing
  BY DEF SdInv, OpenAsFar, WholeOrNothing, Whole

(* Only a card that was pulled, or one more call that fails for a reason of*)
(* its own, blocks the task: a device is never opened a second time.       *)
LEMMA SdBlocked ==
    ASSUME SdInv, SdNext, sd # "blocked", sd' = "blocked" PROVE (last /\ ~card) \/ faults' # faults
<1> USE DEF SdInv, TypeOK, OpenAsFar, Failing, Fault
<1>1. ASSUME faults' = faults + 1 PROVE faults' # faults
  BY <1>1, CardAssumption
<1>2. CASE TaskStart \/ TaskWait
  BY <1>1, <1>2 DEF TaskStart, TaskWait
<1>3. CASE TaskOpen
  BY <1>1, <1>3 DEF TaskOpen
<1>4. CASE TaskPartition
  BY <1>1, <1>4 DEF TaskPartition
<1>5. CASE TaskInstall
  BY <1>1, <1>5 DEF TaskInstall
<1> QED
  BY <1>2, <1>3, <1>4, <1>5
     DEF SdNext, SdStep, MountStep, MountCall, MountReturns, TaskSample,
         TaskDebounce, TaskRemove, DetectIsr, Move, Bounce, cardVars, taskVars
-----------------------------------------------------------------------------
(* The semaphore is posted once, when what the tasks share is there, and   *)
(* who has taken it knows that.                                            *)
BootTyped ==
    /\ ini \in IniFiles /\ line \in 0..Len(ini)
    /\ main \in {"mount", "network", "open", "parse", "start", "wait", "master", "up", "blocked"}
    /\ DOMAIN conf = DOMAIN NoConf
    /\ lwsem \in 0..1 /\ shared \in BOOLEAN
    /\ slave \in {"none", "start", "create", "post", "listen", "serve", "blocked"}
    /\ master \in {"none", "start", "connect", "open", "lines", "queue", "poll", "blocked"}
    /\ blocks \in 0..Blocks
    /\ reachable \in BOOLEAN /\ failures \in 0..Failures

Ordered ==
    /\ main \in {"mount", "network", "open", "parse", "start"} => slave = "none"
    /\ slave \in {"none", "start", "create", "post"} => lwsem = 0
    /\ slave \in {"post", "listen", "serve"} => shared
    /\ lwsem > 0 => shared
    /\ main \in {"master", "up"} => shared
    /\ master # "none" => main = "up"

BootInv == SdInv /\ BootTyped /\ Ordered

LEMMA HandledDomain ==
    ASSUME NEW c, DOMAIN c = DOMAIN NoConf, NEW l PROVE DOMAIN Handled(c, l) = DOMAIN NoConf
  BY DEF Handled

LEMMA BootInitial == BootInit => BootInv
<1> SUFFICES ASSUME BootInit PROVE BootInv
  OBVIOUS
<1>1. SdInv
  BY SdInitial DEF BootInit
<1>2. Len(ini) \in Nat
  BY BootAssumption DEF BootInit
<1>3. BootTyped
  <2>1. shared \in BOOLEAN /\ reachable \in BOOLEAN
    BY DEF BootInit
  <2> QED
    BY <1>2, <2>1, BootAssumption DEF BootInit, BootTyped
<1>4. Ordered
  BY DEF BootInit, Ordered
<1> QED
  BY <1>1, <1>3, <1>4 DEF BootInv

LEMMA MainPreserves ==
    ASSUME BootInv, MainStep PROVE BootTyped' /\ Ordered'
<1> USE DEF BootInv, BootTyped, Ordered, MainStep, slaveVars
<1>1. Len(ini) \in Nat
  BY BootAssumption
<1>2. CASE MainMounted \/ MainNetwork \/ MainOpen
  BY <1>2 DEF MainMounted, MainNetwork, MainOpen
<1>3. CASE MainParse
  <2>1. line' \in 0..Len(ini)
    BY <1>1, <1>3 DEF MainParse
  <2>2. DOMAIN conf' = DOMAIN NoConf
    BY <1>3, HandledDomain DEF MainParse
  <2> QED
    BY <1>3, <2>1, <2>2 DEF MainParse
<1>4. CASE MainStart
  BY <1>4 DEF MainStart
<1>5. CASE MainWait
  BY <1>5 DEF MainWait
<1>6. CASE MainMaster
  BY <1>6 DEF MainMaster
<1> QED
  BY <1>2, <1>3, <1>4, <1>5, <1>6

LEMMA SlavePreserves ==
    ASSUME BootInv, SlaveStep PROVE BootTyped' /\ Ordered'
<1> USE DEF BootInv, BootTyped, Ordered, SlaveStep, mainVars, masterVars
<1>1. CASE SlaveStart
  BY <1>1 DEF SlaveStart
<1>2. CASE SlaveCreate
  BY <1>2 DEF SlaveCreate
<1>3. CASE SlavePost
  BY <1>3 DEF SlavePost
<1>4. CASE SlaveListen
  BY <1>4 DEF SlaveListen
<1> QED
  BY <1>1, <1>2, <1>3, <1>4

LEMMA MasterPreserves ==
    ASSUME BootInv, MasterStep PROVE BootTyped' /\ Ordered'
<1> USE DEF BootInv, BootTyped, Ordered, MasterStep, mainVars, slaveVars
<1>1. CASE MasterLines
  BY <1>1, BootAssumption DEF MasterLines
<1>2. CASE MasterStart \/ MasterConnect \/ MasterOpen \/ MasterQueue
  BY <1>2 DEF MasterStart, MasterConnect, MasterOpen, MasterQueue
<1> QED
  BY <1>1, <1>2

LEMMA OthersPreserve ==
    ASSUME BootInv, Fail \/ DeviceComes \/ UNCHANGED bootVars PROVE BootTyped' /\ Ordered'
<1> USE DEF BootInv, BootTyped, Ordered
<1>1. CASE Fail
  BY <1>1, BootAssumption DEF Fail
<1>2. CASE DeviceComes
  <2>1. reachable' \in BOOLEAN
    BY <1>2 DEF DeviceComes
  <2> QED
    BY <1>2, <2>1 DEF DeviceComes, mainVars, slaveVars, masterVars
<1>3. CASE UNCHANGED bootVars
  BY <1>3 DEF bootVars, mainVars, slaveVars, masterVars
<1> QED
  BY <1>1, <1>2, <1>3

LEMMA BootInductive == BootInv /\ [BootNext]_allVars => BootInv'
<1> SUFFICES ASSUME BootInv, [BootNext]_allVars PROVE BootInv'
  OBVIOUS
<1>1. [SdNext]_sdVars
  BY DEF BootNext, MainStep, SlaveStep, MasterStep, Fail, DeviceComes, allVars
<1>2. SdInv'
  BY <1>1, SdInductive DEF BootInv
<1>3. BootTyped' /\ Ordered'
  BY MainPreserves, SlavePreserves, MasterPreserves, OthersPreserve DEF BootNext, allVars
<1> QED
  BY <1>2, <1>3 DEF BootInv

LEMMA BootInvariant == BootSpec => []BootInv
  BY BootInitial, BootInductive, PTL DEF BootSpec

(* Types, for all files and however often card and contacts move.          *)
THEOREM TypeCorrect == BootSpec => []BootTypeOK
<1>1. BootInv => BootTypeOK
  BY DEF BootInv, BootTyped, BootTypeOK, SdInv
<1> QED
  BY <1>1, BootInvariant, PTL

(* modbus_master_task never runs before what it shares with the slave task *)
(* exists (main.c:214, modbus_slave.c:157).                                *)
THEOREM StartsInOrder == BootSpec => []MasterAfterMap
<1>1. BootInv => MasterAfterMap
  BY DEF BootInv, Ordered, MasterAfterMap
<1> QED
  BY <1>1, BootInvariant, PTL

(* Nothing of a card is half mounted when the task waits for the next one  *)
(* (mfs_filesystem.c:145-287).                                             *)
THEOREM MountsWhole == BootSpec => []WholeOrNothing
<1>1. BootInv => WholeOrNothing
  BY SdWhole DEF BootInv
<1> QED
  BY <1>1, BootInvariant, PTL

(* The SD card task blocks for good only for a card that was pulled while *)
(* it went to mount it, or in a call that fails for a reason of its own: no*)
(* device of an earlier card is ever in the way of the next one            *)
(* (mfs_filesystem.c:97-284).                                              *)
THEOREM NothingLeftBlocks == BootSpec => NeverBlockedByLeftover
<1>1. BootInv /\ [BootNext]_allVars
        => [sd # "blocked" /\ sd' = "blocked" => (last /\ ~card) \/ faults' # faults]_sdVars
  <2> SUFFICES ASSUME BootInv, [BootNext]_allVars, sd # "blocked", sd' = "blocked"
               PROVE  (last /\ ~card) \/ faults' # faults
    OBVIOUS
  <2>1. SdNext
    BY DEF BootNext, MainStep, SlaveStep, MasterStep, Fail, DeviceComes, allVars, sdVars, taskVars
  <2> QED
    BY <2>1, SdBlocked DEF BootInv
<1> QED
  BY <1>1, BootInvariant, PTL DEF BootSpec, NeverBlockedByLeftover

-----------------------------------------------------------------------------
(* The files are read whole.  As long as the card was never pulled, what   *)
(* the task saw of it last was not a card that is gone, and a file system  *)
(* that was mounted is: reading a file does not end before its last line.  *)

Kept ==
    NeverPulled =>
        /\ last => card
        /\ lwsem_mfs > 0 \/ mount = "returned" => last /\ Mounted

ReadWhole ==
    /\ main # "mount" => mount = "returned"
    /\ NeverPulled /\ (slave # "none" \/ main \in {"start", "wait", "master", "up"}) => line = Len(ini)
    /\ NeverPulled /\ master \in {"queue", "poll"} => blocks = Blocks

(* What a line means for the key it gives. *)
Meant(l) == IF l.key = "network_type" THEN NetworkType(l.value) ELSE l.value

(* modbus_conf holds what the lines read so far say, and nothing else.     *)
ConfRead ==
    /\ conf = [key \in Keys |-> conf[key]]
    /\ \A i \in 1..line : ini[i].key # "stray" => conf[ini[i].key] = Meant(ini[i])
    /\ \A key \in Keys : (\A i \in 1..line : ini[i].key # key) => conf[key] = NoConf[key]

ConfInv == Kept /\ ReadWhole /\ ConfRead

(* A file gives each key once at most. *)
EachKeyOnce ==
    \A file \in IniFiles : \A i, j \in DOMAIN file :
        file[i].key = file[j].key /\ file[i].key # "stray" => i = j

LEMMA KeptInitially == BootInit => Kept
  BY DEF BootInit, SdInit, Kept

LEMMA KeptBySd ==
    ASSUME SdInv, Kept, SdNext
    PROVE  Kept'
<1> SUFFICES ASSUME NeverPulled'
             PROVE  /\ last' => card'
                    /\ lwsem_mfs' > 0 \/ mount' = "returned" => last' /\ Mounted'
  BY DEF Kept
<1>1. CASE Move
  <2>1. moves = 0 /\ card' /\ ~card /\ UNCHANGED <<last, open, lwsem_mfs, mount>>
    <3>1. moves \in Nat /\ moves' = moves + 1 /\ card' = ~card /\ UNCHANGED <<last, open, lwsem_mfs, mount>>
      BY <1>1, CardAssumption DEF Move, SdInv, TypeOK, taskVars
    <3>2. moves' = 0 \/ (moves' = 1 /\ card')
      BY DEF NeverPulled
    <3>3. moves = 0 /\ card'
      BY <3>1, <3>2
    <3> QED
      BY <3>1, <3>3
  <2>2. /\ last => card
        /\ lwsem_mfs > 0 \/ mount = "returned" => last /\ Mounted
    BY <2>1 DEF Kept, NeverPulled
  <2>3. ~last /\ ~(lwsem_mfs > 0) /\ mount # "returned"
    BY <2>1, <2>2
  <2>4. ~last' /\ ~(lwsem_mfs' > 0) /\ mount' # "returned"
    BY <2>1, <2>3
  <2> QED
    BY <2>4
<1>2. CASE ~Move
  <2>1. UNCHANGED <<card, moves>>
    BY <1>2 DEF SdNext, SdStep, TaskStart, TaskWait, TaskSample, TaskDebounce, TaskOpen, TaskPartition,
                TaskInstall, TaskRemove, MountStep, MountCall, MountReturns, DetectIsr, Bounce, cardVars
  <2>2. /\ last => card
        /\ lwsem_mfs > 0 \/ mount = "returned" => last /\ Mounted
    BY <2>1 DEF Kept, NeverPulled
  <2> USE DEF SdInv, TypeOK, OpenAsFar, Whole, Mounted
  <2>3. CASE MountStep
    BY <2>1, <2>2, <2>3 DEF MountStep, MountCall, MountReturns, cardVars
  <2>4. CASE TaskStart \/ TaskWait \/ TaskSample \/ TaskDebounce
    BY <2>1, <2>2, <2>4 
     DEF TaskStart, TaskWait, TaskSample, TaskDebounce, BlockedWith, Failing, Fault, cardVars
  <2>5. CASE TaskOpen \/ TaskPartition
    BY <2>1, <2>2, <2>5 DEF TaskOpen, TaskPartition, BlockedWith, Failing, Fault, cardVars
  <2>6. CASE TaskInstall
    BY <2>1, <2>2, <2>6 DEF TaskInstall, BlockedWith, Failing, Fault, cardVars
  <2>7. CASE TaskRemove
    BY <2>1, <2>2, <2>7 DEF TaskRemove, cardVars
  <2>8. CASE DetectIsr \/ Bounce
    BY <2>1, <2>2, <2>8 DEF DetectIsr, Bounce, taskVars
  <2> QED
    BY <1>2, <2>3, <2>4, <2>5, <2>6, <2>7, <2>8 DEF SdNext, SdStep
<1> QED
  BY <1>1, <1>2

LEMMA KeptAlways ==
    ASSUME BootInv, Kept, [BootNext]_allVars
    PROVE  Kept' /\ (NeverPulled' => NeverPulled)
<1>1. [SdNext]_sdVars
  BY DEF BootNext, MainStep, SlaveStep, MasterStep, Fail, DeviceComes, allVars
<1>2. CASE SdNext
  <2>1. Kept'
    BY <1>2, KeptBySd DEF BootInv
  <2>2. moves \in Nat /\ (UNCHANGED <<moves, card>> \/ (moves' = moves + 1 /\ card' = ~card))
    BY <1>2, CardAssumption
       DEF SdNext, SdStep, TaskStart, TaskWait, TaskSample, TaskDebounce, TaskOpen, TaskPartition,
           TaskInstall, TaskRemove, MountStep, MountCall, MountReturns, DetectIsr, Move, Bounce, cardVars,
           BootInv, SdInv, TypeOK
  <2> QED
    BY <2>1, <2>2 DEF NeverPulled
<1>3. CASE UNCHANGED sdVars
  BY <1>3 DEF sdVars, cardVars, taskVars, Kept, NeverPulled, Mounted
<1> QED
  BY <1>1, <1>2, <1>3

(* A task that reads a file of a card that stays reads it to its end. *)
LEMMA CardStays ==
    ASSUME Kept, ReadWhole, NeverPulled, main # "mount"
    PROVE  ~CannotRead
  BY DEF Kept, ReadWhole, CannotRead

LEMMA ReadWholeKept ==
    ASSUME BootInv, Kept, ReadWhole, [BootNext]_allVars
    PROVE  ReadWhole'
<1>1. NeverPulled' => NeverPulled
  BY KeptAlways
<1> USE DEF ReadWhole
<1>2. CASE MainStep
  <2>1. UNCHANGED <<moves, card, mount, blocks, ini>> /\ NeverPulled' = NeverPulled
    BY <1>2 DEF MainStep, sdVars, cardVars, NeverPulled
  <2>2. CASE MainMounted \/ MainNetwork \/ MainOpen
    BY <2>1, <2>2 DEF MainMounted, MainNetwork, MainOpen, slaveVars, BootInv, Ordered
  <2>3. CASE MainParse
    <3>1. slave = "none" /\ UNCHANGED <<slave, master>> /\ main = "parse"
      BY <2>3 DEF MainParse, BootInv, Ordered, slaveVars
    <3>2. NeverPulled => ~CannotRead
      BY <3>1, CardStays
    <3> QED
      BY <2>1, <2>3, <3>1, <3>2 DEF MainParse, BootInv, Ordered
  <2>4. CASE MainStart \/ MainWait \/ MainMaster
    BY <2>1, <2>4 DEF MainStart, MainWait, MainMaster, slaveVars, BootInv, Ordered
  <2> QED
    BY <1>2, <2>2, <2>3, <2>4 DEF MainStep
<1>3. CASE SlaveStep
  <2>1. /\ UNCHANGED <<moves, card, mount, blocks, ini, main, line, master>> /\ NeverPulled' = NeverPulled
        /\ slave # "none"
    BY <1>3 DEF SlaveStep, SlaveStart, SlaveCreate, SlavePost, SlaveListen, sdVars, cardVars, mainVars,
                masterVars, NeverPulled
  <2> QED
    BY <2>1
<1>4. CASE MasterStep
  <2>1. /\ UNCHANGED <<moves, card, mount, ini, main, line, slave>> /\ NeverPulled' = NeverPulled
        /\ master # "none"
    BY <1>4 DEF MasterStep, MasterStart, MasterConnect, MasterOpen, MasterLines, MasterQueue, sdVars,
                cardVars, mainVars, slaveVars, NeverPulled
  <2>2. NeverPulled => ~CannotRead
    BY <2>1, CardStays DEF BootInv, Ordered
  <2> QED
    BY <1>4, <2>1, <2>2 DEF MasterStep, MasterStart, MasterConnect, MasterOpen, MasterLines, MasterQueue
<1>5. CASE Fail
  BY <1>1, <1>5 DEF Fail, sdVars, cardVars
<1>6. CASE DeviceComes \/ (SdNext /\ UNCHANGED bootVars) \/ UNCHANGED allVars
  <2>1. UNCHANGED <<ini, main, line, slave, master, blocks>>
    BY <1>6 DEF DeviceComes, bootVars, allVars, mainVars, slaveVars, masterVars
  <2>2. mount = "returned" => mount' = "returned"
    BY <1>6 DEF DeviceComes, allVars, sdVars, SdNext, SdStep, TaskStart, TaskWait, TaskSample, TaskDebounce,
                TaskOpen, TaskPartition, TaskInstall, TaskRemove, MountStep, MountCall, MountReturns,
                DetectIsr, Move, Bounce, taskVars
  <2> QED
    BY <1>1, <2>1, <2>2
<1> QED
  BY <1>2, <1>3, <1>4, <1>5, <1>6 DEF BootNext
-----------------------------------------------------------------------------
(* What inih_handler makes of one more line. *)

LEMMA KeysOfConf ==
    /\ DOMAIN NoConf = Keys
    /\ "network_type" \in Keys /\ "ip" \in Keys /\ "stray" \notin Keys
    /\ NoConf["ip"] = None
  BY DEF NoConf, Keys

LEMMA HandledLine ==
    ASSUME NEW c, c = [key \in Keys |-> c[key]], NEW l, l.key \in Keys \cup {"stray"},
           l.key \in Keys => c[l.key] = NoConf[l.key]
    PROVE  /\ Handled(c, l) = [key \in Keys |-> Handled(c, l)[key]]
           /\ l.key # "stray" => Handled(c, l)[l.key] = Meant(l)
           /\ \A key \in Keys : key # l.key => Handled(c, l)[key] = c[key]
<1>1. CASE l.key = "stray"
  BY <1>1, KeysOfConf DEF Handled
<1>2. CASE l.key = "network_type"
  <2>1. Handled(c, l) = [c EXCEPT !["network_type"] = Meant(l)]
    BY <1>2 DEF Handled, Meant
  <2> QED
    BY <1>2, <2>1, KeysOfConf
<1>3. CASE l.key = "ip"
  <2>1. c["ip"] = None /\ IsValidIpv4(c["ip"])
    BY <1>3, KeysOfConf, BootAssumption DEF IsValidIpv4
  <2>2. Handled(c, l) = [c EXCEPT !["ip"] = Meant(l)]
    BY <1>3, <2>1 DEF Handled, Meant
  <2> QED
    BY <1>3, <2>2, KeysOfConf
<1>4. CASE l.key \notin {"stray", "network_type", "ip"}
  <2>1. Handled(c, l) = [c EXCEPT ![l.key] = Meant(l)] /\ l.key \in Keys
    BY <1>4 DEF Handled, Meant
  <2> QED
    BY <2>1, KeysOfConf
<1> QED
  BY <1>1, <1>2, <1>3, <1>4

LEMMA ConfReadByLine ==
    ASSUME BootInv, ConfRead, EachKeyOnce, MainParse, ini' = ini
    PROVE  ConfRead'
<1>1. CASE UNCHANGED <<line, conf>>
  BY <1>1 DEF ConfRead
<1>2. CASE line < Len(ini) /\ line' = line + 1 /\ conf' = Handled(conf, ini[line + 1])
  <2> DEFINE l == ini[line + 1]
  <2>1. /\ ini \in IniFiles /\ line \in Nat /\ Len(ini) \in Nat /\ DOMAIN ini = 1..Len(ini)
        /\ line + 1 \in DOMAIN ini /\ 1..line \subseteq DOMAIN ini
        /\ 1..(line + 1) = (1..line) \cup {line + 1}
    BY <1>2, BootAssumption DEF BootInv, BootTyped
  <2>2. l.key \in Keys \cup {"stray"}
    BY <2>1, BootAssumption
  <2>3. ASSUME NEW i \in 1..line, l.key # "stray" PROVE ini[i].key # l.key
    <3>1. i # line + 1 /\ i \in DOMAIN ini
      BY <2>1
    <3> QED
      BY <2>1, <2>3, <3>1 DEF EachKeyOnce
  <2>4. l.key \in Keys => conf[l.key] = NoConf[l.key]
    BY <2>3, KeysOfConf DEF ConfRead
  <2>5. conf = [key \in Keys |-> conf[key]]
    BY DEF ConfRead
  <2> HIDE DEF l
  <2>6. /\ conf' = [key \in Keys |-> conf'[key]]
        /\ l.key # "stray" => conf'[l.key] = Meant(l)
        /\ \A key \in Keys : key # l.key => conf'[key] = conf[key]
    <3>1. conf' = Handled(conf, l)
      BY <1>2 DEF l
    <3>2. /\ Handled(conf, l) = [key \in Keys |-> Handled(conf, l)[key]]
          /\ l.key # "stray" => Handled(conf, l)[l.key] = Meant(l)
          /\ \A key \in Keys : key # l.key => Handled(conf, l)[key] = conf[key]
      BY <2>2, <2>4, <2>5, HandledLine
    <3> QED
      BY <3>1, <3>2
  <2>7. ASSUME NEW i \in 1..(line + 1), ini[i].key # "stray"
        PROVE  conf'[ini[i].key] = Meant(ini[i])
    <3>1. CASE i = line + 1
      BY <2>6, <2>7, <3>1 DEF l
    <3>2. CASE i \in 1..line
      <4>1. ini[i].key \in Keys
        BY <2>1, <2>7, <3>2, BootAssumption
      <4>2. conf[ini[i].key] = Meant(ini[i])
        BY <2>7, <3>2 DEF ConfRead
      <4>3. ini[i].key # l.key
        BY <2>3, <2>7, <3>2 DEF l
      <4> QED
        BY <2>6, <4>1, <4>2, <4>3
    <3> QED
      BY <2>1, <3>1, <3>2
  <2>8. ASSUME NEW key \in Keys, \A i \in 1..(line + 1) : ini[i].key # key
        PROVE  conf'[key] = NoConf[key]
    <3>1. key # l.key /\ \A i \in 1..line : ini[i].key # key
      BY <2>1, <2>8 DEF l
    <3>2. conf[key] = NoConf[key]
      BY <3>1 DEF ConfRead
    <3> QED
      BY <2>6, <3>1, <3>2
  <2> QED
    BY <1>2, <2>6, <2>7, <2>8 DEF ConfRead
<1> QED
  BY <1>1, <1>2 DEF MainParse

LEMMA ConfReadKept ==
    ASSUME BootInv, ConfRead, EachKeyOnce, [BootNext]_allVars
    PROVE  ConfRead'
<1>1. ini' = ini
  BY DEF BootNext, MainStep, SlaveStep, MasterStep, Fail, DeviceComes, bootVars, allVars
<1>2. CASE MainStep /\ MainParse
  BY <1>1, <1>2, ConfReadByLine
<1>3. UNCHANGED <<line, conf>> \/ (MainStep /\ MainParse)
  BY DEF BootNext, MainStep, MainMounted, MainNetwork, MainOpen, MainStart, MainWait, MainMaster,
         SlaveStep, MasterStep, Fail, DeviceComes, mainVars, bootVars, allVars
<1>4. CASE UNCHANGED <<line, conf>>
  BY <1>1, <1>4 DEF ConfRead
<1> QED
  BY <1>2, <1>3, <1>4

LEMMA ConfInitially == BootInit => ConfInv
<1> SUFFICES ASSUME BootInit PROVE ConfInv
  OBVIOUS
<1>1. ConfRead
  <2>1. line = 0 /\ conf = NoConf /\ NoConf = [key \in Keys |-> NoConf[key]]
    BY KeysOfConf DEF BootInit, NoConf
  <2> QED
    BY <2>1 DEF ConfRead
<1>2. ReadWhole
  BY DEF BootInit, ReadWhole
<1> QED
  BY <1>1, <1>2, KeptInitially DEF ConfInv

LEMMA ConfInvariant == ASSUME EachKeyOnce PROVE BootSpec => [](BootInv /\ ConfInv)
<1>1. BootInv /\ ConfInv /\ [BootNext]_allVars => ConfInv'
  BY KeptAlways, ReadWholeKept, ConfReadKept DEF ConfInv
<1> QED
  BY <1>1, BootInitial, BootInductive, ConfInitially, PTL DEF BootSpec

(* What has been read of the whole file is what the file says. *)
LEMMA WholeRead ==
    ASSUME BootInv, ConfRead, line = Len(ini), EachKeyOnce
    PROVE  conf = WholeConf(ini)
<1>1. ini \in IniFiles /\ DOMAIN ini = 1..Len(ini)
  BY BootAssumption DEF BootInv, BootTyped
<1>2. ASSUME NEW key \in Keys, Lines(ini, key) = {}
      PROVE  conf[key] = WholeConf(ini)[key]
  <2>1. \A i \in 1..line : ini[i].key # key
    BY <1>1, <1>2 DEF Lines
  <2>2. conf[key] = NoConf[key]
    BY <2>1 DEF ConfRead
  <2> QED
    BY <1>2, <2>2, KeysOfConf DEF WholeConf, Said
<1>3. ASSUME NEW key \in Keys, Lines(ini, key) # {}
      PROVE  conf[key] = WholeConf(ini)[key]
  <2> DEFINE i == CHOOSE i \in Lines(ini, key) : TRUE
  <2>1. i \in Lines(ini, key)
    BY <1>3
  <2>2. i \in 1..line /\ ini[i].key = key /\ key # "stray"
    BY <1>1, <2>1, KeysOfConf DEF Lines
  <2>3. Said(ini, key) = ini[i].value
    BY <1>3 DEF Said
  <2> HIDE DEF i
  <2>4. conf[key] = Meant(ini[i])
    BY <2>2 DEF ConfRead
  <2>5. Meant(ini[i]) = IF key = "network_type" THEN NetworkType(ini[i].value) ELSE ini[i].value
    BY <2>2 DEF Meant
  <2> QED
    BY <1>3, <2>3, <2>4, <2>5, KeysOfConf DEF WholeConf
<1>4. conf = [key \in Keys |-> conf[key]] /\ WholeConf(ini) = [key \in Keys |-> WholeConf(ini)[key]]
  BY KeysOfConf DEF ConfRead, WholeConf
<1> QED
  BY <1>2, <1>3, <1>4

(* With a card that is never pulled the slave task serves with all that    *)
(* modbus.ini says, and the master task polls with all lines of            *)
(* polling_blocks.txt, for all files that give each key once at most       *)
(* (main.c, inih.c, modbus_master.c).                                      *)
THEOREM RunsConfigured == ASSUME EachKeyOnce PROVE BootSpec => []RunsAsConfigured
<1>1. BootInv /\ ConfInv => RunsAsConfigured
  <2> SUFFICES ASSUME BootInv, ConfInv, NeverPulled
               PROVE  /\ slave = "serve" => conf = WholeConf(ini)
                      /\ master = "poll" => blocks = Blocks
    BY DEF RunsAsConfigured
  <2>1. slave = "serve" => line = Len(ini)
    BY DEF ConfInv, ReadWhole
  <2>2. master = "poll" => blocks = Blocks
    BY DEF ConfInv, ReadWhole
  <2> QED
    BY <2>1, <2>2, WholeRead DEF ConfInv
<1> QED
  BY <1>1, ConfInvariant, PTL
=============================================================================
