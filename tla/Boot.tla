-------------------------------- MODULE Boot --------------------------------
(***************************************************************************)
(* The start of the bridge: main_task (main.c) has the card mounted and the*)
(* network set up, reads modbus.ini, starts modbus_slave_task, waits until *)
(* that has made what the two share, and starts modbus_master_task, which  *)
(* connects to the device and reads polling_blocks.txt.  The card is that  *)
(* of SdCard and may be pulled meanwhile: a file then ends where the       *)
(* reading stopped, and neither ini_parse nor fgets tells an error from the*)
(* end.  Whatever else fails blocks the task for good.  Where this module  *)
(* ends, with both tasks in their loops, Bridge begins.                    *)
(***************************************************************************)
EXTENDS SdCard, Sequences

CONSTANTS IniFiles,  (* what modbus.ini may say: sequences of lines         *)
          Blocks,    (* lines of polling_blocks.txt                         *)
          ValidIp,   (* dotted addresses                                    *)
          Failures   (* bound: calls that fail for want of memory and such  *)

None == "none"

Keys == {"network_type", "address_length", "ip", "port", "serial"}

(* A line that inih_handler does not look for is a stray one. *)
ASSUME BootAssumption ==
    /\ \A file \in IniFiles :
        /\ Len(file) \in Nat /\ DOMAIN file = 1..Len(file)
        /\ \A i \in DOMAIN file : file[i].key \in Keys \cup {"stray"}
    /\ Blocks \in Nat /\ Failures \in Nat /\ None \notin ValidIp

VARIABLES ini,       (* the lines of modbus.ini on the card                 *)
          main,      (* where main_task is                                  *)
          line,      (* lines of modbus.ini it has read                     *)
          conf,      (* modbus_conf                                         *)
          lwsem,     (* posted when the map is there                        *)
          slave,     (* where modbus_slave_task is                          *)
          shared,    (* mb_mapping, mb_mapping_mutex and the pool exist     *)
          master,    (* where modbus_master_task is                         *)
          blocks,    (* lines of polling_blocks.txt it has read             *)
          reachable, (* the device                                          *)
          failures

mainVars   == <<main, line, conf>>
slaveVars  == <<slave, shared>>
masterVars == <<master, blocks>>
bootVars   == <<ini, mainVars, lwsem, slaveVars, masterVars, reachable, failures>>
allVars    == <<sdVars, bootVars>>

-----------------------------------------------------------------------------
(* modbus.ini. *)

(* memset *)
NoConf == [network_type |-> None, address_length |-> 0, ip |-> None,
           port |-> 0, serial |-> None]

(* inet_pton of RTCS returns RTCS_OK, which is 0, for an address. *)
IsValidIpv4(ip) == ip \notin ValidIp

NetworkType(name) == IF name = "TCP" THEN "TCP" ELSE "RTU"

(* inih_handler: a line of an unknown section changes nothing.  The address*)
(* that is looked at is the one there already.  "serial" stands for the    *)
(* four keys of the serial line, and a network type other than TCP is RTU. *)
Handled(c, l) ==
    CASE l.key = "stray" -> c
      [] l.key = "network_type" -> [c EXCEPT !.network_type = NetworkType(l.value)]
      [] l.key = "ip" -> IF IsValidIpv4(c.ip) THEN [c EXCEPT !.ip = l.value] ELSE c
      [] OTHER -> [c EXCEPT ![l.key] = l.value]

(* What modbus_slave_task and modbus_master_task ask of it. *)
SlaveConfigured(c)  == c.address_length \in {4, 5, 6}
MasterConfigured(c) ==
    /\ c.network_type # None /\ c.address_length # 0
    /\ IF c.network_type = "TCP" THEN c.ip # None /\ c.port # 0 ELSE c.serial # None

BootTypeOK ==
    /\ TypeOK
    /\ ini \in IniFiles /\ line \in 0..Len(ini)
    /\ main \in {"mount", "network", "open", "parse", "start", "wait", "master", "up", "blocked"}
    /\ DOMAIN conf = DOMAIN NoConf
    /\ lwsem \in 0..1 /\ shared \in BOOLEAN
    /\ slave \in {"none", "start", "create", "post", "listen", "serve", "blocked"}
    /\ master \in {"none", "start", "connect", "open", "lines", "queue", "poll", "blocked"}
    /\ blocks \in 0..Blocks
    /\ reachable \in BOOLEAN /\ failures \in 0..Failures
-----------------------------------------------------------------------------
BootInit ==
    /\ SdInit
    /\ ini \in IniFiles
    /\ main = "mount" /\ line = 0 /\ conf = NoConf /\ lwsem = 0
    /\ slave = "none" /\ shared = FALSE
    /\ master = "none" /\ blocks = 0
    /\ reachable = FALSE /\ failures = 0

(* Reading a file goes on as long as the card is there.  What MFS has in   *)
(* its buffer can be read without.                                         *)
CanRead    == Mounted
CannotRead == ~(Mounted /\ card)

(* main_task *)

MainMounted ==
    /\ main = "mount" /\ mount = "returned"
    /\ main' = "network"
    /\ UNCHANGED <<line, conf, lwsem, slaveVars, master>>

(* network_init, network_telnetsrv_start *)
MainNetwork ==
    /\ main = "network"
    /\ main' = "open"
    /\ UNCHANGED <<line, conf, lwsem, slaveVars, master>>

(* ini_parse: -1 when the file cannot be opened. *)
MainOpen ==
    /\ main = "open"
    /\ \/ CanRead /\ main' = "parse"
       \/ CannotRead /\ main' = "blocked"
    /\ UNCHANGED <<line, conf, lwsem, slaveVars, master>>

(* Mutant: parsing ends at the first line that is refused. *)
MainParseStops ==
    /\ main = "parse"
    /\ IF line < Len(ini) /\ ini[line + 1].key # "stray"
       THEN line' = line + 1 /\ conf' = Handled(conf, ini[line + 1]) /\ UNCHANGED main
       ELSE main' = "start" /\ UNCHANGED <<line, conf>>
    /\ UNCHANGED <<lwsem, slaveVars, master>>

(* ini_parse_stream: a line that is refused gives an error, which is not -1,*)
(* and the next line is read.                                              *)
MainParse ==
    /\ main = "parse"
    /\ \/ /\ CanRead /\ line < Len(ini)
          /\ line' = line + 1 /\ conf' = Handled(conf, ini[line + 1])
          /\ UNCHANGED main
       \/ /\ line = Len(ini) \/ CannotRead
          /\ main' = "start"
          /\ UNCHANGED <<line, conf>>
    /\ UNCHANGED <<lwsem, slaveVars, master>>

(* Mutant: the semaphore is there to be taken at once. *)
MainStartPosted ==
    /\ main = "start"
    /\ main' = "wait" /\ lwsem' = 1 /\ slave' = "start"
    /\ UNCHANGED <<line, conf, shared, master>>

MainStart ==
    /\ main = "start"
    /\ main' = "wait" /\ lwsem' = 0 /\ slave' = "start"
    /\ UNCHANGED <<line, conf, shared, master>>

MainWait ==
    /\ main = "wait" /\ lwsem > 0
    /\ main' = "master" /\ lwsem' = lwsem - 1
    /\ UNCHANGED <<line, conf, slaveVars, master>>

MainMaster ==
    /\ main = "master"
    /\ main' = "up" /\ master' = "start"
    /\ UNCHANGED <<line, conf, lwsem, slaveVars>>

MainStep ==
    /\ \/ MainMounted \/ MainNetwork \/ MainOpen \/ MainParse
       \/ MainStart \/ MainWait \/ MainMaster
    /\ UNCHANGED <<sdVars, ini, blocks, reachable, failures>>

(* modbus_slave_task, up to its loop *)

SlaveStart ==
    /\ slave = "start"
    /\ slave' = IF SlaveConfigured(conf) THEN "create" ELSE "blocked"
    /\ UNCHANGED <<shared, lwsem>>

(* Its queue, the pool, the mutex and the map. *)
SlaveCreate ==
    /\ slave = "create"
    /\ slave' = "post" /\ shared' = TRUE
    /\ UNCHANGED lwsem

SlavePost ==
    /\ slave = "post"
    /\ slave' = "listen" /\ lwsem' = lwsem + 1
    /\ UNCHANGED shared

(* Mutant: the semaphore is posted again for the listening socket. *)
SlaveListenPosts ==
    /\ slave = "listen"
    /\ slave' = "serve" /\ lwsem' = lwsem + 1
    /\ UNCHANGED shared

(* Its result is not looked at. *)
SlaveListen ==
    /\ slave = "listen"
    /\ slave' = "serve"
    /\ UNCHANGED <<shared, lwsem>>

SlaveStep ==
    /\ SlaveStart \/ SlaveCreate \/ SlavePost \/ SlaveListen
    /\ UNCHANGED <<sdVars, ini, mainVars, masterVars, reachable, failures>>

(* modbus_master_task, up to its loop *)

MasterStart ==
    /\ master = "start"
    /\ master' = IF MasterConfigured(conf) THEN "connect" ELSE "blocked"
    /\ UNCHANGED blocks

(* Mutant: a device that is not there yet blocks the task. *)
MasterConnectOnce ==
    /\ master = "connect"
    /\ master' = IF conf.network_type = "TCP" => reachable /\ conf.ip \in ValidIp
                 THEN "open" ELSE "blocked"
    /\ UNCHANGED blocks

(* Over TCP it tries every five seconds until the device answers. *)
MasterConnect ==
    /\ master = "connect"
    /\ conf.network_type = "TCP" => reachable /\ conf.ip \in ValidIp
    /\ master' = "open"
    /\ UNCHANGED blocks

MasterOpen ==
    /\ master = "open"
    /\ \/ CanRead /\ master' = "lines"
       \/ CannotRead /\ master' = "blocked"
    /\ UNCHANGED blocks

MasterLines ==
    /\ master = "lines"
    /\ \/ /\ CanRead /\ blocks < Blocks
          /\ blocks' = blocks + 1 /\ UNCHANGED master
       \/ /\ blocks = Blocks \/ CannotRead
          /\ master' = IF blocks = 0 THEN "blocked" ELSE "queue"
          /\ UNCHANGED blocks

MasterQueue ==
    /\ master = "queue"
    /\ master' = "poll"
    /\ UNCHANGED blocks

MasterStep ==
    /\ MasterStart \/ MasterConnect \/ MasterOpen \/ MasterLines \/ MasterQueue
    /\ UNCHANGED <<sdVars, ini, mainVars, lwsem, slaveVars, reachable, failures>>

(* A call of a task that has one fails, and blocks the task. *)
Fail ==
    /\ failures < Failures /\ failures' = failures + 1
    /\ \/ /\ main \in {"network", "start", "wait", "master"} /\ main' = "blocked"
          /\ UNCHANGED <<slave, master>>
       \/ /\ slave \in {"start", "create"} /\ slave' = "blocked"
          /\ UNCHANGED <<main, master>>
       \/ /\ master \in {"start", "lines", "queue"} \/ (master = "connect" /\ conf.network_type = "RTU")
          /\ master' = "blocked"
          /\ UNCHANGED <<main, slave>>
    /\ UNCHANGED <<sdVars, ini, line, conf, lwsem, shared, blocks, reachable>>

DeviceComes ==
    /\ ~reachable
    /\ reachable' = TRUE
    /\ UNCHANGED <<sdVars, ini, mainVars, lwsem, slaveVars, masterVars, failures>>

BootNext ==
    \/ SdNext /\ UNCHANGED bootVars
    \/ MainStep \/ SlaveStep \/ MasterStep \/ Fail \/ DeviceComes

BootSpec == BootInit /\ [][BootNext]_allVars

(* Tasks and interrupts go on, the card is put in and the device comes up; *)
(* no call ever has to fail.                                               *)
FairBootSpec ==
    /\ BootSpec
    /\ WF_allVars(SdStep /\ UNCHANGED <<faults, bootVars>>)
    /\ WF_allVars(MountStep /\ UNCHANGED bootVars)
    /\ WF_allVars(DetectIsr /\ UNCHANGED bootVars)
    /\ WF_allVars(~card /\ Move /\ UNCHANGED bootVars)
    /\ WF_allVars(MainStep) /\ WF_allVars(SlaveStep) /\ WF_allVars(MasterStep)
    /\ WF_allVars(DeviceComes)
-----------------------------------------------------------------------------
(* "Modbus Map has been created" (modbus_slave.c:157): modbus_master_task  *)
(* runs only when the map, the mutex and the pool exist.                   *)
MasterAfterMap == master # "none" => shared

(* What a file says that gives each key once at most. *)
Lines(file, key) == { i \in DOMAIN file : file[i].key = key }

Said(file, key) ==
    IF Lines(file, key) = {} THEN NoConf[key] ELSE file[CHOOSE i \in Lines(file, key) : TRUE].value

WholeConf(file) ==
    [key \in DOMAIN NoConf |->
        IF key = "network_type" /\ Lines(file, key) # {} THEN NetworkType(Said(file, key))
        ELSE Said(file, key)]

(* A card that was in from the start or was put in once was never pulled.  *)
NeverPulled == moves = 0 \/ (moves = 1 /\ card)

(* The two tasks run with the whole of the files on the card: ini_parse    *)
(* "Returns 0 on success, line number of first error on parse error        *)
(* (doesn't stop on first error), -1 on file open error" (inih.h:36-37),   *)
(* and main_task blocks when it "Can't parse Modbus INI file" (main.c:199).*)
(* With a card that was pulled meanwhile they may run with a part of them. *)
RunsAsConfigured ==
    NeverPulled =>
        /\ slave = "serve" => conf = WholeConf(ini)
        /\ master = "poll" => blocks = Blocks

Complete(c) ==
    /\ SlaveConfigured(c) /\ MasterConfigured(c)
    /\ c.network_type = "TCP" => c.ip \in ValidIp

(* With a configuration that is complete, a card that stays and can be     *)
(* read, a device that comes up sooner or later and no call that fails,    *)
(* both tasks end up in their loops, in whatever order card and device     *)
(* come.                                                                   *)
Undisturbed == NeverPulled /\ failures = 0 /\ faults = 0

Boots ==
    Complete(WholeConf(ini)) ~> (slave = "serve" /\ master = "poll") \/ ~Undisturbed
=============================================================================
