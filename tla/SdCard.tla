------------------------------- MODULE SdCard -------------------------------
(***************************************************************************)
(* The file system on the SD card (mfs_filesystem.c): main_task calls      *)
(* mfs_mount_filesystem, which starts mfs_filesystem_task and waits until  *)
(* a card is mounted.  The task is woken by an interrupt on both edges of  *)
(* the card detect pin, compares the pin with what it saw last, waits for  *)
(* the contacts to come to rest, and mounts or unmounts the card.  It looks*)
(* at the pin once, before it waits.  A call that fails while it starts or *)
(* mounts blocks it for good, whether the card was pulled or is in: one    *)
(* that cannot be read, a partition that is not valid, no memory.          *)
(***************************************************************************)
EXTENDS Naturals, FiniteSets

CONSTANTS Layouts,  (* of cards: with a partition table or without          *)
          Moves,    (* bound: times the card is put in or pulled            *)
          Bounces,  (* bound: times the contacts open and close again       *)
          Faults    (* bound: calls of the task that fail, card or no card  *)

ASSUME CardAssumption ==
    /\ Layouts \subseteq {"partitioned", "plain"} /\ Layouts # {}
    /\ Moves \in Nat /\ Bounces \in Nat /\ Faults \in Nat

VARIABLES card,      (* the card is in                                      *)
          irq,       (* interrupt flag of the pin                           *)
          detect,    (* lwsem: interrupts the task has not taken            *)
          sd,        (* where mfs_filesystem_task is                        *)
          last,      (* what it last saw of the pin                         *)
          open,      (* devices it has opened or installed                  *)
          lwsem_mfs, (* posted for every card mounted                       *)
          mount,     (* where mfs_mount_filesystem is                       *)
          moves, bounces, faults

cardVars == <<card, irq, moves, bounces>>
taskVars == <<detect, sd, last, open, lwsem_mfs, faults>>
sdVars   == <<cardVars, taskVars, mount>>

(* "dev" is dev_fd on sdcard:, "pm" the partition manager, "part" partition*)
(* 1 of it and "fs" the file system a: once open, each on the one before; a*)
(* card without partitions has fs on dev.                                  *)
Stacks == { {}, {"dev"}, {"dev", "pm"}, {"dev", "pm", "part"},
            {"dev", "pm", "fs"}, {"dev", "pm", "part", "fs"} }

Mounted == "fs" \in open

TypeOK ==
    /\ card \in BOOLEAN /\ irq \in BOOLEAN /\ last \in BOOLEAN
    /\ detect \in 0 .. 1 + Moves + Bounces /\ lwsem_mfs \in 0 .. Moves + 1
    /\ sd \in {"none", "start", "wait", "sample", "debounce", "open",
               "partition", "install", "remove", "blocked"}
    /\ mount \in {"call", "waiting", "returned"}
    /\ open \in Stacks
    /\ moves \in 0..Moves /\ bounces \in 0..Bounces /\ faults \in 0..Faults

SdInit ==
    /\ card \in BOOLEAN /\ irq = FALSE /\ detect = 0
    /\ sd = "none" /\ last = FALSE /\ open = {} /\ lwsem_mfs = 0
    /\ mount = "call" /\ moves = 0 /\ bounces = 0 /\ faults = 0
-----------------------------------------------------------------------------
(* mfs_mount_filesystem. *)

MountCall ==
    /\ mount = "call"
    /\ mount' = "waiting" /\ sd' = "start"
    /\ UNCHANGED <<cardVars, detect, last, open, lwsem_mfs, faults>>

MountReturns ==
    /\ mount = "waiting" /\ lwsem_mfs > 0
    /\ mount' = "returned" /\ lwsem_mfs' = lwsem_mfs - 1
    /\ UNCHANGED <<cardVars, detect, sd, last, open, faults>>
-----------------------------------------------------------------------------
(* mfs_filesystem_task. *)

(* A call that fails for a reason of its own: what is on the card or how it*)
(* answers, memory, a driver.                                              *)
Fault == faults < Faults /\ faults' = faults + 1

Failing(why) == (why /\ UNCHANGED faults) \/ Fault

(* Nothing is closed, and nobody wakes the task again. *)
BlockedWith(devices) == sd' = "blocked" /\ open' = open \cup devices

(* The semaphore is posted once, to have the pin looked at first of all.   *)
TaskStart ==
    /\ sd = "start"
    /\ \/ sd' = "wait" /\ detect' = 1 /\ UNCHANGED <<open, faults>>
       \/ Fault /\ BlockedWith({}) /\ UNCHANGED detect
    /\ UNCHANGED <<cardVars, mount, last, lwsem_mfs>>

TaskWait ==
    /\ sd = "wait"
    /\ \/ detect > 0 /\ sd' = "sample" /\ detect' = detect - 1 /\ UNCHANGED <<open, faults>>
       \/ Fault /\ BlockedWith({}) /\ UNCHANGED detect
    /\ UNCHANGED <<cardVars, mount, last, lwsem_mfs>>

TaskSample ==
    /\ sd = "sample"
    /\ last' = card
    /\ sd' = IF last # card THEN "debounce" ELSE "wait"
    /\ UNCHANGED <<cardVars, mount, detect, open, lwsem_mfs, faults>>

(* _time_delay(100). *)
TaskDebounce ==
    /\ sd = "debounce"
    /\ sd' = IF last THEN "open" ELSE "remove"
    /\ UNCHANGED <<cardVars, mount, detect, last, open, lwsem_mfs, faults>>

(* Opening sdcard: talks to the card; pm: must not be installed already.   *)
TaskOpen ==
    /\ sd = "open"
    /\ \/ /\ card /\ "pm" \notin open
          /\ sd' = "partition" /\ open' = open \cup {"dev", "pm"} /\ UNCHANGED faults
       \/ Failing(~card) /\ BlockedWith({})
       \/ Failing("pm" \in open) /\ BlockedWith({"dev"})
    /\ UNCHANGED <<cardVars, mount, detect, last, lwsem_mfs>>

(* A partition that cannot be opened, on a card without one or on a card   *)
(* that is gone, leaves the file system to the whole card; one that cannot *)
(* be validated blocks the task.                                           *)
TaskPartition ==
    /\ sd = "partition"
    /\ \/ /\ Failing("plain" \in Layouts \/ ~card)
          /\ sd' = "install" /\ UNCHANGED open
       \/ /\ "partitioned" \in Layouts /\ card
          /\ sd' = "install" /\ open' = open \cup {"part"} /\ UNCHANGED faults
       \/ "partitioned" \in Layouts /\ Failing(~card) /\ BlockedWith({"part"})
    /\ UNCHANGED <<cardVars, mount, detect, last, lwsem_mfs>>

(* Opening a: reads the card, whether it is formatted or not, and so does  *)
(* the question whether it is; then the semaphore is posted.               *)
TaskInstall ==
    /\ sd = "install"
    /\ \/ /\ card
          /\ sd' = "wait" /\ open' = open \cup {"fs"}
          /\ lwsem_mfs' = lwsem_mfs + 1 /\ UNCHANGED faults
       \/ Failing(~card) /\ BlockedWith({}) /\ UNCHANGED lwsem_mfs
       \/ Failing(~card) /\ BlockedWith({"fs"}) /\ UNCHANGED lwsem_mfs
    /\ UNCHANGED <<cardVars, mount, detect, last>>

(* Mutant: the partition manager stays installed. *)
TaskRemoveKeepingManager ==
    /\ sd = "remove"
    /\ sd' = "wait" /\ open' = open \cap {"pm"}
    /\ UNCHANGED <<cardVars, mount, detect, last, lwsem_mfs, faults>>

(* Everything is closed and uninstalled; what fails is reported only. *)
TaskRemove ==
    /\ sd = "remove"
    /\ sd' = "wait" /\ open' = {}
    /\ UNCHANGED <<cardVars, mount, detect, last, lwsem_mfs, faults>>
-----------------------------------------------------------------------------
(* The card and its interrupt. *)

(* Mutant: the interrupt comes when a card is put in. *)
RisingEdge == irq' = (irq \/ (card' /\ sd \notin {"none", "start"}))

(* Several edges before the interrupt is taken are one interrupt. *)
EitherEdge == irq' = (irq \/ sd \notin {"none", "start"})

Move ==
    /\ moves < Moves
    /\ moves' = moves + 1
    /\ card' = ~card
    /\ EitherEdge
    /\ UNCHANGED <<bounces, taskVars, mount>>

(* The contacts open and close again within the debounce delay. *)
Bounce ==
    /\ bounces < Bounces
    /\ sd \notin {"open", "partition", "install"}
    /\ bounces' = bounces + 1
    /\ UNCHANGED <<card, moves, taskVars, mount>>
    /\ EitherEdge

(* mfs_sdcard_detect_isr *)
DetectIsr ==
    /\ irq
    /\ irq' = FALSE /\ detect' = detect + 1
    /\ UNCHANGED <<card, moves, bounces, sd, last, open, lwsem_mfs, faults, mount>>

SdStep ==
    \/ TaskStart \/ TaskWait \/ TaskSample \/ TaskDebounce
    \/ TaskOpen \/ TaskPartition \/ TaskInstall \/ TaskRemove

MountStep == MountCall \/ MountReturns

SdNext == SdStep \/ MountStep \/ DetectIsr \/ Move \/ Bounce

-----------------------------------------------------------------------------
(* While the task waits nothing of a card is left half mounted, and what   *)
(* is mounted is what the task last saw: it would take the next card for a *)
(* device that exists, and block.                                          *)
WholeOrNothing ==
    sd = "wait" =>
        open \in IF last THEN { {"dev", "pm", "fs"}, {"dev", "pm", "part", "fs"} } ELSE { {} }

(* The task blocks for good only when the card it goes to mount was pulled *)
(* meanwhile (it does not look at the pin again after the debounce delay)  *)
(* or in a call that fails for a reason of its own, and never for a device *)
(* that an earlier card has left (mfs_filesystem.c:97-284): what is done   *)
(* and undone for one card, bounced or pulled as it may be, is in nobody's *)
(* way when the next one comes.                                            *)
NeverBlockedByLeftover ==
    [][sd # "blocked" /\ sd' = "blocked" => (last /\ ~card) \/ faults' # faults]_sdVars

(* "Wait for card insertion or removal" (mfs_filesystem.c:157): when nobody*)
(* touches the card any more, it is mounted if it is in and not if it is   *)
(* out, and main_task goes on if it is in.  The exception is a task that   *)
(* has blocked: no card is mounted or unmounted ever after.                *)
Settles ==
    \/ <>(sd = "blocked")
    \/ <>[](Mounted <=> card) /\ (<>[]card => <>(mount = "returned"))
=============================================================================
