----------------------------- MODULE AppLifecycle -----------------------------
(***************************************************************************)
(* Starting and stopping the one application (system/app_runtime.c), by    *)
(* the tasks that do it: the boot-time start task and the ON-key scanners  *)
(* (system/app_utils.c), and the USB network task that carries out EXEC_,  *)
(* KILL and SLS_START (system/sideload_server.c).                          *)
(*                                                                         *)
(* A task carries out a sequence of calls ("stop", "map", "start"); pc     *)
(* says where it is within the first of them.  The stretches between       *)
(* vTaskSuspendAll and xTaskResumeAll are single steps: no task runs in    *)
(* between.  The file manager (ExpUI), created at a boot without a usable  *)
(* configuration and after every stop by ON, is in the model as what it    *)
(* does to the others: a task above most of them that never waits.         *)
(*                                                                         *)
(* Left out: the saved status file, the stack size read from the image,    *)
(* and app_recover_from_status, which no reachable code calls (the flag    *)
(* that leads to it in ExpUI is never changed).                            *)
(***************************************************************************)
EXTENDS Integers, Sequences, FiniteSets

CONSTANTS
    Images,     \* application files
    NumSlots,   \* mmap slots left for applications (slot 0 holds sys.bin)
    NumBlocks,  \* bound: heap blocks an application's memory can get
    MaxScans,   \* bound: times in a row a scanner must see ON down (5 in the code)
    Setups,     \* the machines looked at
    NoImage, Sideload  \* model values

(* How the machine is used: "any" way, by "oneOperator" who gives a        *)
(* command or presses ON when nothing is going on, or by "turns", where    *)
(* the scanners do not wake up within each other's app_stop either.        *)
Usages == {"any", "oneOperator", "turns"}

(* A machine: its use, the images asked for, which of them cannot be       *)
(* mapped, the number of slots, and how often in a row a scanner must see  *)
(* ON down.                                                                *)
Setup == [usage : Usages, asked : SUBSET Images, missing : SUBSET Images,
          slots : 1 .. NumSlots, scans : 1 .. MaxScans]

ASSUME ImagesAssumption ==
    /\ NoImage \notin Images /\ Sideload \notin Images
    /\ "freed" \notin Images \cup {NoImage, Sideload}
    /\ NumSlots \in Nat \ {0} /\ NumBlocks \in Nat \ {0} /\ MaxScans \in Nat \ {0}
    /\ Setups \subseteq Setup

Start == "start"                      \* startTask
Usb == "usb"                          \* TinyUsb
Scanners == {"scan1", "scan2"}        \* ExpkeyScanning, created twice
Tasks == {Start, Usb} \cup Scanners
Blocks == 1 .. NumBlocks
NULL == 0

VARIABLES
    setup,     \* the machine, which stays as it is
    running,   \* app_running
    handle,    \* app_task_handle is set
    appTask,   \* the application task is in the lists of the kernel
    mmap,      \* the static mmap: a slot, or a negative error
    slots,     \* what each mmap slot of boot1 holds
    path,      \* mf.path: the allocated path, or "freed"
    alloc,     \* app_mem_warp_alloc
    blocks,    \* heap blocks in use
    lent,      \* the block lent to the application (ll_set_app_mem_warp)
    freed,     \* a block or path was freed twice
    todo,      \* the calls a task has still to carry out
    pc,        \* where it is in the first of them
    arg,       \* the image it starts
    onKey,     \* the ON key is down
    counter,   \* counter of each scanner
    fileManager \* there is a task ExpUI, one or more

appVars == <<setup, running, handle, appTask, mmap, slots, path, alloc, blocks, lent, freed>>
keyVars == <<onKey, counter, fileManager>>
vars == <<setup, running, handle, appTask, mmap, slots, path, alloc, blocks, lent, freed,
          todo, pc, arg, onKey, counter, fileManager>>

ScanLimit == setup.scans

Labels == {"idle", "begin", "stopping", "settling", "mapping", "reading",
           "launching", "marking", "gone", "deleted"}

TypeOK ==
    /\ setup \in Setups
    /\ running \in BOOLEAN /\ handle \in BOOLEAN /\ appTask \in BOOLEAN
    /\ mmap \in -1 .. NumSlots
    /\ slots \in [1 .. NumSlots -> Images \cup {NoImage}]
    /\ path \in Images \cup {NoImage, Sideload, "freed"}
    /\ alloc \in {NULL} \cup Blocks
    /\ blocks \subseteq Blocks
    /\ lent \in {NULL} \cup Blocks
    /\ freed \in BOOLEAN
    /\ todo \in [Tasks -> Seq({"stop", "map", "start"})]
    /\ pc \in [Tasks -> Labels]
    /\ arg \in [Tasks -> Images \cup {NoImage, Sideload}]
    /\ onKey \in BOOLEAN
    /\ counter \in [Scanners -> 0 .. ScanLimit]
    /\ fileManager \in BOOLEAN

-----------------------------------------------------------------------------
(* The kernel: a task is ready unless it waits or is gone, and runs only   *)
(* when no task of a higher priority is ready.  The file manager always    *)
(* is: the loop of ExpUI has no wait (the only vTaskDelay is on a path     *)
(* that is never taken).                                                   *)

PriorityFlat(t) == 2  \* mutant: the network task has no higher priority

Priority(t) == IF t = Usb THEN 3 ELSE 2

FileManagerPriority == 3

Ready(t) == pc[t] \in {"begin", "stopping", "mapping", "launching", "marking"}

GetsProcessor(t) == /\ \A u \in Tasks : Ready(u) => Priority(u) <= Priority(t)
                    /\ fileManager => FileManagerPriority <= Priority(t)

Runs(t) == Ready(t) /\ GetsProcessor(t)

Busy(t) == pc[t] \notin {"idle", "gone", "deleted"}

Quiet == ~onKey /\ \A t \in Tasks : ~Busy(t)

MayOperate == setup.usage = "any" \/ Quiet

At(t, call, label) == Runs(t) /\ pc[t] = label /\ todo[t] # <<>> /\ Head(todo[t]) = call

Goto(t, label) == pc' = [pc EXCEPT ![t] = label] /\ UNCHANGED todo

(* The call returns, and the next one begins.                              *)
Return(t) == /\ todo' = [todo EXCEPT ![t] = Tail(@)]
             /\ pc' = [pc EXCEPT ![t] = "begin"]

-----------------------------------------------------------------------------
(* app_stop.                                                               *)

(* The two early returns.                                                  *)
StopReturns(t) ==
    /\ At(t, "stop", "begin")
    /\ ~running \/ ~handle
    /\ Return(t)
    /\ UNCHANGED <<appVars, arg, keyVars>>

StopPasses(t) ==
    /\ At(t, "stop", "begin")
    /\ running /\ handle
    /\ Goto(t, "stopping")
    /\ UNCHANGED <<appVars, arg, keyVars>>

LentStays == lent     \* mutant: the memory is not taken back from the application
BlocksStay == blocks  \* mutant: the memory of the application is not freed

NothingUnmapped == slots  \* mutant: ll_mumap is forgotten

Unlent == NULL

BlocksFreed == blocks \ {alloc}

Unmapped == [s \in DOMAIN slots |-> IF s = mmap THEN NoImage ELSE slots[s]]

(* Everything with the scheduler suspended.  vTaskDelete of a null handle  *)
(* deletes the caller, which goes on until the scheduler resumes.          *)
StopApp(t) ==
    /\ At(t, "stop", "stopping")
    /\ freed' = (freed \/ path = "freed")
    /\ path' = IF path = NoImage THEN NoImage ELSE "freed"
    /\ appTask' = (appTask /\ ~handle)
    /\ lent' = Unlent
    /\ blocks' = BlocksFreed
    /\ alloc' = NULL
    /\ running' = FALSE
    /\ handle' = FALSE
    /\ slots' = Unmapped
    /\ Goto(t, IF handle THEN "settling" ELSE "deleted")
    /\ UNCHANGED <<setup, mmap, arg, keyVars>>

(* vTaskDelay(50 ms) is over.                                              *)
StopSettles(t) ==
    /\ pc[t] = "settling"
    /\ Return(t)
    /\ UNCHANGED <<appVars, arg, keyVars>>

-----------------------------------------------------------------------------
(* app_pre_start after its call of app_stop.  A side-loaded image is not   *)
(* mapped: the static mmap keeps its value.                                *)
PrepareImage(t) ==
    /\ At(t, "map", "begin")
    /\ path' = arg[t]
    /\ IF arg[t] = Sideload THEN Return(t) ELSE Goto(t, "mapping")
    /\ UNCHANGED <<setup, running, handle, appTask, mmap, slots, alloc, blocks, lent, freed,
                   arg, keyVars>>

FreeSlots == {s \in 1 .. setup.slots : slots[s] = NoImage}

(* ll_mmap of mf, which another task may have changed in between.          *)
MapImage(t) ==
    /\ At(t, "map", "mapping")
    /\ IF path \in Images \ setup.missing /\ FreeSlots # {}
       THEN \E s \in FreeSlots :
              /\ \A r \in FreeSlots : s <= r
              /\ mmap' = s
              /\ slots' = [slots EXCEPT ![s] = path]
       ELSE mmap' = -1 /\ UNCHANGED slots
    /\ Return(t)
    /\ UNCHANGED <<setup, running, handle, appTask, path, alloc, blocks, lent, freed, arg, keyVars>>

-----------------------------------------------------------------------------
(* app_start.                                                              *)

StartReturns(t) ==
    /\ At(t, "start", "begin")
    /\ running \/ mmap <= 0
    /\ Return(t)
    /\ UNCHANGED <<appVars, arg, keyVars>>

(* The stack size is read by a task of its own, which takes a while.       *)
StartPasses(t) ==
    /\ At(t, "start", "begin")
    /\ ~running /\ mmap > 0
    /\ Goto(t, "reading")
    /\ UNCHANGED <<appVars, arg, keyVars>>

StackIsRead(t) ==
    /\ pc[t] = "reading"
    /\ Goto(t, "launching")
    /\ UNCHANGED <<appVars, arg, keyVars>>

(* With the scheduler suspended: memory is allocated (or not) and lent,    *)
(* and the task is created in the static app_tcb.                          *)
Launch(t) ==
    /\ At(t, "start", "launching")
    /\ \E b \in (Blocks \ blocks) \cup {NULL} :
         /\ alloc' = b
         /\ lent' = b
         /\ blocks' = blocks \cup ({b} \ {NULL})
    /\ appTask' = TRUE
    /\ handle' = TRUE
    /\ Goto(t, "marking")
    /\ UNCHANGED <<setup, running, mmap, slots, path, freed, arg, keyVars>>

(* app_running is set after the scheduler has resumed.                     *)
MarkRunning(t) ==
    /\ At(t, "start", "marking")
    /\ running' = TRUE
    /\ Return(t)
    /\ UNCHANGED <<setup, handle, appTask, mmap, slots, path, alloc, blocks, lent, freed,
                   arg, keyVars>>

-----------------------------------------------------------------------------
(* The tasks.                                                              *)

Begins(t, calls, image) ==
    /\ todo' = [todo EXCEPT ![t] = calls]
    /\ arg' = [arg EXCEPT ![t] = image]
    /\ pc' = [pc EXCEPT ![t] = "begin"]

ExecOnlyMaps == <<"map", "start">>  \* mutant: EXEC_ and app_pre_start do not stop first

(* udp_recv_proc stops the application, and app_pre_start does again.      *)
ExecCalls == <<"stop", "stop", "map", "start">>

Exec(image) == /\ pc[Usb] = "idle" /\ MayOperate
               /\ Begins(Usb, ExecCalls, image)
               /\ UNCHANGED <<appVars, keyVars>>

Kill == /\ pc[Usb] = "idle" /\ MayOperate
        /\ Begins(Usb, <<"stop">>, NoImage)
        /\ UNCHANGED <<appVars, keyVars>>

SlsStart == /\ pc[Usb] = "idle" /\ MayOperate
            /\ Begins(Usb, ExecCalls, Sideload)
            /\ UNCHANGED <<appVars, keyVars>>

(* The reply is sent, and the network task waits for the next packet.      *)
Reply == /\ Runs(Usb) /\ pc[Usb] = "begin" /\ todo[Usb] = <<>>
         /\ Goto(Usb, "idle")
         /\ arg' = [arg EXCEPT ![Usb] = NoImage]
         /\ UNCHANGED <<appVars, keyVars>>

(* startApp creates another scanner and deletes itself.                    *)
StartEnds == /\ Runs(Start) /\ pc[Start] = "begin" /\ todo[Start] = <<>>
             /\ pc' = [pc EXCEPT ![Start] = "gone", !["scan2"] = "idle"]
             /\ arg' = [arg EXCEPT ![Start] = NoImage]
             /\ UNCHANGED <<appVars, todo, keyVars>>

CountedEdges(s) == IF ~onKey THEN 0 ELSE 1  \* mutant: the counter does not add up

Counted(s) == IF ~onKey THEN 0 ELSE IF counter[s] < ScanLimit THEN counter[s] + 1 ELSE ScanLimit

(* A scanner wakes every 100 ms; from ScanLimit times on it stops the      *)
(* application and opens the file manager.                                 *)
Scan(s) ==
    /\ pc[s] = "idle"
    /\ GetsProcessor(s)
    /\ counter' = [counter EXCEPT ![s] = Counted(s)]
    /\ IF counter'[s] >= ScanLimit
       THEN /\ setup.usage = "turns" => \A u \in Tasks : ~Busy(u)
            /\ Begins(s, <<"stop">>, NoImage)
       ELSE UNCHANGED <<todo, pc, arg>>
    /\ UNCHANGED <<appVars, onKey, fileManager>>

ScanEnds(s) == /\ Runs(s) /\ pc[s] = "begin" /\ todo[s] = <<>>
               /\ Goto(s, "idle")
               /\ fileManager' = TRUE
               /\ UNCHANGED <<appVars, arg, onKey, counter>>

(* ExpUI deletes itself when malloc fails, and is suspended when it faults. *)
FileManagerEnds == /\ fileManager
                   /\ fileManager' = FALSE
                   /\ UNCHANGED <<appVars, todo, pc, arg, onKey, counter>>

PressOrRelease == /\ onKey \/ MayOperate
                  /\ onKey' = ~onKey
                  /\ UNCHANGED <<appVars, todo, pc, arg, counter, fileManager>>

-----------------------------------------------------------------------------
(* appUtilsInit: the image the configuration names is started, and there   *)
(* is a scanner; or there is only the file manager.                        *)
BootsWithImage ==
    /\ \E image \in setup.asked : arg = [t \in Tasks |-> IF t = Start THEN image ELSE NoImage]
    /\ todo = [t \in Tasks |-> IF t = Start THEN <<"stop", "map", "start">> ELSE <<>>]
    /\ pc = [t \in Tasks |-> IF t = Start THEN "begin"
                             ELSE IF t = "scan2" THEN "gone" ELSE "idle"]
    /\ fileManager = FALSE

BootsWithoutImage ==
    /\ arg = [t \in Tasks |-> NoImage]
    /\ todo = [t \in Tasks |-> <<>>]
    /\ pc = [t \in Tasks |-> IF t = Usb THEN "idle" ELSE "gone"]
    /\ fileManager = TRUE

Init ==
    /\ setup \in Setups
    /\ running = FALSE /\ handle = FALSE /\ appTask = FALSE
    /\ mmap = 0
    /\ slots = [s \in 1 .. NumSlots |-> NoImage]
    /\ path = NoImage
    /\ alloc = NULL /\ blocks = {} /\ lent = NULL /\ freed = FALSE
    /\ BootsWithImage \/ BootsWithoutImage
    /\ onKey = FALSE
    /\ counter = [s \in Scanners |-> 0]

(* A step of a task within the calls it carries out.                       *)
CallStep(t) == \/ StopReturns(t) \/ StopPasses(t) \/ StopApp(t) \/ StopSettles(t)
               \/ PrepareImage(t) \/ MapImage(t)
               \/ StartReturns(t) \/ StartPasses(t) \/ StackIsRead(t)
               \/ Launch(t) \/ MarkRunning(t)

TaskStep(t) == \/ CallStep(t)
               \/ t = Usb /\ Reply
               \/ t = Start /\ StartEnds
               \/ t \in Scanners /\ (Scan(t) \/ ScanEnds(t))

Next == \/ \E t \in Tasks : TaskStep(t)
        \/ \E image \in setup.asked : Exec(image)
        \/ Kill \/ SlsStart
        \/ PressOrRelease
        \/ FileManagerEnds

(* The kernel lets every task that may run do so: delays end, equal        *)
(* priorities share the processor by time slices.  A scanner below a file  *)
(* manager may not run, and nothing obliges a file manager to end.         *)
Fairness == \A t \in Tasks : WF_vars(TaskStep(t))

Spec == Init /\ [][Next]_vars
FairSpec == Spec /\ Fairness

-----------------------------------------------------------------------------
(* Properties.                                                             *)

(* The memory lent to the application is never free in the heap of the     *)
(* system, although the tasks overwrite app_mem_warp_alloc and free it     *)
(* under each other.                                                       *)
LentIsAllocated == lent # NULL => lent \in blocks

(* FreeRTOS/tasks.c:1213, configASSERT( uxSchedulerSuspended == 0 ): no    *)
(* task deletes itself with the scheduler suspended, which app_stop does   *)
(* with a null handle.                                                     *)
NoSelfDelete == \A t \in Tasks : pc[t] # "deleted"

(* The network task is not deleted by app_stop: its priority keeps the     *)
(* others out between the check of the handle and its use.                 *)
NetworkSurvives == pc[Usb] # "deleted"

(* The image an application runs is the one that was asked for last: no    *)
(* older mapping is left in front of it.                                   *)
Served == IF \E s \in DOMAIN slots : slots[s] # NoImage
          THEN slots[CHOOSE s \in DOMAIN slots :
                        /\ slots[s] # NoImage
                        /\ \A r \in DOMAIN slots : slots[r] # NoImage => s <= r]
          ELSE NoImage

RunsTheImageAskedFor ==
    setup.usage = "turns" /\ running /\ path \in Images => Served = path

(* Nothing is lost over any number of starts and stops: a mapping is the   *)
(* one app_stop will close, a block the one it will free, and none is      *)
(* freed twice.                                                            *)
Balanced ==
    setup.usage = "turns" =>
        /\ \A s \in DOMAIN slots : slots[s] # NoImage => s = mmap
        /\ blocks \subseteq {alloc}
        /\ ~freed

(* Every command of the host is answered.                                  *)
CommandAnswered == pc[Usb] = "begin" ~> pc[Usb] = "idle"

(* Where there is a scanner, holding the ON key stops an application that  *)
(* runs while there is no file manager (app_utils.c:557).  With a file     *)
(* manager no scanner runs, so an application that the host starts after   *)
(* the first stop by ON, or after a boot without an image, does not stop.  *)
OnKeyStops ==
    setup.usage = "turns" =>
        (running /\ ~fileManager /\ pc["scan1"] # "gone" /\ []onKey ~> ~running)
=============================================================================
