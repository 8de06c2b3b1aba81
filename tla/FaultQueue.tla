------------------------------ MODULE FaultQueue ------------------------------
(***************************************************************************)
(* What the system does with a fault that boot1 cannot resolve: sys_dab    *)
(* and sys_pab (system/exception.c) count it, put the task in a queue and  *)
(* let the kernel switch; the task "sysmmap" (system/sys_mmap.c) suspends  *)
(* the tasks it finds in the queue.  A task that is not suspended runs the *)
(* same instruction again and faults again; too many faults in a row reset *)
(* the machine.                                                            *)
(*                                                                         *)
(* The kernel is modelled as these handlers use it: of the ready tasks one *)
(* with the highest priority runs, equals share the processor, and nothing *)
(* is switched while the scheduler is suspended.                           *)
(***************************************************************************)
EXTENDS Integers, Sequences, FiniteSets

CONSTANTS
    Tasks,      \* the tasks besides sysmmap
    Priority,   \* their priorities
    App,        \* the task of the application, deleted and created by others
    QueueSize,  \* messages the queue holds (6 in the code)
    MaxFaults,  \* faults in a row that are tolerated (10 in the code)
    Server, Idle  \* model values: sysmmap and the idle task

ASSUME FaultAssumption ==
    /\ Priority \in [Tasks -> 1 .. 4] /\ App \in Tasks
    /\ \A t \in Tasks : Priority[t] <= Priority[App] => t = App
    /\ QueueSize \in Nat \ {0} /\ MaxFaults \in Nat \ {0}
    /\ Server \notin Tasks /\ Idle \notin Tasks /\ Server # Idle

VARIABLES
    current,   \* pxCurrentTCB
    ready,     \* the ready tasks, the running one included
    stuck,     \* tasks before an instruction that faults
    suspended, \* tasks suspended by sysmmap
    deleted,   \* the application is deleted
    held,      \* the running task has suspended the scheduler
    queue,     \* QfaultInfo
    count,     \* fault_count
    reset      \* bsp_reset was called

kernelVars == <<current, ready, held>>
vars == <<current, ready, stuck, suspended, deleted, held, queue, count, reset>>

TypeOK ==
    /\ current \in Tasks \cup {Server, Idle}
    /\ ready \subseteq Tasks \cup {Server}
    /\ stuck \subseteq Tasks /\ suspended \subseteq Tasks
    /\ deleted \in BOOLEAN /\ held \in BOOLEAN /\ reset \in BOOLEAN
    /\ queue \in Seq(Tasks) /\ Len(queue) <= QueueSize
    /\ count \in 0 .. MaxFaults + 1

-----------------------------------------------------------------------------
(* The kernel.                                                             *)

ServerIsThird == 3  \* mutant: sysmmap has the priority of the network task

ServerPriority == 4

Prio(t) == IF t = Server THEN ServerPriority ELSE Priority[t]

Top(set) == IF set = {} THEN {Idle}
            ELSE {t \in set : \A u \in set : Prio(u) <= Prio(t)}

(* A context switch, which a suspended scheduler only remembers.           *)
Switch == IF held THEN current' = current ELSE current' \in Top(ready')

(* A tick: equals take turns.                                              *)
Tick == /\ ~reset
        /\ UNCHANGED <<ready, held, stuck, suspended, deleted, queue, count, reset>>
        /\ Switch

Runs(t) == ~reset /\ current = t /\ t \notin stuck

Block(t) == /\ Runs(t) /\ ~held
            /\ ready' = ready \ {t}
            /\ Switch
            /\ UNCHANGED <<held, stuck, suspended, deleted, queue, count, reset>>

Wake(t) == /\ ~reset /\ t \notin ready \cup suspended
           /\ t = App => ~deleted
           /\ ready' = ready \cup {t}
           /\ Switch
           /\ UNCHANGED <<held, stuck, suspended, deleted, queue, count, reset>>

SuspendAll(t) == /\ Runs(t) /\ t # App /\ ~held
                 /\ held' = TRUE
                 /\ UNCHANGED <<current, ready, stuck, suspended, deleted, queue, count, reset>>

ResumeAll(t) == /\ Runs(t) /\ held
                /\ held' = FALSE
                /\ current' \in Top(ready)
                /\ UNCHANGED <<ready, stuck, suspended, deleted, queue, count, reset>>

(* The task comes to an instruction that faults for good.                  *)
GoWrong(t) == /\ Runs(t)
              /\ stuck' = stuck \cup {t}
              /\ UNCHANGED <<kernelVars, suspended, deleted, queue, count, reset>>

(* app_stop and app_start, by tasks above the application.                 *)
Stop(t) == /\ Runs(t) /\ t # App /\ Priority[t] < 4 /\ ~held /\ ~deleted
           /\ deleted' = TRUE
           /\ ready' = ready \ {App}
           /\ stuck' = stuck \ {App}
           /\ suspended' = suspended \ {App}
           /\ UNCHANGED <<current, held, queue, count, reset>>

Start(t) == /\ Runs(t) /\ t # App /\ Priority[t] < 4 /\ ~held /\ deleted
            /\ deleted' = FALSE
            /\ ready' = ready \cup {App}
            /\ UNCHANGED <<current, held, stuck, suspended, queue, count, reset>>

-----------------------------------------------------------------------------
(* sys_mmap_push and the switch after it.  A full queue drops the message. *)
(* sw is not initialised and only set when a task of a higher priority is  *)
(* woken: otherwise the handler switches or not.                           *)
Full == Len(queue) >= QueueSize

Woken(t) == ~Full /\ Server \notin ready /\ ServerPriority > Prio(t)

Push(t) ==
    /\ queue' = IF Full THEN queue ELSE Append(queue, t)
    /\ ready' = IF Full THEN ready ELSE ready \cup {Server}
    /\ \E sw \in BOOLEAN :
          /\ Woken(t) => sw
          /\ IF sw THEN Switch ELSE current' = current

CountStays == count  \* mutant: faults are not counted

Counted == count + 1

(* sys_dab: counts, and pushes only if it does not reset.                  *)
DataAbort(t) ==
    /\ ~reset /\ current = t /\ t \in stuck
    /\ count' = Counted
    /\ IF count' > MaxFaults
       THEN reset' = TRUE /\ UNCHANGED <<queue, ready, current>>
       ELSE reset' = FALSE /\ Push(t)
    /\ UNCHANGED <<held, stuck, suspended, deleted>>

(* sys_pab: pushes and switches, then counts.                              *)
PrefetchAbort(t) ==
    /\ ~reset /\ current = t /\ t \in stuck
    /\ Push(t)
    /\ count' = Counted
    /\ IF count' > MaxFaults THEN reset' = TRUE ELSE reset' = FALSE
    /\ UNCHANGED <<held, stuck, suspended, deleted>>

-----------------------------------------------------------------------------
(* sys_mmap_task.                                                          *)

CountKept == count  \* mutant: fault_count is not cleared

Cleared == 0

Receive ==
    /\ ~reset /\ current = Server /\ queue # <<>>
    /\ queue' = Tail(queue)
    /\ suspended' = suspended \cup {Head(queue)}
    /\ ready' = ready \ {Head(queue)}
    /\ count' = Cleared
    /\ UNCHANGED <<current, held, stuck, deleted, reset>>

(* xQueueReceive waits for a message.                                      *)
Wait ==
    /\ ~reset /\ current = Server /\ queue = <<>>
    /\ ready' = ready \ {Server}
    /\ Switch
    /\ UNCHANGED <<held, stuck, suspended, deleted, queue, count, reset>>

-----------------------------------------------------------------------------
Init ==
    /\ ready = Tasks \cup {Server} /\ current \in Top(Tasks \cup {Server})
    /\ stuck = {} /\ suspended = {} /\ deleted = FALSE
    /\ held = FALSE /\ queue = <<>> /\ count = 0 /\ reset = FALSE

(* The machine starts again.                                               *)
Reboot ==
    /\ reset
    /\ ready' = Tasks \cup {Server} /\ current' \in Top(ready')
    /\ stuck' = {} /\ suspended' = {} /\ deleted' = FALSE
    /\ held' = FALSE /\ queue' = <<>> /\ count' = 0 /\ reset' = FALSE

Abort(t) == DataAbort(t) \/ PrefetchAbort(t)

TaskStep(t) == \/ Block(t) \/ Wake(t) \/ SuspendAll(t) \/ ResumeAll(t) \/ GoWrong(t)
               \/ Stop(t) \/ Start(t) \/ Abort(t)

Next == \/ \E t \in Tasks : TaskStep(t)
        \/ Tick \/ Receive \/ Wait \/ Reboot

(* The loops of the tasks besides the application all wait (vTaskDelay,    *)
(* queues), interrupts leave room between them for an instruction, and     *)
(* equals share the processor: a ready sysmmap, which no task outranks,    *)
(* gets its turn, and so does every task unless several tasks above it     *)
(* take all of the processor by turns.                                     *)
Fairness == /\ \A t \in Tasks : SF_vars(Abort(t))
            /\ \A t \in Tasks \ {App} : SF_vars(Block(t)) /\ WF_vars(ResumeAll(t))
            /\ SF_vars(Tick /\ current' = Server)
            /\ SF_vars(Receive) /\ SF_vars(Wait)

Spec == Init /\ [][Next]_vars
FairSpec == Spec /\ Fairness

-----------------------------------------------------------------------------
(* Properties.                                                             *)

(* Only a task that faulted is suspended, and it is the one that faulted:  *)
(* no message outlives the application it names, so it is neither a        *)
(* deleted task nor the next application in the same app_tcb.              *)
OnlyFaultingSuspended == suspended \subseteq stuck

(* A task below sysmmap that faults outside vTaskSuspendAll is suspended   *)
(* at its first fault; it does not reset the machine.                      *)
ResetsOnlyAtTop ==
    [][reset' /\ ~reset => held \/ Priority[current] = 4]_vars

Faulting(t) == t \in stuck \ suspended

(* No fault is forgotten, though the queue drops messages and equals of    *)
(* sysmmap run in between: a task that is not suspended yet will fault     *)
(* again, a fault that is counted has a message before sysmmap, which      *)
(* clears the count, and sysmmap does not sleep over a message.            *)
NoFaultForgotten ==
    ~reset => /\ \A t \in Tasks : Faulting(t) => t \in ready
              /\ count > 0 => queue # <<>>
              /\ queue # <<>> => Server \in ready

(* A fault does not repeat for ever: the task is suspended (or deleted) or *)
(* the machine is reset, whatever sw holds and although the queue drops    *)
(* messages.                                                               *)
FaultEnds == \A t \in Tasks : (current = t /\ Faulting(t)) ~> (~Faulting(t) \/ reset)
=============================================================================
