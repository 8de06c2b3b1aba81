------------------------------ MODULE DelayServer ------------------------------
(***************************************************************************)
(* The delay of an application: the system call LLAPI_APP_DELAY_MS puts a  *)
(* request in app_api_queue (system/exception.c), and the task "LLAPI Srv" *)
(* suspends the caller, enters it in delay_task and resumes it when its    *)
(* time is over (system/app_runtime.c).  The server has priority 2 and     *)
(* the application 1.  app_stop and app_start, called by other tasks,      *)
(* delete the application and create the next one in the same static       *)
(* app_tcb: every request and every entry names that one task.             *)
(***************************************************************************)
EXTENDS Integers, Sequences, FiniteSets

CONSTANTS
    W,          \* ticks is an unsigned number modulo W (2^32 in the code)
    Delays,     \* milliseconds applications ask for
    QueueSize,  \* requests the queue holds (10 in the code)
    TableSize,  \* entries of delay_task (10 in the code)
    MaxStops    \* bound: times the application is stopped

ASSUME DelayAssumption ==
    /\ W \in Nat \ {0} /\ Delays \subseteq 0 .. W - 1
    /\ QueueSize \in Nat \ {0} /\ TableSize \in Nat \ {0}
    /\ MaxStops \in Nat

Slots == 1 .. TableSize
Empty == [used |-> FALSE, ms |-> 0, start |-> 0]
Entries == [used : BOOLEAN, ms : Delays \cup {0}, start : 0 .. W - 1]

VARIABLES
    ticks,   \* ticks of app_api_task
    table,   \* delay_task
    queue,   \* app_api_queue: the milliseconds asked for
    pc,      \* where the server is
    app,     \* the state of app_tcb in the kernel
    stops,   \* counts app_stop, for the bound
    asked,   \* history: the delay the application last asked for
    waited   \* history: rounds of the server since it suspended the application, up to W

vars == <<ticks, table, queue, pc, app, stops, asked, waited>>

TypeOK ==
    /\ ticks \in 0 .. W - 1
    /\ table \in [Slots -> Entries]
    /\ queue \in Seq(Delays) /\ Len(queue) <= QueueSize
    /\ pc \in {"sweep", "receive", "delay"}
    /\ app \in {"ready", "suspended", "deleted", "corrupt"}
    /\ stops \in 0 .. MaxStops
    /\ asked \in Delays \cup {0}
    /\ waited \in 0 .. W

-----------------------------------------------------------------------------
(* The server is blocked, and the application may run.                     *)
Blocked == pc = "delay" \/ (pc = "receive" /\ queue = <<>>)

(* The system call.  A full queue refuses the request, and nobody looks.   *)
Ask(ms) ==
    /\ app = "ready" /\ Blocked
    /\ queue' = IF Len(queue) < QueueSize THEN Append(queue, ms) ELSE queue
    /\ asked' = ms
    /\ UNCHANGED <<ticks, table, pc, app, stops, waited>>

-----------------------------------------------------------------------------
DueAbsolute(e, now) == now >= e.start + e.ms  \* mutant: compares with the end of the delay
DueLater(e, now) == (now - e.start) % W > e.ms  \* mutant: one round late

Due(e, now) == (now - e.start) % W >= e.ms

Tick == (ticks + 1) % W

(* The loop over delay_task ends at the first entry in use.                *)
Looked == {i \in Slots : table[i].used /\ \A j \in Slots : table[j].used => i <= j}

(* vTaskResume does nothing to a task that is not suspended.               *)
Sweep ==
    /\ pc = "sweep"
    /\ ticks' = Tick
    /\ LET due == {i \in Looked : Due(table[i], ticks')}
       IN /\ table' = [i \in Slots |-> IF i \in due THEN Empty ELSE table[i]]
          /\ app' = IF due # {} /\ app = "suspended" THEN "ready" ELSE app
    /\ waited' = IF app = "suspended" /\ waited < W THEN waited + 1 ELSE waited
    /\ pc' = "receive"
    /\ UNCHANGED <<queue, stops, asked>>

(* xQueueReceive waits for one tick.                                       *)
ReceiveNothing ==
    /\ pc = "receive" /\ queue = <<>>
    /\ pc' = "sweep"
    /\ UNCHANGED <<ticks, table, queue, app, stops, asked, waited>>

SuspendedLater(state) == state  \* mutant: the caller is not suspended

(* vTaskSuspend takes the task out of the list it is in; a deleted task is *)
(* in none.                                                                *)
Suspended(state) == IF state = "deleted" THEN "corrupt" ELSE "suspended"

FreeSlot == {i \in Slots : ~table[i].used /\ \A j \in Slots : ~table[j].used => i <= j}

Receive ==
    /\ pc = "receive" /\ queue # <<>>
    /\ queue' = Tail(queue)
    /\ app' = Suspended(app)
    /\ table' = [i \in Slots |->
                    IF i \in FreeSlot
                    THEN [used |-> TRUE, ms |-> Head(queue), start |-> ticks]
                    ELSE table[i]]
    /\ waited' = 0
    /\ pc' = "delay"
    /\ UNCHANGED <<ticks, stops, asked>>

(* vTaskDelay(1 ms) is over.                                               *)
DelayOver ==
    /\ pc = "delay"
    /\ pc' = "sweep"
    /\ UNCHANGED <<ticks, table, queue, app, stops, asked, waited>>

-----------------------------------------------------------------------------
(* app_stop, by a task of the same or a higher priority than the server.   *)
Stop ==
    /\ app \in {"ready", "suspended"} /\ stops < MaxStops
    /\ app' = "deleted"
    /\ stops' = stops + 1
    /\ UNCHANGED <<ticks, table, queue, pc, asked, waited>>

(* app_start, at least 50 ms later: the server has taken the request.      *)
Restart ==
    /\ app = "deleted" /\ queue = <<>>
    /\ app' = "ready"
    /\ UNCHANGED <<ticks, table, queue, pc, stops, asked, waited>>

-----------------------------------------------------------------------------
Init ==
    /\ ticks = 0 /\ table = [i \in Slots |-> Empty]
    /\ queue = <<>> /\ pc = "sweep"
    /\ app = "ready" /\ stops = 0
    /\ asked = 0 /\ waited = 0

Server == Sweep \/ ReceiveNothing \/ Receive \/ DelayOver

Next == \/ \E ms \in Delays : Ask(ms)
        \/ Server
        \/ Stop \/ Restart

(* The kernel runs the server when its timeout is over or a request comes. *)
Spec == Init /\ [][Next]_vars
FairSpec == Spec /\ WF_vars(Server)

-----------------------------------------------------------------------------
(* Properties.                                                             *)

(* Until the application is stopped it has at most one request in the      *)
(* queue and the table together, so neither is ever full and the break     *)
(* after the first entry passes nobody over.                               *)
OneOutstanding ==
    stops = 0 => Len(queue) + Cardinality({i \in Slots : table[i].used}) <= 1

(* Until the application is stopped it sleeps for the milliseconds it      *)
(* asked for (one when it asked for none), across a wrap of ticks.         *)
SleepsAsAsked ==
    [][stops = 0 /\ app = "suspended" /\ app' = "ready" =>
          waited' = IF asked = 0 THEN 1 ELSE asked]_vars

(* A suspended application is resumed, also when applications before it    *)
(* were stopped in their delay and left entries in the table: even one     *)
(* whose request found the table full is resumed by an older entry.        *)
DelayEnds == app = "suspended" ~> app # "suspended"
=============================================================================
