--------------------------- MODULE FaultQueueProofs ---------------------------
(***************************************************************************)
(* Theorems about faults that boot1 cannot resolve, for any tasks below or *)
(* beside sysmmap, any size of the queue and any number of faults that are *)
(* tolerated.                                                              *)
(***************************************************************************)
EXTENDS FaultQueue, TLAPS

LEMMA PrioFacts ==
    /\ Prio(Server) = 4
    /\ \A t \in Tasks : t # Server /\ t # Idle /\ Prio(t) = Priority[t] /\ Prio(t) \in 1 .. 4
BY FaultAssumption DEF Prio, ServerPriority

(* While sysmmap is ready, what the kernel picks is beside it.             *)
LEMMA TopFacts ==
    ASSUME NEW S, S \subseteq Tasks \cup {Server}, NEW c \in Top(S)
    PROVE  /\ c \in S \cup {Idle}
           /\ Server \in S => c \in S /\ Prio(c) = 4
<1>1. CASE S = {}
  BY <1>1 DEF Top
<1>2. CASE S # {}
  <2>1. c \in S /\ \A u \in S : Prio(u) <= Prio(c)
    BY <1>2 DEF Top
  <2>2. ASSUME Server \in S PROVE Prio(c) = 4
    <3>1. 4 <= Prio(c)
      BY <2>1, <2>2, PrioFacts
    <3> QED BY <2>1, <3>1, PrioFacts
  <2> QED BY <2>1, <2>2
<1> QED BY <1>1, <1>2

LEMMA SwitchType ==
    ASSUME TypeOK, Switch, ready' \subseteq Tasks \cup {Server}
    PROVE  current' \in Tasks \cup {Server, Idle}
BY TopFacts DEF Switch, TypeOK

(* A message and the switch after it.                                      *)
LEMMA PushFacts ==
    ASSUME TypeOK, NEW t \in Tasks, current = t, Push(t)
    PROVE  /\ queue' \in Seq(Tasks) /\ Len(queue') <= QueueSize
           /\ queue' \in {queue, Append(queue, t)} /\ queue' # <<>>
           /\ ready' \in {ready, ready \cup {Server}}
           /\ queue' = queue => ready' = ready /\ queue # <<>>
           /\ queue' # queue => Server \in ready'
           /\ ready' \subseteq Tasks \cup {Server}
           /\ current' \in Tasks \cup {Server, Idle}
           /\ current' = current \/ Switch
           /\ queue = <<>> /\ Server \notin ready /\ Prio(t) < 4 => Switch
<1>1. /\ Full <=> Len(queue) >= QueueSize
      /\ queue \in Seq(Tasks) /\ Len(queue) \in Nat /\ Len(queue) <= QueueSize
      /\ QueueSize \in Nat \ {0}
  BY FaultAssumption DEF Full, TypeOK
<1>2. queue = <<>> => ~Full
  BY <1>1
<1>3. CASE Full
  <2>1. queue' = queue /\ ready' = ready /\ queue # <<>>
    BY <1>2, <1>3 DEF Push
  <2>2. current' = current \/ Switch
    BY DEF Push
  <2>3. ready' \subseteq Tasks \cup {Server}
    BY <2>1 DEF TypeOK
  <2>4. current' \in Tasks \cup {Server, Idle}
    BY <2>2, <2>3, SwitchType DEF TypeOK
  <2> QED BY <1>1, <2>1, <2>2, <2>3, <2>4, <1>2
<1>4. CASE ~Full
  <2>1. queue' = Append(queue, t) /\ ready' = ready \cup {Server}
    BY <1>4 DEF Push
  <2>2. Len(queue') = Len(queue) + 1 /\ queue' \in Seq(Tasks)
    BY <1>1, <2>1
  <2>3. queue' # <<>> /\ queue' # queue /\ Len(queue') <= QueueSize
    BY <1>1, <1>4, <2>2
  <2>4. current' = current \/ Switch
    BY DEF Push
  <2>5. ready' \subseteq Tasks \cup {Server}
    BY <2>1 DEF TypeOK
  <2>6. current' \in Tasks \cup {Server, Idle}
    BY <2>4, <2>5, SwitchType DEF TypeOK
  <2>7. ASSUME Server \notin ready, Prio(t) < 4 PROVE Switch
    <3>1. Woken(t)
      BY <1>4, <2>7, PrioFacts DEF Woken, Prio
    <3> QED BY <3>1 DEF Push
  <2> QED BY <2>1, <2>2, <2>3, <2>4, <2>5, <2>6, <2>7
<1> QED BY <1>3, <1>4

(* More than MaxFaults faults in a row are only counted by a reset.        *)
FaultType == TypeOK /\ (~reset => count <= MaxFaults)

LEMMA FaultInitType == Init => FaultType
<1> SUFFICES ASSUME Init PROVE FaultType
  OBVIOUS
<1>1. current \in Tasks \cup {Server, Idle}
  BY TopFacts DEF Init
<1>2. queue \in Seq(Tasks) /\ Len(queue) <= QueueSize
  BY FaultAssumption DEF Init
<1>3. count \in 0 .. MaxFaults + 1 /\ count <= MaxFaults
  BY FaultAssumption DEF Init
<1> QED BY <1>1, <1>2, <1>3, FaultAssumption DEF Init, TypeOK, FaultType

LEMMA AbortCounts ==
    ASSUME FaultType, NEW t \in Tasks, Abort(t)
    PROVE  /\ ~reset /\ current = t /\ t \in stuck
           /\ count' = count + 1
           /\ count' \in 1 .. MaxFaults + 1
           /\ reset' \in BOOLEAN /\ (reset' <=> count' > MaxFaults)
           /\ Push(t) \/ (reset' /\ UNCHANGED <<queue, ready, current>>)
           /\ UNCHANGED <<held, stuck, suspended, deleted>>
<1>1. /\ ~reset /\ current = t /\ t \in stuck
      /\ count' = count + 1
      /\ reset' \in BOOLEAN /\ (reset' <=> count' > MaxFaults)
      /\ Push(t) \/ (reset' /\ UNCHANGED <<queue, ready, current>>)
      /\ UNCHANGED <<held, stuck, suspended, deleted>>
  BY DEF Abort, DataAbort, PrefetchAbort, Counted
<1>2. count \in 0 .. MaxFaults /\ MaxFaults \in Nat
  BY <1>1, FaultAssumption DEF FaultType, TypeOK
<1>3. count' \in 1 .. MaxFaults + 1
  BY <1>1, <1>2
<1> QED BY <1>1, <1>3

LEMMA AbortType ==
    ASSUME FaultType, NEW t \in Tasks, Abort(t)
    PROVE  FaultType'
<1>1. count' \in 0 .. MaxFaults + 1 /\ (~reset' => count' <= MaxFaults)
  BY AbortCounts, FaultAssumption
<1>2. CASE Push(t)
  BY <1>1, <1>2, AbortCounts, PushFacts DEF FaultType, TypeOK
<1>3. CASE UNCHANGED <<queue, ready, current>>
  BY <1>1, <1>3, AbortCounts DEF FaultType, TypeOK
<1> QED BY <1>2, <1>3, AbortCounts

LEMMA FaultNextType == FaultType /\ [Next]_vars => FaultType'
<1> SUFFICES ASSUME FaultType, [Next]_vars PROVE FaultType'
  OBVIOUS
<1> USE DEF FaultType
<1>1. ASSUME NEW t \in Tasks, Block(t) PROVE FaultType'
  <2>1. current' \in Tasks \cup {Server, Idle}
    BY <1>1, SwitchType DEF Block, TypeOK
  <2> QED BY <1>1, <2>1 DEF Block, TypeOK
<1>2. ASSUME NEW t \in Tasks, Wake(t) PROVE FaultType'
  <2>1. current' \in Tasks \cup {Server, Idle}
    BY <1>2, SwitchType DEF Wake, TypeOK
  <2> QED BY <1>2, <2>1 DEF Wake, TypeOK
<1>3. ASSUME NEW t \in Tasks, SuspendAll(t) PROVE FaultType'
  BY <1>3 DEF SuspendAll, TypeOK
<1>4. ASSUME NEW t \in Tasks, ResumeAll(t) PROVE FaultType'
  <2>1. current' \in Tasks \cup {Server, Idle}
    BY <1>4, TopFacts DEF ResumeAll, TypeOK
  <2> QED BY <1>4, <2>1 DEF ResumeAll, TypeOK
<1>5. ASSUME NEW t \in Tasks, GoWrong(t) PROVE FaultType'
  BY <1>5 DEF GoWrong, kernelVars, TypeOK
<1>6. ASSUME NEW t \in Tasks, Stop(t) PROVE FaultType'
  BY <1>6 DEF Stop, TypeOK
<1>7. ASSUME NEW t \in Tasks, Start(t) PROVE FaultType'
  BY <1>7, FaultAssumption DEF Start, TypeOK
<1>8. ASSUME NEW t \in Tasks, Abort(t) PROVE FaultType'
  BY <1>8, AbortType
<1>9. CASE Tick
  <2>1. current' \in Tasks \cup {Server, Idle}
    BY <1>9, SwitchType DEF Tick, TypeOK
  <2> QED BY <1>9, <2>1 DEF Tick, TypeOK
<1>10. CASE Receive
  <2>1. Head(queue) \in Tasks /\ queue' \in Seq(Tasks) /\ Len(queue') <= QueueSize
    BY <1>10, FaultAssumption DEF Receive, TypeOK
  <2> QED BY <1>10, <2>1, FaultAssumption DEF Receive, Cleared, TypeOK
<1>11. CASE Wait
  <2>1. current' \in Tasks \cup {Server, Idle}
    BY <1>11, SwitchType DEF Wait, TypeOK
  <2> QED BY <1>11, <2>1 DEF Wait, TypeOK
<1>12. CASE Reboot
  <2>1. current' \in Tasks \cup {Server, Idle}
    BY <1>12, TopFacts DEF Reboot
  <2>2. queue' \in Seq(Tasks) /\ Len(queue') <= QueueSize
    BY <1>12, FaultAssumption DEF Reboot
  <2>3. count' \in 0 .. MaxFaults + 1 /\ count' <= MaxFaults
    BY <1>12, FaultAssumption DEF Reboot
  <2> QED BY <1>12, <2>1, <2>2, <2>3 DEF Reboot, TypeOK
<1>13. CASE UNCHANGED vars
  BY <1>13 DEF vars, TypeOK
<1> QED BY <1>1, <1>2, <1>3, <1>4, <1>5, <1>6, <1>7, <1>8, <1>9, <1>10, <1>11, <1>12, <1>13
        DEF Next, TaskStep

(* The task that runs, the messages and the counter stay in their types:   *)
(* QfaultInfo never holds more than it was created for, and fault_count    *)
(* never passes the fault that resets the machine.                         *)
THEOREM FaultTypeCorrect == Spec => []TypeOK
<1>1. FaultType => TypeOK
  BY DEF FaultType
<1> QED BY <1>1, FaultInitType, FaultNextType, PTL DEF Spec
-----------------------------------------------------------------------------
(* A message waits only while sysmmap is ready, and then, unless the       *)
(* scheduler is suspended, nothing below sysmmap runs: neither a task that *)
(* deletes the application a message names nor one whose faults are not    *)
(* answered.  The counter is cleared before the queue runs empty.          *)
ServerTurns ==
    /\ queue # <<>> => Server \in ready
    /\ ~held /\ Server \in ready => current # Idle /\ Prio(current) = 4

NamesFaulting ==
    /\ \A i \in 1 .. Len(queue) : queue[i] \in stuck
    /\ suspended \subseteq stuck

CountAnswered == ~reset /\ count > 0 => queue # <<>>

QueueInv == FaultType /\ ServerTurns /\ NamesFaulting /\ CountAnswered

LEMMA SwitchTurns ==
    ASSUME FaultType', ServerTurns, UNCHANGED held, Switch,
           queue' # <<>> => Server \in ready',
           held => (Server \in ready' => Server \in ready)
                   \/ current' = current
    PROVE  ServerTurns'
<1>1. CASE held
  BY <1>1 DEF ServerTurns
<1>2. CASE ~held
  <2>1. current' \in Top(ready')
    BY <1>2 DEF Switch
  <2>2. Server \in ready' => current' # Idle /\ Prio(current') = 4
    BY <2>1, TopFacts, FaultAssumption DEF FaultType, TypeOK
  <2> QED BY <2>2 DEF ServerTurns
<1> QED BY <1>1, <1>2

(* A task below sysmmap that runs finds the queue empty and no fault       *)
(* counted.                                                                *)
LEMMA BelowServer ==
    ASSUME QueueInv, NEW t \in Tasks, current = t, ~held, ~reset, Priority[t] # 4
    PROVE  Server \notin ready /\ queue = <<>> /\ count = 0
<1>1. Server \notin ready
  BY PrioFacts DEF QueueInv, ServerTurns
<1>2. queue = <<>>
  BY <1>1 DEF QueueInv, ServerTurns
<1>3. count = 0
  BY <1>2, FaultAssumption DEF QueueInv, CountAnswered, FaultType, TypeOK
<1> QED BY <1>1, <1>2, <1>3

LEMMA QueueInvInit == Init => QueueInv
<1> SUFFICES ASSUME Init PROVE QueueInv
  OBVIOUS
<1>1. FaultType
  BY FaultInitType
<1>2. current # Idle /\ Prio(current) = 4
  BY TopFacts, FaultAssumption DEF Init
<1>3. ServerTurns /\ NamesFaulting /\ CountAnswered
  BY <1>2 DEF Init, ServerTurns, NamesFaulting, CountAnswered
<1> QED BY <1>1, <1>3 DEF QueueInv

LEMMA AbortQueue ==
    ASSUME QueueInv, NEW t \in Tasks, Abort(t)
    PROVE  QueueInv'
<1>1. /\ FaultType' /\ FaultType /\ TypeOK /\ ServerTurns /\ NamesFaulting /\ CountAnswered
      /\ ~reset /\ current = t /\ t \in stuck
      /\ UNCHANGED <<held, stuck, suspended>>
  BY AbortType, AbortCounts DEF QueueInv, FaultType
<1>2. CASE Push(t)
  <2>1. /\ queue' \in {queue, Append(queue, t)} /\ queue' # <<>>
        /\ queue' = queue => ready' = ready /\ queue # <<>>
        /\ queue' # queue => Server \in ready'
        /\ current' = current \/ Switch
        /\ queue = <<>> /\ Server \notin ready /\ Prio(t) < 4 => Switch
    BY <1>1, <1>2, PushFacts
  <2>2. Server \in ready'
    BY <1>1, <2>1 DEF ServerTurns
  <2>3. ASSUME Switch PROVE ServerTurns'
    <3>1. CASE held
      BY <1>1, <2>2, <3>1 DEF ServerTurns
    <3>2. CASE ~held
      <4>1. current' \in Top(ready')
        BY <2>3, <3>2 DEF Switch
      <4>2. current' # Idle /\ Prio(current') = 4
        BY <1>1, <2>2, <4>1, TopFacts, FaultAssumption DEF FaultType, TypeOK
      <4> QED BY <2>2, <4>2 DEF ServerTurns
    <3> QED BY <3>1, <3>2
  <2>4. ASSUME ~Switch PROVE ServerTurns'
    <3>1. current' = current /\ current # Idle
      BY <1>1, <2>1, <2>4, PrioFacts
    <3>2. ~held => Prio(current) = 4
      BY <1>1, <2>1, <2>4, PrioFacts DEF ServerTurns
    <3> QED BY <1>1, <2>2, <3>1, <3>2 DEF ServerTurns
  <2>5. NamesFaulting'
    <3>1. CASE queue' = queue
      BY <1>1, <3>1 DEF NamesFaulting
    <3>2. CASE queue' = Append(queue, t)
      <4>1. queue \in Seq(Tasks) /\ Len(queue) \in Nat
        BY <1>1 DEF TypeOK
      <4>2. Len(queue') = Len(queue) + 1
        BY <3>2, <4>1
      <4>3. ASSUME NEW i \in 1 .. Len(queue') PROVE queue'[i] \in stuck
        <5>1. CASE i = Len(queue) + 1
          BY <1>1, <3>2, <4>1, <5>1
        <5>2. CASE i # Len(queue) + 1
          <6>1. i \in 1 .. Len(queue)
            BY <4>1, <4>2, <5>2
          <6>2. queue'[i] = queue[i]
            BY <3>2, <4>1, <6>1
          <6> QED BY <1>1, <6>1, <6>2 DEF NamesFaulting
        <5> QED BY <5>1, <5>2
      <4> QED BY <1>1, <4>3 DEF NamesFaulting
    <3> QED BY <2>1, <3>1, <3>2
  <2>6. CountAnswered'
    BY <2>1 DEF CountAnswered
  <2> QED BY <1>1, <2>3, <2>4, <2>5, <2>6 DEF QueueInv
<1>3. CASE reset' /\ UNCHANGED <<queue, ready, current>>
  BY <1>1, <1>3 DEF QueueInv, ServerTurns, NamesFaulting, CountAnswered
<1> QED BY <1>2, <1>3, AbortCounts DEF QueueInv

LEMMA QueueInvStep == QueueInv /\ [Next]_vars => QueueInv'
<1> SUFFICES ASSUME QueueInv, [Next]_vars PROVE QueueInv'
  OBVIOUS
<1>0. /\ FaultType' /\ FaultType /\ TypeOK /\ ServerTurns /\ NamesFaulting /\ CountAnswered
      /\ \A t \in Tasks : t # Server /\ t # Idle
      /\ App \in Tasks /\ Server # Idle
  BY FaultNextType, PrioFacts, FaultAssumption DEF QueueInv, FaultType
<1>1. ASSUME NEW t \in Tasks, Block(t) PROVE QueueInv'
  <2>1. Switch /\ UNCHANGED held /\ (queue' # <<>> => Server \in ready')
        /\ (Server \in ready' => Server \in ready)
    BY <1>0, <1>1 DEF Block, ServerTurns
  <2>2. ServerTurns'
    BY <1>0, <2>1, SwitchTurns
  <2> QED BY <1>0, <1>1, <2>2 DEF Block, QueueInv, NamesFaulting, CountAnswered
<1>2. ASSUME NEW t \in Tasks, Wake(t) PROVE QueueInv'
  <2>1. Switch /\ UNCHANGED held /\ (queue' # <<>> => Server \in ready')
        /\ (Server \in ready' => Server \in ready)
    BY <1>0, <1>2 DEF Wake, ServerTurns
  <2>2. ServerTurns'
    BY <1>0, <2>1, SwitchTurns
  <2> QED BY <1>0, <1>2, <2>2 DEF Wake, QueueInv, NamesFaulting, CountAnswered
<1>3. ASSUME NEW t \in Tasks, SuspendAll(t) PROVE QueueInv'
  BY <1>0, <1>3 DEF SuspendAll, QueueInv, ServerTurns, NamesFaulting, CountAnswered
<1>4. ASSUME NEW t \in Tasks, ResumeAll(t) PROVE QueueInv'
  <2>1. Server \in ready => current' # Idle /\ Prio(current') = 4
    BY <1>0, <1>4, TopFacts DEF ResumeAll, TypeOK
  <2> QED BY <1>0, <1>4, <2>1 DEF ResumeAll, QueueInv, ServerTurns, NamesFaulting, CountAnswered
<1>5. ASSUME NEW t \in Tasks, GoWrong(t) PROVE QueueInv'
  BY <1>0, <1>5 DEF GoWrong, kernelVars, QueueInv, ServerTurns, NamesFaulting, CountAnswered
<1>6. ASSUME NEW t \in Tasks, Stop(t) PROVE QueueInv'
  <2>1. queue = <<>>
    BY <1>6, BelowServer, FaultAssumption DEF Stop, Runs
  <2>2. NamesFaulting'
    BY <1>0, <1>6, <2>1 DEF Stop, NamesFaulting
  <2>3. ServerTurns'
    BY <1>0, <1>6, <2>1 DEF Stop, ServerTurns
  <2> QED BY <1>0, <1>6, <2>2, <2>3 DEF Stop, QueueInv, CountAnswered
<1>7. ASSUME NEW t \in Tasks, Start(t) PROVE QueueInv'
  BY <1>0, <1>7 DEF Start, QueueInv, ServerTurns, NamesFaulting, CountAnswered
<1>8. ASSUME NEW t \in Tasks, Abort(t) PROVE QueueInv'
  BY <1>8, AbortQueue
<1>9. CASE Tick
  <2>1. ServerTurns'
    BY <1>0, <1>9, SwitchTurns DEF Tick, ServerTurns
  <2> QED BY <1>0, <1>9, <2>1 DEF Tick, QueueInv, NamesFaulting, CountAnswered
<1>10. CASE Receive
  <2>1. queue \in Seq(Tasks) /\ queue # <<>> /\ Len(queue) \in Nat \ {0}
    BY <1>0, <1>10 DEF Receive, TypeOK
  <2>2. Head(queue) = queue[1] /\ Len(Tail(queue)) = Len(queue) - 1
        /\ \A i \in 1 .. Len(queue) - 1 : Tail(queue)[i] = queue[i + 1]
    BY <2>1
  <2>3. Head(queue) \in stuck /\ Head(queue) # Server
    BY <1>0, <2>1, <2>2 DEF NamesFaulting, TypeOK
  <2>4. NamesFaulting'
    <3>1. \A i \in 1 .. Len(queue) - 1 : i + 1 \in 1 .. Len(queue)
      BY <2>1
    <3> QED BY <1>0, <1>10, <2>2, <2>3, <3>1 DEF Receive, NamesFaulting
  <2>5. ServerTurns'
    BY <1>0, <1>10, <2>3, PrioFacts DEF Receive, ServerTurns
  <2>6. CountAnswered'
    BY <1>10 DEF Receive, Cleared, CountAnswered
  <2> QED BY <1>0, <2>4, <2>5, <2>6 DEF QueueInv
<1>11. CASE Wait
  BY <1>0, <1>11 DEF Wait, QueueInv, ServerTurns, NamesFaulting, CountAnswered
<1>12. CASE Reboot
  <2>1. current' # Idle /\ Prio(current') = 4
    BY <1>0, <1>12, TopFacts DEF Reboot
  <2> QED BY <1>0, <1>12, <2>1 DEF Reboot, QueueInv, ServerTurns, NamesFaulting, CountAnswered
<1>13. CASE UNCHANGED vars
  BY <1>0, <1>13 DEF vars, QueueInv, ServerTurns, NamesFaulting, CountAnswered
<1> QED BY <1>1, <1>2, <1>3, <1>4, <1>5, <1>6, <1>7, <1>8, <1>9, <1>10, <1>11, <1>12, <1>13
        DEF Next, TaskStep

(* sys_mmap_task suspends only tasks that stand before an instruction that *)
(* faults: the pointer it takes from QfaultInfo never outlives the         *)
(* application it was taken from.                                          *)
THEOREM SuspendedHaveFaulted == Spec => []OnlyFaultingSuspended
<1>1. QueueInv => OnlyFaultingSuspended
  BY DEF QueueInv, NamesFaulting, OnlyFaultingSuspended
<1> QED BY <1>1, QueueInvInit, QueueInvStep, PTL DEF Spec

(* fault_count reaches its limit only by the faults of a task beside       *)
(* sysmmap or of one that has suspended the scheduler.                     *)
THEOREM ResetsAreEarned == Spec => ResetsOnlyAtTop
<1>1. ASSUME QueueInv, [Next]_vars
      PROVE  [reset' /\ ~reset => held \/ Priority[current] = 4]_vars
  <2> SUFFICES ASSUME reset', ~reset, ~held, Priority[current] # 4
               PROVE  FALSE
    OBVIOUS
  <2>1. ASSUME NEW t \in Tasks, Abort(t) PROVE FALSE
    <3>1. current = t /\ count' = count + 1 /\ count' > MaxFaults
      BY <1>1, <2>1, AbortCounts DEF QueueInv
    <3>2. count = 0
      BY <1>1, <3>1, BelowServer
    <3> QED BY <3>1, <3>2, FaultAssumption
  <2>2. ASSUME NEW t \in Tasks, TaskStep(t), ~Abort(t) PROVE reset' = reset
    BY <2>2 DEF TaskStep, Block, Wake, SuspendAll, ResumeAll, GoWrong, Stop, Start
  <2>3. Tick \/ Receive \/ Wait \/ UNCHANGED vars => reset' = reset
    BY DEF Tick, Receive, Wait, vars
  <2>4. ~Reboot
    BY DEF Reboot
  <2> QED BY <1>1, <2>1, <2>2, <2>3, <2>4 DEF Next
<1> QED BY <1>1, QueueInvInit, QueueInvStep, PTL DEF Spec, ResetsOnlyAtTop
-----------------------------------------------------------------------------
(* A faulting task stays ready: only the task that runs can come to a      *)
(* faulting instruction, what runs is ready, and of the tasks before such  *)
(* an instruction only those that sysmmap suspends stop being ready.       *)
StuckReady ==
    /\ current \in ready \cup {Idle}
    /\ held => current \in Tasks
    /\ stuck \subseteq ready \cup suspended

LEMMA SwitchedToReady ==
    ASSUME FaultType', Switch, UNCHANGED held, StuckReady, current' = current => current \in ready' \cup {Idle}
    PROVE  current' \in ready' \cup {Idle} /\ (held' => current' \in Tasks)
<1>1. CASE held
  BY <1>1 DEF Switch, StuckReady
<1>2. CASE ~held
  <2>1. current' \in Top(ready')
    BY <1>2 DEF Switch
  <2> QED BY <1>2, <2>1, TopFacts DEF FaultType, TypeOK
<1> QED BY <1>1, <1>2

LEMMA StuckReadyStep == QueueInv /\ StuckReady /\ [Next]_vars => StuckReady'
<1> SUFFICES ASSUME QueueInv, StuckReady, [Next]_vars PROVE StuckReady'
  OBVIOUS
<1>0. /\ FaultType' /\ FaultType /\ TypeOK /\ TypeOK'
      /\ \A t \in Tasks : t # Server /\ t # Idle
      /\ App \in Tasks /\ Server # Idle /\ Server \notin Tasks
  BY FaultNextType, PrioFacts, FaultAssumption DEF QueueInv, FaultType
<1>1. ASSUME NEW t \in Tasks, Block(t) PROVE StuckReady'
  <2>1. ~held /\ current' \in Top(ready')
    BY <1>1 DEF Block, Switch
  <2>2. current' \in ready' \cup {Idle}
    BY <1>0, <2>1, TopFacts DEF TypeOK
  <2> QED BY <1>1, <2>1, <2>2 DEF Block, Runs, StuckReady
<1>2. ASSUME NEW t \in Tasks, Wake(t) PROVE StuckReady'
  <2>1. Switch /\ UNCHANGED held /\ current \in ready' \cup {Idle}
    BY <1>2 DEF Wake, StuckReady
  <2>2. current' \in ready' \cup {Idle} /\ (held' => current' \in Tasks)
    BY <1>0, <2>1, SwitchedToReady
  <2> QED BY <1>2, <2>2 DEF Wake, StuckReady
<1>3. ASSUME NEW t \in Tasks, SuspendAll(t) PROVE StuckReady'
  BY <1>3 DEF SuspendAll, Runs, StuckReady
<1>4. ASSUME NEW t \in Tasks, ResumeAll(t) PROVE StuckReady'
  <2>1. current' \in ready \cup {Idle}
    BY <1>0, <1>4, TopFacts DEF ResumeAll, TypeOK
  <2> QED BY <1>4, <2>1 DEF ResumeAll, StuckReady
<1>5. ASSUME NEW t \in Tasks, GoWrong(t) PROVE StuckReady'
  BY <1>0, <1>5 DEF GoWrong, Runs, kernelVars, StuckReady
<1>6. ASSUME NEW t \in Tasks, Stop(t) PROVE StuckReady'
  BY <1>6 DEF Stop, Runs, StuckReady
<1>7. ASSUME NEW t \in Tasks, Start(t) PROVE StuckReady'
  BY <1>7 DEF Start, StuckReady
<1>8. ASSUME NEW t \in Tasks, Abort(t) PROVE StuckReady'
  <2>1. /\ current = t /\ UNCHANGED <<held, stuck, suspended>>
        /\ Push(t) \/ UNCHANGED <<queue, ready, current>>
    BY <1>8, AbortCounts DEF QueueInv
  <2>2. CASE Push(t)
    <3>1. ready \subseteq ready' /\ (Switch \/ current' = current)
      BY <2>2 DEF Push
    <3>2. current' \in ready' \cup {Idle} /\ (held' => current' \in Tasks)
      BY <1>0, <2>1, <3>1, SwitchedToReady DEF StuckReady
    <3> QED BY <2>1, <3>1, <3>2 DEF StuckReady
  <2>3. CASE UNCHANGED <<queue, ready, current>>
    BY <2>1, <2>3 DEF StuckReady
  <2> QED BY <2>1, <2>2, <2>3
<1>9. CASE Tick
  <2>1. current' \in ready' \cup {Idle} /\ (held' => current' \in Tasks)
    BY <1>0, <1>9, SwitchedToReady DEF Tick, StuckReady
  <2> QED BY <1>9, <2>1 DEF Tick, StuckReady
<1>10. CASE Receive
  <2>1. Head(queue) \in Tasks
    BY <1>0, <1>10 DEF Receive, TypeOK
  <2> QED BY <1>0, <1>10, <2>1 DEF Receive, StuckReady
<1>11. CASE Wait
  <2>1. ~held /\ current' \in Top(ready')
    BY <1>0, <1>11 DEF Wait, Switch, StuckReady
  <2>2. current' \in ready' \cup {Idle}
    BY <1>0, <2>1, TopFacts DEF TypeOK
  <2> QED BY <1>0, <1>11, <2>1, <2>2 DEF Wait, StuckReady, TypeOK
<1>12. CASE Reboot
  <2>1. current' \in ready' \cup {Idle}
    BY <1>0, <1>12, TopFacts DEF Reboot, TypeOK
  <2> QED BY <1>12, <2>1 DEF Reboot, StuckReady
<1>13. CASE UNCHANGED vars
  BY <1>13 DEF vars, StuckReady
<1> QED BY <1>1, <1>2, <1>3, <1>4, <1>5, <1>6, <1>7, <1>8, <1>9, <1>10, <1>11, <1>12, <1>13
        DEF Next, TaskStep

(* Whatever the queue drops and whichever of equals runs, a task that      *)
(* faults faults again or is suspended, a counted fault has a message that *)
(* clears the count, and sysmmap is ready while there is one: what         *)
(* FaultEnds needs beside fairness.                                        *)
THEOREM FaultsAreKept == Spec => []NoFaultForgotten
<1>1. Init => StuckReady
  <2> SUFFICES ASSUME Init PROVE StuckReady
    OBVIOUS
  <2>1. current \in ready \cup {Idle}
    BY TopFacts DEF Init
  <2> QED BY <2>1 DEF Init, StuckReady
<1>2. QueueInv /\ StuckReady => NoFaultForgotten
  BY DEF QueueInv, StuckReady, ServerTurns, CountAnswered, NoFaultForgotten, Faulting
<1> QED BY <1>1, <1>2, QueueInvInit, QueueInvStep, StuckReadyStep, PTL DEF Spec
=============================================================================
