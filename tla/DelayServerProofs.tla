--------------------------- MODULE DelayServerProofs ---------------------------
(***************************************************************************)
(* Theorems about the delay server, for every width of ticks, every set of *)
(* delays and every size of queue and table.                               *)
(***************************************************************************)
EXTENDS DelayServer, FiniteSetTheorems, TLAPS

LEMMA TickType == \A t \in 0 .. W - 1 : (t + 1) % W \in 0 .. W - 1
BY DelayAssumption, SMT

LEMMA EntryTypes ==
    /\ Empty \in Entries
    /\ \A ms \in Delays, t \in 0 .. W - 1 : [used |-> TRUE, ms |-> ms, start |-> t] \in Entries
<1>1. 0 \in 0 .. W - 1
  BY DelayAssumption
<1> QED BY <1>1 DEF Empty, Entries

LEMMA DelayInitType == Init => TypeOK
<1> SUFFICES ASSUME Init PROVE TypeOK
  OBVIOUS
<1>1. ticks \in 0 .. W - 1 /\ waited \in 0 .. W /\ stops \in 0 .. MaxStops
  BY DelayAssumption DEF Init
<1>2. table \in [Slots -> Entries]
  BY EntryTypes DEF Init
<1>3. queue \in Seq(Delays) /\ Len(queue) <= QueueSize
  BY DelayAssumption DEF Init
<1> QED BY <1>1, <1>2, <1>3 DEF Init, TypeOK

LEMMA DelayNextType == TypeOK /\ [Next]_vars => TypeOK'
<1> SUFFICES ASSUME TypeOK, [Next]_vars PROVE TypeOK'
  OBVIOUS
<1>1. ASSUME NEW ms \in Delays, Ask(ms) PROVE TypeOK'
  <2>1. queue' \in Seq(Delays) /\ Len(queue') <= QueueSize
    BY <1>1, DelayAssumption DEF Ask, TypeOK
  <2> QED BY <1>1, <2>1 DEF Ask, TypeOK
<1>2. CASE Sweep
  <2>1. ticks' \in 0 .. W - 1
    BY <1>2, TickType DEF Sweep, Tick, TypeOK
  <2>2. table' \in [Slots -> Entries]
    BY <1>2, EntryTypes DEF Sweep, TypeOK
  <2>3. waited' \in 0 .. W
    BY <1>2, DelayAssumption DEF Sweep, TypeOK
  <2>4. app' \in {"ready", "suspended", "deleted", "corrupt"}
    BY <1>2 DEF Sweep, TypeOK
  <2> QED BY <1>2, <2>1, <2>2, <2>3, <2>4 DEF Sweep, TypeOK
<1>3. CASE ReceiveNothing
  BY <1>3 DEF ReceiveNothing, TypeOK
<1>4. CASE Receive
  <2>1. Head(queue) \in Delays /\ queue' \in Seq(Delays) /\ Len(queue') <= QueueSize
    BY <1>4, DelayAssumption DEF Receive, TypeOK
  <2>2. table' \in [Slots -> Entries]
    BY <1>4, <2>1, EntryTypes DEF Receive, TypeOK
  <2>3. app' \in {"suspended", "corrupt"} /\ waited' \in 0 .. W
    BY <1>4, DelayAssumption DEF Receive, Suspended
  <2> QED BY <1>4, <2>1, <2>2, <2>3 DEF Receive, TypeOK
<1>5. CASE DelayOver
  BY <1>5 DEF DelayOver, TypeOK
<1>6. CASE Stop
  BY <1>6, DelayAssumption DEF Stop, TypeOK
<1>7. CASE Restart
  BY <1>7 DEF Restart, TypeOK
<1>8. CASE UNCHANGED vars
  BY <1>8 DEF vars, TypeOK
<1> QED BY <1>1, <1>2, <1>3, <1>4, <1>5, <1>6, <1>7, <1>8 DEF Next, Server

(* ticks stays within its width, every entry of delay_task and every       *)
(* request of app_api_queue is one an application made, and the queue      *)
(* holds no more than it was created for.                                  *)
THEOREM DelayTypeCorrect == Spec => []TypeOK
BY DelayInitType, DelayNextType, PTL DEF Spec

-----------------------------------------------------------------------------
(* One delay at a time.  The application runs while the server waits with  *)
(* an empty queue, or has its one request in the queue; from the moment    *)
(* the server takes the request the application is suspended and has the   *)
(* one entry in use, and it is ready again when the entry is free.         *)
Used == {i \in Slots : table[i].used}

OneAtATime ==
    stops = 0 =>
        \/ /\ app = "ready" /\ pc # "delay" /\ Used = {}
           /\ queue = <<>> \/ (pc = "receive" /\ Len(queue) = 1)
        \/ /\ app = "suspended" /\ queue = <<>>
           /\ \E i \in Slots : Used = {i}

LEMMA SuspendedOnReceive ==
    ASSUME TypeOK, OneAtATime, Receive, stops = 0
    PROVE  OneAtATime'
<1>1. /\ app = "ready" /\ Used = {} /\ Len(queue) = 1 /\ queue # <<>>
  BY DEF Receive, OneAtATime
<1>2. queue' = <<>> /\ app' = "suspended"
  BY <1>1 DEF Receive, Suspended, TypeOK
<1>3. FreeSlot = {1}
  BY <1>1, DelayAssumption DEF FreeSlot, Slots, Used
<1>4. 1 \in Slots
  BY DelayAssumption DEF Slots
<1>5. \A i \in Slots : table'[i].used <=> i = 1
  BY <1>1, <1>3 DEF Receive, Used
<1>6. Used' = {1}
  BY <1>4, <1>5 DEF Used
<1> QED BY <1>2, <1>4, <1>6 DEF OneAtATime

LEMMA ReadyOnSweep ==
    ASSUME TypeOK, OneAtATime, Sweep, stops = 0
    PROVE  OneAtATime'
<1> DEFINE due == {i \in Looked : Due(table[i], ticks')}
<1>1. /\ table' = [i \in Slots |-> IF i \in due THEN Empty ELSE table[i]]
      /\ app' = IF due # {} /\ app = "suspended" THEN "ready" ELSE app
      /\ pc' = "receive" /\ queue' = queue
  BY DEF Sweep
<1>2. due \subseteq Used
  BY DEF Looked, Used
<1>3. CASE due = {}
  <2>1. app' = app /\ Used' = Used
    BY <1>1, <1>3 DEF Used
  <2> QED BY <1>1, <2>1 DEF OneAtATime, Sweep
<1>4. CASE due # {}
  <2>1. app = "suspended" /\ queue = <<>> /\ due = Used
    BY <1>2, <1>4 DEF OneAtATime
  <2>2. \A i \in Slots : ~table'[i].used
    BY <1>1, <2>1 DEF Empty, Used
  <2> QED BY <1>1, <1>4, <2>1, <2>2 DEF OneAtATime, Used
<1> QED BY <1>3, <1>4

LEMMA NextOneAtATime == TypeOK /\ OneAtATime /\ [Next]_vars => OneAtATime'
<1> SUFFICES ASSUME TypeOK, OneAtATime, [Next]_vars, stops' = 0 PROVE OneAtATime'
  BY DEF OneAtATime
<1>1. ASSUME NEW ms \in Delays, Ask(ms) PROVE OneAtATime'
  <2>1. app = "ready" /\ queue = <<>> /\ pc = "receive" /\ Used = {}
    BY <1>1 DEF Ask, Blocked, OneAtATime
  <2>2. Len(queue') = 1
    BY <1>1, <2>1, DelayAssumption DEF Ask
  <2> QED BY <1>1, <2>1, <2>2 DEF Ask, OneAtATime, Used
<1>2. CASE Sweep
  BY <1>2, ReadyOnSweep DEF Sweep
<1>3. CASE ReceiveNothing
  BY <1>3 DEF ReceiveNothing, OneAtATime, Used
<1>4. CASE Receive
  BY <1>4, SuspendedOnReceive DEF Receive
<1>5. CASE DelayOver
  BY <1>5 DEF DelayOver, OneAtATime, Used
<1>6. CASE Stop
  BY <1>6 DEF Stop, TypeOK
<1>7. CASE Restart
  BY <1>7 DEF Restart, OneAtATime
<1>8. CASE UNCHANGED vars
  BY <1>8 DEF vars, OneAtATime, Used
<1> QED BY <1>1, <1>2, <1>3, <1>4, <1>5, <1>6, <1>7, <1>8 DEF Next, Server

(* Until it is stopped the application has at most one request or entry,   *)
(* so neither app_api_queue nor delay_task is ever full and the break of   *)
(* the server's loop passes no entry over.                                 *)
THEOREM OneDelayAtATime == Spec => []OneOutstanding
<1>1. Init => OneAtATime
  BY DEF Init, OneAtATime, Used, Empty
<1>2. OneAtATime => OneOutstanding
  <2> SUFFICES ASSUME OneAtATime, stops = 0
               PROVE  Len(queue) + Cardinality(Used) <= 1
    BY DEF OneOutstanding, Used
  <2>1. CASE Used = {}
    <3>1. Cardinality(Used) = 0
      BY <2>1, FS_EmptySet
    <3>2. CASE queue = <<>>
      BY <3>1, <3>2
    <3>3. CASE Len(queue) = 1
      BY <3>1, <3>3
    <3> QED BY <2>1, <3>2, <3>3 DEF OneAtATime
  <2>2. CASE \E i \in Slots : Used = {i}
    <3>1. Cardinality(Used) = 1
      BY <2>2, FS_Singleton
    <3>2. Len(queue) = 0
      BY <2>2 DEF OneAtATime
    <3> QED BY <3>1, <3>2
  <2> QED BY <2>1, <2>2 DEF OneAtATime
<1> QED BY <1>1, <1>2, DelayInitType, DelayNextType, NextOneAtATime, PTL DEF Spec
-----------------------------------------------------------------------------
(* The length of a delay.  ticks wraps around, the difference to the start *)
(* of an entry counts the rounds all the same.                             *)

LEMMA DifferenceMod ==
    \A t, s \in 0 .. W - 1 : (t - s) % W = IF s <= t THEN t - s ELSE t - s + W
<1>1. \A x \in 0 .. W - 1 : x % W = x
  BY DelayAssumption, SMT
<1>2. \A x \in Int : -W < x /\ x < 0 => x % W = x + W
  BY DelayAssumption, SMT
<1> QED BY <1>1, <1>2, DelayAssumption

LEMMA NextTick == \A t \in 0 .. W - 1 : (t + 1) % W = IF t + 1 = W THEN 0 ELSE t + 1
<1>1. \A x \in 0 .. W - 1 : x % W = x
  BY DelayAssumption, SMT
<1>2. W % W = 0
  BY DelayAssumption, SMT
<1> QED BY <1>1, <1>2, DelayAssumption

LEMMA OneRoundMore ==
    ASSUME NEW t \in 0 .. W - 1, NEW s \in 0 .. W - 1, NEW w \in 0 .. W - 1, (t - s) % W = w
    PROVE  (((t + 1) % W) - s) % W = IF w + 1 = W THEN 0 ELSE w + 1
<1>1. w = IF s <= t THEN t - s ELSE t - s + W
  BY DifferenceMod
<1> DEFINE u == (t + 1) % W
<1>2. u \in 0 .. W - 1 /\ u = IF t + 1 = W THEN 0 ELSE t + 1
  BY NextTick, TickType
<1>3. (u - s) % W = IF s <= u THEN u - s ELSE u - s + W
  BY <1>2, DifferenceMod
<1> HIDE DEF u
<1>4. (u - s) % W = IF w + 1 = W THEN 0 ELSE w + 1
  BY <1>1, <1>2, <1>3, DelayAssumption
<1> QED BY <1>4 DEF u

(* The request in the queue is the last one the application made, and its  *)
(* entry, once it has one, is as old as the application has waited, and    *)
(* not due yet.                                                            *)
Timed ==
    stops = 0 =>
        /\ queue # <<>> => queue[1] = asked
        /\ app = "suspended" =>
              /\ waited = 0 \/ waited < asked
              /\ \A i \in Used : /\ table[i].ms = asked
                                /\ (ticks - table[i].start) % W = waited

InvTimed == TypeOK /\ OneAtATime /\ Timed

LEMMA SweepIsTimely ==
    ASSUME InvTimed, Sweep, stops = 0, app = "suspended"
    PROVE  /\ Timed'
           /\ app' = "ready" => waited' = IF asked = 0 THEN 1 ELSE asked
<1> USE DEF InvTimed
<1>1. PICK i \in Slots : Used = {i}
  BY DEF OneAtATime
<1>2. table[i].used /\ \A j \in Slots : table[j].used => j = i
  BY <1>1 DEF Used
<1>3. Looked = {i}
  BY <1>2 DEF Looked, Slots
<1> DEFINE s == table[i].start
<1>4. s \in 0 .. W - 1 /\ table[i].ms = asked /\ (ticks - s) % W = waited
  BY <1>1 DEF Timed, TypeOK, Entries
<1>5. asked \in 0 .. W - 1 /\ waited \in 0 .. W - 1 /\ ticks \in 0 .. W - 1
  <2>1. asked \in 0 .. W - 1 /\ waited \in 0 .. W /\ ticks \in 0 .. W - 1
    BY DelayAssumption DEF TypeOK
  <2> QED BY <2>1, DelayAssumption DEF Timed
<1>6. /\ ticks' = (ticks + 1) % W
      /\ waited' = waited + 1
      /\ asked' = asked /\ queue' = queue /\ stops' = stops
  BY <1>5, DelayAssumption DEF Sweep, Tick
<1>7. (ticks' - s) % W = IF waited + 1 = W THEN 0 ELSE waited + 1
  BY <1>4, <1>5, <1>6, OneRoundMore
<1> DEFINE age == (ticks' - s) % W
<1>8. Due(table[i], ticks') <=> age >= asked
  BY <1>4 DEF Due
<1> HIDE DEF age, s
<1>9. queue = <<>>
  BY DEF OneAtATime
<1>10. CASE age >= asked
  <2>1. app' = "ready"
    BY <1>3, <1>8, <1>10 DEF Sweep
  <2>2. waited = 0 \/ waited < asked
    BY DEF Timed
  <2>3. waited' = IF asked = 0 THEN 1 ELSE asked
    BY <1>5, <1>6, <1>7, <1>10, <2>2 DEF age
  <2> QED BY <1>6, <1>9, <2>1, <2>3 DEF Timed
<1>11. CASE ~(age >= asked)
  <2>1. app' = "suspended" /\ table' = table
    BY <1>3, <1>8, <1>11 DEF Sweep, TypeOK
  <2>2. waited' < asked /\ age = waited'
    <3>1. waited = 0 \/ waited < asked
      BY DEF Timed
    <3> QED BY <1>5, <1>6, <1>7, <1>11, <3>1, DelayAssumption DEF age
  <2>3. Used' = {i}
    BY <1>1, <2>1 DEF Used
  <2>4. table'[i].ms = asked' /\ (ticks' - table'[i].start) % W = waited'
    BY <1>4, <1>6, <2>1, <2>2 DEF age, s
  <2> QED BY <1>6, <1>9, <2>1, <2>2, <2>3, <2>4 DEF Timed
<1> QED BY <1>10, <1>11

LEMMA ReceiveStartsTheDelay ==
    ASSUME InvTimed, Receive, stops = 0
    PROVE  Timed'
<1> USE DEF InvTimed
<1>1. /\ app = "ready" /\ Used = {} /\ Len(queue) = 1 /\ queue # <<>>
  BY DEF Receive, OneAtATime
<1>2. Head(queue) = asked
  BY <1>1 DEF Timed, TypeOK
<1>3. \A i \in Slots : table'[i].used =>
          table'[i] = [used |-> TRUE, ms |-> Head(queue), start |-> ticks]
  BY <1>1 DEF Receive, Used
<1>4. (ticks - ticks) % W = 0
  BY DifferenceMod DEF TypeOK
<1>5. \A i \in Used' : table'[i].ms = asked /\ (ticks - table'[i].start) % W = 0
  BY <1>2, <1>3, <1>4 DEF Used
<1>6. queue' = <<>> /\ waited' = 0 /\ asked' = asked /\ ticks' = ticks
  BY <1>1 DEF Receive, TypeOK
<1> QED BY <1>5, <1>6 DEF Timed

LEMMA NextTimed ==
    InvTimed /\ [Next]_vars =>
        /\ Timed'
        /\ stops = 0 /\ app = "suspended" /\ app' = "ready" =>
               waited' = IF asked = 0 THEN 1 ELSE asked
<1> SUFFICES ASSUME InvTimed, [Next]_vars
             PROVE  /\ Timed'
                    /\ stops = 0 /\ app = "suspended" /\ app' = "ready" =>
                           waited' = IF asked = 0 THEN 1 ELSE asked
  OBVIOUS
<1> USE DEF InvTimed
<1>1. ASSUME NEW ms \in Delays, Ask(ms) PROVE Timed' /\ app' = app /\ app = "ready"
  <2>1. CASE stops = 0
    <3>1. queue = <<>>
      BY <1>1, <2>1 DEF Ask, Blocked, OneAtATime
    <3>2. queue' = <<ms>> /\ asked' = ms
      BY <1>1, <3>1, DelayAssumption DEF Ask
    <3> QED BY <1>1, <3>2 DEF Ask, Timed
  <2> QED BY <1>1, <2>1 DEF Ask, Timed
<1>2. CASE Sweep
  <2>1. CASE stops = 0 /\ app = "suspended"
    BY <1>2, <2>1, SweepIsTimely
  <2>2. CASE ~(stops = 0 /\ app = "suspended")
    BY <1>2, <2>2 DEF Sweep, Timed
  <2> QED BY <2>1, <2>2
<1>3. CASE ReceiveNothing
  BY <1>3 DEF ReceiveNothing, Timed, Used
<1>4. CASE Receive
  <2>1. app' # "ready"
    BY <1>4 DEF Receive, Suspended
  <2>2. stops' = stops
    BY <1>4 DEF Receive
  <2> QED BY <1>4, <2>1, <2>2, ReceiveStartsTheDelay DEF Timed
<1>5. CASE DelayOver
  BY <1>5 DEF DelayOver, Timed, Used
<1>6. CASE Stop
  BY <1>6 DEF Stop, TypeOK, Timed
<1>7. CASE Restart
  BY <1>7 DEF Restart, Timed
<1>8. CASE UNCHANGED vars
  BY <1>8 DEF vars, Timed, Used
<1> QED BY <1>1, <1>2, <1>3, <1>4, <1>5, <1>6, <1>7, <1>8 DEF Next, Server

(* Until it is stopped the application sleeps exactly as many rounds of    *)
(* the server as the milliseconds it asked for, one for none, whatever     *)
(* ticks is when it asks: the subtraction is right across a wrap.          *)
THEOREM DelaysAreExact == Spec => SleepsAsAsked
<1>1. Init => InvTimed
  <2>1. Init => OneAtATime /\ Timed
    BY DEF Init, OneAtATime, Timed, Used, Empty
  <2> QED BY <2>1, DelayInitType DEF InvTimed
<1>2. InvTimed /\ [Next]_vars => InvTimed'
  BY DelayNextType, NextOneAtATime, NextTimed DEF InvTimed
<1>3. InvTimed /\ [Next]_vars =>
          [stops = 0 /\ app = "suspended" /\ app' = "ready" =>
              waited' = IF asked = 0 THEN 1 ELSE asked]_vars
  BY NextTimed
<1> QED BY <1>1, <1>2, <1>3, PTL DEF Spec, SleepsAsAsked
=============================================================================
