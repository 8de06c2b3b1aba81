-------------------------- MODULE AppLifecycleProofs --------------------------
(***************************************************************************)
(* The safety properties of AppLifecycle hold for any images, any number   *)
(* of mmap slots and heap blocks, and any machine in Setups.               *)
(***************************************************************************)
EXTENDS AppLifecycle, TLAPS

(* What a task may still have to carry out: an end of one of the lists     *)
(* that startTask, the scanners and the network task begin with.           *)
Calls == {<<>>, <<"stop">>, <<"start">>, <<"map", "start">>,
          <<"stop", "map", "start">>, <<"stop", "stop", "map", "start">>}

(* A task is within the call its place belongs to.                         *)
InCall(t) ==
    /\ pc[t] \in {"stopping", "settling"} => todo[t] # <<>> /\ Head(todo[t]) = "stop"
    /\ pc[t] = "mapping" => todo[t] # <<>> /\ Head(todo[t]) = "map"
    /\ pc[t] \in {"reading", "launching", "marking"} =>
            todo[t] # <<>> /\ Head(todo[t]) = "start"

(* Where the tasks are.                                                    *)
Placed == /\ todo \in [Tasks -> Calls]
          /\ pc \in [Tasks -> Labels]
          /\ \A t \in Tasks : InCall(t)

Typed == TypeOK /\ Placed

-----------------------------------------------------------------------------
(* What Head and Tail make of the lists of calls.                          *)
LEMMA CallsShrink ==
    ASSUME NEW w \in Calls, w # <<>>
    PROVE  /\ Tail(w) \in Calls
           /\ Head(w) \in {"stop", "map", "start"}
           /\ Head(w) = "stop" => Tail(w) = <<>> \/ Head(Tail(w)) \in {"stop", "map"}
           /\ Head(w) = "map" => Tail(w) = <<"start">>
           /\ Head(w) = "start" => Tail(w) = <<>>
<1>1. CASE w = <<"stop">>
  BY <1>1 DEF Calls
<1>2. CASE w = <<"start">>
  BY <1>2 DEF Calls
<1>3. CASE w = <<"map", "start">>
  BY <1>3 DEF Calls
<1>4. CASE w = <<"stop", "map", "start">>
  BY <1>4 DEF Calls
<1>5. CASE w = <<"stop", "stop", "map", "start">>
  BY <1>5 DEF Calls
<1> QED
  BY <1>1, <1>2, <1>3, <1>4, <1>5 DEF Calls

LEMMA CallsAreSequences == Calls \subseteq Seq({"stop", "map", "start"})
BY DEF Calls

LEMMA HeadStart == <<"start">> # <<>> /\ Head(<<"start">>) = "start"
OBVIOUS

(* The initial states are typed.                                           *)
LEMMA InitTyped == Init => Typed
<1> SUFFICES ASSUME Init PROVE Typed
  OBVIOUS
<1>1. setup \in Setup
  BY ImagesAssumption DEF Init
<1>2. TypeOK
  <2>1. /\ todo \in [Tasks -> Calls]
        /\ todo \in [Tasks -> Seq({"stop", "map", "start"})]
    BY CallsAreSequences DEF Init, BootsWithImage, BootsWithoutImage, Calls
  <2>2. pc \in [Tasks -> Labels] /\ fileManager \in BOOLEAN
    BY DEF Init, BootsWithImage, BootsWithoutImage, Tasks, Labels
  <2>3. counter \in [Scanners -> 0 .. ScanLimit]
    BY <1>1 DEF Init, Setup, ScanLimit
  <2>4. arg \in [Tasks -> Images \cup {NoImage, Sideload}]
    BY <1>1 DEF Init, BootsWithImage, BootsWithoutImage, Setup
  <2>5. /\ mmap \in -1 .. NumSlots
        /\ slots \in [1 .. NumSlots -> Images \cup {NoImage}]
    BY ImagesAssumption DEF Init
  <2> QED
    BY <2>1, <2>2, <2>3, <2>4, <2>5 DEF Init, TypeOK
<1>3. todo \in [Tasks -> Calls]
  BY DEF Init, BootsWithImage, BootsWithoutImage, Calls
<1>4. \A t \in Tasks : InCall(t)
  BY DEF Init, BootsWithImage, BootsWithoutImage, InCall, Tasks
<1> QED
  BY <1>2, <1>3, <1>4 DEF Typed, Placed, TypeOK

-----------------------------------------------------------------------------
(* The three ways a task moves on keep it within its calls.                *)

LEMMA ReturnPlaces ==
    ASSUME Placed, NEW t \in Tasks, todo[t] # <<>>, Return(t)
    PROVE  Placed'
<1>1. Tail(todo[t]) \in Calls
  BY CallsShrink DEF Placed
<1>2. /\ todo' \in [Tasks -> Calls]
      /\ pc' \in [Tasks -> Labels]
      /\ pc'[t] = "begin"
  BY <1>1 DEF Placed, Return, Labels
<1>3. ASSUME NEW u \in Tasks PROVE InCall(u)'
  <2>1. CASE u = t
    BY <2>1, <1>2 DEF InCall
  <2>2. CASE u # t
    <3>1. todo'[u] = todo[u] /\ pc'[u] = pc[u]
      BY <2>2 DEF Placed, Return
    <3> QED
      BY <3>1 DEF Placed, InCall
  <2> QED
    BY <2>1, <2>2
<1> QED
  BY <1>2, <1>3 DEF Placed

LEMMA GotoPlaces ==
    ASSUME Placed, NEW t \in Tasks, NEW l \in Labels, Goto(t, l),
           l \in {"stopping", "settling"} => todo[t] # <<>> /\ Head(todo[t]) = "stop",
           l = "mapping" => todo[t] # <<>> /\ Head(todo[t]) = "map",
           l \in {"reading", "launching", "marking"} => todo[t] # <<>> /\ Head(todo[t]) = "start"
    PROVE  Placed'
<1>1. /\ todo' = todo
      /\ pc' = [pc EXCEPT ![t] = l]
      /\ pc' \in [Tasks -> Labels]
  BY DEF Placed, Goto
<1>2. ASSUME NEW u \in Tasks PROVE InCall(u)'
  BY <1>1 DEF Placed, InCall
<1> QED
  BY <1>1, <1>2 DEF Placed

LEMMA BeginsPlaces ==
    ASSUME Placed, NEW t \in Tasks, NEW calls \in Calls, NEW image, Begins(t, calls, image)
    PROVE  Placed'
<1>1. /\ todo' = [todo EXCEPT ![t] = calls]
      /\ pc' = [pc EXCEPT ![t] = "begin"]
      /\ todo' \in [Tasks -> Calls]
      /\ pc' \in [Tasks -> Labels]
  BY DEF Placed, Begins, Labels
<1>2. ASSUME NEW u \in Tasks PROVE InCall(u)'
  BY <1>1 DEF Placed, InCall
<1> QED
  BY <1>1, <1>2 DEF Placed

(* Typed, in the parts a step may change.                                  *)
DataTyped ==
    /\ setup \in Setups
    /\ running \in BOOLEAN /\ handle \in BOOLEAN /\ appTask \in BOOLEAN
    /\ mmap \in -1 .. NumSlots
    /\ slots \in [1 .. NumSlots -> Images \cup {NoImage}]
    /\ path \in Images \cup {NoImage, Sideload, "freed"}
    /\ alloc \in {NULL} \cup Blocks
    /\ blocks \subseteq Blocks
    /\ lent \in {NULL} \cup Blocks
    /\ freed \in BOOLEAN

TasksTyped ==
    /\ arg \in [Tasks -> Images \cup {NoImage, Sideload}]
    /\ onKey \in BOOLEAN /\ fileManager \in BOOLEAN
    /\ counter \in [Scanners -> 0 .. ScanLimit]

LEMMA TypedParts == Typed <=> DataTyped /\ TasksTyped /\ Placed
<1>1. Placed => todo \in [Tasks -> Seq({"stop", "map", "start"})]
  BY CallsAreSequences DEF Placed
<1> QED
  BY <1>1 DEF Typed, TypeOK, DataTyped, TasksTyped, Placed

-----------------------------------------------------------------------------
(* Every step keeps the types.                                             *)

LEMMA CallStepTyped ==
    ASSUME Typed, NEW t \in Tasks, CallStep(t)
    PROVE  Typed'
<1>0. DataTyped /\ TasksTyped /\ Placed
  BY TypedParts
<1>s. setup \in Setup
  BY <1>0, ImagesAssumption DEF DataTyped
<1>q. SUFFICES DataTyped' /\ TasksTyped' /\ Placed'
  <2>1. (Typed <=> DataTyped /\ TasksTyped /\ Placed)'
    BY TypedParts, PTL
  <2> QED
    BY <2>1
<1>1. CASE StopReturns(t)
  BY <1>1, <1>0, ReturnPlaces DEF StopReturns, At, DataTyped, TasksTyped, appVars, keyVars, ScanLimit
<1>2. CASE StopPasses(t)
  <2>1. Placed'
    BY <1>2, <1>0, GotoPlaces DEF StopPasses, At, Labels
  <2> QED
    BY <1>2, <1>0, <2>1 DEF StopPasses, DataTyped, TasksTyped, appVars, keyVars, ScanLimit
<1>3. CASE StopApp(t)
  <2>1. Placed'
    BY <1>3, <1>0, GotoPlaces DEF StopApp, At, Labels
  <2>2. TasksTyped'
    BY <1>3, <1>0 DEF StopApp, TasksTyped, keyVars, ScanLimit
  <2>3. slots' \in [1 .. NumSlots -> Images \cup {NoImage}]
    BY <1>3, <1>0 DEF StopApp, Unmapped, DataTyped
  <2> QED
    BY <1>3, <1>0, <2>1, <2>2, <2>3 DEF StopApp, DataTyped, Unlent, BlocksFreed
<1>4. CASE StopSettles(t)
  <2>1. Placed'
    BY <1>4, <1>0, ReturnPlaces DEF StopSettles, Placed, InCall
  <2> QED
    BY <1>4, <1>0, <2>1 DEF StopSettles, DataTyped, TasksTyped, appVars, keyVars, ScanLimit
<1>5. CASE PrepareImage(t)
  <2>1. Placed'
    <3>1. CASE arg[t] = Sideload
      BY <3>1, <1>5, <1>0, ReturnPlaces DEF PrepareImage, At
    <3>2. CASE arg[t] # Sideload
      BY <3>2, <1>5, <1>0, GotoPlaces DEF PrepareImage, At, Labels
    <3> QED
      BY <3>1, <3>2
  <2> QED
    BY <1>5, <1>0, <2>1 DEF PrepareImage, DataTyped, TasksTyped, keyVars, ScanLimit
<1>6. CASE MapImage(t)
  <2>1. Placed'
    BY <1>6, <1>0, ReturnPlaces DEF MapImage, At
  <2>2. /\ mmap' \in -1 .. NumSlots
        /\ slots' \in [1 .. NumSlots -> Images \cup {NoImage}]
    <3>1. setup.slots \in 1 .. NumSlots /\ NumSlots \in Nat
      BY <1>s, ImagesAssumption DEF Setup
    <3> QED
      BY <1>6, <1>0, <3>1 DEF MapImage, DataTyped, FreeSlots
  <2> QED
    BY <1>6, <1>0, <2>1, <2>2 DEF MapImage, DataTyped, TasksTyped, keyVars, ScanLimit
<1>7. CASE StartReturns(t)
  BY <1>7, <1>0, ReturnPlaces DEF StartReturns, At, DataTyped, TasksTyped, appVars, keyVars, ScanLimit
<1>8. CASE StartPasses(t)
  <2>1. Placed'
    BY <1>8, <1>0, GotoPlaces DEF StartPasses, At, Labels
  <2> QED
    BY <1>8, <1>0, <2>1 DEF StartPasses, DataTyped, TasksTyped, appVars, keyVars, ScanLimit
<1>9. CASE StackIsRead(t)
  <2>1. Placed'
    BY <1>9, <1>0, GotoPlaces DEF StackIsRead, Labels, Placed, InCall
  <2> QED
    BY <1>9, <1>0, <2>1 DEF StackIsRead, DataTyped, TasksTyped, appVars, keyVars, ScanLimit
<1>10. CASE Launch(t)
  <2>1. Placed'
    BY <1>10, <1>0, GotoPlaces DEF Launch, At, Labels
  <2> QED
    BY <1>10, <1>0, <2>1 DEF Launch, DataTyped, TasksTyped, keyVars, ScanLimit
<1>11. CASE MarkRunning(t)
  BY <1>11, <1>0, ReturnPlaces DEF MarkRunning, At, DataTyped, TasksTyped, keyVars, ScanLimit
<1> QED
  BY <1>1, <1>2, <1>3, <1>4, <1>5, <1>6, <1>7, <1>8, <1>9, <1>10, <1>11 DEF CallStep

(* What the host, the key and the ends of the tasks do.                    *)
LEMMA OutsideTyped ==
    ASSUME Typed,
           \/ \E image \in setup.asked : Exec(image)
           \/ Kill \/ SlsStart \/ PressOrRelease \/ FileManagerEnds \/ Reply \/ StartEnds
           \/ \E s \in Scanners : Scan(s) \/ ScanEnds(s)
           \/ UNCHANGED vars
    PROVE  Typed'
<1>0. DataTyped /\ TasksTyped /\ Placed
  BY TypedParts
<1>s. /\ setup \in Setup
      /\ setup.asked \subseteq Images
      /\ ScanLimit \in Nat \ {0}
  BY <1>0, ImagesAssumption DEF DataTyped, Setup, ScanLimit
<1>c. /\ ExecCalls \in Calls /\ <<"stop">> \in Calls
      /\ Usb \in Tasks /\ Start \in Tasks /\ Scanners \subseteq Tasks /\ "scan2" \in Tasks
  BY DEF ExecCalls, Calls, Tasks, Scanners
<1>q. SUFFICES DataTyped' /\ TasksTyped' /\ Placed'
  <2>1. (Typed <=> DataTyped /\ TasksTyped /\ Placed)'
    BY TypedParts, PTL
  <2> QED
    BY <2>1
<1>b. ASSUME NEW t \in Tasks, NEW calls \in Calls,
             NEW image \in Images \cup {NoImage, Sideload},
             Begins(t, calls, image), UNCHANGED <<appVars, onKey>>
      PROVE  /\ DataTyped' /\ Placed'
             /\ arg' \in [Tasks -> Images \cup {NoImage, Sideload}]
  <2>1. Placed'
    BY <1>b, <1>0, BeginsPlaces
  <2> QED
    BY <1>b, <1>0, <2>1 DEF DataTyped, TasksTyped, Begins, appVars
<1>1. ASSUME NEW image \in setup.asked, Exec(image)
      PROVE  DataTyped' /\ TasksTyped' /\ Placed'
  BY <1>1, <1>0, <1>b, <1>c, <1>s DEF Exec, keyVars, TasksTyped, appVars, ScanLimit
<1>2. CASE Kill
  BY <1>2, <1>0, <1>b, <1>c DEF Kill, keyVars, TasksTyped, appVars, ScanLimit
<1>3. CASE SlsStart
  BY <1>3, <1>0, <1>b, <1>c DEF SlsStart, keyVars, TasksTyped, appVars, ScanLimit
<1>4. CASE PressOrRelease \/ FileManagerEnds
  BY <1>4, <1>0 DEF PressOrRelease, FileManagerEnds, DataTyped, TasksTyped, Placed, InCall,
     appVars, ScanLimit
<1>5. CASE Reply
  <2>1. Placed'
    BY <1>5, <1>0, <1>c, GotoPlaces DEF Reply, Labels
  <2> QED
    BY <1>5, <1>0, <2>1 DEF Reply, DataTyped, TasksTyped, appVars, keyVars, ScanLimit
<1>6. CASE StartEnds
  <2>1. Placed'
    BY <1>6, <1>0, <1>c DEF StartEnds, Placed, InCall, Labels
  <2> QED
    BY <1>6, <1>0, <2>1 DEF StartEnds, DataTyped, TasksTyped, appVars, keyVars, ScanLimit
<1>7. ASSUME NEW s \in Scanners, Scan(s)
      PROVE  DataTyped' /\ TasksTyped' /\ Placed'
  <2>1. counter' \in [Scanners -> 0 .. ScanLimit]
    <3>1. counter[s] \in 0 .. ScanLimit
      BY <1>0 DEF TasksTyped
    <3>2. Counted(s) \in 0 .. ScanLimit
      BY <3>1, <1>s DEF Counted
    <3> QED
      BY <1>7, <1>0, <3>2 DEF Scan, TasksTyped
  <2>2. ScanLimit' = ScanLimit
    BY <1>7 DEF Scan, appVars, ScanLimit
  <2>3. CASE counter'[s] >= ScanLimit
    <3>1. Begins(s, <<"stop">>, NoImage) /\ UNCHANGED <<appVars, onKey, fileManager>>
      BY <1>7, <2>3 DEF Scan
    <3> QED
      BY <3>1, <1>0, <1>b, <1>c, <2>1, <2>2 DEF TasksTyped
  <2>4. CASE ~(counter'[s] >= ScanLimit)
    BY <1>7, <1>0, <2>1, <2>2, <2>4 DEF Scan, DataTyped, TasksTyped, Placed, InCall, appVars
  <2> QED
    BY <2>3, <2>4
<1>8. ASSUME NEW s \in Scanners, ScanEnds(s)
      PROVE  DataTyped' /\ TasksTyped' /\ Placed'
  <2>1. Placed'
    BY <1>8, <1>0, <1>c, GotoPlaces DEF ScanEnds, Labels
  <2> QED
    BY <1>8, <1>0, <2>1 DEF ScanEnds, DataTyped, TasksTyped, appVars, keyVars, ScanLimit
<1>9. CASE UNCHANGED vars
  BY <1>9, <1>0 DEF vars, DataTyped, TasksTyped, Placed, InCall, ScanLimit
<1> QED
  BY <1>1, <1>2, <1>3, <1>4, <1>5, <1>6, <1>7, <1>8, <1>9

(* The ways the state changes, for the proofs by cases that follow.        *)
LEMMA Cases ==
    ASSUME [Next]_vars
    PROVE  \/ \E t \in Tasks : CallStep(t)
           \/ \E image \in setup.asked : Exec(image)
           \/ Kill \/ SlsStart \/ PressOrRelease \/ FileManagerEnds \/ Reply \/ StartEnds
           \/ \E s \in Scanners : Scan(s) \/ ScanEnds(s)
           \/ UNCHANGED vars
BY DEF Next, TaskStep

LEMMA NextTyped == Typed /\ [Next]_vars => Typed'
BY Cases, CallStepTyped, OutsideTyped

(* The runtime's globals, the boot1 mappings, the tasks' calls and the     *)
(* counters of the scanners stay in their types, in any use of the machine *)
(* (system/app_runtime.c, app_utils.c, sideload_server.c).                 *)
THEOREM AppTypes == Spec => []TypeOK
<1>1. Typed => TypeOK
  BY DEF Typed
<1> QED
  BY InitTyped, NextTyped, <1>1, PTL DEF Spec

-----------------------------------------------------------------------------
(* The memory lent to the application.                                     *)

LEMMA LentStep == Typed /\ LentIsAllocated /\ [Next]_vars => LentIsAllocated'
<1> SUFFICES ASSUME Typed, LentIsAllocated, [Next]_vars PROVE LentIsAllocated'
  OBVIOUS
<1>1. ASSUME NEW t \in Tasks, CallStep(t) PROVE LentIsAllocated'
  <2>1. CASE StopApp(t)
    BY <2>1 DEF StopApp, Unlent, LentIsAllocated
  <2>2. CASE Launch(t)
    BY <2>2 DEF Launch, LentIsAllocated
  <2>3. CASE UNCHANGED <<lent, blocks>>
    BY <2>3 DEF LentIsAllocated
  <2> QED
    BY <1>1, <2>1, <2>2, <2>3 DEF CallStep, StopReturns, StopPasses, StopSettles, PrepareImage,
       MapImage, StartReturns, StartPasses, StackIsRead, MarkRunning, appVars
<1>2. CASE UNCHANGED <<lent, blocks>>
  BY <1>2 DEF LentIsAllocated
<1> QED
  BY <1>1, <1>2, Cases DEF Exec, Kill, SlsStart, PressOrRelease, FileManagerEnds, Reply,
     StartEnds, Scan, ScanEnds, appVars, vars

(* The memory lent to the application is never free in the heap, whatever  *)
(* tasks start and stop it under each other (system/app_runtime.c:318).    *)
THEOREM LentMemoryStays == Spec => []LentIsAllocated
<1>1. Init => LentIsAllocated
  BY DEF Init, LentIsAllocated
<1> QED
  BY InitTyped, NextTyped, <1>1, LentStep, PTL DEF Spec

-----------------------------------------------------------------------------
(* The network task.                                                       *)

(* When the network task is between the test of app_task_handle and its    *)
(* use, no task of a lower priority has come in between.                   *)
NetHolds == NetworkSurvives /\ (pc[Usb] = "stopping" => handle)

LEMMA NetStep == Typed /\ NetHolds /\ [Next]_vars => NetHolds'
<1> SUFFICES ASSUME Typed, NetHolds, [Next]_vars PROVE NetHolds'
  OBVIOUS
<1>0. pc \in [Tasks -> Labels] /\ Usb \in Tasks
  BY DEF Typed, Placed, Tasks
<1>1. ASSUME NEW t \in Tasks, CallStep(t) PROVE NetHolds'
  <2>1. CASE t # Usb
    <3>1. pc'[Usb] = pc[Usb]
      BY <1>0, <1>1, <2>1 DEF CallStep, StopReturns, StopPasses, StopApp, StopSettles,
         PrepareImage, MapImage, StartReturns, StartPasses, StackIsRead, Launch, MarkRunning,
         Return, Goto
    <3>2. CASE StopApp(t)
      <4>1. Runs(t) /\ Priority(t) = 2
        BY <3>2, <2>1 DEF StopApp, At, Priority
      <4>2. ~Ready(Usb)
        BY <4>1, <1>0 DEF Runs, GetsProcessor, Priority
      <4> QED
        BY <3>1, <4>2 DEF Ready, NetHolds, NetworkSurvives
    <3>3. CASE Launch(t)
      BY <3>1, <3>3 DEF Launch, NetHolds, NetworkSurvives
    <3>4. CASE handle' = handle
      BY <3>1, <3>4 DEF NetHolds, NetworkSurvives
    <3> QED
      BY <1>1, <3>2, <3>3, <3>4 DEF CallStep, StopReturns, StopPasses, StopSettles, PrepareImage,
         MapImage, StartReturns, StartPasses, StackIsRead, MarkRunning, appVars
  <2>2. CASE t = Usb
    <3>1. CASE StopPasses(t)
      BY <3>1, <2>2, <1>0 DEF StopPasses, Goto, appVars, NetHolds, NetworkSurvives
    <3>2. CASE StopApp(t)
      <4>1. handle
        BY <3>2, <2>2 DEF StopApp, At, NetHolds
      <4> QED
        BY <3>2, <4>1, <2>2, <1>0 DEF StopApp, Goto, NetHolds, NetworkSurvives
    <3>3. CASE pc'[Usb] \notin {"stopping", "deleted"}
      BY <3>3 DEF NetHolds, NetworkSurvives
    <3> QED
      BY <1>0, <1>1, <2>2, <3>1, <3>2, <3>3 DEF CallStep, StopReturns, StopSettles, PrepareImage,
         MapImage, StartReturns, StartPasses, StackIsRead, Launch, MarkRunning, Return, Goto
  <2> QED
    BY <2>1, <2>2
<1>2. CASE pc'[Usb] \in {"begin", "idle"}
  BY <1>2 DEF NetHolds, NetworkSurvives
<1>3. CASE pc'[Usb] = pc[Usb] /\ handle' = handle
  BY <1>3 DEF NetHolds, NetworkSurvives
<1>4. (\E image \in setup.asked : Exec(image)) \/ Kill \/ SlsStart \/ Reply => NetHolds'
  BY <1>0, <1>2 DEF Exec, Kill, SlsStart, Reply, Begins, Goto
<1>5. PressOrRelease \/ FileManagerEnds \/ StartEnds \/ UNCHANGED vars => NetHolds'
  BY <1>0, <1>3 DEF PressOrRelease, FileManagerEnds, StartEnds, Start, Usb, appVars, vars
<1>6. ASSUME NEW s \in Scanners, Scan(s) \/ ScanEnds(s) PROVE NetHolds'
  <2>1. s # Usb
    BY DEF Scanners, Usb
  <2> QED
    BY <1>0, <1>3, <1>6, <2>1 DEF Scan, ScanEnds, Begins, Goto, appVars
<1> QED
  BY <1>1, <1>4, <1>5, <1>6, Cases

(* app_stop never deletes the network task, although it tests the handle   *)
(* before it suspends the scheduler (system/app_runtime.c:109): none of    *)
(* the tasks that could clear the handle has its priority.                 *)
THEOREM NetworkTaskSurvives == Spec => []NetworkSurvives
<1>1. Init => NetHolds
  BY DEF Init, BootsWithImage, BootsWithoutImage, NetHolds, NetworkSurvives, Tasks, Usb, Start
<1>2. NetHolds => NetworkSurvives
  BY DEF NetHolds
<1> QED
  BY InitTyped, NextTyped, <1>1, <1>2, NetStep, PTL DEF Spec

-----------------------------------------------------------------------------
(* One operation at a time.                                                *)

Nobody == \A t \in Tasks : ~Busy(t)

Slotted ==
    /\ \A s \in DOMAIN slots : slots[s] # NoImage => s = mmap
    /\ path \in Images /\ mmap > 0 => slots[mmap] = path

(* Nothing runs and nothing is left of what ran before.                    *)
Clean == ~running /\ ~handle /\ blocks = {} /\ \A s \in DOMAIN slots : slots[s] = NoImage

(* An application runs, and app_stop will release all that it has.         *)
Up == running /\ handle /\ mmap > 0 /\ Slotted /\ blocks \subseteq {alloc} /\ path # "freed"

(* The image is mapped, if it could be, and not started.                   *)
ToStart == ~running /\ ~handle /\ blocks = {} /\ Slotted /\ path # "freed"

(* The task is created, and app_running not yet set.                       *)
ToMark == ~running /\ handle /\ mmap > 0 /\ Slotted /\ blocks \subseteq {alloc} /\ path # "freed"

(* What the task that is at work relies on where it is.                    *)
InPhase(t) ==
    /\ pc[t] = "begin" =>
         /\ todo[t] = <<>> \/ Head(todo[t]) = "stop" => Clean \/ Up
         /\ todo[t] # <<>> /\ Head(todo[t]) = "map" => Clean
         /\ todo[t] # <<>> /\ Head(todo[t]) = "start" => ToStart
    /\ pc[t] = "stopping" => Up
    /\ pc[t] = "settling" => Clean
    /\ pc[t] = "mapping" => Clean /\ path # "freed"
    /\ pc[t] \in {"reading", "launching"} => ToStart /\ mmap > 0
    /\ pc[t] = "marking" => ToMark

InTurn ==
    /\ \A t, u \in Tasks : Busy(t) /\ Busy(u) => t = u
    /\ \A t \in Tasks : Busy(t) => InPhase(t)
    /\ Nobody => Clean \/ Up
    /\ ~freed

TurnsInv == setup.usage = "turns" => InTurn

(* The task at work moves on, or an idle one goes to work.                 *)
LEMMA Moves ==
    ASSUME pc \in [Tasks -> Labels], NEW t \in Tasks, \A u \in Tasks : u # t => ~Busy(u),
           NEW l, l \notin {"idle", "gone", "deleted"}, pc' = [pc EXCEPT ![t] = l],
           InPhase(t)', ~freed'
    PROVE  InTurn'
<1>1. \A u \in Tasks : Busy(u)' <=> u = t
  BY DEF Busy
<1> QED
  BY <1>1 DEF InTurn, Nobody

LEMMA ReturnMoves ==
    ASSUME Typed, InTurn, NEW t \in Tasks, Busy(t), todo[t] # <<>>, Return(t), ~freed',
           Head(todo[t]) = "stop" => Clean',
           Head(todo[t]) = "map" => ToStart',
           Head(todo[t]) = "start" => (Clean' \/ Up')
    PROVE  InTurn'
<1>1. todo \in [Tasks -> Calls] /\ pc \in [Tasks -> Labels]
  BY DEF Typed, Placed
<1>2. pc'[t] = "begin" /\ todo'[t] = Tail(todo[t])
  BY <1>1 DEF Return
<1>3. InPhase(t)'
  <2>1. CASE Head(todo[t]) = "stop"
    BY <1>1, <1>2, <2>1, CallsShrink DEF InPhase
  <2>2. CASE Head(todo[t]) = "map"
    BY <1>1, <1>2, <2>2, CallsShrink, HeadStart DEF InPhase
  <2>3. CASE Head(todo[t]) = "start"
    BY <1>1, <1>2, <2>3, CallsShrink DEF InPhase
  <2> QED
    BY <1>1, <2>1, <2>2, <2>3, CallsShrink
<1>4. \A u \in Tasks : u # t => ~Busy(u)
  BY DEF InTurn
<1> QED
  BY <1>1, <1>3, <1>4, Moves DEF Return

LEMMA CallStepTurns ==
    ASSUME Typed, InTurn, NEW t \in Tasks, CallStep(t)
    PROVE  InTurn'
<1>0. /\ todo \in [Tasks -> Calls] /\ pc \in [Tasks -> Labels] /\ InCall(t)
      /\ slots \in [1 .. NumSlots -> Images \cup {NoImage}] /\ mmap \in -1 .. NumSlots
      /\ NumSlots \in Nat /\ setup.slots \in 1 .. NumSlots
      /\ path \in Images \cup {NoImage, Sideload, "freed"}
      /\ arg[t] \in Images \cup {NoImage, Sideload}
      /\ NoImage \notin Images /\ Sideload \notin Images
      /\ "freed" \notin Images \cup {NoImage, Sideload}
  BY ImagesAssumption DEF Typed, TypeOK, Placed, Setup
<1>1. Busy(t)
  BY <1>0 DEF CallStep, StopReturns, StopPasses, StopApp, StopSettles, PrepareImage, MapImage,
     StartReturns, StartPasses, StackIsRead, Launch, MarkRunning, At, Busy
<1>2. InPhase(t) /\ ~freed /\ \A u \in Tasks : u # t => ~Busy(u)
  BY <1>1 DEF InTurn
<1>3. CASE StopReturns(t)
  <2>1. Clean' /\ ~freed'
    BY <1>2, <1>3 DEF StopReturns, At, InPhase, Clean, Up, appVars
  <2> QED
    BY <1>1, <1>3, <2>1, ReturnMoves DEF StopReturns, At
<1>4. CASE StopPasses(t)
  <2>1. Up' /\ ~freed'
    BY <1>2, <1>4 DEF StopPasses, At, InPhase, Clean, Up, Slotted, appVars
  <2>2. InPhase(t)'
    BY <1>0, <1>4, <2>1 DEF StopPasses, Goto, InPhase
  <2> QED
    BY <1>0, <1>2, <1>4, <2>1, <2>2, Moves DEF StopPasses, Goto
<1>5. CASE StopApp(t)
  <2>1. Up
    BY <1>2, <1>5 DEF StopApp, At, InPhase
  <2>2. slots' = [s \in DOMAIN slots |-> NoImage]
    BY <1>0, <1>5, <2>1 DEF StopApp, Unmapped, Up, Slotted
  <2>3. blocks' = {}
    BY <1>5, <2>1 DEF StopApp, BlocksFreed, Up
  <2>4. Clean' /\ ~freed'
    BY <1>2, <1>5, <2>1, <2>2, <2>3 DEF StopApp, Clean, Up
  <2>5. InPhase(t)' /\ pc' = [pc EXCEPT ![t] = "settling"]
    BY <1>0, <1>5, <2>1, <2>4 DEF StopApp, Goto, InPhase, Up
  <2> QED
    BY <1>0, <1>2, <2>4, <2>5, Moves
<1>6. CASE StopSettles(t)
  <2>1. Clean' /\ ~freed'
    BY <1>2, <1>6 DEF StopSettles, InPhase, Clean, appVars
  <2> QED
    BY <1>0, <1>1, <1>6, <2>1, ReturnMoves DEF StopSettles, InCall
<1>7. CASE PrepareImage(t)
  <2>1. Clean' /\ ~freed' /\ path' # "freed"
    BY <1>0, <1>2, <1>7 DEF PrepareImage, At, InPhase, Clean
  <2>2. CASE arg[t] = Sideload
    <3>1. ToStart'
      BY <1>0, <1>7, <2>1, <2>2 DEF PrepareImage, Clean, ToStart, Slotted
    <3> QED
      BY <1>1, <1>7, <2>1, <2>2, <3>1, ReturnMoves DEF PrepareImage, At
  <2>3. CASE arg[t] # Sideload
    <3>1. InPhase(t)'
      BY <1>0, <1>7, <2>1, <2>3 DEF PrepareImage, Goto, InPhase
    <3> QED
      BY <1>0, <1>2, <1>7, <2>1, <2>3, <3>1, Moves DEF PrepareImage, Goto
  <2> QED
    BY <2>2, <2>3
<1>8. CASE MapImage(t)
  <2>1. Clean /\ path # "freed" /\ path' = path
    BY <1>2, <1>8 DEF MapImage, At, InPhase
  <2>2. Slotted'
    <3>1. CASE path \in Images \ setup.missing /\ FreeSlots # {}
      <4>1. PICK s \in FreeSlots : mmap' = s /\ slots' = [slots EXCEPT ![s] = path]
        BY <1>8, <3>1 DEF MapImage
      <4>2. s \in 1 .. NumSlots
        BY <1>0, <4>1 DEF FreeSlots
      <4> QED
        BY <1>0, <2>1, <4>1, <4>2 DEF Slotted, Clean
    <3>2. CASE ~(path \in Images \ setup.missing /\ FreeSlots # {})
      BY <1>8, <2>1, <3>2 DEF MapImage, Slotted, Clean
    <3> QED
      BY <3>1, <3>2
  <2>3. ToStart' /\ ~freed'
    BY <1>2, <1>8, <2>1, <2>2 DEF MapImage, ToStart, Clean
  <2> QED
    BY <1>1, <1>8, <2>3, ReturnMoves DEF MapImage, At
<1>9. CASE StartReturns(t)
  <2>1. ToStart /\ mmap <= 0
    BY <1>2, <1>9 DEF StartReturns, At, InPhase, ToStart
  <2>2. Clean' /\ ~freed'
    BY <1>0, <1>2, <1>9, <2>1 DEF StartReturns, ToStart, Slotted, Clean, appVars
  <2> QED
    BY <1>1, <1>9, <2>2, ReturnMoves DEF StartReturns, At
<1>10. CASE StartPasses(t)
  <2>1. ToStart' /\ mmap' > 0 /\ ~freed'
    BY <1>2, <1>10 DEF StartPasses, At, InPhase, ToStart, Slotted, appVars
  <2>2. InPhase(t)'
    BY <1>0, <1>10, <2>1 DEF StartPasses, Goto, InPhase
  <2> QED
    BY <1>0, <1>2, <1>10, <2>1, <2>2, Moves DEF StartPasses, Goto
<1>11. CASE StackIsRead(t)
  <2>1. ToStart' /\ mmap' > 0 /\ ~freed'
    BY <1>2, <1>11 DEF StackIsRead, InPhase, ToStart, Slotted, appVars
  <2>2. InPhase(t)'
    BY <1>0, <1>11, <2>1 DEF StackIsRead, Goto, InPhase
  <2> QED
    BY <1>0, <1>2, <1>11, <2>1, <2>2, Moves DEF StackIsRead, Goto
<1>12. CASE Launch(t)
  <2>1. ToMark' /\ ~freed'
    BY <1>2, <1>12 DEF Launch, At, InPhase, ToStart, ToMark, Slotted
  <2>2. InPhase(t)'
    BY <1>0, <1>12, <2>1 DEF Launch, Goto, InPhase
  <2> QED
    BY <1>0, <1>2, <1>12, <2>1, <2>2, Moves DEF Launch, Goto
<1>13. CASE MarkRunning(t)
  <2>1. Up' /\ ~freed'
    BY <1>2, <1>13 DEF MarkRunning, At, InPhase, ToMark, Up, Slotted
  <2> QED
    BY <1>1, <1>13, <2>1, ReturnMoves DEF MarkRunning, At
<1> QED
  BY <1>3, <1>4, <1>5, <1>6, <1>7, <1>8, <1>9, <1>10, <1>11, <1>12, <1>13 DEF CallStep

(* A command, a press of ON or the end of a task.                          *)
LEMMA OutsideTurns ==
    ASSUME Typed, InTurn, setup.usage = "turns",
           \/ \E image \in setup.asked : Exec(image)
           \/ Kill \/ SlsStart \/ PressOrRelease \/ FileManagerEnds \/ Reply \/ StartEnds
           \/ \E s \in Scanners : Scan(s) \/ ScanEnds(s)
           \/ UNCHANGED vars
    PROVE  InTurn'
<1>0. /\ todo \in [Tasks -> Calls] /\ pc \in [Tasks -> Labels]
      /\ Usb \in Tasks /\ Start \in Tasks /\ "scan2" \in Tasks /\ Scanners \subseteq Tasks
  BY DEF Typed, Placed, Tasks, Scanners
<1>b. ASSUME NEW t \in Tasks, NEW calls, NEW image, calls = ExecCalls \/ calls = <<"stop">>,
             Nobody, Begins(t, calls, image), UNCHANGED appVars
      PROVE  InTurn'
  <2>1. (Clean' \/ Up') /\ ~freed'
    BY <1>b DEF InTurn, Clean, Up, Slotted, appVars
  <2>2. pc'[t] = "begin" /\ todo'[t] # <<>> /\ Head(todo'[t]) = "stop"
    BY <1>0, <1>b DEF Begins, ExecCalls
  <2>3. InPhase(t)'
    BY <2>1, <2>2 DEF InPhase
  <2> QED
    BY <1>0, <1>b, <2>1, <2>3, Moves DEF Begins, Nobody
<1>e. ASSUME NEW t \in Tasks, pc[t] = "begin", todo[t] = <<>>, UNCHANGED appVars,
             Nobody'
      PROVE  InTurn'
  <2>1. Clean \/ Up
    BY <1>e DEF InTurn, InPhase, Busy
  <2>2. (Clean' \/ Up') /\ ~freed'
    BY <1>e, <2>1 DEF InTurn, Clean, Up, Slotted, appVars
  <2> QED
    BY <1>e, <2>2 DEF InTurn, Nobody
<1>u. ASSUME UNCHANGED <<appVars, pc, todo>> PROVE InTurn'
  BY <1>u DEF InTurn, Nobody, Busy, InPhase, Clean, Up, ToStart, ToMark, Slotted, appVars
<1>1. ASSUME NEW image \in setup.asked, Exec(image) PROVE InTurn'
  BY <1>0, <1>1, <1>b DEF Exec, MayOperate, Quiet, Nobody
<1>2. CASE Kill
  BY <1>0, <1>2, <1>b DEF Kill, MayOperate, Quiet, Nobody
<1>3. CASE SlsStart
  BY <1>0, <1>3, <1>b DEF SlsStart, MayOperate, Quiet, Nobody
<1>4. CASE PressOrRelease \/ FileManagerEnds
  BY <1>4, <1>u DEF PressOrRelease, FileManagerEnds
<1>5. CASE Reply
  <2>1. Nobody'
    BY <1>0, <1>5 DEF Reply, Goto, InTurn, Nobody, Busy
  <2> QED
    BY <1>0, <1>5, <1>e, <2>1 DEF Reply
<1>6. CASE StartEnds
  <2>1. Nobody'
    BY <1>0, <1>6 DEF StartEnds, InTurn, Nobody, Busy
  <2> QED
    BY <1>0, <1>6, <1>e, <2>1 DEF StartEnds
<1>7. ASSUME NEW s \in Scanners, Scan(s) PROVE InTurn'
  <2>1. CASE counter'[s] >= ScanLimit
    BY <1>0, <1>7, <1>b, <2>1 DEF Scan, Nobody
  <2>2. CASE ~(counter'[s] >= ScanLimit)
    BY <1>7, <1>u, <2>2 DEF Scan
  <2> QED
    BY <2>1, <2>2
<1>8. ASSUME NEW s \in Scanners, ScanEnds(s) PROVE InTurn'
  <2>1. Nobody'
    BY <1>0, <1>8 DEF ScanEnds, Goto, InTurn, Nobody, Busy
  <2> QED
    BY <1>0, <1>8, <1>e, <2>1 DEF ScanEnds
<1>9. CASE UNCHANGED vars
  BY <1>9, <1>u DEF vars, appVars
<1> QED
  BY <1>1, <1>2, <1>3, <1>4, <1>5, <1>6, <1>7, <1>8, <1>9

LEMMA InitTurns == Init => TurnsInv
<1> SUFFICES ASSUME Init PROVE InTurn
  BY DEF TurnsInv
<1>1. Clean /\ ~freed
  BY DEF Init, Clean
<1>2. CASE BootsWithImage
  <2>1. \A t \in Tasks : Busy(t) <=> t = Start
    BY <1>2 DEF BootsWithImage, Busy, Tasks, Start, Usb
  <2>2. pc[Start] = "begin" /\ todo[Start] = <<"stop", "map", "start">> /\ Start \in Tasks
    BY <1>2 DEF BootsWithImage, Tasks
  <2>3. Head(todo[Start]) = "stop" /\ todo[Start] # <<>>
    BY <2>2
  <2>4. InPhase(Start)
    BY <1>1, <2>2, <2>3 DEF InPhase
  <2> QED
    BY <1>1, <2>1, <2>4 DEF InTurn
<1>3. CASE BootsWithoutImage
  <2>1. Nobody
    BY <1>3 DEF BootsWithoutImage, Nobody, Busy
  <2> QED
    BY <1>1, <2>1 DEF InTurn, Nobody
<1> QED
  BY <1>2, <1>3 DEF Init

LEMMA TurnsStep == Typed /\ TurnsInv /\ [Next]_vars => TurnsInv'
<1> SUFFICES ASSUME Typed, TurnsInv, [Next]_vars, setup'.usage = "turns" PROVE InTurn'
  BY DEF TurnsInv
<1>1. setup' = setup
  <2>1. ASSUME NEW t \in Tasks, CallStep(t) PROVE setup' = setup
    BY <2>1 DEF CallStep, StopReturns, StopPasses, StopApp, StopSettles, PrepareImage, MapImage,
       StartReturns, StartPasses, StackIsRead, Launch, MarkRunning, appVars
  <2> QED
    BY <2>1, Cases DEF Exec, Kill, SlsStart, PressOrRelease, FileManagerEnds, Reply, StartEnds,
       Scan, ScanEnds, appVars, vars
<1>2. InTurn /\ setup.usage = "turns"
  BY <1>1 DEF TurnsInv
<1> QED
  BY <1>2, Cases, CallStepTurns, OutsideTurns

(* Where the state can be when operations take turns.                      *)
LEMMA TurnsPhases ==
    ASSUME Typed, InTurn
    PROVE  Clean \/ Up \/ ToStart \/ ToMark
<1>1. CASE Nobody
  BY <1>1 DEF InTurn
<1>2. CASE ~Nobody
  <2>1. PICK t \in Tasks : Busy(t)
    BY <1>2 DEF Nobody
  <2>2. InPhase(t)
    BY <2>1 DEF InTurn
  <2>3. pc[t] \in Labels /\ pc[t] \notin {"idle", "gone", "deleted"}
    BY <2>1 DEF Busy, Typed, Placed
  <2>4. pc[t] = "begin" /\ todo[t] # <<>> => Head(todo[t]) \in {"stop", "map", "start"}
    BY CallsShrink DEF Typed, Placed
  <2> QED
    BY <2>2, <2>3, <2>4 DEF InPhase, Labels
<1> QED
  BY <1>1, <1>2

(* When one operation follows the other, nothing is lost or freed twice    *)
(* over any number of starts and stops: a mapping is the one app_stop will *)
(* close, a block the one it will free (system/app_runtime.c:116, 318,     *)
(* 384).                                                                   *)
THEOREM NothingIsLost == Spec => []Balanced
<1>1. Typed /\ TurnsInv => Balanced
  BY TurnsPhases DEF TurnsInv, InTurn, Clean, Up, ToStart, ToMark, Slotted, Balanced
<1> QED
  BY InitTyped, NextTyped, InitTurns, TurnsStep, <1>1, PTL DEF Spec

(* The image an application runs is then the one asked for last: no older  *)
(* mapping stands in front of it (system/app_runtime.c:384, boot1/mm.c).   *)
THEOREM TheImageAskedForRuns == Spec => []RunsTheImageAskedFor
<1>1. Typed /\ TurnsInv => RunsTheImageAskedFor
  <2> SUFFICES ASSUME Typed, InTurn, running, path \in Images PROVE Served = path
    BY DEF TurnsInv, RunsTheImageAskedFor
  <2>1. Up
    BY TurnsPhases DEF Clean, ToStart, ToMark
  <2>2. /\ mmap \in DOMAIN slots /\ slots[mmap] = path /\ path # NoImage
        /\ \A s \in DOMAIN slots : slots[s] # NoImage => s = mmap
        /\ mmap <= mmap
    BY <2>1, ImagesAssumption DEF Up, Slotted, Typed, TypeOK
  <2>3. (CHOOSE s \in DOMAIN slots :
            /\ slots[s] # NoImage
            /\ \A r \in DOMAIN slots : slots[r] # NoImage => s <= r) = mmap
    BY <2>2
  <2> QED
    BY <2>2, <2>3 DEF Served
<1> QED
  BY InitTyped, NextTyped, InitTurns, TurnsStep, <1>1, PTL DEF Spec
=============================================================================
