---------------------------- MODULE UsbNetProofs ----------------------------
(***************************************************************************)
(* Theorems about the buffers between USB and lwIP, for any addresses of   *)
(* the host and any file: however the USB task, lwIP and the host          *)
(* interleave, no buffer is lost or handed out twice, a frame that comes   *)
(* finds room, and an upload that was answered 'T' throughout is stored.   *)
(***************************************************************************)
EXTENDS UsbNet, SequenceTheorems, FiniteSetTheorems, TLAPS

-----------------------------------------------------------------------------
(* The pool.  It has two buffers, so the list of the free ones is one of   *)
(* a few.                                                                  *)

Frees(m) == {b \in Bufs : Contains(m.pool, b)}

LEMMA TwoBufs ==
    \E b, c \in Bufs : b # c /\ Bufs = {b, c}
<1>1. IsFiniteSet(Bufs) /\ Cardinality(Bufs) = 2
  BY UsbNetAssumption
<1>2. PICK b \in Bufs : TRUE
  BY <1>1, FS_EmptySet
<1>3. IsFiniteSet(Bufs \ {b}) /\ Cardinality(Bufs \ {b}) = 1
  BY <1>1, <1>2, FS_RemoveElement
<1>4. PICK c : Bufs \ {b} = {c}
  BY <1>3, FS_Singleton
<1> QED
  BY <1>2, <1>4

LEMMA PoolContains ==
    /\ \A x : ~Contains(<<>>, x)
    /\ \A b, x : Contains(<<b>>, x) <=> x = b
    /\ \A b, c, x : Contains(<<b, c>>, x) <=> x \in {b, c}
<1>1. ASSUME NEW x PROVE ~Contains(<<>>, x)
  BY DEF Contains
<1>2. ASSUME NEW b, NEW x PROVE Contains(<<b>>, x) <=> x = b
  <2>1. Len(<<b>>) = 1 /\ <<b>>[1] = b /\ \A i \in 1 .. 1 : i = 1 /\ 1 \in 1 .. 1
    OBVIOUS
  <2> QED
    BY <2>1 DEF Contains
<1>3. ASSUME NEW b, NEW c, NEW x PROVE Contains(<<b, c>>, x) <=> x \in {b, c}
  <2>1. Len(<<b, c>>) = 2 /\ <<b, c>>[1] = b /\ <<b, c>>[2] = c
    OBVIOUS
  <2>2. \A i : i \in 1 .. 2 <=> i = 1 \/ i = 2
    OBVIOUS
  <2> QED
    BY <2>1, <2>2 DEF Contains
<1> QED
  BY <1>1, <1>2, <1>3

(* The list is one of the free buffers, without repetition.                *)
Distinct(s) == s = <<>> \/ (\E b \in Bufs : s = <<b>>) \/ \E b, c \in Bufs : b # c /\ s = <<b, c>>

LEMMA Pushed ==
    ASSUME NEW s, Distinct(s), NEW b \in Bufs, ~Contains(s, b)
    PROVE  /\ Distinct(<<b>> \o s)
           /\ \A x : Contains(<<b>> \o s, x) <=> x = b \/ Contains(s, x)
<1>1. CASE s = <<>>
  <2>1. <<b>> \o <<>> = <<b>>
    OBVIOUS
  <2> QED
    BY <1>1, <2>1, PoolContains DEF Distinct
<1>2. ASSUME NEW c \in Bufs, s = <<c>>
      PROVE  /\ Distinct(<<b>> \o s)
             /\ \A x : Contains(<<b>> \o s, x) <=> x = b \/ Contains(s, x)
  <2>1. <<b>> \o <<c>> = <<b, c>>
    <3>1. <<b>> \in Seq(Bufs) /\ <<c>> \in Seq(Bufs) /\ <<b, c>> \in Seq(Bufs)
      OBVIOUS
    <3>2. /\ <<b>> \o <<c>> \in Seq(Bufs) /\ Len(<<b>> \o <<c>>) = 2
          /\ (<<b>> \o <<c>>)[1] = b /\ (<<b>> \o <<c>>)[2] = c
      BY <3>1, ConcatProperties
    <3>3. Len(<<b, c>>) = 2 /\ <<b, c>>[1] = b /\ <<b, c>>[2] = c
      OBVIOUS
    <3>4. \A i \in 1 .. 2 : (<<b>> \o <<c>>)[i] = <<b, c>>[i]
      BY <3>2, <3>3
    <3> QED
      BY <3>1, <3>2, <3>3, <3>4, SeqEqual
  <2>2. b # c
    BY <1>2, PoolContains
  <2>3. Distinct(<<b, c>>)
    BY <2>2 DEF Distinct
  <2>4. \A x : Contains(<<b, c>>, x) <=> x = b \/ Contains(<<c>>, x)
    BY PoolContains
  <2> QED
    BY <1>2, <2>1, <2>3, <2>4
<1>3. ASSUME NEW c \in Bufs, NEW d \in Bufs, c # d, s = <<c, d>> PROVE FALSE
  BY <1>3, TwoBufs, PoolContains
<1> QED
  BY <1>1, <1>2, <1>3 DEF Distinct

LEMMA Popped ==
    ASSUME NEW s, Distinct(s), s # <<>>
    PROVE  /\ Head(s) \in Bufs /\ Contains(s, Head(s)) /\ Distinct(Tail(s))
           /\ \A x : Contains(Tail(s), x) <=> x # Head(s) /\ Contains(s, x)
<1>1. ASSUME NEW c \in Bufs, s = <<c>>
      PROVE  /\ Head(s) \in Bufs /\ Contains(s, Head(s)) /\ Distinct(Tail(s))
             /\ \A x : Contains(Tail(s), x) <=> x # Head(s) /\ Contains(s, x)
  <2>1. Head(<<c>>) = c /\ Tail(<<c>>) = <<>>
    OBVIOUS
  <2> QED
    BY <1>1, <2>1, PoolContains DEF Distinct
<1>2. ASSUME NEW c \in Bufs, NEW d \in Bufs, c # d, s = <<c, d>>
      PROVE  /\ Head(s) \in Bufs /\ Contains(s, Head(s)) /\ Distinct(Tail(s))
             /\ \A x : Contains(Tail(s), x) <=> x # Head(s) /\ Contains(s, x)
  <2>1. Head(<<c, d>>) = c /\ Tail(<<c, d>>) = <<d>>
    OBVIOUS
  <2> QED
    BY <1>2, <2>1, PoolContains DEF Distinct
<1> QED
  BY <1>1, <1>2 DEF Distinct

LEMMA EmptyPool ==
    ASSUME NEW s, Distinct(s)
    PROVE  s = <<>> <=> \A b \in Bufs : ~Contains(s, b)
BY PoolContains DEF Distinct

(* A count of 0 or 255 is that of a free buffer, and 1 that of any other.  *)
Sound(m) ==
    /\ m = [ref |-> m.ref, pool |-> m.pool]
    /\ m.ref \in [Bufs -> 0 .. 255] /\ Distinct(m.pool)
    /\ \A b \in Bufs : IF Contains(m.pool, b) THEN m.ref[b] \in {0, 255} ELSE m.ref[b] = 1

LEMMA Freed ==
    ASSUME NEW m, Sound(m), NEW b \in Bufs, Contains(m.pool, b) => m.ref[b] = 0
    PROVE  LET n == PbufFree(m, b)
           IN  /\ Sound(n) /\ Frees(n) = Frees(m) \cup {b}
               /\ \A c \in Bufs : c # b => n.ref[c] = m.ref[c]
               /\ ~Contains(m.pool, b) => n.ref[b] = 0
<1> DEFINE n == PbufFree(m, b)
<1>1. b # None
  BY UsbNetAssumption
<1>2. CASE Contains(m.pool, b)
  <2>1. m.ref[b] = 0 /\ (0 + 255) % 256 = 255
    BY <1>2
  <2>2. n = [ref |-> [m.ref EXCEPT ![b] = 255], pool |-> m.pool]
    BY <1>1, <2>1 DEF PbufFree
  <2>3. n.ref = [m.ref EXCEPT ![b] = 255] /\ n.pool = m.pool
    BY <2>2
  <2> HIDE DEF n
  <2>4. n.ref \in [Bufs -> 0 .. 255] /\ n.ref[b] = 255 /\ \A c \in Bufs : c # b => n.ref[c] = m.ref[c]
    BY <2>3 DEF Sound
  <2>5. Frees(n) = Frees(m) \cup {b}
    BY <1>2, <2>3 DEF Frees
  <2>6. n = [ref |-> n.ref, pool |-> n.pool]
    BY <2>2, <2>3
  <2>7. Sound(n)
    BY <1>2, <2>3, <2>4, <2>6 DEF Sound
  <2> QED
    BY <1>2, <2>4, <2>5, <2>7 DEF n
<1>3. CASE ~Contains(m.pool, b)
  <2>1. m.ref[b] = 1 /\ (1 + 255) % 256 = 0
    BY <1>3 DEF Sound
  <2>2. n = [ref |-> [m.ref EXCEPT ![b] = 0], pool |-> <<b>> \o m.pool]
    BY <1>1, <2>1 DEF PbufFree
  <2>3. n.ref = [m.ref EXCEPT ![b] = 0] /\ n.pool = <<b>> \o m.pool
    BY <2>2
  <2>4. Distinct(n.pool) /\ \A x : Contains(n.pool, x) <=> x = b \/ Contains(m.pool, x)
    BY <1>3, <2>3, Pushed DEF Sound
  <2> HIDE DEF n
  <2>5. n.ref \in [Bufs -> 0 .. 255] /\ n.ref[b] = 0 /\ \A c \in Bufs : c # b => n.ref[c] = m.ref[c]
    BY <2>3 DEF Sound
  <2>6. Frees(n) = Frees(m) \cup {b}
    BY <2>4 DEF Frees
  <2>7. n = [ref |-> n.ref, pool |-> n.pool]
    BY <2>2, <2>3
  <2>8. Sound(n)
    BY <2>4, <2>5, <2>7 DEF Sound
  <2> QED
    BY <2>5, <2>6, <2>8 DEF n
<1> QED
  BY <1>2, <1>3

LEMMA FreedNone == \A m : PbufFree(m, None) = m
BY DEF PbufFree

(* Counted, because it waits, and then freed by its sender.                *)
LEMMA CountedAndFreed ==
    ASSUME NEW m, Sound(m), NEW b \in Bufs, ~Contains(m.pool, b)
    PROVE  PbufFree(PbufRef(m, b), b) = m
<1>1. b # None /\ m.ref[b] = 1 /\ (1 + 1) % 256 = 2 /\ (2 + 255) % 256 = 1
  BY UsbNetAssumption DEF Sound
<1>2. PbufRef(m, b) = [ref |-> [m.ref EXCEPT ![b] = 2], pool |-> m.pool]
  BY <1>1 DEF PbufRef, Sound
<1> DEFINE k == [ref |-> [m.ref EXCEPT ![b] = 2], pool |-> m.pool]
<1>3. k.ref[b] = 2 /\ k.ref = [m.ref EXCEPT ![b] = 2] /\ k.pool = m.pool
  BY DEF Sound
<1>4. PbufFree(k, b) = [ref |-> [k.ref EXCEPT ![b] = 1], pool |-> k.pool]
  <2> HIDE DEF k
  <2> QED
    BY <1>1, <1>3 DEF PbufFree
<1>5. [k.ref EXCEPT ![b] = 1] = m.ref
  BY <1>1, <1>3 DEF Sound
<1> QED
  BY <1>2, <1>3, <1>4, <1>5 DEF Sound

-----------------------------------------------------------------------------
(* The invariant.                                                          *)

Free(b) == Contains(pool, b)
Held(b) == \E p \in Peers : q[p] = b

(* Frames that name their sender come from an address of the host.         *)
Addressed(f) == f.what \in {"arp", "upload", "other"} => f.peer \in Peers

Contents ==
    /\ DOMAIN data = Bufs /\ \A b \in Bufs : Addressed(data[b])

NetTypes ==
    /\ received_frame \in Bufs \cup {None}
    /\ q \in [Peers -> Bufs \cup {None}]
    /\ job \in [frame : Bufs \cup {None}, out : Bufs \cup {None}, hold : Peers \cup {None}]
    /\ Contents /\ Addressed(received)

(* Each buffer is free, or the frame, or held back, or being sent.  What   *)
(* is held back and what is being sent is never more than one.             *)
BuffersInv ==
    /\ Sound(Memory)
    /\ \A b \in Bufs : Free(b) \/ b = received_frame \/ Held(b) \/ b = job.out
    /\ \A b \in Bufs : Free(b) => b # received_frame /\ ~Held(b) /\ b # job.out
    /\ received_frame # None => ~Held(received_frame) /\ received_frame # job.out
    /\ job.out # None => \A p \in Peers : q[p] = None
    /\ \A p, r \in Peers : q[p] # None /\ q[r] # None => p = r

(* The frame that lwIP is at work on is still the one to serve, or has     *)
(* been freed by a configuration, and then its count is 0.                 *)
JobInv ==
    /\ job # Idle => pc \in {"send", "nested"} /\ job.frame # None
    /\ job.frame # None =>
         /\ job.frame # job.out
         /\ received_frame = job.frame \/ (Free(job.frame) /\ ref[job.frame] = 0)
    /\ job.hold # None => job.out # None

(* A frame is armed for, or on its way through the queue, but once; resets *)
(* and configurations come last in the queue.                              *)
Events == {"in", "out", "reset", "open"}

QueueOk ==
    /\ events \in Seq(Events)
    /\ \A i \in 1 .. Len(events) : events[i] \in {"reset", "open"} => i = Len(events)
    /\ \A i, j \in 1 .. Len(events) : events[i] = "out" /\ events[j] = "out" => i = j

ArmedInv ==
    /\ listening => ~Contains(events, "out")
    /\ listening \/ Contains(events, "out") => received_frame = None

NetInv == NetTypes /\ BuffersInv /\ JobInv /\ QueueOk /\ ArmedInv

-----------------------------------------------------------------------------
(* Steps on the queue of events.                                           *)

LEMMA EventHandled ==
    ASSUME QueueOk, NEW e, Handles(e)
    PROVE  /\ QueueOk' /\ Contains(events, e)
           /\ Contains(events', "out") => Contains(events, "out")
           /\ e \in {"out", "reset", "open"} => ~Contains(events', "out")
<1>1. /\ events \in Seq(Events) /\ events # <<>> /\ events[1] = e /\ events' = Tail(events)
      /\ Len(events) \in Nat \ {0}
  BY DEF QueueOk, Handles
<1>2. /\ events' \in Seq(Events) /\ Len(events') = Len(events) - 1
      /\ \A i \in 1 .. Len(events') : events'[i] = events[i + 1]
  BY <1>1, HeadTailProperties
<1>3. \A i \in 1 .. Len(events') : i + 1 \in 1 .. Len(events) /\ i + 1 # 1
  BY <1>1, <1>2
<1>4. QueueOk'
  <2>1. ASSUME NEW i \in 1 .. Len(events'), events'[i] \in {"reset", "open"} PROVE i = Len(events')
    <3>1. i + 1 \in 1 .. Len(events) /\ events[i + 1] \in {"reset", "open"}
      BY <1>2, <1>3, <2>1
    <3>2. i + 1 = Len(events)
      BY <3>1 DEF QueueOk
    <3>3. Len(events') = Len(events) - 1 /\ Len(events) \in Nat
      BY <1>1, <1>2
    <3> QED
      BY <3>2, <3>3
  <2>2. ASSUME NEW i \in 1 .. Len(events'), NEW j \in 1 .. Len(events'),
               events'[i] = "out", events'[j] = "out"
        PROVE  i = j
    <3>1. i + 1 = j + 1
      BY <1>2, <1>3, <2>2 DEF QueueOk
    <3> QED
      BY <3>1
  <2> QED
    BY <1>2, <2>1, <2>2 DEF QueueOk
<1>5. Contains(events, e)
  BY <1>1 DEF Contains
<1>6. Contains(events', "out") => Contains(events, "out")
  BY <1>2, <1>3 DEF Contains
<1>7. ASSUME e \in {"out", "reset", "open"}, NEW i \in 1 .. Len(events'), events'[i] = "out"
      PROVE  FALSE
  <2>1. i + 1 \in 1 .. Len(events) /\ events[i + 1] = "out" /\ 1 \in 1 .. Len(events)
    BY <1>1, <1>2, <1>3, <1>7
  <2>2. e = "out" => i + 1 = 1
    BY <1>1, <2>1 DEF QueueOk
  <2>3. e # "out" => Len(events) = 1
    BY <1>1, <1>7, <2>1 DEF QueueOk
  <2> QED
    BY <1>1, <1>2, <1>3, <2>1, <2>2, <2>3
<1> QED
  BY <1>4, <1>5, <1>6, <1>7 DEF Contains

LEMMA EventAdded ==
    ASSUME QueueOk, Quiet, NEW e \in Events, events' = Append(events, e),
           e = "out" => ~Contains(events, "out")
    PROVE  QueueOk' /\ (Contains(events', "out") <=> e = "out" \/ Contains(events, "out"))
<1>1. /\ events' \in Seq(Events) /\ Len(events') = Len(events) + 1 /\ Len(events) \in Nat
      /\ \A i \in 1 .. Len(events) : events'[i] = events[i]
      /\ events'[Len(events) + 1] = e
  BY AppendProperties DEF QueueOk
<1>2. \A i \in 1 .. Len(events') : i \in 1 .. Len(events) \/ i = Len(events) + 1
  BY <1>1
<1>3. \A i \in 1 .. Len(events) : events[i] \notin {"reset", "open"}
  BY DEF Quiet, Contains
<1>4. \A i \in 1 .. Len(events') : events'[i] \in {"reset", "open"} => i = Len(events')
  BY <1>1, <1>2, <1>3
<1>5. ASSUME NEW i \in 1 .. Len(events'), NEW j \in 1 .. Len(events'),
             events'[i] = "out", events'[j] = "out"
      PROVE  i = j
  <2>1. CASE e = "out"
    BY <1>1, <1>2, <1>5, <2>1 DEF Contains
  <2>2. CASE e # "out"
    BY <1>1, <1>2, <1>5, <2>2 DEF QueueOk
  <2> QED
    BY <2>1, <2>2
<1>6. Contains(events', "out") <=> e = "out" \/ Contains(events, "out")
  <2>1. Len(events) + 1 \in 1 .. Len(events') /\ \A i \in 1 .. Len(events) : i \in 1 .. Len(events')
    BY <1>1
  <2> QED
    BY <1>1, <1>2, <2>1 DEF Contains
<1> QED
  BY <1>1, <1>4, <1>5, <1>6 DEF QueueOk

-----------------------------------------------------------------------------
(* Steps on the memory.                                                    *)

LEMMA MemorySet ==
    ASSUME NetTypes, NEW m, Sound(m), SetMemory(m)
    PROVE  /\ Sound(Memory)' /\ ref' = m.ref /\ Contents'
           /\ \A b \in Bufs : Free(b)' <=> b \in Frees(m)
<1>1. ref' = m.ref /\ pool' = m.pool
  BY DEF SetMemory
<1>2. Memory' = m
  BY <1>1 DEF Memory, Sound
<1>3. Contents'
  <2>1. Addressed(Plain)
    BY DEF Addressed, Plain, Packet
  <2>2. DOMAIN data' = Bufs /\ \A b \in Bufs : data'[b] \in {Plain, data[b]}
    BY DEF SetMemory
  <2> QED
    BY <2>1, <2>2 DEF Contents, NetTypes, Addressed
<1> QED
  BY <1>1, <1>2, <1>3 DEF Free, Frees

LEMMA Allocated ==
    ASSUME NetTypes, Sound(Memory), NEW x, Addressed(x), PbufAlloc(x)
    PROVE  /\ Head(pool) \in Bufs /\ Free(Head(pool))
           /\ Sound(Memory)' /\ Contents'
           /\ \A b \in Bufs : Free(b)' <=> Free(b) /\ b # Head(pool)
           /\ \A b \in Bufs : b # Head(pool) => ref'[b] = ref[b]
<1>1. Memory.ref = ref /\ Memory.pool = pool
  BY DEF Memory
<1>2. /\ Head(pool) \in Bufs /\ Contains(pool, Head(pool)) /\ Distinct(Tail(pool))
      /\ \A b : Contains(Tail(pool), b) <=> b # Head(pool) /\ Contains(pool, b)
  BY <1>1, Popped DEF PbufAlloc, Sound
<1>3. /\ ref' = [ref EXCEPT ![Head(pool)] = 1] /\ pool' = Tail(pool)
      /\ data' = [data EXCEPT ![Head(pool)] = x]
  BY DEF PbufAlloc
<1>4. Memory' = [ref |-> ref', pool |-> pool'] /\ Memory'.ref = ref' /\ Memory'.pool = pool'
  BY DEF Memory
<1>5. /\ ref' \in [Bufs -> 0 .. 255] /\ ref'[Head(pool)] = 1
      /\ \A b \in Bufs : b # Head(pool) => ref'[b] = ref[b]
  BY <1>1, <1>2, <1>3 DEF Sound
<1>6. Sound(Memory)'
  BY <1>1, <1>2, <1>3, <1>4, <1>5 DEF Sound
<1>7. Contents'
  BY <1>2, <1>3 DEF Contents, NetTypes, Addressed
<1> QED
  BY <1>2, <1>3, <1>5, <1>6, <1>7 DEF Free

(* A step that leaves the buffers alone.                                   *)
LEMMA Untouched ==
    ASSUME NetTypes, BuffersInv, JobInv, UNCHANGED <<received_frame, memory, q, job>>,
           Addressed(received'), job # Idle => pc' \in {"send", "nested"}
    PROVE  NetTypes' /\ BuffersInv' /\ JobInv'
<1>1. Memory' = Memory
  BY DEF Memory, memory
<1>2. Sound(Memory)'
  BY <1>1 DEF BuffersInv, Sound
<1>3. NetTypes'
  BY DEF NetTypes, Contents, Addressed, memory
<1>4. BuffersInv'
  BY <1>2 DEF BuffersInv, Free, Held, memory
<1>5. JobInv'
  BY DEF JobInv, Free, memory
<1> QED
  BY <1>3, <1>4, <1>5

-----------------------------------------------------------------------------
(* tud_task().                                                             *)

LEMMA NetInit == Init => NetInv
<1> SUFFICES ASSUME Init PROVE NetInv
  OBVIOUS
<1>1. PICK b \in Bufs, c \in Bufs : b # c /\ Bufs = {b, c}
  BY TwoBufs
<1>2. Distinct(pool) /\ \A x \in Bufs : Contains(pool, x)
  <2>1. IsInjective(<<b, c>>) /\ <<b, c>> \in [1 .. 2 -> Bufs]
    BY <1>1 DEF IsInjective
  <2>2. Cardinality(Bufs) = 2
    BY UsbNetAssumption
  <2>3. pool \in [1 .. 2 -> Bufs] /\ IsInjective(pool)
    BY <2>1, <2>2 DEF Init, SetToSeq
  <2>4. pool = <<pool[1], pool[2]>> /\ pool[1] \in Bufs /\ pool[2] \in Bufs /\ pool[1] # pool[2]
    BY <2>3 DEF IsInjective
  <2>5. Distinct(pool)
    BY <2>4 DEF Distinct
  <2>6. \A x \in Bufs : x \in {pool[1], pool[2]}
    BY <1>1, <2>4
  <2> QED
    BY <2>4, <2>5, <2>6, PoolContains
<1>3. Sound(Memory)
  BY <1>2 DEF Init, Memory, Sound
<1>4. BuffersInv
  BY <1>2, <1>3, UsbNetAssumption DEF BuffersInv, Init, Free, Held, Idle
<1>5. NetTypes
  BY DEF NetTypes, Contents, Addressed, Plain, Packet, Init, Idle
<1>6. JobInv
  BY DEF JobInv, Init, Idle
<1>7. QueueOk /\ ArmedInv
  BY PoolContains DEF QueueOk, ArmedInv, Init
<1> QED
  BY <1>4, <1>5, <1>6, <1>7 DEF NetInv

(* Events that leave the buffers alone.                                    *)
LEMMA OtherEvents ==
    ASSUME NetInv, InDone \/ BusReset
    PROVE  NetInv'
<1>1. PICK e \in {"in", "reset"} : Handles(e)
  BY DEF InDone, BusReset
<1>2. /\ UNCHANGED <<received_frame, memory, q, job, received, listening>>
  BY DEF InDone, BusReset
<1>3. QueueOk' /\ (Contains(events', "out") => Contains(events, "out"))
  BY <1>1, EventHandled DEF NetInv
<1>4. job # Idle => pc' \in {"send", "nested"}
  <2>1. pc = "nested" => pc' \in {"send", "nested"}
    BY <1>1 DEF Handles
  <2>2. job # Idle => pc = "nested"
    BY <1>1 DEF NetInv, JobInv, Handles
  <2> QED
    BY <2>1, <2>2
<1>5. NetTypes' /\ BuffersInv' /\ JobInv'
  BY <1>2, <1>4, Untouched DEF NetInv, NetTypes
<1>6. ArmedInv'
  BY <1>2, <1>3 DEF NetInv, ArmedInv
<1> QED
  BY <1>3, <1>5, <1>6 DEF NetInv

LEMMA Room == NetInv => RoomForAFrame
<1> SUFFICES ASSUME NetInv, listening \/ Contains(events, "out")
             PROVE  received_frame = None /\ pool # <<>>
  BY DEF RoomForAFrame
<1>1. received_frame = None
  BY DEF NetInv, ArmedInv
<1>2. Distinct(pool)
  BY DEF NetInv, BuffersInv, Sound, Memory
<1>3. ASSUME \A b \in Bufs : ~Free(b) PROVE FALSE
  <2>1. job.frame = None
    BY <1>1, <1>3 DEF NetInv, JobInv, NetTypes
  <2>2. job.out = None
    BY <2>1 DEF NetInv, JobInv, Idle
  <2>3. \A b \in Bufs : Held(b)
    BY <1>1, <1>3, <2>2, UsbNetAssumption DEF NetInv, BuffersInv
  <2>4. PICK b \in Bufs, c \in Bufs : b # c
    BY TwoBufs
  <2>5. PICK p \in Peers, r \in Peers : q[p] = b /\ q[r] = c
    BY <2>3 DEF Held
  <2> QED
    BY <2>4, <2>5, UsbNetAssumption DEF NetInv, BuffersInv
<1> QED
  BY <1>1, <1>2, <1>3, EmptyPool DEF Free

(* A frame is stored, or an empty one dropped.                             *)
LEMMA OutDoneStep ==
    ASSUME NetInv, OutDone
    PROVE  NetInv'
<1>1. Handles("out") /\ Stored /\ listening' = Refused /\ received' = Plain /\ UNCHANGED <<q, job>>
  BY DEF OutDone
<1>2. /\ QueueOk' /\ Contains(events, "out") /\ ~Contains(events', "out")
  BY <1>1, EventHandled DEF NetInv
<1>3. received_frame = None /\ pool # <<>> /\ ~listening'
  BY <1>1, <1>2, Room DEF RoomForAFrame, Refused
<1>4. job # Idle => pc' \in {"send", "nested"}
  <2>1. pc = "nested" => pc' \in {"send", "nested"}
    BY <1>1 DEF Handles
  <2>2. job # Idle => pc = "nested"
    BY <1>1 DEF NetInv, JobInv, Handles
  <2> QED
    BY <2>1, <2>2
<1>5. ArmedInv'
  BY <1>2, <1>3 DEF ArmedInv
<1>6. Addressed(received')
  BY <1>1 DEF Addressed, Plain, Packet
<1>7. CASE Dropped
  <2>1. UNCHANGED <<received_frame, memory>>
    BY <1>1, <1>7 DEF Stored
  <2> QED
    BY <1>1, <1>2, <1>4, <1>5, <1>6, <2>1, Untouched DEF NetInv
<1>8. CASE ~Dropped
  <2> DEFINE h == Head(pool)
  <2>1. PbufAlloc(received) /\ received_frame' = h
    BY <1>1, <1>3, <1>8 DEF Stored, Refused
  <2>2. /\ h \in Bufs /\ Free(h) /\ Sound(Memory)' /\ Contents'
        /\ \A b \in Bufs : Free(b)' <=> Free(b) /\ b # h
        /\ \A b \in Bufs : b # h => ref'[b] = ref[b]
    BY <2>1, Allocated DEF NetInv, NetTypes, BuffersInv
  <2> HIDE DEF h
  <2>3. NetTypes'
    BY <1>1, <1>6, <2>1, <2>2 DEF NetInv, NetTypes
  <2>4. BuffersInv'
    BY <1>1, <1>3, <2>1, <2>2, UsbNetAssumption DEF NetInv, BuffersInv, Held
  <2>5. JobInv'
    <3>1. job.frame # None => job.frame \in Bufs
      BY DEF NetInv, NetTypes
    <3> QED
      BY <1>1, <1>3, <1>4, <2>1, <2>2, <3>1 DEF NetInv, JobInv, NetTypes
  <2> QED
    BY <1>2, <1>5, <2>3, <2>4, <2>5 DEF NetInv
<1> QED
  BY <1>7, <1>8

(* A configuration frees the frame, also while lwIP is at work on it.      *)
LEMMA OpenedStep ==
    ASSUME NetInv, Opened
    PROVE  NetInv'
<1>1. /\ Handles("open") /\ UNCHANGED <<received, q, job>> /\ received_frame' = None
      /\ SetMemory(PbufFree(Memory, received_frame))
  BY DEF Opened, InitCb
<1>2. QueueOk' /\ ~Contains(events', "out")
  BY <1>1, EventHandled DEF NetInv
<1>3. ArmedInv'
  BY <1>1, <1>2 DEF ArmedInv
<1>4. job # Idle => pc' \in {"send", "nested"}
  <2>1. pc = "nested" => pc' \in {"send", "nested"}
    BY <1>1 DEF Handles
  <2>2. job # Idle => pc = "nested"
    BY <1>1 DEF NetInv, JobInv, Handles
  <2> QED
    BY <2>1, <2>2
<1> DEFINE m == PbufFree(Memory, received_frame)
<1>5. /\ Sound(m) /\ \A b \in Bufs : b \in Frees(m) <=> Free(b) \/ b = received_frame
      /\ \A b \in Bufs : b # received_frame => m.ref[b] = ref[b]
      /\ received_frame # None => m.ref[received_frame] = 0
  <2>1. Memory.ref = ref /\ Memory.pool = pool /\ Sound(Memory)
    BY DEF Memory, NetInv, BuffersInv
  <2>2. CASE received_frame = None
    BY <2>1, <2>2, FreedNone, UsbNetAssumption DEF Frees, Free
  <2>3. CASE received_frame # None
    <3>1. received_frame \in Bufs /\ ~Contains(Memory.pool, received_frame)
      BY <2>1, <2>3 DEF NetInv, NetTypes, BuffersInv, Free
    <3> QED
      BY <2>1, <3>1, Freed DEF Frees, Free
  <2> QED
    BY <2>2, <2>3
<1> HIDE DEF m
<1>6. /\ Sound(Memory)' /\ ref' = m.ref /\ Contents'
      /\ \A b \in Bufs : Free(b)' <=> Free(b) \/ b = received_frame
  BY <1>1, <1>5, MemorySet DEF NetInv, m
<1>7. NetTypes'
  BY <1>1, <1>6 DEF NetInv, NetTypes
<1>8. BuffersInv'
  BY <1>1, <1>6, UsbNetAssumption DEF NetInv, BuffersInv, Held
<1>9. JobInv'
  BY <1>1, <1>4, <1>5, <1>6 DEF NetInv, JobInv, NetTypes
<1> QED
  BY <1>2, <1>3, <1>7, <1>8, <1>9 DEF NetInv

-----------------------------------------------------------------------------
(* service_traffic() and lwIP.                                             *)

LEMMA QueueUnchanged ==
    ASSUME QueueOk, events' = events
    PROVE  QueueOk'
BY DEF QueueOk

LEMMA Returned ==
    ASSUME NetInv, NEW m, Sound(m), Returns(m), events' = events,
           received_frame # None /\ Contains(m.pool, received_frame) => m.ref[received_frame] = 0
    PROVE  /\ Sound(Memory)' /\ Contents' /\ QueueOk' /\ ArmedInv'
           /\ received_frame' = None /\ pc' = "timers"
           /\ \A b \in Bufs : Free(b)' <=> b \in Frees(m) \/ b = received_frame
<1> DEFINE n == PbufFree(m, received_frame)
<1>1. SetMemory(n) /\ received_frame' = None /\ listening' = (listening \/ Renews) /\ pc' = "timers"
  BY DEF Returns
<1>2. Sound(n) /\ \A b \in Bufs : b \in Frees(n) <=> b \in Frees(m) \/ b = received_frame
  <2>1. CASE received_frame = None
    BY <2>1, FreedNone, UsbNetAssumption DEF Frees
  <2>2. CASE received_frame # None
    <3>1. received_frame \in Bufs
      BY <2>2 DEF NetInv, NetTypes
    <3> QED
      BY <2>2, <3>1, Freed
  <2> QED
    BY <2>1, <2>2
<1> HIDE DEF n
<1>3. /\ Sound(Memory)' /\ Contents'
      /\ \A b \in Bufs : Free(b)' <=> b \in Frees(n)
  BY <1>1, <1>2, MemorySet DEF NetInv
<1>4. ArmedInv'
  BY <1>1 DEF NetInv, ArmedInv, Renews
<1> QED
  BY <1>1, <1>2, <1>3, <1>4, QueueUnchanged DEF NetInv

LEMMA NoJob ==
    ASSUME NetInv, pc \notin {"send", "nested"}
    PROVE  job = Idle /\ job.frame = None /\ job.out = None /\ job.hold = None
BY DEF NetInv, JobInv, Idle

LEMMA QuietSteps ==
    ASSUME NetInv, NothingToServe \/ Part \/ Nested \/ NoTimeout \/ TimerSends \/ UNCHANGED vars
    PROVE  NetInv'
<1>1. UNCHANGED <<received_frame, memory, q, job, received, listening, events>>
  BY DEF NothingToServe, Part, Nested, NoTimeout, TimerSends, vars, bus
<1>2. job # Idle => pc' \in {"send", "nested"}
  BY NoJob DEF NetInv, JobInv, NothingToServe, Part, Input, Nested, NoTimeout, TimerSends, vars
<1>3. NetTypes' /\ BuffersInv' /\ JobInv'
  BY <1>1, <1>2, Untouched DEF NetInv, NetTypes
<1>4. ArmedInv'
  BY <1>1 DEF NetInv, ArmedInv
<1> QED
  BY <1>1, <1>3, <1>4, QueueUnchanged DEF NetInv

LEMMA AskStep ==
    ASSUME NetInv, Ask
    PROVE  NetInv'
<1>1. /\ UNCHANGED <<received_frame, memory, q, received, listening, events>>
      /\ job' = [frame |-> received_frame, out |-> None, hold |-> None]
      /\ pc = "serve" /\ pc' = "send" /\ received_frame # None
  BY DEF Ask, Input, Idle, bus
<1>2. job.out = None /\ job.frame = None
  BY <1>1, NoJob
<1>3. job'.frame = received_frame /\ job'.out = None /\ job'.hold = None
  BY <1>1
<1>4. Sound(Memory)'
  BY <1>1 DEF NetInv, BuffersInv, Memory, memory, Sound
<1>5. NetTypes'
  BY <1>1 DEF NetInv, NetTypes, Contents, Addressed, memory
<1>6. BuffersInv'
  BY <1>1, <1>2, <1>3, <1>4 DEF NetInv, BuffersInv, Free, Held, memory
<1>7. JobInv'
  BY <1>1, <1>3 DEF JobInv
<1>8. ArmedInv'
  BY <1>1 DEF NetInv, ArmedInv
<1> QED
  BY <1>1, <1>5, <1>6, <1>7, <1>8, QueueUnchanged DEF NetInv

(* The frame is freed by lwIP and once more by service_traffic().          *)
LEMMA FrameFreed ==
    ASSUME NetInv, received_frame # None
    PROVE  LET m == PbufFree(Memory, received_frame)
           IN  /\ Sound(m) /\ m.ref[received_frame] = 0
               /\ \A b \in Bufs : b \in Frees(m) <=> Free(b) \/ b = received_frame
<1>1. /\ received_frame \in Bufs /\ ~Contains(Memory.pool, received_frame)
      /\ Sound(Memory) /\ Memory.pool = pool
  BY DEF NetInv, NetTypes, BuffersInv, Free, Memory
<1> QED
  BY <1>1, Freed DEF Frees, Free

LEMMA ArpStep ==
    ASSUME NetInv, Arp
    PROVE  NetInv'
<1> DEFINE p == data[received_frame].peer
           m == PbufFree(Memory, received_frame)
<1>1. /\ pc = "serve" /\ received_frame # None /\ q' = [q EXCEPT ![p] = None]
      /\ UNCHANGED <<received, events>>
  BY DEF Arp, Input
<1>2. p \in Peers /\ received_frame \in Bufs
  BY <1>1 DEF Arp, Input, NetInv, NetTypes, Contents, Addressed
<1>3. job = Idle /\ job.out = None /\ job.frame = None /\ job.hold = None
  BY <1>1, NoJob
<1>4. q' \in [Peers -> Bufs \cup {None}] /\ \A r \in Peers : q'[r] = IF r = p THEN None ELSE q[r]
  BY <1>1, <1>2 DEF NetInv, NetTypes
<1> HIDE DEF p
<1>5. CASE q[p] = None
  <2>1. Returns(m) /\ UNCHANGED job
    BY <1>5 DEF Arp, p
  <2>2. Sound(m) /\ m.ref[received_frame] = 0
        /\ \A b \in Bufs : b \in Frees(m) <=> Free(b) \/ b = received_frame
    BY <1>1, FrameFreed
  <2> HIDE DEF m
  <2>3. /\ Sound(Memory)' /\ Contents' /\ QueueOk' /\ ArmedInv'
        /\ received_frame' = None /\ pc' = "timers"
        /\ \A b \in Bufs : Free(b)' <=> Free(b) \/ b = received_frame
    BY <1>1, <2>1, <2>2, Returned
  <2>4. q' = q
    BY <1>4, <1>5 DEF NetInv, NetTypes
  <2>5. NetTypes'
    BY <1>1, <2>1, <2>3, <2>4 DEF NetInv, NetTypes
  <2>6. BuffersInv'
    BY <1>3, <2>1, <2>3, <2>4, UsbNetAssumption DEF NetInv, BuffersInv, Held
  <2>7. JobInv'
    BY <1>3, <2>1 DEF JobInv
  <2> QED
    BY <2>3, <2>5, <2>6, <2>7 DEF NetInv
<1>6. CASE q[p] # None
  <2>1. /\ job' = [frame |-> received_frame, out |-> q[p], hold |-> None] /\ pc' = "send"
        /\ UNCHANGED <<listening, received_frame, memory>>
    BY <1>6 DEF Arp, Idle, p
  <2>2. job'.frame = received_frame /\ job'.out = q[p] /\ job'.hold = None
    BY <2>1
  <2>3. q[p] \in Bufs /\ Held(q[p]) /\ q[p] # received_frame
    BY <1>1, <1>2, <1>6 DEF NetInv, NetTypes, BuffersInv, Held
  <2>4. \A r \in Peers : q'[r] = None
    BY <1>4, <1>6, <1>2 DEF NetInv, BuffersInv
  <2>5. \A b \in Bufs : Held(b) => b = q[p]
    BY <1>2, <1>6, UsbNetAssumption DEF NetInv, BuffersInv, Held
  <2>6. Sound(Memory)'
    BY <2>1 DEF NetInv, BuffersInv, Memory, memory, Sound
  <2>7. NetTypes'
    BY <1>1, <1>4, <2>1, <2>3 DEF NetInv, NetTypes, Contents, Addressed, memory
  <2>8. BuffersInv'
    <3>1. \A b \in Bufs : ~Held(b)'
      BY <2>4, UsbNetAssumption DEF Held
    <3>2. \A b \in Bufs : Free(b)' <=> Free(b)
      BY <2>1 DEF Free, memory
    <3>3. received_frame \in Bufs /\ received_frame' = received_frame
      BY <1>2, <2>1
    <3> QED
      BY <1>3, <2>2, <2>3, <2>4, <2>5, <2>6, <3>1, <3>2, <3>3, UsbNetAssumption
         DEF NetInv, BuffersInv, Held
  <2>9. JobInv'
    BY <1>1, <2>1, <2>2, <2>3 DEF JobInv
  <2>10. ArmedInv'
    BY <1>1, <2>1 DEF NetInv, ArmedInv
  <2> QED
    BY <1>1, <2>7, <2>8, <2>9, <2>10, QueueUnchanged DEF NetInv
<1> QED
  BY <1>5, <1>6

(* A command is answered from the other buffer, so none is held back then. *)
LEMMA CommandStep ==
    ASSUME NetInv, Command
    PROVE  NetInv'
<1> DEFINE f == data[received_frame]
           h == Head(pool)
<1>1. PICK says :
        /\ pc = "serve" /\ received_frame # None /\ pc' = "send"
        /\ f.what \in {"upload", "other"}
        /\ PbufAlloc(Packet(f.peer, says, 0)) /\ says \in {"packet", "T", "F"}
        /\ job' = [frame |-> received_frame, out |-> h,
                   hold |-> IF arp[f.peer] = "stable" THEN None ELSE f.peer]
        /\ UNCHANGED <<received_frame, q, received, events, listening>>
  BY DEF Command, Obey, bus
<1>2. f.peer \in Peers /\ received_frame \in Bufs
  BY <1>1 DEF NetInv, NetTypes, Contents, Addressed
<1>3. Addressed(Packet(f.peer, says, 0))
  BY <1>1 DEF Addressed, Packet
<1>4. /\ h \in Bufs /\ Free(h) /\ Sound(Memory)' /\ Contents'
      /\ \A b \in Bufs : Free(b)' <=> Free(b) /\ b # h
  BY <1>1, <1>3, Allocated DEF NetInv, NetTypes, BuffersInv
<1>5. job'.frame = received_frame /\ job'.out = h /\ job'.hold \in Peers \cup {None}
      /\ job' \in [frame : Bufs \cup {None}, out : Bufs \cup {None}, hold : Peers \cup {None}]
  BY <1>1, <1>2, <1>4
<1> HIDE DEF h, f
<1>6. h # received_frame /\ h # None /\ ~Held(h)
  BY <1>1, <1>4, UsbNetAssumption DEF NetInv, BuffersInv
<1>7. Bufs = {h, received_frame}
  BY <1>2, <1>4, <1>6, TwoBufs
<1>8. \A p \in Peers : q[p] = None
  BY <1>1, <1>6, <1>7 DEF NetInv, NetTypes, BuffersInv, Held
<1>9. NetTypes'
  BY <1>1, <1>4, <1>5 DEF NetInv, NetTypes
<1>10. BuffersInv'
  BY <1>1, <1>4, <1>5, <1>6, <1>7, <1>8, UsbNetAssumption DEF NetInv, BuffersInv, Held
<1>11. JobInv'
  BY <1>1, <1>5, <1>6 DEF JobInv
<1>12. ArmedInv'
  BY <1>1 DEF NetInv, ArmedInv
<1> QED
  BY <1>1, <1>9, <1>10, <1>11, <1>12, QueueUnchanged DEF NetInv

LEMMA NoMemStep ==
    ASSUME NetInv, NoMem
    PROVE  NetInv'
<1>1. pc = "serve" /\ Returns(Memory) /\ UNCHANGED <<received, events, q, job>>
  BY DEF NoMem
<1>2. job = Idle /\ job.out = None /\ job.frame = None /\ job.hold = None
  BY <1>1, NoJob
<1>4. /\ Sound(Memory)' /\ Contents' /\ QueueOk' /\ ArmedInv'
      /\ received_frame' = None /\ pc' = "timers"
      /\ \A b \in Bufs : Free(b)' <=> b \in Frees(Memory) \/ b = received_frame
  <2>1. Sound(Memory) /\ (received_frame # None => ~Contains(Memory.pool, received_frame))
    BY DEF NetInv, NetTypes, BuffersInv, Free, Memory
  <2> QED
    BY <1>1, <2>1, Returned
<1>5. \A b \in Bufs : b \in Frees(Memory) <=> Free(b)
  BY DEF Frees, Free, Memory
<1>6. NetTypes'
  BY <1>1, <1>4 DEF NetInv, NetTypes
<1>7. BuffersInv'
  BY <1>1, <1>2, <1>4, <1>5, UsbNetAssumption DEF NetInv, BuffersInv, Held
<1>8. JobInv'
  BY <1>1, <1>2 DEF JobInv
<1> QED
  BY <1>4, <1>6, <1>7, <1>8 DEF NetInv

-----------------------------------------------------------------------------
(* linkoutput_fn, with the rest of the callback that sends.                *)

LEMMA SentStep ==
    ASSUME NetInv, pc = "send", Sent
    PROVE  NetInv'
<1>1. CASE job = Idle
  <2>1. /\ pc' = "poll"
        /\ UNCHANGED <<received_frame, memory, q, job, received, listening, events>>
    BY <1>1 DEF Sent
  <2>2. NetTypes' /\ BuffersInv' /\ JobInv'
    BY <1>1, <2>1, Untouched DEF NetInv, NetTypes
  <2>3. ArmedInv'
    BY <2>1 DEF NetInv, ArmedInv
  <2> QED
    BY <2>1, <2>2, <2>3, QueueUnchanged DEF NetInv
<1>2. CASE job # Idle
  <2> DEFINE k == PbufFree(HeldBack, job.out)
             m == PbufFree(k, job.frame)
  <2>1. /\ Returns(m) /\ job' = Idle /\ UNCHANGED <<received, events>>
        /\ q' = IF job.hold = None THEN q ELSE [q EXCEPT ![job.hold] = job.out]
    BY <1>2 DEF Sent
  <2>2. job.frame \in Bufs /\ job.frame # job.out
        /\ (received_frame = job.frame \/ (Free(job.frame) /\ ref[job.frame] = 0))
    BY <1>2 DEF NetInv, JobInv, NetTypes
  <2>3. /\ Sound(Memory) /\ Memory.ref = ref /\ Memory.pool = pool
        /\ job.out # None => job.out \in Bufs /\ ~Contains(Memory.pool, job.out)
    BY DEF NetInv, NetTypes, BuffersInv, Free, Memory
  <2>4. /\ Sound(k) /\ k.ref[job.frame] = ref[job.frame]
        /\ \A b \in Bufs : b \in Frees(k) <=>
              Free(b) \/ (b = job.out /\ job.hold = None)
    <3>1. CASE job.out = None
      <4>1. job.hold = None /\ k = Memory
        BY <3>1, FreedNone DEF NetInv, JobInv, HeldBack
      <4> QED
        BY <2>3, <3>1, <4>1, UsbNetAssumption DEF Frees, Free
    <3>2. CASE job.out # None /\ job.hold = None
      <4>1. k = PbufFree(Memory, job.out)
        BY <3>2 DEF HeldBack
      <4> QED
        BY <2>2, <2>3, <3>2, <4>1, Freed DEF Frees, Free
    <3>3. CASE job.out # None /\ job.hold # None
      <4>1. k = Memory
        BY <2>3, <3>3, CountedAndFreed DEF HeldBack
      <4> QED
        BY <2>3, <3>3, <4>1 DEF Frees, Free
    <3> QED
      BY <3>1, <3>2, <3>3
  <2> HIDE DEF k
  <2>5. Contains(k.pool, job.frame) => k.ref[job.frame] = 0
    <3>1. Contains(k.pool, job.frame) => Free(job.frame)
      BY <2>2, <2>4 DEF Frees
    <3>2. Free(job.frame) => received_frame # job.frame
      BY <2>2 DEF NetInv, BuffersInv
    <3> QED
      BY <2>2, <2>4, <3>1, <3>2
  <2>6. /\ Sound(m) /\ Frees(m) = Frees(k) \cup {job.frame}
        /\ \A b \in Bufs : b # job.frame => m.ref[b] = k.ref[b]
        /\ ~Contains(k.pool, job.frame) => m.ref[job.frame] = 0
    BY <2>2, <2>4, <2>5, Freed
  <2> HIDE DEF m
  <2>7. \A b \in Bufs : b \in Frees(m) <=>
           Free(b) \/ (b = job.out /\ job.hold = None) \/ b = job.frame
    BY <2>4, <2>6
  <2>8. received_frame # None /\ Contains(m.pool, received_frame) => m.ref[received_frame] = 0
    <3> SUFFICES ASSUME received_frame # None, Contains(m.pool, received_frame)
                 PROVE  m.ref[received_frame] = 0
      OBVIOUS
    <3>1. received_frame \in Bufs /\ ~Free(received_frame) /\ received_frame # job.out
      BY DEF NetInv, NetTypes, BuffersInv
    <3>2. received_frame = job.frame
      BY <2>7, <3>1 DEF Frees
    <3>3. ~Contains(k.pool, job.frame)
      BY <2>4, <3>1, <3>2 DEF Frees
    <3> QED
      BY <2>6, <3>2, <3>3
  <2>9. /\ Sound(Memory)' /\ Contents' /\ QueueOk' /\ ArmedInv'
        /\ received_frame' = None /\ pc' = "timers"
        /\ \A b \in Bufs : Free(b)' <=>
             Free(b) \/ (b = job.out /\ job.hold = None) \/ b = job.frame \/ b = received_frame
    BY <2>1, <2>6, <2>7, <2>8, Returned
  <2>10. job'.frame = None /\ job'.out = None /\ job'.hold = None
    BY <2>1 DEF Idle
  <2>11. JobInv'
    BY <2>1, <2>10 DEF JobInv
  <2>12. NetTypes'
    <3>1. q' \in [Peers -> Bufs \cup {None}]
      BY <2>1 DEF NetInv, NetTypes
    <3>2. job' \in [frame : Bufs \cup {None}, out : Bufs \cup {None}, hold : Peers \cup {None}]
      BY <2>1 DEF Idle
    <3> QED
      BY <2>1, <2>9, <3>1, <3>2 DEF NetInv, NetTypes
  <2>13. BuffersInv'
    <3>1. CASE job.hold = None
      <4>1. q' = q
        BY <2>1, <3>1
      <4>2. job.out # None => \A b \in Bufs : ~Held(b)
        BY UsbNetAssumption DEF NetInv, BuffersInv, Held
      <4>3. ~Held(job.frame) /\ (received_frame # None => ~Held(received_frame))
        BY <2>2, UsbNetAssumption DEF NetInv, BuffersInv
      <4>4. \A b \in Bufs : Held(b)' <=> Held(b)
        BY <4>1 DEF Held
      <4>5. \A b \in Bufs : Free(b)' => ~Held(b)
        BY <2>9, <4>2, <4>3, UsbNetAssumption DEF NetInv, BuffersInv
      <4>6. \A b \in Bufs : Free(b)' \/ Held(b)
        BY <2>9, <3>1 DEF NetInv, BuffersInv
      <4> QED
        BY <2>9, <2>10, <4>1, <4>4, <4>5, <4>6, UsbNetAssumption DEF NetInv, BuffersInv
    <3>2. CASE job.hold # None
      <4>1. job.out \in Bufs /\ job.out # None /\ job.hold \in Peers /\ \A p \in Peers : q[p] = None
        BY <2>3, <3>2 DEF NetInv, NetTypes, BuffersInv, JobInv
      <4>2. \A p \in Peers : q'[p] = IF p = job.hold THEN job.out ELSE None
        BY <2>1, <3>2, <4>1 DEF NetInv, NetTypes
      <4>3. \A b \in Bufs : Held(b)' <=> b = job.out
        BY <4>1, <4>2, UsbNetAssumption DEF Held
      <4>4. \A b \in Bufs : ~Held(b)
        BY <4>1, UsbNetAssumption DEF Held
      <4>5. ~Free(job.out) /\ job.out # received_frame
        BY <4>1 DEF NetInv, BuffersInv
      <4>6. \A b \in Bufs : Free(b)' <=> b # job.out
        BY <2>2, <2>9, <3>2, <4>4, <4>5 DEF NetInv, BuffersInv
      <4> QED
        BY <2>9, <2>10, <4>1, <4>2, <4>3, <4>6, UsbNetAssumption DEF BuffersInv
    <3> QED
      BY <3>1, <3>2
  <2> QED
    BY <2>9, <2>11, <2>12, <2>13 DEF NetInv
<1> QED
  BY <1>1, <1>2

LEMMA ExpiresStep ==
    ASSUME NetInv, NEW p \in Peers, Expires(p)
    PROVE  NetInv'
<1> DEFINE m == PbufFree(Memory, q[p])
<1>1. /\ pc = "timers" /\ SetMemory(m) /\ q' = [q EXCEPT ![p] = None]
      /\ UNCHANGED <<received_frame, received, events, listening, job>>
  BY DEF Expires, bus
<1>2. job = Idle /\ job.out = None /\ job.frame = None /\ job.hold = None
  BY <1>1, NoJob
<1>3. Sound(m) /\ \A b \in Bufs : b \in Frees(m) <=> Free(b) \/ b = q[p]
  <2>1. Sound(Memory) /\ Memory.pool = pool
    BY DEF NetInv, BuffersInv, Memory
  <2>2. CASE q[p] = None
    BY <2>1, <2>2, FreedNone, UsbNetAssumption DEF Frees, Free
  <2>3. CASE q[p] # None
    <3>1. q[p] \in Bufs /\ ~Contains(Memory.pool, q[p])
      BY <2>1, <2>3 DEF NetInv, NetTypes, BuffersInv, Free, Held
    <3> QED
      BY <2>1, <3>1, Freed DEF Frees, Free
  <2> QED
    BY <2>2, <2>3
<1> HIDE DEF m
<1>4. /\ Sound(Memory)' /\ Contents'
      /\ \A b \in Bufs : Free(b)' <=> Free(b) \/ b = q[p]
  BY <1>1, <1>3, MemorySet DEF NetInv
<1>5. /\ q' \in [Peers -> Bufs \cup {None}]
      /\ \A r \in Peers : q'[r] = IF r = p THEN None ELSE q[r]
  BY <1>1 DEF NetInv, NetTypes
<1>6. \A b \in Bufs : Held(b)' <=> Held(b) /\ b # q[p]
  BY <1>5, UsbNetAssumption DEF NetInv, NetTypes, BuffersInv, Held
<1>7. NetTypes'
  BY <1>1, <1>4, <1>5 DEF NetInv, NetTypes
<1>8. BuffersInv'
  <2>1. \A b \in Bufs : Free(b)' \/ b = received_frame' \/ Held(b)' \/ b = job'.out
    BY <1>1, <1>4, <1>6 DEF NetInv, BuffersInv
  <2>2. \A b \in Bufs : Free(b)' => b # received_frame' /\ ~Held(b)' /\ b # job'.out
    BY <1>1, <1>2, <1>4, <1>6, UsbNetAssumption DEF NetInv, NetTypes, BuffersInv, Held
  <2>3. received_frame' # None => ~Held(received_frame)' /\ received_frame' # job'.out
    BY <1>1, <1>2, <1>5, UsbNetAssumption DEF NetInv, NetTypes, BuffersInv, Held
  <2>4. job'.out = None /\ \A r, s \in Peers : q'[r] # None /\ q'[s] # None => r = s
    BY <1>1, <1>2, <1>5 DEF NetInv, BuffersInv
  <2> QED
    BY <1>4, <2>1, <2>2, <2>3, <2>4 DEF BuffersInv
<1>9. JobInv'
  BY <1>1, <1>2 DEF JobInv
<1>10. ArmedInv'
  BY <1>1 DEF NetInv, ArmedInv
<1> QED
  BY <1>1, <1>7, <1>8, <1>9, <1>10, QueueUnchanged DEF NetInv

-----------------------------------------------------------------------------
(* The host.                                                               *)

LEMMA HostStep ==
    ASSUME NetInv, Host
    PROVE  NetInv'
<1>1. UNCHANGED <<received_frame, memory, q, job, pc>>
  BY DEF Host, HostTakes, HostResets, HostConfigures, ClientSends, HostNoise, Transmits
<1>2. PICK e \in Events :
        /\ Quiet /\ events' = Append(events, e)
        /\ \/ e = "out" /\ listening /\ ~listening'
           \/ e # "out" /\ (listening' => listening)
        /\ Addressed(received')
  <2>1. \A f \in Noise : Addressed(f)
    BY DEF Noise, Addressed
  <2>2. Addressed(Packet(Client, "upload", client.next))
    BY UsbNetAssumption DEF Addressed, Packet
  <2>3. Addressed(received)
    BY DEF NetInv, NetTypes
  <2> QED
    BY <2>1, <2>2, <2>3
       DEF Host, HostTakes, HostResets, HostConfigures, ClientSends, HostNoise, Transmits, Events
<1>3. NetTypes' /\ BuffersInv' /\ JobInv'
  BY <1>1, <1>2, Untouched DEF NetInv, JobInv
<1>4. e = "out" => ~Contains(events, "out")
  BY <1>2 DEF NetInv, ArmedInv
<1>5. QueueOk' /\ (Contains(events', "out") <=> e = "out" \/ Contains(events, "out"))
  BY <1>2, <1>4, EventAdded DEF NetInv
<1>6. ArmedInv'
  BY <1>1, <1>2, <1>5 DEF NetInv, ArmedInv
<1> QED
  BY <1>3, <1>5, <1>6 DEF NetInv

LEMMA NetStep == NetInv /\ [Next]_vars => NetInv'
<1> SUFFICES ASSUME NetInv, [Next]_vars PROVE NetInv'
  OBVIOUS
<1>1. CASE UNCHANGED vars
  BY <1>1, QuietSteps
<1>2. CASE NotReady \/ Xmit
  BY <1>2, SentStep DEF NotReady, Xmit
<1>3. CASE Host
  BY <1>3, HostStep
<1>4. CASE UsbTask
  BY <1>2, <1>4, OtherEvents, OutDoneStep, OpenedStep, QuietSteps, AskStep, ArpStep,
     CommandStep, NoMemStep, ExpiresStep DEF UsbTask
<1> QED
  BY <1>1, <1>3, <1>4 DEF Next, Over

THEOREM NetInvariant == Spec => []NetInv
BY NetInit, NetStep, PTL DEF Spec

(* A frame that comes always finds received_frame empty and a buffer in    *)
(* the pool (system/usb.c:132-150).                                        *)
THEOREM FramesFindRoom == Spec => []RoomForAFrame
BY NetInvariant, Room, PTL

(* No buffer is lost or handed out twice, although frames are freed twice  *)
(* and configurations come while lwIP is at work (system/usb.c:162-184).   *)
THEOREM NoBufferIsLost == Spec => []BuffersAccounted
<1>1. NetInv => BuffersAccounted
  <2> SUFFICES ASSUME NetInv, pc = "poll", NEW b \in Bufs
               PROVE  /\ Cardinality(Places(b)) = 1
                      /\ IF Contains(pool, b) THEN ref[b] \in {0, 255} ELSE ref[b] = 1
    BY DEF BuffersAccounted
  <2>1. IF Contains(pool, b) THEN ref[b] \in {0, 255} ELSE ref[b] = 1
    BY DEF NetInv, BuffersInv, Sound, Memory
  <2>2. job.out = None
    BY NoJob
  <2>3. b # None
    BY UsbNetAssumption
  <2> DEFINE P == {<<"pool", i>> : i \in {j \in DOMAIN pool : pool[j] = b}}
             F == {<<"frame">> : x \in {received_frame} \cap {b}}
             H == {<<"held", p>> : p \in {r \in Peers : q[r] = b}}
  <2>4. Places(b) = P \cup F \cup H
    BY DEF Places
  <2>5. Distinct(pool)
    BY DEF NetInv, BuffersInv, Sound, Memory
  <2>6. CASE Free(b)
    <3>1. F = {} /\ H = {}
      BY <2>6 DEF NetInv, BuffersInv, Held
    <3>2. PICK i \in DOMAIN pool : pool[i] = b
      BY <2>5, <2>6, PoolContains DEF Distinct, Free
    <3>3. \A j \in DOMAIN pool : pool[j] = b => j = i
      BY <2>5, <3>2 DEF Distinct
    <3>4. P = {<<"pool", i>>}
      BY <3>2, <3>3
    <3> HIDE DEF P, F, H
    <3>5. Places(b) = {<<"pool", i>>}
      BY <2>4, <3>1, <3>4
    <3> QED
      BY <2>1, <3>5, FS_Singleton
  <2>7. CASE ~Free(b)
    <3>1. P = {}
      BY <2>5, <2>7, PoolContains DEF Distinct, Free
    <3>2. CASE b = received_frame
      <4>1. F = {<<"frame">>} /\ H = {}
        BY <2>3, <3>2 DEF NetInv, BuffersInv, Held
      <4> HIDE DEF P, F, H
      <4>2. Places(b) = {<<"frame">>}
        BY <2>4, <3>1, <4>1
      <4> QED
        BY <2>1, <4>2, FS_Singleton
    <3>3. CASE b # received_frame
      <4>1. PICK p \in Peers : q[p] = b
        BY <2>2, <2>3, <2>7, <3>3 DEF NetInv, BuffersInv, Held
      <4>2. \A r \in Peers : q[r] = b => r = p
        BY <2>3, <4>1 DEF NetInv, BuffersInv
      <4>3. F = {} /\ H = {<<"held", p>>}
        BY <3>3, <4>1, <4>2
      <4> HIDE DEF P, F, H
      <4>4. Places(b) = {<<"held", p>>}
        BY <2>4, <3>1, <4>3
      <4> QED
        BY <2>1, <4>4, FS_Singleton
    <3> QED
      BY <3>2, <3>3
  <2> QED
    BY <2>6, <2>7
<1> QED
  BY <1>1, NetInvariant, PTL
-----------------------------------------------------------------------------
(* The upload.  At any time one word of it, a command or its answer, is on *)
(* its way: in the queue of events, in the frame to serve, in the packet   *)
(* that is sent or held back, or on the bus.                               *)

At(x, f) ==
    \/ x = "queue" /\ Contains(events, "out") /\ f = received
    \/ x = "frame" /\ received_frame # None /\ received_frame # job.frame /\ f = data[received_frame]
    \/ x = "send" /\ job.out # None /\ f = data[job.out]
    \/ x = "held" /\ \E p \in Peers : q[p] # None /\ f = data[q[p]]
    \/ x = "bus" /\ tx # None /\ f = tx

Word(f) == f.what = "upload" \/ (f.what \in {"T", "F"} /\ f.peer = Client)

Spoken(x, f) == At(x, f) /\ Word(f)

(* The upload is such that command n is the next one.                      *)
Ready(n) ==
    /\ n \in 1 .. UDONE => sls_upload = "open" /\ written = [i \in 1 .. n - 1 |-> i]
    /\ n > UDONE => lost \/ disk = [i \in 1 .. Pieces |-> i]

UploadInv ==
    /\ client \in [next : Nat, waiting : BOOLEAN, ok : BOOLEAN]
    /\ \A x, f, y, g : Spoken(x, f) /\ Spoken(y, g) => x = y /\ f = g
    /\ \A x, f : Spoken(x, f) =>
         /\ client.waiting /\ client.next \in Commands
         /\ f.what = "upload" => f.nr = client.next /\ f.peer = Client /\ Ready(client.next)
         /\ f.what = "T" => Ready(client.next + 1)
    /\ client.ok /\ ~client.waiting => Ready(client.next)
    /\ client.waiting => client.next \in Commands

LEMMA UploadInit == Init => UploadInv
<1> SUFFICES ASSUME Init PROVE UploadInv
  OBVIOUS
<1>1. ASSUME NEW x, NEW f, At(x, f) PROVE FALSE
  BY <1>1, PoolContains DEF At, Init, Idle
<1>2. client \in [next : Nat, waiting : BOOLEAN, ok : BOOLEAN] /\ client.next = 0 /\ ~client.waiting
  BY DEF Init, UPLOAD
<1>3. Ready(0)
  BY UsbNetAssumption DEF Ready, UDONE
<1> QED
  BY <1>1, <1>2, <1>3 DEF UploadInv, Spoken

(* A word goes from one place to another, or is lost.                      *)
Moves(a, b) ==
    \A x, f : Spoken(x, f)' => x # a /\ (Spoken(x, f) \/ (x = b /\ Spoken(a, f)))

LEMMA Moved ==
    ASSUME UploadInv, UNCHANGED <<file, client>>, NEW a, NEW b, Moves(a, b)
    PROVE  UploadInv'
<1>1. \A n : Ready(n)' <=> Ready(n)
  BY DEF Ready, file
<1>2. client' = client
  OBVIOUS
<1>3. ASSUME NEW x, NEW f, NEW y, NEW g, Spoken(x, f)', Spoken(y, g)'
      PROVE  x = y /\ f = g
  BY <1>3 DEF UploadInv, Moves
<1>4. ASSUME NEW x, NEW f, Spoken(x, f)'
      PROVE  /\ client.waiting /\ client.next \in Commands
             /\ f.what = "upload" => f.nr = client.next /\ f.peer = Client /\ Ready(client.next)
             /\ f.what = "T" => Ready(client.next + 1)
  BY <1>4 DEF UploadInv, Moves
<1>5. client \in [next : Nat, waiting : BOOLEAN, ok : BOOLEAN]
      /\ (client.ok /\ ~client.waiting => Ready(client.next))
      /\ (client.waiting => client.next \in Commands)
  BY DEF UploadInv
<1> QED
  BY <1>1, <1>2, <1>3, <1>4, <1>5 DEF UploadInv

LEMMA PlainIsNoWord == ~Word(Plain)
BY DEF Word, Plain, Packet

(* A buffer in use keeps its contents.                                     *)
DataKept == \A b \in Bufs : ~Free(b) /\ ~Contains(pool', b) => data'[b] = data[b]

LEMMA SetMemoryKeeps ==
    ASSUME NEW m, SetMemory(m)
    PROVE  DataKept
BY DEF DataKept, SetMemory, Free

LEMMA SameDataKept == data' = data => DataKept
BY DEF DataKept

LEMMA InUse ==
    ASSUME NetInv
    PROVE  /\ received_frame # None => received_frame \in Bufs /\ ~Free(received_frame)
           /\ job.out # None => job.out \in Bufs /\ ~Free(job.out)
           /\ \A p \in Peers : q[p] # None => q[p] \in Bufs /\ ~Free(q[p])
BY DEF NetInv, NetTypes, BuffersInv, Held

LEMMA InUseNext ==
    ASSUME NetInv'
    PROVE  /\ received_frame' # None => received_frame' \in Bufs /\ ~Contains(pool', received_frame')
           /\ job'.out # None => job'.out \in Bufs /\ ~Contains(pool', job'.out)
           /\ \A p \in Peers : q'[p] # None => q'[p] \in Bufs /\ ~Contains(pool', q'[p])
BY DEF NetInv, NetTypes, BuffersInv, Held, Free

(* A word that is somewhere after a step was there before, where that      *)
(* place was not filled by the step.                                       *)
LEMMA WasThere ==
    ASSUME NetInv, NetInv', DataKept, NEW x, NEW f, Spoken(x, f)'
    PROVE  /\ x = "queue" /\ Contains(events, "out") /\ received' = received => Spoken(x, f)
           /\ x = "queue" => Contains(events', "out") /\ Word(received')
           /\ /\ x = "frame" /\ received_frame' = received_frame
              /\ received_frame = job.frame => received_frame = job'.frame
              => Spoken(x, f)
           /\ x = "frame" => received_frame' # None /\ received_frame' # job'.frame
           /\ x = "send" /\ job'.out = job.out => Spoken(x, f)
           /\ x = "send" => job'.out # None /\ f = data'[job'.out] /\ Word(f)
           /\ x = "held" /\ (\A p \in Peers : q'[p] \in {None, q[p]}) => Spoken(x, f)
           /\ x = "bus" /\ tx' = tx => Spoken(x, f)
           /\ x = "bus" => tx' # None /\ f = tx' /\ Word(f)
           /\ x \in {"queue", "frame", "send", "held", "bus"}
<1>1. At(x, f)' /\ Word(f)
  BY DEF Spoken, Word
<1>2. CASE x = "queue"
  BY <1>1, <1>2 DEF At, Spoken
<1>3. CASE x = "frame"
  <2>1. received_frame' # None /\ received_frame' # job'.frame /\ f = data'[received_frame']
    BY <1>1, <1>3 DEF At
  <2>2. ASSUME received_frame' = received_frame, received_frame = job.frame => received_frame = job'.frame
        PROVE  Spoken(x, f)
    <3>1. f = data[received_frame]
      BY <2>1, <2>2, InUse, InUseNext DEF DataKept
    <3> QED
      BY <1>1, <1>3, <2>1, <2>2, <3>1 DEF At, Spoken
  <2> QED
    BY <1>3, <2>1, <2>2
<1>4. CASE x = "send"
  <2>1. job'.out # None /\ f = data'[job'.out]
    BY <1>1, <1>4 DEF At
  <2>2. ASSUME job'.out = job.out PROVE Spoken(x, f)
    <3>1. f = data[job.out]
      BY <2>1, <2>2, InUse, InUseNext DEF DataKept
    <3> QED
      BY <1>1, <1>4, <2>1, <2>2, <3>1 DEF At, Spoken
  <2> QED
    BY <1>1, <1>4, <2>1, <2>2
<1>5. CASE x = "held"
  <2>1. ASSUME \A p \in Peers : q'[p] \in {None, q[p]} PROVE Spoken(x, f)
    <3>1. PICK p \in Peers : q'[p] # None /\ f = data'[q'[p]]
      BY <1>1, <1>5 DEF At
    <3>2. q[p] = q'[p]
      BY <2>1, <3>1
    <3>3. f = data[q[p]]
      BY <3>1, <3>2, InUse, InUseNext DEF DataKept
    <3> QED
      BY <1>1, <1>5, <3>1, <3>2, <3>3 DEF At, Spoken
  <2> QED
    BY <1>5, <2>1
<1>6. CASE x = "bus"
  BY <1>1, <1>6 DEF At, Spoken
<1> QED
  BY <1>1, <1>2, <1>3, <1>4, <1>5, <1>6 DEF At

(* Steps in which no word moves.                                           *)
LEMMA StayPut ==
    ASSUME NetInv, NetInv', UploadInv, UNCHANGED <<file, client>>, DataKept,
           Contains(events', "out") /\ Word(received') => Contains(events, "out") /\ received' = received,
           received_frame' \in {None, received_frame},
           received_frame' # None /\ received_frame = job.frame => received_frame = job'.frame,
           job'.out \in {None, job.out} \/ ~Word(data'[job'.out]),
           \A p \in Peers : q'[p] \in {None, q[p]},
           tx' \in {None, Plain, tx}
    PROVE  UploadInv'
<1>1. ASSUME NEW x, NEW f, Spoken(x, f)' PROVE Spoken(x, f) /\ x # "nowhere"
  BY <1>1, WasThere, PlainIsNoWord
<1>2. Moves("nowhere", "nowhere")
  BY <1>1 DEF Moves
<1> QED
  BY <1>2, Moved

LEMMA SameEvents ==
    ASSUME NetInv, NEW e \in {"in", "reset", "open"}, Handles(e) \/ (Quiet /\ events' = Append(events, e))
    PROVE  Contains(events', "out") => Contains(events, "out")
BY EventHandled, EventAdded DEF NetInv, Events

LEMMA StillSteps ==
    ASSUME NetInv, NetInv', UploadInv,
           InDone \/ BusReset \/ NothingToServe \/ Ask \/ Part \/ Nested \/ NoTimeout \/ TimerSends
             \/ HostConfigures \/ HostResets \/ UNCHANGED vars
    PROVE  UploadInv'
<1>1. /\ UNCHANGED <<file, client, received_frame, memory, q, received>>
      /\ tx' \in {None, tx}
  BY DEF InDone, BusReset, NothingToServe, Ask, Part, Nested, NoTimeout, TimerSends,
         HostConfigures, HostResets, vars, bus
<1>2. Contains(events', "out") => Contains(events, "out")
  <2>1. CASE events' = events
    BY <2>1
  <2>2. CASE ~(events' = events)
    <3>1. PICK e \in {"in", "reset", "open"} : Handles(e) \/ (Quiet /\ events' = Append(events, e))
      BY <2>2 DEF InDone, BusReset, NothingToServe, Ask, Part, Nested, NoTimeout, TimerSends,
                  HostConfigures, HostResets, vars, bus
    <3> QED
      BY <3>1, SameEvents
  <2> QED
    BY <2>1, <2>2
<1>3. job' = job \/ (job'.frame = received_frame /\ job'.out = None)
  BY DEF InDone, BusReset, NothingToServe, Ask, Part, Nested, NoTimeout, TimerSends,
         HostConfigures, HostResets, vars, Idle
<1>4. DataKept
  BY <1>1, SameDataKept DEF memory
<1> QED
  BY <1>1, <1>2, <1>3, <1>4, StayPut

LEMMA FreeingSteps ==
    ASSUME NetInv, NetInv', UploadInv, Opened \/ NoMem \/ \E p \in Peers : Expires(p)
    PROVE  UploadInv'
<1>1. /\ UNCHANGED <<file, client, job, received>>
      /\ tx' \in {None, tx} /\ received_frame' \in {None, received_frame}
      /\ \E m : SetMemory(m)
  BY DEF Opened, InitCb, NoMem, Returns, Expires, bus
<1>2. Contains(events', "out") => Contains(events, "out")
  BY SameEvents DEF Opened, NoMem, Expires, bus
<1>3. \A p \in Peers : q'[p] \in {None, q[p]}
  BY DEF Opened, NoMem, Expires, NetInv, NetTypes
<1>4. DataKept
  BY <1>1, SetMemoryKeeps
<1> QED
  BY <1>1, <1>2, <1>3, <1>4, StayPut

LEMMA NoiseStep ==
    ASSUME NetInv, NetInv', UploadInv, NEW f \in Noise, HostNoise(f)
    PROVE  UploadInv'
<1>1. UNCHANGED <<file, client, job, received_frame, memory, q, tx>> /\ received' = f
  BY DEF HostNoise, Transmits
<1>2. ~Word(f)
  BY DEF Word, Noise
<1>3. DataKept
  BY <1>1, SameDataKept DEF memory
<1> QED
  BY <1>1, <1>2, <1>3, StayPut

(* A frame from the queue is stored.                                       *)
LEMMA ArrivalStep ==
    ASSUME NetInv, NetInv', UploadInv, OutDone
    PROVE  UploadInv'
<1>1. /\ Handles("out") /\ Stored /\ received' = Plain /\ UNCHANGED <<q, job, tx, file, client>>
  BY DEF OutDone
<1>2. Contains(events, "out") /\ ~Contains(events', "out")
  BY <1>1, EventHandled DEF NetInv
<1>3. received_frame = None /\ pool # <<>>
  BY <1>2, Room DEF RoomForAFrame
<1>4. CASE Dropped
  <2>1. UNCHANGED <<received_frame, memory>>
    BY <1>1, <1>4 DEF Stored
  <2>2. DataKept
    BY <2>1, SameDataKept DEF memory
  <2> QED
    BY <1>1, <1>2, <2>1, <2>2, StayPut
<1>5. CASE ~Dropped
  <2>1. PbufAlloc(received) /\ received_frame' = Head(pool)
    BY <1>1, <1>3, <1>5 DEF Stored, Refused
  <2>2. Head(pool) \in Bufs /\ Free(Head(pool))
    BY <2>1, Allocated DEF NetInv, NetTypes, BuffersInv
  <2>3. data' = [data EXCEPT ![Head(pool)] = received] /\ DOMAIN data = Bufs
    BY <2>1 DEF PbufAlloc, NetInv, NetTypes, Contents
  <2>4. DataKept
    BY <2>2, <2>3 DEF DataKept
  <2>5. ASSUME NEW x, NEW f, Spoken(x, f)'
        PROVE  x # "queue" /\ (Spoken(x, f) \/ (x = "frame" /\ Spoken("queue", f)))
    <3>1. CASE x = "frame"
      <4>1. f = data'[received_frame'] /\ Word(f)
        BY <2>5, <3>1 DEF Spoken, At, Word
      <4>2. f = received
        BY <2>1, <2>2, <2>3, <4>1
      <4> QED
        BY <1>2, <3>1, <4>1, <4>2 DEF Spoken, At
    <3>2. CASE x # "frame"
      BY <1>1, <1>2, <2>4, <2>5, <3>2, WasThere
    <3> QED
      BY <3>1, <3>2
  <2>6. Moves("queue", "frame")
    BY <2>5 DEF Moves
  <2> QED
    BY <1>1, <2>6, Moved
<1> QED
  BY <1>4, <1>5

(* What was held back for an address is sent.                              *)
LEMMA AddressStep ==
    ASSUME NetInv, NetInv', UploadInv, Arp
    PROVE  UploadInv'
<1> DEFINE p == data[received_frame].peer
<1>1. /\ UNCHANGED <<events, received, tx, file, client>> /\ q' = [q EXCEPT ![p] = None]
      /\ pc = "serve" /\ received_frame # None
  BY DEF Arp, Input
<1>2. job.frame = None /\ job.out = None
  BY <1>1, NoJob
<1>3. p \in Peers /\ q \in [Peers -> Bufs \cup {None}]
  BY <1>1 DEF Arp, Input, NetInv, NetTypes, Contents, Addressed
<1>4. \A r \in Peers : q'[r] \in {None, q[r]}
  BY <1>1, <1>3
<1>5. CASE q[p] = None
  <2>1. Returns(PbufFree(Memory, received_frame)) /\ job' = job
    BY <1>5 DEF Arp
  <2>2. received_frame' = None /\ DataKept
    BY <2>1, SetMemoryKeeps DEF Returns
  <2> QED
    BY <1>1, <1>4, <2>1, <2>2, StayPut
<1>6. CASE q[p] # None
  <2>1. /\ job' = [frame |-> received_frame, out |-> q[p], hold |-> None]
        /\ UNCHANGED <<received_frame, memory>>
    BY <1>6 DEF Arp, Idle
  <2>2. job'.frame = received_frame /\ job'.out = q[p]
    BY <2>1
  <2>3. DataKept /\ data' = data
    BY <2>1, SameDataKept DEF memory
  <2>4. ASSUME NEW x, NEW f, Spoken(x, f)'
        PROVE  x # "held" /\ (Spoken(x, f) \/ (x = "send" /\ Spoken("held", f)))
    <3>1. x # "held"
      <4>1. SUFFICES ASSUME x = "held" PROVE FALSE
        OBVIOUS
      <4>2. PICK r \in Peers : q'[r] # None
        BY <2>4, <4>1 DEF Spoken, At
      <4>3. r # p /\ q[r] # None
        BY <1>1, <1>3, <4>2
      <4> QED
        BY <1>3, <1>6, <4>3 DEF NetInv, BuffersInv
    <3>2. CASE x = "send"
      <4>1. f = data[q[p]] /\ Word(f)
        BY <2>2, <2>3, <2>4, <3>2, WasThere
      <4> QED
        BY <1>3, <1>6, <3>2, <4>1 DEF Spoken, At
    <3>3. CASE x \in {"queue", "frame", "bus"}
      BY <1>1, <1>2, <2>1, <2>2, <2>3, <2>4, <3>3, WasThere
    <3> QED
      BY <2>3, <2>4, <3>1, <3>2, <3>3, WasThere
  <2> HIDE DEF p
  <2>5. UNCHANGED <<file, client>>
    BY <1>1
  <2>6. Moves("held", "send")
    BY <2>4 DEF Moves
  <2> QED
    BY <2>5, <2>6, Moved
<1> QED
  BY <1>5, <1>6

(* A command that is carried out makes the next one ready.                 *)
LEMMA ObeyReady ==
    ASSUME NEW n \in Commands, Ready(n), NEW f, f.what = "upload", f.nr = n, Obey(f, "T")
    PROVE  Ready(n + 1)'
<1>1. Pieces \in Nat /\ UDONE = Pieces + 1 /\ n \in 0 .. Pieces + 1
  BY UsbNetAssumption DEF UDONE, UPLOAD, Commands
<1>2. CASE n = 0 /\ Upload("T")
  <2>1. sls_upload' = "open" /\ written' = <<>>
    BY <1>2 DEF Upload
  <2>2. written' = [i \in 1 .. (0 + 1) - 1 |-> i]
    BY <2>1
  <2> QED
    BY <1>1, <1>2, <2>1, <2>2 DEF Ready
<1>3. CASE n \in 1 .. Pieces /\ Piece(n, "T")
  <2>1. sls_upload = "open" /\ written = [i \in 1 .. n - 1 |-> i]
    BY <1>1, <1>3 DEF Ready
  <2>2. sls_upload' = "open" /\ written' = Append(written, n)
    BY <1>3, <2>1 DEF Piece
  <2>3. written \in Seq(Nat) /\ Len(written) = n - 1
    BY <1>3, <2>1
  <2>4. written' = [i \in 1 .. (n + 1) - 1 |-> i]
    <3>1. /\ written' \in Seq(Nat) /\ Len(written') = n
          /\ \A i \in 1 .. n - 1 : written'[i] = i
          /\ written'[n] = n
      BY <1>3, <2>1, <2>2, <2>3, AppendProperties
    <3>2. \A i \in 1 .. n : written'[i] = i
      BY <1>3, <3>1
    <3>3. [i \in 1 .. n |-> i] \in Seq(Nat) /\ Len([i \in 1 .. n |-> i]) = n
      BY <1>3
    <3>4. written' = [i \in 1 .. n |-> i]
      BY <3>1, <3>2, <3>3, SeqEqual
    <3> QED
      BY <1>3, <3>4
  <2> QED
    BY <1>1, <1>3, <2>2, <2>4 DEF Ready
<1>4. CASE n = Pieces + 1 /\ Done("T")
  <2>1. sls_upload = "open" /\ written = [i \in 1 .. Pieces |-> i]
    BY <1>1, <1>4 DEF Ready
  <2>2. lost' \/ disk' = written
    BY <1>4, <2>1 DEF Done
  <2> QED
    BY <1>1, <1>4, <2>1, <2>2 DEF Ready
<1> QED
  BY <1>1, <1>2, <1>3, <1>4 DEF Obey, UPLOAD

(* A command becomes its answer.                                           *)
LEMMA CommandWord ==
    ASSUME NetInv, NetInv', UploadInv, Command
    PROVE  UploadInv'
<1> DEFINE f == data[received_frame]
<1>1. PICK says \in (IF f.what = "other" THEN {"packet"} ELSE {"T", "F"}) :
        /\ Obey(f, says) /\ PbufAlloc(Packet(f.peer, says, 0))
        /\ job'.frame = received_frame /\ job'.out = Head(pool)
  BY DEF Command
<1>2. /\ pc = "serve" /\ received_frame # None
      /\ UNCHANGED <<events, received, tx, received_frame, q, client>>
  BY DEF Command, bus
<1>3. job.frame = None /\ job.out = None
  BY <1>2, NoJob
<1>4. f.what \in {"upload", "other"}
  BY <1>1 DEF Obey
<1>5. Head(pool) \in Bufs /\ Free(Head(pool))
  <2>1. f.peer \in Peers
    BY <1>2, <1>4 DEF NetInv, NetTypes, Contents, Addressed
  <2>2. Distinct(pool) /\ pool # <<>>
    BY <1>1 DEF NetInv, BuffersInv, Sound, Memory, PbufAlloc
  <2> QED
    BY <2>2, Popped DEF Free
<1>6. /\ data' = [data EXCEPT ![Head(pool)] = Packet(f.peer, says, 0)]
      /\ data'[Head(pool)] = Packet(f.peer, says, 0)
  BY <1>1, <1>5 DEF PbufAlloc, NetInv, NetTypes, Contents
<1>7. DataKept
  BY <1>5, <1>6 DEF DataKept
<1> HIDE DEF f
<1>8. CASE f.what = "other"
  <2>1. UNCHANGED file
    BY <1>1, <1>8 DEF Obey
  <2>2. ~Word(data'[job'.out])
    BY <1>1, <1>6, <1>8 DEF Word, Packet
  <2>3. UNCHANGED <<file, client>>
    BY <1>2, <2>1
  <2> QED
    BY <1>1, <1>2, <1>3, <1>7, <2>2, <2>3, StayPut
<1>9. CASE f.what = "upload"
  <2>1. Spoken("frame", f)
    BY <1>2, <1>3, <1>9, InUse, UsbNetAssumption DEF Spoken, At, Word, f
  <2>2. /\ client.waiting /\ client.next \in Commands /\ client.next \in Nat
        /\ f.nr = client.next /\ f.peer = Client /\ Ready(client.next)
    BY <1>9, <2>1 DEF UploadInv
  <2>3. says \in {"T", "F"}
    BY <1>1, <1>9
  <2>4. PICK k \in Commands : k = client.next
    BY <2>2
  <2>12. says = "T" => Ready(k + 1)'
    <3>1. PICK c : c = f
      OBVIOUS
    <3>2. c.what = "upload" /\ c.nr = k /\ Ready(k) /\ Obey(c, says)
      BY <1>1, <1>9, <2>2, <2>4, <3>1
    <3> QED
      BY <3>2, ObeyReady
  <2>5. ASSUME NEW x, NEW g, Spoken(x, g)'
        PROVE  x = "send" /\ g = Packet(Client, says, 0)
    <3>1. CASE x = "send"
      <4>1. g = data'[job'.out]
        BY <2>5, <3>1 DEF Spoken, At
      <4> QED
        BY <1>1, <1>6, <2>2, <3>1, <4>1
    <3>2. CASE x # "send"
      <4>1. Spoken(x, g) /\ x # "frame"
        BY <1>1, <1>2, <1>7, <2>5, <3>2, WasThere
      <4> QED
        BY <2>1, <4>1 DEF UploadInv
    <3> QED
      BY <3>1, <3>2
  <2>6. client' = client
    BY <1>2
  <2>7. Packet(Client, says, 0).what = says
    BY DEF Packet
  <2>8. client \in [next : Nat, waiting : BOOLEAN, ok : BOOLEAN]
    BY DEF UploadInv
  <2>9. client'.next = k
    BY <2>4, <2>6
  <2>10. ASSUME NEW x, NEW g, NEW y, NEW h, Spoken(x, g)', Spoken(y, h)'
         PROVE  x = y /\ g = h
    BY <2>5, <2>10
  <2>11. ASSUME NEW x, NEW g, Spoken(x, g)'
         PROVE  g.what # "upload" /\ (g.what = "T" => Ready(k + 1)')
    BY <2>3, <2>12, <2>5, <2>7, <2>11
  <2> QED
    BY <2>2, <2>4, <2>6, <2>8, <2>9, <2>10, <2>11 DEF UploadInv, Ready
<1> QED
  BY <1>4, <1>8, <1>9

(* A packet is sent, held back, or given up.                               *)
LEMMA SentWord ==
    ASSUME NetInv, NetInv', UploadInv, NotReady \/ Xmit
    PROVE  UploadInv'
<1>1. Sent /\ UNCHANGED <<received, events, file, client>>
  BY DEF NotReady, Xmit, Sent
<1>2. \/ tx' \in {Plain, tx}
      \/ job.out # None /\ job.hold = None /\ tx' = data[job.out]
  BY DEF NotReady, Xmit
<1>3. q' = q \/ (job.hold # None /\ job # Idle /\ q' = [q EXCEPT ![job.hold] = job.out])
  BY <1>1 DEF Sent
<1>4. /\ received_frame' \in {None, received_frame} /\ job' = Idle
      /\ received_frame' # None => job = Idle
  BY <1>1 DEF Sent, Returns
<1>5. DataKept
  BY <1>1, SetMemoryKeeps, SameDataKept DEF Sent, Returns, memory
<1>6. job'.out = None /\ job'.frame = None /\ Idle.out = None /\ Idle.frame = None
  BY <1>4 DEF Idle
<1>9. PICK b \in {"bus", "held"} : b = IF job.hold = None THEN "bus" ELSE "held"
  OBVIOUS
<1>7. ASSUME NEW x, NEW f, Spoken(x, f)'
      PROVE  x # "send" /\ (Spoken(x, f) \/ (x = b /\ Spoken("send", f)))
  <2>1. CASE x = "bus"
    <3>1. f = tx' /\ Word(f)
      BY <1>5, <1>7, <2>1, WasThere
    <3>2. CASE tx' = tx
      BY <1>5, <1>7, <2>1, <3>2, WasThere
    <3>3. CASE job.out # None /\ job.hold = None /\ tx' = data[job.out]
      BY <1>9, <2>1, <3>1, <3>3 DEF Spoken, At
    <3> QED
      BY <1>2, <2>1, <3>1, <3>2, <3>3, PlainIsNoWord
  <2>2. CASE x = "held"
    <3>1. CASE q' = q
      BY <1>5, <1>7, <2>2, <3>1, WasThere
    <3>2. CASE job.hold # None /\ q' = [q EXCEPT ![job.hold] = job.out]
      <4>1. PICK p \in Peers : q'[p] # None /\ f = data'[q'[p]]
        BY <1>7, <2>2 DEF Spoken, At
      <4>2. Word(f) /\ q \in [Peers -> Bufs \cup {None}]
        BY <1>7 DEF Spoken, Word, NetInv, NetTypes
      <4>3. q'[p] \in Bufs /\ ~Contains(pool', q'[p])
        BY <4>1, InUseNext
      <4>4. q'[p] = q[p] \/ q'[p] = job.out
        BY <3>2, <4>2
      <4>5. f = data[q'[p]]
        BY <4>1, <4>3, <4>4, <1>5, InUse DEF DataKept
      <4> QED
        BY <1>9, <2>2, <3>2, <4>1, <4>2, <4>4, <4>5 DEF Spoken, At
    <3> QED
      BY <1>3, <3>1, <3>2
  <2>3. CASE x = "queue"
    BY <1>1, <1>5, <1>7, <2>3, WasThere DEF Spoken, At
  <2>4. CASE x = "frame"
    BY <1>4, <1>5, <1>6, <1>7, <2>4, WasThere
  <2> QED
    BY <1>5, <1>6, <1>7, <2>1, <2>2, <2>3, <2>4, WasThere
<1>8. UNCHANGED <<file, client>>
  BY <1>1
<1>10. Moves("send", b)
  BY <1>7 DEF Moves
<1> QED
  BY <1>8, <1>10, Moved

(* The client sends a command when none of the upload is on its way.       *)
LEMMA ClientWord ==
    ASSUME NetInv, NetInv', UploadInv, ClientSends
    PROVE  UploadInv'
<1> DEFINE c == Packet(Client, "upload", client.next)
<1>1. /\ client.ok /\ client.next \in Commands /\ ~client.waiting
      /\ Transmits(c) /\ client' = [client EXCEPT !.waiting = TRUE]
  BY DEF ClientSends
<1>2. /\ received' = c /\ UNCHANGED <<job, received_frame, memory, q, tx, file>>
  BY <1>1 DEF Transmits
<1>3. c.what = "upload" /\ c.nr = client.next /\ c.peer = Client
  BY DEF Packet
<1> HIDE DEF c
<1>4. \A x, f : ~Spoken(x, f)
  BY <1>1 DEF UploadInv
<1>5. DataKept
  BY <1>2, SameDataKept DEF memory
<1>6. ASSUME NEW x, NEW f, Spoken(x, f)'
      PROVE  x = "queue" /\ f = c
  <2>1. x = "queue"
    BY <1>2, <1>4, <1>5, <1>6, WasThere
  <2> QED
    BY <1>2, <1>6, <2>1 DEF Spoken, At
<1>7. Ready(client.next) /\ client \in [next : Nat, waiting : BOOLEAN, ok : BOOLEAN]
  BY <1>1 DEF UploadInv
<1>8. /\ client' \in [next : Nat, waiting : BOOLEAN, ok : BOOLEAN]
      /\ client'.next = client.next /\ client'.waiting
  BY <1>1, <1>7
<1>9. PICK n \in Commands : n = client.next
  BY <1>1
<1>10. Ready(n)'
  BY <1>2, <1>7, <1>9 DEF Ready, file
<1>11. ASSUME NEW x, NEW f, NEW y, NEW g, Spoken(x, f)', Spoken(y, g)'
       PROVE  x = y /\ f = g
  BY <1>6, <1>11
<1>12. ASSUME NEW x, NEW f, Spoken(x, f)'
       PROVE  f.what = "upload" /\ f.nr = n /\ f.peer = Client
  BY <1>3, <1>6, <1>9, <1>12
<1> QED
  BY <1>8, <1>9, <1>10, <1>11, <1>12 DEF UploadInv, Ready

(* The client takes an answer, which is the one to its command.            *)
LEMMA AnswerWord ==
    ASSUME NetInv, NetInv', UploadInv, HostTakes
    PROVE  UploadInv'
<1>1. /\ tx # None /\ tx' = None
      /\ UNCHANGED <<received, job, received_frame, memory, q, file>>
  BY DEF HostTakes
<1>2. Contains(events', "out") => Contains(events, "out")
  BY SameEvents DEF HostTakes
<1>3. DataKept
  BY <1>1, SameDataKept DEF memory
<1>4. CASE client' = client
  <2>1. UNCHANGED <<file, client>>
    BY <1>1, <1>4
  <2> QED
    BY <1>1, <1>2, <1>3, <2>1, StayPut
<1>5. CASE client' # client
  <2>1. /\ tx \in Answers /\ tx.peer = Client
        /\ client' = [client EXCEPT !.waiting = FALSE, !.ok = (tx.what = "T"),
                                    !.next = IF tx.what = "T" THEN @ + 1 ELSE @]
    BY <1>5 DEF HostTakes
  <2>2. Spoken("bus", tx)
    BY <1>1, <2>1 DEF Spoken, At, Word, Answers
  <2>3. ASSUME NEW x, NEW f, Spoken(x, f)' PROVE FALSE
    <3>1. x # "bus" /\ Spoken(x, f)
      BY <1>1, <1>2, <1>3, <2>3, WasThere
    <3> QED
      BY <2>2, <3>1 DEF UploadInv
  <2>4. client \in [next : Nat, waiting : BOOLEAN, ok : BOOLEAN] /\ client.next \in Nat
    BY DEF UploadInv
  <2>5. tx.what = "T" => Ready(client.next + 1)
    BY <2>2 DEF UploadInv
  <2>6. /\ client' \in [next : Nat, waiting : BOOLEAN, ok : BOOLEAN] /\ ~client'.waiting
        /\ client'.ok => tx.what = "T" /\ client'.next = client.next + 1
    <3>1. CASE tx.what = "T"
      <4>1. client' = [next |-> client.next + 1, waiting |-> FALSE, ok |-> TRUE]
        BY <2>1, <2>4, <3>1
      <4> QED
        BY <2>4, <3>1, <4>1
    <3>2. CASE tx.what # "T"
      <4>1. client' = [next |-> client.next, waiting |-> FALSE, ok |-> FALSE]
        BY <2>1, <2>4, <3>2
      <4> QED
        BY <2>4, <4>1
    <3> QED
      BY <3>1, <3>2
  <2>7. PICK n : n = client.next + 1
    OBVIOUS
  <2>8. tx.what = "T" => Ready(n)'
    BY <1>1, <2>5, <2>7 DEF Ready, file
  <2> QED
    BY <2>3, <2>6, <2>7, <2>8 DEF UploadInv, Ready
<1> QED
  BY <1>4, <1>5

LEMMA UploadStep == NetInv /\ NetInv' /\ UploadInv /\ [Next]_vars => UploadInv'
<1> SUFFICES ASSUME NetInv, NetInv', UploadInv, [Next]_vars PROVE UploadInv'
  OBVIOUS
<1>1. CASE UNCHANGED vars
  BY <1>1, StillSteps
<1>2. CASE UsbTask
  BY <1>2, StillSteps, FreeingSteps, ArrivalStep, AddressStep, CommandWord, SentWord DEF UsbTask
<1>3. CASE Host
  BY <1>3, StillSteps, NoiseStep, ClientWord, AnswerWord DEF Host
<1> QED
  BY <1>1, <1>2, <1>3 DEF Next, Over

(* A client that is told 'T' for each command has its file stored as it    *)
(* is, unless the error of a sync or close was not looked at               *)
(* (system/sideload_server.c:133-181).                                     *)
THEOREM FileArrivesAsSent == Spec => []FileAsSent
<1>1. UploadInv => FileAsSent
  <2> SUFFICES ASSUME UploadInv, client.ok, client.next > UDONE, ~lost
               PROVE  disk = [n \in 1 .. Pieces |-> n]
    BY DEF FileAsSent
  <2>1. client.next \in Nat /\ UDONE \in Nat
    BY UsbNetAssumption DEF UploadInv, UDONE
  <2>2. ~client.waiting
    BY <2>1 DEF UploadInv, Commands, UPLOAD
  <2> QED
    BY <2>2 DEF UploadInv, Ready
<1> QED
  BY <1>1, UploadInit, UploadStep, NetInvariant, PTL DEF Spec

-----------------------------------------------------------------------------
(* What usb_main waits for.  A frame is being sent, or its event is there,  *)
(* whenever another cannot be sent; whoever keeps the receive from being    *)
(* renewed is known.                                                        *)
Comes(e) == Contains(events, e)

Renewer ==
    \/ received_frame # None \/ job.frame # None
    \/ Comes("out") \/ Comes("reset") \/ Comes("open")

WaitInv ==
    /\ received # None /\ \A b \in Bufs : data[b] # None
    /\ mounted /\ ~can_xmit => tx # None \/ Comes("in") \/ Comes("reset") \/ Comes("open")
    /\ pc = "nested" => events # <<>> \/ tx # None
    /\ pc = "timers" => received_frame = None
    /\ mounted /\ pc = "poll" /\ received_frame # None => events # <<>> \/ tx # None
    /\ mounted /\ ~listening /\ ~swallowed /\ pc # "kept" => Renewer

LEMMA PacketIsNotNull ==
    /\ Plain # None
    /\ \A p \in Peers \cup {None}, w \in Kinds, n \in Nat : Packet(p, w, n) # None
    /\ \A f \in Noise : f # None
    /\ \A n \in Commands : Packet(Client, "upload", n) # None
<1>1. \A p \in Peers \cup {None}, w \in Kinds, n \in Nat : Packet(p, w, n) # None
  BY NullAssumption DEF Packet
<1>2. ASSUME NEW f \in Noise PROVE f # None
  <2>1. f \in [peer : Peers \cup {None}, what : Kinds, nr : Nat]
    <3>1. CASE f \in [peer : {None}, what : {"empty", "ask", "part"}, nr : {0}]
      BY <3>1 DEF Kinds
    <3>2. CASE f \in [peer : Peers, what : {"arp"}, nr : {0}]
      BY <3>2 DEF Kinds
    <3>3. CASE f \in [peer : Peers \ {Client}, what : {"other"}, nr : {0}]
      BY <3>3 DEF Kinds
    <3> QED
      BY <3>1, <3>2, <3>3 DEF Noise
  <2> QED
    BY <2>1, NullAssumption
<1>3. Commands \subseteq Nat /\ Client \in Peers \cup {None}
  BY UsbNetAssumption DEF Commands, UPLOAD, UDONE
<1>4. Plain # None
  BY NullAssumption DEF Plain, Packet, Kinds
<1>5. ASSUME NEW n \in Commands PROVE Packet(Client, "upload", n) # None
  <2>1. n \in Nat /\ "upload" \in Kinds
    BY <1>3 DEF Kinds
  <2> QED
    BY <1>1, <1>3, <2>1
<1> QED
  BY <1>1, <1>2, <1>4, <1>5

LEMMA SomeEvent == \A e : Comes(e) => events # <<>>
BY PoolContains DEF Comes

(* Handling an event takes away that one only, and from the round it ends   *)
(* in usb_main goes on.                                                     *)
LEMMA HandledWaits ==
    ASSUME QueueOk, NEW e, Handles(e)
    PROVE  /\ pc \in {"poll", "nested"} /\ pc' \in {"poll", "nested", "serve", "send"}
           /\ pc' \in {"poll", "nested"} => events' # <<>> /\ pc' = pc
           /\ \A x : Comes(x) /\ x # e => Comes(x)'
<1>1. /\ events \in Seq(Events) /\ events # <<>> /\ events[1] = e /\ events' = Tail(events)
      /\ Len(events) \in Nat \ {0}
  BY DEF QueueOk, Handles
<1>2. /\ Len(events') = Len(events) - 1
      /\ \A i \in 1 .. Len(events') : events'[i] = events[i + 1]
  BY <1>1, HeadTailProperties
<1>3. ASSUME NEW x, Comes(x), x # e PROVE Comes(x)'
  <2>1. PICK i \in 1 .. Len(events) : events[i] = x
    BY <1>3 DEF Comes, Contains
  <2>2. i # 1
    BY <1>1, <1>3, <2>1
  <2>3. i - 1 \in 1 .. Len(events') /\ (i - 1) + 1 = i
    BY <1>1, <1>2, <2>1, <2>2
  <2>4. events'[i - 1] = x
    BY <1>2, <2>1, <2>3
  <2> QED
    BY <2>3, <2>4 DEF Comes, Contains
<1>4. pc' = IF events' # <<>> THEN pc ELSE IF pc = "poll" THEN "serve" ELSE "send"
  BY <1>1 DEF Handles
<1> QED
  BY <1>3, <1>4 DEF Handles

LEMMA AddedWaits ==
    ASSUME QueueOk, NEW e \in Events, events' = Append(events, e)
    PROVE  events' # <<>> /\ Comes(e)' /\ \A x : Comes(x) => Comes(x)'
<1>1. /\ events' \in Seq(Events) /\ Len(events') = Len(events) + 1 /\ Len(events) \in Nat
      /\ \A i \in 1 .. Len(events) : events'[i] = events[i]
      /\ events'[Len(events) + 1] = e
  BY AppendProperties DEF QueueOk
<1>2. Len(events) + 1 \in 1 .. Len(events') /\ \A i \in 1 .. Len(events) : i \in 1 .. Len(events')
  BY <1>1
<1>3. Comes(e)' /\ \A x : Comes(x) => Comes(x)'
  BY <1>1, <1>2 DEF Comes, Contains
<1> QED
  BY <1>1, <1>3

(* The contents of the buffers change by frames that are packets.           *)
LEMMA WaitPackets ==
    ASSUME NetInv, WaitInv, [Next]_vars
    PROVE  received' # None /\ \A b \in Bufs : data'[b] # None
<1>1. received # None /\ \A b \in Bufs : data[b] # None
  BY DEF WaitInv
<1>2. ASSUME NEW m, SetMemory(m) PROVE \A b \in Bufs : data'[b] # None
  BY <1>1, <1>2, PacketIsNotNull DEF SetMemory
<1>3. ASSUME NEW x, PbufAlloc(x), x # None PROVE \A b \in Bufs : data'[b] # None
  <2>1. data' = [data EXCEPT ![Head(pool)] = x] /\ DOMAIN data = Bufs
    BY <1>3 DEF PbufAlloc, NetInv, NetTypes, Contents
  <2> QED
    BY <1>1, <1>3, <2>1
<1>4. ASSUME NEW m, Returns(m) PROVE \A b \in Bufs : data'[b] # None
  BY <1>2, <1>4 DEF Returns
<1>5. CASE InDone \/ BusReset
  BY <1>1, <1>5 DEF InDone, BusReset, memory
<1>6. CASE OutDone
  BY <1>1, <1>3, <1>6, PacketIsNotNull DEF OutDone, Stored, memory
<1>7. CASE Opened
  BY <1>1, <1>2, <1>7 DEF Opened, InitCb
<1>8. CASE NothingToServe \/ Ask \/ Part \/ Nested \/ NoTimeout \/ TimerSends \/ UNCHANGED vars
  BY <1>1, <1>8 DEF NothingToServe, Ask, Part, Nested, NoTimeout, TimerSends, vars, bus, memory
<1>9. CASE Arp \/ NoMem
  BY <1>1, <1>4, <1>9 DEF Arp, NoMem, memory
<1>10. CASE Command
  <2>1. data[received_frame].what \in {"upload", "other"}
    BY <1>10 DEF Command, Obey
  <2>2. data[received_frame].peer \in Peers
    BY <1>10, <2>1 DEF Command, NetInv, NetTypes, Contents, Addressed
  <2>3. PICK says \in {"packet", "T", "F"} : PbufAlloc(Packet(data[received_frame].peer, says, 0))
    BY <1>10 DEF Command
  <2>4. Packet(data[received_frame].peer, says, 0) # None
    <3>1. says \in Kinds /\ 0 \in Nat
      BY DEF Kinds
    <3>2. data[received_frame].peer \in Peers \cup {None}
      BY <2>2
    <3> QED
      BY <3>1, <3>2, PacketIsNotNull
  <2>5. received' = received
    BY <1>10 DEF Command, bus
  <2> QED
    BY <1>1, <1>3, <2>3, <2>4, <2>5
<1>11. CASE NotReady \/ Xmit
  BY <1>1, <1>4, <1>11 DEF NotReady, Xmit, Sent, memory
<1>12. ASSUME NEW p \in Peers, Expires(p) PROVE received' # None /\ \A b \in Bufs : data'[b] # None
  BY <1>1, <1>2, <1>12 DEF Expires, bus
<1>13. CASE HostTakes \/ HostResets \/ HostConfigures \/ ClientSends
  BY <1>1, <1>13, PacketIsNotNull
     DEF HostTakes, HostResets, HostConfigures, ClientSends, Transmits, memory
<1>14. ASSUME NEW f \in Noise, HostNoise(f) PROVE received' # None /\ \A b \in Bufs : data'[b] # None
  BY <1>1, <1>14, PacketIsNotNull DEF HostNoise, Transmits, memory
<1> QED
  BY <1>5, <1>6, <1>7, <1>8, <1>9, <1>10, <1>11, <1>12, <1>13, <1>14 DEF Next, UsbTask, Host, Over

(* After a frame lwIP has done with, a receive is armed unless one is on    *)
(* its way or the device is not configured.                                 *)
LEMMA ReturnedWaits ==
    ASSUME NetInv, NEW m, Returns(m), UNCHANGED <<mounted, events>>
    PROVE  /\ pc' = "timers" /\ received_frame' = None
           /\ mounted' /\ ~listening' => Comes("out")'
<1>1. pc' = "timers" /\ received_frame' = None /\ listening' = (listening \/ Renews)
  BY DEF Returns
<1>2. listening' <=> listening \/ Renews
  BY <1>1, Zenon
<1>3. (Comes("out")' <=> Comes("out")) /\ (mounted' <=> mounted)
  BY DEF Comes
<1>4. mounted /\ ~Comes("out") => Renews
  BY DEF Renews, Comes
<1>5. mounted' /\ ~listening' => Comes("out")'
  BY <1>2, <1>3, <1>4
<1> QED
  BY <1>1, <1>5

LEMMA WaitStep == NetInv /\ WaitInv /\ [Next]_vars => WaitInv'
<1> SUFFICES ASSUME NetInv, WaitInv, [Next]_vars PROVE WaitInv'
  OBVIOUS
<1>1. received' # None /\ \A b \in Bufs : data'[b] # None
  BY WaitPackets
<1>2. QueueOk /\ (job # Idle => pc \in {"send", "nested"} /\ job.frame # None)
      /\ (\A e : Comes(e) => events # <<>>) /\ (job = Idle => job.frame = None)
  BY SomeEvent DEF NetInv, JobInv, Idle
<1>3. CASE InDone
  BY <1>1, <1>2, <1>3, HandledWaits DEF InDone, WaitInv, Renewer
<1>4. CASE OutDone
  <2>1. Handles("out") /\ UNCHANGED <<mounted, can_xmit, tx, job>>
        /\ listening' = Refused /\ swallowed' = Dropped
    BY <1>4 DEF OutDone
  <2>2. CASE Refused \/ Dropped
    BY <1>1, <1>2, <2>1, <2>2, HandledWaits DEF WaitInv
  <2>3. CASE ~(Refused \/ Dropped)
    <3>1. received_frame' = Head(pool) /\ pool # <<>>
      BY <1>4, <2>3 DEF OutDone, Stored, PbufAlloc
    <3>2. Head(pool) \in Bufs
      BY <3>1, Popped DEF NetInv, BuffersInv, Sound, Memory
    <3>3. received_frame' # None
      BY <3>1, <3>2, UsbNetAssumption
    <3> QED
      BY <1>1, <1>2, <2>1, <3>3, HandledWaits DEF WaitInv, Renewer
  <2> QED
    BY <2>2, <2>3
<1>5. CASE BusReset
  BY <1>1, <1>2, <1>5, HandledWaits DEF BusReset, WaitInv
<1>6. CASE Opened
  BY <1>1, <1>2, <1>6, HandledWaits DEF Opened, InitCb, WaitInv
<1>7. CASE NothingToServe
  BY <1>1, <1>2, <1>7 DEF NothingToServe, WaitInv, Renewer, Comes, bus
<1>8. CASE Ask
  BY <1>1, <1>2, <1>8 DEF Ask, Input, Idle, WaitInv, Renewer, Comes, bus
<1>9. CASE Arp
  <2>1. pc = "serve" /\ received_frame # None /\ UNCHANGED <<mounted, can_xmit, tx, events>>
    BY <1>9 DEF Arp, Input
  <2>2. CASE \E m : Returns(m)
    BY <1>1, <1>2, <2>1, <2>2, ReturnedWaits DEF WaitInv, Renewer, Comes
  <2>3. CASE pc' = "send" /\ UNCHANGED <<listening, swallowed, received_frame>>
    BY <1>1, <1>2, <2>1, <2>3 DEF WaitInv, Renewer, Comes
  <2> QED
    BY <1>9, <2>2, <2>3 DEF Arp
<1>10. CASE Part
  BY <1>1, <1>2, <1>10 DEF Part, WaitInv, Comes, bus
<1>11. CASE Command
  <2>1. pc' = "send" /\ UNCHANGED <<bus, received_frame>> /\ received_frame # None
    BY <1>11 DEF Command
  <2> QED
    BY <1>1, <1>2, <2>1 DEF WaitInv, Renewer, Comes, bus
<1>12. CASE NoMem
  <2>1. Returns(Memory) /\ UNCHANGED <<mounted, can_xmit, tx, events>>
    BY <1>12 DEF NoMem
  <2> QED
    BY <1>1, <1>2, <2>1, ReturnedWaits DEF WaitInv, Renewer, Comes
<1>13. CASE NotReady \/ Xmit
  <2>1. UNCHANGED <<mounted, events>> /\ pc = "send"
    BY <1>13 DEF NotReady, Xmit, Sent
  <2>2. mounted => tx' # None /\ can_xmit' = FALSE
    <3>1. job.out # None => data[job.out] # None
      BY DEF NetInv, NetTypes, WaitInv
    <3> QED
      BY <1>13, <3>1, PacketIsNotNull DEF NotReady, Xmit
  <2>3. CASE \E m : Returns(m)
    BY <1>1, <1>2, <2>1, <2>2, <2>3, ReturnedWaits DEF WaitInv, Renewer, Comes
  <2>4. CASE pc' = "poll" /\ UNCHANGED <<listening, swallowed, received_frame, job>>
    BY <1>1, <1>2, <2>1, <2>2, <2>4 DEF WaitInv, Renewer, Comes
  <2> QED
    BY <1>13, <2>3, <2>4 DEF NotReady, Xmit, Sent
<1>14. CASE Nested
  BY <1>1, <1>2, <1>14 DEF Nested, WaitInv, Renewer, Comes, bus
<1>15. CASE NoTimeout \/ TimerSends
  BY <1>1, <1>2, <1>15 DEF NoTimeout, TimerSends, WaitInv, Renewer, Comes, bus
<1>16. ASSUME NEW p \in Peers, Expires(p) PROVE WaitInv'
  BY <1>1, <1>2, <1>16 DEF Expires, WaitInv, Renewer, Comes, bus
<1>17. CASE HostTakes
  <2>1. Comes("in")' /\ events' # <<>> /\ \A x : Comes(x) => Comes(x)'
    BY <1>2, <1>17, AddedWaits DEF HostTakes, Events
  <2>2. UNCHANGED <<mounted, listening, can_xmit, swallowed, received_frame, pc, job>>
    BY <1>17 DEF HostTakes
  <2> QED
    BY <1>1, <1>2, <2>1, <2>2 DEF WaitInv, Renewer
<1>18. CASE HostResets
  <2>1. Comes("reset")' /\ events' # <<>> /\ \A x : Comes(x) => Comes(x)'
    BY <1>2, <1>18, AddedWaits DEF HostResets, Events
  <2>2. UNCHANGED <<mounted, can_xmit, swallowed, received_frame, pc, job>>
    BY <1>18 DEF HostResets
  <2> QED
    BY <1>1, <1>2, <2>1, <2>2 DEF WaitInv, Renewer
<1>19. CASE HostConfigures
  <2>1. Comes("open")' /\ events' # <<>> /\ \A x : Comes(x) => Comes(x)'
    BY <1>2, <1>19, AddedWaits DEF HostConfigures, Events
  <2>2. UNCHANGED <<mounted, listening, can_xmit, tx, swallowed, received_frame, pc, job>>
    BY <1>19 DEF HostConfigures
  <2> QED
    BY <1>1, <1>2, <2>1, <2>2 DEF WaitInv, Renewer
<1>20. ASSUME NEW f, Transmits(f) PROVE WaitInv'
  <2>1. Comes("out")' /\ events' # <<>> /\ \A x : Comes(x) => Comes(x)'
    BY <1>2, <1>20, AddedWaits DEF Transmits, Events
  <2>2. UNCHANGED <<mounted, can_xmit, tx, swallowed, received_frame, pc, job>>
    BY <1>20 DEF Transmits
  <2> QED
    BY <1>1, <1>2, <2>1, <2>2 DEF WaitInv, Renewer
<1>21. CASE UNCHANGED vars
  BY <1>1, <1>2, <1>21 DEF vars, WaitInv, Renewer, Comes, bus
<1> QED
  BY <1>3, <1>4, <1>5, <1>6, <1>7, <1>8, <1>9, <1>10, <1>11, <1>12, <1>13, <1>14, <1>15, <1>16,
     <1>17, <1>18, <1>19, <1>20, <1>21 DEF Next, UsbTask, Host, ClientSends, HostNoise, Over

(* usb_main does not block in tud_task() for an event that nobody will      *)
(* bring, neither in its loop nor inside linkoutput_fn, and the receive is  *)
(* off only while something is under way that renews it: what               *)
(* ReceptionResumes needs beside fairness, for any addresses and files.     *)
THEOREM UsbTaskIsWoken == Spec => []NeverWaitsInVain
<1>1. Init => WaitInv
  BY PacketIsNotNull DEF Init, WaitInv
<1>2. NetInv /\ WaitInv => NeverWaitsInVain
  <2> SUFFICES ASSUME NetInv, WaitInv, mounted, pc # "kept"
               PROVE  /\ pc = "nested" => events # <<>> \/ tx # None
                      /\ (~listening /\ ~swallowed) =>
                            /\ pc = "poll" => events # <<>> \/ tx # None
                            /\ Renewer
    BY DEF NeverWaitsInVain, Renewer, Comes
  <2>1. pc = "poll" => job.frame = None
    BY DEF NetInv, JobInv, Idle
  <2> QED
    BY <2>1, SomeEvent DEF WaitInv, Renewer
<1> QED
  BY <1>1, <1>2, NetInit, NetStep, WaitStep, PTL DEF Spec
=============================================================================
