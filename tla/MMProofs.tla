------------------------------ MODULE MMProofs ------------------------------
(***************************************************************************)
(* Theorems about the page-frame manager MM, for any number of frames,     *)
(* pages, mappings and files: type correctness, soundness of the page      *)
(* tables, the coherence of main memory, mapped files, for its owner       *)
(* (OwnerView) that it implements flat memory, and for the processor       *)
(* (InstructionProgress) that an instruction aborts a few times at most.   *)
(***************************************************************************)
EXTENDS OwnerView, InstructionProgress, FiniteSetTheorems, WellFoundedInduction, TLAPS

(* A non-empty set of natural numbers below a bound has a greatest one.    *)
LEMMA GreatestBelow ==
    ASSUME NEW n \in Nat, NEW S \in SUBSET (0 .. n), S # {}
    PROVE  \E x \in S : \A y \in S : y <= x
<1> DEFINE T == {n - x : x \in S}
<1>1. T \subseteq Nat /\ T # {}
  <2>1. \A x \in S : n - x \in Nat
    OBVIOUS
  <2>2. PICK x \in S : TRUE
    OBVIOUS
  <2>3. n - x \in T
    BY <2>2
  <2>4. T \subseteq Nat
    BY <2>1
  <2> QED BY <2>3, <2>4
<1> DEFINE Less == {ss \in Nat \X Nat : ss[1] < ss[2]}
<1>2. Less = OpToRel(<, Nat)
  BY Zenon DEF OpToRel
<1>3. IsWellFoundedOn(Less, Nat)
  BY <1>2, NatLessThanWellFounded, Zenon
<1>4. PICK t \in T : \A u \in T : <<u, t>> \notin Less
  <2> HIDE DEF Less, T
  <2> QED BY <1>1, <1>3, WFMin
<1>5. \A u \in T : t <= u
  <2> TAKE u \in T
  <2>1. u \in Nat /\ t \in Nat
    BY <1>1
  <2>2. <<u, t>> \notin Less
    BY <1>4
  <2>3. u < t => <<u, t>> \in Less
    BY <2>1
  <2> QED BY <2>1, <2>2, <2>3
<1>6. PICK x \in S : t = n - x
  BY <1>4
<1>7. \A y \in S : y <= x
  <2> TAKE y \in S
  <2>1. t <= n - y
    BY <1>5
  <2> QED BY <2>1, <1>6
<1> QED BY <1>7

-----------------------------------------------------------------------------
(* Typing of the helpers.                                                  *)

LEMMA DiskPageType ==
    ASSUME TypeOK, NEW i \in Slots, NEW p \in Pages, InRange(i, p),
           NEW d \in [Paths -> [Offsets -> Data]]
    PROVE  FileOffset(i, p) \in Nat /\ ReadPage(d, i, p) \in Data
<1>1. /\ sock[i].mapTo \in Nat /\ sock[i].offset \in Nat
      /\ p \in Nat /\ sock[i].mapTo <= p
  BY PagesAssumption DEF TypeOK, Sock, InRange
<1>2. FileOffset(i, p) \in Nat
  BY <1>1 DEF FileOffset
<1>3. CASE sock[i].file \in Paths /\ FileOffset(i, p) \in 0 .. FilePages[sock[i].file] - 1
  <2>1. FilePages[sock[i].file] \in 0 .. MaxFilePages /\ MaxFilePages \in Nat
    BY <1>3, RequestAssumption
  <2>2. \A x \in Nat, n, m \in Nat : n <= m /\ x \in 0 .. n - 1 => x \in 0 .. m - 1
    OBVIOUS
  <2>3. FileOffset(i, p) \in Offsets
    BY <1>2, <1>3, <2>1, <2>2 DEF Offsets
  <2> QED BY <1>3, <2>3 DEF ReadPage
<1>4. CASE ~(sock[i].file \in Paths /\ FileOffset(i, p) \in 0 .. FilePages[sock[i].file] - 1)
  BY <1>2, <1>4 DEF ReadPage, Data
<1> QED BY <1>3, <1>4

LEMMA CleanType ==
    ASSUME TypeOK
    PROVE  /\ CleanDirty \in [Frames -> BOOLEAN]
           /\ CleanDisk \in [Paths -> [Offsets -> Data]]
<1>1. CleanDirty \in [Frames -> BOOLEAN]
  BY DEF CleanDirty
<1>2. ASSUME NEW h \in Paths, NEW o \in Offsets, WrittenTo(h, o) # {}
      PROVE  data[CHOOSE f \in WrittenTo(h, o) : \A g \in WrittenTo(h, o) : g <= f] \in Data
  <2>1. WrittenTo(h, o) \subseteq Frames
    BY DEF WrittenTo, CleanableFrames
  <2>2. WrittenTo(h, o) \in SUBSET (0 .. NumFrames - 1) /\ NumFrames - 1 \in Nat
    BY <2>1, FramesAssumption DEF Frames
  <2>3. \E f \in WrittenTo(h, o) : \A g \in WrittenTo(h, o) : g <= f
    BY <1>2, <2>2, GreatestBelow
  <2>4. (CHOOSE f \in WrittenTo(h, o) : \A g \in WrittenTo(h, o) : g <= f) \in Frames
    BY <2>1, <2>3
  <2> QED BY <2>4 DEF TypeOK
<1>3. CleanDisk \in [Paths -> [Offsets -> Data]]
  BY <1>2 DEF CleanDisk, TypeOK
<1> QED BY <1>1, <1>3

LEMMA NewFrameType ==
    ASSUME TypeOK, NEW p \in Pages, NEW f \in Frames, GetNewPageFrame(p, f)
    PROVE  /\ framePtr' \in Frames
           /\ dirty' \in [Frames -> BOOLEAN]
           /\ disk' \in [Paths -> [Offsets -> Data]]
<1>1. After(f) \in Frames
  BY FramesAssumption DEF After, Frames
<1> QED BY <1>1, CleanType DEF GetNewPageFrame, TypeOK

LEMMA NewEntryType ==
    ASSUME TypeOK, NEW p \in Pages, NEW f \in Frames, NEW o \in Slots \cup {MainTag},
           SetNewPgf(p, f, o)
    PROVE  /\ mapAddr' \in [Frames -> Pages \cup {0}]
           /\ tag' \in [Frames -> Slots \cup {MainTag}]
           /\ pte' \in [Pages -> Pte \cup {NoPte}]
           /\ loc' \in [Tables -> Nat]
           /\ curSel' \in 0 .. NumMaps
<1>1. NextTable \in Tables
  BY FramesAssumption DEF NextTable, Tables, TypeOK
<1>2. SectionOf(p) \in Nat
  BY PagesAssumption
<1>3. loc' \in [Tables -> Nat] /\ curSel' \in 0 .. NumMaps
  BY <1>1, <1>2 DEF SetNewPgf, LocateSection, TypeOK, Tables
<1>4. pte' \in [Pages -> Pte \cup {NoPte}]
  BY DEF SetNewPgf, TypeOK, Pte
<1> QED BY <1>3, <1>4 DEF SetNewPgf, TypeOK

-----------------------------------------------------------------------------
(* Type correctness.                                                       *)

LEMMA RequestFacts ==
    ASSUME NEW r \in Requests
    PROVE  /\ r \in RequestType
           /\ \A h \in Paths : SizeOf(h) = FilePages[h]
           /\ \A h : MapSize(r, h) \in Nat
<1>1. r \in RequestType
  BY RequestAssumption
<1>2. \A h : SizeOf(h) \in Nat
  BY RequestAssumption DEF SizeOf
<1>3. r.size = 0 => r.offset = 0
  BY RequestAssumption
<1>4. ASSUME NEW h PROVE MapSize(r, h) \in Nat
  <2>1. r.size \in Nat /\ r.offset \in Nat
    BY <1>1 DEF RequestType
  <2>2. CASE r.size > 0
    BY <2>1, <2>2 DEF MapSize
  <2>3. CASE ~(r.size > 0)
    <3>1. r.size = 0 /\ r.offset = 0
      BY <2>1, <2>3, <1>3
    <3> QED BY <1>2, <2>3, <3>1 DEF MapSize
  <2> QED BY <2>2, <2>3
<1> QED BY <1>1, <1>4 DEF SizeOf

LEMMA FilledType ==
    ASSUME NEW r \in Requests, NEW h \in Paths \cup {NoFile, Dangling}, NEW n \in Nat
    PROVE  Filled(r, h, n) \in Sock
<1>1. r \in RequestType
  BY RequestFacts
<1> QED BY <1>1 DEF Filled, Sock, RequestType

LEMMA InitType == Init => TypeOK
<1> SUFFICES ASSUME Init PROVE TypeOK
  OBVIOUS
<1>1. BootMap \in Requests /\ BootMap.path \in Paths
  BY RequestFacts DEF Requests, RequestType
<1>2. Filled(BootMap, BootMap.path, MapSize(BootMap, BootMap.path)) \in Sock
  BY <1>1, RequestFacts, FilledType
<1>3. sock \in [Slots -> Sock]
  BY <1>2 DEF Init, Sock
<1>4. disk \in [Paths -> [Offsets -> Data]]
  BY DEF Init, Data, Offsets
<1>5. warp \in [at : Nat, max : 0 .. AppLimit]
  BY PagesAssumption DEF Init
<1>6. framePtr \in Frames /\ curSel \in 0 .. NumMaps
  BY FramesAssumption DEF Init, Frames
<1>7. /\ mapAddr \in [Frames -> Pages \cup {0}]
      /\ tag \in [Frames -> Slots \cup {MainTag}]
      /\ dirty \in [Frames -> BOOLEAN] /\ lock \in [Frames -> BOOLEAN]
      /\ data \in [Frames -> Data]
  BY DEF Init, Data
<1>8. /\ pte \in [Pages -> Pte \cup {NoPte}]
      /\ loc \in [Tables -> Nat]
      /\ pending \in (Frames \X Nat) \cup {NoPending}
      /\ halt \in {"no", "noFreePage", "closedFile"}
  BY DEF Init, NoSection
<1> QED BY <1>3, <1>4, <1>5, <1>6, <1>7, <1>8 DEF TypeOK

LEMMA NextType == TypeOK /\ [Next]_vars => TypeOK'
<1> SUFFICES ASSUME TypeOK, [Next]_vars PROVE TypeOK'
  OBVIOUS
<1>1. ASSUME NEW p \in Pages, MemoryFault(p) PROVE TypeOK'
  <2>1. PICK f \in Frames : /\ GetNewPageFrame(p, f)
                            /\ SetNewPgf(p, f, MainTag)
                            /\ data' = [data EXCEPT ![f] = IF mapAddr[f] = p THEN @ ELSE Junk]
    BY <1>1 DEF MemoryFault, LoadMemory
  <2>2. data' \in [Frames -> Data]
    BY <2>1 DEF TypeOK, Data
  <2>3. UNCHANGED <<lock, sock, warp, pending, halt>>
    BY <1>1 DEF MemoryFault, LoadMemory
  <2> QED BY <2>1, <2>2, <2>3, NewFrameType, NewEntryType DEF TypeOK
<1>2. ASSUME NEW p \in Pages, FileFault(p) PROVE TypeOK'
  <2>1. PICK i \in Slots, f \in Frames :
           /\ Serves(i, p)
           /\ GetNewPageFrame(p, f)
           /\ SetNewPgf(p, f, i)
           /\ data' = [data EXCEPT ![f] = ReadPage(disk', i, p)]
           /\ halt' = IF sock[i].path = NoPath \/ sock[i].file \notin Paths
                      THEN "closedFile" ELSE halt
    BY <1>2 DEF FileFault, LoadFile
  <2>2. ReadPage(disk', i, p) \in Data
    BY <2>1, NewFrameType, DiskPageType DEF Serves
  <2>3. data' \in [Frames -> Data]
    BY <2>1, <2>2 DEF TypeOK
  <2>4. halt' \in {"no", "noFreePage", "closedFile"}
    BY <2>1 DEF TypeOK
  <2>5. UNCHANGED <<lock, sock, warp, pending>>
    BY <1>2 DEF FileFault, LoadFile
  <2> QED BY <2>1, <2>3, <2>4, <2>5, NewFrameType, NewEntryType DEF TypeOK
<1>3. ASSUME NEW p \in Pages, SideloadFault(p) PROVE TypeOK'
  <2>1. PICK i \in Slots, f \in Frames :
           /\ Serves(i, p)
           /\ GetNewPageFrame(p, f)
           /\ SetNewPgf(p, f, i)
           /\ data' = [data EXCEPT ![f] = IF mapAddr[f] = p THEN @ ELSE Junk]
           /\ lock' = [lock EXCEPT ![f] = TRUE]
           /\ pending' = <<f, FileOffset(i, p)>>
    BY <1>3 DEF SideloadFault, LoadSideload
  <2>2. data' \in [Frames -> Data]
    BY <2>1 DEF TypeOK, Data
  <2>3. FileOffset(i, p) \in Nat
    BY <2>1, DiskPageType DEF TypeOK, Serves
  <2>4. UNCHANGED <<sock, warp, halt>>
    BY <1>3 DEF SideloadFault, LoadSideload
  <2> QED BY <2>1, <2>2, <2>3, <2>4, NewFrameType, NewEntryType DEF TypeOK
<1>4. ASSUME NEW p \in Pages, NoFreePage(p) PROVE TypeOK'
  BY <1>4 DEF NoFreePage, TypeOK, frameVars, tableVars
<1>5. ASSUME NEW p \in Pages, NEW mode \in {"user", "sys"}, PermissionFault(p, mode)
      PROVE  TypeOK'
  <2>1. pte[p] \in Pte
    BY <1>5 DEF PermissionFault, TypeOK
  <2>2. [pte[p] EXCEPT !.rw = TRUE] \in Pte
    BY <2>1 DEF Pte
  <2>3. pte' \in [Pages -> Pte \cup {NoPte}]
    BY <1>5, <2>2 DEF PermissionFault, TypeOK
  <2> QED BY <1>5, <2>3 DEF PermissionFault, TypeOK
<1>6. ASSUME NEW p \in Pages, NEW v \in Values, Store(p, v) PROVE TypeOK'
  <2>1. pte[p].frame \in Frames
    BY <1>6 DEF Store, TypeOK, Pte
  <2>2. <<v>> \in Data
    BY DEF Data
  <2>3. data' \in [Frames -> Data]
    BY <1>6, <2>1, <2>2 DEF Store, TypeOK
  <2> QED BY <1>6, <2>3 DEF Store, TypeOK, tableVars
<1>7. ASSUME NEW p \in MemPages, TrimPage(p) PROVE TypeOK'
  BY <1>7 DEF TrimPage, TypeOK, MemPages, Data
<1>8. ASSUME NEW r \in LockRequests, LockVaddr(r[1], r[2]) PROVE TypeOK'
  <2>1. r[2] \in BOOLEAN
    BY RequestAssumption
  <2> QED BY <1>8, <2>1 DEF LockVaddr, TypeOK, tableVars
<1>9. ASSUME NEW w \in WarpRequests, SetAppMemWarp(w[1], w[2]) PROVE TypeOK'
  <2>1. w[1] \in Nat /\ w[2] \in 0 .. AppLimit
    BY RequestAssumption
  <2> QED BY <1>9, <2>1 DEF SetAppMemWarp, TypeOK, Data
<1>10. CASE ResetAppMemWarp
  BY <1>10, PagesAssumption DEF ResetAppMemWarp, TypeOK, frameVars, tableVars
<1>11. ASSUME NEW r \in MapRequests, Mmap(r) PROVE TypeOK'
  <2>1. r \in Requests /\ r.path \in Paths
    BY RequestFacts DEF Requests, RequestType
  <2>2. r.size \in Nat
    BY <2>1, RequestFacts DEF RequestType
  <2>3. \A k \in Slots : sock[k].file \in Paths \cup {NoFile, Dangling}
    BY DEF TypeOK, Sock
  <2>4. PICK i \in Slots :
           \/ sock' = [sock EXCEPT ![i] = Filled(r, NoFile, r.size)]
           \/ \E k \in Slots : sock' = [sock EXCEPT ![i] =
                                     Filled(r, sock[k].file, MapSize(r, sock[k].file))]
           \/ sock' = [sock EXCEPT ![i] = Filled(r, r.path, MapSize(r, r.path))]
    BY <1>11 DEF Mmap
  <2>5. \A h \in Paths \cup {NoFile, Dangling} : Filled(r, h, MapSize(r, h)) \in Sock
    BY <2>1, RequestFacts, FilledType
  <2>6. Filled(r, NoFile, r.size) \in Sock
    BY <2>1, <2>2, FilledType
  <2>7. \E a \in Sock : sock' = [sock EXCEPT ![i] = a]
    BY <2>1, <2>3, <2>4, <2>5, <2>6
  <2>8. sock' \in [Slots -> Sock]
    BY <2>7 DEF TypeOK
  <2>9. pte' \in [Pages -> Pte \cup {NoPte}]
    BY <1>11 DEF Mmap, WipeTable, TypeOK
  <2> QED BY <1>11, <2>8, <2>9 DEF Mmap, TypeOK, frameVars
<1>12. ASSUME NEW r \in MapRequests, MmapOpenFails(r) PROVE TypeOK'
  <2>1. r \in RequestType
    BY RequestFacts DEF Requests
  <2>2. PICK i \in Slots :
           sock' = [sock EXCEPT ![i] = [Filled(r, NoFile, sock[i].size)
                                        EXCEPT !.mapTo = 0, !.path = NoPath]]
    BY <1>12 DEF MmapOpenFails
  <2>3. [Filled(r, NoFile, sock[i].size) EXCEPT !.mapTo = 0, !.path = NoPath] \in Sock
    BY <2>1 DEF Filled, Sock, RequestType, TypeOK
  <2>4. sock' \in [Slots -> Sock]
    BY <2>2, <2>3 DEF TypeOK
  <2> QED BY <1>12, <2>4 DEF MmapOpenFails, TypeOK, frameVars, tableVars
<1>13. ASSUME NEW i \in Slots \ {0}, Munmap(i) PROVE TypeOK'
  <2>1. sock' \in [Slots -> Sock]
    <3>1. ASSUME NEW k \in Slots PROVE Closed(i)[k] \in Sock
      <4>1. sock[k] \in Sock
        BY DEF TypeOK
      <4>2. /\ [sock[k] EXCEPT !.mapTo = 0, !.path = NoPath, !.file = NoFile] \in Sock
            /\ [sock[k] EXCEPT !.path = NoPath, !.file = NoFile] \in Sock
            /\ [sock[k] EXCEPT !.file = Dangling] \in Sock
        BY <4>1 DEF Sock
      <4> QED BY <4>1, <4>2 DEF Closed
    <3>2. Closed(i) = [k \in Slots |-> Closed(i)[k]]
      BY DEF Closed
    <3> QED BY <1>13, <3>1, <3>2 DEF Munmap
  <2>2. pte' \in [Pages -> Pte \cup {NoPte}] /\ mapAddr' \in [Frames -> Pages \cup {0}]
    BY <1>13 DEF Munmap, TypeOK
  <2>3. dirty' \in [Frames -> BOOLEAN] /\ disk' \in [Paths -> [Offsets -> Data]]
    BY <1>13, CleanType DEF Munmap
  <2> QED BY <1>13, <2>1, <2>2, <2>3 DEF Munmap, TypeOK
<1>14. CASE UNCHANGED vars
  BY <1>14 DEF vars, TypeOK
<1> QED BY <1>1, <1>2, <1>3, <1>4, <1>5, <1>6, <1>7, <1>8, <1>9, <1>10, <1>11, <1>12,
           <1>13, <1>14 DEF Next, TranslationFault

(* Every variable of the manager keeps its type: page_frame_ptr stays an   *)
(* index of page_frame_attr, an entry leads to a frame, a table location   *)
(* is a section, for every sequence of faults and calls.                   *)
THEOREM TypeCorrect == Spec => []TypeOK
BY InitType, NextType, PTL DEF Spec
-----------------------------------------------------------------------------
(* Page tables.  An operation either installs the entry of one page, or    *)
(* only removes entries and makes stored-to ones writable.                 *)

PteShrinks == \A q \in Pages : pte'[q] # NoPte => /\ pte[q] # NoPte
                                                 /\ pte'[q].frame = pte[q].frame

LEMMA EntryGrantedWritable ==
    ASSUME TypeOK, NEW p \in Pages, NEW mode, PermissionFault(p, mode)
    PROVE  PteShrinks
<1>1. pte[p] \in Pte /\ pte' = [pte EXCEPT ![p].rw = TRUE]
  BY DEF PermissionFault, TypeOK
<1>2. pte'[p].frame = pte[p].frame
  BY <1>1 DEF TypeOK, Pte
<1>3. \A q \in Pages : q # p => pte'[q] = pte[q]
  BY <1>1 DEF TypeOK
<1> QED BY <1>2, <1>3 DEF PteShrinks, PermissionFault

LEMMA MmapShrinks ==
    ASSUME TypeOK, NEW r, Mmap(r)
    PROVE  PteShrinks
BY DEF Mmap, WipeTable, PteShrinks, TypeOK

(* What a step does to the tables, for the two invariants below.           *)
TablesKept == UNCHANGED <<loc>> /\ PteShrinks

LEMMA TablesStep ==
    ASSUME TypeOK, [Next]_vars
    PROVE  \/ TablesKept
           \/ \E p \in Pages, f \in Frames, o \in Slots \cup {MainTag} :
                 SetNewPgf(p, f, o)
<1> USE DEF TablesKept
<1>1. ASSUME NEW p \in Pages, TranslationFault(p)
      PROVE  \/ TablesKept
             \/ \E f \in Frames, o \in Slots \cup {MainTag} : SetNewPgf(p, f, o)
  <2>1. CASE MemoryFault(p)
    BY <2>1 DEF MemoryFault, LoadMemory
  <2>2. CASE FileFault(p)
    BY <2>2 DEF FileFault, LoadFile
  <2>3. CASE SideloadFault(p)
    BY <2>3 DEF SideloadFault, LoadSideload
  <2>4. CASE NoFreePage(p)
    BY <2>4 DEF NoFreePage, tableVars, PteShrinks
  <2> QED BY <1>1, <2>1, <2>2, <2>3, <2>4 DEF TranslationFault
<1>2. ASSUME NEW p \in Pages, NEW mode \in {"user", "sys"}, PermissionFault(p, mode)
      PROVE  TablesKept
  BY <1>2, EntryGrantedWritable DEF PermissionFault
<1>3. ASSUME NEW p \in Pages, NEW v \in Values, Store(p, v) PROVE TablesKept
  BY <1>3 DEF Store, tableVars, PteShrinks
<1>4. ASSUME NEW p \in MemPages, TrimPage(p) PROVE TablesKept
  BY <1>4 DEF TrimPage, PteShrinks, TypeOK
<1>5. ASSUME NEW r \in LockRequests, LockVaddr(r[1], r[2]) PROVE TablesKept
  BY <1>5 DEF LockVaddr, tableVars, PteShrinks
<1>6. ASSUME NEW w \in WarpRequests, SetAppMemWarp(w[1], w[2]) PROVE TablesKept
  BY <1>6 DEF SetAppMemWarp, PteShrinks
<1>7. CASE ResetAppMemWarp
  BY <1>7 DEF ResetAppMemWarp, tableVars, PteShrinks
<1>8. ASSUME NEW r \in MapRequests, Mmap(r) PROVE TablesKept
  BY <1>8, MmapShrinks DEF Mmap
<1>9. ASSUME NEW r \in MapRequests, MmapOpenFails(r) PROVE TablesKept
  BY <1>9 DEF MmapOpenFails, tableVars, PteShrinks
<1>10. ASSUME NEW i \in Slots \ {0}, Munmap(i) PROVE TablesKept
  BY <1>10 DEF Munmap, PteShrinks
<1>11. CASE UNCHANGED vars
  BY <1>11 DEF vars, PteShrinks
<1> HIDE DEF TablesKept
<1> QED BY <1>1, <1>2, <1>3, <1>4, <1>5, <1>6, <1>7, <1>8, <1>9, <1>10, <1>11 DEF Next

LEMMA NextSection == TypeOK /\ SectionSound /\ [Next]_vars => SectionSound'
<1> SUFFICES ASSUME TypeOK, SectionSound, [Next]_vars PROVE SectionSound'
  OBVIOUS
<1>1. CASE TablesKept
  BY <1>1 DEF TablesKept, PteShrinks, SectionSound, Located
<1>2. ASSUME NEW p \in Pages, NEW f \in Frames, NEW o \in Slots \cup {MainTag},
             SetNewPgf(p, f, o)
      PROVE  SectionSound'
  <2>1. \A q \in Pages : pte'[q] # NoPte =>
            q = p \/ (pte[q] # NoPte /\ q \notin Displaced(p))
    BY <1>2 DEF SetNewPgf, Cleared
  <2>2. CASE Located(SectionOf(p))
    <3>1. loc' = loc
      BY <1>2, <2>2 DEF SetNewPgf, LocateSection
    <3> QED BY <2>1, <2>2, <3>1 DEF SectionSound, Located
  <2>3. CASE ~Located(SectionOf(p))
    <3>1. NextTable \in Tables
      BY FramesAssumption DEF NextTable, Tables, TypeOK
    <3>2. loc' = [loc EXCEPT ![NextTable] = SectionOf(p)]
      BY <1>2, <2>3 DEF SetNewPgf, LocateSection
    <3>3. \A t \in Tables : loc'[t] = IF t = NextTable THEN SectionOf(p) ELSE loc[t]
      BY <3>1, <3>2 DEF TypeOK
    <3>4. SectionOf(p) # MainSection /\ \A t \in Tables : loc[t] # SectionOf(p)
      BY <2>3 DEF Located
    <3>5. ASSUME NEW q \in Pages, pte'[q] # NoPte PROVE Located(SectionOf(q))'
      <4>1. CASE q = p
        BY <3>1, <3>3, <4>1 DEF Located
      <4>2. CASE q # p
        <5>1. Located(SectionOf(q)) /\ SectionOf(q) # loc[NextTable]
          BY <2>1, <2>3, <3>5, <4>2 DEF SectionSound, Displaced
        <5> QED BY <3>3, <5>1 DEF Located
      <4> QED BY <4>1, <4>2
    <3> QED BY <3>3, <3>4, <3>5 DEF SectionSound
  <2> QED BY <2>2, <2>3
<1> QED BY <1>1, <1>2, TablesStep

LEMMA InitSections == Init => SectionSound /\ PteSound
<1> SUFFICES ASSUME Init PROVE SectionSound /\ PteSound
  OBVIOUS
<1>1. MainSection # NoSection
  BY PagesAssumption
<1> QED BY <1>1 DEF Init, SectionSound, PteSound

(* No section is served by two L1 entries and no entry is valid in a table *)
(* that get_l1_mpte has given to another section: a fault in one section   *)
(* never makes a page of another one readable at a wrong address.          *)
THEOREM SectionsSound == Spec => []SectionSound
BY InitType, NextType, InitSections, NextSection, PTL DEF Spec

-----------------------------------------------------------------------------
(* A valid entry leads to the frame of its page.                           *)

LEMMA NewEntrySound ==
    ASSUME TypeOK, PteSound, NEW p \in Pages, NEW f \in Frames,
           NEW o \in Slots \cup {MainTag}, SetNewPgf(p, f, o)
    PROVE  PteSound'
<1>1. \A g \in Frames : mapAddr'[g] = IF g = f THEN p ELSE mapAddr[g]
  BY DEF SetNewPgf, TypeOK
<1>2. ASSUME NEW q \in Pages, pte'[q] # NoPte PROVE mapAddr'[pte'[q].frame] = q
  <2>1. CASE q = p
    BY <1>1, <2>1 DEF SetNewPgf
  <2>2. CASE q # p
    <3>1. pte'[q] = pte[q] /\ q # mapAddr[f]
      BY <1>2, <2>2 DEF SetNewPgf, Cleared
    <3>2. pte[q].frame \in Frames /\ mapAddr[pte[q].frame] = q
      BY <1>2, <3>1 DEF PteSound, TypeOK, Pte
    <3> QED BY <1>1, <3>1, <3>2
  <2> QED BY <2>1, <2>2
<1> QED BY <1>2 DEF PteSound

LEMMA KeptEntrySound ==
    ASSUME PteSound, PteShrinks, UNCHANGED mapAddr
    PROVE  PteSound'
BY DEF PteSound, PteShrinks

LEMMA NextPte == TypeOK /\ PteSound /\ [Next]_vars => PteSound'
<1> SUFFICES ASSUME TypeOK, PteSound, [Next]_vars PROVE PteSound'
  OBVIOUS
<1>1. ASSUME NEW p \in Pages, TranslationFault(p) PROVE PteSound'
  <2>1. CASE MemoryFault(p)
    BY <2>1, NewEntrySound DEF MemoryFault, LoadMemory
  <2>2. CASE FileFault(p)
    BY <2>2, NewEntrySound DEF FileFault, LoadFile
  <2>3. CASE SideloadFault(p)
    BY <2>3, NewEntrySound DEF SideloadFault, LoadSideload
  <2>4. CASE NoFreePage(p)
    BY <2>4 DEF NoFreePage, tableVars, frameVars, PteSound
  <2> QED BY <1>1, <2>1, <2>2, <2>3, <2>4 DEF TranslationFault
<1>2. ASSUME NEW p \in Pages, NEW mode \in {"user", "sys"}, PermissionFault(p, mode)
      PROVE  PteSound'
  <2>1. mapAddr' = mapAddr
    BY <1>2 DEF PermissionFault
  <2> QED BY <1>2, <2>1, EntryGrantedWritable, KeptEntrySound
<1>3. ASSUME NEW p \in Pages, NEW v \in Values, Store(p, v) PROVE PteSound'
  BY <1>3 DEF Store, tableVars, PteSound
<1>4. ASSUME NEW p \in MemPages, TrimPage(p) PROVE PteSound'
  <2>1. PICK f \in Frames : /\ mapAddr[f] = p
                            /\ mapAddr' = [mapAddr EXCEPT ![f] = 0]
    BY <1>4 DEF TrimPage, FirstMapping
  <2>2. \A g \in Frames : g # f => mapAddr'[g] = mapAddr[g]
    BY <2>1 DEF TypeOK
  <2>3. \A q \in Pages : pte'[q] # NoPte => q # p /\ pte'[q] = pte[q]
    BY <1>4 DEF TrimPage, TypeOK
  <2>4. \A q \in Pages : pte[q] # NoPte => pte[q].frame \in Frames
    BY DEF TypeOK, Pte
  <2> QED BY <2>1, <2>2, <2>3, <2>4 DEF PteSound
<1>5. ASSUME NEW r \in LockRequests, LockVaddr(r[1], r[2]) PROVE PteSound'
  BY <1>5 DEF LockVaddr, tableVars, PteSound
<1>6. ASSUME NEW w \in WarpRequests, SetAppMemWarp(w[1], w[2]) PROVE PteSound'
  <2> DEFINE S == Purged(w[1], w[2])
  <2>1. /\ \A f \in Frames : mapAddr'[f] = IF f \in S THEN 0 ELSE mapAddr[f]
        /\ \A q \in Pages : pte'[q] # NoPte =>
                pte'[q] = pte[q] /\ \A f \in S : mapAddr[f] # q
    BY <1>6 DEF SetAppMemWarp
  <2>2. \A q \in Pages : pte[q] # NoPte => pte[q].frame \in Frames
    BY DEF TypeOK, Pte
  <2> QED BY <2>1, <2>2 DEF PteSound
<1>7. CASE ResetAppMemWarp
  BY <1>7 DEF ResetAppMemWarp, tableVars, frameVars, PteSound
<1>8. ASSUME NEW r \in MapRequests, Mmap(r) PROVE PteSound'
  <2>1. mapAddr' = mapAddr
    BY <1>8 DEF Mmap, frameVars
  <2> QED BY <1>8, <2>1, MmapShrinks, KeptEntrySound
<1>9. ASSUME NEW r \in MapRequests, MmapOpenFails(r) PROVE PteSound'
  BY <1>9 DEF MmapOpenFails, tableVars, frameVars, PteSound
<1>10. ASSUME NEW i \in Slots \ {0}, Munmap(i) PROVE PteSound'
  <2>1. /\ \A f \in Frames : mapAddr'[f] = IF f \in TaggedFrames(i) THEN 0 ELSE mapAddr[f]
        /\ \A q \in Pages : pte'[q] # NoPte =>
                pte'[q] = pte[q] /\ \A f \in TaggedFrames(i) : mapAddr[f] # q
    BY <1>10 DEF Munmap
  <2>2. \A q \in Pages : pte[q] # NoPte => pte[q].frame \in Frames
    BY DEF TypeOK, Pte
  <2> QED BY <2>1, <2>2 DEF PteSound
<1>11. CASE UNCHANGED vars
  BY <1>11 DEF vars, PteSound
<1> QED BY <1>1, <1>2, <1>3, <1>4, <1>5, <1>6, <1>7, <1>8, <1>9, <1>10, <1>11 DEF Next

(* No page is ever reached through the frame of another one, whatever is   *)
(* evicted, trimmed, lent, mapped or unmapped, even by callers that map    *)
(* one file twice or at overlapping addresses.                             *)
THEOREM PtesSound == Spec => []PteSound
BY InitType, NextType, InitSections, NextPte, PTL DEF Spec

-----------------------------------------------------------------------------
(* The frames.                                                             *)

LEMMA HaltStep ==
    ASSUME [Next]_vars
    PROVE  \/ halt' = halt
           \/ halt' = "closedFile"
           \/ \E p \in Pages : NoFreePage(p)
<1>1. ASSUME NEW p \in Pages, TranslationFault(p)
      PROVE  halt' = halt \/ halt' = "closedFile" \/ NoFreePage(p)
  BY <1>1 DEF TranslationFault, MemoryFault, LoadMemory, FileFault, LoadFile, SideloadFault, LoadSideload
<1> QED BY <1>1 DEF Next, PermissionFault, Store, TrimPage, LockVaddr, SetAppMemWarp,
                    ResetAppMemWarp, Mmap, MmapOpenFails, Munmap, vars

LEMMA HaltedStays ==
    ASSUME [Next]_vars, halt # "no"
    PROVE  UNCHANGED vars
BY DEF Next, TranslationFault, MemoryFault, LoadMemory, FileFault, LoadFile, SideloadFault, LoadSideload, NoFreePage, Faults,
       PermissionFault, Store, TrimPage, LockVaddr, SetAppMemWarp, ResetAppMemWarp, Mmap,
       MmapOpenFails, Munmap

LEMMA NewFrameUnlocked ==
    ASSUME TypeOK, NEW p \in Pages, NEW f \in Frames, NEW o,
           GetNewPageFrame(p, f), SetNewPgf(p, f, o)
    PROVE  LockStep
<1>1. lock[f] => mapAddr[f] = p
  BY DEF GetNewPageFrame, Resident, FirstMapping, FirstOf, CleanFrames, ReclaimFrames
<1>2. \A g \in Frames : mapAddr'[g] = IF g = f THEN p ELSE mapAddr[g]
  BY DEF SetNewPgf, TypeOK
<1> QED BY <1>1, <1>2 DEF LockStep

(* A locked frame, as that of a side-loaded page whose contents are still  *)
(* on their way, is never given to another page.                           *)
THEOREM LockedIsKept == Spec => LockedKept
<1>1. ASSUME TypeOK, [Next]_vars PROVE [LockStep]_vars
  <2>1. ASSUME NEW p \in Pages, TranslationFault(p) PROVE LockStep
    <3>1. CASE MemoryFault(p)
      BY <3>1, <1>1, NewFrameUnlocked DEF MemoryFault, LoadMemory
    <3>2. CASE FileFault(p)
      BY <3>2, <1>1, NewFrameUnlocked DEF FileFault, LoadFile
    <3>3. CASE SideloadFault(p)
      BY <3>3, <1>1, NewFrameUnlocked DEF SideloadFault, LoadSideload
    <3>4. CASE NoFreePage(p)
      BY <3>4 DEF NoFreePage, frameVars, LockStep
    <3> QED BY <2>1, <3>1, <3>2, <3>3, <3>4 DEF TranslationFault
  <2>2. CASE UNCHANGED mapAddr
    BY <2>2 DEF LockStep
  <2>3. ASSUME NEW p \in MemPages, TrimPage(p) PROVE LockStep
    BY <2>3, <1>1 DEF TrimPage, LockStep, TypeOK
  <2>4. ASSUME NEW w \in WarpRequests, SetAppMemWarp(w[1], w[2]) PROVE LockStep
    BY <2>4 DEF SetAppMemWarp, LockStep
  <2>5. ASSUME NEW i \in Slots \ {0}, Munmap(i) PROVE LockStep
    BY <2>5 DEF Munmap, LockStep
  <2> QED BY <1>1, <2>1, <2>2, <2>3, <2>4, <2>5 DEF Next, PermissionFault, Store, LockVaddr,
                ResetAppMemWarp, Mmap, MmapOpenFails, frameVars
<1> QED BY <1>1, InitType, NextType, PTL DEF Spec, LockedKept
-----------------------------------------------------------------------------
(* Main memory is coherent: the strengthening of MM's invariants from      *)
(* which it follows that a load returns the value last stored and that     *)
(* nothing but its owner changes a page.                                   *)

(* A frame that backs a page of memory is tagged so: the write-back, the   *)
(* second search and munmap leave it alone.                                *)
MarkedMain == \A f \in Frames : mapAddr[f] \in MemPages => tag[f] = MainTag

OneFrame == \A f, g \in Frames :
               mapAddr[f] \in MemPages /\ mapAddr[f] = mapAddr[g] => f = g

(* A dirty frame of memory never loses its entry, so a fault never loads a *)
(* second copy of its page.                                                *)
DirtyReachable == \A f \in Frames :
                     mapAddr[f] \in MemPages /\ dirty[f] => pte[mapAddr[f]] # NoPte

WritableDirty == \A p \in MemPages :
                    pte[p] # NoPte /\ pte[p].rw => dirty[pte[p].frame]

CleanJunk == \A f \in Frames : mapAddr[f] \in MemPages /\ ~dirty[f] => data[f] = Junk

(* No mapping covers memory, not even with the range munmap leaves behind. *)
SockClear == \A i \in Slots, p \in MemPages :
                sock[i].size <= p /\ ~InRange(i, p)

MemInv == /\ MarkedMain /\ OneFrame /\ DirtyReachable
          /\ WritableDirty /\ CleanJunk /\ SockClear

Inv == TypeOK /\ SectionSound /\ PteSound /\ MemInv

LEMMA MemPageFacts ==
    ASSUME NEW p \in MemPages
    PROVE  p \in Pages /\ p \in Nat /\ p # 0 /\ SectionOf(p) = MainSection
BY PagesAssumption DEF MemPages

-----------------------------------------------------------------------------
(* Memory as its owner sees it, in terms of the one frame of each page.    *)
AbsFacts ==
    /\ AbsMem = [p \in MemPages |-> AbsMem[p]]
    /\ \A p \in MemPages, f \in Frames : mapAddr[f] = p => AbsMem[p] = data[f]
    /\ \A p \in MemPages : (\A f \in Frames : mapAddr[f] # p) => AbsMem[p] = Junk

LEMMA AbsMemFacts == OneFrame /\ CleanJunk => AbsFacts
<1> SUFFICES ASSUME OneFrame, CleanJunk PROVE AbsFacts
  OBVIOUS
<1>1. ASSUME NEW p \in MemPages, NEW f \in Frames, mapAddr[f] = p
      PROVE  AbsMem[p] = data[f]
  <2>1. CASE dirty[f]
    <3>1. DirtyFrames(p) = {f}
      BY <1>1, <2>1 DEF DirtyFrames, OneFrame
    <3> QED BY <3>1 DEF AbsMem
  <2>2. CASE ~dirty[f]
    <3>1. DirtyFrames(p) = {}
      BY <1>1, <2>2 DEF DirtyFrames, OneFrame
    <3> QED BY <1>1, <2>2, <3>1 DEF AbsMem, CleanJunk
  <2> QED BY <2>1, <2>2
<1>2. ASSUME NEW p \in MemPages, \A f \in Frames : mapAddr[f] # p
      PROVE  AbsMem[p] = Junk
  BY <1>2 DEF AbsMem, DirtyFrames
<1>3. AbsMem = [p \in MemPages |-> AbsMem[p]]
  BY DEF AbsMem
<1> QED BY <1>1, <1>2, <1>3 DEF AbsFacts

LEMMA AbsMemKept ==
    AbsFacts /\ AbsFacts' /\ UNCHANGED <<mapAddr, data>> => AbsMem' = AbsMem
<1> SUFFICES ASSUME AbsFacts, AbsFacts', UNCHANGED <<mapAddr, data>>
             PROVE  AbsMem' = AbsMem
  OBVIOUS
<1>1. ASSUME NEW p \in MemPages PROVE AbsMem'[p] = AbsMem[p]
  <2>1. CASE \E f \in Frames : mapAddr[f] = p
    BY <2>1 DEF AbsFacts
  <2>2. CASE \A f \in Frames : mapAddr[f] # p
    BY <2>2 DEF AbsFacts
  <2> QED BY <2>1, <2>2
<1> QED BY <1>1 DEF AbsFacts

-----------------------------------------------------------------------------
(* Faults.                                                                 *)

(* get_new_page_frame never hands out a dirty frame of memory, and the     *)
(* write-back leaves the dirty bits of memory alone.                       *)
LEMMA NewFrameSparesMemory ==
    ASSUME TypeOK, MarkedMain, OneFrame, NEW p \in Pages, NEW f \in Frames,
           GetNewPageFrame(p, f)
    PROVE  /\ \A g \in Frames : mapAddr[g] \in MemPages => dirty'[g] = dirty[g]
           /\ mapAddr[f] \in MemPages => ~dirty[f]
           /\ \A g \in Frames : mapAddr[g] = p /\ p \in MemPages /\ g # f => dirty[g]
<1>1. \A g \in Frames : mapAddr[g] \in MemPages => CleanDirty[g] = dirty[g]
  BY DEF CleanDirty, CleanableFrames, MarkedMain, TypeOK
<1>2. \A g \in Frames : mapAddr[g] \in MemPages => dirty'[g] = dirty[g]
  BY <1>1 DEF GetNewPageFrame
<1>3. mapAddr[f] \in MemPages => ~dirty[f]
  BY DEF GetNewPageFrame, Resident, FirstOf, CleanFrames, ReclaimFrames, MarkedMain
<1>4. ASSUME NEW g \in Frames, mapAddr[g] = p, p \in MemPages, g # f PROVE dirty[g]
  <2>1. ~Resident(p, f)
    BY <1>4 DEF Resident, FirstMapping, OneFrame
  <2>2. ~Resident(p, g)
    BY <2>1 DEF GetNewPageFrame
  <2>3. FirstMapping(p, g)
    <3>1. \A h \in Frames : mapAddr[h] = p => h = g
      BY <1>4 DEF OneFrame
    <3> QED BY <1>4, <3>1 DEF FirstMapping, Frames
  <2> QED BY <2>2, <2>3 DEF Resident
<1> QED BY <1>2, <1>3, <1>4

LEMMA FaultKeepsMemory ==
    ASSUME Inv, NEW p \in Pages, NEW f \in Frames, NEW o \in Slots \cup {MainTag}, NEW d,
           Faults(p), GetNewPageFrame(p, f), SetNewPgf(p, f, o),
           data' = [data EXCEPT ![f] = d],
           p \in MemPages => o = MainTag /\ (d = Junk \/ (mapAddr[f] = p /\ d = data[f])),
           UNCHANGED sock
    PROVE  MemInv' /\ AbsMem' = AbsMem
<1> USE DEF Inv, MemInv
<1>1. /\ \A g \in Frames : mapAddr[g] \in MemPages => dirty'[g] = dirty[g]
      /\ mapAddr[f] \in MemPages => ~dirty[f] /\ data[f] = Junk
  BY NewFrameSparesMemory DEF CleanJunk
<1>2. p \in MemPages => \A g \in Frames : g # f => mapAddr[g] # p
  BY NewFrameSparesMemory DEF DirtyReachable, Faults
<1>3. /\ \A g \in Frames : mapAddr'[g] = IF g = f THEN p ELSE mapAddr[g]
      /\ \A g \in Frames : tag'[g] = IF g = f THEN o ELSE tag[g]
      /\ \A g \in Frames : data'[g] = IF g = f THEN d ELSE data[g]
  BY DEF SetNewPgf, TypeOK
<1>4. p \in MemPages => o = MainTag /\ d = Junk
  BY <1>1
<1>5. ASSUME NEW q \in MemPages, q # p, q # mapAddr[f] PROVE pte'[q] = pte[q]
  <2>1. NextTable \in Tables
    BY FramesAssumption DEF NextTable, Tables, TypeOK
  <2>2. q \notin Displaced(p)
    BY <2>1, MemPageFacts DEF Displaced, SectionSound
  <2>3. q \in Pages /\ q \notin Cleared(p, f)
    BY <1>5, <2>2, MemPageFacts DEF Cleared
  <2>4. \A x \in Pages : pte'[x] = IF x = p THEN [frame |-> f, rw |-> FALSE]
                                  ELSE IF x \in Cleared(p, f) THEN NoPte ELSE pte[x]
    BY DEF SetNewPgf
  <2> QED BY <1>5, <2>3, <2>4
<1>6. pte'[p] = [frame |-> f, rw |-> FALSE] /\ pte'[p] # NoPte
  <2>1. [frame |-> f, rw |-> FALSE] # NoPte
    <3>1. [frame |-> f, rw |-> FALSE] \in [frame : Frames, rw : BOOLEAN]
      OBVIOUS
    <3> QED BY <3>1, MarkerAssumption, Zenon
  <2>2. pte'[p] = [frame |-> f, rw |-> FALSE]
    BY DEF SetNewPgf
  <2> QED BY <2>1, <2>2
<1>7. \A q \in MemPages : q # p /\ q = mapAddr[f] => pte'[q] = NoPte
  BY MemPageFacts DEF SetNewPgf, Cleared
<1>8. MarkedMain'
  BY <1>3, <1>4 DEF MarkedMain
<1>9. OneFrame'
  BY <1>2, <1>3 DEF OneFrame
<1>10. DirtyReachable'
  <2> SUFFICES ASSUME NEW g \in Frames, mapAddr'[g] \in MemPages, dirty'[g]
               PROVE  pte'[mapAddr'[g]] # NoPte
    BY DEF DirtyReachable
  <2>1. CASE g = f
    BY <2>1, <1>3, <1>6
  <2>2. CASE g # f
    <3>1. mapAddr[g] \in MemPages /\ mapAddr'[g] = mapAddr[g] /\ dirty[g]
      BY <2>2, <1>1, <1>3
    <3>2. mapAddr[g] # mapAddr[f] /\ mapAddr[g] # p
      BY <2>2, <3>1, <1>2 DEF OneFrame
    <3> QED BY <3>1, <3>2, <1>5 DEF DirtyReachable
  <2> QED BY <2>1, <2>2
<1>11. WritableDirty'
  <2> SUFFICES ASSUME NEW q \in MemPages, pte'[q] # NoPte, pte'[q].rw
               PROVE  dirty'[pte'[q].frame]
    BY DEF WritableDirty
  <2>1. q # p
    BY <1>6
  <2>2. pte'[q] = pte[q]
    BY <2>1, <1>5, <1>7
  <2>3. pte[q].frame \in Frames /\ mapAddr[pte[q].frame] = q
    BY <2>2, MemPageFacts DEF PteSound, TypeOK, Pte
  <2> QED BY <2>2, <2>3, <1>1 DEF WritableDirty
<1>12. CleanJunk'
  <2> SUFFICES ASSUME NEW g \in Frames, mapAddr'[g] \in MemPages, ~dirty'[g]
               PROVE  data'[g] = Junk
    BY DEF CleanJunk
  <2>1. CASE g = f
    BY <2>1, <1>3, <1>4
  <2>2. CASE g # f
    BY <2>2, <1>1, <1>3 DEF CleanJunk
  <2> QED BY <2>1, <2>2
<1>13. SockClear'
  BY DEF SockClear, InRange
<1>14. AbsFacts /\ AbsFacts'
  <2>1. (OneFrame /\ CleanJunk => AbsFacts)'
    BY AbsMemFacts, PTL
  <2> QED BY <2>1, <1>9, <1>12, AbsMemFacts
<1>15. ASSUME NEW q \in MemPages PROVE AbsMem'[q] = AbsMem[q]
  <2>1. CASE q = p
    <3>1. AbsMem'[q] = Junk
      BY <2>1, <1>3, <1>4, <1>14 DEF AbsFacts
    <3>2. CASE mapAddr[f] = p
      BY <2>1, <3>1, <3>2, <1>1, <1>14 DEF AbsFacts
    <3>3. CASE mapAddr[f] # p
      BY <2>1, <3>1, <3>3, <1>2, <1>14 DEF AbsFacts
    <3> QED BY <3>2, <3>3
  <2>2. CASE q # p /\ q = mapAddr[f]
    <3>1. \A g \in Frames : mapAddr'[g] # q
      BY <2>2, <1>3 DEF OneFrame
    <3> QED BY <2>2, <3>1, <1>1, <1>14 DEF AbsFacts
  <2>3. CASE q # p /\ \E g \in Frames : g # f /\ q = mapAddr[g]
    BY <2>3, <1>3, <1>14 DEF AbsFacts
  <2>4. CASE q # p /\ \A g \in Frames : mapAddr[g] # q
    BY <2>4, <1>3, <1>14 DEF AbsFacts
  <2> QED BY <2>1, <2>2, <2>3, <2>4
<1> QED BY <1>8, <1>9, <1>10, <1>11, <1>12, <1>13, <1>14, <1>15 DEF AbsFacts

LEMMA TranslationKeepsMemory ==
    ASSUME Inv, NEW p \in Pages, TranslationFault(p)
    PROVE  MemInv' /\ AbsMem' = AbsMem
<1>1. ASSUME NEW i \in Slots, Serves(i, p) PROVE p \notin MemPages
  BY <1>1 DEF Serves, Inv, MemInv, SockClear
<1>2. CASE MemoryFault(p)
  <2>1. PICK f \in Frames : /\ GetNewPageFrame(p, f)
                            /\ SetNewPgf(p, f, MainTag)
                            /\ data' = [data EXCEPT ![f] = IF mapAddr[f] = p THEN @ ELSE Junk]
    BY <1>2 DEF MemoryFault, LoadMemory
  <2> DEFINE d == IF mapAddr[f] = p THEN data[f] ELSE Junk
  <2>2. data' = [data EXCEPT ![f] = d] /\ (d = Junk \/ (mapAddr[f] = p /\ d = data[f]))
    BY <2>1
  <2>3. Faults(p) /\ UNCHANGED sock
    BY <1>2 DEF MemoryFault, LoadMemory
  <2> HIDE DEF d
  <2> QED BY <2>1, <2>2, <2>3, FaultKeepsMemory
<1>3. CASE FileFault(p)
  <2>1. PICK i \in Slots, f \in Frames :
           /\ Serves(i, p)
           /\ GetNewPageFrame(p, f)
           /\ SetNewPgf(p, f, i)
           /\ data' = [data EXCEPT ![f] = ReadPage(disk', i, p)]
    BY <1>3 DEF FileFault, LoadFile
  <2>2. Faults(p) /\ UNCHANGED sock /\ p \notin MemPages
    BY <1>1, <1>3, <2>1 DEF FileFault, LoadFile
  <2> QED BY <2>1, <2>2, FaultKeepsMemory
<1>4. CASE SideloadFault(p)
  <2>1. PICK i \in Slots, f \in Frames :
           /\ Serves(i, p)
           /\ GetNewPageFrame(p, f)
           /\ SetNewPgf(p, f, i)
           /\ data' = [data EXCEPT ![f] = IF mapAddr[f] = p THEN @ ELSE Junk]
    BY <1>4 DEF SideloadFault, LoadSideload
  <2> DEFINE d == IF mapAddr[f] = p THEN data[f] ELSE Junk
  <2>2. data' = [data EXCEPT ![f] = d]
    BY <2>1
  <2>3. Faults(p) /\ UNCHANGED sock /\ p \notin MemPages
    BY <1>1, <1>4, <2>1 DEF SideloadFault, LoadSideload
  <2> HIDE DEF d
  <2> QED BY <2>1, <2>2, <2>3, FaultKeepsMemory
<1>5. CASE NoFreePage(p)
  BY <1>5 DEF NoFreePage, frameVars, tableVars, Inv, MemInv, MarkedMain, OneFrame,
              DirtyReachable, WritableDirty, CleanJunk, SockClear, InRange, AbsMem, DirtyFrames
<1> QED BY <1>2, <1>3, <1>4, <1>5 DEF TranslationFault

-----------------------------------------------------------------------------
(* The other operations.                                                   *)

LEMMA PermissionKeepsMemory ==
    ASSUME Inv, NEW p \in Pages, NEW mode \in {"user", "sys"}, PermissionFault(p, mode)
    PROVE  MemInv' /\ AbsMem' = AbsMem
<1> USE DEF Inv, MemInv
<1>1. /\ pte[p] \in Pte /\ pte' = [pte EXCEPT ![p].rw = TRUE]
      /\ UNCHANGED <<mapAddr, tag, data, sock>>
  BY DEF PermissionFault, TypeOK
<1>2. /\ pte'[p] = [frame |-> pte[p].frame, rw |-> TRUE]
      /\ \A q \in Pages : q # p => pte'[q] = pte[q]
      /\ pte[p].frame \in Frames
  BY <1>1 DEF TypeOK, Pte
<1>3. \A q \in Pages : pte[q] # NoPte => pte'[q] # NoPte
  <2>1. pte'[p] \in [frame : Frames, rw : BOOLEAN]
    BY <1>2
  <2>2. pte'[p] # NoPte
    BY <2>1, MarkerAssumption, Zenon
  <2> QED BY <1>2, <2>2
<1>4. /\ \A g \in Frames : dirty'[g] = (dirty[g] \/ g \in DirtiedFrames(p))
      /\ \A g \in DirtiedFrames(p) : mapAddr[g] = p
  BY DEF PermissionFault, DirtiedFrames, FirstMapping
<1>5. pte[p] # NoPte /\ mapAddr[pte[p].frame] = p
  BY DEF PermissionFault, PteSound
<1>6. MarkedMain' /\ OneFrame' /\ SockClear'
  BY <1>1 DEF MarkedMain, OneFrame, SockClear, InRange
<1>7. DirtyReachable'
  <2> SUFFICES ASSUME NEW g \in Frames, mapAddr[g] \in MemPages, dirty'[g]
               PROVE  pte'[mapAddr[g]] # NoPte
    BY <1>1 DEF DirtyReachable
  <2>1. pte[mapAddr[g]] # NoPte
    BY <1>4, <1>5 DEF DirtyReachable
  <2> QED BY <2>1, <1>3, MemPageFacts
<1>8. WritableDirty'
  <2> SUFFICES ASSUME NEW q \in MemPages, pte'[q] # NoPte, pte'[q].rw
               PROVE  dirty'[pte'[q].frame]
    BY DEF WritableDirty
  <2>1. CASE q = p
    <3>1. \A g \in Frames : mapAddr[g] = p => g = pte[p].frame
      BY <1>2, <1>5, <2>1 DEF OneFrame
    <3>2. pte[p].frame \in DirtiedFrames(p)
      <4>1. \A g \in Frames : g <= g
        BY DEF Frames
      <4> QED BY <1>2, <1>5, <3>1, <4>1 DEF FirstMapping, DirtiedFrames
    <3>3. dirty'[pte[p].frame]
      BY <1>2, <1>4, <3>2
    <3>4. pte'[q].frame = pte[p].frame
      BY <1>2, <2>1
    <3> QED BY <3>3, <3>4
  <2>2. CASE q # p
    <3>1. pte'[q] = pte[q] /\ pte[q].frame \in Frames
      BY <1>2, <2>2, MemPageFacts DEF TypeOK, Pte
    <3> QED BY <1>4, <3>1 DEF WritableDirty
  <2> QED BY <2>1, <2>2
<1>9. CleanJunk'
  BY <1>1, <1>4 DEF CleanJunk
<1>10. (OneFrame /\ CleanJunk => AbsFacts)'
  BY AbsMemFacts, PTL
<1>11. AbsFacts
  BY AbsMemFacts
<1>12. UNCHANGED <<mapAddr, data>>
  BY <1>1
<1>13. AbsMem' = AbsMem
  BY <1>6, <1>9, <1>10, <1>11, <1>12, AbsMemKept
<1> QED BY <1>6, <1>7, <1>8, <1>9, <1>13

LEMMA StoreHitsItsPage ==
    ASSUME Inv, NEW p \in Pages, NEW v \in Values, Store(p, v)
    PROVE  /\ MemInv'
           /\ p \notin MemPages => AbsMem' = AbsMem
           /\ p \in MemPages => AbsMem' = [AbsMem EXCEPT ![p] = <<v>>]
<1> USE DEF Inv, MemInv
<1> DEFINE f == pte[p].frame
<1>1. f \in Frames /\ mapAddr[f] = p /\ pte[p] # NoPte /\ pte[p].rw
  BY DEF Store, TypeOK, Pte, PteSound
<1>2. /\ UNCHANGED <<mapAddr, tag, dirty, pte, sock>>
      /\ \A g \in Frames : data'[g] = IF g = f THEN <<v>> ELSE data[g]
  BY <1>1 DEF Store, tableVars, TypeOK
<1> HIDE DEF f
<1>3. p \in MemPages => dirty[f]
  BY <1>1 DEF WritableDirty, f
<1>4. MarkedMain' /\ OneFrame' /\ SockClear' /\ DirtyReachable' /\ WritableDirty'
  BY <1>2 DEF MarkedMain, OneFrame, SockClear, InRange, DirtyReachable, WritableDirty
<1>5. CleanJunk'
  BY <1>1, <1>2, <1>3 DEF CleanJunk
<1>6. (OneFrame /\ CleanJunk => AbsFacts)'
  BY AbsMemFacts, PTL
<1>7. AbsFacts /\ AbsFacts'
  BY <1>4, <1>5, <1>6, AbsMemFacts
<1>8. ASSUME NEW q \in MemPages, q # p PROVE AbsMem'[q] = AbsMem[q]
  <2>1. CASE \E g \in Frames : mapAddr[g] = q
    BY <1>1, <1>2, <1>7, <1>8, <2>1 DEF AbsFacts
  <2>2. CASE \A g \in Frames : mapAddr[g] # q
    BY <1>2, <1>7, <2>2 DEF AbsFacts
  <2> QED BY <2>1, <2>2
<1>9. p \in MemPages => AbsMem'[p] = <<v>>
  BY <1>1, <1>2, <1>7 DEF AbsFacts
<1>10. p \notin MemPages => AbsMem' = AbsMem
  BY <1>7, <1>8 DEF AbsFacts
<1>11. p \in MemPages => AbsMem' = [AbsMem EXCEPT ![p] = <<v>>]
  BY <1>7, <1>8, <1>9 DEF AbsFacts
<1> QED BY <1>4, <1>5, <1>10, <1>11

LEMMA TrimForgetsItsPage ==
    ASSUME Inv, NEW p \in MemPages, TrimPage(p)
    PROVE  MemInv' /\ AbsMem' = [AbsMem EXCEPT ![p] = Junk]
<1> USE DEF Inv, MemInv
<1>1. PICK f \in Frames : /\ mapAddr[f] = p
                          /\ mapAddr' = [mapAddr EXCEPT ![f] = 0]
                          /\ dirty' = [dirty EXCEPT ![f] = FALSE]
                          /\ data' = [data EXCEPT ![f] = Junk]
  BY DEF TrimPage, FirstMapping
<1>2. /\ \A g \in Frames : mapAddr'[g] = IF g = f THEN 0 ELSE mapAddr[g]
      /\ \A g \in Frames : g # f => dirty'[g] = dirty[g] /\ data'[g] = data[g]
      /\ UNCHANGED <<tag, sock>>
  BY <1>1 DEF TrimPage, TypeOK
<1>3. /\ pte'[p] = NoPte
      /\ \A q \in Pages : q # p => pte'[q] = pte[q]
  BY MemPageFacts DEF TrimPage, TypeOK
<1>4. \A g \in Frames : mapAddr'[g] \in MemPages => g # f /\ mapAddr[g] = mapAddr'[g]
  BY <1>2, MemPageFacts
<1>5. \A g \in Frames : g # f => mapAddr[g] # p
  BY <1>1 DEF OneFrame
<1>6. MarkedMain' /\ OneFrame' /\ SockClear'
  BY <1>2, <1>4 DEF MarkedMain, OneFrame, SockClear, InRange
<1>7. DirtyReachable'
  BY <1>2, <1>3, <1>4, <1>5, MemPageFacts DEF DirtyReachable
<1>8. WritableDirty'
  <2> SUFFICES ASSUME NEW q \in MemPages, pte'[q] # NoPte, pte'[q].rw
               PROVE  dirty'[pte'[q].frame]
    BY DEF WritableDirty
  <2>1. q # p /\ pte'[q] = pte[q]
    BY <1>3, MemPageFacts
  <2>2. pte[q].frame \in Frames /\ mapAddr[pte[q].frame] = q
    BY <2>1, MemPageFacts DEF PteSound, TypeOK, Pte
  <2>3. pte[q].frame # f
    BY <1>1, <2>1, <2>2
  <2> QED BY <1>2, <2>1, <2>2, <2>3 DEF WritableDirty
<1>9. CleanJunk'
  BY <1>2, <1>4 DEF CleanJunk
<1>10. (OneFrame /\ CleanJunk => AbsFacts)'
  BY AbsMemFacts, PTL
<1>11. AbsFacts /\ AbsFacts'
  BY <1>6, <1>9, <1>10, AbsMemFacts
<1>12. ASSUME NEW q \in MemPages, q # p PROVE AbsMem'[q] = AbsMem[q]
  <2>1. CASE \E g \in Frames : mapAddr[g] = q
    BY <1>1, <1>2, <1>11, <1>12, <2>1 DEF AbsFacts
  <2>2. CASE \A g \in Frames : mapAddr[g] # q
    BY <1>2, <1>11, <2>2, MemPageFacts DEF AbsFacts
  <2> QED BY <2>1, <2>2
<1>13. AbsMem'[p] = Junk
  BY <1>2, <1>5, <1>11, MemPageFacts DEF AbsFacts
<1> QED BY <1>6, <1>7, <1>8, <1>9, <1>11, <1>12, <1>13 DEF AbsFacts

LEMMA WarpForgetsLentPages ==
    ASSUME Inv, NEW v \in Nat, NEW n \in Nat, SetAppMemWarp(v, n)
    PROVE  /\ MemInv'
           /\ \A p \in MemPages : AbsMem'[p] = IF p \in v .. v + n - 1 THEN Junk ELSE AbsMem[p]
           /\ AbsMem' = [p \in MemPages |-> AbsMem'[p]]
<1> USE DEF Inv, MemInv
<1> DEFINE S == Purged(v, n)
<1>1. /\ \A g \in Frames : mapAddr'[g] = IF g \in S THEN 0 ELSE mapAddr[g]
      /\ \A g \in Frames : dirty'[g] = (dirty[g] /\ g \notin S)
      /\ \A g \in Frames : data'[g] = IF g \in S THEN Junk ELSE data[g]
      /\ \A q \in Pages : pte'[q] = IF \E f \in S : mapAddr[f] = q THEN NoPte ELSE pte[q]
      /\ UNCHANGED <<tag, sock>>
  BY DEF SetAppMemWarp
<1>2. S = {g \in Frames : dirty[g] /\ v <= mapAddr[g] /\ mapAddr[g] < v + n}
  BY DEF Purged
<1> HIDE DEF S
<1>3. \A g \in Frames : mapAddr'[g] \in MemPages => g \notin S /\ mapAddr[g] = mapAddr'[g]
  BY <1>1, MemPageFacts
<1>4. MarkedMain' /\ OneFrame' /\ SockClear'
  BY <1>1, <1>3 DEF MarkedMain, OneFrame, SockClear, InRange
<1>5. ASSUME NEW g \in Frames, g \notin S, mapAddr[g] \in MemPages
      PROVE  pte'[mapAddr[g]] = pte[mapAddr[g]]
  <2>1. \A f \in S : mapAddr[f] # mapAddr[g]
    BY <1>2, <1>5 DEF OneFrame
  <2> QED BY <1>1, <1>5, <2>1, MemPageFacts
<1>6. DirtyReachable'
  <2> SUFFICES ASSUME NEW g \in Frames, mapAddr'[g] \in MemPages, dirty'[g]
               PROVE  pte'[mapAddr'[g]] # NoPte
    BY DEF DirtyReachable
  <2>1. dirty[g] /\ g \notin S /\ mapAddr'[g] = mapAddr[g]
    BY <1>1, <1>3
  <2>2. pte[mapAddr[g]] # NoPte
    BY <2>1 DEF DirtyReachable
  <2> QED BY <1>5, <2>1, <2>2
<1>7. WritableDirty'
  <2> SUFFICES ASSUME NEW q \in MemPages, pte'[q] # NoPte, pte'[q].rw
               PROVE  dirty'[pte'[q].frame]
    BY DEF WritableDirty
  <2>1. pte'[q] = pte[q] /\ \A f \in S : mapAddr[f] # q
    BY <1>1, MemPageFacts
  <2>2. pte[q].frame \in Frames /\ mapAddr[pte[q].frame] = q
    BY <2>1, MemPageFacts DEF PteSound, TypeOK, Pte
  <2>3. pte[q].frame \notin S
    BY <2>1, <2>2
  <2> QED BY <1>1, <2>1, <2>2, <2>3 DEF WritableDirty
<1>8. CleanJunk'
  BY <1>1, <1>3 DEF CleanJunk
<1>9. (OneFrame /\ CleanJunk => AbsFacts)'
  BY AbsMemFacts, PTL
<1>10. AbsFacts /\ AbsFacts'
  BY <1>4, <1>8, <1>9, AbsMemFacts
<1>11. ASSUME NEW p \in MemPages
       PROVE  AbsMem'[p] = IF p \in v .. v + n - 1 THEN Junk ELSE AbsMem[p]
  <2>1. CASE \E g \in Frames : mapAddr[g] = p /\ g \notin S
    <3>1. PICK g \in Frames : mapAddr[g] = p /\ g \notin S
      BY <2>1
    <3>2. AbsMem'[p] = data[g] /\ AbsMem[p] = data[g]
      BY <1>1, <1>10, <3>1 DEF AbsFacts
    <3>3. p \in v .. v + n - 1 => ~dirty[g]
      BY <1>2, <3>1, MemPageFacts
    <3>4. p \in v .. v + n - 1 => data[g] = Junk
      BY <3>1, <3>3 DEF CleanJunk
    <3> QED BY <3>2, <3>4
  <2>2. CASE \E g \in Frames : mapAddr[g] = p /\ g \in S
    <3>1. PICK g \in Frames : mapAddr[g] = p /\ g \in S
      BY <2>2
    <3>2. \A h \in Frames : mapAddr[h] = p => h = g
      BY <3>1 DEF OneFrame
    <3>3. \A h \in Frames : mapAddr'[h] # p
      BY <1>3, <3>1, <3>2
    <3>4. AbsMem'[p] = Junk
      BY <1>10, <3>3 DEF AbsFacts
    <3>5. p \in v .. v + n - 1
      BY <1>2, <3>1, MemPageFacts
    <3> QED BY <3>4, <3>5
  <2>3. CASE \A g \in Frames : mapAddr[g] # p
    <3>1. \A g \in Frames : mapAddr'[g] # p
      BY <1>3, <2>3
    <3> QED BY <1>10, <2>3, <3>1 DEF AbsFacts
  <2> QED BY <2>1, <2>2, <2>3
<1>12. AbsMem' = [p \in MemPages |-> AbsMem'[p]]
  BY <1>10 DEF AbsFacts
<1> QED BY <1>4, <1>6, <1>7, <1>8, <1>11, <1>12

LEMMA NewMappingClear ==
    ASSUME Inv, NEW r \in MapRequests, Mmap(r)
    PROVE  SockClear'
<1> USE DEF Inv, MemInv
<1>1. r \in Requests /\ r \in RequestType
  BY RequestFacts DEF Requests
<1>2. ASSUME NEW h PROVE \/ MapSize(r, h) \in {r.size} \cup {FilePages[g] : g \in Paths}
                         \/ MapSize(r, h) = 0
  <2>1. r.size = 0 => r.offset = 0
    BY <1>1, RequestAssumption
  <2>2. SizeOf(h) = 0 \/ (h \in Paths /\ SizeOf(h) = FilePages[h])
    BY DEF SizeOf
  <2>3. SizeOf(h) \in Nat
    BY <2>2, RequestAssumption
  <2>4. MapSize(r, h) = r.size \/ MapSize(r, h) = SizeOf(h)
    BY <1>1, <2>1, <2>3 DEF MapSize, RequestType
  <2> QED BY <2>2, <2>4
<1>3. ASSUME NEW n, n \in {r.size} \cup {FilePages[g] : g \in Paths} \/ n = 0,
             NEW p \in MemPages
      PROVE  n <= p /\ (p < r.to \/ r.to + n <= p)
  <2>1. p \in Nat /\ r.to \in Nat
    BY <1>1, MemPageFacts DEF RequestType
  <2>2. CASE n = 0
    BY <2>1, <2>2
  <2>3. CASE n \in {r.size} \cup {FilePages[g] : g \in Paths}
    BY <1>1, <2>3, RequestAssumption
  <2> QED BY <1>3, <2>2, <2>3
<1> DEFINE Size(n) == n \in {r.size} \cup {FilePages[g] : g \in Paths} \/ n = 0
<1>4. PICK i \in Slots : \E h, n : sock' = [sock EXCEPT ![i] = Filled(r, h, n)] /\ Size(n)
  <2>1. PICK i \in Slots :
           \/ sock' = [sock EXCEPT ![i] = Filled(r, NoFile, r.size)]
           \/ \E k \in Slots : sock' = [sock EXCEPT ![i] =
                                  Filled(r, sock[k].file, MapSize(r, sock[k].file))]
           \/ sock' = [sock EXCEPT ![i] = Filled(r, r.path, MapSize(r, r.path))]
    BY DEF Mmap
  <2> QED BY <1>2, <2>1
<1>5. PICK n : /\ Size(n)
               /\ sock'[i].mapTo = r.to /\ sock'[i].size = n
               /\ \A j \in Slots : j # i => sock'[j] = sock[j]
  BY <1>4 DEF Filled, TypeOK
<1>6. ASSUME NEW j \in Slots, NEW p \in MemPages
      PROVE  sock'[j].size <= p /\ ~(sock'[j].mapTo <= p /\ p < sock'[j].mapTo + sock'[j].size)
  <2>1. CASE j = i
    <3>1. n <= p /\ (p < r.to \/ r.to + n <= p)
      BY <1>3, <1>5
    <3>2. r.to \in Nat /\ n \in Nat /\ p \in Nat
      BY <1>1, <1>5, MemPageFacts, RequestAssumption DEF RequestType
    <3> QED BY <1>5, <2>1, <3>1, <3>2
  <2>2. CASE j # i
    BY <1>5, <2>2 DEF SockClear, InRange
  <2> QED BY <2>1, <2>2
<1> QED BY <1>6 DEF SockClear, InRange

LEMMA MmapKeepsMemory ==
    ASSUME Inv, NEW r \in MapRequests, Mmap(r)
    PROVE  MemInv' /\ AbsMem' = AbsMem
<1> USE DEF Inv, MemInv
<1>1. UNCHANGED <<mapAddr, tag, dirty, data>>
  BY DEF Mmap, frameVars
<1>2. \A q \in MemPages : pte'[q] = pte[q]
  <2>1. PICK i \in Slots : pte' = WipeTable(i + 1)
    BY DEF Mmap
  <2>2. i + 1 \in Tables
    BY FramesAssumption DEF Slots, Tables
  <2>3. loc[i + 1] # MainSection
    BY <2>2 DEF SectionSound
  <2> QED BY <2>1, <2>3, MemPageFacts DEF WipeTable
<1>3. MarkedMain' /\ OneFrame' /\ DirtyReachable' /\ WritableDirty' /\ CleanJunk'
  BY <1>1, <1>2 DEF MarkedMain, OneFrame, DirtyReachable, WritableDirty, CleanJunk
<1>4. AbsMem' = AbsMem
  BY <1>1 DEF AbsMem, DirtyFrames
<1> QED BY <1>3, <1>4, NewMappingClear

LEMMA MmapFailureKeepsMemory ==
    ASSUME Inv, NEW r \in MapRequests, MmapOpenFails(r)
    PROVE  MemInv' /\ AbsMem' = AbsMem
<1> USE DEF Inv, MemInv
<1>1. UNCHANGED <<mapAddr, tag, dirty, data, pte>>
  BY DEF MmapOpenFails, frameVars, tableVars
<1>2. PICK i \in Slots :
         sock' = [sock EXCEPT ![i] = [Filled(r, NoFile, sock[i].size)
                                      EXCEPT !.mapTo = 0, !.path = NoPath]]
  BY DEF MmapOpenFails
<1>3. /\ sock'[i].mapTo = 0 /\ sock'[i].size = sock[i].size
      /\ \A j \in Slots : j # i => sock'[j] = sock[j]
  BY <1>2 DEF Filled, TypeOK
<1>4. ASSUME NEW j \in Slots, NEW p \in MemPages
      PROVE  sock'[j].size <= p /\ ~(sock'[j].mapTo <= p /\ p < sock'[j].mapTo + sock'[j].size)
  <2>1. CASE j = i
    <3>1. sock[i].size <= p /\ sock[i].size \in Nat /\ p \in Nat
      BY MemPageFacts DEF SockClear, TypeOK, Sock
    <3> QED BY <1>3, <2>1, <3>1
  <2>2. CASE j # i
    BY <1>3, <2>2 DEF SockClear, InRange
  <2> QED BY <2>1, <2>2
<1>5. SockClear'
  BY <1>4 DEF SockClear, InRange
<1>6. MarkedMain' /\ OneFrame' /\ DirtyReachable' /\ WritableDirty' /\ CleanJunk'
  BY <1>1 DEF MarkedMain, OneFrame, DirtyReachable, WritableDirty, CleanJunk
<1> QED BY <1>1, <1>5, <1>6 DEF AbsMem, DirtyFrames

LEMMA MunmapKeepsMemory ==
    ASSUME Inv, NEW i \in Slots, Munmap(i)
    PROVE  MemInv' /\ AbsMem' = AbsMem
<1> USE DEF Inv, MemInv
<1>1. ASSUME NEW g \in Frames, mapAddr[g] \in MemPages PROVE g \notin TaggedFrames(i)
  <2>1. i # MainTag
    BY FramesAssumption DEF Slots, MainTag
  <2> QED BY <1>1, <2>1 DEF TaggedFrames, MarkedMain
<1>2. /\ \A g \in Frames : mapAddr'[g] = IF g \in TaggedFrames(i) THEN 0 ELSE mapAddr[g]
      /\ UNCHANGED <<tag, data>>
      /\ dirty' = CleanDirty
  BY DEF Munmap
<1>3. \A g \in Frames : mapAddr'[g] \in MemPages => mapAddr'[g] = mapAddr[g]
  BY <1>2, MemPageFacts
<1>4. \A g \in Frames : mapAddr[g] \in MemPages => mapAddr'[g] = mapAddr[g] /\ dirty'[g] = dirty[g]
  <2>1. \A g \in Frames : mapAddr[g] \in MemPages => CleanDirty[g] = dirty[g]
    BY DEF CleanDirty, CleanableFrames, MarkedMain, TypeOK
  <2> QED BY <1>1, <1>2, <2>1
<1>5. \A q \in MemPages : pte'[q] = pte[q]
  <2> TAKE q \in MemPages
  <2>1. ~\E f \in TaggedFrames(i) : mapAddr[f] = q
    BY <1>1 DEF TaggedFrames
  <2> QED BY <2>1, MemPageFacts DEF Munmap
<1>6. MarkedMain' /\ OneFrame' /\ DirtyReachable' /\ CleanJunk'
  BY <1>2, <1>3, <1>4, <1>5 DEF MarkedMain, OneFrame, DirtyReachable, CleanJunk
<1>7. WritableDirty'
  <2> SUFFICES ASSUME NEW q \in MemPages, pte'[q] # NoPte, pte'[q].rw
               PROVE  dirty'[pte'[q].frame]
    BY DEF WritableDirty
  <2>1. pte'[q] = pte[q] /\ pte[q].frame \in Frames /\ mapAddr[pte[q].frame] = q
    BY <1>5, MemPageFacts DEF PteSound, TypeOK, Pte
  <2> QED BY <1>4, <2>1 DEF WritableDirty
<1>8. SockClear'
  <2> SUFFICES ASSUME NEW k \in Slots, NEW p \in MemPages
               PROVE  /\ sock'[k].size <= p
                      /\ ~(sock'[k].mapTo <= p /\ p < sock'[k].mapTo + sock'[k].size)
    BY DEF SockClear, InRange
  <2>1. sock[k] \in Sock
    BY DEF TypeOK
  <2>2. sock'[k].size = sock[k].size /\ (sock'[k].mapTo = sock[k].mapTo \/ sock'[k].mapTo = 0)
    BY <2>1 DEF Munmap, Closed, Sock
  <2>3. sock[k].size \in Nat /\ p \in Nat /\ sock[k].size <= p
    BY <2>1, MemPageFacts DEF Sock, SockClear
  <2> QED BY <2>2, <2>3 DEF SockClear, InRange
<1>9. AbsMem' = AbsMem
  <2>1. (OneFrame /\ CleanJunk => AbsFacts)'
    BY AbsMemFacts, PTL
  <2>2. AbsFacts /\ AbsFacts'
    BY <1>6, <2>1, AbsMemFacts
  <2>3. ASSUME NEW p \in MemPages PROVE AbsMem'[p] = AbsMem[p]
    <3>1. CASE \E g \in Frames : mapAddr[g] = p
      BY <1>2, <1>4, <2>2, <3>1 DEF AbsFacts
    <3>2. CASE \A g \in Frames : mapAddr[g] # p
      BY <1>3, <2>2, <3>2 DEF AbsFacts
    <3> QED BY <3>1, <3>2
  <2> QED BY <2>2, <2>3 DEF AbsFacts
<1> QED BY <1>6, <1>7, <1>8, <1>9

-----------------------------------------------------------------------------
(* The theorems.                                                           *)

LEMMA InitMemory == Init => MemInv
<1> SUFFICES ASSUME Init PROVE MemInv
  OBVIOUS
<1>1. \A f \in Frames : mapAddr[f] \notin MemPages
  BY MemPageFacts DEF Init
<1>2. MarkedMain /\ OneFrame /\ DirtyReachable /\ CleanJunk
  BY <1>1 DEF MarkedMain, OneFrame, DirtyReachable, CleanJunk
<1>3. WritableDirty
  BY MemPageFacts DEF Init, WritableDirty
<1>4. BootMap \in Requests /\ BootMap \in RequestType /\ BootMap.path \in Paths
  BY RequestFacts DEF Requests, RequestType
<1> DEFINE n == MapSize(BootMap, BootMap.path)
<1>5. n \in {BootMap.size} \cup {FilePages[g] : g \in Paths} /\ n \in Nat
  <2>1. BootMap.size = 0 => BootMap.offset = 0
    BY <1>4, RequestAssumption
  <2>2. SizeOf(BootMap.path) = FilePages[BootMap.path] /\ FilePages[BootMap.path] \in Nat
    BY <1>4, RequestAssumption DEF SizeOf
  <2>3. n = BootMap.size \/ n = FilePages[BootMap.path]
    BY <1>4, <2>1, <2>2 DEF MapSize, RequestType
  <2> QED BY <1>4, <2>2, <2>3 DEF RequestType
<1> HIDE DEF n
<1>6. SockClear
  <2> SUFFICES ASSUME NEW i \in Slots, NEW p \in MemPages
               PROVE  sock[i].size <= p /\ ~(sock[i].mapTo <= p /\ p < sock[i].mapTo + sock[i].size)
    BY DEF SockClear, InRange
  <2>1. CASE i = 0
    <3>1. sock[i].size = n /\ sock[i].mapTo = BootMap.to
      BY <2>1 DEF Init, Filled, n
    <3>2. n <= p /\ (p < BootMap.to \/ BootMap.to + n <= p)
      BY <1>4, <1>5, RequestAssumption
    <3> QED BY <1>4, <1>5, <3>1, <3>2, MemPageFacts DEF RequestType
  <2>2. CASE i # 0
    <3>1. sock[i].size = 0 /\ sock[i].mapTo = 0
      BY <2>2 DEF Init
    <3> QED BY <3>1, MemPageFacts
  <2> QED BY <2>1, <2>2
<1> QED BY <1>2, <1>3, <1>6 DEF MemInv

(* One case per action: memory stays coherent, and changes only as its     *)
(* owner asks.                                                             *)
LEMMA MemoryStep ==
    ASSUME Inv, [Next]_vars
    PROVE  MemInv' /\ OwnerStep
<1>1. ASSUME NEW p \in Pages, TranslationFault(p) PROVE MemInv' /\ OwnerStep
  BY <1>1, TranslationKeepsMemory DEF OwnerStep
<1>2. ASSUME NEW p \in Pages, NEW mode \in {"user", "sys"}, PermissionFault(p, mode)
      PROVE  MemInv' /\ OwnerStep
  BY <1>2, PermissionKeepsMemory DEF OwnerStep
<1>3. ASSUME NEW p \in Pages, NEW v \in Values, Store(p, v) PROVE MemInv' /\ OwnerStep
  BY <1>3, StoreHitsItsPage DEF OwnerStep
<1>4. ASSUME NEW p \in MemPages, TrimPage(p) PROVE MemInv' /\ OwnerStep
  BY <1>4, TrimForgetsItsPage DEF OwnerStep
<1>5. ASSUME NEW r \in LockRequests, LockVaddr(r[1], r[2]) PROVE MemInv' /\ OwnerStep
  BY <1>5 DEF LockVaddr, tableVars, Inv, MemInv, MarkedMain, OneFrame, DirtyReachable,
              WritableDirty, CleanJunk, SockClear, InRange, AbsMem, DirtyFrames, OwnerStep
<1>6. ASSUME NEW w \in WarpRequests, SetAppMemWarp(w[1], w[2]) PROVE MemInv' /\ OwnerStep
  <2>1. w[1] \in Nat /\ w[2] \in Nat
    BY RequestAssumption, PagesAssumption
  <2>2. MemInv' /\ \A p \in MemPages \ (w[1] .. w[1] + w[2] - 1) : AbsMem'[p] = AbsMem[p]
    BY <1>6, <2>1, WarpForgetsLentPages
  <2> QED BY <1>6, <2>2 DEF OwnerStep
<1>7. CASE ResetAppMemWarp
  BY <1>7 DEF ResetAppMemWarp, frameVars, tableVars, Inv, MemInv, MarkedMain, OneFrame,
              DirtyReachable, WritableDirty, CleanJunk, SockClear, InRange, AbsMem,
              DirtyFrames, OwnerStep
<1>8. ASSUME NEW r \in MapRequests, Mmap(r) PROVE MemInv' /\ OwnerStep
  BY <1>8, MmapKeepsMemory DEF OwnerStep
<1>9. ASSUME NEW r \in MapRequests, MmapOpenFails(r) PROVE MemInv' /\ OwnerStep
  BY <1>9, MmapFailureKeepsMemory DEF OwnerStep
<1>10. ASSUME NEW i \in Slots \ {0}, Munmap(i) PROVE MemInv' /\ OwnerStep
  BY <1>10, MunmapKeepsMemory DEF OwnerStep
<1>11. CASE UNCHANGED vars
  BY <1>11 DEF vars, Inv, MemInv, MarkedMain, OneFrame, DirtyReachable, WritableDirty,
               CleanJunk, SockClear, InRange, AbsMem, DirtyFrames, OwnerStep
<1> QED BY <1>1, <1>2, <1>3, <1>4, <1>5, <1>6, <1>7, <1>8, <1>9, <1>10, <1>11 DEF Next

LEMMA InitInv == Init => Inv
BY InitType, InitSections, InitMemory DEF Inv

LEMMA NextInv == Inv /\ [Next]_vars => Inv'
BY NextType, NextSection, NextPte, MemoryStep DEF Inv

(* Whatever is paged in and out, mapped and unmapped, each page of memory  *)
(* has at most one frame, its dirty frame is where its entry leads, and a  *)
(* load through a valid entry returns the value last stored.               *)
THEOREM ReadsAreCoherent == Spec => []ReadsCoherent
<1>1. Inv => ReadsCoherent
  <2> SUFFICES ASSUME Inv, NEW p \in MemPages, pte[p] # NoPte
               PROVE  data[pte[p].frame] = AbsMem[p]
    BY DEF ReadsCoherent
  <2>1. pte[p].frame \in Frames /\ mapAddr[pte[p].frame] = p
    BY MemPageFacts DEF Inv, PteSound, TypeOK, Pte
  <2> QED BY <2>1, AbsMemFacts DEF AbsFacts, Inv, MemInv
<1> QED BY <1>1, InitInv, NextInv, PTL DEF Spec

(* A page of memory changes only by a store of its owner into that page,   *)
(* or because the owner trims or lends it.                                 *)
THEOREM OwnerIsAlone == Spec => OwnerAlone
<1>1. Inv /\ [Next]_vars => [OwnerStep]_vars
  BY MemoryStep
<1> QED BY <1>1, InitInv, NextInv, PTL DEF Spec, OwnerAlone
-----------------------------------------------------------------------------
(* Mapped files, under the callers of the tree (OrderlyFiles): a load from *)
(* a page of a read-only mapping returns the file's page, a live mapping   *)
(* is never served from a closed handle, and a frame is clean when it is   *)
(* given to another page.                                                  *)

HandleOf(path) == IF path \in SideloadPaths THEN NoFile ELSE path

(* An entry of mmap_socket[] is free, at address 0 and without a handle,   *)
(* or holds the handle of its own file.                                    *)
Entry(s) ==
    IF s.path = NoPath THEN s.mapTo = 0 /\ s.file = NoFile
    ELSE s.file = HandleOf(s.path) /\ (s.writable => s.writeback)

(* Two mappings have different files and no page in common.                *)
Apart(s, t) == /\ s.path # t.path
               /\ s.mapTo + s.size <= t.mapTo \/ t.mapTo + t.size <= s.mapTo

(* No entry, free ones with the size of their last use included, is longer *)
(* than the address an image is mapped at: the range a free one leaves     *)
(* behind covers no page of an image.                                      *)
SlotsOrderly ==
    /\ 0 \in Live
    /\ \A i \in Slots : Entry(sock[i])
    /\ \A i \in Slots, r \in MapRequests : sock[i].size <= r.to
    /\ \A i \in Live \ {0} : \E r \in MapRequests : sock[i].mapTo = r.to
    /\ \A i, k \in Live : i # k => Apart(sock[i], sock[k])

FileFrames == {f \in Frames : mapAddr[f] \notin MemPages \cup {0}}

(* The frame of a file's page is tagged with the mapping that covers it;   *)
(* only a fault that ended in littlefs leaves one that no mapping covers.  *)
FramesOrderly ==
    \A f \in FileFrames :
        \/ tag[f] \in Live /\ InRange(tag[f], mapAddr[f])
        \/ halt # "no" /\ \A i \in Live : ~InRange(i, mapAddr[f])

ReadOnlyFile(i) == i \in Live /\ sock[i].path \notin SideloadPaths /\ ~sock[i].writable

FilePagesTrue ==
    \A f \in FileFrames :
        ReadOnlyFile(tag[f]) => data[f] = ReadPage(disk, tag[f], mapAddr[f])

(* No entry of a page of a read-only mapping lets the processor store.     *)
ReadOnlyKept ==
    \A p \in Pages, i \in Live :
        pte[p] # NoPte /\ pte[p].rw /\ InRange(i, p) => sock[i].writable

(* What is dirty is memory, or will be written back.                       *)
DirtyWritten ==
    \A f \in Frames :
        dirty[f] => \/ tag[f] = MainTag
                    \/ tag[f] \in Live /\ sock[tag[f]].writable /\ sock[tag[f]].writeback

WarpInside == warp.at \in MainBase .. MainBase + MemMax

FileInv == /\ SlotsOrderly /\ FramesOrderly /\ FilePagesTrue
           /\ ReadOnlyKept /\ DirtyWritten /\ WarpInside

AllInv == OrderlyFiles /\ Inv /\ FileInv

-----------------------------------------------------------------------------
(* What the invariant says of a page and of its mapping.                   *)

LEMMA SlotFacts ==
    ASSUME TypeOK, NEW i \in Slots
    PROVE  /\ sock[i] \in Sock
           /\ sock[i].mapTo \in Nat /\ sock[i].size \in Nat
           /\ i \in Live => sock[i].path \in Paths
BY DEF TypeOK, Sock, Live

(* A page of a live mapping is served by it alone.                         *)
LEMMA LiveFirst ==
    ASSUME TypeOK, OrderlyFiles, SlotsOrderly, NEW p \in Pages,
           NEW i \in Live, InRange(i, p), NEW j \in Slots, Serves(j, p)
    PROVE  j = i
<1>1. i \in Slots /\ i \in Nat /\ j \in Nat /\ j <= i /\ InRange(j, p) /\ p \in Nat
  BY PagesAssumption DEF Live, Slots, Serves
<1>2. CASE j \in Live
  <2>1. j # i => Apart(sock[j], sock[i])
    BY <1>2 DEF SlotsOrderly
  <2>2. sock[i].mapTo \in Nat /\ sock[i].size \in Nat /\ sock[j].mapTo \in Nat /\ sock[j].size \in Nat
    BY <1>1, SlotFacts
  <2> QED BY <1>1, <2>1, <2>2 DEF Apart, InRange
<1>3. CASE j \notin Live /\ i = 0
  BY <1>1, <1>3
<1>4. CASE j \notin Live /\ i # 0
  <2>1. sock[j].mapTo = 0
    BY <1>4 DEF SlotsOrderly, Entry, Live
  <2>2. sock[j].size <= sock[i].mapTo
    BY <1>4 DEF SlotsOrderly
  <2>3. /\ sock[j].size \in Nat /\ sock[i].mapTo \in Nat
        /\ sock[i].mapTo <= p /\ p < 0 + sock[j].size
    BY <1>1, <2>1, SlotFacts DEF InRange
  <2> QED BY <1>1, <2>2, <2>3
<1> QED BY <1>2, <1>3, <1>4

LEMMA LiveAlone ==
    ASSUME TypeOK, SlotsOrderly, NEW p \in Pages,
           NEW i \in Live, InRange(i, p), NEW k \in Live, InRange(k, p)
    PROVE  k = i
<1>1. k # i => Apart(sock[k], sock[i])
  BY DEF SlotsOrderly
<1>2. p \in Nat /\ i \in Slots /\ k \in Slots
  BY PagesAssumption DEF Live
<1> QED BY <1>1, <1>2, SlotFacts DEF Apart, InRange

LEMMA MemoryPage ==
    ASSUME TypeOK, WarpInside, NEW p \in Pages, InMemory(p)
    PROVE  p \in MemPages
<1>1. /\ warp.at \in Nat /\ warp.max \in 0 .. AppLimit /\ p \in Nat
      /\ MainBase \in Nat /\ MemMax \in Nat /\ AppBase \in Nat /\ AppLimit \in Nat
      /\ MainBase <= warp.at /\ warp.at <= MainBase + MemMax
  BY PagesAssumption DEF TypeOK, WarpInside
<1>2. CASE InMain(p)
  <2>1. MainBase <= p /\ p < MainBase + MemMax
    BY <1>1, <1>2 DEF InMain
  <2> QED BY <1>1, <2>1 DEF MemPages
<1>3. CASE InApp(p)
  BY <1>1, <1>3 DEF InApp, MemPages
<1> QED BY <1>2, <1>3 DEF InMemory

(* The write-back touches no file that is mapped read-only.                *)
LEMMA DiskKept ==
    ASSUME TypeOK, SlotsOrderly, DirtyWritten, NEW i, ReadOnlyFile(i), NEW p
    PROVE  ReadPage(CleanDisk, i, p) = ReadPage(disk, i, p)
<1>1. i \in Slots /\ i \in Live /\ sock[i].path \in Paths /\ sock[i].file = sock[i].path
  BY SlotFacts DEF ReadOnlyFile, SlotsOrderly, Entry, HandleOf, Live
<1>2. ASSUME NEW o \in Offsets PROVE WrittenTo(sock[i].file, o) = {}
  <2> SUFFICES ASSUME NEW f \in CleanableFrames, sock[tag[f]].file = sock[i].file
               PROVE  FALSE
    BY DEF WrittenTo
  <2>1. f \in Frames /\ tag[f] \in Live /\ sock[tag[f]].writable
    BY DEF CleanableFrames, DirtyWritten
  <2>2. tag[f] # i
    BY <2>1 DEF ReadOnlyFile
  <2>3. sock[tag[f]].path # sock[i].path
    BY <1>1, <2>1, <2>2 DEF SlotsOrderly, Apart
  <2>4. tag[f] \in Slots /\ sock[tag[f]].file \in {NoFile, sock[tag[f]].path}
    BY <2>1 DEF SlotsOrderly, Entry, HandleOf, Live
  <2>5. sock[tag[f]].file # NoFile
    BY <1>1, MarkerAssumption
  <2> QED BY <1>1, <2>3, <2>4, <2>5
<1>3. ASSUME NEW o \in Offsets PROVE CleanDisk[sock[i].file][o] = disk[sock[i].file][o]
  BY <1>1, <1>2, <1>3 DEF CleanDisk
<1>4. ASSUME FileOffset(i, p) \in 0 .. FilePages[sock[i].file] - 1
      PROVE  FileOffset(i, p) \in Offsets
  <2>1. FilePages[sock[i].file] \in 0 .. MaxFilePages /\ MaxFilePages \in Nat
    BY <1>1, RequestAssumption
  <2>2. \A x, n, m \in Int : n <= m /\ x \in 0 .. n - 1 => x \in 0 .. m - 1
    OBVIOUS
  <2> QED BY <1>4, <2>1, <2>2 DEF Offsets
<1> QED BY <1>1, <1>3, <1>4 DEF ReadPage

(* A frame that is handed out is clean.                                    *)
LEMMA NewFrameClean ==
    ASSUME TypeOK, DirtyWritten, NEW p \in Pages, NEW f \in Frames, GetNewPageFrame(p, f)
    PROVE  /\ ~dirty'[f]
           /\ \A g \in Frames : dirty'[g] => dirty[g]
           /\ disk' \in {disk, CleanDisk}
<1>1. CASE Resident(p, f) /\ UNCHANGED <<framePtr, dirty, disk>>
  BY <1>1 DEF Resident
<1>2. CASE FirstOf(CleanFrames, f) /\ UNCHANGED <<dirty, disk>>
  BY <1>2 DEF FirstOf, CleanFrames
<1>3. CASE FirstOf(ReclaimFrames, f) /\ dirty' = CleanDirty /\ disk' = CleanDisk
  <2>1. tag[f] # MainTag
    BY <1>3 DEF FirstOf, ReclaimFrames
  <2>2. dirty[f] => f \in CleanableFrames
    BY <2>1 DEF DirtyWritten, CleanableFrames
  <2> QED BY <1>3, <2>2 DEF CleanDirty
<1> QED BY <1>1, <1>2, <1>3 DEF GetNewPageFrame

-----------------------------------------------------------------------------
(* Faults.                                                                 *)

LEMMA SameSlots ==
    ASSUME UNCHANGED sock
    PROVE  /\ Live' = Live
           /\ \A i, q : InRange(i, q)' <=> InRange(i, q)
           /\ \A i : ReadOnlyFile(i)' <=> ReadOnlyFile(i)
           /\ \A i, q : ReadPage(disk, i, q)' = ReadPage(disk', i, q)
           /\ SlotsOrderly => SlotsOrderly'
<1>1. Live' = Live
  BY DEF Live
<1>2. \A i, q : InRange(i, q)' <=> InRange(i, q)
  BY DEF InRange
<1>3. \A i : ReadOnlyFile(i)' <=> ReadOnlyFile(i)
  BY <1>1 DEF ReadOnlyFile
<1>4. \A i, q : ReadPage(disk, i, q)' = ReadPage(disk', i, q)
  BY DEF ReadPage, FileOffset
<1>5. SlotsOrderly => SlotsOrderly'
  BY <1>1 DEF SlotsOrderly
<1> QED BY <1>1, <1>2, <1>3, <1>4, <1>5

(* Where frame f may go when it is given to page p and owner o.            *)
GoodOwner(p, o, d) ==
    \/ p \in MemPages /\ o = MainTag
    \/ o \in Live /\ InRange(o, p) /\ (ReadOnlyFile(o) => d = ReadPage(disk', o, p))
    \/ halt' # "no" /\ o \notin Live /\ \A i \in Live : ~InRange(i, p)

FreshStep == \A f \in Frames : mapAddr'[f] \notin {0, mapAddr[f]} => ~dirty'[f]

LEMMA MainNotLive == MainTag \notin Live /\ MainTag \notin Slots
BY FramesAssumption DEF MainTag, Live, Slots

LEMMA FaultKeepsFiles ==
    ASSUME AllInv, NEW p \in Pages, NEW f \in Frames, NEW o \in Slots \cup {MainTag}, NEW d,
           Faults(p), GetNewPageFrame(p, f), SetNewPgf(p, f, o),
           data' = [data EXCEPT ![f] = d], UNCHANGED <<sock, warp>>,
           GoodOwner(p, o, d)
    PROVE  FileInv' /\ FreshStep
<1> USE DEF AllInv, Inv, FileInv
<1>1. /\ \A g \in Frames : mapAddr'[g] = IF g = f THEN p ELSE mapAddr[g]
      /\ \A g \in Frames : tag'[g] = IF g = f THEN o ELSE tag[g]
      /\ \A g \in Frames : data'[g] = IF g = f THEN d ELSE data[g]
  BY DEF SetNewPgf, TypeOK
<1>2. /\ Live' = Live
      /\ \A i, q : InRange(i, q)' <=> InRange(i, q)
      /\ \A i : ReadOnlyFile(i)' <=> ReadOnlyFile(i)
      /\ \A i, q : ReadPage(disk, i, q)' = ReadPage(disk', i, q)
      /\ SlotsOrderly'
  BY SameSlots
<1>3. /\ ~dirty'[f]
      /\ \A g \in Frames : dirty'[g] => dirty[g]
      /\ disk' \in {disk, CleanDisk}
  BY NewFrameClean
<1>4. \A g \in FileFrames : tag[g] \in Live /\ InRange(tag[g], mapAddr[g])
  BY DEF FramesOrderly, Faults
<1>5. \A g \in Frames : g \in FileFrames' =>
         IF g = f THEN p \notin MemPages ELSE g \in FileFrames
  BY <1>1 DEF FileFrames
<1>6. FramesOrderly'
  <2> SUFFICES ASSUME NEW g \in Frames, g \in FileFrames'
               PROVE  \/ tag'[g] \in Live /\ InRange(tag'[g], mapAddr'[g])
                      \/ halt' # "no" /\ \A i \in Live : ~InRange(i, mapAddr'[g])
    BY <1>2 DEF FramesOrderly, FileFrames
  <2>1. CASE g = f
    BY <1>1, <1>5, <2>1 DEF GoodOwner
  <2>2. CASE g # f
    BY <1>1, <1>4, <1>5, <2>2
  <2> QED BY <2>1, <2>2
<1>7. FilePagesTrue'
  <2> SUFFICES ASSUME NEW g \in Frames, g \in FileFrames', ReadOnlyFile(tag'[g])
               PROVE  data'[g] = ReadPage(disk', tag'[g], mapAddr'[g])
    BY <1>2 DEF FilePagesTrue, FileFrames
  <2>1. CASE g = f
    <3>1. o \in Live
      BY <1>1, <2>1 DEF ReadOnlyFile
    <3>2. d = ReadPage(disk', o, p)
      BY <1>1, <2>1, <3>1, MainNotLive DEF GoodOwner
    <3> QED BY <1>1, <2>1, <3>2
  <2>2. CASE g # f
    <3>1. g \in FileFrames /\ ReadOnlyFile(tag[g])
      BY <1>1, <1>5, <2>2
    <3>2. data[g] = ReadPage(disk, tag[g], mapAddr[g])
      BY <3>1 DEF FilePagesTrue
    <3>3. ReadPage(disk', tag[g], mapAddr[g]) = ReadPage(disk, tag[g], mapAddr[g])
      BY <1>3, <3>1, DiskKept
    <3> QED BY <1>1, <2>2, <3>2, <3>3
  <2> QED BY <2>1, <2>2
<1>8. ReadOnlyKept'
  <2>1. \A q \in Pages : pte'[q] # NoPte /\ pte'[q].rw => pte'[q] = pte[q]
    BY DEF SetNewPgf
  <2> QED BY <1>2, <2>1 DEF ReadOnlyKept
<1>9. DirtyWritten'
  BY <1>1, <1>2, <1>3 DEF DirtyWritten
<1>10. WarpInside'
  BY DEF WarpInside
<1>11. FreshStep
  BY <1>1, <1>3 DEF FreshStep
<1> QED BY <1>2, <1>6, <1>7, <1>8, <1>9, <1>10, <1>11

(* A step that only empties frames and takes entries away.                 *)
LEMMA QuietKeepsFiles ==
    ASSUME AllInv, halt = "no", UNCHANGED <<sock, tag, disk>>, WarpInside',
           \A g \in Frames : mapAddr'[g] \in {0, mapAddr[g]},
           \A g \in FileFrames : mapAddr'[g] # 0 => data'[g] = data[g],
           \A q \in Pages : pte'[q] \in {NoPte, pte[q]},
           \A g \in Frames : dirty'[g] => dirty[g]
    PROVE  FileInv' /\ FreshStep
<1> USE DEF AllInv, Inv, FileInv
<1>1. /\ Live' = Live
      /\ \A i, q : InRange(i, q)' <=> InRange(i, q)
      /\ \A i : ReadOnlyFile(i)' <=> ReadOnlyFile(i)
      /\ \A i, q : ReadPage(disk, i, q)' = ReadPage(disk, i, q)
      /\ SlotsOrderly'
  BY SameSlots
<1>2. \A g \in Frames : g \in FileFrames' => g \in FileFrames /\ mapAddr'[g] = mapAddr[g] /\ mapAddr'[g] # 0
  BY DEF FileFrames
<1>3. FileFrames' \subseteq Frames
  BY DEF FileFrames
<1>4. FramesOrderly'
  <2>1. \A g \in FileFrames : tag[g] \in Live /\ InRange(tag[g], mapAddr[g])
    BY DEF FramesOrderly
  <2> QED BY <1>1, <1>2, <1>3, <2>1 DEF FramesOrderly
<1>5. FilePagesTrue'
  BY <1>1, <1>2, <1>3 DEF FilePagesTrue
<1>6. ReadOnlyKept'
  BY <1>1 DEF ReadOnlyKept
<1>7. DirtyWritten'
  BY <1>1 DEF DirtyWritten
<1>8. FreshStep
  BY DEF FreshStep
<1> QED BY <1>1, <1>4, <1>5, <1>6, <1>7, <1>8

LEMMA TranslationKeepsFiles ==
    ASSUME AllInv, NEW p \in Pages, TranslationFault(p)
    PROVE  FileInv' /\ FreshStep
<1> USE DEF AllInv, Inv, FileInv
<1>1. CASE MemoryFault(p)
  <2>1. PICK f \in Frames : /\ GetNewPageFrame(p, f)
                            /\ SetNewPgf(p, f, MainTag)
                            /\ data' = [data EXCEPT ![f] = IF mapAddr[f] = p THEN @ ELSE Junk]
    BY <1>1 DEF MemoryFault, LoadMemory
  <2> DEFINE d == IF mapAddr[f] = p THEN data[f] ELSE Junk
  <2>2. data' = [data EXCEPT ![f] = d]
    BY <2>1
  <2>3. Faults(p) /\ UNCHANGED <<sock, warp>>
    BY <1>1 DEF MemoryFault, LoadMemory
  <2> HIDE DEF d
  <2>4. GoodOwner(p, MainTag, d)
    BY <1>1, MemoryPage DEF MemoryFault, LoadMemory, GoodOwner
  <2> QED BY <2>1, <2>2, <2>3, <2>4, FaultKeepsFiles
<1>2. CASE FileFault(p)
  <2>1. PICK i \in Slots, f \in Frames :
           /\ Serves(i, p)
           /\ sock[i].path \notin SideloadPaths
           /\ GetNewPageFrame(p, f)
           /\ SetNewPgf(p, f, i)
           /\ data' = [data EXCEPT ![f] = ReadPage(disk', i, p)]
           /\ halt' = IF sock[i].path = NoPath \/ sock[i].file \notin Paths
                      THEN "closedFile" ELSE halt
    BY <1>2 DEF FileFault, LoadFile
  <2>2. Faults(p) /\ UNCHANGED <<sock, warp>>
    BY <1>2 DEF FileFault, LoadFile
  <2> DEFINE d == ReadPage(disk', i, p)
  <2>3. data' = [data EXCEPT ![f] = d] /\ d = ReadPage(disk', i, p)
    BY <2>1
  <2> HIDE DEF d
  <2>4. GoodOwner(p, i, d)
    <3>1. CASE i \in Live
      BY <2>1, <2>3, <3>1 DEF GoodOwner, Serves
    <3>2. CASE i \notin Live
      <4>1. \A k \in Live : ~InRange(k, p)
        BY <2>1, <3>2, LiveFirst
      <4>2. halt' # "no"
        BY <2>1, <3>2 DEF Live
      <4> QED BY <3>2, <4>1, <4>2 DEF GoodOwner
    <3> QED BY <3>1, <3>2
  <2> QED BY <2>1, <2>2, <2>3, <2>4, FaultKeepsFiles
<1>3. CASE SideloadFault(p)
  <2>1. PICK i \in Slots, f \in Frames :
           /\ Serves(i, p)
           /\ sock[i].path \in SideloadPaths
           /\ GetNewPageFrame(p, f)
           /\ SetNewPgf(p, f, i)
           /\ data' = [data EXCEPT ![f] = IF mapAddr[f] = p THEN @ ELSE Junk]
    BY <1>3 DEF SideloadFault, LoadSideload
  <2> DEFINE d == IF mapAddr[f] = p THEN data[f] ELSE Junk
  <2>2. data' = [data EXCEPT ![f] = d]
    BY <2>1
  <2>3. Faults(p) /\ UNCHANGED <<sock, warp>>
    BY <1>3 DEF SideloadFault, LoadSideload
  <2> HIDE DEF d
  <2>4. i \in Live
    BY <2>1, SideloadAssumption, MarkerAssumption DEF Live
  <2>5. GoodOwner(p, i, d)
    BY <2>1, <2>4 DEF GoodOwner, ReadOnlyFile, Serves
  <2> QED BY <2>1, <2>2, <2>3, <2>5, FaultKeepsFiles
<1>4. CASE NoFreePage(p)
  <2>1. UNCHANGED <<mapAddr, tag, dirty, data, pte, sock, warp, disk>> /\ Faults(p)
    BY <1>4 DEF NoFreePage, frameVars, tableVars
  <2>2. halt = "no" /\ WarpInside'
    BY <2>1 DEF Faults, WarpInside
  <2> QED BY <2>1, <2>2, QuietKeepsFiles
<1> QED BY <1>1, <1>2, <1>3, <1>4 DEF TranslationFault

-----------------------------------------------------------------------------
(* Stores and permission faults.                                           *)

LEMMA PermissionKeepsFiles ==
    ASSUME AllInv, NEW p \in Pages, NEW mode \in {"user", "sys"}, PermissionFault(p, mode)
    PROVE  FileInv' /\ FreshStep
<1> USE DEF AllInv, Inv, FileInv
<1>1. /\ UNCHANGED <<mapAddr, tag, data, sock, warp, disk, halt>> /\ halt = "no"
      /\ pte' = [pte EXCEPT ![p].rw = TRUE]
      /\ \A q \in Pages : q # p => pte'[q] = pte[q]
      /\ \A g \in Frames : dirty'[g] => dirty[g] \/ g \in DirtiedFrames(p)
      /\ p \in MemPages \/ \E i \in Slots : Serves(i, p) /\ sock[i].writable
  BY MemoryPage DEF PermissionFault, TypeOK, WritePermitted, InMemory
<1>2. /\ Live' = Live
      /\ \A i, q : InRange(i, q)' <=> InRange(i, q)
      /\ \A i : ReadOnlyFile(i)' <=> ReadOnlyFile(i)
      /\ \A i, q : ReadPage(disk, i, q)' = ReadPage(disk, i, q)
      /\ SlotsOrderly'
  BY <1>1, SameSlots
<1>3. \A i \in Live : InRange(i, p) => sock[i].writable
  <2> SUFFICES ASSUME NEW i \in Live, InRange(i, p) PROVE sock[i].writable
    OBVIOUS
  <2>1. p \notin MemPages
    BY DEF MemInv, SockClear, Live
  <2>2. PICK j \in Slots : Serves(j, p) /\ sock[j].writable
    BY <1>1, <2>1
  <2> QED BY <2>2, LiveFirst
<1>4. FileFrames' = FileFrames
  BY <1>1 DEF FileFrames
<1>5. FramesOrderly' /\ FilePagesTrue' /\ WarpInside' /\ FreshStep
  BY <1>1, <1>2, <1>4 DEF FramesOrderly, FilePagesTrue, WarpInside, FreshStep, FileFrames
<1>6. ReadOnlyKept'
  <2> SUFFICES ASSUME NEW q \in Pages, NEW i \in Live, pte'[q] # NoPte, pte'[q].rw, InRange(i, q)
               PROVE  sock[i].writable
    BY <1>1, <1>2 DEF ReadOnlyKept
  <2>1. CASE q = p
    BY <1>3, <2>1
  <2>2. CASE q # p
    BY <1>1, <2>2 DEF ReadOnlyKept
  <2> QED BY <2>1, <2>2
<1>7. DirtyWritten'
  <2> SUFFICES ASSUME NEW g \in DirtiedFrames(p)
               PROVE  \/ tag[g] = MainTag
                      \/ tag[g] \in Live /\ sock[tag[g]].writable /\ sock[tag[g]].writeback
    BY <1>1, <1>2 DEF DirtyWritten
  <2>1. g \in Frames /\ mapAddr[g] = p
    BY DEF DirtiedFrames, FirstMapping
  <2>2. CASE p \in MemPages
    BY <2>1, <2>2 DEF MemInv, MarkedMain
  <2>3. CASE p \notin MemPages
    <3>1. g \in FileFrames
      BY <2>1, <2>3, PagesAssumption DEF FileFrames
    <3>2. tag[g] \in Live /\ InRange(tag[g], p)
      BY <1>1, <2>1, <3>1 DEF FramesOrderly
    <3>3. tag[g] \in Slots /\ Entry(sock[tag[g]]) /\ sock[tag[g]].path # NoPath
      BY <3>2 DEF SlotsOrderly, Live
    <3> QED BY <1>3, <3>2, <3>3 DEF Entry
  <2> QED BY <2>2, <2>3
<1> QED BY <1>2, <1>5, <1>6, <1>7

LEMMA StoreKeepsFiles ==
    ASSUME AllInv, NEW p \in Pages, NEW v \in Values, Store(p, v)
    PROVE  FileInv' /\ FreshStep
<1> USE DEF AllInv, Inv, FileInv
<1>1. /\ UNCHANGED <<mapAddr, tag, dirty, pte, sock, warp, disk, halt>> /\ halt = "no"
      /\ pte[p] # NoPte /\ pte[p].rw
      /\ data' = [data EXCEPT ![pte[p].frame] = <<v>>]
  BY DEF Store, tableVars
<1>2. /\ Live' = Live
      /\ \A i, q : InRange(i, q)' <=> InRange(i, q)
      /\ \A i : ReadOnlyFile(i)' <=> ReadOnlyFile(i)
      /\ \A i, q : ReadPage(disk, i, q)' = ReadPage(disk, i, q)
      /\ SlotsOrderly'
  BY <1>1, SameSlots
<1>3. FileFrames' = FileFrames
  BY <1>1 DEF FileFrames
<1>4. FramesOrderly' /\ ReadOnlyKept' /\ DirtyWritten' /\ WarpInside' /\ FreshStep
  BY <1>1, <1>2, <1>3 DEF FramesOrderly, ReadOnlyKept, DirtyWritten, WarpInside,
                          FreshStep, FileFrames
<1>5. ASSUME NEW f \in FileFrames, ReadOnlyFile(tag[f]) PROVE f # pte[p].frame
  <2>1. tag[f] \in Live /\ InRange(tag[f], mapAddr[f]) /\ ~sock[tag[f]].writable
    BY <1>1, <1>5 DEF FramesOrderly, ReadOnlyFile
  <2>2. mapAddr[pte[p].frame] = p
    BY <1>1 DEF PteSound
  <2> QED BY <1>1, <2>1, <2>2 DEF ReadOnlyKept
<1>6. FilePagesTrue'
  <2> SUFFICES ASSUME NEW f \in FileFrames, ReadOnlyFile(tag[f])
               PROVE  data'[f] = ReadPage(disk, tag[f], mapAddr[f])
    BY <1>1, <1>2, <1>3 DEF FilePagesTrue
  <2>1. data'[f] = data[f]
    BY <1>1, <1>5 DEF TypeOK, FileFrames
  <2> QED BY <2>1 DEF FilePagesTrue
<1> QED BY <1>2, <1>4, <1>6

-----------------------------------------------------------------------------
(* Trimming, locking and lending of memory.                                *)

LEMMA TrimKeepsFiles ==
    ASSUME AllInv, NEW p \in MemPages, TrimPage(p)
    PROVE  FileInv' /\ FreshStep
<1> USE DEF AllInv, Inv, FileInv
<1>1. PICK f \in Frames : /\ mapAddr' = [mapAddr EXCEPT ![f] = 0]
                          /\ dirty' = [dirty EXCEPT ![f] = FALSE]
                          /\ data' = [data EXCEPT ![f] = Junk]
  BY DEF TrimPage
<1>2. halt = "no" /\ UNCHANGED <<tag, sock, warp, disk>> /\ pte' = [pte EXCEPT ![p] = NoPte]
  BY DEF TrimPage
<1>3. \A g \in Frames : /\ mapAddr'[g] \in {0, mapAddr[g]}
                        /\ g # f => data'[g] = data[g]
                        /\ g = f => mapAddr'[g] = 0
                        /\ dirty'[g] => dirty[g]
  BY <1>1 DEF TypeOK
<1>4. \A q \in Pages : pte'[q] \in {NoPte, pte[q]}
  BY <1>2 DEF TypeOK
<1>5. WarpInside'
  BY <1>2 DEF WarpInside
<1>6. FileFrames \subseteq Frames
  BY DEF FileFrames
<1> QED BY <1>2, <1>3, <1>4, <1>5, <1>6, QuietKeepsFiles

LEMMA LockKeepsFiles ==
    ASSUME AllInv, NEW p, NEW b, LockVaddr(p, b)
    PROVE  FileInv' /\ FreshStep
<1>1. halt = "no" /\ UNCHANGED <<mapAddr, tag, dirty, data, pte, sock, warp, disk>>
  BY DEF LockVaddr, tableVars
<1>2. WarpInside'
  BY <1>1 DEF WarpInside, AllInv, FileInv
<1> QED BY <1>1, <1>2, QuietKeepsFiles

LEMMA WarpKeepsFiles ==
    ASSUME AllInv, NEW w \in WarpRequests, SetAppMemWarp(w[1], w[2])
    PROVE  FileInv' /\ FreshStep
<1> DEFINE S == Purged(w[1], w[2])
<1>1. /\ halt = "no" /\ UNCHANGED <<tag, sock, disk>>
      /\ warp' = [at |-> w[1], max |-> w[2]]
      /\ mapAddr' = [f \in Frames |-> IF f \in S THEN 0 ELSE mapAddr[f]]
      /\ dirty' = [f \in Frames |-> dirty[f] /\ f \notin S]
      /\ data' = [f \in Frames |-> IF f \in S THEN Junk ELSE data[f]]
      /\ pte' = [q \in Pages |-> IF \E f \in S : mapAddr[f] = q THEN NoPte ELSE pte[q]]
  BY DEF SetAppMemWarp
<1> HIDE DEF S
<1>2. WarpInside'
  BY <1>1 DEF WarpInside, AllInv, OrderlyFiles
<1>3. FileFrames \subseteq Frames
  BY DEF FileFrames
<1> QED BY <1>1, <1>2, <1>3, QuietKeepsFiles

LEMMA ResetKeepsFiles ==
    ASSUME AllInv, ResetAppMemWarp
    PROVE  FileInv' /\ FreshStep
<1>1. /\ halt = "no" /\ UNCHANGED <<mapAddr, tag, dirty, data, pte, sock, disk>>
      /\ warp' = [at |-> MainBase, max |-> 0]
  BY DEF ResetAppMemWarp, frameVars, tableVars
<1>2. WarpInside'
  BY <1>1, PagesAssumption DEF WarpInside
<1> QED BY <1>1, <1>2, QuietKeepsFiles

-----------------------------------------------------------------------------
(* mmap and munmap.                                                        *)

(* Filling a free entry disturbs no page of the other mappings.            *)
LEMMA NewSlotKeepsFiles ==
    ASSUME AllInv, halt = "no", SockClear', SlotsOrderly', TypeOK',
           NEW i \in Slots \ Live, NEW s, sock' = [sock EXCEPT ![i] = s],
           UNCHANGED <<mapAddr, tag, dirty, data, warp, disk>>,
           \A q \in Pages : pte'[q] \in {NoPte, pte[q]}
    PROVE  FileInv' /\ FreshStep
<1> USE DEF AllInv, Inv, FileInv
<1>1. \A k \in Slots : k # i => sock'[k] = sock[k]
  BY DEF TypeOK
<1>2. \A k \in Live : k \in Slots /\ k # i /\ k \in Live'
  BY <1>1 DEF Live
<1>3. /\ \A k \in Live : \A q : InRange(k, q)' <=> InRange(k, q)
      /\ \A k \in Live : ReadOnlyFile(k)' <=> ReadOnlyFile(k)
      /\ \A k \in Live : \A q : ReadPage(disk, k, q)' = ReadPage(disk, k, q)
  BY <1>1, <1>2 DEF InRange, ReadOnlyFile, ReadPage, FileOffset
<1>4. FileFrames' = FileFrames /\ FileFrames \subseteq Frames
  BY DEF FileFrames
<1>5. \A f \in FileFrames : tag[f] \in Live /\ InRange(tag[f], mapAddr[f])
  BY DEF FramesOrderly
<1>6. FramesOrderly'
  BY <1>2, <1>3, <1>4, <1>5 DEF FramesOrderly
<1>7. FilePagesTrue'
  BY <1>3, <1>4, <1>5 DEF FilePagesTrue
<1>8. DirtyWritten'
  BY <1>1, <1>2 DEF DirtyWritten
<1>9. ReadOnlyKept'
  <2> SUFFICES ASSUME NEW q \in Pages, NEW k \in Live', pte'[q] # NoPte, pte'[q].rw,
                      InRange(k, q)'
               PROVE  sock'[k].writable
    BY DEF ReadOnlyKept
  <2> DEFINE f == pte[q].frame
  <2>1. /\ pte'[q] = pte[q] /\ f \in Frames /\ mapAddr[f] = q
    BY DEF PteSound, TypeOK, Pte
  <2> HIDE DEF f
  <2>2. k \in Slots /\ q \notin MemPages
    BY DEF SockClear, Live
  <2>3. f \in FileFrames
    BY <2>1, <2>2, PagesAssumption DEF FileFrames
  <2>4. PICK l \in Live : InRange(l, q)
    BY <1>5, <2>1, <2>3
  <2>5. l \in Live' /\ l \in Slots /\ l # i /\ sock'[l] = sock[l] /\ InRange(l, q)'
    BY <1>1, <1>2, <1>3, <2>4
  <2>6. k = l
    <3>1. k # l => Apart(sock'[k], sock'[l])
      BY <2>5 DEF SlotsOrderly
    <3>2. /\ sock'[k].mapTo \in Nat /\ sock'[k].size \in Nat
          /\ sock'[l].mapTo \in Nat /\ sock'[l].size \in Nat /\ q \in Nat
      BY <2>2, <2>5, PagesAssumption DEF TypeOK, Sock
    <3> QED BY <2>5, <3>1, <3>2 DEF Apart, InRange
  <2> QED BY <2>1, <2>4, <2>5, <2>6 DEF ReadOnlyKept
<1>10. WarpInside' /\ FreshStep
  BY DEF WarpInside, FreshStep
<1> QED BY <1>6, <1>7, <1>8, <1>9, <1>10

(* Sizes of mappings: what was asked for, or the size of a file.           *)
Sizes == {q.size : q \in Requests} \cup {FilePages[h] : h \in Paths}

LEMMA MapSizes ==
    ASSUME NEW r \in Requests
    PROVE  /\ r \in RequestType
           /\ r.path \in Paths /\ r.to \in Nat /\ r.size \in Sizes /\ r.size \in Nat
           /\ MapSize(r, r.path) \in Sizes /\ MapSize(r, r.path) \in Nat
           /\ r.size <= MapSize(r, r.path)
<1>1. r \in RequestType /\ r.path \in Paths /\ r.to \in Nat /\ r.size \in Nat
  BY RequestFacts DEF RequestType
<1>2. MapSize(r, r.path) \in Nat /\ SizeOf(r.path) = FilePages[r.path]
  BY <1>1, RequestFacts
<1>3. r.size = 0 => r.offset = 0
  BY RequestAssumption
<1>4. FilePages[r.path] \in Nat
  BY <1>1, RequestAssumption
<1>5. IF r.size = 0 THEN MapSize(r, r.path) = FilePages[r.path]
      ELSE MapSize(r, r.path) = r.size
  BY <1>1, <1>2, <1>3, <1>4 DEF MapSize
<1> QED BY <1>1, <1>2, <1>4, <1>5 DEF Sizes

LEMMA NewMapping ==
    ASSUME AllInv, NEW r \in MapRequests, Mmap(r)
    PROVE  \E i \in Slots \ Live, n \in Sizes :
              /\ sock' = [sock EXCEPT ![i] = Filled(r, HandleOf(r.path), n)]
              /\ n \in Nat /\ n <= MapSize(r, r.path)
              /\ pte' = WipeTable(i + 1)
<1>1. r \in Requests
  BY DEF Requests
<1>2. PICK i \in Slots :
         /\ FirstFree(i)
         /\ \/ /\ r.path \in SideloadPaths
               /\ sock' = [sock EXCEPT ![i] = Filled(r, NoFile, r.size)]
            \/ /\ r.path \notin SideloadPaths
               /\ \E k \in Slots : Lender(i, r.path, k)
            \/ /\ r.path \notin SideloadPaths
               /\ sock' = [sock EXCEPT ![i] = Filled(r, r.path, MapSize(r, r.path))]
         /\ pte' = WipeTable(i + 1)
  BY DEF Mmap
<1>3. ASSUME NEW k \in Slots PROVE ~Lender(i, r.path, k)
  <2>1. \A j \in Live : sock[j].path # r.path
    BY DEF Mmap, CallerMaps, AllInv, OrderlyFiles
  <2>2. \A h : <<r.path, h>> \in Prefixes => r.path = h
    <3> TAKE h
    <3> DEFINE ab == <<r.path, h>>
    <3>1. ab \in Prefixes => ab[1] = ab[2]
      BY DEF AllInv, OrderlyFiles
    <3> QED BY <3>1
  <2> QED BY <2>1, <2>2 DEF Lender
<1>4. i \in Slots \ Live
  BY <1>2 DEF FirstFree
<1>5. CASE r.path \in SideloadPaths
  BY <1>1, <1>2, <1>4, <1>5, MapSizes DEF HandleOf
<1>6. CASE r.path \notin SideloadPaths
  <2>1. /\ sock' = [sock EXCEPT ![i] = Filled(r, HandleOf(r.path), MapSize(r, r.path))]
        /\ pte' = WipeTable(i + 1)
    BY <1>2, <1>3, <1>6 DEF HandleOf
  <2>2. MapSize(r, r.path) \in Sizes /\ MapSize(r, r.path) \in Nat
    BY <1>1, MapSizes
  <2>3. MapSize(r, r.path) <= MapSize(r, r.path)
    BY <2>2
  <2> QED BY <1>4, <2>1, <2>2, <2>3
<1> QED BY <1>5, <1>6

LEMMA MmapKeepsFiles ==
    ASSUME AllInv, NEW r \in MapRequests, Mmap(r), TypeOK'
    PROVE  FileInv' /\ FreshStep
<1> USE DEF AllInv, Inv, FileInv
<1>1. PICK i \in Slots \ Live, n \in Sizes :
         /\ sock' = [sock EXCEPT ![i] = Filled(r, HandleOf(r.path), n)]
         /\ n \in Nat /\ n <= MapSize(r, r.path)
         /\ pte' = WipeTable(i + 1)
  BY NewMapping
<1> DEFINE s == Filled(r, HandleOf(r.path), n)
<1>2. r \in Requests /\ r.path \in Paths /\ r.to \in Nat /\ MapSize(r, r.path) \in Nat
  BY MapSizes DEF Requests
<1>3. s.mapTo = r.to /\ s.path = r.path /\ s.size = n /\ s.file = HandleOf(r.path)
      /\ s.writable = r.writable /\ s.writeback = r.writeback
  BY DEF Filled
<1> HIDE DEF s
<1>4. sock'[i] = s /\ \A k \in Slots : k # i => sock'[k] = sock[k]
  BY <1>1 DEF TypeOK, s
<1>5. s.path # NoPath
  BY <1>2, <1>3, MarkerAssumption
<1>6. Live' = Live \cup {i}
  BY <1>4, <1>5 DEF Live
<1>7. Entry(s)
  BY <1>2, <1>3, <1>5 DEF Entry, OrderlyFiles
<1>8. ASSUME NEW k \in Live PROVE Apart(s, sock[k]) /\ Apart(sock[k], s)
  <2>1. /\ sock[k].path # r.path
        /\ \/ r.to >= sock[k].mapTo + sock[k].size
           \/ sock[k].mapTo >= r.to + MapSize(r, r.path)
    BY DEF Mmap, CallerMaps, OrderlyFiles
  <2>2. sock[k].mapTo \in Nat /\ sock[k].size \in Nat
    BY SlotFacts DEF Live
  <2> QED BY <1>1, <1>2, <1>3, <2>1, <2>2 DEF Apart
<1>9. \A q \in MapRequests : s.size <= q.to
  BY <1>3 DEF OrderlyFiles, Sizes
<1>10. SlotsOrderly'
  <2>1. 0 \in Live' /\ \A k \in Slots : Entry(sock'[k])
    BY <1>4, <1>6, <1>7 DEF SlotsOrderly
  <2>2. \A k \in Slots, q \in MapRequests : sock'[k].size <= q.to
    BY <1>4, <1>9 DEF SlotsOrderly
  <2>3. \A k \in Live' \ {0} : \E q \in MapRequests : sock'[k].mapTo = q.to
    BY <1>3, <1>4, <1>6 DEF SlotsOrderly, Live
  <2>4. \A k, l \in Live' : k # l => Apart(sock'[k], sock'[l])
    BY <1>4, <1>6, <1>8 DEF SlotsOrderly, Live
  <2> QED BY <2>1, <2>2, <2>3, <2>4 DEF SlotsOrderly
<1>11. SockClear'
  BY MmapKeepsMemory DEF MemInv
<1>12. halt = "no" /\ UNCHANGED <<mapAddr, tag, dirty, data, warp, disk>>
  BY DEF Mmap, frameVars
<1>13. \A q \in Pages : pte'[q] \in {NoPte, pte[q]}
  BY <1>1 DEF WipeTable
<1>14. sock' = [sock EXCEPT ![i] = s]
  BY <1>1 DEF s
<1> QED BY <1>10, <1>11, <1>12, <1>13, <1>14, NewSlotKeepsFiles

LEMMA MmapFailureKeepsFiles ==
    ASSUME AllInv, NEW r \in MapRequests, MmapOpenFails(r), TypeOK'
    PROVE  FileInv' /\ FreshStep
<1> USE DEF AllInv, Inv, FileInv
<1>1. PICK i \in Slots :
         /\ FirstFree(i)
         /\ sock' = [sock EXCEPT ![i] = [Filled(r, NoFile, sock[i].size)
                                         EXCEPT !.mapTo = 0, !.path = NoPath]]
  BY DEF MmapOpenFails
<1> DEFINE s == [Filled(r, NoFile, sock[i].size) EXCEPT !.mapTo = 0, !.path = NoPath]
<1>2. s.mapTo = 0 /\ s.path = NoPath /\ s.file = NoFile /\ s.size = sock[i].size
  BY DEF Filled
<1>3. sock' = [sock EXCEPT ![i] = s]
  BY <1>1
<1> HIDE DEF s
<1>4. sock'[i] = s /\ \A k \in Slots : k # i => sock'[k] = sock[k]
  BY <1>3 DEF TypeOK
<1>5. i \in Slots \ Live
  BY <1>1 DEF FirstFree
<1>6. Live' = Live
  BY <1>2, <1>4, <1>5 DEF Live
<1>7. SlotsOrderly'
  <2>1. \A k \in Slots : Entry(sock'[k])
    BY <1>2, <1>4 DEF SlotsOrderly, Entry
  <2>2. \A k \in Slots, q \in MapRequests : sock'[k].size <= q.to
    BY <1>2, <1>4 DEF SlotsOrderly
  <2>3. \A k \in Live : sock'[k] = sock[k]
    BY <1>4, <1>5 DEF Live
  <2> QED BY <1>6, <2>1, <2>2, <2>3 DEF SlotsOrderly
<1>8. SockClear'
  BY MmapFailureKeepsMemory DEF MemInv
<1>9. halt = "no" /\ UNCHANGED <<mapAddr, tag, dirty, data, pte, warp, disk>>
  BY DEF MmapOpenFails, frameVars, tableVars
<1> QED BY <1>3, <1>5, <1>7, <1>8, <1>9, NewSlotKeepsFiles

(* munmap(i) closes entry i and no other one.                              *)
LEMMA ClosedAlone ==
    ASSUME TypeOK, OrderlyFiles, SlotsOrderly, NEW i \in Slots
    PROVE  /\ \A k \in Slots : k # i => Closed(i)[k] = sock[k]
           /\ i \notin Live => Closed(i)[i] = sock[i]
           /\ i \in Live => Closed(i)[i] = [sock[i] EXCEPT !.mapTo = 0, !.path = NoPath,
                                                           !.file = NoFile]
<1>1. ASSUME NEW k \in Slots, k # i, i \in Live PROVE Closed(i)[k] = sock[k]
  <2>1. CASE sock[i].path \in SideloadPaths
    BY <1>1, <2>1 DEF Closed
  <2>2. CASE sock[i].path \notin SideloadPaths
    <3>1. sock[i].file = sock[i].path /\ sock[i].path \in Paths
      BY <1>1, <2>2, SlotFacts DEF SlotsOrderly, Entry, HandleOf, Live
    <3>2. k \in Live => sock[k].path # sock[i].path
      BY <1>1 DEF SlotsOrderly, Apart
    <3>3. ~(k \in Live /\ <<sock[k].path, sock[i].path>> \in Prefixes)
      <4> DEFINE ab == <<sock[k].path, sock[i].path>>
      <4>1. ab \in Prefixes => ab[1] = ab[2]
        BY DEF OrderlyFiles
      <4> QED BY <3>2, <4>1
    <3>4. sock[k].file # sock[i].file
      BY <1>1, <3>1, <3>2, MarkerAssumption DEF SlotsOrderly, Entry, HandleOf, Live
    <3> QED BY <1>1, <2>2, <3>3, <3>4 DEF Closed
  <2> QED BY <2>1, <2>2
<1>2. i \notin Live => \A k \in Slots : Closed(i)[k] = sock[k]
  BY DEF Closed
<1> QED BY <1>1, <1>2 DEF Closed

LEMMA MunmapKeepsFiles ==
    ASSUME AllInv, NEW i \in Slots \ {0}, Munmap(i)
    PROVE  FileInv' /\ FreshStep
<1> USE DEF AllInv, Inv, FileInv
<1>1. /\ halt = "no" /\ UNCHANGED <<tag, data, warp, halt>>
      /\ dirty' = CleanDirty /\ disk' = CleanDisk /\ sock' = Closed(i)
      /\ \A g \in Frames : mapAddr'[g] = IF tag[g] = i THEN 0 ELSE mapAddr[g]
      /\ \A q \in Pages : pte'[q] \in {NoPte, pte[q]}
  BY DEF Munmap, TaggedFrames
<1>2. /\ \A k \in Slots : k # i => sock'[k] = sock[k]
      /\ i \notin Live => sock'[i] = sock[i]
      /\ i \in Live => sock'[i] = [sock[i] EXCEPT !.mapTo = 0, !.path = NoPath, !.file = NoFile]
  BY <1>1, ClosedAlone
<1>3. sock[i] \in Sock
  BY DEF TypeOK
<1>4. i \in Live => /\ sock'[i].mapTo = 0 /\ sock'[i].path = NoPath
                    /\ sock'[i].file = NoFile /\ sock'[i].size = sock[i].size
  BY <1>2, <1>3 DEF Sock
<1>5. Live' = Live \ {i}
  BY <1>2, <1>4 DEF Live
<1>6. SlotsOrderly'
  <2>1. \A k \in Slots : Entry(sock'[k])
    BY <1>2, <1>4 DEF SlotsOrderly, Entry
  <2>2. \A k \in Slots : sock'[k].size = sock[k].size
    BY <1>2, <1>4
  <2>3. \A k \in Live' : k \in Live /\ sock'[k] = sock[k]
    BY <1>2, <1>5 DEF Live
  <2>4. 0 \in Live'
    BY <1>5 DEF SlotsOrderly
  <2>5. \A k \in Slots, r \in MapRequests : sock'[k].size <= r.to
    BY <2>2 DEF SlotsOrderly
  <2> QED BY <2>1, <2>3, <2>4, <2>5 DEF SlotsOrderly
<1>7. \A g \in Frames : g \in FileFrames' =>
         /\ g \in FileFrames /\ mapAddr'[g] = mapAddr[g] /\ tag[g] # i
         /\ tag[g] \in Live /\ tag[g] \in Live' /\ InRange(tag[g], mapAddr[g])
  BY <1>1, <1>5 DEF FileFrames, FramesOrderly
<1>8. /\ \A k \in Live' : \A q : InRange(k, q)' <=> InRange(k, q)
      /\ \A k \in Live' : ReadOnlyFile(k)' <=> ReadOnlyFile(k)
      /\ \A k \in Live' : \A q : ReadPage(disk, k, q)' = ReadPage(CleanDisk, k, q)
  <2>1. \A k \in Live' : k \in Live /\ sock'[k] = sock[k]
    BY <1>2, <1>5 DEF Live
  <2> QED BY <1>1, <2>1 DEF InRange, ReadOnlyFile, ReadPage, FileOffset
<1>9. FileFrames' \subseteq Frames
  BY DEF FileFrames
<1>10. FramesOrderly'
  BY <1>1, <1>7, <1>8, <1>9 DEF FramesOrderly
<1>11. FilePagesTrue'
  <2> SUFFICES ASSUME NEW g \in FileFrames', ReadOnlyFile(tag[g])
               PROVE  data[g] = ReadPage(CleanDisk, tag[g], mapAddr[g])
    BY <1>1, <1>7, <1>8, <1>9 DEF FilePagesTrue
  <2>1. data[g] = ReadPage(disk, tag[g], mapAddr[g])
    BY <1>7, <1>9 DEF FilePagesTrue
  <2> QED BY <2>1, DiskKept
<1>12. ReadOnlyKept'
  <2>1. \A k \in Live' : k \in Live /\ sock'[k] = sock[k]
    BY <1>2, <1>5 DEF Live
  <2> QED BY <1>1, <1>8, <2>1 DEF ReadOnlyKept
<1>13. DirtyWritten'
  <2>1. \A g \in Frames : dirty'[g] => tag[g] = MainTag
    BY <1>1 DEF CleanDirty, CleanableFrames, DirtyWritten
  <2> QED BY <1>1, <2>1 DEF DirtyWritten
<1>14. WarpInside' /\ FreshStep
  BY <1>1 DEF WarpInside, FreshStep
<1> QED BY <1>6, <1>10, <1>11, <1>12, <1>13, <1>14

-----------------------------------------------------------------------------
(* The theorems.                                                           *)

LEMMA InitFiles == OrderlyFiles /\ Init => FileInv
<1> SUFFICES ASSUME OrderlyFiles, Init PROVE FileInv
  OBVIOUS
<1> DEFINE n == MapSize(BootMap, BootMap.path)
<1>1. BootMap \in Requests
  BY DEF Requests
<1>2. BootMap.path \in Paths /\ n \in Sizes /\ n \in Nat
  BY <1>1, MapSizes
<1> HIDE DEF n
<1>3. 0 \in Slots
  BY FramesAssumption DEF Slots
<1>4. /\ sock[0] = Filled(BootMap, BootMap.path, n)
      /\ \A i \in Slots \ {0} : /\ sock[i].mapTo = 0 /\ sock[i].path = NoPath
                                /\ sock[i].size = 0 /\ sock[i].file = NoFile
  BY <1>3 DEF Init, n
<1>5. /\ sock[0].path = BootMap.path /\ sock[0].path # NoPath /\ sock[0].size = n
      /\ sock[0].file = BootMap.path
      /\ sock[0].writable = BootMap.writable /\ sock[0].writeback = BootMap.writeback
  BY <1>2, <1>4, MarkerAssumption DEF Filled
<1>6. Live = {0}
  BY <1>3, <1>4, <1>5 DEF Live
<1>7. \A i \in Slots : Entry(sock[i])
  BY <1>1, <1>4, <1>5 DEF Entry, HandleOf, OrderlyFiles
<1>8. \A i \in Slots, r \in MapRequests : sock[i].size <= r.to
  <2> TAKE i \in Slots, r \in MapRequests
  <2>1. r.to \in Nat
    BY MapSizes DEF Requests
  <2>2. n <= r.to
    BY <1>2 DEF OrderlyFiles, Sizes
  <2> QED BY <1>4, <1>5, <2>1, <2>2
<1>9. SlotsOrderly
  BY <1>6, <1>7, <1>8 DEF SlotsOrderly
<1>10. FileFrames = {}
  BY DEF FileFrames, Init
<1>11. FramesOrderly /\ FilePagesTrue
  BY <1>10 DEF FramesOrderly, FilePagesTrue
<1>12. ReadOnlyKept /\ DirtyWritten
  BY DEF Init, ReadOnlyKept, DirtyWritten
<1>13. WarpInside
  BY PagesAssumption DEF Init, WarpInside
<1> QED BY <1>9, <1>11, <1>12, <1>13 DEF FileInv

(* One case per action.                                                    *)
LEMMA FilesStep ==
    ASSUME AllInv, [Next]_vars
    PROVE  FileInv' /\ FreshStep
<1> TypeOK'
  BY NextInv DEF AllInv, Inv
<1>1. ASSUME NEW p \in Pages, TranslationFault(p) PROVE FileInv' /\ FreshStep
  BY <1>1, TranslationKeepsFiles
<1>2. ASSUME NEW p \in Pages, NEW mode \in {"user", "sys"}, PermissionFault(p, mode)
      PROVE  FileInv' /\ FreshStep
  BY <1>2, PermissionKeepsFiles
<1>3. ASSUME NEW p \in Pages, NEW v \in Values, Store(p, v) PROVE FileInv' /\ FreshStep
  BY <1>3, StoreKeepsFiles
<1>4. ASSUME NEW p \in MemPages, TrimPage(p) PROVE FileInv' /\ FreshStep
  BY <1>4, TrimKeepsFiles
<1>5. ASSUME NEW r \in LockRequests, LockVaddr(r[1], r[2]) PROVE FileInv' /\ FreshStep
  BY <1>5, LockKeepsFiles
<1>6. ASSUME NEW w \in WarpRequests, SetAppMemWarp(w[1], w[2]) PROVE FileInv' /\ FreshStep
  BY <1>6, WarpKeepsFiles
<1>7. CASE ResetAppMemWarp
  BY <1>7, ResetKeepsFiles
<1>8. ASSUME NEW r \in MapRequests, Mmap(r) PROVE FileInv' /\ FreshStep
  BY <1>8, MmapKeepsFiles
<1>9. ASSUME NEW r \in MapRequests, MmapOpenFails(r) PROVE FileInv' /\ FreshStep
  BY <1>9, MmapFailureKeepsFiles
<1>10. ASSUME NEW i \in Slots \ {0}, Munmap(i) PROVE FileInv' /\ FreshStep
  BY <1>10, MunmapKeepsFiles
<1>11. CASE UNCHANGED vars
  <2>1. UNCHANGED <<mapAddr, tag, dirty, data, pte, sock, warp, disk, halt>>
    BY <1>11 DEF vars
  <2>2. /\ Live' = Live
        /\ \A i, q : InRange(i, q)' <=> InRange(i, q)
        /\ \A i : ReadOnlyFile(i)' <=> ReadOnlyFile(i)
        /\ \A i, q : ReadPage(disk, i, q)' = ReadPage(disk, i, q)
        /\ SlotsOrderly'
    BY <2>1, SameSlots DEF AllInv, FileInv
  <2>3. FileFrames' = FileFrames
    BY <2>1 DEF FileFrames
  <2> QED BY <2>1, <2>2, <2>3 DEF AllInv, FileInv, FramesOrderly, FilePagesTrue, ReadOnlyKept,
                   DirtyWritten, WarpInside, FreshStep
<1> QED BY <1>1, <1>2, <1>3, <1>4, <1>5, <1>6, <1>7, <1>8, <1>9, <1>10, <1>11 DEF Next

LEMMA InitAll == OrderlyFiles /\ Init => AllInv
BY InitInv, InitFiles DEF AllInv

LEMMA NextAll == AllInv /\ [Next]_vars => AllInv' /\ FreshStep
BY NextInv, FilesStep DEF AllInv, OrderlyFiles

(* Under the callers of the tree, a load from a page of a read-only        *)
(* mapping returns that file's page: no frame keeps a page of the file     *)
(* mapped there before, none is stored into, and the write-back changes no *)
(* file that is mapped read-only.                                          *)
THEOREM FileReadsAreCoherent == OrderlyFiles => (Spec => []FileReadsCoherent)
<1>1. AllInv => FileReadsCoherent
  <2> SUFFICES ASSUME AllInv, NEW p \in Pages, NEW i \in Slots, pte[p] # NoPte, Serves(i, p),
                      ReadOnlyFile(i)
               PROVE  data[pte[p].frame] = ReadPage(disk, i, p)
    BY DEF FileReadsCoherent, ReadOnlyFile
  <2> DEFINE f == pte[p].frame
  <2>1. f \in Frames /\ mapAddr[f] = p
    BY DEF AllInv, Inv, PteSound, TypeOK, Pte
  <2> HIDE DEF f
  <2>2. InRange(i, p) /\ i \in Live /\ p \notin MemPages
    BY DEF AllInv, Inv, MemInv, SockClear, Serves, ReadOnlyFile
  <2>3. f \in FileFrames
    BY <2>1, <2>2, PagesAssumption DEF FileFrames
  <2>4. tag[f] \in Live /\ InRange(tag[f], p)
    BY <2>1, <2>2, <2>3 DEF AllInv, FileInv, FramesOrderly
  <2>5. tag[f] = i
    BY <2>2, <2>4, LiveAlone DEF AllInv, Inv, FileInv
  <2>6. data[f] = ReadPage(disk, i, p)
    BY <2>1, <2>3, <2>5 DEF AllInv, FileInv, FilePagesTrue
  <2> QED BY <2>6 DEF f
<1> QED BY <1>1, InitAll, NextAll, PTL DEF Spec

(* Under the callers of the tree, a fault on a page of a live mapping      *)
(* never ends in a closed handle, whatever ranges earlier mappings left.   *)
THEOREM LiveMappingsServed == OrderlyFiles => (Spec => LiveMappingServed)
<1> DEFINE ServedStep == \A p \in Pages :
              TranslationFault(p) /\ (\E i \in Live : InRange(i, p)) => halt' # "closedFile"
<1>1. AllInv => ServedStep
  <2> SUFFICES ASSUME AllInv, NEW p \in Pages, TranslationFault(p), NEW i \in Live, InRange(i, p)
               PROVE  halt' # "closedFile"
    OBVIOUS
  <2>1. CASE MemoryFault(p) \/ SideloadFault(p)
    BY <2>1 DEF MemoryFault, LoadMemory, SideloadFault, LoadSideload, Faults
  <2>2. CASE NoFreePage(p)
    BY <2>2 DEF NoFreePage
  <2>3. CASE FileFault(p)
    <3>1. PICK j \in Slots : /\ Serves(j, p) /\ sock[j].path \notin SideloadPaths
                             /\ halt' = IF sock[j].path = NoPath \/ sock[j].file \notin Paths
                                        THEN "closedFile" ELSE halt
      BY <2>3 DEF FileFault, LoadFile
    <3>2. j = i
      BY <3>1, LiveFirst DEF AllInv, Inv, FileInv
    <3>3. sock[j].path \in Paths /\ sock[j].file = sock[j].path /\ sock[j].path # NoPath
      BY <3>1, <3>2, SlotFacts DEF AllInv, Inv, FileInv, SlotsOrderly, Entry, HandleOf, Live
    <3> QED BY <2>3, <3>1, <3>3 DEF FileFault, LoadFile, Faults
  <2> QED BY <2>1, <2>2, <2>3 DEF TranslationFault
<1>2. AllInv => [ServedStep]_vars
  BY <1>1
<1> QED BY <1>2, InitAll, NextAll, PTL DEF Spec, LiveMappingServed, ServedStep

(* boot1/mm.c:497: a frame is clean when it is given to another page, also *)
(* when the search finds no clean frame and writes files back first.       *)
THEOREM FreshFramesClean == OrderlyFiles => (Spec => FreshFrameClean)
<1>1. AllInv /\ [Next]_vars => [FreshStep]_vars
  BY NextAll
<1> QED BY <1>1, InitAll, NextAll, PTL DEF Spec, FreshFrameClean, FreshStep

-----------------------------------------------------------------------------
(* The loops of get_new_page_frame, and the owner's view.                  *)

(* Walking around the frames from framePtr: one step at a time, back at    *)
(* the start after the last frame, and no frame is met twice.              *)
LEMMA WalkFacts ==
    ASSUME TypeOK, NEW f \in Frames
    PROVE  /\ Steps(f) \in 0 .. NumFrames - 1
           /\ Steps(framePtr) = 0
           /\ After(f) \in Frames
           /\ Steps(f) + 1 < NumFrames => Steps(After(f)) = Steps(f) + 1
           /\ Steps(f) + 1 >= NumFrames => After(f) = framePtr
           /\ \A g \in Frames : Steps(g) = Steps(f) => g = f
<1>1. PICK n \in Nat : n = NumFrames /\ n > 0
  BY FramesAssumption
<1>2. PICK s \in 0 .. n - 1 : s = framePtr
  BY <1>1 DEF TypeOK, Frames
<1>3. \A g \in Frames : g \in 0 .. n - 1
  BY <1>1 DEF Frames
<1> QED BY <1>1, <1>2, <1>3 DEF Steps, After, Frames

(* A search in progress: the page has still to be served, every frame      *)
(* between framePtr and the pointer was passed by, and once the first loop *)
(* is over no frame is clean.                                              *)
SearchInv ==
    \/ Idle
    \/ /\ search \in Search
       /\ Faults(search.page) /\ IsServed(search.page)
       /\ \A g \in Frames : ~Resident(search.page, g)
       /\ Steps(search.ptr) = search.cnt
       /\ \A g \in Frames : Steps(g) < search.cnt => PassedBy(g)
       /\ search.notFound => CleanFrames = {}

(* At the last frame of a loop, every frame was passed by.                 *)
LEMMA AllPassedBy ==
    ASSUME TypeOK, SearchInv, ~Idle, PassedBy(search.ptr), LastOfLoop, NEW g \in Frames
    PROVE  PassedBy(g)
<1>1. search \in Search /\ Steps(search.ptr) = search.cnt
  BY DEF SearchInv
<1>2. search.ptr \in Frames /\ search.cnt \in 0 .. NumFrames - 1
  BY <1>1 DEF Search
<1>3. Steps(g) \in 0 .. NumFrames - 1 /\ (Steps(g) = Steps(search.ptr) => g = search.ptr)
  BY <1>2, WalkFacts
<1>4. CASE Steps(g) < search.cnt
  BY <1>4 DEF SearchInv
<1>5. CASE g = search.ptr
  BY <1>5
<1> QED BY <1>1, <1>2, <1>3, <1>4, <1>5, FramesAssumption DEF LastOfLoop

LEMMA SearchBegins ==
    ASSUME TypeOK, NEW p \in Pages, BeginSearch(p)
    PROVE  SearchInv'
<1>1. search' = [page |-> p, ptr |-> framePtr, cnt |-> 0, notFound |-> FALSE]
  BY DEF BeginSearch
<1>2. framePtr \in Frames /\ NumFrames \in Nat \ {0}
  BY FramesAssumption DEF TypeOK
<1>3. search' \in Search
  BY <1>1, <1>2 DEF Search
<1>4. Steps(framePtr) = 0 /\ \A g \in Frames : Steps(g) \in Nat
  BY <1>2, WalkFacts
<1>5. UNCHANGED vars
  BY DEF BeginSearch
<1>6. /\ (Faults(p) /\ IsServed(p))'
      /\ \A g \in Frames : ~Resident(p, g)'
      /\ \A g \in Frames : Steps(g)' = Steps(g)
  BY <1>5 DEF BeginSearch, vars, Faults, IsServed, InMemory, InMain, InApp, InRange,
              Resident, FirstMapping, Steps
<1>7. (Steps(search.ptr) = search.cnt)'
  BY <1>1, <1>4, <1>5 DEF vars, Steps
<1> QED BY <1>1, <1>3, <1>4, <1>6, <1>7 DEF SearchInv

LEMMA SearchGoesOn ==
    ASSUME TypeOK, SearchInv, PassBy
    PROVE  SearchInv'
<1>1. /\ search \in Search /\ Steps(search.ptr) = search.cnt
      /\ Faults(search.page) /\ IsServed(search.page)
      /\ \A g \in Frames : ~Resident(search.page, g)
  BY DEF PassBy, SearchInv
<1>2. /\ search.ptr \in Frames /\ search.cnt \in 0 .. NumFrames - 1
      /\ search.notFound \in BOOLEAN /\ search.page \in Pages
  BY <1>1 DEF Search
<1>3. UNCHANGED vars
  BY DEF PassBy
<1>4. NumFrames \in Nat \ {0}
  BY FramesAssumption
<1>5. /\ After(search.ptr) \in Frames
      /\ search.cnt + 1 < NumFrames => Steps(After(search.ptr)) = search.cnt + 1
      /\ search.cnt + 1 >= NumFrames => After(search.ptr) = framePtr
      /\ Steps(framePtr) = 0
      /\ \A g \in Frames : Steps(g) \in Nat /\ (Steps(g) = search.cnt => g = search.ptr)
  BY <1>1, <1>2, WalkFacts
<1>6. /\ search'.page = search.page
      /\ search'.ptr = After(search.ptr)
      /\ search'.cnt = IF LastOfLoop THEN 0 ELSE search.cnt + 1
      /\ search'.notFound = (search.notFound \/ LastOfLoop)
      /\ search' \in Search
  <2>1. search' = [search EXCEPT !.ptr = After(@),
                                 !.cnt = IF LastOfLoop THEN 0 ELSE @ + 1,
                                 !.notFound = @ \/ LastOfLoop]
    BY DEF PassBy
  <2>2. (IF LastOfLoop THEN 0 ELSE search.cnt + 1) \in 0 .. NumFrames - 1
    BY <1>2, <1>4 DEF LastOfLoop
  <2>3. (search.notFound \/ LastOfLoop) \in BOOLEAN
    OBVIOUS
  <2> QED BY <1>1, <1>2, <1>5, <2>1, <2>2, <2>3 DEF Search
<1>7. /\ (Faults(search.page) /\ IsServed(search.page))'
      /\ \A g \in Frames : (~Resident(search.page, g))'
      /\ \A g \in Frames : Steps(g)' = Steps(g)
  BY <1>1, <1>3, <1>6 DEF vars, Faults, IsServed, InMemory, InMain, InApp, InRange,
                          Resident, FirstMapping, Steps
<1>8. Steps(search.ptr)' = Steps(After(search.ptr))
  BY <1>3, <1>6 DEF vars, Steps
<1>9. CASE LastOfLoop
  <2>1. ~search.notFound /\ PassedBy(search.ptr) /\ ~Idle
    BY <1>9 DEF PassBy
  <2>2. \A g \in Frames : lock[g] \/ dirty[g]
    BY <1>9, <2>1, AllPassedBy DEF PassedBy
  <2>3. (CleanFrames = {})'
    BY <1>3, <2>2 DEF vars, CleanFrames
  <2>4. (Steps(search.ptr) = search.cnt)'
    BY <1>5, <1>6, <1>8, <1>9, <1>2, <1>4 DEF LastOfLoop
  <2>5. \A g \in Frames : ~(Steps(g)' < search'.cnt)
    BY <1>5, <1>6, <1>7, <1>9
  <2> QED BY <1>6, <1>7, <2>3, <2>4, <2>5 DEF SearchInv
<1>10. CASE ~LastOfLoop
  <2>1. search.cnt + 1 < NumFrames /\ search'.cnt = search.cnt + 1
        /\ search'.notFound = search.notFound
    BY <1>2, <1>4, <1>6, <1>10 DEF LastOfLoop
  <2>2. \A g \in Frames : Steps(g) < search.cnt + 1 => PassedBy(g)
    <3> SUFFICES ASSUME NEW g \in Frames, Steps(g) < search.cnt + 1 PROVE PassedBy(g)
      OBVIOUS
    <3>1. CASE Steps(g) < search.cnt
      BY <3>1 DEF SearchInv, PassBy
    <3>2. CASE Steps(g) = search.cnt
      BY <3>2, <1>5 DEF PassBy
    <3> QED BY <3>1, <3>2, <1>5, <1>2
  <2>3. \A g \in Frames : (Steps(g) < search.cnt => PassedBy(g))'
    BY <1>3, <1>7, <2>1, <2>2 DEF vars, PassedBy
  <2>4. (Steps(search.ptr) = search.cnt)'
    BY <1>5, <1>8, <2>1
  <2>5. (search.notFound => CleanFrames = {})'
    BY <1>3, <2>1 DEF SearchInv, PassBy, vars, CleanFrames
  <2> QED BY <1>6, <1>7, <2>3, <2>4, <2>5 DEF SearchInv
<1> QED BY <1>9, <1>10

(* The frame the loops end at is the one MM hands out.                     *)
LEMMA SearchFinds ==
    ASSUME TypeOK, SearchInv, TakeFrame
    PROVE  search.page \in Pages /\ TranslationFault(search.page)
<1>1. /\ search \in Search /\ Steps(search.ptr) = search.cnt
      /\ Faults(search.page)
      /\ \A g \in Frames : ~Resident(search.page, g)
      /\ \A g \in Frames : Steps(g) < search.cnt => PassedBy(g)
      /\ search.notFound => CleanFrames = {}
      /\ ~PassedBy(search.ptr)
  BY DEF TakeFrame, SearchInv
<1>2. search.ptr \in Frames /\ search.cnt \in Nat /\ search.page \in Pages
      /\ \A g \in Frames : Steps(g) \in Nat
  BY <1>1, WalkFacts, FramesAssumption DEF Search
<1>3. \A g \in Frames : ~PassedBy(g) => Steps(search.ptr) <= Steps(g)
  BY <1>1, <1>2
<1>4. GetNewPageFrame(search.page, search.ptr)
  <2>1. CASE ~search.notFound
    <3>1. \A g \in Frames : g \in CleanFrames <=> ~PassedBy(g)
      BY <2>1 DEF CleanFrames, PassedBy
    <3>2. FirstOf(CleanFrames, search.ptr)
      BY <1>1, <1>2, <1>3, <3>1 DEF FirstOf, CleanFrames
    <3> QED BY <1>1, <2>1, <3>2 DEF GetNewPageFrame, TakeFrame
  <2>2. CASE search.notFound
    <3>1. \A g \in Frames : g \in ReclaimFrames <=> ~PassedBy(g)
      BY <2>2 DEF ReclaimFrames, PassedBy
    <3>2. FirstOf(ReclaimFrames, search.ptr)
      BY <1>1, <1>2, <1>3, <3>1 DEF FirstOf, ReclaimFrames
    <3> QED BY <1>1, <2>2, <3>2 DEF GetNewPageFrame, TakeFrame
  <2> QED BY <2>1, <2>2
<1>5. LoadPage(search.page, search.ptr)
  BY DEF TakeFrame
<1> QED BY <1>1, <1>2, <1>4, <1>5 DEF LoadPage, TranslationFault, MemoryFault, FileFault,
                                      SideloadFault

(* The loops give up where MM finds no frame.                              *)
LEMMA SearchGivesUp ==
    ASSUME TypeOK, SearchInv, GiveUp
    PROVE  search.page \in Pages /\ NoFreePage(search.page)
<1>1. /\ search \in Search /\ Steps(search.ptr) = search.cnt
      /\ Faults(search.page) /\ IsServed(search.page)
      /\ \A g \in Frames : ~Resident(search.page, g)
      /\ CleanFrames = {}
  BY DEF GiveUp, SearchInv
<1>2. search.ptr \in Frames /\ search.page \in Pages
  BY <1>1 DEF Search
<1>3. framePtr' = framePtr
  BY <1>1, <1>2, WalkFacts DEF GiveUp, LastOfLoop
<1>4. ReclaimFrames = {}
  BY AllPassedBy DEF GiveUp, PassedBy, ReclaimFrames
<1> QED BY <1>1, <1>2, <1>3, <1>4 DEF GiveUp, NoFreePage, NoFrameFor, frameVars

(* Step by step, a fault is the one step of MM or has not happened yet.    *)
LEMMA FaultStepFaults ==
    ASSUME TypeOK, SearchInv, FaultStep
    PROVE  /\ (\E p \in Pages : TranslationFault(p)) \/ UNCHANGED vars
           /\ SearchInv'
<1>1. ASSUME NEW p \in Pages, ResidentFault(p)
      PROVE  TranslationFault(p) /\ SearchInv'
  BY <1>1 DEF ResidentFault, SearchInv, Idle
<1>2. ASSUME NEW p \in Pages, BeginSearch(p)
      PROVE  UNCHANGED vars /\ SearchInv'
  BY <1>2, SearchBegins DEF BeginSearch
<1>3. CASE PassBy
  BY <1>3, SearchGoesOn DEF PassBy
<1>4. CASE GiveUp
  BY <1>4, SearchGivesUp DEF GiveUp, SearchInv, Idle, TranslationFault
<1>5. CASE TakeFrame
  BY <1>5, SearchFinds DEF TakeFrame, SearchInv, Idle
<1> QED BY <1>1, <1>2, <1>3, <1>4, <1>5 DEF FaultStep

LEMMA UnchangedSearch ==
    ASSUME SearchInv, UNCHANGED <<vars, search>>
    PROVE  SearchInv'
<1>1. CASE Idle
  BY <1>1 DEF SearchInv, Idle
<1>2. CASE ~Idle
  <2>1. /\ Faults(search.page)' = Faults(search.page)
        /\ IsServed(search.page)' = IsServed(search.page)
        /\ \A g \in Frames : Resident(search.page, g)' = Resident(search.page, g)
    BY DEF vars, Faults, IsServed, InMemory, InMain, InApp, InRange, Resident, FirstMapping
  <2>2. /\ Steps(search.ptr)' = Steps(search.ptr)
        /\ \A g \in Frames : Steps(g)' = Steps(g) /\ (PassedBy(g)' <=> PassedBy(g))
        /\ CleanFrames' = CleanFrames
    BY DEF vars, Steps, PassedBy, CleanFrames
  <2> QED BY <1>2, <2>1, <2>2 DEF SearchInv
<1> QED BY <1>1, <1>2

LEMMA ViewStep ==
    ASSUME TypeOK, SearchInv, [ViewNext]_viewVars
    PROVE  [Next]_vars /\ SearchInv'
<1>1. ASSUME Paging PROVE Next
  <2>1. ASSUME NEW p \in Pages \ MemPages, NEW v \in Values, Store(p, v) PROVE Next
    BY <2>1 DEF Next
  <2> QED BY <1>1, <2>1 DEF Paging, Next
<1>2. ASSUME NEW p \in MemPages, NEW v \in Values, StoreByOwner(p, v) PROVE Next
  BY <1>2, MemPageFacts DEF StoreByOwner, Next
<1>3. ASSUME NEW p \in MemPages, LoadByOwner(p) PROVE UNCHANGED vars
  BY <1>3 DEF LoadByOwner
<1>4. ASSUME NEW p \in MemPages, TrimByOwner(p) PROVE Next
  BY <1>4 DEF TrimByOwner, Next
<1>5. ASSUME NEW w \in WarpRequests, LendByOwner(w[1], w[2]) PROVE Next
  BY <1>5 DEF LendByOwner, Next
<1>6. CASE FaultStep
  <2>1. (\E p \in Pages : TranslationFault(p)) => Next
    BY DEF Next
  <2> QED BY <1>6, <2>1, FaultStepFaults
<1>7. ASSUME Idle, UNCHANGED search PROVE SearchInv'
  BY <1>7 DEF SearchInv, Idle
<1>8. CASE Return
  <2>1. UNCHANGED <<vars, search>>
    BY <1>8 DEF Return
  <2> QED BY <2>1, UnchangedSearch
<1>9. CASE UNCHANGED viewVars
  <2>1. UNCHANGED <<vars, search>>
    BY <1>9 DEF viewVars
  <2> QED BY <2>1, UnchangedSearch
<1> QED BY <1>1, <1>2, <1>3, <1>4, <1>5, <1>6, <1>7, <1>8, <1>9 DEF ViewNext

ViewState == Inv /\ SearchInv

LEMMA ViewInv == ViewSpec => []ViewState
<1>1. ViewInit => ViewState
  BY InitInv DEF ViewInit, ViewState, SearchInv
<1>2. ViewState /\ [ViewNext]_viewVars => ViewState'
  BY ViewStep, NextInv DEF ViewState, Inv
<1> QED BY <1>1, <1>2, PTL DEF ViewSpec

(* The loops of get_new_page_frame implement the one step of MM.           *)
THEOREM SearchesAreAtomic == ViewSpec => SearchIsAtomic
<1>1. ViewInit => Init
  BY DEF ViewInit
<1>2. ViewState /\ [ViewNext]_viewVars => [Next]_vars
  BY ViewStep DEF ViewState, Inv
<1> QED BY <1>1, <1>2, ViewInv, PTL DEF ViewSpec, SearchIsAtomic, Spec

(* boot1 gives up only when no frame can be taken: wherever page_frame_ptr *)
(* stands, the two loops miss no frame, and the frames stay as they were   *)
(* found.                                                                  *)
THEOREM HangsOnlyWhenFull == ViewSpec => []HangOnlyWhenFull
<1>1. Init => HangOnlyWhenFull
  BY DEF Init, HangOnlyWhenFull
<1>2. HangOnlyWhenFull /\ [Next]_vars => HangOnlyWhenFull'
  <2> SUFFICES ASSUME HangOnlyWhenFull, [Next]_vars, halt' = "noFreePage",
                      NEW f \in Frames
               PROVE  lock'[f] \/ (dirty'[f] /\ tag'[f] = MainTag)
    BY DEF HangOnlyWhenFull
  <2>1. CASE halt = "no"
    <3>1. PICK p \in Pages : NoFreePage(p)
      BY <2>1, HaltStep
    <3>2. NoFrameFor(p) /\ UNCHANGED <<lock, dirty, tag>>
      BY <3>1 DEF NoFreePage, frameVars
    <3>3. lock[f] \/ (dirty[f] /\ tag[f] = MainTag)
      BY <3>2 DEF NoFrameFor, CleanFrames, ReclaimFrames
    <3> QED BY <3>2, <3>3
  <2>2. CASE halt # "no"
    <3>1. UNCHANGED vars
      BY <2>2, HaltedStays
    <3> QED BY <3>1 DEF vars, HangOnlyWhenFull
  <2> QED BY <2>1, <2>2
<1> QED BY <1>1, <1>2, SearchesAreAtomic, PTL DEF SearchIsAtomic, Spec

(* A step the owner does not see leaves memory alone.                      *)
LEMMA PagingSilent ==
    ASSUME Inv, Paging
    PROVE  AbsMem' = AbsMem
<1>1. ASSUME NEW r \in LockRequests, LockVaddr(r[1], r[2]) PROVE AbsMem' = AbsMem
  BY <1>1 DEF LockVaddr, AbsMem, DirtyFrames
<1>2. ASSUME NEW p \in Pages, NEW mode \in {"user", "sys"}, PermissionFault(p, mode)
      PROVE  AbsMem' = AbsMem
  BY <1>2, PermissionKeepsMemory
<1>3. ASSUME NEW p \in Pages \ MemPages, NEW v \in Values, Store(p, v)
      PROVE  AbsMem' = AbsMem
  BY <1>3, StoreHitsItsPage
<1>4. CASE ResetAppMemWarp
  BY <1>4 DEF ResetAppMemWarp, frameVars, AbsMem, DirtyFrames
<1>5. ASSUME NEW r \in MapRequests, Mmap(r) PROVE AbsMem' = AbsMem
  BY <1>5, MmapKeepsMemory
<1>6. ASSUME NEW r \in MapRequests, MmapOpenFails(r) PROVE AbsMem' = AbsMem
  BY <1>6, MmapFailureKeepsMemory
<1>7. ASSUME NEW i \in Slots \ {0}, Munmap(i) PROVE AbsMem' = AbsMem
  BY <1>7, MunmapKeepsMemory
<1> QED BY <1>1, <1>2, <1>3, <1>4, <1>5, <1>6, <1>7 DEF Paging

(* Every load returns the value of the last store, every store changes its *)
(* page and no other, and only pages given back are forgotten: each step   *)
(* of the manager maps to a step of FlatMemory or to a stutter.            *)
THEOREM PagingImplementsFlatMemory == ViewSpec => MemoryIsFlat
<1>1. ViewInit => Flat!FlatInit
  <2> SUFFICES ASSUME ViewInit PROVE Flat!FlatInit
    OBVIOUS
  <2>1. \A f \in Frames : ~dirty[f]
    BY DEF ViewInit, Init
  <2>2. \A p \in MemPages : DirtyFrames(p) = {}
    BY <2>1 DEF DirtyFrames
  <2> QED BY <2>2 DEF AbsMem, ViewInit, Flat!FlatInit
<1>2. ASSUME ViewState, [ViewNext]_viewVars PROVE [Flat!FlatNext]_<<AbsMem, op>>
  <2>0. Inv /\ SearchInv /\ TypeOK
    BY <1>2 DEF ViewState, Inv
  <2>1. ASSUME NEW p \in MemPages, LoadByOwner(p), op = NoOp PROVE Flat!FlatNext
    <3>1. pte[p].frame \in Frames /\ mapAddr[pte[p].frame] = p
      BY <2>0, <2>1, MemPageFacts DEF LoadByOwner, Inv, PteSound, TypeOK, Pte
    <3>2. data[pte[p].frame] = AbsMem[p]
      BY <2>0, <3>1, AbsMemFacts DEF AbsFacts, Inv, MemInv
    <3>3. UNCHANGED AbsMem
      BY <2>1 DEF LoadByOwner, vars, AbsMem, DirtyFrames
    <3>4. Flat!FlatLoad(p)
      BY <2>1, <3>2, <3>3 DEF LoadByOwner, Flat!FlatLoad
    <3> QED BY <3>4 DEF Flat!FlatNext
  <2>2. ASSUME NEW p \in MemPages, NEW v \in Values, StoreByOwner(p, v), op = NoOp
        PROVE  Flat!FlatNext
    <3>1. AbsMem' = [AbsMem EXCEPT ![p] = <<v>>]
      BY <2>0, <2>2, StoreHitsItsPage, MemPageFacts DEF StoreByOwner
    <3>2. Flat!FlatStore(p, v)
      BY <2>2, <3>1 DEF StoreByOwner, Flat!FlatStore
    <3> QED BY <3>2 DEF Flat!FlatNext
  <2>3. ASSUME NEW p \in MemPages, TrimByOwner(p), op = NoOp PROVE Flat!FlatNext
    <3>1. AbsMem' = [AbsMem EXCEPT ![p] = Junk]
      BY <2>0, <2>3, TrimForgetsItsPage DEF TrimByOwner
    <3>2. AbsMem' = [q \in MemPages |-> IF q \in {p} THEN Junk ELSE AbsMem[q]]
      BY <3>1 DEF AbsMem
    <3>3. Flat!FlatGiveBack({p}, {p})
      BY <2>3, <3>2 DEF TrimByOwner, Flat!FlatGiveBack
    <3> QED BY <3>3 DEF Flat!FlatNext
  <2>4. ASSUME NEW w \in WarpRequests, LendByOwner(w[1], w[2]), op = NoOp
        PROVE  Flat!FlatNext
    <3> DEFINE S == (w[1] .. w[1] + w[2] - 1) \cap MemPages
    <3>1. w[1] \in Nat /\ w[2] \in Nat
      BY RequestAssumption, PagesAssumption
    <3>2. /\ \A p \in MemPages : AbsMem'[p] = IF p \in w[1] .. w[1] + w[2] - 1
                                              THEN Junk ELSE AbsMem[p]
          /\ AbsMem' = [p \in MemPages |-> AbsMem'[p]]
      BY <2>0, <2>4, <3>1, WarpForgetsLentPages DEF LendByOwner
    <3>3. AbsMem' = [p \in MemPages |-> IF p \in S THEN Junk ELSE AbsMem[p]]
      BY <3>2
    <3>4. op' = [kind |-> "giveBack", pages |-> S]
      BY <2>4 DEF LendByOwner
    <3>5. S \in SUBSET MemPages /\ S \in SUBSET S
      OBVIOUS
    <3> HIDE DEF S
    <3>6. Flat!FlatGiveBack(S, S)
      BY <2>4, <3>3, <3>4 DEF Flat!FlatGiveBack
    <3> QED BY <3>5, <3>6 DEF Flat!FlatNext
  <2>5. ASSUME Paging, UNCHANGED op PROVE UNCHANGED <<AbsMem, op>>
    BY <2>0, <2>5, PagingSilent
  <2>6. ASSUME Return PROVE Flat!FlatNext
    <3>1. UNCHANGED AbsMem
      BY <2>6 DEF Return, vars, AbsMem, DirtyFrames
    <3>2. Flat!FlatReturn
      BY <2>6, <3>1 DEF Return, Flat!FlatReturn
    <3> QED BY <3>2 DEF Flat!FlatNext
  <2>7. ASSUME UNCHANGED viewVars PROVE UNCHANGED <<AbsMem, op>>
    BY <2>7 DEF viewVars, vars, AbsMem, DirtyFrames
  <2>8. ASSUME FaultStep, UNCHANGED op PROVE UNCHANGED <<AbsMem, op>>
    <3>1. ASSUME NEW p \in Pages, TranslationFault(p) PROVE UNCHANGED AbsMem
      BY <2>0, <3>1, TranslationKeepsMemory
    <3>2. UNCHANGED vars => UNCHANGED AbsMem
      BY DEF vars, AbsMem, DirtyFrames
    <3> QED BY <2>0, <2>8, <3>1, <3>2, FaultStepFaults
  <2> QED BY <1>2, <2>1, <2>2, <2>3, <2>4, <2>5, <2>6, <2>7, <2>8 DEF ViewNext
<1> QED BY <1>1, <1>2, ViewInv, PTL DEF ViewSpec, MemoryIsFlat, Flat!FlatSpec, Flat!flatVars
-----------------------------------------------------------------------------
(* Progress of an instruction, under mappings that are not writable.  Then *)
(* what is dirty is memory: the second search never runs, and a page has   *)
(* one frame, whatever it is a page of.                                    *)

NoWritable == \A i \in Slots : ~sock[i].writable

DirtyIsMemory == \A f \in Frames : dirty[f] => mapAddr[f] \in MemPages

FramesApart == \A f, g \in Frames : mapAddr[f] = mapAddr[g] /\ mapAddr[f] # 0 => f = g

NothingLent == warp = [at |-> MainBase, max |-> 0]

ReadOnlyInv == /\ ReadOnlyMaps /\ Inv
               /\ NoWritable /\ DirtyIsMemory /\ FramesApart /\ NothingLent

(* The frame a fault on page q is given, in one search.                    *)
Handed(q, f) == \/ Resident(q, f)
                \/ (\A g \in Frames : ~Resident(q, g)) /\ FirstOf(CleanFrames, f)

(* What a fault that finds a frame does.                                   *)
Loads(p, f, o) ==
    /\ Faults(p) /\ Handed(p, f) /\ SetNewPgf(p, f, o)
    /\ framePtr' = IF Resident(p, f) THEN framePtr ELSE After(f)
    /\ UNCHANGED <<dirty, sock, warp>>

LEMMA CleanIsEvictable == ReadOnlyInv => Evictable = CleanFrames
BY DEF ReadOnlyInv, Inv, MemInv, MarkedMain, DirtyIsMemory, Evictable, CleanFrames

AnotherClean == \A f \in Frames : \E g \in CleanFrames : g # f

LEMMA TwoClean == ReadOnlyInv /\ TwoEvictable => AnotherClean
<1> SUFFICES ASSUME ReadOnlyInv, TwoEvictable, NEW f \in Frames,
                    \A g \in CleanFrames : g = f
             PROVE  FALSE
  BY DEF AnotherClean
<1>1. PICK S : S = CleanFrames
  OBVIOUS
<1>2. S \subseteq {f} /\ Cardinality(S) >= 2
  BY <1>1, CleanIsEvictable DEF TwoEvictable
<1>3. IsFiniteSet({f}) /\ Cardinality({f}) = 1
  BY FS_Singleton
<1>4. IsFiniteSet(S) /\ Cardinality(S) \in Nat /\ Cardinality(S) <= 1
  BY <1>2, <1>3, FS_Subset, FS_CardinalityType
<1> QED
  BY <1>2, <1>4

LEMMA OneSearch ==
    ASSUME ReadOnlyInv, NEW p \in Pages, NEW f \in Frames, GetNewPageFrame(p, f)
    PROVE  /\ Handed(p, f) /\ UNCHANGED dirty
           /\ framePtr' = IF Resident(p, f) THEN framePtr ELSE After(f)
<1>1. ReclaimFrames \subseteq CleanFrames
  BY DEF ReadOnlyInv, Inv, MemInv, MarkedMain, DirtyIsMemory, ReclaimFrames, CleanFrames
<1> QED
  BY <1>1 DEF GetNewPageFrame, Handed, FirstOf

LEMMA FaultLoads ==
    ASSUME ReadOnlyInv, NEW p \in Pages, TranslationFault(p)
    PROVE  \/ \E f \in Frames, o \in Slots \cup {MainTag} : Loads(p, f, o)
           \/ NoFreePage(p)
<1>1. CASE MemoryFault(p)
  BY <1>1, OneSearch DEF MemoryFault, LoadMemory, Loads
<1>2. CASE FileFault(p)
  BY <1>2, OneSearch DEF FileFault, LoadFile, Loads
<1>3. CASE SideloadFault(p)
  BY <1>3, OneSearch DEF SideloadFault, LoadSideload, Loads
<1> QED
  BY <1>1, <1>2, <1>3 DEF TranslationFault

LEMMA FaultFindsFrame ==
    ASSUME ReadOnlyInv, TwoEvictable, NEW p \in Pages, TranslationFault(p)
    PROVE  \E f \in Frames, o \in Slots \cup {MainTag} : Loads(p, f, o)
<1>1. ~NoFreePage(p)
  <2>1. 0 \in Frames
    BY FramesAssumption DEF Frames
  <2> QED
    BY <2>1, TwoClean DEF AnotherClean, NoFreePage, NoFrameFor
<1> QED
  BY <1>1, FaultLoads

(* A page that faults has no frame, or the one it is given.                *)
LEMMA LoadKeepsApart ==
    ASSUME ReadOnlyInv, NEW p \in Pages, NEW f \in Frames, NEW o, Loads(p, f, o)
    PROVE  FramesApart' /\ DirtyIsMemory'
<1>1. /\ \A g \in Frames : mapAddr'[g] = IF g = f THEN p ELSE mapAddr[g]
      /\ dirty' = dirty
  BY DEF Loads, SetNewPgf, ReadOnlyInv, Inv, TypeOK
<1>2. p # 0
  BY PagesAssumption
<1>3. ASSUME NEW g \in Frames, mapAddr[g] = p PROVE g = f
  <2>1. FirstMapping(p, g)
    <3>1. \A h \in Frames : mapAddr[h] = p => h = g
      BY <1>2, <1>3 DEF ReadOnlyInv, FramesApart
    <3> QED
      BY <1>3, <3>1 DEF FirstMapping, Frames
  <2>2. ~dirty[g]
    BY <1>3 DEF Loads, Faults, ReadOnlyInv, DirtyIsMemory, Inv, MemInv, DirtyReachable
  <2>3. Resident(p, f)
    BY <2>1, <2>2 DEF Loads, Handed, Resident
  <2> QED
    BY <1>2, <1>3, <2>3 DEF Resident, FirstMapping, ReadOnlyInv, FramesApart
<1>4. FramesApart'
  BY <1>1, <1>3 DEF ReadOnlyInv, FramesApart
<1>5. ~dirty[f]
  BY DEF Loads, Handed, Resident, FirstOf, CleanFrames
<1> QED
  BY <1>1, <1>4, <1>5 DEF ReadOnlyInv, DirtyIsMemory

(* A store is permitted in memory alone.                                   *)
LEMMA PermittedInMemory ==
    ASSUME ReadOnlyInv, NEW p \in Pages, NEW mode, WritePermitted(p, mode)
    PROVE  p \in MemPages
<1>1. InMain(p) \/ InApp(p)
  BY DEF WritePermitted, ReadOnlyInv, NoWritable
<1>2. warp.at = MainBase /\ warp.max = 0 /\ p \in Nat
  BY PagesAssumption DEF ReadOnlyInv, NothingLent
<1> QED
  BY <1>1, <1>2, PagesAssumption DEF InMain, InApp, MemPages

LEMMA ReadOnlyStart == ReadOnlyMaps /\ Init => ReadOnlyInv
<1> SUFFICES ASSUME ReadOnlyMaps, Init PROVE ReadOnlyInv
  OBVIOUS
<1>1. ~BootMap.writable
  BY DEF ReadOnlyMaps, Requests
<1>2. NoWritable
  BY <1>1 DEF Init, NoWritable, Filled
<1>3. DirtyIsMemory /\ FramesApart /\ NothingLent
  BY DEF Init, DirtyIsMemory, FramesApart, NothingLent
<1> QED
  BY <1>2, <1>3, InitInv DEF ReadOnlyInv

(* What the processor and the remapping in between do to the frames.       *)
CpuMove ==
    \/ \E p \in Pages : TranslationFault(p) \/ PermissionFault(p, "sys")
    \/ \E p \in Pages, v \in Values : Store(p, v)
    \/ \E p \in MemPages : TrimPage(p)
    \/ \E r \in MapRequests : Mmap(r)
    \/ \E i \in Slots \ {0} : Munmap(i)
    \/ UNCHANGED vars

LEMMA InstrPages ==
    ASSUME instr \in Instr
    PROVE  /\ instr.code \in Pages /\ instr.data \in Pages
           /\ instr.store \in BOOLEAN
BY InstrAssumption DEF Instr

LEMMA CpuMoves ==
    ASSUME instr \in Instr \cup {NoInstr}, [CpuNext]_cpuVars
    PROVE  CpuMove
<1>1. instr # NoInstr => instr.code \in Pages /\ instr.data \in Pages
  BY InstrPages
<1> QED
  BY <1>1 DEF CpuNext, CpuStep, Issue, PrefetchAbort, DataAbort, RetireLoad, RetireStore,
              Remap, CpuMove, cpuVars

LEMMA ReadOnlyStep ==
    ASSUME ReadOnlyInv, CpuMove
    PROVE  ReadOnlyInv'
<1>1. Inv'
  <2>1. [Next]_vars
    BY DEF CpuMove, Next
  <2> QED
    BY <2>1, NextInv DEF ReadOnlyInv
<1> DEFINE Rest == NoWritable /\ DirtyIsMemory /\ FramesApart /\ NothingLent
<1> SUFFICES Rest'
  BY <1>1 DEF ReadOnlyInv, ReadOnlyMaps, Requests
<1>2. ASSUME NEW p \in Pages, TranslationFault(p) PROVE Rest'
  <2>1. CASE NoFreePage(p)
    BY <2>1 DEF NoFreePage, frameVars, ReadOnlyInv, NoWritable, DirtyIsMemory, FramesApart,
                NothingLent
  <2>2. ASSUME NEW f \in Frames, NEW o, Loads(p, f, o) PROVE Rest'
    BY <2>2, LoadKeepsApart DEF Loads, ReadOnlyInv, NoWritable, NothingLent
  <2> QED
    BY <1>2, <2>1, <2>2, FaultLoads
<1>3. ASSUME NEW p \in Pages, PermissionFault(p, "sys") PROVE Rest'
  <2>1. p \in MemPages
    BY <1>3, PermittedInMemory DEF PermissionFault
  <2>2. /\ \A f \in Frames : dirty'[f] => dirty[f] \/ mapAddr[f] = p
        /\ UNCHANGED <<mapAddr, sock, warp>>
    BY <1>3 DEF PermissionFault, DirtiedFrames, FirstMapping
  <2> QED
    BY <2>1, <2>2 DEF ReadOnlyInv, NoWritable, DirtyIsMemory, FramesApart, NothingLent
<1>4. ASSUME NEW p \in Pages, NEW v \in Values, Store(p, v) PROVE Rest'
  BY <1>4 DEF Store, ReadOnlyInv, NoWritable, DirtyIsMemory, FramesApart, NothingLent
<1>5. ASSUME NEW p \in MemPages, TrimPage(p) PROVE Rest'
  <2>1. PICK f \in Frames : /\ mapAddr' = [mapAddr EXCEPT ![f] = 0]
                            /\ dirty' = [dirty EXCEPT ![f] = FALSE]
    BY <1>5 DEF TrimPage
  <2>2. \A g \in Frames : /\ mapAddr'[g] = IF g = f THEN 0 ELSE mapAddr[g]
                          /\ dirty'[g] = (g # f /\ dirty[g])
    BY <2>1 DEF ReadOnlyInv, Inv, TypeOK
  <2>3. UNCHANGED <<sock, warp>>
    BY <1>5 DEF TrimPage
  <2> QED
    BY <2>2, <2>3 DEF ReadOnlyInv, NoWritable, DirtyIsMemory, FramesApart, NothingLent
<1>6. ASSUME NEW r \in MapRequests, Mmap(r) PROVE Rest'
  <2>1. ~r.writable
    BY DEF ReadOnlyInv, ReadOnlyMaps, Requests
  <2>2. PICK i \in Slots : \E h, n : sock' = [sock EXCEPT ![i] = Filled(r, h, n)]
    BY <1>6 DEF Mmap
  <2>3. NoWritable'
    BY <2>1, <2>2 DEF Filled, ReadOnlyInv, NoWritable, Inv, TypeOK
  <2> QED
    BY <1>6, <2>3 DEF Mmap, frameVars, ReadOnlyInv, DirtyIsMemory, FramesApart, NothingLent
<1>7. ASSUME NEW i \in Slots \ {0}, Munmap(i) PROVE Rest'
  <2>1. ASSUME NEW k \in Slots PROVE ~Closed(i)[k].writable
    <3>1. sock[k] \in Sock /\ ~sock[k].writable
      BY DEF ReadOnlyInv, NoWritable, Inv, TypeOK
    <3> QED
      BY <3>1 DEF Closed, Sock
  <2>2. NoWritable'
    BY <1>7, <2>1 DEF Munmap, NoWritable
  <2>3. ASSUME NEW f \in Frames, dirty'[f] PROVE mapAddr'[f] \in MemPages
    <3>1. dirty[f] /\ mapAddr[f] \in MemPages /\ tag[f] = MainTag
      BY <1>7, <2>3 DEF Munmap, CleanDirty, ReadOnlyInv, DirtyIsMemory, Inv, MemInv, MarkedMain
    <3>2. f \notin TaggedFrames(i)
      BY <3>1, MainNotLive DEF TaggedFrames
    <3> QED
      BY <1>7, <3>1, <3>2 DEF Munmap
  <2>4. FramesApart'
    BY <1>7 DEF Munmap, ReadOnlyInv, FramesApart
  <2> QED
    BY <1>7, <2>2, <2>3, <2>4 DEF Munmap, DirtyIsMemory, ReadOnlyInv, NothingLent
<1>8. CASE UNCHANGED vars
  BY <1>8 DEF vars, ReadOnlyInv, NoWritable, DirtyIsMemory, FramesApart, NothingLent
<1> QED
  BY <1>2, <1>3, <1>4, <1>5, <1>6, <1>7, <1>8 DEF CpuMove

-----------------------------------------------------------------------------
(* A fault on page q leaves the entry of page p alone.                     *)
Safe(p, q) ==
    /\ pte[p] # NoPte
    /\ \A f \in Frames : Handed(q, f) => p \notin Cleared(q, f)

LEMMA LoadedPresent ==
    ASSUME NEW q \in Pages, NEW f \in Frames, NEW o, Loads(q, f, o)
    PROVE  pte'[q] = [frame |-> f, rw |-> FALSE] /\ pte'[q] # NoPte
<1>1. [frame |-> f, rw |-> FALSE] # NoPte
  <2>1. [frame |-> f, rw |-> FALSE] \in [frame : Frames, rw : BOOLEAN]
    OBVIOUS
  <2> QED BY <2>1, MarkerAssumption, Zenon
<1>2. pte'[q] = [frame |-> f, rw |-> FALSE]
  BY DEF Loads, SetNewPgf
<1> QED
  BY <1>1, <1>2

LEMMA SafeStays ==
    ASSUME NEW p \in Pages, NEW q \in Pages, p # q, Safe(p, q),
           NEW f \in Frames, NEW o, Loads(q, f, o)
    PROVE  pte'[p] = pte[p] /\ pte[p] # NoPte
BY DEF Safe, Loads, SetNewPgf

(* The frame handed out by the search is the last one the next search      *)
(* comes to.                                                               *)
LEMMA LastInTurn ==
    ASSUME NEW f \in Frames, NEW g \in Frames, g # f, framePtr' = After(f)
    PROVE  Steps(g)' < Steps(f)'
<1>1. framePtr' = IF f = NumFrames - 1 THEN 0 ELSE f + 1
  BY DEF After
<1>2. /\ f \in Nat /\ g \in Nat /\ f <= NumFrames - 1 /\ g <= NumFrames - 1
      /\ NumFrames \in Nat
  BY FramesAssumption DEF Frames
<1>3. CASE f = NumFrames - 1
  BY <1>1, <1>2, <1>3 DEF Steps
<1>4. CASE f # NumFrames - 1
  BY <1>1, <1>2, <1>4 DEF Steps
<1> QED
  BY <1>3, <1>4

(* The table a fault has just taken is not the next one to be taken.       *)
LEMMA NewTableStays ==
    ASSUME ReadOnlyInv, ReadOnlyInv',
           NEW q \in Pages, NEW f \in Frames, NEW o, Loads(q, f, o),
           ~Located(SectionOf(q))
    PROVE  loc'[NextTable'] # SectionOf(q)
<1>1. NextTable \in Tables /\ curSel' = NextTable
  BY FramesAssumption DEF NextTable, Tables, ReadOnlyInv, Inv, TypeOK, Loads, SetNewPgf,
                          LocateSection
<1>2. NextTable' \in Tables /\ NextTable' # NextTable
  <2>1. NextTable' = IF curSel' = NumMaps THEN 1 ELSE curSel' + 1
    BY DEF NextTable
  <2>2. NumMaps \in Nat /\ NumMaps >= 2
    BY FramesAssumption DEF ReadOnlyInv, ReadOnlyMaps
  <2>3. PICK t \in Tables : t = NextTable
    BY <1>1
  <2> QED
    BY <1>1, <2>1, <2>2, <2>3 DEF Tables
<1>3. loc'[NextTable] = SectionOf(q)
  BY <1>1 DEF Loads, SetNewPgf, LocateSection, ReadOnlyInv, Inv, TypeOK
<1>4. SectionOf(q) # NoSection
  BY PagesAssumption
<1> QED
  BY <1>1, <1>2, <1>3, <1>4 DEF ReadOnlyInv, Inv, SectionSound

(* A page whose fault took the entry of another one is safe when that one  *)
(* is loaded again: either it has the frame, and the search has moved on,  *)
(* or the table, and the other page still has its frame.                   *)
LEMMA SecondLoadSafe ==
    ASSUME ReadOnlyInv, ReadOnlyInv', TwoEvictable',
           NEW c \in Pages, NEW d \in Pages, c # d,
           NEW f \in Frames, NEW o, Loads(d, f, o),
           pte[c] # NoPte, pte'[c] = NoPte
    PROVE  Safe(d, c)'
<1>1. /\ \A g \in Frames : mapAddr'[g] = IF g = f THEN d ELSE mapAddr[g]
      /\ dirty' = dirty
  BY DEF Loads, SetNewPgf, ReadOnlyInv, Inv, TypeOK
<1>2. c \in Cleared(d, f)
  BY DEF Loads, SetNewPgf
<1>3. d # 0 /\ c # 0
  BY PagesAssumption
<1>4. ASSUME NEW h \in Frames, Handed(c, h)', mapAddr'[h] = d PROVE FALSE
  <2>1. h = f
    BY <1>1, <1>3, <1>4 DEF ReadOnlyInv, FramesApart
  <2>2. (\A g \in Frames : ~Resident(c, g)') /\ FirstOf(CleanFrames, f)'
    BY <1>4, <2>1 DEF Handed, Resident, FirstMapping
  <2>3. CASE Resident(d, f)
    <3>1. c \in Displaced(d)
      BY <1>2, <2>3 DEF Cleared, Resident, FirstMapping
    <3>2. pte[c].frame \in Frames /\ mapAddr[pte[c].frame] = c
      BY DEF ReadOnlyInv, Inv, PteSound, TypeOK, Pte
    <3>3. PICK g : g = pte[c].frame
      OBVIOUS
    <3>4. g \in Frames /\ mapAddr[g] = c /\ mapAddr'[g] = c
      BY <1>1, <2>3, <3>2, <3>3 DEF Resident, FirstMapping
    <3>5. ~dirty[g]
      <4>1. NextTable \in Tables
        BY FramesAssumption DEF NextTable, Tables, ReadOnlyInv, Inv, TypeOK
      <4>2. SectionOf(c) # MainSection
        BY <3>1, <4>1 DEF Displaced, ReadOnlyInv, Inv, SectionSound
      <4> QED
        BY <3>4, <4>2, MemPageFacts DEF ReadOnlyInv, DirtyIsMemory
    <3>6. FirstMapping(c, g)'
      <4>1. \A h2 \in Frames : mapAddr'[h2] = c => h2 = g
        BY <1>3, <3>4 DEF ReadOnlyInv, FramesApart
      <4> QED
        BY <3>4, <4>1 DEF FirstMapping, Frames
    <3> QED
      BY <1>1, <2>2, <3>4, <3>5, <3>6 DEF Resident
  <2>4. CASE ~Resident(d, f)
    <3>1. framePtr' = After(f)
      BY <2>4 DEF Loads
    <3>2. (ReadOnlyInv /\ TwoEvictable => AnotherClean)'
      BY TwoClean, PTL
    <3>3. PICK g \in CleanFrames' : g # f
      BY <3>2 DEF AnotherClean
    <3>4. g \in Frames
      BY <3>3 DEF CleanFrames
    <3>5. Steps(f)' <= Steps(g)'
      BY <2>2, <3>3 DEF FirstOf
    <3>6. Steps(g)' < Steps(f)'
      BY <3>1, <3>3, <3>4, LastInTurn
    <3>7. Steps(f)' \in Int /\ Steps(g)' \in Int
      BY <3>4, FramesAssumption DEF Steps, Frames, ReadOnlyInv, Inv, TypeOK
    <3> QED
      BY <3>5, <3>6, <3>7
  <2> QED
    BY <2>3, <2>4
<1>5. ASSUME d \in Displaced(c)' PROVE FALSE
  <2>1. ~Located(SectionOf(c))' /\ SectionOf(d) = loc'[NextTable']
    BY <1>5 DEF Displaced
  <2>2. Located(SectionOf(c))
    BY DEF ReadOnlyInv, Inv, SectionSound
  <2>3. loc' # loc
    BY <2>1, <2>2 DEF Located
  <2>4. ~Located(SectionOf(d))
    BY <2>3 DEF Loads, SetNewPgf, LocateSection
  <2> QED
    BY <2>1, <2>4, NewTableStays
<1>6. pte'[d] # NoPte
  BY LoadedPresent
<1>7. \A h \in Frames : Handed(c, h)' => d \notin Cleared(c, h)'
  BY <1>4, <1>5 DEF Cleared
<1> QED
  BY <1>6, <1>7 DEF Safe

-----------------------------------------------------------------------------
(* How many aborts are still to come, while two frames can be evicted.     *)

Limit == IF instr.store THEN 4 ELSE 3

Rank ==
    IF pte[instr.code] = NoPte
    THEN IF Safe(instr.data, instr.code) THEN Limit - 2 ELSE Limit
    ELSE IF pte[instr.data] = NoPte THEN Limit - 1
    ELSE IF instr.store /\ ~pte[instr.data].rw THEN 1 ELSE 0

LEMMA RankBound == instr \in Instr => Limit \in {3, 4} /\ Rank \in 0 .. Limit
BY InstrPages DEF Limit, Rank

LEMMA AbortLowersRank ==
    ASSUME ReadOnlyInv, ReadOnlyInv', instr \in Instr, instr' = instr,
           TwoEvictable, PrefetchAbort \/ DataAbort
    PROVE  Rank > 0 /\ (TwoEvictable' => Rank' < Rank)
<1>1. PICK c, d \in Pages : c = instr.code /\ d = instr.data
  BY InstrPages
<1>2. Limit' = Limit /\ (Limit = IF instr.store THEN 4 ELSE 3) /\ instr.store \in BOOLEAN
  BY InstrPages DEF Limit
<1>3. Rank = IF pte[c] = NoPte THEN IF Safe(d, c) THEN Limit - 2 ELSE Limit
             ELSE IF pte[d] = NoPte THEN Limit - 1
             ELSE IF instr.store /\ ~pte[d].rw THEN 1 ELSE 0
  BY <1>1 DEF Rank
<1>4. Rank' = IF pte'[c] = NoPte THEN IF Safe(d, c)' THEN Limit - 2 ELSE Limit
              ELSE IF pte'[d] = NoPte THEN Limit - 1
              ELSE IF instr.store /\ ~pte'[d].rw THEN 1 ELSE 0
  <2>1. instr'.code = c /\ instr'.data = d /\ instr'.store = instr.store
    BY <1>1
  <2>2. Safe(instr.data, instr.code)' <=> Safe(d, c)'
    BY <2>1 DEF Safe, Handed, Resident, FirstMapping, Cleared, Displaced
  <2> QED
    BY <1>2, <2>1, <2>2 DEF Rank
<1>5. CASE PrefetchAbort
  <2>1. pte[c] = NoPte /\ TranslationFault(c)
    BY <1>1, <1>5 DEF PrefetchAbort, Fetched
  <2>2. PICK f \in Frames, o \in Slots \cup {MainTag} : Loads(c, f, o)
    BY <2>1, FaultFindsFrame
  <2>3. pte'[c] # NoPte
    BY <2>2, LoadedPresent
  <2>4. CASE Safe(d, c)
    <3>1. d # c
      BY <2>1, <2>4 DEF Safe
    <3>2. pte'[d] # NoPte
      BY <2>2, <2>4, <3>1, SafeStays
    <3> QED
      BY <1>2, <1>3, <1>4, <2>1, <2>3, <2>4, <3>2
  <2>5. CASE ~Safe(d, c)
    BY <1>2, <1>3, <1>4, <2>1, <2>3, <2>5
  <2> QED
    BY <2>4, <2>5
<1>6. CASE DataAbort /\ TranslationFault(d)
  <2>1. pte[c] # NoPte /\ pte[d] = NoPte /\ c # d
    BY <1>1, <1>6 DEF DataAbort, Fetched, TranslationFault, MemoryFault, LoadMemory, FileFault, LoadFile,
                      SideloadFault, LoadSideload, NoFreePage, Faults
  <2>2. PICK f \in Frames, o \in Slots \cup {MainTag} : Loads(d, f, o)
    BY <1>6, FaultFindsFrame
  <2>3. pte'[d] # NoPte
    BY <2>2, LoadedPresent
  <2>4. TwoEvictable' /\ pte'[c] = NoPte => Safe(d, c)'
    BY <2>1, <2>2, SecondLoadSafe
  <2> QED
    BY <1>2, <1>3, <1>4, <2>1, <2>3, <2>4
<1>7. CASE DataAbort /\ instr.store /\ PermissionFault(d, "sys")
  <2>1. pte[c] # NoPte /\ pte[d] # NoPte /\ ~pte[d].rw
    BY <1>1, <1>7 DEF DataAbort, Fetched, PermissionFault
  <2>2. pte[d] \in Pte /\ pte' = [pte EXCEPT ![d].rw = TRUE]
    BY <1>7, <2>1 DEF PermissionFault, ReadOnlyInv, Inv, TypeOK
  <2>3. pte'[d] = [pte[d] EXCEPT !.rw = TRUE]
    BY <2>2 DEF ReadOnlyInv, Inv, TypeOK
  <2>4. pte'[d].rw /\ pte'[d] \in Pte
    BY <2>2, <2>3 DEF Pte
  <2>5. pte'[d] # NoPte
    BY <2>4, MarkerAssumption DEF Pte
  <2>6. pte'[c] # NoPte
    BY <2>1, <2>2, <2>5 DEF ReadOnlyInv, Inv, TypeOK
  <2> QED
    BY <1>3, <1>4, <1>7, <2>1, <2>4, <2>5, <2>6
<1> QED
  BY <1>1, <1>5, <1>6, <1>7 DEF DataAbort

ProgressInv ==
    /\ ReadOnlyInv
    /\ instr \in Instr \cup {NoInstr} /\ aborts \in Nat
    /\ instr = NoInstr => aborts = 0
    /\ instr # NoInstr => aborts <= Limit /\ (TwoEvictable => aborts + Rank <= Limit)

LEMMA ProgressStep ==
    ASSUME ProgressInv, [CpuNext]_cpuVars
    PROVE  ProgressInv'
<1>1. ReadOnlyInv'
  BY CpuMoves, ReadOnlyStep DEF ProgressInv
<1>2. CASE PrefetchAbort \/ DataAbort
  <2>1. instr # NoInstr /\ instr' = instr /\ instr \in Instr /\ instr' \in Instr
        /\ aborts' = IF ~TwoEvictable THEN 0 ELSE IF aborts < 5 THEN aborts + 1 ELSE 5
    BY <1>2 DEF PrefetchAbort, DataAbort, CountAbort, Many, ProgressInv
  <2>2. Limit \in {3, 4} /\ Rank \in 0 .. Limit /\ Limit' = Limit
    BY <2>1, RankBound DEF Limit
  <2>3. Rank' \in 0 .. Limit
    <3>1. (instr \in Instr => Limit \in {3, 4} /\ Rank \in 0 .. Limit)'
      BY RankBound, PTL
    <3> QED
      BY <2>1, <2>2, <3>1
  <2>4. CASE TwoEvictable
    <3>1. Rank > 0 /\ (TwoEvictable' => Rank' < Rank)
      BY <1>1, <1>2, <2>1, <2>4, AbortLowersRank DEF ProgressInv
    <3>2. aborts \in Nat /\ aborts + Rank <= Limit
      BY <2>1, <2>4 DEF ProgressInv
    <3>3. aborts' = aborts + 1
      <4>1. PICK r, n : r = Rank /\ n = Limit
        OBVIOUS
      <4>2. r \in 0 .. n /\ n \in {3, 4} /\ aborts \in Nat /\ aborts + r <= n /\ r > 0
        BY <2>2, <3>1, <3>2, <4>1
      <4>3. aborts < 5
        BY <4>2
      <4> QED
        BY <2>1, <2>4, <4>3
    <3>4. aborts' \in Nat /\ aborts' <= Limit /\ (TwoEvictable' => aborts' + Rank' <= Limit)
      <4>1. PICK r, s, n : r = Rank /\ s = Rank' /\ n = Limit
        OBVIOUS
      <4>2. r \in 0 .. n /\ s \in 0 .. n /\ n \in {3, 4} /\ aborts + r <= n /\ r > 0
        BY <2>2, <2>3, <3>1, <3>2, <4>1
      <4>3. TwoEvictable' => s < r
        BY <3>1, <4>1
      <4>4. aborts + 1 \in Nat /\ aborts + 1 <= n /\ (s < r => (aborts + 1) + s <= n)
        BY <3>2, <4>2
      <4> QED
        BY <3>3, <4>1, <4>3, <4>4
    <3> QED
      BY <1>1, <2>1, <2>2, <3>4 DEF ProgressInv
  <2>5. CASE ~TwoEvictable
    <3>1. aborts' = 0
      BY <2>1, <2>5
    <3>2. aborts' \in Nat /\ aborts' <= Limit /\ aborts' + Rank' <= Limit
      <4>1. PICK s, n : s = Rank' /\ n = Limit
        OBVIOUS
      <4>2. s \in 0 .. n /\ n \in {3, 4}
        BY <2>2, <2>3, <4>1
      <4>3. 0 \in Nat /\ 0 <= n /\ 0 + s <= n
        BY <4>2
      <4> QED
        BY <3>1, <4>1, <4>3
    <3> QED
      BY <1>1, <2>1, <2>2, <3>2 DEF ProgressInv
  <2> QED
    BY <2>4, <2>5
<1>3. CASE RetireLoad \/ RetireStore
  BY <1>1, <1>3 DEF RetireLoad, RetireStore, ProgressInv
<1>4. CASE Issue
  <2>1. instr' \in Instr /\ aborts' = 0
    BY <1>4 DEF Issue, ProgressInv
  <2>2. Limit' \in {3, 4} /\ Rank' \in 0 .. Limit'
    <3>1. (instr \in Instr => Limit \in {3, 4} /\ Rank \in 0 .. Limit)'
      BY RankBound, PTL
    <3> QED
      BY <2>1, <3>1
  <2>3. aborts' \in Nat /\ aborts' <= Limit' /\ aborts' + Rank' <= Limit'
    <3>1. PICK s, n : s = Rank' /\ n = Limit'
      OBVIOUS
    <3>2. s \in 0 .. n /\ n \in {3, 4}
      BY <2>2, <3>1
    <3>3. 0 \in Nat /\ 0 <= n /\ 0 + s <= n
      BY <3>2
    <3> QED
      BY <2>1, <3>1, <3>3
  <2> QED
    BY <1>1, <2>1, <2>3, InstrAssumption DEF ProgressInv
<1>5. CASE Remap
  BY <1>1, <1>5 DEF Remap, ProgressInv
<1>6. CASE UNCHANGED cpuVars
  <2>1. UNCHANGED vars /\ instr' = instr /\ aborts' = aborts
    BY <1>6 DEF cpuVars
  <2>2. TwoEvictable' = TwoEvictable /\ Limit' = Limit /\ Rank' = Rank
    BY <2>1 DEF vars, TwoEvictable, Evictable, Limit, Rank, Safe, Handed, Resident,
                FirstMapping, FirstOf, CleanFrames, Steps, Cleared, Displaced, Located, NextTable
  <2> QED
    BY <1>1, <2>1, <2>2 DEF ProgressInv
<1> QED
  BY <1>2, <1>3, <1>4, <1>5, <1>6 DEF CpuNext, CpuStep

(* An instruction aborts for its code, for its data, once more for its     *)
(* code, and for the permission to store, and then it has what it needs:   *)
(* as long as two frames can be evicted, the circular search              *)
(* (boot1/mm.c:463) and the round-robin choice of a table (mm.c:432) do    *)
(* not take one of its pages for the other again and again.                *)
THEOREM AbortsAreFew == ReadOnlyMaps => (CpuSpec => []FewAborts)
<1>1. ReadOnlyMaps /\ CpuInit => ProgressInv
  BY ReadOnlyStart DEF CpuInit, ProgressInv
<1>2. ProgressInv /\ [CpuNext]_cpuVars => ProgressInv'
  BY ProgressStep
<1>3. ProgressInv => FewAborts
  BY DEF ProgressInv, FewAborts, Limit
<1> QED
  BY <1>1, <1>2, <1>3, PTL DEF CpuSpec
=============================================================================
