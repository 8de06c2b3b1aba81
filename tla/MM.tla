-------------------------------- MODULE MM --------------------------------
(***************************************************************************)
(* The page-frame manager of the boot1 supervisor (boot1/mm.c): a small    *)
(* array of 1 KB page frames backs the main memory, the application        *)
(* memory and the memory-mapped files of a machine with no other RAM.      *)
(* Pages are loaded by translation faults, made writable by permission     *)
(* faults, and taken back by a circular search over the frames.            *)
(*                                                                         *)
(* A page is its page number (address \div PAGE_SIZE); number 0 stands for *)
(* "no address" exactly as map_addrs = 0 does in the code.  A page-table   *)
(* entry is kept under its page: the table that serves a section is        *)
(* cleared whenever it is given to another section (get_l1_mpte), so the   *)
(* entries of a section no L1 entry points at are all empty.               *)
(* The D-cache and the TLB are maintained by every operation and are not   *)
(* part of the state.                                                      *)
(***************************************************************************)
EXTENDS Integers, FiniteSets

CONSTANTS
    NumFrames,       \* PAGE_FRAMES
    PagesPerSection, \* pages served by one L1 entry (1 MB / PAGE_SIZE)
    Pages,           \* the virtual pages the running code touches
    MainBase,        \* MAIN_MEMORY_BASE
    MemMax,          \* memory_max, in pages
    AppBase,         \* APP_MEMORY_BASE
    AppLimit,        \* bound: no application is given more pages than this
    NumMaps,         \* MAX_ALLOW_MMAP_FILE, also the number of movable L1 entries
    Paths,           \* files that are mapped
    SideloadPaths,   \* those whose path starts with '\03'
    Prefixes,        \* <<a, b>>: path a is a prefix of path b
    MaxFilePages,    \* bound: no file has more pages than this
    FilePages,       \* FilePages[path]: size of the file in pages
    BootMap,         \* the mapping boot1 makes before the system starts
    MapRequests,     \* the mmap_info requests of the system
    WarpRequests,    \* <<svaddr, pages>> of LL_SWI_SET_APP_MEM_WARP
    LockRequests,    \* <<page, lock>> of LL_SWI_GET_VADDR_LOCK
    Values,          \* what a store can put into a page
    Disciplined,     \* callers keep live mappings disjoint and of distinct files
    NoPte, NoPath, NoFile, Dangling, NoPending  \* model values

Frames  == 0 .. NumFrames - 1
Slots   == 0 .. NumMaps - 1
Tables  == 1 .. NumMaps       \* L2 tables of the movable L1 entries; table 0 serves main memory
MainTag == 15                 \* mmap_socket of a frame that backs main or application memory
NoSection == 0                \* section 0 is identity mapped and never paged
MemPages == {p \in Pages : \/ p \in MainBase .. MainBase + MemMax - 1
                           \/ p \in AppBase .. AppBase + AppLimit - 1}
SectionOf(p) == p \div PagesPerSection
MainSection == SectionOf(MainBase)
Requests == MapRequests \cup {BootMap}

Junk == <<>>                            \* bytes nobody promises anything about
Offsets == 0 .. MaxFilePages - 1        \* pages of a file
Data == {Junk} \cup {<<v>> : v \in Values} \cup {<<h, o>> : h \in Paths, o \in Offsets}

RequestType == [to : Nat, path : Paths, offset : Nat, size : Nat,
                writable : BOOLEAN, writeback : BOOLEAN]

ASSUME FramesAssumption == NumFrames \in Nat \ {0} /\ NumMaps \in 1 .. 14
ASSUME PagesAssumption ==
    /\ PagesPerSection \in Nat \ {0}
    /\ Pages \subseteq Nat \ {0}
    /\ \A p \in Pages : SectionOf(p) \in Nat \ {NoSection}
    /\ MainSection \in Nat \ {NoSection}
    /\ MainBase \in Nat \ {0} /\ MemMax \in Nat /\ AppBase \in Nat /\ AppLimit \in Nat
    /\ \A p \in MemPages : SectionOf(p) = MainSection
    /\ Disciplined \in BOOLEAN
ASSUME SideloadAssumption == SideloadPaths \subseteq Paths
ASSUME MarkerAssumption ==
    /\ NoPte \notin [frame : Frames, rw : BOOLEAN]
    /\ {NoPath, NoFile, Dangling} \cap Paths = {}
    /\ NoPending \notin Frames \X Nat
(* Callers map whole files or a given size, outside the section of main    *)
(* memory (sys.bin at 0x00100000, application images at 0x08000000) and     *)
(* shorter than the address of main memory (32 MB).                        *)
ASSUME RequestAssumption ==
    /\ Requests \subseteq RequestType
    /\ MaxFilePages \in Nat /\ FilePages \in [Paths -> 0 .. MaxFilePages]
    /\ \A r \in Requests : r.size = 0 => r.offset = 0
    /\ \A r \in Requests, p \in MemPages : \A n \in {r.size} \cup {FilePages[h] : h \in Paths} :
          n <= p /\ (p < r.to \/ r.to + n <= p)
    /\ \A p \in Pages : p \in MemPages \/ SectionOf(p) # MainSection
    /\ WarpRequests \subseteq (Nat \ {0}) \X (0 .. AppLimit)
    /\ LockRequests \subseteq Pages \X BOOLEAN

VARIABLES
    mapAddr,  \* page_frame_attr[f].map_addrs
    tag,      \* page_frame_attr[f].mmap_socket
    dirty,    \* page_frame_attr[f].dirty
    lock,     \* page_frame_attr[f].lock
    data,     \* contents of the frame
    framePtr, \* page_frame_ptr
    pte,      \* the L2 entry of a page
    loc,      \* the section a movable L1 entry serves (DIGCTL_MPTEn_LOC)
    curSel,   \* the static curSel of get_l1_mpte, as a table number
    sock,     \* mmap_socket[]
    warp,     \* app_mem_warped_at, app_memory_max
    pending,  \* side_load_pending_paddr (a frame), side_load_pending_off
    disk,     \* contents of the files
    halt      \* "no", or how boot1 stopped

frameVars == <<mapAddr, tag, dirty, lock, data, framePtr>>
tableVars == <<pte, loc, curSel>>
vars == <<mapAddr, tag, dirty, lock, data, framePtr, pte, loc, curSel,
          sock, warp, pending, disk, halt>>

Pte == [frame : Frames, rw : BOOLEAN]
Sock == [mapTo : Nat, path : Paths \cup {NoPath}, offset : Nat, size : Nat,
         file : Paths \cup {NoFile, Dangling}, writable : BOOLEAN, writeback : BOOLEAN]

TypeOK ==
    /\ mapAddr \in [Frames -> Pages \cup {0}]
    /\ tag \in [Frames -> Slots \cup {MainTag}]
    /\ dirty \in [Frames -> BOOLEAN]
    /\ lock \in [Frames -> BOOLEAN]
    /\ data \in [Frames -> Data]
    /\ framePtr \in Frames
    /\ pte \in [Pages -> Pte \cup {NoPte}]
    /\ loc \in [Tables -> Nat]
    /\ curSel \in 0 .. NumMaps
    /\ sock \in [Slots -> Sock]
    /\ warp \in [at : Nat, max : 0 .. AppLimit]
    /\ pending \in (Frames \X Nat) \cup {NoPending}
    /\ disk \in [Paths -> [Offsets -> Data]]
    /\ halt \in {"no", "noFreePage", "closedFile"}

-----------------------------------------------------------------------------
(* Who serves a page: the address tests of do_dab.                         *)

InMain(p) == \/ MainBase <= p /\ p < warp.at
             \/ warp.at + warp.max <= p /\ p < MainBase + MemMax

InApp(p) == AppBase <= p /\ p < AppBase + warp.max

InMemory(p) == InMain(p) \/ InApp(p)

InRange(i, p) == sock[i].mapTo <= p /\ p < sock[i].mapTo + sock[i].size

(* The first entry of mmap_socket[] whose range holds p.  Neither munmap   *)
(* nor a failed mmap resets the size, so a free entry keeps a range that   *)
(* starts at address 0.                                                    *)
ServesLast(i, p) == /\ ~InMemory(p)   \* mutant: the last matching entry wins
                    /\ InRange(i, p)
                    /\ \A j \in Slots : InRange(j, p) => j <= i

Serves(i, p) == /\ ~InMemory(p)
                /\ InRange(i, p)
                /\ \A j \in Slots : InRange(j, p) => i <= j

IsServed(p) == InMemory(p) \/ \E i \in Slots : InRange(i, p)

FileOffset(i, p) == p - sock[i].mapTo + sock[i].offset

(* lfs_file_seek and lfs_file_read of one page; past the end of the file   *)
(* the frame keeps bytes nobody promises anything about.                   *)
ReadPage(d, i, p) ==
    IF sock[i].file \in Paths /\ FileOffset(i, p) \in 0 .. FilePages[sock[i].file] - 1
    THEN d[sock[i].file][FileOffset(i, p)] ELSE Junk

-----------------------------------------------------------------------------
(* clean_file_page of every frame.  A dirty frame of main memory indexes   *)
(* mmap_socket[15], past the end of the table of five: with the heap       *)
(* layout of mm_init the writeback flag found there is a padding byte of   *)
(* page_frame_attr[31], never set, so nothing is written and the entry     *)
(* stays writable.                                                         *)
CleanableNone == {}  \* mutant: nothing is ever written back

CleanableFrames ==
    {f \in Frames : /\ dirty[f]
                    /\ tag[f] # MainTag
                    /\ sock[tag[f]].writable /\ sock[tag[f]].writeback}

CleanDirty == [f \in Frames |-> dirty[f] /\ f \notin CleanableFrames]

(* Frames are written in ascending order: of two frames that hold the same *)
(* page of a file, the higher one stays on the disk.                       *)
WrittenTo(h, o) ==
    {f \in CleanableFrames : /\ sock[tag[f]].file = h
                             /\ FileOffset(tag[f], mapAddr[f]) = o}

CleanDisk ==
    [h \in Paths |-> [o \in Offsets |->
        IF WrittenTo(h, o) = {} THEN disk[h][o]
        ELSE data[CHOOSE f \in WrittenTo(h, o) : \A g \in WrittenTo(h, o) : g <= f]]]

-----------------------------------------------------------------------------
(* get_new_page_frame.                                                     *)

FirstMapping(p, f) == mapAddr[f] = p /\ \A g \in Frames : mapAddr[g] = p => f <= g

(* The fast path: the frame that already holds the page, unless dirty.     *)
Resident(p, f) == FirstMapping(p, f) /\ ~dirty[f]

(* How far the circular search walks from page_frame_ptr to reach f.       *)
Steps(f) == IF f >= framePtr THEN f - framePtr ELSE f + NumFrames - framePtr

CleanUnlessLocked == {f \in Frames : ~dirty[f]}  \* mutant: lock is not looked at

CleanFrames   == {f \in Frames : ~dirty[f] /\ ~lock[f]}
ReclaimFrames == {f \in Frames : tag[f] # MainTag /\ ~lock[f]}

FirstOf(S, f) == f \in S /\ \A g \in S : Steps(f) <= Steps(g)

AfterNoWrap(f) == f + 1  \* mutant: page_frame_ptr runs off the end
AfterStay(f) == f        \* mutant: page_frame_ptr is not moved past the victim

After(f) == IF f = NumFrames - 1 THEN 0 ELSE f + 1

(* Frame f is handed out for page p: the resident one, else the first      *)
(* clean and unlocked one, else, once no frame is clean, the first         *)
(* unlocked one that does not back memory, after a write-back of all files.*)
(* The loops that look for it are in FrameSearch.                          *)
GetNewPageFrame(p, f) ==
    \/ /\ Resident(p, f)
       /\ UNCHANGED <<framePtr, dirty, disk>>
    \/ /\ \A g \in Frames : ~Resident(p, g)
       /\ FirstOf(CleanFrames, f)
       /\ framePtr' = After(f)
       /\ UNCHANGED <<dirty, disk>>
    \/ /\ \A g \in Frames : ~Resident(p, g)
       /\ CleanFrames = {}
       /\ FirstOf(ReclaimFrames, f)
       /\ framePtr' = After(f)
       /\ dirty' = CleanDirty
       /\ disk' = CleanDisk

NoFrameFor(p) == /\ \A g \in Frames : ~Resident(p, g)
                 /\ CleanFrames = {}
                 /\ ReclaimFrames = {}

-----------------------------------------------------------------------------
(* get_l1_mpte: an L1 entry that already serves the section, else the next *)
(* one in turn, whose table is cleared.                                    *)

LocatedMovable(s) == \E t \in Tables : loc[t] = s  \* mutant: the search starts at entry 1

Located(s) == s = MainSection \/ \E t \in Tables : loc[t] = s

NextTable == IF curSel = NumMaps THEN 1 ELSE curSel + 1

LocateSection(p) ==
    IF Located(SectionOf(p)) THEN UNCHANGED <<loc, curSel>>
    ELSE /\ curSel' = NextTable
         /\ loc' = [loc EXCEPT ![NextTable] = SectionOf(p)]

(* The pages whose entries the cleared table held.                         *)
Displaced(p) == IF Located(SectionOf(p)) THEN {}
                ELSE {q \in Pages : SectionOf(q) = loc[NextTable]}

(* The pages that lose their entry when p gets frame f: the one the frame  *)
(* held (get_new_page_frame) and those of a reused table.                  *)
ClearedTableOnly(p, f) == Displaced(p)  \* mutant: the evicted page keeps its entry

Cleared(p, f) == {mapAddr[f]} \cup Displaced(p)

(* set_new_pgf: page p gets a read-only entry; do_dab then tags the frame  *)
(* with its owner.                                                         *)
SetNewPgf(p, f, owner) ==
    /\ LocateSection(p)
    /\ pte' = [q \in Pages |->
                 IF q = p THEN [frame |-> f, rw |-> FALSE]
                 ELSE IF q \in Cleared(p, f) THEN NoPte ELSE pte[q]]
    /\ mapAddr' = [mapAddr EXCEPT ![f] = p]
    /\ tag' = [tag EXCEPT ![f] = owner]

-----------------------------------------------------------------------------
(* do_dab, translation fault: one action per owner of the page.            *)

Faults(p) == halt = "no" /\ pte[p] = NoPte

(* A page of main or application memory in frame f, which is not cleared:  *)
(* what another page left in it means nothing to this one.                 *)
LoadMemory(p, f) ==
    /\ InMemory(p)
    /\ SetNewPgf(p, f, MainTag)
    /\ data' = [data EXCEPT ![f] = IF mapAddr[f] = p THEN @ ELSE Junk]
    /\ UNCHANGED <<lock, sock, warp, pending, halt>>

(* A page of a mapped file is read from the file, also when it was         *)
(* resident.  A closed or freed handle ends in littlefs.                   *)
LoadFile(p, f) ==
    /\ \E i \in Slots :
         /\ Serves(i, p)
         /\ sock[i].path \notin SideloadPaths
         /\ SetNewPgf(p, f, i)
         /\ data' = [data EXCEPT ![f] = ReadPage(disk', i, p)]
         /\ halt' = IF sock[i].path = NoPath \/ sock[i].file \notin Paths
                    THEN "closedFile" ELSE halt
    /\ UNCHANGED <<lock, sock, warp, pending>>

(* A side-loaded page: the frame is locked and announced, and do_dab       *)
(* returns 1 so that the system fetches the contents.                      *)
LoadSideload(p, f) ==
    /\ \E i \in Slots :
         /\ Serves(i, p)
         /\ sock[i].path \in SideloadPaths
         /\ SetNewPgf(p, f, i)
         /\ data' = [data EXCEPT ![f] = IF mapAddr[f] = p THEN @ ELSE Junk]
         /\ lock' = [lock EXCEPT ![f] = TRUE]
         /\ pending' = <<f, FileOffset(i, p)>>
    /\ UNCHANGED <<sock, warp, halt>>

LoadPage(p, f) == LoadMemory(p, f) \/ LoadFile(p, f) \/ LoadSideload(p, f)

MemoryFault(p) ==
    Faults(p) /\ \E f \in Frames : GetNewPageFrame(p, f) /\ LoadMemory(p, f)

FileFault(p) ==
    Faults(p) /\ \E f \in Frames : GetNewPageFrame(p, f) /\ LoadFile(p, f)

SideloadFault(p) ==
    Faults(p) /\ \E f \in Frames : GetNewPageFrame(p, f) /\ LoadSideload(p, f)

(* "ERROR: no free page!" and while(1).                                    *)
NoFreePage(p) ==
    /\ Faults(p) /\ IsServed(p) /\ NoFrameFor(p)
    /\ halt' = "noFreePage"
    /\ UNCHANGED <<frameVars, tableVars, sock, warp, pending, disk>>

TranslationFault(p) == \/ MemoryFault(p) \/ FileFault(p)
                       \/ SideloadFault(p) \/ NoFreePage(p)

-----------------------------------------------------------------------------
(* do_dab, permission fault: a store hit a read-only entry.  Main memory   *)
(* refuses user mode, a file refuses every store unless mapped writable;   *)
(* a refusal returns -1 and changes nothing.                               *)
WritePermitted(p, mode) ==
    \/ InMain(p) /\ mode # "user"
    \/ InApp(p) /\ ~InMain(p)
    \/ \E i \in Slots : Serves(i, p) /\ sock[i].writable

(* set_pgf_perm: the first frame that holds the page becomes dirty, the    *)
(* entry becomes writable.                                                 *)
DirtiesNothing(p) == {}  \* mutant: the frame is not marked dirty

DirtiedFrames(p) == {f \in Frames : FirstMapping(p, f)}

PermissionFault(p, mode) ==
    /\ halt = "no"
    /\ pte[p] # NoPte /\ ~pte[p].rw
    /\ WritePermitted(p, mode)
    /\ dirty' = [f \in Frames |-> dirty[f] \/ f \in DirtiedFrames(p)]
    /\ pte' = [pte EXCEPT ![p].rw = TRUE]
    /\ UNCHANGED <<mapAddr, tag, lock, data, framePtr, loc, curSel,
                   sock, warp, pending, disk, halt>>

(* The processor stores through a writable entry: boot1 does not see it.   *)
Store(p, v) ==
    /\ halt = "no"
    /\ pte[p] # NoPte /\ pte[p].rw
    /\ data' = [data EXCEPT ![pte[p].frame] = <<v>>]
    /\ UNCHANGED <<mapAddr, tag, dirty, lock, framePtr, tableVars,
                   sock, warp, pending, disk, halt>>

-----------------------------------------------------------------------------
(* mm_trim_page: the first frame that holds the page is emptied.           *)
TrimPage(p) ==
    /\ halt = "no"
    /\ \E f \in Frames :
         /\ FirstMapping(p, f)
         /\ mapAddr' = [mapAddr EXCEPT ![f] = 0]
         /\ dirty' = [dirty EXCEPT ![f] = FALSE]
         /\ data' = [data EXCEPT ![f] = Junk]
    /\ pte' = [pte EXCEPT ![p] = NoPte]
    /\ UNCHANGED <<tag, lock, framePtr, loc, curSel, sock, warp, pending, disk, halt>>

(* mm_lock_vaddr.                                                          *)
LockVaddr(p, b) ==
    /\ halt = "no"
    /\ \E f \in Frames : FirstMapping(p, f) /\ lock' = [lock EXCEPT ![f] = b]
    /\ UNCHANGED <<mapAddr, tag, dirty, data, framePtr, tableVars,
                   sock, warp, pending, disk, halt>>

(* mm_set_app_mem_warp: n pages of main memory from v on are lent to the   *)
(* application; the dirty frames that held them are emptied, the clean     *)
(* ones keep their entries.                                                *)
Purged(v, n) == {f \in Frames : dirty[f] /\ v <= mapAddr[f] /\ mapAddr[f] < v + n}

SetAppMemWarp(v, n) ==
    /\ halt = "no"
    /\ warp' = [at |-> v, max |-> n]
    /\ mapAddr' = [f \in Frames |-> IF f \in Purged(v, n) THEN 0 ELSE mapAddr[f]]
    /\ dirty' = [f \in Frames |-> dirty[f] /\ f \notin Purged(v, n)]
    /\ data' = [f \in Frames |-> IF f \in Purged(v, n) THEN Junk ELSE data[f]]
    /\ pte' = [q \in Pages |-> IF \E f \in Purged(v, n) : mapAddr[f] = q
                               THEN NoPte ELSE pte[q]]
    /\ UNCHANGED <<tag, lock, framePtr, loc, curSel, sock, pending, disk, halt>>

ResetAppMemWarp ==
    /\ halt = "no"
    /\ warp' = [at |-> MainBase, max |-> 0]
    /\ pending' = NoPending
    /\ UNCHANGED <<frameVars, tableVars, sock, disk, halt>>

-----------------------------------------------------------------------------
(* mmap and munmap.                                                        *)

Live == {i \in Slots : sock[i].path # NoPath}

FirstFree(i) == i \notin Live /\ \A j \in Slots : j < i => j \in Live

(* The entry whose file handle a new mapping of this path borrows.         *)
Lender(i, path, k) ==
    /\ k \in Live \ {i}
    /\ <<path, sock[k].path>> \in Prefixes
    /\ \A j \in Live \ {i} : <<path, sock[j].path>> \in Prefixes => k <= j

SizeOf(h) == IF h \in Paths THEN FilePages[h] ELSE 0

(* The size asked for, else the rest of the file.                          *)
MapSize(r, h) == IF r.size > 0 THEN r.size ELSE SizeOf(h) - r.offset

Filled(r, h, size) ==
    [mapTo |-> r.to, path |-> r.path, offset |-> r.offset, size |-> size,
     file |-> h, writable |-> r.writable, writeback |-> r.writeback]

(* mmap clears table i + 1, whichever section it serves at the moment.     *)
WipeTable(t) == [q \in Pages |-> IF SectionOf(q) = loc[t] THEN NoPte ELSE pte[q]]

(* The in-tree callers: boot1 maps sys.bin once, and app_pre_start maps an *)
(* application image after app_stop unmapped the previous one.             *)
CallerMaps(r) ==
    Disciplined =>
        \A k \in Live : /\ sock[k].path # r.path
                        /\ \/ r.to >= sock[k].mapTo + sock[k].size
                           \/ sock[k].mapTo >= r.to + MapSize(r, r.path)

(* What the in-tree callers ask for: one mapping at a time of each file,    *)
(* never a longer one than the address an image is mapped at, sys.bin from *)
(* the start and never side-loaded, a writable mapping written back, and   *)
(* memory lent out of main memory (app_malloc_align).                      *)
OrderlyFiles ==
    /\ Disciplined
    /\ \A ab \in Prefixes : ab[1] = ab[2]
    /\ \A r \in MapRequests :
          \A n \in {q.size : q \in Requests} \cup {FilePages[h] : h \in Paths} : n <= r.to
    /\ BootMap.path \notin SideloadPaths
    /\ \A r \in Requests : r.writable => r.writeback
    /\ \A w \in WarpRequests : w[1] \in MainBase .. MainBase + MemMax

Mmap(r) ==
    /\ halt = "no" /\ CallerMaps(r)
    /\ \E i \in Slots :
         /\ FirstFree(i)
         /\ \/ /\ r.path \in SideloadPaths
               /\ sock' = [sock EXCEPT ![i] = Filled(r, NoFile, r.size)]
            \/ /\ r.path \notin SideloadPaths
               /\ \E k \in Slots :
                    /\ Lender(i, r.path, k)
                    /\ sock' = [sock EXCEPT ![i] =
                          Filled(r, sock[k].file, MapSize(r, sock[k].file))]
            \/ /\ r.path \notin SideloadPaths
               /\ \A k \in Slots : ~Lender(i, r.path, k)
               /\ sock' = [sock EXCEPT ![i] = Filled(r, r.path, MapSize(r, r.path))]
         /\ pte' = WipeTable(i + 1)
    /\ UNCHANGED <<frameVars, loc, curSel, warp, pending, disk, halt>>

(* lfs_file_open fails: the entry is free again, with the request's offset *)
(* and flags and the size of its previous use.                             *)
MmapOpenFails(r) ==
    /\ halt = "no" /\ CallerMaps(r)
    /\ r.path \notin SideloadPaths
    /\ \E i \in Slots :
         /\ FirstFree(i)
         /\ \A k \in Slots : ~Lender(i, r.path, k)
         /\ sock' = [sock EXCEPT ![i] = [Filled(r, NoFile, sock[i].size)
                                         EXCEPT !.mapTo = 0, !.path = NoPath]]
    /\ UNCHANGED <<frameVars, tableVars, warp, pending, disk, halt>>

TaggedNone(i) == {}  \* mutant: munmap leaves the frames alone

TaggedFrames(i) == {f \in Frames : tag[f] = i}

(* What munmap(i) makes of the table: the handle of i is closed and freed, *)
(* every mapping whose path is a prefix of i's loses path and handle, and  *)
(* any other one that borrowed the handle is left with a dangling pointer. *)
Closed(i) ==
    [k \in Slots |->
        IF i \notin Live THEN sock[k]
        ELSE IF k = i
             THEN [sock[k] EXCEPT !.mapTo = 0, !.path = NoPath, !.file = NoFile]
        ELSE IF sock[i].path \in SideloadPaths THEN sock[k]
        ELSE IF k \in Live /\ <<sock[k].path, sock[i].path>> \in Prefixes
             THEN [sock[k] EXCEPT !.path = NoPath, !.file = NoFile]
        ELSE IF sock[k].file = sock[i].file /\ sock[k].file # NoFile
             THEN [sock[k] EXCEPT !.file = Dangling]
        ELSE sock[k]]

(* Every file is written back, the frames of the mapping are emptied (they *)
(* keep their tag, lock and dirty bits), and the entry is closed.          *)
Munmap(i) ==
    /\ halt = "no"
    /\ dirty' = CleanDirty
    /\ disk' = CleanDisk
    /\ pte' = [q \in Pages |-> IF \E f \in TaggedFrames(i) : mapAddr[f] = q
                               THEN NoPte ELSE pte[q]]
    /\ mapAddr' = [f \in Frames |-> IF f \in TaggedFrames(i) THEN 0 ELSE mapAddr[f]]
    /\ sock' = Closed(i)
    /\ UNCHANGED <<tag, lock, data, framePtr, loc, curSel, warp, pending, halt>>

-----------------------------------------------------------------------------
(* mm_init, and the mapping of sys.bin in slot 0 by boot1's main.          *)
Init ==
    /\ mapAddr = [f \in Frames |-> 0]
    /\ tag = [f \in Frames |-> MainTag]
    /\ dirty = [f \in Frames |-> FALSE]
    /\ lock = [f \in Frames |-> FALSE]
    /\ data = [f \in Frames |-> Junk]
    /\ framePtr = 0
    /\ pte = [p \in Pages |-> NoPte]
    /\ loc = [t \in Tables |-> NoSection]
    /\ curSel = 0
    /\ sock = [i \in Slots |->
                 IF i = 0 THEN Filled(BootMap, BootMap.path, MapSize(BootMap, BootMap.path))
                 ELSE [mapTo |-> 0, path |-> NoPath, offset |-> 0, size |-> 0,
                       file |-> NoFile, writable |-> FALSE, writeback |-> FALSE]]
    /\ warp = [at |-> MainBase, max |-> 0]
    /\ pending = NoPending
    /\ disk = [h \in Paths |-> [o \in Offsets |-> <<h, o>>]]
    /\ halt = "no"

(* The sys.bin mapping, in slot 0, is never unmapped; only pages of memory *)
(* are trimmed (app_stop, xPortHeapTrimFreePage).                          *)
Next ==
    \/ \E p \in Pages : TranslationFault(p)
    \/ \E p \in Pages, mode \in {"user", "sys"} : PermissionFault(p, mode)
    \/ \E p \in Pages, v \in Values : Store(p, v)
    \/ \E p \in MemPages : TrimPage(p)
    \/ \E r \in LockRequests : LockVaddr(r[1], r[2])
    \/ \E w \in WarpRequests : SetAppMemWarp(w[1], w[2])
    \/ ResetAppMemWarp
    \/ \E r \in MapRequests : Mmap(r) \/ MmapOpenFails(r)
    \/ \E i \in Slots \ {0} : Munmap(i)

Spec == Init /\ [][Next]_vars

-----------------------------------------------------------------------------
(* Properties.                                                             *)

(* A valid entry leads to the frame that holds the page: no page is ever   *)
(* read or written through the frame of another one.  It relates the page  *)
(* tables, which get_l1_mpte, mmap and munmap edit by section or by slot,  *)
(* to page_frame_attr.                                                     *)
PteSound == \A p \in Pages : pte[p] # NoPte => mapAddr[pte[p].frame] = p

(* No two L1 entries serve one section, none serves main memory's, and an  *)
(* entry is valid only where an L1 entry leads to it.                      *)
SectionSound ==
    /\ \A t, u \in Tables : loc[t] = loc[u] /\ loc[t] # NoSection => t = u
    /\ \A t \in Tables : loc[t] # MainSection
    /\ \A p \in Pages : pte[p] # NoPte => Located(SectionOf(p))

(* Main memory as its owner sees it: what the dirty frame of the page      *)
(* holds; a page without one was never stored into.                        *)
DirtyFrames(p) == {f \in Frames : dirty[f] /\ mapAddr[f] = p}

AbsMem == [p \in MemPages |->
             IF DirtyFrames(p) = {} THEN Junk
             ELSE data[CHOOSE f \in DirtyFrames(p) : TRUE]]

(* The contents of a page of memory change only by a store into that page, *)
(* or because its owner trims it or lends it: no fault, permission change, *)
(* mapping or unmapping ever loses or alters what was stored.              *)
OwnerStep ==
    AbsMem' # AbsMem =>
        \/ \E p \in MemPages, v \in Values :
               Store(p, v) /\ AbsMem' = [AbsMem EXCEPT ![p] = <<v>>]
        \/ \E p \in MemPages : TrimPage(p) /\ AbsMem' = [AbsMem EXCEPT ![p] = Junk]
        \/ \E w \in WarpRequests :
               /\ SetAppMemWarp(w[1], w[2])
               /\ \A p \in MemPages \ (w[1] .. w[1] + w[2] - 1) : AbsMem'[p] = AbsMem[p]

OwnerAlone == [][OwnerStep]_vars

(* A load through a valid entry of main memory returns the value last      *)
(* stored: the entry never leads to an older or foreign copy.              *)
ReadsCoherent ==
    \A p \in MemPages : pte[p] # NoPte => data[pte[p].frame] = AbsMem[p]

(* A load through a valid entry of a page of a mapped read-only file       *)
(* returns that file's page: neither munmap and mmap of another image at   *)
(* the same address nor a reused table leaves an old page behind.          *)
FileReadsCoherent ==
    \A p \in Pages, i \in Slots :
        /\ pte[p] # NoPte /\ Serves(i, p)
        /\ i \in Live /\ sock[i].path \notin SideloadPaths /\ ~sock[i].writable
        => data[pte[p].frame] = ReadPage(disk, i, p)

(* A fault on a page of a live mapping is never served from a closed one,  *)
(* although munmap leaves the range [0, size) behind.                      *)
LiveMappingServed ==
    [][\A p \in Pages : TranslationFault(p) /\ (\E i \in Live : InRange(i, p))
                            => halt' # "closedFile"]_vars

(* The frame of a side-loaded page, locked until its contents arrive, is   *)
(* not given to another page meanwhile.                                    *)
LockStep == \A f \in Frames : lock[f] /\ mapAddr[f] # 0 => mapAddr'[f] \in {mapAddr[f], 0}

LockedKept == [][LockStep]_vars

(* boot1/mm.c:497, assert(!page_frame_attr[page_frame_ptr].dirty): a frame *)
(* is clean when it is given to another page.                              *)
FreshFrameClean ==
    [][\A f \in Frames : mapAddr'[f] \notin {0, mapAddr[f]} => ~dirty'[f]]_vars
=============================================================================
