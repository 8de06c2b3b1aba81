# ExistOS for the HP 39GII: verification development

ExistOS runs an HP 39GII calculator (STMP3770: one ARM926EJ-S core, 512 KB of
SRAM, 128 MB of NAND flash, USB) as programs stacked on each other:

- `boot0`: start-up, NAND driver, and a web server over USB for repairing the flash;
- `boot1`: a supervisor. It runs in privileged mode under the next program, gives
  it virtual memory made of 1 KB page frames and memory-mapped littlefs files,
  and serves its system calls;
- `system`: FreeRTOS with USB network, the application runtime, the file manager;
- one application at a time, in user mode, mapped from a file.

This directory holds TLA+ models of the parts that carry the system's own logic,
the TLC runs that check them, and TLAPS proofs about the core, the page-frame
manager, and about the application runtime, two servers, the heap and the network of
`system`, and the uploads, dump and restore of the repair server. `PROJECT.json`
lists components, runs, the source lines of every definition, hazards and theorems.

Contents: 1 inventory · 2 modules · 3 runs, bounds, fairness · 4 proofs ·
5 disagreements found · 6 what is not modelled · 7 plan.

## 1. Inventory

| component | state it keeps | operations | interacts with |
|---|---|---|---|
| page-frame manager, `boot1/mm.c` | `page_frame_attr[]`, `page_frame_ptr`, page tables and `MPTE_LOC` registers, `mmap_socket[]`, lent range, pending side-load page | `do_dab` (translation and permission fault), `mmap`, `munmap`, `mm_trim_page`, `mm_lock_vaddr`, `mm_set_app_mem_warp`, `mm_reset_app_mem_warp` | aborts of every other program; littlefs |
| supervisor calls and abort entry, `boot1/exception.c` | stacks of return addresses and modes, saved contexts | `pre_do_dab`, `pre_do_pab`, `arm_vector_swi`, `arm_do_irq` | `mm.c` below, the handlers of `system` above |
| boot flow, littlefs port, NAND driver of `boot1` | mounted file system | read, program, erase a page | `mm.c` |
| application runtime, `system/app_runtime.c`, `app_utils.c` | `app_running`, `app_task_handle`, the static `mmap`, `mf`, `app_mem_warp_alloc`; `delay_task`, `ticks` | `app_pre_start`, `app_start`, `app_stop`; ON-key scanners; the delay server | called by three kinds of tasks; `ll_mmap`, `ll_mumap`, `ll_set_app_mem_warp` |
| abort handlers and `sysmmap`, `system/exception.c`, `sys_mmap.c` | `fault_count`, `QfaultInfo` | `sys_dab`, `sys_pab`, `sys_svc`, `sys_mmap_task` | FreeRTOS, called by boot1 for aborts it cannot resolve |
| side-load server, `system/sideload_server.c` | current upload, pending request | UDP commands `EXEC_`, `KILL`, `SLS_START`, `UPLOAD_`, `U_`, `UDONE`, `PUT_` | application runtime, littlefs |
| main program, `system/main.c` | key ring, two key tables | creates the tasks; key scan | applications read keys |
| heap pages, `system/stub.c` | bitmap of allocated pages | `malloc`, `free`, trimming | `mm_trim_page`, `app_stop`, `SysMonitor` |
| network over USB, `system/usb.c` | one received frame | callbacks of TinyUSB, polling of lwIP | side-load server, lwIP's pool of two buffers |
| repair server, `boot0/main.c` | `action`, `post_stage`, `post_len`, `post_content_len`, `boundary`, one file handle; `pgs`, `skip`, `empty`, `wr_pg_buf` | uploads of `boot1.bin`, `sys.bin`, boot0; dump and restore of the flash; scan, read, erase | lwIP httpd, littlefs |
| interrupts, block device and boot flow of `boot0` | ring of pending interrupts, bad-block answers | interrupt dispatch; read, program, erase | repair server |
| vendored code (FreeRTOS, TinyUSB, lwIP, littlefs, KhiCAS, LVGL, wasm3), drawing, register tables, host tools | | | used by the above |

What makes each of them hard, and what makes it correct:

- **Page-frame manager.** One frame may be reached through five movable page
  tables, a fixed one, an array searched linearly and a tag into `mmap_socket`;
  each call edits one of these views and relies on the others. Correct when
  memory looks like RAM to its owner, file pages are the file's, no page is
  seen through another page's frame, and the machine stops only when there is
  truly no frame.
- **Application runtime.** Start and stop are called by the network task, two
  ON-key scanners and a boot-time task, with checks outside the suspended
  section they protect. Correct when the image asked for is the one that runs,
  and memory, mapping and path are released once.
- **Delay server.** A counter that wraps, a table and a queue with limits, and
  an application that is deleted and created again in the same control block.
  Correct when the application sleeps as long as it asked, and always wakes up.
- **Abort handlers.** The fault is reported by the task that is to be suspended,
  through a bounded queue, with an uninitialised switch flag and a counter
  shared by all tasks. Correct when only tasks that faulted are suspended, no
  handled fault resets the machine, and no fault repeats for ever.
- **Heap pages.** The marks follow `malloc` and `free` by estimate, the first
  from the length asked for, the second from the length of the chunk, and
  `SysMonitor` trims by them while other tasks allocate. Correct when no page
  that holds something is given back.
- **Network over USB.** One frame and two buffers between two libraries that
  call each other: sending waits inside lwIP for the next USB event, and that
  event may bring the next frame or a new configuration. Correct when no buffer
  is lost or handed out twice and reception goes on; an upload on top of it,
  when the file is what was sent.
- **Repair server.** Everything it knows of a request is in globals, while TCP
  cuts bodies anywhere, pages come in between and connections close early.
  Correct when "Successful!" means that the file is stored.
- **Dump and restore.** A byte stream whose markers may also occur in the
  contents, cut into reads at one end and single bytes at the other.

## 2. Modules

| module | models | remarks |
|---|---|---|
| `MM` | all of `boot1/mm.c` | the core; one action per entry point and owner of the page |
| `FrameSearch` | the loops of `get_new_page_frame`, one frame at a time | extends `MM` and is shown to implement it |
| `FlatMemory` | what `MM` promises: flat RAM | abstract specification |
| `OwnerView` | `MM` with the search of `FrameSearch`, observed by loads and stores | implements `FlatMemory` with `mem <- AbsMem` |
| `InstructionProgress` | `MM` under a processor that retries an instruction | how often an instruction aborts, and that it completes |
| `MMProofs` | | theorems about `MM`, `FrameSearch`, `OwnerView` and `InstructionProgress` |
| `AppLifecycle` | start, stop, ON key, host commands | tasks with priorities |
| `DelayServer` | `LLAPI_APP_DELAY_MS`, `app_api_task` | |
| `FaultQueue` | `sys_dab`, `sys_pab`, `sys_mmap_task` | composed with the part of the kernel they use |
| `HeapPages` | `malloc`, `free`, both ways of trimming, with newlib's allocator below | |
| `UsbNet` | `usb.c`, the RNDIS class below, lwIP's buffers, the upload on top | one task and the host |
| `AppLifecycleProofs`, `DelayServerProofs`, `FaultQueueProofs`, `HeapPagesProofs`, `UsbNetProofs` | | theorems |
| `FlashServer` | `httpd_post_*`, `fs_*_custom`, `post_stream_in` for files | |
| `BackupStream` | dump (`fs_read_custom`) and restore (`post_stream_in`) of the flash | |
| `FlashProofs`, `BackupProofs` | | theorems |
| `MC...` | constants of the TLC instances | |

How the models correspond to the code:

**`MM`.** `mapAddr`, `tag`, `dirty`, `lock`, `data` are the fields and contents of
a page frame; `pte`, `loc`, `curSel` the page tables, `DIGCTL_MPTEn_LOC` and the
round-robin choice of `get_l1_mpte`; `sock` is `mmap_socket[]`. Addresses are
page numbers, 0 for "none". An entry is kept under its page instead of under a
table and an index: `get_l1_mpte` clears a table when it moves, so the entries of
a section without table are empty, and `Displaced` says which ones a move drops.
A fault handler of boot1 runs with interrupts off, so each is one step. The
contents of a frame are what the owner stored, a page of a file, or `Junk` for
bytes nobody promises anything about: a frame that changes hands is not cleared,
and that the next owner sees old bytes is no error of the code. `Disciplined`
says that callers do what every caller in the tree does: unmap before mapping
at the same address. `clean_file_page` indexes `mmap_socket[15]` for a frame of
main memory, past the end of the table, which has five entries
(ld.lds:2 reserves a fixed page table and five movable ones, and there is a
mapping for each movable one); with the heap layout of `mm_init` the write-back flag found there is
a padding byte of `page_frame_attr[31]`, which is never set, and that is what
`CleanableFrames` models.

**`FrameSearch`.** In `MM` the search for a frame is one step that names the frame
it ends at. Here every pass of the two loops is a step: `search` holds
`page_frame_ptr` as it moves, `cnt`, and which loop it is (`not_found`). That the two
agree is a property, `SearchIsAtomic`: the loops, forgotten, are steps of `MM`. So `MM`
and `InstructionProgress` may use the one step.

**`OwnerView`** adds `op`, the last thing the owner of memory did. Faults,
evictions, mappings and unmappings are invisible steps in between. `AbsMem` is
what a page holds according to its dirty frame. `FlatMemory` allows a page that
is lent or trimmed to be forgotten, and nothing else.

**`InstructionProgress`** adds `instr`: an instruction needs its code page and
its data page at the same time; it is retried after each abort. `aborts` is a
history variable: how often the instruction has aborted while two frames could
be evicted. `FewAborts` bounds it by four for a store and three for a load, and
TLC reaches both bounds. (It is counted up to `Many`, one more than a store may need.)

**`AppLifecycle`.** A task carries out a list of calls (`todo`), `pc` says where
it is in the first one. A stretch with the scheduler suspended is one step.
`Runs(t)` is the kernel's rule: no ready task has a higher priority. The
network task has priority 3, all others that call the runtime 2. `slots` are the
mmap slots of boot1 (searched first to last, as in `MM`); `blocks` the allocated
blocks of the heap; `malloc` may fail. `fileManager` says that there is a task `ExpUI`, which a scanner creates after each stop
(app_utils.c:559), and `appUtilsInit` at a boot without a usable configuration
(app_utils.c:535, 543). It has priority 3 and its loop no wait, so no task of
priority 2 runs beside it, the scanners least of all; the network task, its equal,
does. The machine boots either way. `setup`, chosen initially, says how the
machine is used: `any` way; by `oneOperator`, who acts only when the last action
is over; or in `turns`, where in addition the scanners do not wake up inside
each other's `app_stop`. Properties that hold only for orderly use name it.

**`DelayServer`.** `ticks` is modulo `W`. The application has one control block,
`app_tcb`, for ever, which is why queue entries and table entries need not name
it. `waited` and `asked` are history variables.

**`FaultQueue`** includes the scheduling rule itself (`current`, `ready`, `held`)
because the question is whether the faulting task runs again before `sysmmap`
does. `sw` in `sys_mmap_push` is not initialised: `Push` chooses its value
unless FreeRTOS sets it.

**`HeapPages`.** Blocks and free chunks with their addresses and lengths, cut and
joined as the C library does (external: it is newlib's, and `malloc_r` of the
source only wraps it); `marked` is the bitmap. `malloc` and `free` run with the
scheduler suspended and are one step each. So is the trimming in `app_stop`;
`SysMonitor` trims without suspension, so its look at the bitmap and its call of
boot1 are two steps, and `written` remembers what comes in between.
`sys_state_print`, which lets it trim, is true from the start (httpd.c:23).
Lost are bytes whose page was trimmed: payload, lengths and links. The model
begins with all of the heap; in the code it grows, and pages beyond its end hold
nothing. `realloc` of the source is not used.

**`UsbNet`.** `usb_main` polls TinyUSB, gives the frame to lwIP and runs lwIP's
timers; `pc` is where it is. `tud_task()` blocks until there is an event and
handles events until none is left, so the timers run only after events. Sending
polls `tud_task()` again until the previous frame is gone (`Nested`): events are
handled with a frame half processed. `ref` and `pool` are `pbuf`'s counts, of one
byte, and free list, with what `pbuf_free` does at count zero, which happens: lwIP
frees a frame, and `service_traffic` frees it again. For a frame lwIP has freed
that is harmless (the count goes from 0 to 255 and the next allocation sets it),
and on the path without memory for an answer it makes up for the missing free.
For a frame lwIP keeps it is not, and there the model ends (`pc = "kept"`). The host
stops its network driver before it resets or configures the device; the client
sends each command of an upload once, after the answer to the one before.
An answer that waits for an address (ARP) takes one of the two buffers until
the address comes or expires; the next command then gets no answer.

**`FlashServer`.** A body is a sequence of tokens (a boundary, a line end, data);
`Receive(c, n)` takes any number of them as one segment. `network`, chosen
initially, says what the network and the clients may do: cut the part header,
cut the closing boundary, close a connection, have several requests in
progress. littlefs commits a file when it is closed (`files` against `file`).

**`BackupStream`.** Dump and restore run one after the other on the same image;
contents range over the two marker bytes and any other byte.

## 3. Runs

| run | instance | distinct states | shows |
|---|---|---|---|
| `mm_files` | `MMFiles.cfg` | 95 thousand | images change at one address, one of them side-loaded: pages are the file's own, no stale entry, no closed mapping in front of a live one, locked frames stay |
| `mm_owner_view` | `OwnerView.cfg` | 477 thousand | memory implements flat RAM; the loops of the search are the one step of `MM`, and stop only when memory is full; a frame given to another page is clean |
| `mm_progress` | `InstructionProgress.cfg` | 122 thousand | with two frames to evict, an instruction aborts four times at most and completes |
| `app` | `App.cfg` | 144 thousand | the application asked for runs, no mapping or block leaks or is freed twice, the network task survives, commands are answered, ON stops the application while there is no file manager |
| `app_scanners` | `AppScanners.cfg` | violation | two scanners in `app_stop`: one deletes itself |
| `delay` | `Delay.cfg` | 183 thousand | one delay at a time, exact length over wraps, every delay ends |
| `fault` | `FaultQueue.cfg` | 710 | who is suspended, what resets, no fault is forgotten, every fault ends |
| `flash` | `Flash.cfg` | 90 thousand | success is true, nothing is lost, old file or new file |
| `flash_header` | `FlashHeader.cfg` | violation | a cut part header ends in a wrong file |
| `backup` | `Backup.cfg` | 515 thousand | the dump is the image, restore writes only true pages, all but the last |
| `heap` | `Heap.cfg` | 80 thousand | blocks and the allocator's own data lie on marked pages; what a trim may take |
| `net` | `Net.cfg` | 714 thousand | no buffer is lost, a frame finds room, a file arrives as it was sent, nobody waits in vain, reception goes on |

### Bounds, and why they are enough

- **`mm_*`.** Sections of 4 pages instead of 1024, laid out in the order of the
  real address map: `sys.bin` in section 1, memory in 3, images in 4 and 5.
  Two mappings, so two movable page tables serve three sections and are reused
  in turn; the image is long enough for the range `[0, size)` of its closed
  mapping to cover `sys.bin`. Two or three frames: fewer than the pages, so that
  the search evicts, wraps around, finds resident pages, dirty frames and
  nothing at all. In `mm_owner_view` the image is mapped with write-back, which
  mmap offers and no caller in the tree asks for: without it the second search of
  `get_new_page_frame` never runs; its page may be locked, so that both loops have a
  frame to pass by. The two values stored are symmetric: nothing is
  decided by them. Files have up to `MaxFilePages` = 5 pages. `mm_progress` needs three frames (two to evict
  and one that a store can take). The theorems of section 4 hold for all values.
- **`app`.** Two machines, each booted with and without an image. `Turns`: three images, one of them missing, two
  slots, so a mapping that is not closed hides the next image. `Races`: one
  image, one slot, all four tasks at once. Two heap blocks are enough for a
  start to overwrite the block of another. A scanner counts to 3 in `Turns` (5 in the code):
  it takes several wake-ups in a row either way; in `Races`, where the question
  is what happens inside `app_stop`, it stops at once.
- **`delay`.** `W = 5` and delays up to 4, so every delay may cross a wrap and
  the longest is as long as it can be; table and queue of 2 and three stops:
  more entries are left behind than the table holds.
- **`fault`.** One task beside `sysmmap`, one between, and the application; a
  queue of 2 and 3 tolerated faults keep the order of the code (the queue is full
  before the counter resets: 6 and 10).
- **`flash`.** Contents of up to 3 tokens with and without a line end, two files,
  two clients; segments of every length. Header lines are 2 instead of 4: the
  search for the end of the header counts line ends and does nothing else with
  them.
- **`heap`.** Pages of 32 bytes, the smallest in which the arithmetic of the marks
  works (two chunks fit), six of them partly or wholly in the heap, and block
  sizes just below a page (the sizes of which the estimate falls short), between
  one and two pages, and just below three.
- **`net`.** Two buffers, as in `lwipopts.h`. Two addresses, so that an answer may be
  held back for one while the other is served; a file of two pieces, so that a
  piece has one before and one behind it. The queue of events is bounded by
  what the host may do: one frame each way and one reset or configuration.
- **`backup`.** Every flash of 4 pages of 2 bytes; a read collects up to three
  blank markers (`Count`, instead of 2068), so runs of blank pages end inside, at
  and after a read. Page contents range over both markers.

Deadlock is checked in all runs except those of `MM`, where boot1 stops in
`while(1)`, of `BackupStream`, which ends when the upload is over, and of
`HeapPages`, which ends when a byte in use is gone. In `UsbNet` the end at a frame
that lwIP keeps is a step of its own (`Over`), and everything else must go on.

### Fairness

- `InstructionProgress`: `WF(CpuStep)`; the processor does not stop between an
  abort and the retry. Nothing obliges it to issue the next instruction.
- `AppLifecycle`: weak fairness of each task. FreeRTOS runs the highest ready
  priority, equals share time slices, `vTaskDelay` ends. `Scan` and the waiting
  labels become ready by time alone. Commands and the key have no fairness. The fairness of a
  scanner obliges it to nothing while there is a file manager, since it is not enabled then,
  and nothing obliges a file manager to end (`FileManagerEnds`).
  So `OnKeyStops` is stated for an application that runs while there is none;
  what happens otherwise is in section 5.
- `DelayServer`: weak fairness of the server, whose waits are all bounded by
  timeouts and which the application, of lower priority, cannot keep from running.
  The file manager (priority 3) can, as it does the application: `LLAPI Srv` has
  priority 2 (app_runtime.c:476). So `DelayEnds` is about the time in which there is
  no file manager, and rounds of the server are counted, not milliseconds.
- `FaultQueue`: strong fairness of a faulting task and of the server's steps,
  because tasks beside or above them run in between; all other tasks wait again
  and again (`Block`) and resume the scheduler after suspending it. `SysMonitor`,
  a second task beside `sysmmap`, is left out of the instance: two such tasks
  could take turns for ever, which their delays (15 ms and a minute) prevent in the code.

- `UsbNet`: weak fairness of `usb_main`, which only `sys` and `SysMonitor` outrank
  and these sleep most of the time (main.c:186-190), and of the host that takes
  a frame offered to it. Nothing obliges the host to send.

`FlashServer`, `BackupStream`, `HeapPages` and `MM` itself state safety only.

## 4. Proofs

### The page-frame manager

These proofs hold for any number of frames, pages, mappings, paths and
values, under `MM`'s named assumptions: at least one frame; 1 to 14
mappings (the code has five); page numbers not 0; memory in one section; files of any length up
to `MaxFilePages`, which is any number; the mappings callers ask for
lie outside the section of memory, and the range a mapping covers is shorter than the address of
memory (the callers of `ll_mmap` map at 0x08000000 and boot1 at 0x00100000; memory
begins at 32 MB, so no file may be longer than that, in a flash of 128 MB);
the marker values are distinct from what they mark. `Disciplined` may be either
value: none of these theorems needs the discipline of callers.

| theorem | module | statement |
|---|---|---|
| `TypeCorrect` | `MMProofs` | `Spec => []TypeOK` |
| `SectionsSound` | `MMProofs` | `Spec => []SectionSound` |
| `PtesSound` | `MMProofs` | `Spec => []PteSound` |
| `SearchesAreAtomic` | `MMProofs` | `ViewSpec => SearchIsAtomic` |
| `HangsOnlyWhenFull` | `MMProofs` | `ViewSpec => []HangOnlyWhenFull` |
| `LockedIsKept` | `MMProofs` | `Spec => LockedKept` |
| `ReadsAreCoherent` | `MMProofs` | `Spec => []ReadsCoherent` |
| `OwnerIsAlone` | `MMProofs` | `Spec => OwnerAlone` |
| `PagingImplementsFlatMemory` | `MMProofs` | `ViewSpec => MemoryIsFlat` |

The argument:

1. `TypeOK`, `SectionSound` and `PteSound` are each inductive relative to `TypeOK`.
   The lemma `TablesStep` carries the weight: a step either installs one entry
   through `SetNewPgf` or only takes entries away and grants writing.
2. Coherence is not inductive. That a load finds the last store needs that a
   page of memory has one frame, that a dirty frame never loses its entry (so that
   no fault loads a second copy), that a writable entry leads to a dirty
   frame (so that a stored-to frame is never taken for a clean one), that clean
   frames of memory hold nothing, that the frames are tagged as memory (so that
   write-back, the second search and `munmap` pass them by) and that no mapping,
   not even a closed one, covers memory. `MMProofs!MemInv` is the conjunction,
   and `Inv` adds `TypeOK`, `SectionSound` and `PteSound`.
3. One lemma per operation (`TranslationKeepsMemory`, `MunmapKeepsMemory`, ...)
   shows that it preserves `MemInv` and says what it does to `AbsMem`: nothing,
   except for stores, trims and lending. `OwnerIsAlone` is the collection of
   these lemmas. No run checks `OwnerAlone`: `MemoryIsFlat` says more.
4. The search: `SearchInv` says that every frame between where the search began and
   its pointer was passed by, and that none is clean once the first loop is over. So
   the frame the loops end at is the one `MM` hands out (`SearchFinds`), they give
   up only after every frame was passed by by the second loop too (`SearchGivesUp`), and
   a step of a loop is a stutter of `MM` or the whole of its step (`SearchesAreAtomic`).
5. Refinement: every step of `OwnerView` is therefore a step of `MM` or a stutter, so `Inv` holds
   in it; initial states map to initial states, loads, stores, trims and lendings
   to `FlatLoad`, `FlatStore` and `FlatGiveBack`, everything else to a stutter.

### The instruction that must make progress

| theorem | module | statement |
|---|---|---|
| `AbortsAreFew` | `MMProofs` | `ReadOnlyMaps => (CpuSpec => []FewAborts)` |

`ReadOnlyMaps` says what the tree does: no mapping is writable, and there are at
least two movable page tables. The theorem holds for any number of frames,
sections, mappings and pages, and of instructions. It is the part of
`InstructionCompletes` that is not fairness: an instruction that the processor
keeps trying has a bounded number of aborts before it.

The argument is a rank that each abort lowers. Under read-only mappings whatever
is dirty is memory (`DirtyIsMemory`), so the first search of
`get_new_page_frame` finds a clean frame whenever two can be evicted, and the second
search, which takes frames that have to be written back, never runs (`OneSearch`). The search is
circular, so the frame it has just handed out is the last one the next search
comes to (`LastInTurn`), and the table `get_l1_mpte` has just taken is not the one it takes
next (`NewTableStays`). The first load of the data page may still drop the code page: it
may take its frame or its table. Then the data page has the frame and the table
that were just taken, and loading the code page again leaves it alone
(`SecondLoadSafe`). `Safe(p, q)` says just that: page `p` has an entry which a load of `q`
does not clear. `Rank` is how many aborts may follow: all of them while the code page is
missing, two fewer if the data page is safe from its load, one fewer when
the code page is there and the data page is missing, one when only the permission to
store is missing, none otherwise (`AbortLowersRank`). `ProgressInv`
says that the aborts so far and the rank are together no more than the bound.

### Mapped files

Under `OrderlyFiles`, which names what every caller in the tree does: a file is
unmapped before it is mapped again, no path is a prefix of another, no mapping is
longer than the address an image is mapped at (0x08000000, 128 MB), `sys.bin` is not side-loaded,
writable mappings are written back, and memory is lent out of main memory. The
TLC instances evaluate it as an assumption of their own.

| theorem | module | statement |
|---|---|---|
| `FileReadsAreCoherent` | `MMProofs` | `OrderlyFiles => (Spec => []FileReadsCoherent)` |
| `LiveMappingsServed` | `MMProofs` | `OrderlyFiles => (Spec => LiveMappingServed)` |
| `FreshFramesClean` | `MMProofs` | `OrderlyFiles => (Spec => FreshFrameClean)` |

`FileInv` strengthens these. That a search of `mmap_socket` from the front finds
the live mapping needs the ranges that closed entries leave behind: they begin at
0 and are no longer than any address an image is mapped at (`SlotsOrderly`). That
an entry leads to the right page of the right file needs that the frame is
tagged with the mapping that covers it (`FramesOrderly`), holds that page
(`FilePagesTrue`) and cannot be stored to (`ReadOnlyKept`). That a frame is clean when it
goes to another page needs that whatever is dirty is memory or will be written
back (`DirtyWritten`).

### The application runtime

For any images, blocks and mapping slots, and any number of tasks:

| theorem | module | statement |
|---|---|---|
| `AppTypes` | `AppLifecycleProofs` | `Spec => []TypeOK` |
| `LentMemoryStays` | `AppLifecycleProofs` | `Spec => []LentIsAllocated` |
| `NetworkTaskSurvives` | `AppLifecycleProofs` | `Spec => []NetworkSurvives` |
| `NothingIsLost` | `AppLifecycleProofs` | `Spec => []Balanced` |
| `TheImageAskedForRuns` | `AppLifecycleProofs` | `Spec => []RunsTheImageAskedFor` |

`Typed` adds to `TypeOK` where in its call each task can be. `NetworkSurvives` rests on
`NetHolds`: while the network task is between the test of `app_task_handle` and its use,
the handle is set, because whoever could clear it has a lower priority.
The last two hold for use `in turns` and rest on `TurnsInv`: at most one task is
busy, and the globals, the slots and the blocks are in the state that belongs to
how far its call has come (`Clean`, `Up`, `ToStart`, `ToMark`).

### The heap pages

For any page size of at least 32 that is a multiple of 8, any aligned bounds of the
heap and any sizes asked for:

| theorem | module | statement |
|---|---|---|
| `HeapTypes` | `HeapPagesProofs` | `Spec => []TypeOK` |
| `MarksCoverBlocks` | `HeapPagesProofs` | `Spec => []BlocksAreMarked` |
| `MarksCoverBooks` | `HeapPagesProofs` | `Spec => []BooksAreMarked` |
| `TrimsTakeSpare` | `HeapPagesProofs` | `Spec => TrimsSpare` |

`HeapInv` adds that chunks do not overlap, that each ends where another begins,
that no two free ones touch, that every chunk holds its block and that the
first 16 bytes of a block's chunk are marked. The arithmetic of the estimates is
kept in lemmas about `Page`: which pages `malloc` marks and `free` clears for a block at a
given place. The bytes the estimates miss are named by `Tail` and `Behind`.

### The delay server

For any width `W >= 1` of `ticks`, any set of delays below `W`, any sizes of the
queue and of `delay_task`:

| theorem | module | statement |
|---|---|---|
| `DelayTypeCorrect` | `DelayServerProofs` | `Spec => []TypeOK` |
| `OneDelayAtATime` | `DelayServerProofs` | `Spec => []OneOutstanding` |
| `DelaysAreExact` | `DelayServerProofs` | `Spec => SleepsAsAsked` |

`OneOutstanding` alone is not inductive: it must also be known who holds the one
delay. `OneAtATime` says that the application is ready with its request in the
queue and no entry, or suspended with exactly one entry and an empty queue.
`Timed` adds how old that entry is: `(ticks - start) % W` is what the application
has waited, and it is not due yet. The arithmetic of a wrapping tick is a lemma
of its own: one tick adds one to the difference as long as it stays below `W`.
Both invariants are stated until the first stop, as the properties are, since
entries of a stopped application break them (section 5).

### The fault queue

For any number of tasks with priorities 1 to 4 of which the application is alone
at the bottom, any size of the queue, and any limit of at least one fault:

| theorem | module | statement |
|---|---|---|
| `FaultTypeCorrect` | `FaultQueueProofs` | `Spec => []TypeOK` |
| `SuspendedHaveFaulted` | `FaultQueueProofs` | `Spec => []OnlyFaultingSuspended` |
| `ResetsAreEarned` | `FaultQueueProofs` | `Spec => ResetsOnlyAtTop` |
| `FaultsAreKept` | `FaultQueueProofs` | `Spec => []NoFaultForgotten` |

The invariant `QueueInv` ties the queue to the kernel. While a message waits,
`sysmmap` is ready; while it is ready and the scheduler is not suspended, what
runs has its priority (`ServerTurns`). So a task below it, and only such a task
stops applications, finds the queue empty: no message outlives the application it
names (`NamesFaulting`). The counter is above 0 only while a message waits
(`CountAnswered`), so a task below finds it 0, and its fault is the first in
the row. The switch at the end of `Push` is where this could break: if it is not
made, the uninitialised `sw` allows that only where `sysmmap` does not outrank
the faulting task or was ready before. `StuckReady` adds that what runs is ready,
that only a task of the system holds the scheduler, and that a task before a faulting
instruction is ready or suspended: with `QueueInv` no fault is forgotten, which is what
`FaultEnds` needs beside fairness.

### The repair server

For any files, contents of any length, and connections; a part header has two lines here, as
in the runs. `UploadAssumption` says that a boundary does not
occur in the contents it bounds, which multipart/form-data demands of the
client, and that no upload is empty.

| theorem | module | statement |
|---|---|---|
| `HandleIsUsedRight` | `FlashProofs` | `Spec => []HandleDiscipline` |
| `SuccessMeansStored` | `FlashProofs` | `Spec => SuccessIsTrue` |
| `UploadsLoseNothing` | `FlashProofs` | `Spec => NothingLost` |
| `OldFileOrNewFile` | `FlashProofs` | `Spec => OldOrNew` |

The proofs are about positions in the body instead of its tokens: a segment is
`Body(c, d)` from one position to another (`Segment`), the header ends at 4 and
the data at `Len(d) + 4`. `UploadInv` holds where the part header comes whole
and requests do not overlap (`Uncut`): at most one connection is in a request
(`Alone`), and the globals belong to how far its body has come (`InProgress`): the
stage, the boundary, what the client has still to send, and, unless a closed
connection has left the handle open before, a handle that has taken exactly the
body from the end of the header to the last byte received. `Received` shows what
one segment does to that; it is the only step that writes. The handle may be misused
only after a connection was closed (`HandleInv`).

### Dump and restore

For any number and size of pages, any contents, and any bytes behind the image among
which is no marker:

| theorem | module | statement |
|---|---|---|
| `RestoreIsTrue` | `BackupProofs` | `Spec => []RestoresAllButLast` |
| `NoWrongPage` | `BackupProofs` | `Spec => []OnlyTruePages` |
| `DumpIsTheImage` | `BackupProofs` | `Spec => []DumpIsImage` |

What the browser sends is the image and its tail, so a byte's position says what
it is: `Layout` gives where the record of each page begins, and what
stands at each place of it. The invariant `Progress` says how far the restore is for
the number of bytes it has read: which record it is in, how much of the
page it has copied, that exactly the pages before are written, and that each is what
the dump read. A marker byte inside a page never ends it, since it is looked for only
where the page is complete.

`DumpIsImage` says that what the reads have delivered is the concatenation of the
records of the pages read, one for each, whatever the lengths of the reads were. The
concatenation is a fold. Its recursive definition is unrolled once (`Join`,
`Unrolls`, `FoldExists`, `FoldUnique`), by induction over a set of lengths instead of a
predicate (`SetInduction`); then `FlattenOneMore` says what one more record adds, and each
read adds one record (`DumpOneMore`) or a run of blank ones (`DumpBlanks`).

### The network over USB

For any addresses of the host, any number of pieces of the file, and a pool of two
buffers:

| theorem | module | statement |
|---|---|---|
| `FramesFindRoom` | `UsbNetProofs` | `Spec => []RoomForAFrame` |
| `NoBufferIsLost` | `UsbNetProofs` | `Spec => []BuffersAccounted` |
| `FileArrivesAsSent` | `UsbNetProofs` | `Spec => []FileAsSent` |
| `UsbTaskIsWoken` | `UsbNetProofs` | `Spec => []NeverWaitsInVain` |

`NetInv` follows the buffers through the calls, not only at the top of the loop. Each is
free, the frame to serve, held back for an address, or being sent, and only one of
these (`BuffersInv`); of packets held back or being sent there is at most one, and
that is why two buffers are enough. The frame lwIP works on is still
`received_frame`, or a configuration has freed it and its count is 0 (`JobInv`):
then the second `pbuf_free` makes the count 255 and does nothing else. A reset or
configuration is last in the queue (`QueueOk`), and a receive is armed, or its
event on the way, only while `received_frame` is empty (`ArmedInv`).

`UploadInv` says that at any time at most one word of the upload, a command or its answer, is
on its way, in one of five places (`At`), and only while the client waits.
So an answer always belongs to the command that was sent last, although it
carries no number, and "T" means that what the next command needs is there (`Ready`).

`WaitInv` says what `usb_main` waits for. While no other frame can be sent, one is on its
way to the host or its event, a reset or a configuration is in the queue; a frame that was
stored from inside `linkoutput_fn` and is left for the next round is left together with
a frame on its way, whose completion starts that round; and `Renewer` is what keeps the
receive from being armed. `NullAssumption` says that `NULL` is no packet.

### Only model-checked

In the bounds of section 3: the liveness properties `InstructionCompletes`,
`OnKeyStops`, `CommandAnswered`, `DelayEnds`, `FaultEnds` and `ReceptionResumes`,
since the prover has no rules for liveness under fairness. Of four of them the part that is not
fairness is proved: `AbortsAreFew`, `FaultsAreKept` and `UsbTaskIsWoken`, and for
`DelayEnds` the invariant `OneAtATime`, by which the one delay that is asked for is in the queue or in the
table. Every invariant and every other action property that a run checks is the
statement of a theorem.

## 5. Disagreements found

- `app_scanners`: `app_stop` tests `app_task_handle` before it suspends the
  scheduler. There are two ON-key scanners; when both are between test and
  suspension, the second one calls `vTaskDelete(NULL)` with the scheduler
  suspended and frees `mf.path` twice.
- `flash_header`: the part header is recognised only within one segment.

The models also reach these. The first ones contradict what a line says, but are
about what is missing in the code and need no run:

- README_en.md:405 says that virtual memory on the flash fills the gap; a dirty
  frame of memory is never written anywhere, and once all are dirty the
  next fault stops the machine (mm.c:484, `HangOnlyWhenFull`);
- the restore writes a page when the next byte comes, and the last page has none
  (boot0/main.c:676), against "Restore Flash with image" (index.html:296);
  `RestoresAllButLast` excepts it;
- a frame of size zero, which TinyUSB makes of an RNDIS message without one, is
  reported as accepted although it was dropped (usb.c:150), against
  net_device.h:84 ("return false if the packet buffer was not accepted"): nobody asks for the next frame,
  and reception stops until the next configuration (`swallowed` in `UsbNet`);
- a frame that lwIP keeps, such as a piece of an HTTP request, is freed under it
  (usb.c:168), since `ethernet_input` has taken it over (`pc = "kept"` in `UsbNet`).

For the others no line of the repository says otherwise:

- a stopped application whose request is still in `app_api_queue`: the server
  suspends a deleted task (`app = "corrupt"` in `DelayServer`);
- entries of stopped applications stay in `delay_task`: they wake the next
  application early or hold its own entry back (`SleepsAsAsked` is stated until
  the first stop);
- with exactly one frame left to evict, an instruction that needs two pages
  livelocks (`TwoEvictable` in `InstructionProgress`);
- the file manager never waits, and has priority 3. After the first stop by ON, and
  from a boot without a usable configuration on, neither the scanners
  nor the delay server nor an application run while it is there. An
  application that the host starts then with `EXEC_` is not stopped by ON: no scanner sees
  the key (`OnKeyStops` excepts it; with the exception `~fileManager` dropped it fails). In use `any` the same
  happens to an application that is launched while a scanner, which found
  none to stop, creates the file manager;
- a mapping that is writable without write-back leaves frames dirty that the
  second search hands out (the assertion at mm.c:497 tests the frame after
  writing back); no caller asks for such a mapping;
- parallel uploads mix in the one file handle; a connection that closes within
  an upload leaves the handle open, and the next upload opens it again
  (`misused` in `FlashServer`).

## 6. Not modelled

- Vendored code is modelled only from its use: FreeRTOS (priorities, suspension,
  queues, delays), littlefs (a file is replaced at close), lwIP below the repair
  server (segments of any size, several connections). `UsbNet` is the exception: it
  translates lwIP's buffers and ARP queue and TinyUSB's RNDIS class, since what
  `usb.c` does is right or wrong only together with them.
- Cache and TLB maintenance in `mm.c`: every path cleans and invalidates, so it
  adds no state; memory exhaustion of boot1's own small heap.
- The content of the register frames copied between boot1, the abort handlers
  and the task control blocks.
- `app_recover_from_status` and the saved status file: no reachable code calls it
  (the flag that leads to it in `ExpUI` is never changed).
- The stacks of return addresses and modes in `boot1/exception.c`: an abort takes
  its return address off again as soon as `do_dab` returns (exception.c:734, 924),
  and what runs before that, in memory that is always mapped, does not abort. So
  the arrays of 16 places never hold more than one.
- The ring of pending interrupts of `boot0`: since the USB interrupt is handled at
  once (irq.c:127), it carries timer ticks only, and both sides run with
  interrupts off.
- What `InstructionProgress` leaves out: interrupts and task switches between an abort
  and the retry, whose own pages may evict those of the instruction, and instructions
  that touch more than one data page. An abort is one step there, as in `MM`,
  which `SearchesAreAtomic` justifies.
- What `UsbNet` leaves out of the glue and the class: the empty packet that ends a transfer
  which is a multiple of the packet size (ecm_rndis_device.c:398; `can_xmit` comes
  one completion later); `tud_network_recv_renew` while not mounted,
  which arms a transfer on endpoint 0 and here is no step; `SET_CONFIGURATION` to the value that
  is set (nothing happens) or to 0 (the class is closed); and an ARP request that both
  resolves an address somebody waits for and is answered, which makes two sends for one frame,
  where the model has one.
- What it leaves out otherwise: suspend and resume, the second class (CDC-ECM), an
  upload handle that could not be opened and is written to all the same (undefined in littlefs), boot0's copy of the glue.
- Pages on demand for a side-loaded image: `sls_send_request` is never called;
  `MM` still contains what boot1 does for such a page.
- Drawing, fonts, display and clock registers, descriptors, host tools,
  applications: no protocol of their own.

Smaller hazards noticed on the way, without a property: `rdVal`
keeps the stack size of the previous application (app_runtime.c:293); a `KILL`
between `xTaskResumeAll` and the assignment of `app_running` stops nothing and
is answered all the same (app_runtime.c:340);
`SLS_START` relies on the mapping number of the application before it
(sideload_server.c:201); `sys_pab` reads the stack pointer from the frame of the
last data abort (exception.c:459); the counter of a scanner is not reset while ON
stays down, so a scanner that gets to run again, after the end of the file manager or from
before it, stops and creates another (app_utils.c:557); the path of a start
that failed is overwritten by the next one and not freed (app_runtime.c:372, 375), which `Balanced`, about mappings and
blocks, does not follow; `boot0_length`
is not cleared between uploads (boot0/main.c:625); the results of littlefs calls
are ignored (boot0/main.c:606); segments of
up to 3360 bytes are collected in a buffer of 1536 (boot0/main.c:716); errors of a page
read are not asked for (boot1/main.c:36); the key ring has no test for full
(system/main.c:143), and a key that changes between the two scans of one pass
gives no event (system/main.c:156);
a directory is closed with `ll_fs_close` (app_utils.c:369), and a file whose open
failed is closed (app_utils.c:114); of a buffer passed to a system call only the
first byte is looked at (boot1/exception.c, `is_addr_vaild`), which also accepts lent pages that
`do_dab` then refuses; `app_stop` does not close the files of the application;
unknown commands of the side-load server are answered with an uninitialised byte.

## 7. Plan

Done, in this order: `MM` and its abstract specification, the instruction that
must make progress, and their theorems; the application runtime, delay server
and fault queue of `system`, with theorems; the two protocols of the repair
server, with theorems; the heap pages, and the network over USB with the upload, with
theorems; mapped files with theorems; the dump; and of the liveness properties the part
that is not fairness, for instructions, faults and reception.

What would come next, most important first:

1. `Runtime`: `AppLifecycle` composed with `DelayServer` and `FaultQueue` over one
   control block of the application. The code does not guard a request that
   outlives its application (section 5), so its properties begin with how often
   that is harmless.
2. `KeyScan`: two tables, one ring. A change between the two scans of a pass
   gives no event and a full ring looks empty: what is promised is that each
   event is a change, not that each change is an event.
3. `BlockDevice` and the boot flow: bad-block answers, littlefs port, upload of
   boot0 with its boot blocks.

Runs for them stay at one per question.
