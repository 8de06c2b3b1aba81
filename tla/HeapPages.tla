------------------------------ MODULE HeapPages ------------------------------
(***************************************************************************)
(* Which pages of the system's heap hold something (system/stub.c).  The   *)
(* C library's malloc and free are wrapped: malloc marks the pages of the  *)
(* block in a bitmap, free clears those that lie inside it, both by        *)
(* estimate, and xPortHeapTrimFreePage gives every page without a mark     *)
(* back to boot1, which forgets its contents.                              *)
(*                                                                         *)
(* The heap is cut into chunks as Doug Lea's allocator cuts it: 8 bytes in *)
(* front of the block hold the length of a free neighbour before it and    *)
(* the chunk's own length, a free chunk keeps two links in its first bytes *)
(* and its length behind its end, and the free chunk at the end of the     *)
(* heap ("top") keeps its length only.  Addresses are offsets into main    *)
(* memory (addr & 0x000FFFFF).                                             *)
(***************************************************************************)
EXTENDS Integers, FiniteSets

CONSTANTS
    PageSize,    \* 1024
    HeapStart,   \* &heap_start
    HeapEnd,     \* the last chunk ends here, just below &heap_end
    Sizes,       \* the sizes asked for
    MonitorOn    \* SysMonitor prints and trims (sys_state_print)

(* The marks of a block begin one page before its first one, so the heap   *)
(* does not begin on page 0 (nor on the pages 0 to 7 whose bits double as  *)
(* the initialised marker 0x5A: the data of the system comes first).       *)
ASSUME HeapAssumption ==
    /\ PageSize \in Nat /\ PageSize % 8 = 0 /\ PageSize >= 32
    /\ HeapStart \in Nat /\ HeapStart % 8 = 0 /\ HeapStart >= 2 * PageSize
    /\ HeapEnd \in Nat /\ HeapEnd % 8 = 0 /\ HeapEnd >= HeapStart + 16
    /\ Sizes \subseteq Nat
    /\ MonitorOn \in BOOLEAN

VARIABLES
    used,     \* the chunks of living blocks: where, how long, bytes asked for
    free,     \* the other chunks: where and how long
    marked,   \* mm_page_bitmap
    checked,  \* the page SysMonitor found without a mark and has yet to trim
    written,  \* auxiliary: bytes of that page written since it looked
    ruined    \* bytes in use that a trim has taken

vars == <<used, free, marked, checked, written, ruined>>

None == 0  \* no page of the heap: checked when SysMonitor is not in between

Page(x) == x \div PageSize
Block(c) == c.at + 8             \* the address malloc returns
End(c) == c.at + c.size
IsTop(c) == End(c) = HeapEnd

-----------------------------------------------------------------------------
(* The bytes whose contents matter.                                        *)

Payload(b) == Block(b) .. Block(b) + b.n - 1
Length(c) == c.at + 4 .. c.at + 7
Books(c) == IF IsTop(c) THEN Length(c)
            ELSE (c.at + 4 .. c.at + 15) \cup (End(c) .. End(c) + 3)

InUse(us, fs) == UNION ({Payload(b) \cup Length(b) : b \in us} \cup {Books(c) : c \in fs})

-----------------------------------------------------------------------------
(* The C library (external): request2size; a block is cut from the front   *)
(* of a free chunk, of which less than 16 bytes are not worth keeping, and *)
(* top always keeps some; a freed chunk is joined with free neighbours.    *)

ChunkSize(n) == IF n <= 12 THEN 16 ELSE 8 * ((n + 11) \div 8)

Cuts(c, n) == c.size >= ChunkSize(n) + 16

Fits(c, n) == Cuts(c, n) \/ (~IsTop(c) /\ c.size >= ChunkSize(n))

Taken(c, n) == [at |-> c.at, n |-> n, size |-> IF Cuts(c, n) THEN ChunkSize(n) ELSE c.size]

Left(c, n) == IF Cuts(c, n)
              THEN {[at |-> c.at + ChunkSize(n), size |-> c.size - ChunkSize(n)]} ELSE {}

Neighbours(b) == {c \in free : End(c) = b.at \/ c.at = End(b)}

Joined(b) ==
    LET first == IF \E c \in free : End(c) = b.at
                 THEN (CHOOSE c \in free : End(c) = b.at).at ELSE b.at
        last == IF \E c \in free : c.at = End(b)
                THEN End(CHOOSE c \in free : c.at = End(b)) ELSE End(b)
    IN [at |-> first, size |-> last - first]

-----------------------------------------------------------------------------
(* The wrappers.                                                           *)

MarkedToTheEnd(b) ==   \* mutant: marks no page behind the quotient
    Page(Block(b) - 12) - 1 .. Page(Block(b) - 12) + b.n \div PageSize

MarkedBy(b) == Page(Block(b) - 12) - 1 .. Page(Block(b) - 12) + b.n \div PageSize + 1

ClearedFromFirst(b) ==  \* mutant: the page the block begins on is cleared, too
    Page(Block(b)) .. Page(Block(b)) + b.size \div PageSize - 2
ClearedToEnd(b) ==      \* mutant: two pages more are cleared
    Page(Block(b)) + 1 .. Page(Block(b)) + b.size \div PageSize

ClearedBy(b) == Page(Block(b)) + 1 .. Page(Block(b)) + b.size \div PageSize - 2

(* Auxiliary: what is written to the page SysMonitor is about to trim.     *)
Writes(S) == written' = written \cup {x \in S : checked # None /\ Page(x) = checked}

(* __wrap__malloc_r, with the scheduler suspended.                         *)
Malloc(n) ==
    /\ \E c \in free :
         /\ Fits(c, n)
         /\ used' = used \cup {Taken(c, n)}
         /\ free' = (free \ {c}) \cup Left(c, n)
         /\ marked' = marked \cup MarkedBy(Taken(c, n))
         /\ Writes(InUse({Taken(c, n)}, Left(c, n)))
    /\ UNCHANGED <<checked, ruined>>

(* __wrap__free_r: the bitmap first, by the length in front of the block.  *)
Free(b) ==
    /\ b \in used
    /\ used' = used \ {b}
    /\ free' = (free \ Neighbours(b)) \cup {Joined(b)}
    /\ marked' = marked \ ClearedBy(b)
    /\ Writes(Books(Joined(b)))
    /\ UNCHANGED <<checked, ruined>>

-----------------------------------------------------------------------------
(* xPortHeapTrimFreePage.  Neither the page the heap begins on nor the one *)
(* it ends on is looked at.                                                *)
Looked == Page(HeapStart) + 1 .. Page(HeapEnd) - 1

OnPages(S) == {x \in InUse(used, free) : Page(x) \in S}

(* By app_stop, which has suspended the scheduler: one step.               *)
TrimSuspended ==
    /\ ruined' = ruined \cup OnPages(Looked \ marked)
    /\ UNCHANGED <<used, free, marked, checked, written>>

(* By SysMonitor, between whose check of a bit and call of boot1 another   *)
(* task may run.                                                           *)
MonitorChecks ==
    /\ MonitorOn /\ checked = None
    /\ checked' \in Looked \ marked
    /\ written' = {}
    /\ UNCHANGED <<used, free, marked, ruined>>

MonitorTrims ==
    /\ checked # None
    /\ ruined' = ruined \cup OnPages({checked})
    /\ checked' = None
    /\ written' = {}
    /\ UNCHANGED <<used, free, marked>>

-----------------------------------------------------------------------------
(* The first malloc clears the bitmap.                                     *)
Init ==
    /\ used = {}
    /\ free = {[at |-> HeapStart, size |-> HeapEnd - HeapStart]}
    /\ marked = {}
    /\ checked = None
    /\ written = {}
    /\ ruined = {}

(* What the program does once a byte in use is gone is not modelled.       *)
Next ==
    /\ ruined = {}
    /\ \/ \E n \in Sizes : Malloc(n)
       \/ \E b \in used : Free(b)
       \/ TrimSuspended \/ MonitorChecks \/ MonitorTrims

Spec == Init /\ [][Next]_vars

-----------------------------------------------------------------------------
(* Properties.                                                             *)

Shaped(c) == /\ c.at % 8 = 0 /\ HeapStart <= c.at
             /\ c.size % 8 = 0 /\ 16 <= c.size /\ End(c) <= HeapEnd

TypeOK ==
    /\ used \subseteq [at : Nat, n : Sizes, size : Nat]
    /\ free \subseteq [at : Nat, size : Nat]
    /\ \A c \in used \cup free : Shaped(c)
    /\ marked \subseteq Nat
    /\ checked \in Looked \cup {None}
    /\ written \subseteq Nat
    /\ ruined \subseteq Nat

(* The estimate of malloc comes out one page short when the block begins 8 *)
(* bytes into a page and its size leaves up to 7 bytes to a full page: its *)
(* last bytes have no mark of their own.  In a few more cases the length   *)
(* and links of a free chunk right behind the block have none.             *)
Short(b) == b.n % PageSize > PageSize - 8
Tail(b) == Block(b) + b.n - 7 .. Block(b) + b.n - 1
Behind(b) == {x \in Block(b) + b.n .. End(b) + 15 :
                 Page(x) = Page(Block(b) - 12) + b.n \div PageSize + 2}

(* A byte of a living block lies on a marked page, except for the last     *)
(* ones of a block of an unlucky size: neither the estimate of free nor    *)
(* the joining of chunks ever clears the page of another block.            *)
BlocksAreMarked ==
    \A b \in used : \A x \in Payload(b) :
        Page(x) \in marked \/ (Short(b) /\ x \in Tail(b))

(* The same of what the allocator itself keeps in free memory.             *)
BooksAreMarked ==
    \A c \in free : \A x \in Books(c) :
        \/ Page(x) \in marked \/ Page(x) \notin Looked
        \/ \E b \in used : x \in Behind(b)

(* A trim takes bytes in use only where the estimate is short, or, by      *)
(* SysMonitor, ones that were written after it had looked.                 *)
Unlucky == UNION {Behind(b) \cup (IF Short(b) THEN Tail(b) ELSE {}) : b \in used}

TrimsSpare ==
    [][/\ TrimSuspended => ruined' \subseteq Unlucky
       /\ MonitorTrims => ruined' \subseteq Unlucky \cup written]_vars
=============================================================================
