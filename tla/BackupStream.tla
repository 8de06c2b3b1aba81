----------------------------- MODULE BackupStream -----------------------------
(***************************************************************************)
(* The image of the flash that boot0 sends as flash_backup.ebk             *)
(* (fs_read_custom, ACTION_FLASH_READBACK_ALL) and takes back through the  *)
(* form flash_all (post_stream_in, ACTION_FLASH_ALL): for every page a     *)
(* byte 0xF7 when it is blank, otherwise 0xCE and its contents.            *)
(*                                                                         *)
(* The dump is cut into reads of one page record; the restore sees single  *)
(* bytes.  Contents may hold the marker bytes themselves.                  *)
(***************************************************************************)
EXTENDS Integers, Sequences, FiniteSets, SequencesExt

CONSTANTS
    NumPages,  \* pages of the flash (65536 in the code)
    PageSize,  \* bytes of a page with its metadata (2048 + 19 in the code)
    Tails,     \* what may follow the image in the upload (the closing boundary)
    Blank      \* model value: an erased page

CE == "CE"  \* not ASCII, so neither occurs in a boundary
F7 == "F7"

ASSUME BackupAssumption ==
    /\ NumPages \in Nat \ {0} /\ PageSize \in Nat \ {0}
    /\ Tails \subseteq Seq({"other"})

Bytes == {CE, F7, "other"}
Contents == [1 .. PageSize -> Bytes]
Pages == 0 .. NumPages - 1
Count == 1 + PageSize

VARIABLES
    flash,   \* the flash that is dumped
    page,    \* file->pextension: the next page to read
    image,   \* what the client has received
    tail,    \* what follows the image in the upload
    pos,     \* bytes of the upload that post_stream_in has seen
    pgs, skip, empty, \* its static variables
    buffer,  \* wr_pg_buf up to pg_ptr
    target   \* the flash that is restored

dumpVars == <<page, image, tail>>
restoreVars == <<pos, pgs, skip, empty, buffer, target>>
vars == <<flash, page, image, tail, pos, pgs, skip, empty, buffer, target>>

TypeOK ==
    /\ flash \in [Pages -> Contents \cup {Blank}]
    /\ page \in 0 .. NumPages
    /\ image \in Seq(Bytes)
    /\ pos \in 0 .. Len(image \o tail)
    /\ pgs \in -1 .. NumPages - 1
    /\ skip \in 0 .. PageSize
    /\ empty \in BOOLEAN
    /\ buffer \in Seq(Bytes) /\ Len(buffer) + skip <= PageSize
    /\ DOMAIN target = Pages

-----------------------------------------------------------------------------
(* The dump.                                                               *)

(* The run of blank pages one read reports: up to Count of them.           *)
BlankRun(p) == {q \in Pages : q >= p /\ q < p + Count /\ \A r \in p .. q : flash[r] = Blank}

AfterRunSkips(p, run) == p + run + (IF run = Count THEN 0 ELSE 1)  \* mutant: pg - 1 forgotten

(* A page that is not blank and ends a run is read again by the next call. *)
AfterRun(p, run) == p + run

ReadBlank ==
    /\ page < NumPages
    /\ LET run == Cardinality(BlankRun(page))
       IN /\ run > 0
          /\ image' = image \o [i \in 1 .. run |-> F7]
          /\ page' = AfterRun(page, run)
    /\ UNCHANGED <<flash, tail, restoreVars>>

ReadPage ==
    /\ page < NumPages
    /\ flash[page] # Blank
    /\ image' = image \o <<CE>> \o flash[page]
    /\ page' = page + 1
    /\ UNCHANGED <<flash, tail, restoreVars>>

(* The end of the file.  The image is uploaded, perhaps with a tail.       *)
Dumped == page = NumPages

-----------------------------------------------------------------------------
(* The restore.                                                            *)

(* Programming a page that is not blank can only clear bits of it.         *)
Programmed(old, new) == IF old \in {Blank, new} THEN new ELSE "mixed"

Writes == pgs >= 0 /\ ~empty

SkipShort == PageSize - 1  \* mutant: one byte too few

Skip == PageSize

(* post_stream_in for a byte of the page.                                  *)
TakeByte(b) ==
    /\ skip > 0
    /\ buffer' = Append(buffer, b)
    /\ skip' = skip - 1
    /\ UNCHANGED <<pgs, empty, target>>

(* For any other byte: the page before it is written, and it may begin     *)
(* the next one.                                                           *)
TakeMarker(b) ==
    /\ skip = 0
    /\ target' = IF Writes THEN [target EXCEPT ![pgs] = Programmed(@, buffer)] ELSE target
    /\ CASE b = CE -> /\ buffer' = <<>> /\ skip' = Skip
                      /\ pgs' = pgs + 1 /\ empty' = FALSE
         [] b = F7 -> /\ skip' = 0
                      /\ pgs' = pgs + 1 /\ empty' = TRUE
                      /\ UNCHANGED buffer
         [] b \notin {CE, F7} -> UNCHANGED <<buffer, skip, pgs, empty>>

Stream ==
    /\ Dumped /\ pos < Len(image \o tail)
    /\ LET b == (image \o tail)[pos + 1] IN TakeByte(b) \/ TakeMarker(b)
    /\ pos' = pos + 1
    /\ UNCHANGED <<flash, dumpVars>>

Restored == Dumped /\ pos = Len(image \o tail)

-----------------------------------------------------------------------------
Init ==
    /\ flash \in [Pages -> Contents \cup {Blank}]
    /\ page = 0 /\ image = <<>>
    /\ tail \in Tails
    /\ pos = 0 /\ pgs = -1 /\ skip = 0 /\ empty = FALSE /\ buffer = <<>>
    /\ target = [p \in Pages |-> Blank]

Next == ReadBlank \/ ReadPage \/ Stream

Spec == Init /\ [][Next]_vars

-----------------------------------------------------------------------------
(* Properties.                                                             *)

(* The reads, whose lengths depend on the runs of blank pages, add up to   *)
(* one record for every page, in order.                                    *)
Record(p) == IF flash[p] = Blank THEN <<F7>> ELSE <<CE>> \o flash[p]

DumpIsImage == image = FlattenSeq([i \in 1 .. page |-> Record(i - 1)])

(* At any time of the restore, also when it is interrupted, a page of the  *)
(* target is blank or right: no marker inside a page is taken for one, and *)
(* no page is written with the bytes of another.                           *)
OnlyTruePages == \A p \in Pages : target[p] \in {Blank, flash[p]}

(* A complete upload to a flash that was erased first, as index.html:286   *)
(* demands, restores every page but the last, and the last one too if      *)
(* bytes follow the image; and none is wrong before.  Without such bytes   *)
(* the last page stays blank, against index.html:296, "Restore Flash with  *)
(* image".                                                                 *)
RestoresAllButLast ==
    /\ OnlyTruePages
    /\ Restored => \A p \in Pages : p < NumPages - 1 \/ tail # <<>> => target[p] = flash[p]
=============================================================================
