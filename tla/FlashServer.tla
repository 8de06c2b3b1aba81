----------------------------- MODULE FlashServer -----------------------------
(***************************************************************************)
(* The repair server of boot0 (boot0/main.c): web forms store boot1.bin    *)
(* and sys.bin in the flash file system, other pages scan, read and erase  *)
(* the flash.  lwIP calls the functions below from one loop, for several   *)
(* connections at a time and with the body of a request in segments of any *)
(* size.  What the functions know of a request is in globals: action,      *)
(* post_stage, the two lengths, boundary, and one file handle f.           *)
(*                                                                         *)
(* A body is a sequence of tokens: the part header (a line with the        *)
(* boundary, another line), the data and the closing boundary.             *)
(* Left out: the page buffer (bytes reach the file in order), boot0 and    *)
(* the page images (see BackupStream), nandwrite and reset.                *)
(***************************************************************************)
EXTENDS Integers, Sequences, FiniteSets

CONSTANTS
    Clients,       \* connections; each uses a boundary of its own
    Names,         \* the files that can be uploaded: boot1.bin and sys.bin
    DataSets,      \* contents a client uploads
    Networks,      \* the networks looked at
    NoName, NoBoundary  \* model values

(* What a network may do: several requests in progress at a time, close a  *)
(* connection in the middle of a request, end the first segment within the *)
(* part header, begin the last one within the closing boundary.            *)
Troubles == {"parallel", "closed", "cutHeader", "cutEnd"}

ASSUME ServerAssumption ==
    /\ NoName \notin Names /\ NoBoundary \notin Clients
    /\ Networks \subseteq SUBSET Troubles

CRLF == "crlf"
HeaderLines == 2     \* 4 in the code
Header(c) == <<c, CRLF, "type", CRLF>>
Trailer(c) == <<CRLF, c>>
Body(c, data) == Header(c) \o data \o Trailer(c)
NoRequest == [name |-> NoName, data |-> <<>>, left |-> <<>>]
Pages == {"scan", "read", "erase", "readback"}  \* actions of 10 and above

(* A boundary does not occur in what it bounds, and no upload is empty.    *)
Letters == UNION {{data[i] : i \in DOMAIN data} : data \in DataSets}

ASSUME UploadAssumption ==
    /\ \A data \in DataSets : data \in Seq(Letters) /\ data # <<>>
    /\ Clients \cap (Letters \cup {CRLF, "type"}) = {}
    /\ Names \cap (Pages \cup {"none"}) = {}

VARIABLES
    network,   \* what the network may do, which stays as it is
    action,    \* action
    stage,     \* post_stage
    total,     \* post_content_len
    got,       \* post_len
    boundary,  \* boundary
    request,   \* of each connection: the upload in progress
    page,      \* the connection has one of the pages open
    told,      \* the last answer the client got
    fsInit,    \* fs_init
    file,      \* f: the name it is open for, what was written, whether it is open
    files,     \* what the file system holds
    misused    \* littlefs was called with a handle in the wrong state

globals == <<action, stage, total, got, boundary>>
vars == <<network, globals, request, page, told, fsInit, file, files, misused>>

TypeOK ==
    /\ network \in Networks
    /\ action \in Names \cup Pages \cup {"none"}
    /\ stage \in {0, 2}
    /\ total \in Nat /\ got \in Nat
    /\ \A c \in Clients : request[c].name = NoName <=> request[c].left = <<>>
    /\ page \subseteq Clients
    /\ told \in [Clients -> {"none", "done", "scan"}]
    /\ fsInit \in BOOLEAN /\ misused \in BOOLEAN
    /\ file.name \in Names \cup {NoName} /\ file.open \in BOOLEAN
    /\ file.open => fsInit /\ file.name # NoName
    /\ DOMAIN files = Names

-----------------------------------------------------------------------------
Idle(c) == request[c] = NoRequest /\ c \notin page

MayAsk(c) == Idle(c) /\ ("parallel" \in network \/ \A d \in Clients : Idle(d))

(* httpd_post_begin for /flash_boot1 and /flash_sys.  A file system that   *)
(* is not mounted is formatted and mounted, which forgets open handles.    *)
Begin(c, name, data) ==
    /\ MayAsk(c)
    /\ action' = name
    /\ stage' = 0
    /\ total' = Len(Body(c, data)) /\ got' = 0
    /\ request' = [request EXCEPT ![c] = [name |-> name, data |-> data, left |-> Body(c, data)]]
    /\ told' = [told EXCEPT ![c] = "none"]
    /\ fsInit' = TRUE
    /\ files' = IF fsInit THEN files ELSE [n \in Names |-> <<>>]
    /\ file' = IF fsInit THEN file ELSE [file EXCEPT !.open = FALSE]
    /\ UNCHANGED <<network, boundary, page, misused>>

-----------------------------------------------------------------------------
(* httpd_post_receive_data.                                                *)

LineEnds(seg) == {i \in DOMAIN seg : seg[i] = CRLF}

(* The position of the n-th line end.                                      *)
LineEnd(seg, n) == CHOOSE i \in LineEnds(seg) : Cardinality({j \in LineEnds(seg) : j <= i}) = n

AfterHeaderMore(seg) ==  \* mutant: dat_start one too far
    IF stage = 0 /\ Cardinality(LineEnds(seg)) >= HeaderLines
    THEN LineEnd(seg, HeaderLines) + 1 ELSE 0

(* What stage 0 skips: the header, if it is whole.                         *)
AfterHeader(seg) == IF stage = 0 /\ Cardinality(LineEnds(seg)) >= HeaderLines
                    THEN LineEnd(seg, HeaderLines) ELSE 0

(* What stands before the first line end is taken for the boundary.        *)
NewBoundary(seg) ==
    CASE stage # 0 \/ LineEnds(seg) = {} -> boundary
      [] stage = 0 /\ 1 \in LineEnds(seg) -> NoBoundary
      [] stage = 0 /\ LineEnds(seg) # {} /\ 1 \notin LineEnds(seg) ->
            IF LineEnd(seg, 1) = 2 THEN seg[1] ELSE "text"

(* The closing boundary is looked for in the last segment only, and not    *)
(* at its beginning; an empty boundary matches everything.                 *)
Ends(seg) == {i \in LineEnds(seg) : /\ 1 < i /\ i < Len(seg)
                                    /\ NewBoundary(seg) \in {seg[i + 1], NoBoundary}}

BeforeEndNowhere(seg, last) == Len(seg)  \* mutant: the closing boundary is not looked for

BeforeEnd(seg, last) ==
    IF last /\ Ends(seg) # {} THEN (CHOOSE i \in Ends(seg) : \A j \in Ends(seg) : i <= j) - 1
    ELSE Len(seg)

NeverCloses(f, last) == f  \* mutant: the file is not closed at the end

ClosesAlways(f, last) == [f EXCEPT !.open = FALSE]  \* mutant: every segment closes the file

Closed(f, last) == IF last THEN [f EXCEPT !.open = FALSE] ELSE f

(* post_stream_in for every byte: the first one of a request opens the     *)
(* file and truncates it, the last one closes it, and only then the file   *)
(* system holds the new contents.                                          *)
Stream(data, last) ==
    LET opens == stage = 0
        wrong == IF opens THEN file.open ELSE ~file.open
        f == IF opens THEN [name |-> action, written |-> data, open |-> TRUE]
                      ELSE [file EXCEPT !.written = @ \o data]
    IN /\ misused' = (misused \/ wrong)
       /\ file' = Closed(f, last)
       /\ files' = IF f.open /\ ~file'.open THEN [files EXCEPT ![f.name] = f.written] ELSE files

NextStage == 2

(* A segment is discarded, streamed, or (for an action of nobody) only     *)
(* counted.  After the last one of the connection, httpd_post_finished     *)
(* answers with done.html, or with the scan page if action says so.        *)
Receive(c, n) ==
    LET left == request[c].left
        seg == SubSeq(left, 1, n)
        last == total = got + n
        data == SubSeq(seg, AfterHeader(seg) + 1, BeforeEnd(seg, last))
        over == n = Len(left)
        answer == IF action = "scan" THEN "scan" ELSE "done"
    IN /\ n \in 1 .. Len(left)
       /\ \/ "cutHeader" \in network
          \/ left = Body(c, request[c].data) => n > Len(Header(c))
       /\ "cutEnd" \in network \/ over \/ n <= Len(left) - 1 - Len(Trailer(c))
       /\ IF action \in Pages
          THEN UNCHANGED <<got, stage, boundary, file, files, misused>>
          ELSE /\ got' = got + n
               /\ stage' = NextStage
               /\ boundary' = NewBoundary(seg)
               /\ IF action \in Names /\ data # <<>>
                  THEN Stream(data, last)
                  ELSE UNCHANGED <<file, files, misused>>
       /\ action' = IF over /\ answer = "done" THEN "none" ELSE action
       /\ page' = IF over /\ answer = "scan" THEN page \cup {c} ELSE page
       /\ told' = [told EXCEPT ![c] = IF over THEN answer ELSE @]
       /\ request' = IF over THEN [request EXCEPT ![c] = NoRequest]
                     ELSE [request EXCEPT ![c].left = SubSeq(left, n + 1, Len(left))]
       /\ UNCHANGED <<network, total, fsInit>>

(* The connection is closed early: httpd_post_finished.                    *)
Abort(c) ==
    /\ "closed" \in network /\ request[c] # NoRequest
    /\ action' = "none"
    /\ request' = [request EXCEPT ![c] = NoRequest]
    /\ UNCHANGED <<network, stage, total, got, boundary, page, told, fsInit, file, files, misused>>

-----------------------------------------------------------------------------
(* The pages.                                                              *)

(* fs_open_custom.                                                         *)
OpenPage(c, a) ==
    /\ MayAsk(c)
    /\ action' = a
    /\ page' = page \cup {c}
    /\ UNCHANGED <<network, stage, total, got, boundary, request, told, fsInit, file, files, misused>>

(* fs_close_custom.                                                        *)
ClosePage(c) ==
    /\ c \in page
    /\ action' = "none"
    /\ page' = page \ {c}
    /\ UNCHANGED <<network, stage, total, got, boundary, request, told, fsInit, file, files, misused>>

(* The form flash_erase, whose body is empty: begin and finish.            *)
EraseFlash(c) ==
    /\ MayAsk(c)
    /\ action' = "none"
    /\ total' = 0 /\ got' = 0
    /\ fsInit' = FALSE
    /\ file' = [file EXCEPT !.open = FALSE]
    /\ files' = [n \in Names |-> <<>>]
    /\ told' = [told EXCEPT ![c] = "done"]
    /\ UNCHANGED <<network, stage, boundary, request, page, misused>>

(* The form flash_scan: begin and finish, and the answer is the page.      *)
ScanFlash(c) ==
    /\ MayAsk(c)
    /\ action' = "scan"
    /\ stage' = 0
    /\ total' = 0 /\ got' = 0
    /\ page' = page \cup {c}
    /\ UNCHANGED <<network, boundary, request, told, fsInit, file, files, misused>>

-----------------------------------------------------------------------------
Init ==
    /\ network \in Networks
    /\ action = "none" /\ stage = 0 /\ total = 0 /\ got = 0 /\ boundary = NoBoundary
    /\ request = [c \in Clients |-> NoRequest]
    /\ page = {} /\ told = [c \in Clients |-> "none"]
    /\ fsInit \in BOOLEAN
    /\ file = [name |-> NoName, written |-> <<>>, open |-> FALSE]
    /\ files = [n \in Names |-> <<>>]
    /\ misused = FALSE

Next == \E c \in Clients :
          \/ \E name \in Names, data \in DataSets : Begin(c, name, data)
          \/ \E n \in 1 .. Len(request[c].left) : Receive(c, n)
          \/ Abort(c)
          \/ \E a \in Pages : OpenPage(c, a)
          \/ ClosePage(c) \/ EraseFlash(c) \/ ScanFlash(c)

Spec == Init /\ [][Next]_vars

-----------------------------------------------------------------------------
(* Properties.                                                             *)

(* An upload of c is answered in this step with done.html.                 *)
Answered(c) == request[c] # NoRequest /\ told'[c] = "done"

(* boot0/webdata/html/fs/done.html:7, "Successful!": when an upload is     *)
(* answered so, the file system holds what was uploaded.                   *)
Stored == \A c \in Clients : Answered(c) => files'[request[c].name] = request[c].data

DoneMeansStored == [][Stored]_vars

(* It does for uploads one after the other over a network that cuts bodies *)
(* neither within the part header nor within the closing boundary, in      *)
(* between the other pages and forms, which share the globals.             *)
SuccessIsTrue == [][network = {} => Stored]_vars

(* An upload replaces a file as a whole and when it is answered, or, when  *)
(* its connection is closed before, not at all (until a handle is misused).*)
Replaces ==
    network \subseteq {"closed"} /\ ~misused' =>
      \A n \in Names : files'[n] \notin {files[n], <<>>} =>
         \E c \in Clients : Answered(c) /\ request[c].name = n /\ request[c].data = files'[n]
OldOrNew == [][Replaces]_vars

(* However the rest of the body is cut, once the header came whole what is *)
(* stored contains all of the data in one piece: only remains of the       *)
(* closing boundary may come with it.                                      *)
Includes(s, data) == \E i \in 0 .. Len(s) - Len(data) : SubSeq(s, i + 1, i + Len(data)) = data

NothingLost ==
    [][network \subseteq {"cutEnd"} =>
         \A c \in Clients : Answered(c) => Includes(files'[request[c].name], request[c].data)]_vars

(* library/lfs/lfs.c:5868 and the assertions after it: a handle is opened  *)
(* when it is closed, and written and closed when it is open, as long as   *)
(* no connection is closed within an upload.                               *)
HandleDiscipline == network \subseteq {"cutEnd"} => ~misused
=============================================================================
