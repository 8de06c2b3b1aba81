------------------------------- MODULE UsbNet -------------------------------
(***************************************************************************)
(* The network of system over USB: TinyUSB's RNDIS class, the one frame    *)
(* between it and lwIP (system/usb.c), lwIP's pool of PBUF_POOL_SIZE       *)
(* buffers, and the file upload of the sideload server on top.  One task,  *)
(* usb_main, runs it all: tud_task() blocks until there is a USB event and *)
(* handles events until none is left, service_traffic() gives the frame to *)
(* lwIP.  Sending a frame calls tud_task() again from inside lwIP until    *)
(* the frame before it is sent.  The host runs beside that task.           *)
(***************************************************************************)
EXTENDS Naturals, Sequences, FiniteSets, SequencesExt

CONSTANTS
  Bufs,       \* the buffers of lwIP's pool, PBUF_POOL_SIZE of them
  None,       \* no buffer (NULL)
  Peers,      \* addresses of the host
  Client,     \* the one that uploads a file
  Pieces      \* pieces of that file

ASSUME UsbNetAssumption ==
  /\ None \notin Bufs /\ IsFiniteSet(Bufs) /\ Cardinality(Bufs) = 2
  /\ Client \in Peers /\ None \notin Peers
  /\ Pieces \in Nat

UPLOAD == 0
UDONE == Pieces + 1
Commands == UPLOAD .. UDONE

(***************************************************************************)
(* Frames from the host, by what lwIP does with them: it keeps "part" (a   *)
(* piece of an HTTP request, a segment out of order, a fragment, a ping    *)
(* from an address it does not know), answers "ask" from its own heap,     *)
(* learns an address from "arp"; "empty" is an RNDIS message with no frame *)
(* in it; "other" is a DNS query, or a command that sideload does not      *)
(* know, from another program.  What system sends is an answer to the      *)
(* client, "T" or "F", or another "packet".                                *)
(***************************************************************************)
Packet(p, w, n) == [peer |-> p, what |-> w, nr |-> n]
Noise == [peer : {None}, what : {"empty", "ask", "part"}, nr : {0}]
           \cup [peer : Peers, what : {"arp"}, nr : {0}]
           \cup [peer : Peers \ {Client}, what : {"other"}, nr : {0}]
Uploads == [peer : {Client}, what : {"upload"}, nr : Commands]
Answers == [peer : Peers, what : {"T", "F"}, nr : {0}]
Plain == Packet(None, "packet", 0)

Kinds == {"empty", "ask", "part", "arp", "other", "upload", "T", "F", "packet"}

ASSUME NullAssumption == None \notin [peer : Peers \cup {None}, what : Kinds, nr : Nat]

VARIABLES
  mounted,   \* tud_mounted(): the host has chosen a configuration
  listening, \* a receive is armed on the OUT endpoint
  received,  \* TinyUSB's receive buffer
  can_xmit, tx,   \* no frame is being sent; the frame the host has not taken
  events,    \* the queue of tud_task()
  received_frame, ref, pool, data,   \* buffers: one to serve, counts, free ones, contents
  arp, q,    \* lwIP's ARP entries and the packet each one holds back
  pc, job,   \* where usb_main is ("kept": the model ends there), the packets it has at hand
  swallowed, \* a frame was dropped and TinyUSB told it was accepted
  sls_upload, written, disk, lost,  \* the upload, the file, what is stored
  client     \* the uploading program

bus == <<mounted, listening, received, can_xmit, tx, events, swallowed>>
memory == <<ref, pool, data>>
file == <<sls_upload, written, disk, lost>>
vars == <<bus, received_frame, memory, arp, q, pc, job, file, client>>

Idle == [frame |-> None, out |-> None, hold |-> None]

Init ==
  /\ mounted = FALSE /\ listening = FALSE /\ received = Plain
  /\ can_xmit = FALSE /\ tx = None /\ events = <<>>
  /\ received_frame = None /\ ref = [b \in Bufs |-> 0]
  /\ pool = SetToSeq(Bufs) /\ data = [b \in Bufs |-> Plain]
  /\ arp = [p \in Peers |-> "empty"] /\ q = [p \in Peers |-> None]
  /\ pc = "poll" /\ job = Idle /\ swallowed = FALSE
  /\ sls_upload = "none" /\ written = <<>> /\ disk = <<>> /\ lost = FALSE
  /\ client = [next |-> UPLOAD, waiting |-> FALSE, ok |-> TRUE]

-----------------------------------------------------------------------------
(* lwIP's buffers.  The count is a byte, and freeing a buffer whose count   *)
(* is zero makes it 255: the assertion against that is commented out.       *)

PbufFree(m, b) ==
  IF b = None THEN m
  ELSE LET r == (m.ref[b] + 255) % 256
       IN  [ref  |-> [m.ref EXCEPT ![b] = r],
            pool |-> IF r = 0 THEN <<b>> \o m.pool ELSE m.pool]

PbufRef(m, b) == [m EXCEPT !.ref[b] = (@ + 1) % 256]

Memory == [ref |-> ref, pool |-> pool]
SetMemory(m) ==
  /\ ref' = m.ref /\ pool' = m.pool
  /\ data' = [b \in Bufs |-> IF Contains(m.pool, b) THEN Plain ELSE data[b]]

\* pbuf_alloc(..., PBUF_POOL) of a buffer that is then filled with x.
PbufAlloc(x) ==
  /\ pool # <<>>
  /\ ref' = [ref EXCEPT ![Head(pool)] = 1]
  /\ pool' = Tail(pool)
  /\ data' = [data EXCEPT ![Head(pool)] = x]

-----------------------------------------------------------------------------
(* tud_task(), from usb_main or from inside linkoutput_fn.                  *)

Handles(e) ==
  /\ pc \in {"poll", "nested"}
  /\ events # <<>> /\ Head(events) = e
  /\ events' = Tail(events)
  /\ pc' = IF Tail(events) # <<>> THEN pc
           ELSE IF pc = "poll" THEN "serve" ELSE "send"

\* netd_xfer_cb of the IN endpoint.
InDone ==
  /\ Handles("in")
  /\ can_xmit' = TRUE
  /\ UNCHANGED <<mounted, listening, received, tx, swallowed, received_frame, memory,
                 arp, q, job, file, client>>

\* tud_network_recv_cb refuses a frame when the last one has not been served
\* yet, and drops one it has no buffer for, but says that it was accepted.
Refused == received_frame # None
Dropped == ~Refused /\ (received.what = "empty" \/ pool = <<>>)

Stored ==
  IF Refused \/ Dropped
  THEN UNCHANGED <<received_frame, memory>>
  ELSE PbufAlloc(received) /\ received_frame' = Head(pool)

\* netd_xfer_cb of the OUT endpoint: handle_incoming_packet renews the receive
\* for a frame that was refused.
OutDone ==
  /\ Handles("out")
  /\ Stored
  /\ listening' = Refused /\ swallowed' = Dropped
  /\ received' = Plain
  /\ UNCHANGED <<mounted, can_xmit, tx, arp, q, job, file, client>>

\* usbd_reset.
BusReset ==
  /\ Handles("reset")
  /\ mounted' = FALSE
  /\ UNCHANGED <<listening, received, can_xmit, tx, swallowed, received_frame, memory,
                 arp, q, job, file, client>>

\* Mutant: the frame is freed and stays in received_frame.
InitCbKeeps ==
  /\ SetMemory(PbufFree(Memory, received_frame))
  /\ UNCHANGED received_frame

\* SET_CONFIGURATION: netd_open, with tud_network_init_cb.
InitCb ==
  /\ SetMemory(PbufFree(Memory, received_frame))
  /\ received_frame' = None

\* Mutant: the frame that the reset took away is waited for.
OpenedStillSending ==
  /\ Handles("open")
  /\ InitCb
  /\ mounted' = TRUE /\ listening' = TRUE
  /\ tx' = None /\ swallowed' = FALSE
  /\ UNCHANGED <<can_xmit, received, arp, q, job, file, client>>

Opened ==
  /\ Handles("open")
  /\ InitCb
  /\ mounted' = TRUE /\ can_xmit' = TRUE /\ listening' = TRUE
  /\ tx' = None /\ swallowed' = FALSE
  /\ UNCHANGED <<received, arp, q, job, file, client>>

-----------------------------------------------------------------------------
(* service_traffic(): ethernet_input(received_frame).                       *)

\* Mutant: not while a frame is being sent.
RenewsIfIdle == mounted /\ ~Contains(events, "out") /\ can_xmit

\* tud_network_recv_renew: not while a frame is received or waits in the queue.
Renews == mounted /\ ~Contains(events, "out")

\* Mutant: without the second pbuf_free, which looks like one too many.
ReturnsFreeOnce(m) ==
  /\ SetMemory(m)
  /\ received_frame' = None
  /\ listening' = (listening \/ Renews)
  /\ swallowed' = (swallowed /\ ~Renews)
  /\ pc' = "timers"

\* lwIP returns: pbuf_free(received_frame), which it has freed already unless the
\* callback returned without, and tud_network_recv_renew().
Returns(m) ==
  /\ SetMemory(PbufFree(m, received_frame))
  /\ received_frame' = None
  /\ listening' = (listening \/ Renews)
  /\ swallowed' = (swallowed /\ ~Renews)
  /\ pc' = "timers"

Input(what) ==
  /\ pc = "serve" /\ received_frame # None
  /\ data[received_frame].what = what

NothingToServe ==
  /\ pc = "serve" /\ received_frame = None
  /\ pc' = "timers"
  /\ UNCHANGED <<bus, received_frame, memory, arp, q, job, file, client>>

\* lwIP answers with a packet of its own.
Ask ==
  /\ Input("ask")
  /\ job' = [Idle EXCEPT !.frame = received_frame]
  /\ pc' = "send"
  /\ UNCHANGED <<bus, received_frame, memory, arp, q, file, client>>

\* etharp_update_arp_entry: the packet that waits for this address is sent.
Arp ==
  /\ Input("arp")
  /\ LET p == data[received_frame].peer
     IN  /\ arp' = [arp EXCEPT ![p] = "stable"]
         /\ q' = [q EXCEPT ![p] = None]
         /\ IF q[p] = None
            THEN /\ Returns(PbufFree(Memory, received_frame))
                 /\ UNCHANGED job
            ELSE /\ job' = [Idle EXCEPT !.frame = received_frame, !.out = q[p]]
                 /\ pc' = "send"
                 /\ UNCHANGED <<listening, swallowed, received_frame, memory>>
  /\ UNCHANGED <<mounted, received, can_xmit, tx, events, file, client>>

\* lwIP keeps the frame, service_traffic() frees it all the same, and the buffer
\* is in the pool and in use: the model ends here.
Part ==
  /\ Input("part")
  /\ pc' = "kept"
  /\ UNCHANGED <<bus, received_frame, memory, arp, q, job, file, client>>

\* UPLOAD_: what was open is closed, and stays behind in sls_upload when the
\* file cannot be opened.
Upload(says) ==
  /\ written' = IF says = "T" THEN <<>> ELSE written
  /\ sls_upload' \in IF says = "T" THEN {"open"} ELSE {"none", "unopened"}
  /\ \/ sls_upload = "open" /\ disk' = written
     \/ UNCHANGED disk
  /\ UNCHANGED lost

\* Mutant: 'T' also when the bytes could not be written.
PieceWhateverHappens(n, says) ==
  /\ says = IF sls_upload = "none" THEN "F" ELSE "T"
  /\ written' \in {written} \cup (IF sls_upload = "open" THEN {Append(written, n)} ELSE {})
  /\ UNCHANGED <<sls_upload, disk, lost>>

\* U_: the bytes go where the last ones ended; nothing says which they are.
Piece(n, says) ==
  /\ sls_upload = "none" => says = "F"
  /\ written' = IF sls_upload = "open" /\ says = "T" THEN Append(written, n) ELSE written
  /\ UNCHANGED <<sls_upload, disk, lost>>

\* UDONE: neither the result of sync nor that of close is looked at.
Done(says) ==
  /\ says = IF sls_upload = "none" THEN "F" ELSE "T"
  /\ \/ disk' = written /\ sls_upload = "open" /\ UNCHANGED lost
     \/ UNCHANGED disk /\ lost' = (lost \/ sls_upload # "none")
  /\ sls_upload' = "none"
  /\ UNCHANGED written

Obey(f, says) ==
  \/ f.what = "upload" /\ f.nr = UPLOAD /\ Upload(says)
  \/ f.what = "upload" /\ f.nr \in 1 .. Pieces /\ Piece(f.nr, says)
  \/ f.what = "upload" /\ f.nr = UDONE /\ Done(says)
  \/ f.what = "other" /\ UNCHANGED file

\* udp_recv_proc up to udp_sendto.  Without an address for the client lwIP
\* sends a request for it and holds the answer back (etharp_query): one of the
\* two buffers is gone then, and the next command finds none for its answer.
Command ==
  /\ pc = "serve" /\ received_frame # None
  /\ LET f == data[received_frame]
     IN  \E says \in IF f.what = "other" THEN {"packet"} ELSE {"T", "F"} :
           /\ Obey(f, says)
           /\ PbufAlloc(Packet(f.peer, says, 0))
           /\ job' = [frame |-> received_frame, out |-> Head(pool),
                      hold |-> IF arp[f.peer] = "stable" THEN None ELSE f.peer]
           /\ arp' = [arp EXCEPT ![f.peer] = IF @ = "stable" THEN @ ELSE "pending"]
           /\ pc' = "send"
  /\ UNCHANGED <<bus, received_frame, q, client>>

\* SLS_REC:NO MEM!
NoMem ==
  /\ pc = "serve" /\ received_frame # None /\ pool = <<>>
  /\ data[received_frame].what \in {"upload", "other"}
  /\ Returns(Memory)
  /\ UNCHANGED <<mounted, received, can_xmit, tx, events, arp, q, job, file, client>>

-----------------------------------------------------------------------------
(* linkoutput_fn, and the rest of the callback that sends.                  *)

\* A packet that waits for an address is counted before its sender frees it.
HeldBack == IF job.hold = None THEN Memory ELSE PbufRef(Memory, job.out)

\* The frame is sent or given up; a timer has none of these packets.
Sent ==
  \/ /\ job # Idle
     /\ Returns(PbufFree(PbufFree(HeldBack, job.out), job.frame))
     /\ q' = IF job.hold = None THEN q ELSE [q EXCEPT ![job.hold] = job.out]
     /\ job' = Idle
     /\ UNCHANGED <<mounted, received, events, arp, file, client>>
  \/ /\ job = Idle
     /\ pc' = "poll"
     /\ UNCHANGED <<mounted, listening, received, events, swallowed, received_frame,
                    memory, arp, q, job, file, client>>

NotReady ==
  /\ pc = "send" /\ ~mounted
  /\ Sent
  /\ UNCHANGED <<can_xmit, tx>>

Xmit ==
  /\ pc = "send" /\ mounted /\ can_xmit
  /\ can_xmit' = FALSE
  /\ tx' = IF job.out # None /\ job.hold = None THEN data[job.out] ELSE Plain
  /\ Sent

Nested ==
  /\ pc = "send" /\ mounted /\ ~can_xmit
  /\ pc' = "nested"
  /\ UNCHANGED <<bus, received_frame, memory, arp, q, job, file, client>>

(* sys_check_timeouts().                                                    *)

NoTimeout ==
  /\ pc = "timers"
  /\ pc' = "poll"
  /\ UNCHANGED <<bus, received_frame, memory, arp, q, job, file, client>>

\* etharp_tmr: an entry is old; what it holds back is freed.
Expires(p) ==
  /\ pc = "timers" /\ arp[p] # "empty"
  /\ arp' = [arp EXCEPT ![p] = "empty"]
  /\ SetMemory(PbufFree(Memory, q[p]))
  /\ q' = [q EXCEPT ![p] = None]
  /\ UNCHANGED <<bus, received_frame, pc, job, file, client>>

\* An address asked for again, a TCP segment sent again.
TimerSends ==
  /\ pc = "timers"
  /\ pc' = "send"
  /\ UNCHANGED <<bus, received_frame, memory, arp, q, job, file, client>>

-----------------------------------------------------------------------------
(* The host.  Before it resets or configures the device it has stopped its  *)
(* network driver.                                                          *)

Quiet == ~Contains(events, "reset") /\ ~Contains(events, "open")

Transmits(f) ==
  /\ Quiet /\ mounted /\ listening
  /\ listening' = FALSE /\ received' = f
  /\ events' = Append(events, "out")
  /\ UNCHANGED <<mounted, can_xmit, tx, swallowed, received_frame, memory, arp, q, pc, job,
                 file>>

HostNoise(f) == Transmits(f) /\ UNCHANGED client

ClientSends ==
  /\ client.ok /\ client.next \in Commands
  /\ ~client.waiting
  /\ Transmits(Packet(Client, "upload", client.next))
  /\ client' = [client EXCEPT !.waiting = TRUE]

\* The host takes the frame; an answer is one to whatever the client waits for.
HostTakes ==
  /\ Quiet /\ tx # None
  /\ tx' = None
  /\ events' = Append(events, "in")
  /\ client' = IF tx \in Answers /\ tx.peer = Client /\ client.waiting
               THEN [client EXCEPT !.waiting = FALSE, !.ok = (tx.what = "T"),
                                   !.next = IF tx.what = "T" THEN @ + 1 ELSE @]
               ELSE client
  /\ UNCHANGED <<mounted, listening, received, can_xmit, swallowed, received_frame, memory,
                 arp, q, pc, job, file>>

HostResets ==
  /\ Quiet /\ mounted
  /\ listening' = FALSE /\ tx' = None
  /\ events' = Append(events, "reset")
  /\ UNCHANGED <<mounted, received, can_xmit, swallowed, received_frame, memory, arp, q, pc,
                 job, file, client>>

HostConfigures ==
  /\ Quiet
  /\ events' = Append(events, "open")
  /\ UNCHANGED <<mounted, listening, received, can_xmit, tx, swallowed, received_frame,
                 memory, arp, q, pc, job, file, client>>

-----------------------------------------------------------------------------
UsbTask ==
  \/ InDone \/ OutDone \/ BusReset \/ Opened
  \/ NothingToServe \/ Ask \/ Arp \/ Part \/ Command \/ NoMem
  \/ NotReady \/ Xmit \/ Nested
  \/ NoTimeout \/ TimerSends \/ \E p \in Peers : Expires(p)

Host ==
  \/ HostTakes \/ HostResets \/ HostConfigures \/ ClientSends
  \/ \E f \in Noise : HostNoise(f)

Over == pc = "kept" /\ UNCHANGED vars

Next == UsbTask \/ Host \/ Over

Spec == Init /\ [][Next]_vars

\* usb_main has the highest priority but for sys and SysMonitor, which sleep
\* most of the time (main.c:186-190), and a host polls the IN endpoint.
FairSpec == Spec /\ WF_vars(UsbTask) /\ WF_vars(HostTakes)

-----------------------------------------------------------------------------
(* Properties.                                                              *)

\* The places a buffer can be in when lwIP is not at work.
Places(b) ==
  {<<"pool", i>> : i \in {j \in DOMAIN pool : pool[j] = b}}
    \cup {<<"frame">> : x \in {received_frame} \cap {b}}
    \cup {<<"held", p>> : p \in {r \in Peers : q[r] = b}}

(* Each buffer is in one place at the top of usb_main's loop, although      *)
(* service_traffic frees a frame that lwIP has freed before, and although   *)
(* tud_network_init_cb may free it while lwIP is still at work on it: none  *)
(* is lost, none is handed out twice, and each count says which it is       *)
(* (system/usb.c:162-184, lwip/core/pbuf.c:753).                            *)
BuffersAccounted ==
  pc = "poll" =>
    \A b \in Bufs :
      /\ Cardinality(Places(b)) = 1
      /\ IF Contains(pool, b) THEN ref[b] \in {0, 255} ELSE ref[b] = 1

(* A client that sends each command once, after the answer to the one       *)
(* before, and is told 'T' each time has its file stored as it is, whatever *)
(* frames are lost, held back or answered late in between, but for an error *)
(* of sync or close, which UDONE does not look at                           *)
(* (system/sideload_server.c:133-181).                                      *)
FileAsSent ==
  (client.ok /\ client.next > UDONE /\ ~lost)
    => disk = [n \in 1 .. Pieces |-> n]

(* A frame that comes finds received_frame empty, where the code says       *)
(* "this shouldn't happen" of the contrary, and a buffer in the pool,       *)
(* although there are two, an answer may be held back in one, and the host  *)
(* may configure the device, and send again, while lwIP is still at work on *)
(* the frame before (system/usb.c:132-150, lwipopts.h PBUF_POOL_SIZE).      *)
RoomForAFrame ==
  (listening \/ Contains(events, "out")) => received_frame = None /\ pool # <<>>

(* usb_main never waits for what cannot come.  When it blocks in            *)
(* tud_task(), between two rounds with no receive armed or inside           *)
(* linkoutput_fn with a frame half processed, an event is there or a frame  *)
(* is on its way to the host, whose completion is one; and while no receive *)
(* is armed the frame that will renew it is being served, or comes, or the  *)
(* host sets the device up again: a frame stored from inside linkoutput_fn  *)
(* and then dropped, or left for the next round, does not stop reception    *)
(* (system/usb.c:69, 132-150, 162-184, 202).                                *)
NeverWaitsInVain ==
  (mounted /\ pc # "kept") =>
    /\ pc = "nested" => events # <<>> \/ tx # None
    /\ (~listening /\ ~swallowed) =>
         /\ pc = "poll" => events # <<>> \/ tx # None
         /\ \/ received_frame # None \/ job.frame # None
            \/ \E e \in {"out", "reset", "open"} : Contains(events, e)

(* Every frame is served and reception goes on after it, also after one     *)
(* that tud_task() receives while lwIP is sending, when usb_main waits for  *)
(* one more event before it looks; unless a frame was swallowed, or the     *)
(* host goes away (system/usb.c:69, 162-171, 202).                          *)
ReceptionResumes ==
  (mounted /\ ~listening) ~> (listening \/ ~mounted \/ swallowed \/ pc = "kept")
=============================================================================
