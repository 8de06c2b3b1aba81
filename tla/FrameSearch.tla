----------------------------- MODULE FrameSearch -----------------------------
(***************************************************************************)
(* The search for a frame (get_new_page_frame), one frame at a time.       *)
(* page_frame_ptr walks around the frames until the first loop meets a     *)
(* clean and unlocked one; when it has looked at all of them, a second     *)
(* loop walks on for an unlocked frame that does not back memory, and      *)
(* boot1 stops when there is none.  In MM the search is one step that      *)
(* names the frame it finds; here every pass of a loop is a step.          *)
(*                                                                         *)
(* boot1 handles an abort with interrupts masked: nothing else happens     *)
(* during a search.  Until it ends framePtr keeps the value page_frame_ptr *)
(* had at its start.                                                       *)
(***************************************************************************)
EXTENDS MM

CONSTANT NoSearch  \* model value

VARIABLE search    \* the search in progress, or NoSearch

(* The page that faulted, page_frame_ptr as it moves, cnt and not_found.   *)
Search == [page : Pages, ptr : Frames, cnt : 0 .. NumFrames - 1, notFound : BOOLEAN]

ASSUME SearchAssumption == NoSearch \notin Search

Idle == search = NoSearch

(* The page is in a clean frame already: no search.                        *)
ResidentFault(p) == /\ Idle
                    /\ \E f \in Frames : Resident(p, f)
                    /\ TranslationFault(p)
                    /\ UNCHANGED search

BeginSearch(p) ==
    /\ Idle
    /\ Faults(p) /\ IsServed(p)
    /\ \A f \in Frames : ~Resident(p, f)
    /\ search' = [page |-> p, ptr |-> framePtr, cnt |-> 0, notFound |-> FALSE]
    /\ UNCHANGED vars

PassedByStored(f) == lock[f] \/ (dirty[f] /\ tag[f] = MainTag)
                     \* mutant: the first loop takes what the second would take

(* The conditions of the two while loops.                                  *)
PassedBy(f) == \/ lock[f]
               \/ IF search.notFound THEN tag[f] = MainTag ELSE dirty[f]

OneShort == search.cnt + 2 >= NumFrames  \* mutant: the last frame is not looked at

LastOfLoop == search.cnt + 1 >= NumFrames

PassBy == /\ ~Idle
          /\ PassedBy(search.ptr)
          /\ ~(search.notFound /\ LastOfLoop)
          /\ search' = [search EXCEPT !.ptr = After(@),
                                      !.cnt = IF LastOfLoop THEN 0 ELSE @ + 1,
                                      !.notFound = @ \/ LastOfLoop]
          /\ UNCHANGED vars

(* "ERROR: no free page!" and while(1).                                    *)
GiveUp == /\ ~Idle
          /\ PassedBy(search.ptr)
          /\ search.notFound /\ LastOfLoop
          /\ framePtr' = After(search.ptr)
          /\ halt' = "noFreePage"
          /\ search' = NoSearch
          /\ UNCHANGED <<mapAddr, tag, dirty, lock, data, tableVars, sock, warp, pending, disk>>

(* A frame found by the second loop may be dirty: every file is written    *)
(* back first.  The page then gets the frame.                              *)
TakeFrame == /\ ~Idle
             /\ ~PassedBy(search.ptr)
             /\ framePtr' = After(search.ptr)
             /\ IF search.notFound THEN dirty' = CleanDirty /\ disk' = CleanDisk
                ELSE UNCHANGED <<dirty, disk>>
             /\ LoadPage(search.page, search.ptr)
             /\ search' = NoSearch

FaultStep == \/ \E p \in Pages : ResidentFault(p) \/ BeginSearch(p)
             \/ PassBy \/ GiveUp \/ TakeFrame

-----------------------------------------------------------------------------
(* Properties.                                                             *)

(* boot1 stops for want of a frame ("ERROR: no free page!") only when      *)
(* every frame is locked or holds stored-to memory: wherever the search    *)
(* starts, its two loops, which share one pointer, look at every frame.    *)
HangOnlyWhenFull ==
    halt = "noFreePage" => \A f \in Frames : lock[f] \/ (dirty[f] /\ tag[f] = MainTag)

(* The search as a whole is the one step of MM, nothing else in between:   *)
(* the frame it ends at is the first one, in the circular order from where *)
(* it began, that MM lets it take, and page_frame_ptr is left behind it.   *)
SearchIsAtomic == Spec
=============================================================================
