------------------------------ MODULE OwnerView ------------------------------
(***************************************************************************)
(* The page-frame manager as the owner of the memory meets it: the loads   *)
(* and stores of the processor and the requests to give pages back are     *)
(* observed in "op"; faults, permission changes, mappings and unmappings   *)
(* happen between them and must not be seen.  Shown to implement           *)
(* FlatMemory.                                                             *)
(***************************************************************************)
EXTENDS FrameSearch

CONSTANT NoOp

VARIABLE op   \* the operation that just took place, or NoOp

viewVars == <<vars, search, op>>

(* A load through a valid entry; a page without one faults first.          *)
LoadByOwner(p) ==
    /\ halt = "no" /\ pte[p] # NoPte
    /\ op' = [kind |-> "load", page |-> p, value |-> data[pte[p].frame]]
    /\ UNCHANGED vars

StoreByOwner(p, v) ==
    /\ Store(p, v)
    /\ op' = [kind |-> "store", page |-> p, value |-> <<v>>]

TrimByOwner(p) ==
    /\ TrimPage(p)
    /\ op' = [kind |-> "giveBack", pages |-> {p}]

LendByOwner(v, n) ==
    /\ SetAppMemWarp(v, n)
    /\ op' = [kind |-> "giveBack", pages |-> (v .. v + n - 1) \cap MemPages]

(* What the owner does not see, besides faults.                            *)
Paging ==
    \/ \E p \in Pages, mode \in {"user", "sys"} : PermissionFault(p, mode)
    \/ \E p \in Pages \ MemPages, v \in Values : Store(p, v)
    \/ \E r \in LockRequests : LockVaddr(r[1], r[2])
    \/ ResetAppMemWarp
    \/ \E r \in MapRequests : Mmap(r) \/ MmapOpenFails(r)
    \/ \E i \in Slots \ {0} : Munmap(i)

Return == op # NoOp /\ op' = NoOp /\ UNCHANGED <<vars, search>>

ViewInit == Init /\ Idle /\ op = NoOp

ViewNext ==
    \/ /\ op = NoOp /\ Idle /\ UNCHANGED search
       /\ \/ \E p \in MemPages : LoadByOwner(p) \/ TrimByOwner(p)
          \/ \E p \in MemPages, v \in Values : StoreByOwner(p, v)
          \/ \E w \in WarpRequests : LendByOwner(w[1], w[2])
          \/ Paging /\ UNCHANGED op
    \/ op = NoOp /\ FaultStep /\ UNCHANGED op
    \/ Return

ViewSpec == ViewInit /\ [][ViewNext]_viewVars

Flat == INSTANCE FlatMemory WITH mem <- AbsMem

(* Main memory is flat: every load returns the value of the last store,    *)
(* every store changes its page and no other, and nothing is lost except   *)
(* pages the owner gave back (mm_trim_page, mm_set_app_mem_warp), through  *)
(* all of do_dab, mmap and munmap.                                         *)
MemoryIsFlat == Flat!FlatSpec
=============================================================================
