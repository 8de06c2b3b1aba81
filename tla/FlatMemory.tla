---------------------------- MODULE FlatMemory ----------------------------
(***************************************************************************)
(* What the page-frame manager of boot1/mm.c promises to the system and    *)
(* the application: main memory behaves like plain RAM.  A load returns    *)
(* the value last stored, whatever is paged in and out meanwhile, and a    *)
(* page is forgotten only when its owner gives it back.                    *)
(***************************************************************************)
CONSTANTS
    MemPages,   \* the pages of main memory and of the application memory
    Values,     \* what a store can put into a page
    Junk,       \* the contents of a page that was never stored into
    NoOp        \* between two operations

VARIABLES
    mem,    \* mem[p]: the contents of page p, as its owner sees it
    op      \* the operation of the owner that just took place, or NoOp

flatVars == <<mem, op>>

Bytes == {<<v>> : v \in Values} \cup {Junk}

Op == [kind : {"load", "store"}, page : MemPages, value : Bytes]
      \cup [kind : {"giveBack"}, pages : SUBSET MemPages]

FlatTypeOK == mem \in [MemPages -> Bytes] /\ op \in Op \cup {NoOp}

FlatInit == mem = [p \in MemPages |-> Junk] /\ op = NoOp

FlatLoad(p) == /\ op = NoOp
               /\ op' = [kind |-> "load", page |-> p, value |-> mem[p]]
               /\ UNCHANGED mem

FlatStore(p, v) == /\ op = NoOp
                   /\ op' = [kind |-> "store", page |-> p, value |-> <<v>>]
                   /\ mem' = [mem EXCEPT ![p] = <<v>>]

(* Pages given back are forgotten; some of them may keep their contents    *)
(* when they are only lent.                                                *)
FlatGiveBack(S, forgotten) ==
    /\ op = NoOp
    /\ op' = [kind |-> "giveBack", pages |-> S]
    /\ mem' = [p \in MemPages |-> IF p \in forgotten THEN Junk ELSE mem[p]]

FlatReturn == op # NoOp /\ op' = NoOp /\ UNCHANGED mem

FlatNext ==
    \/ \E p \in MemPages : FlatLoad(p)
    \/ \E p \in MemPages, v \in Values : FlatStore(p, v)
    \/ \E S \in SUBSET MemPages : \E forgotten \in SUBSET S : FlatGiveBack(S, forgotten)
    \/ FlatReturn

FlatSpec == FlatInit /\ [][FlatNext]_flatVars
=============================================================================
