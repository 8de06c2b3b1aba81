----------------------------- MODULE MCOwnerView -----------------------------
(***************************************************************************)
(* Constants of the TLC instance of OwnerView: three pages of memory, one  *)
(* of them lent to the application and seen at its own address, and an     *)
(* image that is mapped and unmapped, over three frames.  The image is     *)
(* mapped with write-back, which mmap offers and no caller in the tree     *)
(* asks for, so that the second search of get_new_page_frame runs; its     *)
(* page may be locked, so that both searches have to pass by a frame.      *)
(***************************************************************************)
EXTENDS OwnerView, TLC

SysMap == [to |-> 4, path |-> "sys", offset |-> 0, size |-> 0,
           writable |-> FALSE, writeback |-> FALSE]
OneMap == {[SysMap EXCEPT !.to = 16, !.path = "app",
                          !.writable = TRUE, !.writeback = TRUE]}
OnePath == {"sys", "app"}
SamePath == {<<h, h>> : h \in Paths}
TheFilePages == [h \in Paths |-> IF h = "sys" THEN 1 ELSE 5]
MemoryPages == {12, 13, 15, 16}
OneWarp == {<<13, 1>>}
NoRequests == {}
OneLock == {<<16, TRUE>>}

(* Nothing is ever decided by what was stored.                             *)
ValueSymmetry == Permutations(Values)

(* The requests are those the proofs about files assume.                   *)
ASSUME OrderlyInstance == OrderlyFiles
=============================================================================
