------------------------------- MODULE MCMM -------------------------------
(***************************************************************************)
(* Constants of the TLC instances of MM.  The address layout keeps the     *)
(* order of the real one, scaled to sections of 4 pages: section 0 is      *)
(* identity mapped; sys.bin lives in section 1; main memory and the        *)
(* application memory share section 3; application images start at         *)
(* section 4 and are long enough to reach section 5, so that the range     *)
(* [0, size) a closed mapping leaves behind covers sys.bin.                *)
(***************************************************************************)
EXTENDS MM

SysMap == [to |-> 4, path |-> "sys", offset |-> 0, size |-> 0,
           writable |-> FALSE, writeback |-> FALSE]

AppMap(path) == [to |-> 16, path |-> path, offset |-> 0, size |-> 0,
                 writable |-> FALSE, writeback |-> FALSE]

SamePath == {<<h, h>> : h \in Paths}

(* Two images and a side-loaded one take turns at the same address.        *)
ThePaths == {"sys", "app", "app2", "side"}
Side == {"side"}
TheFilePages == [h \in Paths |-> IF h = "sys" THEN 1 ELSE 5]
ImageMaps == {AppMap("app"), AppMap("app2"), [AppMap("side") EXCEPT !.size = 5]}
ImagePages == {4, 12, 13, 16, 20}
SideUnlocks == {<<16, FALSE>>, <<20, FALSE>>}
NoRequests == {}

(* The requests are those the proofs about files assume.                   *)
ASSUME OrderlyInstance == OrderlyFiles
=============================================================================
