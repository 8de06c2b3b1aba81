----------------------- MODULE MCInstructionProgress -----------------------
(***************************************************************************)
(* Constants of the TLC instance of InstructionProgress: code in sys.bin   *)
(* and in two sections of an application image, two main-memory pages,     *)
(* three frames, so that stores take the frames away one after the other.  *)
(***************************************************************************)
EXTENDS InstructionProgress

SysMap == [to |-> 4, path |-> "sys", offset |-> 0, size |-> 0,
           writable |-> FALSE, writeback |-> FALSE]
AppMaps == {[SysMap EXCEPT !.to = 16, !.path = "app"]}
SamePath == {<<h, h>> : h \in Paths}
TheFilePages == [h \in Paths |-> IF h = "sys" THEN 1 ELSE 5]
NoRequests == {}
=============================================================================
