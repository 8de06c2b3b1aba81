---------------------------- MODULE MCFaultQueue ----------------------------
(***************************************************************************)
(* Constants of the TLC instance of FaultQueue: a task beside sysmmap      *)
(* (sys), one between (TinyUsb) and the application.  SysMonitor, the      *)
(* other task beside sysmmap, is left out: two of them can keep the rest   *)
(* from running by turns, which their delays prevent in the code.          *)
(***************************************************************************)
EXTENDS FaultQueue

CONSTANTS sys, usb, app

MCPriority == [t \in Tasks |-> CASE t = sys -> 4 [] t = usb -> 3 [] t = app -> 1]
=============================================================================
