---------------------------- MODULE MCDelayServer ----------------------------
(***************************************************************************)
(* Constants of the TLC instance of DelayServer.  W is small enough for    *)
(* ticks to wrap around within every delay, the table small enough for the *)
(* entries of stopped applications to fill it.                             *)
(***************************************************************************)
EXTENDS DelayServer

MCDelays == {0, 1, 4}
=============================================================================
