------------------------------ MODULE MCUsbNet ------------------------------
(***************************************************************************)
(* Two buffers, as in the code, two addresses of the host, and a file of   *)
(* MCPieces pieces.                                                        *)
(***************************************************************************)
EXTENDS UsbNet

CONSTANTS c, d      \* addresses

MCPeers == {c, d}
MCBufs == {1, 2}
MCPieces == 2
=============================================================================
