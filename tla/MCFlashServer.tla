---------------------------- MODULE MCFlashServer ----------------------------
(***************************************************************************)
(* Constants of the TLC instances of FlashServer: contents with and        *)
(* without a line end, which the server takes for the end of a line.       *)
(***************************************************************************)
EXTENDS FlashServer

MCData == {<<"x">>, <<"x", CRLF, "y">>, <<"y", "x", "x">>}
MCNames == {"boot1", "sys"}
MCClients == {"c1", "c2"}
MCOneClient == {"c1"}

Kind == {{}, {"cutEnd"}, {"closed"}}
HeaderCut == {{"cutHeader"}}
=============================================================================
