----------------------------- MODULE MCHeapPages -----------------------------
(* Constants of the TLC instance of HeapPages: pages of 32 bytes, the      *)
(* least for which the arithmetic of the bitmap works, and sizes below,    *)
(* at and above multiples of a page.                                       *)
EXTENDS HeapPages

MCSizes == {29, 50, 91}
=============================================================================
