---------------------------- MODULE MCHeapPolicy ----------------------------
(* Model-checking instance of HeapPolicy: process slots are integers, the  *)
(* way the C code addresses proc[] entries.                                *)
EXTENDS HeapPolicy

MCProcs4 == 0..3
MCProcs5 == 0..4
=============================================================================
