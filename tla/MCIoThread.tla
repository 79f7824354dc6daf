------------------------------ MODULE MCIoThread ------------------------------
(* IoThread for TLC. *)
EXTENDS IoThread

CONSTANTS s1, s2, f1, f2
=============================================================================
