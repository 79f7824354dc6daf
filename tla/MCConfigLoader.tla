---------------------------- MODULE MCConfigLoader ----------------------------
(* ConfigLoader for TLC. *)
EXTENDS ConfigLoader

CONSTANTS thread, hand, g1, g2, b1, b2, c1, c2, c3
=============================================================================
