-------------------------- MODULE MCSingleSeeding --------------------------
(* The instance of SingleSeeding for TLC.                                     *)
EXTENDS SingleSeeding

MCKeys == 1 .. 2 * Count
=============================================================================
