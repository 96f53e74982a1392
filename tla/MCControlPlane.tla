--------------------------- MODULE MCControlPlane ---------------------------
(* Instances of ControlPlane for TLC.                                       *)
EXTENDS ControlPlane

CONSTANTS codex, hermes, none, c1, c2
=============================================================================
