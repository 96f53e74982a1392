-------------------------- MODULE MCSessionBindings --------------------------
(* Instances of SessionBindings for TLC.                                    *)
EXTENDS SessionBindings

CONSTANTS native, plain
=============================================================================
