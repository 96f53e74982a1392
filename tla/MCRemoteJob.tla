---------------------------- MODULE MCRemoteJob ----------------------------
(* The instance of RemoteJob for TLC.                                       *)
EXTENDS RemoteJob
=============================================================================
