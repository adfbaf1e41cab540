---------------------------- MODULE MCRecording ----------------------------
(* Recording on small instances.                                           *)
EXTENDS Recording
=============================================================================
