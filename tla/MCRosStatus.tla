----------------------------- MODULE MCRosStatus -----------------------------
(* RosStatus for TLC.                                                      *)
EXTENDS RosStatus
=============================================================================
