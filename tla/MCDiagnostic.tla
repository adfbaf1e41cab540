---------------------------- MODULE MCDiagnostic ----------------------------
(* Diagnostic for TLC.                                                     *)
EXTENDS Diagnostic
=============================================================================
