----------------------------- MODULE MCSession -----------------------------
(* Session on small instances.                                             *)
EXTENDS Session

MCRates == <<9600, 38400>>
=============================================================================
