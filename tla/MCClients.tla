------------------------------ MODULE MCClients ------------------------------
(* Clients for TLC.                                                        *)
EXTENDS Clients
CONSTANTS b1, b2, cli
MCBrowsers == {b1, b2}
=============================================================================
