------------------------------ MODULE MCBridge ------------------------------
(* Bridge with two hosts: "c1" and "d1" are on one, the rest on the other. *)
EXTENDS Bridge

MCPeer == [x \in Controls \cup Datas |-> IF x \in {"c1", "d1"} THEN "near" ELSE "far"]
=============================================================================
