------------------------------ MODULE MCFraming ------------------------------
(* Framing with four byte values: 0 is STX, 1 and 2 are ACK and NAK and, like *)
(* 3, occur as length, payload and checksum too.  A telegram is STX, a       *)
(* length of 1 or 2, the payload and a checksum.                             *)
EXTENDS Framing

MCTotal(b) == IF b[2] \in {1, 2} THEN b[2] + 3 ELSE 0

Sum(b) == IF Len(b) = 4 THEN b[2] + b[3] ELSE b[2] + b[3] + b[4]
MCValid(b) == b[Len(b)] = Sum(b) % 4
=============================================================================
