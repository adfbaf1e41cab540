------------------------------ MODULE Exchange ------------------------------
(***************************************************************************)
(* What every hardware diagnostic promises its operator: a bounded number  *)
(* of telegrams, none after anything was heard from the scanner, and a     *)
(* report of success only when something was heard.                        *)
(***************************************************************************)
EXTENDS Naturals

VARIABLES budget,   \* telegrams that may still be sent
          heard,    \* an answer was recognised
          verdict   \* "none" until the report is final

vars == <<budget, heard, verdict>>

Init == budget \in Nat /\ heard = FALSE /\ verdict = "none"

Send == /\ verdict = "none" /\ ~heard /\ budget > 0
        /\ budget' = budget - 1 /\ UNCHANGED <<heard, verdict>>

Hear == verdict = "none" /\ heard' = TRUE /\ UNCHANGED <<budget, verdict>>

Conclude == /\ verdict = "none" /\ verdict' \in {"failure"} \cup (IF heard THEN {"success"} ELSE {})
            /\ UNCHANGED <<budget, heard>>

Next == Send \/ Hear \/ Conclude

Spec == Init /\ [][Next]_vars

=============================================================================
