---------------------------- MODULE MCCreditFlow ----------------------------
(* CreditFlow for TLC: two rails and a handful of receives. *)
EXTENDS CreditFlow

TwoRails == {1, 2}
Server == {1}
Both == {}

\* How many messages end 0 and end 1 send.
OneWay == [p \in Ends |-> IF p = 0 THEN 5 ELSE 0]
Few == [p \in Ends |-> IF p = 0 THEN 5 ELSE 1]
=============================================================================
