------------------------------ MODULE MCConnMgr ------------------------------
(* ConnMgr for TLC: two ranks that both send. *)
EXTENDS ConnMgr

TwoRanks == {1, 2}
BothWays == {<<1, 2>>, <<2, 1>>}
=============================================================================
