------------------------------ MODULE MCVcClose ------------------------------
(* VcClose for TLC: two or three processes. *)
EXTENDS VcClose

None == {}
Both(p, q) == {<<p, q>>, <<q, p>>}
ZeroOne == Both(0, 1)
OneTwo == Both(1, 2)
Chain == {<<0, 1>>, <<1, 2>>}
=============================================================================
