------------------------------ MODULE MCSmpQueue ------------------------------
(* SmpQueue with a cache line of two bytes: both ends at the beginning, and in *)
(* the middle of the ring just before the counters wrap.                       *)
EXTENDS SmpQueue

EagerLengths == {2, 5}
LongLengths == {1, 3}
BothStarts == {<<0, 0>>, <<Modulus - 3, 7>>}
=============================================================================
