----------------------------- MODULE MCUdWindow -----------------------------
(* UdWindow for TLC: sequence numbers of three bits or so, so that they wrap. *)
EXTENDS UdWindow

\* How many messages end 0 and end 1 send: one end only, past the wrap, or both.
Sends(a, b) == [p \in Ends |-> IF p = 0 THEN a ELSE b]
OneOrBoth == {Sends(8, 0), Sends(2, 1)}
OneWay == {Sends(3, 0)}
=============================================================================
