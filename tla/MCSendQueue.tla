----------------------------- MODULE MCSendQueue -----------------------------
(* SendQueue with the sizes of sendq_*.cfg; it needs no definitions of its own. *)
EXTENDS SendQueue
=============================================================================
