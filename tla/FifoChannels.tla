---------------------------- MODULE FifoChannels ----------------------------
(***************************************************************************)
(* What a virtual connection promises to the layers above it: what process *)
(* p sends to process q is received by q exactly once, in the order sent,  *)
(* however the connection below was set up.                                *)
(***************************************************************************)
EXTENDS Integers, Sequences

CONSTANT Procs

VARIABLES
    sent,     \* sent[p][q]: number of messages p has handed over for q
    chan,     \* chan[p][q]: those q has not received, oldest first
    rcvd      \* rcvd[p][q]: the last message q received from p

vars == <<sent, chan, rcvd>>

Init ==
    /\ sent = [p \in Procs |-> [q \in Procs |-> 0]]
    /\ chan = [p \in Procs |-> [q \in Procs |-> << >>]]
    /\ rcvd = [p \in Procs |-> [q \in Procs |-> 0]]

Send(p, q) ==
    /\ sent' = [sent EXCEPT ![p][q] = @ + 1]
    /\ chan' = [chan EXCEPT ![p][q] = Append(@, sent[p][q] + 1)]
    /\ UNCHANGED rcvd

\* Messages are numbered, so "the next one" also says none is lost or repeated.
Receive(p, q) ==
    /\ chan[p][q] # << >>
    /\ Head(chan[p][q]) = rcvd[p][q] + 1
    /\ rcvd' = [rcvd EXCEPT ![p][q] = @ + 1]
    /\ chan' = [chan EXCEPT ![p][q] = Tail(@)]
    /\ UNCHANGED sent

Next == \E p, q \in Procs : Send(p, q) \/ Receive(p, q)

Spec == Init /\ [][Next]_vars
=============================================================================
