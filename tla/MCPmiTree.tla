------------------------------ MODULE MCPmiTree ------------------------------
(* Instances of PmiTree for TLC: small trees and the scripts of the processes. *)
EXTENDS PmiTree, TLC

CONSTANTS a, b, c, d    \* processes

AllKeys == {"a", "b", "c", "d", "shared", "name"}
Key == (a :> "a") @@ (b :> "b") @@ (c :> "c") @@ (d :> "d")
Call(cmd, key) == [cmd |-> cmd, key |-> key]
BarrierCall == Call("barrier_in", "none")
FinalizeCall == Call("finalize", "none")

Four == {a, b, c, d}
FourHomes == (a :> 0) @@ (b :> 1) @@ (c :> 2) @@ (d :> 2)

\* Each process puts a key and gets that of another after a barrier.
Rounds == [r \in Four |->
    <<Call("put", Key[r]), BarrierCall,
      Call("get", CASE r = a -> "d" [] r = b -> "a" [] r = c -> "b" [] r = d -> "c"),
      BarrierCall, FinalizeCall>>]

\* Keys of every process, then an urgent one of a single process.
Shared ==
    (a :> <<Call("put", "a"), BarrierCall, Call("get", "b"), BarrierCall, FinalizeCall>>) @@
    (b :> <<Call("put", "b"), BarrierCall, Call("put", "shared"), BarrierCall, FinalizeCall>>) @@
    (c :> <<Call("put", "c"), BarrierCall, BarrierCall, Call("get", "shared"), FinalizeCall>>) @@
    (d :> <<Call("put", "d"), BarrierCall, BarrierCall, FinalizeCall>>)

\* A name published at the root, looked up elsewhere and taken back.
Names ==
    (a :> <<Call("publish_name", "name"), BarrierCall, BarrierCall, Call("unpublish_name", "name"),
            BarrierCall, FinalizeCall>>) @@
    (b :> <<BarrierCall, Call("lookup_name", "name"), BarrierCall, BarrierCall,
            Call("lookup_name", "name"), FinalizeCall>>) @@
    (c :> <<BarrierCall, Call("lookup_name", "name"), BarrierCall, BarrierCall, FinalizeCall>>) @@
    (d :> <<BarrierCall, BarrierCall, BarrierCall, FinalizeCall>>)

\* A name published at a leaf and looked up elsewhere, while the others are on their way to
\* a barrier.
NamesBelow ==
    (a :> <<Call("lookup_name", "name"), BarrierCall, FinalizeCall>>) @@
    (b :> <<BarrierCall, Call("lookup_name", "name"), FinalizeCall>>) @@
    (c :> <<Call("publish_name", "name"), BarrierCall, FinalizeCall>>) @@
    (d :> <<Call("lookup_name", "name"), BarrierCall, FinalizeCall>>)

AllScripts == {Rounds, Shared, Names, NamesBelow}
=============================================================================
