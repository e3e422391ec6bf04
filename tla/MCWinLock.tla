------------------------------ MODULE MCWinLock ------------------------------
(* Instances of WinLock for TLC: five epochs, one of them the target's own. *)
EXTENDS WinLock

CONSTANTS a, b, c, d, f

FiveEpochs == {a, b, c, d, f}

\* All exclusive: of two operations, of one, a put, a get and the target's own.
AllExclusive == [exclusive |-> FiveEpochs, puts |-> {c}, accs |-> {}, gets |-> {d},
                 local |-> {f}, several |-> {a}]

\* One exclusive epoch among shared ones: of two operations, an accumulate, the target's own.
OneExclusive == [exclusive |-> {a}, puts |-> {c}, accs |-> {c}, gets |-> {},
                 local |-> {f}, several |-> {b}]

\* Two exclusive epochs, one the target's own, among shared ones, one of them a get.
SharedGet == [exclusive |-> {a, f}, puts |-> {}, accs |-> {}, gets |-> {d},
              local |-> {f}, several |-> {b}]

ThreePlans == {AllExclusive, OneExclusive, SharedGet}
=============================================================================
