----------------------------- MODULE MCLauncher ------------------------------
(* Instances of Launcher for TLC: two mpispawns with one process each. *)
EXTENDS Launcher, TLC

CONSTANTS p, q

Two == {p, q}
TwoNodes == (p :> 0) @@ (q :> 1)

\* Processes are killed and ssh fails; processes exit with another code than zero, the user
\* interrupts and limits the time; processes end before their pids are stored, or before they
\* finalize.
FaultPairs == {{"killed", "ssh"}, {"nonzero", "interrupt", "timeout"}, {"killed", "unstored"},
               {"early", "unstored"}}
=============================================================================
