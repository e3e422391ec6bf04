------------------------------- MODULE JobLife -------------------------------
(***************************************************************************)
(* What mpirun_rsh promises about the state of a job (m_state.c): it goes  *)
(* from initialisation over launching to running, any of them may end it,  *)
(* an ended job stays ended, and a failure once recorded is never          *)
(* forgotten.                                                              *)
(***************************************************************************)

VARIABLES
    state,      \* of the job
    exit_code   \* "success" or "failure"

vars == <<state, exit_code>>

Init == state = "M_INITIALIZE" /\ exit_code = "success"

Launch == state = "M_INITIALIZE" /\ state' = "M_LAUNCH" /\ UNCHANGED exit_code

Run == state = "M_LAUNCH" /\ state' = "M_RUN" /\ UNCHANGED exit_code

Exit == state' = "M_EXIT" /\ UNCHANGED exit_code

Fail == state' = "M_EXIT" /\ exit_code' = "failure"

Next == Launch \/ Run \/ Exit \/ Fail

Spec == Init /\ [][Next]_vars
=============================================================================
