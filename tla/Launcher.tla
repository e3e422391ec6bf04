------------------------------ MODULE Launcher -------------------------------
(***************************************************************************)
(* mpirun_rsh and its mpispawns, from the launch of a job to its exit code *)
(* (mpirun_rsh.c, wfe_mpirun.c, m_state.c, signal_processor.c,             *)
(* mpispawn.c).  mpirun_rsh has three threads: main, which waits for       *)
(* changes of the job's state; wfe, which lets the mpispawns check in and  *)
(* then reads what they report; and the signal thread, which reaps the     *)
(* mpispawns.  Each mpispawn has a main thread, which starts the processes *)
(* of its node and serves them, and a signal thread, which reaps them.     *)
(*                                                                         *)
(* Checkpointing, dynamic processes, the debugger and the launch by a tree *)
(* of mpispawns are left out.  Finalize of the processes is one step (the  *)
(* module PmiTree has its messages).  What happens after mpirun_rsh has    *)
(* its exit code (cleanup) is not modelled.                                *)
(***************************************************************************)
EXTENDS Integers, Sequences, FiniteSets

CONSTANTS
    NumSpawns,  \* NSPAWNS; mpispawn 0 is the root of their tree
    Procs,      \* the MPI processes
    NodeOf,     \* NodeOf[p]: its mpispawn
    FaultSets   \* what may happen together: a process is "killed" or exits "nonzero", also
                \* "early", before it finalizes with exit code zero, or "unstored", before its
                \* mpispawn has stored its pid; "ssh" fails; the user's "interrupt" and "timeout"

Spawns == 0 .. NumSpawns - 1

ASSUME LauncherAssumption ==
    /\ NumSpawns \in Nat \ {0} /\ NodeOf \in [Procs -> Spawns]
    /\ FaultSets \subseteq SUBSET {"killed", "nonzero", "early", "unstored", "ssh", "interrupt", "timeout"}

VARIABLES
    m_state,        \* the state of the job
    m_exit_code,    \* "success" or "failure"
    main,           \* where mpirun_rsh's main thread is
    wfe,            \* where its wfe thread is
    cancel,         \* main has cancelled the wfe thread
    sig,            \* where its signal thread is
    chld,           \* SIGCHLD is pending
    backlog,        \* connections to its socket: "checkin", "nonzero" or "abort"
    checkins,       \* wait_socks_succ
    socket_error,
    interrupted

mpirun == <<m_state, m_exit_code, main, wfe, cancel, sig, chld, backlog, checkins, socket_error,
            interrupted>>

VARIABLES
    sp,             \* sp[s]: where the main thread of mpispawn s is
    running,        \* running[s]: it is in MPISPAWN_STATE_RUNNING
    sigc,           \* sigc[s]: SIGCHLD is pending
    hand,           \* hand[s]: its child_handler runs
    num_exited,     \* num_exited[s]
    ended,          \* ended[s]: its exit code, "no" before
    waited,         \* waited[s]: mpirun_rsh has reaped it
    addressed       \* the mpispawns that were sent the addresses

mpispawn == <<sp, running, sigc, hand, num_exited, ended, waited, addressed>>

VARIABLES
    proc,           \* proc[p]: "none", "live", "done" (finalized) or how it ended
    stored,         \* stored[p]: its pid is in local_processes
    joined,         \* joined[p]: it has connected to its mpispawn
    reaped          \* reaped[p]: its mpispawn has reaped it

processes == <<proc, stored, joined, reaped>>

VARIABLE faults     \* which of FaultSets this behaviour is about

jobVars == <<mpirun, mpispawn, processes, faults>>

LocalProcs(s) == {p \in Procs : NodeOf[p] = s}
Ends == {"ok", "nonzero", "killed"}

JobTypeOK ==
    /\ m_state \in {"M_INITIALIZE", "M_LAUNCH", "M_RUN", "M_EXIT"}
    /\ m_exit_code \in {"success", "failure"}
    /\ main \in {"start", "spawn", "wait_launch", "wait_run", "stop_wfe", "join_wfe", "returned"}
    /\ wfe \in {"off", "checkin", "addresses", "transition", "accept", "gone"}
    /\ sig \in {"wait", "reap"}
    /\ {cancel, chld, socket_error, interrupted} \subseteq BOOLEAN
    /\ backlog \in Seq({"checkin", "nonzero", "abort"}) /\ checkins \in 0 .. NumSpawns
    /\ sp \in [Spawns -> {"none", "up", "spawn", "accept", "tree", "ops", "after", "exited"}]
    /\ {running, sigc, hand, waited} \subseteq [Spawns -> BOOLEAN]
    /\ \A s \in Spawns : num_exited[s] \in 0 .. Cardinality(LocalProcs(s))
    /\ ended \in [Spawns -> {"no", "zero", "failure"}] /\ addressed \subseteq Spawns
    /\ proc \in [Procs -> {"none", "live", "done"} \cup Ends]
    /\ {stored, joined, reaped} \subseteq [Procs -> BOOLEAN]
    /\ faults \in FaultSets

JobInit ==
    /\ m_state = "M_INITIALIZE" /\ m_exit_code = "success" /\ main = "start"
    /\ wfe = "off" /\ cancel = FALSE /\ sig = "wait" /\ chld = FALSE
    /\ backlog = << >> /\ checkins = 0 /\ socket_error = FALSE
    /\ interrupted = FALSE
    /\ sp = [s \in Spawns |-> "none"] /\ running = [s \in Spawns |-> FALSE]
    /\ sigc = [s \in Spawns |-> FALSE] /\ hand = [s \in Spawns |-> FALSE]
    /\ num_exited = [s \in Spawns |-> 0] /\ ended = [s \in Spawns |-> "no"]
    /\ waited = [s \in Spawns |-> FALSE] /\ addressed = {}
    /\ proc = [p \in Procs |-> "none"] /\ stored = [p \in Procs |-> FALSE]
    /\ joined = [p \in Procs |-> FALSE] /\ reaped = [p \in Procs |-> FALSE]
    /\ faults \in FaultSets
-----------------------------------------------------------------------------
(* Faulty variants of definitions below, each with the mistake its name tells; *)
(* the specification does not use them.  PROJECT.json pairs each with the      *)
(* property that must notice it.                                               *)
TakesAny(old, new) == m_state' = new
IgnoresStatus(s) == FALSE
ForgetsReport(s, p) == UNCHANGED <<backlog, num_exited, sp, ended, chld>>
-----------------------------------------------------------------------------
(* m_state.c *)

m_state_transition(old, new) == m_state' = IF m_state = old THEN new ELSE m_state
m_state_exit == m_state' = "M_EXIT"
m_state_fail == m_exit_code' = "failure" /\ m_state_exit
-----------------------------------------------------------------------------
(* mpirun_rsh: main *)

Main_launch ==
    /\ main = "start"
    /\ m_state_transition("M_INITIALIZE", "M_LAUNCH")
    /\ main' = IF m_state = "M_INITIALIZE" THEN "spawn" ELSE "stop_wfe"
    /\ UNCHANGED <<m_exit_code, wfe, cancel, sig, chld, backlog, checkins, socket_error,
                   interrupted, mpispawn, processes>>

\* spawn_fast forks the mpispawns one after the other.
spawn_fast(s) ==
    /\ main = "spawn" /\ sp[s] = "none" /\ \A t \in Spawns : t < s => sp[t] # "none"
    /\ sp' = [sp EXCEPT ![s] = "up"]
    /\ UNCHANGED <<mpirun, running, sigc, hand, num_exited, ended, waited, addressed, processes>>

start_wfe_thread ==
    /\ main = "spawn" /\ \A s \in Spawns : sp[s] # "none"
    /\ wfe' = "checkin" /\ main' = "wait_launch"
    /\ UNCHANGED <<m_state, m_exit_code, cancel, sig, chld, backlog, checkins, socket_error,
                   interrupted, mpispawn, processes>>

Main_wait ==
    /\ \/ main = "wait_launch" /\ m_state # "M_LAUNCH"
       \/ main = "wait_run" /\ m_state = "M_EXIT"
    /\ main' = IF m_state = "M_RUN" THEN "wait_run" ELSE "stop_wfe"
    /\ UNCHANGED <<m_state, m_exit_code, wfe, cancel, sig, chld, backlog, checkins, socket_error,
                   interrupted, mpispawn, processes>>

stop_wfe_thread ==
    /\ main = "stop_wfe" /\ cancel' = TRUE /\ main' = "join_wfe"
    /\ UNCHANGED <<m_state, m_exit_code, wfe, sig, chld, backlog, checkins, socket_error,
                   interrupted, mpispawn, processes>>

\* The wfe thread is joined, the signal thread stopped, and the exit code taken.
Main_return ==
    /\ main = "join_wfe" /\ wfe \in {"off", "gone"} /\ main' = "returned"
    /\ UNCHANGED <<m_state, m_exit_code, wfe, cancel, sig, chld, backlog, checkins, socket_error,
                   interrupted, mpispawn, processes>>
-----------------------------------------------------------------------------
(* mpirun_rsh: the wfe thread.  It is cancelled where it waits, or where it prints that *)
(* its transition has failed.                                                           *)

Wfe_cancelled ==
    /\ cancel /\ wfe \in {"checkin", "addresses", "transition", "accept"}
    /\ wfe = "transition" => m_state # "M_LAUNCH"
    /\ wfe' = "gone"
    /\ UNCHANGED <<m_state, m_exit_code, main, cancel, sig, chld, backlog, checkins, socket_error,
                   interrupted, mpispawn, processes>>

\* One turn of the loop of mpispawn_checkin: whatever connects is read as a check-in.
mpispawn_checkin ==
    LET report == Head(backlog) # "checkin"
        error == socket_error \/ report
        last == checkins + 1 = NumSpawns
    IN
    /\ wfe = "checkin" /\ backlog # << >>
    /\ backlog' = Tail(backlog) /\ checkins' = checkins + 1
    /\ socket_error' = error
    /\ IF last /\ error THEN m_state_fail ELSE UNCHANGED <<m_state, m_exit_code>>
    /\ wfe' = IF ~last THEN wfe ELSE IF error THEN "transition" ELSE "addresses"
    /\ UNCHANGED <<main, cancel, sig, chld, interrupted, mpispawn, processes>>

\* The addresses go to mpispawn 0, if it is still there.
Send_addresses ==
    /\ wfe = "addresses" /\ wfe' = "transition"
    /\ IF sp[0] = "exited" THEN m_state_fail /\ UNCHANGED addressed
       ELSE addressed' = addressed \cup {0} /\ UNCHANGED <<m_state, m_exit_code>>
    /\ UNCHANGED <<main, cancel, sig, chld, backlog, checkins, socket_error, interrupted,
                   sp, running, sigc, hand, num_exited, ended, waited, processes>>

Wfe_transition ==
    /\ wfe = "transition"
    /\ IF m_state = "M_LAUNCH"
       THEN m_state_transition("M_LAUNCH", "M_RUN") /\ wfe' = "accept" /\ UNCHANGED m_exit_code
       ELSE m_state_fail /\ wfe' = "gone"
    /\ UNCHANGED <<main, cancel, sig, chld, backlog, checkins, socket_error, interrupted,
                   mpispawn, processes>>

process_mpispawn_connection ==
    /\ wfe = "accept" /\ backlog # << >>
    /\ m_state_fail
    /\ wfe' = IF Head(backlog) = "nonzero" THEN "accept" ELSE "gone"
    /\ backlog' = Tail(backlog)
    /\ UNCHANGED <<main, cancel, sig, chld, checkins, socket_error, interrupted,
                   mpispawn, processes>>
-----------------------------------------------------------------------------
(* mpirun_rsh: the signal thread *)

Forked == {s \in Spawns : sp[s] # "none"}

Signal ==
    /\ sig = "wait" /\ chld
    /\ sig' = "reap" /\ chld' = FALSE
    /\ UNCHANGED <<m_state, m_exit_code, main, wfe, cancel, backlog, checkins, socket_error,
                   interrupted, mpispawn, processes>>

Bad_status(s) == ended[s] = "failure"

\* child_handler reaps an mpispawn.
Reap_mpispawn(s) ==
    /\ sig = "reap" /\ sp[s] = "exited" /\ ~waited[s]
    /\ waited' = [waited EXCEPT ![s] = TRUE]
    /\ IF Bad_status(s)
       THEN m_state_fail /\ socket_error' = (socket_error \/ checkins < NumSpawns)
       ELSE UNCHANGED <<m_state, m_exit_code, socket_error>>
    /\ UNCHANGED <<main, wfe, cancel, sig, chld, backlog, checkins, interrupted,
                   sp, running, sigc, hand, num_exited, ended, addressed, processes>>

\* waitpid finds none to reap: if none is left, the job ends.
Reaped_all ==
    /\ sig = "reap" /\ \A s \in Forked : sp[s] = "exited" => waited[s]
    /\ IF \A s \in Forked : waited[s] THEN m_state_exit ELSE UNCHANGED m_state
    /\ sig' = "wait"
    /\ UNCHANGED <<m_exit_code, main, wfe, cancel, chld, backlog, checkins, socket_error,
                   interrupted, mpispawn, processes>>

cleanup_handler ==
    /\ "interrupt" \in faults /\ ~interrupted /\ sig = "wait"
    /\ m_state_fail /\ interrupted' = TRUE
    /\ UNCHANGED <<main, wfe, cancel, sig, chld, backlog, checkins, socket_error,
                   mpispawn, processes>>
\* The launch has a limit of time, and the job if the user sets one.
Launching == {"start", "spawn", "wait_launch"}

alarm_handler ==
    /\ sig = "wait"
    /\ \/ main \in Launching
       \/ main \in {"wait_run", "stop_wfe", "join_wfe"} /\ "timeout" \in faults
    /\ m_state_fail
    /\ UNCHANGED <<main, wfe, cancel, sig, chld, backlog, checkins, socket_error, interrupted,
                   mpispawn, processes>>
-----------------------------------------------------------------------------
(* An mpispawn: its end *)

\* exit: mpirun_rsh is told by SIGCHLD.
Exit(s, code) ==
    /\ sp' = [sp EXCEPT ![s] = "exited"]
    /\ ended' = [ended EXCEPT ![s] = code]
    /\ chld' = TRUE

\* report_error connects to mpirun_rsh.
report_error(what) == backlog' = Append(backlog, what)

\* mpispawn_abort kills its processes, reports and exits.
mpispawn_abort(s) == report_error("abort") /\ Exit(s, "failure")

SameMpirun == UNCHANGED <<m_state, m_exit_code, main, wfe, cancel, sig, checkins, socket_error,
                          interrupted>>
-----------------------------------------------------------------------------
(* An mpispawn: its main thread *)

Ssh_fails(s) ==
    /\ "ssh" \in faults /\ sp[s] = "up" /\ Exit(s, "failure")
    /\ SameMpirun
    /\ UNCHANGED <<backlog, running, sigc, hand, num_exited, waited, addressed, processes>>

Check_in(s) ==
    /\ sp[s] = "up" /\ sp' = [sp EXCEPT ![s] = "spawn"]
    /\ backlog' = Append(backlog, "checkin")
    /\ SameMpirun
    /\ UNCHANGED <<chld, running, sigc, hand, num_exited, ended, waited, addressed, processes>>

\* spawn_processes forks one process after the other, and stores each pid.
Fork(s, p) ==
    /\ sp[s] = "spawn" /\ p \in LocalProcs(s) /\ proc[p] = "none"
    /\ \A q \in LocalProcs(s) : proc[q] # "none" => stored[q]
    /\ proc' = [proc EXCEPT ![p] = "live"]
    /\ UNCHANGED <<mpirun, mpispawn, stored, joined, reaped>>

Store_pid(s, p) ==
    /\ sp[s] = "spawn" /\ p \in LocalProcs(s) /\ proc[p] # "none" /\ ~stored[p]
    /\ stored' = [stored EXCEPT ![p] = TRUE]
    /\ UNCHANGED <<mpirun, mpispawn, proc, joined, reaped>>

Spawned(s) ==
    /\ sp[s] = "spawn" /\ \A p \in LocalProcs(s) : stored[p]
    /\ sp' = [sp EXCEPT ![s] = "accept"]
    /\ running' = [running EXCEPT ![s] = TRUE]
    /\ UNCHANGED <<mpirun, sigc, hand, num_exited, ended, waited, addressed, processes>>

Accept_processes(s) ==
    /\ sp[s] = "accept" /\ \A p \in LocalProcs(s) : joined[p]
    /\ sp' = [sp EXCEPT ![s] = "tree"]
    /\ UNCHANGED <<mpirun, running, sigc, hand, num_exited, ended, waited, addressed, processes>>

\* mpispawn_tree_init: the root sends the addresses on; it exits if one is not there.
mpispawn_tree_init(s) ==
    /\ sp[s] = "tree" /\ s \in addressed
    /\ IF s = 0 /\ \E t \in Spawns : sp[t] = "exited"
       THEN Exit(s, "failure") /\ UNCHANGED addressed
       ELSE /\ sp' = [sp EXCEPT ![s] = "ops"]
            /\ addressed' = IF s = 0 THEN Spawns ELSE addressed
            /\ UNCHANGED <<chld, ended>>
    /\ SameMpirun
    /\ UNCHANGED <<backlog, running, sigc, hand, num_exited, waited, processes>>

\* A socket of a process, or of the next mpispawn in the tree, is closed at the other end.
Peer_gone(s) ==
    \/ \E p \in LocalProcs(s) : proc[p] \in Ends
    \/ \E t \in Spawns : sp[t] = "exited" /\ (s = 0 \/ t = 0)

Read_error(s) ==
    /\ sp[s] = "ops" /\ Peer_gone(s)
    /\ mpispawn_abort(s)
    /\ SameMpirun
    /\ UNCHANGED <<running, sigc, hand, num_exited, waited, addressed, processes>>
-----------------------------------------------------------------------------
(* An mpispawn: its signal thread *)

Alive(s) == sp[s] \notin {"none", "exited"}

child_handler(s) ==
    /\ Alive(s) /\ sigc[s] /\ ~hand[s]
    /\ hand' = [hand EXCEPT ![s] = TRUE] /\ sigc' = [sigc EXCEPT ![s] = FALSE]
    /\ UNCHANGED <<mpirun, sp, running, num_exited, ended, waited, addressed, processes>>

Zombie(p) == proc[p] \in Ends /\ ~reaped[p]

Now_exited(s) == num_exited[s] + 1

Reap_ok(s) ==
    /\ num_exited' = [num_exited EXCEPT ![s] = Now_exited(s)]
    /\ IF Now_exited(s) = Cardinality(LocalProcs(s)) THEN Exit(s, "zero")
       ELSE UNCHANGED <<sp, ended, chld>>
    /\ UNCHANGED backlog

\* Only a process whose pid is found is reported.
Reap_nonzero(s, p) ==
    /\ IF stored[p] THEN report_error("nonzero") ELSE UNCHANGED backlog
    /\ UNCHANGED <<num_exited, sp, ended, chld>>

Reap_killed(s, p) ==
    /\ IF stored[p] THEN mpispawn_abort(s) ELSE UNCHANGED <<backlog, sp, ended, chld>>
    /\ UNCHANGED num_exited

Reap_process(s, p) ==
    /\ Alive(s) /\ hand[s] /\ p \in LocalProcs(s) /\ Zombie(p)
    /\ reaped' = [reaped EXCEPT ![p] = TRUE]
    /\ \/ proc[p] = "ok" /\ Reap_ok(s)
       \/ proc[p] = "nonzero" /\ Reap_nonzero(s, p)
       \/ proc[p] = "killed" /\ Reap_killed(s, p)
    /\ SameMpirun
    /\ UNCHANGED <<running, sigc, hand, waited, addressed, proc, stored, joined>>

\* waitpid finds none to reap: if none is left, a running mpispawn exits.
No_zombie(s) ==
    LET none == \A p \in LocalProcs(s) : proc[p] # "none" => reaped[p] IN
    /\ Alive(s) /\ hand[s] /\ \A p \in LocalProcs(s) : ~Zombie(p)
    /\ IF none /\ running[s] THEN Exit(s, "zero") ELSE UNCHANGED <<sp, ended, chld>>
    /\ hand' = [hand EXCEPT ![s] = FALSE]
    /\ SameMpirun
    /\ UNCHANGED <<backlog, running, sigc, num_exited, waited, addressed, processes>>
-----------------------------------------------------------------------------
(* The processes *)

\* PMI_Init connects to the mpispawn.
PMI_Init(p) ==
    /\ proc[p] = "live" /\ ~joined[p] /\ Alive(NodeOf[p])
    /\ joined' = [joined EXCEPT ![p] = TRUE]
    /\ UNCHANGED <<mpirun, mpispawn, proc, stored, reaped>>

\* All processes finalize, over the tree of the mpispawns.
PMI_Finalize ==
    /\ \A s \in Spawns : sp[s] = "ops"
    /\ \A p \in Procs : proc[p] = "live"
    /\ proc' = [p \in Procs |-> "done"]
    /\ sp' = [s \in Spawns |-> "after"]
    /\ UNCHANGED <<mpirun, running, sigc, hand, num_exited, ended, waited, addressed, stored,
                   joined, reaped>>

End(p, how) ==
    /\ proc[p] \in {"live", "done"} /\ Alive(NodeOf[p])
    /\ how = "ok" => proc[p] = "done" \/ "early" \in faults
    /\ how # "ok" => how \in faults
    /\ ~stored[p] => "unstored" \in faults
    /\ proc' = [proc EXCEPT ![p] = how]
    /\ sigc' = [sigc EXCEPT ![NodeOf[p]] = TRUE]
    /\ UNCHANGED <<mpirun, sp, running, hand, num_exited, ended, waited, addressed, stored, joined,
                   reaped>>
-----------------------------------------------------------------------------
Mpirun ==
    \/ Main_launch \/ start_wfe_thread \/ Main_wait \/ stop_wfe_thread \/ Main_return
    \/ Wfe_cancelled \/ mpispawn_checkin \/ Send_addresses \/ Wfe_transition
    \/ process_mpispawn_connection
    \/ Signal \/ Reaped_all \/ cleanup_handler \/ alarm_handler
    \/ \E s \in Spawns : spawn_fast(s) \/ Reap_mpispawn(s)

Mpispawn(s) ==
    \/ Ssh_fails(s) \/ Check_in(s) \/ Spawned(s) \/ Accept_processes(s) \/ mpispawn_tree_init(s)
    \/ Read_error(s) \/ child_handler(s) \/ No_zombie(s)
    \/ \E p \in Procs : Fork(s, p) \/ Store_pid(s, p) \/ Reap_process(s, p)

Process == PMI_Finalize \/ \E p \in Procs : PMI_Init(p) \/ \E how \in Ends : End(p, how)

\* Main has not returned the exit code.
Running == main # "returned" /\ UNCHANGED faults

JobNext ==
    /\ Running
    /\ Mpirun \/ Process \/ \E s \in Spawns : Mpispawn(s)

JobSpec == JobInit /\ [][JobNext]_jobVars

\* Every thread goes on, a process that has finalized ends, and the launch's alarm rings at last.
\* Nobody need fail, and the user's limit of time may be long.
JobFairness ==
    /\ WF_jobVars(Running /\ (Main_launch \/ start_wfe_thread \/ Main_wait \/ stop_wfe_thread
                           \/ Main_return \/ \E s \in Spawns : spawn_fast(s)))
    /\ WF_jobVars(Running /\ (Wfe_cancelled \/ mpispawn_checkin \/ Send_addresses
                           \/ Wfe_transition \/ process_mpispawn_connection))
    /\ WF_jobVars(Running /\ (Signal \/ Reaped_all \/ \E s \in Spawns : Reap_mpispawn(s)))
    /\ WF_jobVars(Running /\ main \in Launching /\ alarm_handler)
    /\ \A s \in Spawns :
          /\ WF_jobVars(Running /\ (\/ Check_in(s) \/ Spawned(s) \/ Accept_processes(s)
                                 \/ mpispawn_tree_init(s) \/ Read_error(s)
                                 \/ \E p \in Procs : Fork(s, p) \/ Store_pid(s, p)))
          /\ WF_jobVars(Running /\ (child_handler(s) \/ No_zombie(s)
                                 \/ \E p \in Procs : Reap_process(s, p)))
    /\ WF_jobVars(Running /\ PMI_Finalize)
    /\ \A p \in Procs :
          /\ WF_jobVars(Running /\ PMI_Init(p))
          /\ WF_jobVars(Running /\ proc[p] = "done" /\ End(p, "ok"))

FairJobSpec == JobSpec /\ JobFairness
-----------------------------------------------------------------------------
(* Properties *)

\* A job whose process was killed, which its mpispawn saw, fails, unless a process could also end
\* otherwise before all have finalized: an mpispawn that exits with zero before the next is forked
\* ends the job (child_handler of mpirun_rsh.c takes ECHILD for the end of all).
KilledIsFailure ==
    faults \cap {"nonzero", "unstored", "early"} = {} /\ main = "returned"
    /\ (\E p \in Procs : proc[p] = "killed" /\ reaped[p] /\ stored[p])
    => m_exit_code = "failure"

\* The job's state changes as JobLife has it: once ended it stays so, whichever thread comes late,
\* and a failure is not forgotten.
Life == INSTANCE JobLife WITH state <- m_state, exit_code <- m_exit_code
JobLifeSpec == Life!Spec

\* mpirun_rsh gets its exit code, whatever fails, with one exception: when a process was reaped
\* before its pid was stored, so that nobody reports it, or exited with zero before it finalized,
\* an mpispawn may wait for ever for that process to connect, or for the addresses from an
\* mpispawn 0 that has exited with zero.
WaitsInVain(s) ==
    \/ sp[s] = "accept" /\ \E p \in LocalProcs(s) : reaped[p] /\ ~joined[p]
    \/ sp[s] = "tree" /\ s \notin addressed /\ ended[0] = "zero"

JobEnds ==
    \/ <>(main = "returned")
    \/ faults \cap {"unstored", "early"} # {} /\ <>[](\E s \in Spawns : WaitsInVain(s))
=============================================================================
