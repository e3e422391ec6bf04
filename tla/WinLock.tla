------------------------------- MODULE WinLock -------------------------------
(***************************************************************************)
(* The lock of one window at its target: passive-target synchronisation of *)
(* CH3 one-sided communication (ch3u_rma_sync.c, ch3u_handle_recv_pkt.c,   *)
(* ch3u_handle_recv_req.c, ch3u_handle_send_req.c), for a window whose     *)
(* lock is not kept in shared memory (shm_fallback is 1).                  *)
(*                                                                         *)
(* An epoch of an origin is a lock request followed by operations, the     *)
(* completion of the last of which releases the lock, or one packet that   *)
(* locks, puts or gets, and unlocks.  A request that is not granted is     *)
(* queued, and MPIDI_CH3I_Release_lock goes through the queue.  Every step *)
(* is the target's, and a call of its progress engine handles one packet.  *)
(***************************************************************************)
EXTENDS Integers, Sequences, FiniteSets, SequencesExt

CONSTANTS
    Epochs,     \* the epochs, each of a process of its own
    Plans       \* what they ask for, one plan of this set in a behaviour

ASSUME EpochsAssumption ==
    /\ IsFiniteSet(Epochs)
    /\ \A p \in Plans :
          /\ p.exclusive \subseteq Epochs
          /\ p.puts \subseteq Epochs /\ p.gets \subseteq Epochs /\ p.local \subseteq Epochs
          /\ p.puts \cap p.gets = {} /\ p.local \cap (p.puts \cup p.gets) = {}
          /\ p.accs \subseteq p.puts
          /\ p.several \subseteq Epochs \ (p.puts \cup p.gets \cup p.local)

VARIABLES
    plan,  \* the plan of this behaviour
    win,   \* the window and the call of Release_lock that goes through its queue:
           \* current_lock_type, shared_lock_ref_cnt, outstanding_rma, lock_queue,
           \* the call's place (pc), its lock_queue pointer (pos), temp_entered_count
           \* and entered_count; entered_flag is 1 when pc is not "out"
    stage, \* stage[e]: how far epoch e is
    data,  \* the puts of the queue whose data has come (data_recd)
    left,  \* the epochs whose operation before the last is not complete
    forgot \* (history) a release has marked the window unlocked while it was locked

vars == <<plan, win, stage, data, left, forgot>>

Exclusive == plan.exclusive \* these ask for an exclusive lock, the others for a shared one
Puts == plan.puts           \* lock-put-unlock or lock-accumulate-unlock in one packet
Accs == plan.accs           \* the latter
Gets == plan.gets           \* lock-get-unlock in one packet
Several == plan.several     \* a lock, an operation, and the last operation
Local == plan.local         \* epochs of the target itself

Types == {"none", "shared", "exclusive"}
Stages == {"before", "requested", "queued", "granted", "serving", "done"}

TypeOK ==
    /\ plan \in Plans
    /\ win \in [type : Types, ref : Int, outstanding : Int, queue : Seq(Epochs),
               pc : {"out", "wait", "scan"}, pos : Nat \ {0}, temp : Nat, count : Nat]
    /\ stage \in [Epochs -> Stages]
    /\ data \subseteq Puts
    /\ left \subseteq Several
    /\ forgot \in BOOLEAN

Init ==
    /\ plan \in Plans
    /\ win = [type |-> "none", ref |-> 0, outstanding |-> 0, queue |-> << >>,
              pc |-> "out", pos |-> 1, temp |-> 0, count |-> 0]
    /\ stage = [e \in Epochs |-> "before"]
    /\ data = {}
    /\ left = Several
    /\ forgot = FALSE

LockType(e) == IF e \in Exclusive THEN "exclusive" ELSE "shared"
-----------------------------------------------------------------------------
(* Faulty variants of definitions below, each with the mistake its name tells; *)
(* the specification does not use them.  PROJECT.json pairs each with the      *)
(* property that must notice it.                                               *)
SharedPassesExclusive(w, t) == t = "shared" \/ w.type = "none"
NeverRepeats(w) == [w EXCEPT !.pc = "out", !.pos = 1, !.count = 0]
StopsAtShared(e) == TRUE
-----------------------------------------------------------------------------
(* Building blocks on the window w. *)

\* MPIDI_CH3I_Try_acquire_win_lock succeeds, and what it does then.
Grants(w, t) == w.type = "none" \/ (t = "shared" /\ w.type = "shared")
Acquired(w, t) == [w EXCEPT !.type = t, !.ref = IF t = "shared" THEN @ + 1 ELSE @]

LessOne(w) == [w EXCEPT !.ref = IF w.type = "shared" THEN @ - 1 ELSE @]

\* A call of MPIDI_CH3I_Release_lock up to its loop.  A call inside another is
\* only counted, and the other repeats its loop.
Release_lock(w) ==
    LET l == LessOne(w) IN
    IF l.ref # 0 THEN l
    ELSE IF w.pc # "out" THEN [l EXCEPT !.count = @ + 1]
    ELSE [l EXCEPT !.pc = "wait", !.temp = w.count]

\* The release of a put that the loop itself has done.
ReleasedInLoop(w) == LET l == LessOne(w) IN IF l.ref = 0 THEN [l EXCEPT !.type = "none"] ELSE l

\* The loop over the queue is done: once more if a call inside it was counted.
EndOfLoop(w) ==
    IF w.temp # w.count THEN [w EXCEPT !.pc = "wait", !.temp = @ + 1]
    ELSE [w EXCEPT !.pc = "out", !.pos = 1, !.count = 0]

\* Nothing behind an exclusive lock can be granted.
BreaksLoop(e) == e \in Exclusive
AfterGrant(w, e) == IF BreaksLoop(e) THEN EndOfLoop(w) ELSE w

Dequeued(w) == [w EXCEPT !.queue = RemoveAt(@, w.pos)]

\* A request of the queue may be granted: its data is there.
Ready(e) == e \in Puts => e \in data

Here == win.queue[win.pos]
Enqueued(w, e) == [w EXCEPT !.queue = Append(@, e)]

\* The target polls: outside Release_lock, or when that waits for operations.
Polls ==
    \/ win.pc = "out"
    \/ win.pc = "wait" /\ win.outstanding # 0

To(e, s) == stage' = [stage EXCEPT ![e] = s]
-----------------------------------------------------------------------------
(* Requests. *)

\* The origin sends its lock packet or its single packet; nothing is sent for a local epoch.
Request(e) ==
    /\ stage[e] = "before" /\ e \notin Local
    /\ To(e, "requested")
    /\ UNCHANGED <<win, data, left, forgot>>

PktHandler_Lock(e) ==
    /\ Polls /\ stage[e] = "requested" /\ e \notin Puts \cup Gets
    /\ IF Grants(win, LockType(e))
       THEN win' = Acquired(win, LockType(e)) /\ To(e, "granted")
       ELSE win' = Enqueued(win, e) /\ To(e, "queued")
    /\ UNCHANGED <<data, left, forgot>>

\* The target serves n operations, whose data or response is under way.
Serve(w, n) == [w EXCEPT !.outstanding = @ + n]

\* An accumulate is queued whatever the lock: its data is awaited first.
PktHandler_LockOpUnlock(e) ==
    /\ Polls /\ stage[e] = "requested" /\ e \in Puts \cup Gets
    /\ IF e \notin Accs /\ Grants(win, LockType(e))
       THEN win' = Serve(Acquired(win, LockType(e)), 1) /\ To(e, "serving")
       ELSE win' = Enqueued(win, e) /\ To(e, "queued")
    /\ UNCHANGED <<data, left, forgot>>

\* The packet of the last operation of an epoch whose lock was granted: it counts
\* all operations of the epoch (rma_issued), complete ones too.
PktHandler_Put(e) ==
    /\ Polls /\ stage[e] = "granted" /\ e \notin Local
    /\ win' = Serve(win, IF e \in Several THEN 2 ELSE 1) /\ To(e, "serving")
    /\ UNCHANGED <<data, left, forgot>>

\* An operation before the last is complete: before the packet of the last is handled,
\* before the last is complete, or (a rendezvous put) after it.
EarlierRespComplete(e) ==
    /\ Polls /\ e \in left /\ stage[e] \in {"granted", "serving", "done"}
    /\ win' = [win EXCEPT !.outstanding = @ - 1] /\ left' = left \ {e}
    /\ UNCHANGED <<stage, data, forgot>>

\* The last operation is complete (PutAccumRespComplete, GetSendRespComplete).
\* Without a lock on the window it counts as an operation of a fence.
RespComplete(e) ==
    /\ Polls /\ stage[e] = "serving"
    /\ LET w == [win EXCEPT !.outstanding = @ - 1]
       IN  win' = IF w.type = "none" THEN w ELSE Release_lock(w)
    /\ To(e, "done")
    /\ UNCHANGED <<data, left, forgot>>

\* All data of a queued put is there: it is done if the lock can be had.
SinglePutAccumComplete(e) ==
    /\ Polls /\ stage[e] = "queued" /\ e \in Puts \ data
    /\ \/ /\ Grants(win, LockType(e))
          /\ \E i \in DOMAIN win.queue :
                /\ win.queue[i] = e
                /\ win' = Release_lock([Acquired(win, LockType(e)) EXCEPT !.queue = RemoveAt(@, i)])
          /\ To(e, "done") /\ UNCHANGED data
       \/ /\ ~Grants(win, LockType(e))
          /\ data' = data \cup {e}
          /\ UNCHANGED <<win, stage>>
    /\ UNCHANGED <<left, forgot>>

\* MPIDI_Win_lock and MPIDI_Win_unlock by the target itself.
Win_lock(e) ==
    /\ win.pc = "out" /\ e \in Local /\ stage[e] = "before"
    /\ \A l \in Local : stage[l] # "granted"
    /\ Grants(win, LockType(e))
    /\ win' = Acquired(win, LockType(e)) /\ To(e, "granted")
    /\ UNCHANGED <<data, left, forgot>>

Win_unlock(e) ==
    /\ win.pc = "out" /\ e \in Local /\ stage[e] = "granted"
    /\ win' = Release_lock(win) /\ To(e, "done")
    /\ UNCHANGED <<data, left, forgot>>
-----------------------------------------------------------------------------
(* The loop of MPIDI_CH3I_Release_lock. *)

\* The epochs that hold a lock of the window.
Holders == {e \in Epochs : stage[e] \in {"granted", "serving"}}

\* The loop begins by marking the window unlocked, also when a lock was granted since
\* the release: by a handler while the target waited, or by the loop it repeats.
StartLoop ==
    /\ win.pc = "wait" /\ win.outstanding = 0
    /\ win' = [win EXCEPT !.type = "none", !.pos = 1, !.pc = "scan"]
    /\ forgot' = (forgot \/ Holders # {})
    /\ UNCHANGED <<stage, data, left>>

InLoop == win.pc = "scan" /\ win.pos <= Len(win.queue)

SkipNotReady ==
    /\ InLoop /\ ~Ready(Here)
    /\ win' = [win EXCEPT !.pos = @ + 1]
    /\ UNCHANGED <<stage, data, left, forgot>>

\* A request that is ready and granted leaves the queue.  (One that is ready and not
\* granted stays, and so does the pointer: only with the lock in shared memory does
\* the loop go on to the next.)
GrantQueued ==
    /\ InLoop /\ Ready(Here) /\ Grants(win, LockType(Here))
    /\ LET e == Here
           w == Dequeued(Acquired(win, LockType(e)))
       IN
       \/ /\ e \in Puts
          /\ win' = ReleasedInLoop(w) /\ To(e, "done")
       \/ /\ e \in Gets
          \* do_simple_get: the response often leaves at once, and completes inside the loop
          /\ \/ win' = AfterGrant(Serve(w, 1), e) /\ To(e, "serving")
             \/ win' = AfterGrant(Release_lock(w), e) /\ To(e, "done")
       \/ /\ e \notin Puts \cup Gets
          /\ win' = AfterGrant(w, e) /\ To(e, "granted")
    /\ UNCHANGED <<data, left, forgot>>

EndLoop ==
    /\ win.pc = "scan" /\ win.pos > Len(win.queue)
    /\ win' = EndOfLoop(win)
    /\ UNCHANGED <<stage, data, left, forgot>>
-----------------------------------------------------------------------------
Receive(e) ==
    \/ PktHandler_Lock(e) \/ PktHandler_LockOpUnlock(e) \/ PktHandler_Put(e)
    \/ EarlierRespComplete(e) \/ RespComplete(e) \/ SinglePutAccumComplete(e)

Loop == StartLoop \/ SkipNotReady \/ GrantQueued \/ EndLoop

Next ==
    /\ \/ \E e \in Epochs : Request(e) \/ Receive(e) \/ Win_lock(e) \/ Win_unlock(e)
       \/ Loop
    /\ UNCHANGED plan

Spec == Init /\ [][Next]_vars

\* The target goes on with a release it has begun and polls; an origin ends the
\* epoch it has begun, and so does the target with its own.
Fairness ==
    /\ WF_vars(Loop /\ UNCHANGED plan)
    /\ \A e \in Epochs :
          /\ WF_vars(Receive(e) /\ UNCHANGED plan)
          /\ WF_vars((Win_lock(e) \/ Win_unlock(e)) /\ UNCHANGED plan)

FairSpec == Spec /\ Fairness
-----------------------------------------------------------------------------
(* Properties *)

\* The epochs that may access the window: those that hold a lock of it, and those that
\* have released it before an operation of theirs was complete.
Accessing == Holders \cup {e \in left : stage[e] = "done"}

\* An exclusive lock excludes every other epoch and its operations, whichever of the
\* four ways of granting a lock was taken (handler, completion of the data, queue,
\* target itself): until a release marks the window unlocked under a lock granted
\* since, which it does (StartLoop) and after which nothing excludes anybody.
MutualExclusion ==
    \/ forgot
    \/ \A e \in Holders \cap Exclusive : Accessing = {e}

\* When a release has returned, no request of the queue could be granted that was
\* not: whatever was released inside the loop, nobody is forgotten.
QueueSatisfied ==
    win.pc = "out" =>
        \A i \in DOMAIN win.queue : Ready(win.queue[i]) => ~Grants(win, LockType(win.queue[i]))

\* The loop stands before a request that is ready and cannot be granted: its pointer
\* does not advance, and while (lock_queue) never ends.
Spins == InLoop /\ Ready(Here) /\ ~Grants(win, LockType(Here))

\* Every epoch that has begun is served, unless a release spins, or has marked the
\* window unlocked under a lock granted since.
AllServed ==
    \A e \in Epochs : (stage[e] = "requested") ~> (stage[e] = "done" \/ Spins \/ forgot)
=============================================================================
