------------------------------- MODULE PmiTree -------------------------------
(***************************************************************************)
(* The process management interface of mpirun_rsh: the mpispawns of the    *)
(* nodes form a tree (mpispawn_tree.c) over which they answer what the MPI *)
(* processes of their nodes ask (pmi_tree.c, simple_pmi.c): keys put and   *)
(* got, barriers, names published and looked up, the end.  The keys of a   *)
(* subtree go up in one bunch once their number is right, and the root     *)
(* sends all of them down.  A get is answered at the node, so that every   *)
(* key must have come down by the end of the barrier that follows its put. *)
(*                                                                         *)
(* Each process runs a script of PMI calls and waits for each answer.  A   *)
(* link carries what one side of a socket writes.  Between mpispawns a     *)
(* message follows a header, and what has none cannot be read.             *)
(***************************************************************************)
EXTENDS Integers, Sequences, FiniteSets, SequencesExt

CONSTANTS
    NumNodes,   \* mpispawns, 0 is the root
    Degree,     \* mt_degree
    Ranks,      \* the MPI processes
    Home,       \* Home[r]: the node of r
    Keys,       \* keys and names
    Flushing,   \* those of flushing_messages
    Scripts     \* what the processes may do together: script[r], the calls of r, for each
                \* script of this set; a call is a record [cmd, key]

Nodes == 0 .. NumNodes - 1
Nobody == [cmd |-> "none", key |-> "none", rank |-> "none", header |-> FALSE]

Commands == {"put", "get", "barrier_in", "publish_name", "unpublish_name", "lookup_name", "finalize"}
Calls == [cmd : Commands, key : Keys \cup {"none"}]

Collectives == {"barrier_in", "finalize"}

\* The collective calls before the i-th call.
CollectivesBefore(calls, i) ==
    Cardinality({k \in 1 .. Len(calls) : k < i /\ calls[k].cmd \in Collectives})

ASSUME PmiAssumption ==
    /\ NumNodes \in Nat \ {0} /\ Degree \in Nat \ {0}
    /\ IsFiniteSet(Ranks) /\ Ranks \cap Nodes = {}
    /\ Home \in [Ranks -> Nodes] /\ Flushing \subseteq Keys
    /\ Scripts \subseteq [Ranks -> Seq(Calls)]

\* The processes make their collective calls in the same order, as a program must
\* (PMI_Barrier and PMI_Finalize are collective, and one count serves both).
ASSUME CollectivesAssumption ==
    \A calls \in Scripts : \A r, q \in Ranks :
    \A i \in 1 .. Len(calls[r]), j \in 1 .. Len(calls[q]) :
        /\ calls[r][i].cmd \in Collectives /\ calls[q][j].cmd \in Collectives
        /\ CollectivesBefore(calls[r], i) = CollectivesBefore(calls[q], j)
        => calls[r][i].cmd = calls[q][j].cmd

VARIABLES
    script,     \* the script that the processes run
    pc,         \* pc[r]: the call r is at
    asked,      \* asked[r]: it waits for the answer
    found,      \* found[r]: what its last lookup returned
    link,       \* link[<<a, b>>]: what a has written to b
    kvs,        \* kvs[n]: kv_cache
    puts,       \* puts[n]: kv_pending_puts
    barrier,    \* barrier[n]: barrier_count
    reqs,       \* reqs[n]: pending_req, from whom and for which process
    state       \* state[n]: "ops", "done", "exited" or "lost"

vars == <<script, pc, asked, found, link, kvs, puts, barrier, reqs, state>>
-----------------------------------------------------------------------------
(* Faulty variants of definitions below, each with the mistake its name tells; *)
(* the specification does not use them.  PROJECT.json pairs each with the      *)
(* property that must notice it.                                               *)
OneChildFewer(n) == {c \in Nodes : c >= Degree * n + 1 /\ c < Degree * n + Degree /\ c < NumNodes}
NeverFlushes(q, n) == Len(q) > Cardinality(Ranks)
ForgetsDescendants(n, count) == count = Cardinality({r \in Ranks : Home[r] = n})
KeepsKeys(n, keys) == kvs[n]
-----------------------------------------------------------------------------
(* The tree: find_family with root 0. *)

Children(n) == {c \in Nodes : c >= Degree * n + 1 /\ c <= Degree * n + Degree}

HasParent(n) == n # 0
Parent(n) == (n - 1) \div Degree

Locals(n) == {r \in Ranks : Home[r] = n}

\* The nodes of the subtree of n (mtpmi_init adds up their processes).
Subtree(n) ==
    LET Above[m \in Nodes] == m = n \/ (m # 0 /\ Above[Parent(m)])
    IN  {m \in Nodes : Above[m]}

\* NCHILD + NCHILD_INCL
Puts_expected(n) == Cardinality({r \in Ranks : Home[r] \in Subtree(n)})

\* NCHILD + MPISPAWN_NCHILD
All_in(n, count) == count = Cardinality(Locals(n)) + Cardinality(Children(n))

Links == (UNION {{<<r, Home[r]>>, <<Home[r], r>>} : r \in Ranks})
         \cup (UNION {{<<n, Parent(n)>>, <<Parent(n), n>>} : n \in Nodes \ {0}})

TypeOK ==
    /\ script \in Scripts
    /\ \A r \in Ranks : pc[r] \in 1 .. Len(script[r]) + 1
    /\ asked \in [Ranks -> BOOLEAN] /\ found \in [Ranks -> BOOLEAN]
    /\ DOMAIN link = Links
    /\ kvs \in [Nodes -> SUBSET Keys]
    /\ \A n \in Nodes :
          /\ puts[n] \in Seq(Keys) /\ reqs[n] \subseteq (Ranks \X (Nodes \cup Ranks))
          /\ barrier[n] \in 0 .. Cardinality(Ranks) + NumNodes
    /\ state \in [Nodes -> {"ops", "done", "exited", "lost"}]

Init ==
    /\ script \in Scripts
    /\ pc = [r \in Ranks |-> 1] /\ asked = [r \in Ranks |-> FALSE]
    /\ found = [r \in Ranks |-> FALSE]
    /\ link = [l \in Links |-> << >>]
    /\ kvs = [n \in Nodes |-> {}] /\ puts = [n \in Nodes |-> << >>]
    /\ barrier = [n \in Nodes |-> 0] /\ reqs = [n \in Nodes |-> {}]
    /\ state = [n \in Nodes |-> "ops"]
-----------------------------------------------------------------------------
(* Building blocks. *)

\* A message between mpispawns or from or to a process.
Msg(cmd, key, r) == [cmd |-> cmd, key |-> key, rank |-> r, header |-> TRUE]
Bare(cmd, r) == [cmd |-> cmd, key |-> "none", rank |-> r, header |-> FALSE]
Bunch(q) == [cmd |-> "bputs", key |-> q, rank |-> "none", header |-> TRUE]

\* Node n reads the message from s and writes out[d] to each d in out's domain.
Exchange(n, s, out) ==
    link' = [l \in Links |->
                IF l = <<s, n>> THEN Tail(link[l])
                ELSE IF l[1] = n /\ l[2] \in DOMAIN out THEN Append(link[l], out[l[2]])
                ELSE link[l]]

Nothing == [d \in {} |-> Nobody]
To(d, msg) == [x \in {d} |-> msg]
And(f, g) == [x \in DOMAIN f \cup DOMAIN g |-> IF x \in DOMAIN f THEN f[x] ELSE g[x]]
ToAll(S, msg) == [x \in S |-> msg]

\* check_pending_puts: the bunch goes when the number is right or a key is urgent.
Bunch_ready(q, n) == Range(q) \cap Flushing # {} \/ Len(q) = Puts_expected(n)

\* To the parent, or from the root down.
Flushed(q, n) ==
    IF ~Bunch_ready(q, n) THEN Nothing
    ELSE IF HasParent(n) THEN To(Parent(n), Bunch(q))
    ELSE ToAll(Children(n), Bunch(q))

\* save_pending_req and get_req_dest
Requests_of(n, r) == {q \in reqs[n] : q[1] = r}

Deleted(n, keys) == kvs[n] \ keys
-----------------------------------------------------------------------------
(* The processes. *)

\* GetResponse writes a request ...
Ask(r) ==
    /\ pc[r] <= Len(script[r]) /\ ~asked[r]
    /\ LET call == script[r][pc[r]]
       IN  link' = [link EXCEPT ![<<r, Home[r]>>] = Append(@, Msg(call.cmd, call.key, r))]
    /\ asked' = [asked EXCEPT ![r] = TRUE]
    /\ UNCHANGED <<script, pc, found, kvs, puts, barrier, reqs, state>>

\* ... and waits for the answer.
Answered(r) ==
    /\ link[<<Home[r], r>>] # << >>
    /\ LET m == Head(link[<<Home[r], r>>])
       IN  found' = [found EXCEPT ![r] = IF m.cmd = "lookup_result" THEN m.key = "ok" ELSE @]
    /\ link' = [link EXCEPT ![<<Home[r], r>>] = Tail(@)]
    /\ pc' = [pc EXCEPT ![r] = @ + 1]
    /\ asked' = [asked EXCEPT ![r] = FALSE]
    /\ UNCHANGED <<script, kvs, puts, barrier, reqs, state>>
-----------------------------------------------------------------------------
(* mtpmi_processops of node n: it reads a message m from s, its parent, a child or *)
(* a process of its own, and parse_str answers it.                                 *)

\* cmd=put
Put(n, s, m) ==
    LET q == <<m.key>> \o puts[n] IN
    /\ m.cmd = "put"
    /\ kvs' = [kvs EXCEPT ![n] = @ \cup {m.key}]
    /\ puts' = [puts EXCEPT ![n] = IF Bunch_ready(q, n) THEN << >> ELSE q]
    /\ Exchange(n, s, And(Flushed(q, n), To(s, Msg("put_result", "ok", m.rank))))
    /\ UNCHANGED <<barrier, reqs, state>>

\* A bunch of puts: from the parent it goes on down, from a child it joins the bunch
\* that goes up.
Bputs(n, s, m) ==
    LET down == HasParent(n) /\ s = Parent(n)
        q == IF down THEN puts[n] ELSE Reverse(m.key) \o puts[n]
    IN
    /\ m.cmd = "bputs"
    /\ kvs' = [kvs EXCEPT ![n] = @ \cup Range(m.key)]
    /\ puts' = [puts EXCEPT ![n] = IF Bunch_ready(q, n) THEN << >> ELSE q]
    /\ Exchange(n, s, And(IF down THEN ToAll(Children(n), m) ELSE Nothing, Flushed(q, n)))
    /\ UNCHANGED <<barrier, reqs, state>>

\* cmd=get of a key that is not there ends the mpispawn.
Get(n, s, m) ==
    /\ m.cmd = "get"
    /\ IF m.key \in kvs[n]
       THEN Exchange(n, s, To(s, Msg("get_result", m.key, m.rank))) /\ UNCHANGED state
       ELSE Exchange(n, s, Nothing) /\ state' = [state EXCEPT ![n] = "exited"]
    /\ UNCHANGED <<kvs, puts, barrier, reqs>>

\* cmd=barrier_in and cmd=finalize are counted, and go up when all are in.
Enter(n, s, m, answer) ==
    /\ IF All_in(n, barrier[n] + 1)
       THEN IF HasParent(n)
            THEN /\ Exchange(n, s, To(Parent(n), m))
                 /\ barrier' = [barrier EXCEPT ![n] = @ + 1]
            ELSE /\ Exchange(n, s, ToAll(Children(n) \cup Locals(n), Msg(answer, "none", m.rank)))
                 /\ barrier' = [barrier EXCEPT ![n] = 0]
       ELSE /\ Exchange(n, s, Nothing)
            /\ barrier' = [barrier EXCEPT ![n] = @ + 1]

Barrier_in(n, s, m) ==
    /\ m.cmd = "barrier_in" /\ Enter(n, s, m, "barrier_out")
    /\ UNCHANGED <<kvs, puts, reqs, state>>

Barrier_out(n, s, m) ==
    /\ m.cmd = "barrier_out"
    /\ Exchange(n, s, ToAll(Children(n) \cup Locals(n), m))
    /\ barrier' = [barrier EXCEPT ![n] = 0]
    /\ UNCHANGED <<kvs, puts, reqs, state>>

Finalize(n, s, m) ==
    /\ m.cmd = "finalize" /\ Enter(n, s, m, "finalize_ack")
    /\ IF ~HasParent(n) /\ All_in(n, barrier[n] + 1)
       THEN state' = [state EXCEPT ![n] = "done"] /\ kvs' = [kvs EXCEPT ![n] = {}]
       ELSE UNCHANGED <<state, kvs>>
    /\ UNCHANGED <<puts, reqs>>

Finalize_ack(n, s, m) ==
    /\ m.cmd = "finalize_ack"
    /\ Exchange(n, s, ToAll(Children(n) \cup Locals(n), m))
    /\ barrier' = [barrier EXCEPT ![n] = 0]
    /\ state' = [state EXCEPT ![n] = "done"] /\ kvs' = [kvs EXCEPT ![n] = {}]
    /\ UNCHANGED <<puts, reqs>>

\* Below the root a request about names is remembered and goes up.
Pass_up(n, s, m) ==
    /\ reqs' = [reqs EXCEPT ![n] = @ \cup {<<m.rank, s>>}]
    /\ Exchange(n, s, To(Parent(n), m))

\* cmd=publish_name and cmd=unpublish_name.  The root's answer has no header.
Change_name(n, s, m, names, answer) ==
    /\ kvs' = [kvs EXCEPT ![n] = names]
    /\ IF HasParent(n) THEN Pass_up(n, s, m)
       ELSE Exchange(n, s, To(s, Bare(answer, m.rank))) /\ UNCHANGED reqs
    /\ UNCHANGED <<puts, barrier, state>>

Publish_name(n, s, m) ==
    m.cmd = "publish_name" /\ Change_name(n, s, m, kvs[n] \cup {m.key}, "publish_result")

Unpublish_name(n, s, m) ==
    m.cmd = "unpublish_name" /\ Change_name(n, s, m, Deleted(n, {m.key}), "unpublish_result")

Lookup_name(n, s, m) ==
    /\ m.cmd = "lookup_name"
    /\ IF m.key \notin kvs[n] /\ HasParent(n) THEN Pass_up(n, s, m)
       ELSE /\ Exchange(n, s, To(s, Msg("lookup_result",
                                        IF m.key \in kvs[n] THEN "ok" ELSE "notok", m.rank)))
            /\ UNCHANGED reqs
    /\ UNCHANGED <<kvs, puts, barrier, state>>

\* An answer about a name goes to the one who asked.
Pass_down(n, s, m) ==
    /\ m.cmd \in {"publish_result", "unpublish_result", "lookup_result"}
    /\ \E q \in Requests_of(n, m.rank) :
          /\ reqs' = [reqs EXCEPT ![n] = @ \ {q}]
          /\ Exchange(n, s, To(q[2], m))
    /\ UNCHANGED <<kvs, puts, barrier, state>>

parse_str(n, s, m) ==
    \/ Put(n, s, m) \/ Get(n, s, m)
    \/ Barrier_in(n, s, m) \/ Barrier_out(n, s, m)
    \/ Finalize(n, s, m) \/ Finalize_ack(n, s, m)
    \/ Publish_name(n, s, m) \/ Unpublish_name(n, s, m)
    \/ Lookup_name(n, s, m) \/ Pass_down(n, s, m)

\* A message from an mpispawn begins with a header; what is read in its place if there
\* is none gives a length that never arrives.
handle_mt_peer(n, s, m) ==
    IF m.header THEN parse_str(n, s, m) \/ Bputs(n, s, m)
    ELSE /\ state' = [state EXCEPT ![n] = "lost"]
         /\ Exchange(n, s, Nothing)
         /\ UNCHANGED <<kvs, puts, barrier, reqs>>

mtpmi_processops(n, s) ==
    /\ state[n] = "ops" /\ <<s, n>> \in Links /\ link[<<s, n>>] # << >>
    /\ LET m == Head(link[<<s, n>>])
       IN  IF s \in Ranks THEN parse_str(n, s, m) ELSE handle_mt_peer(n, s, m)
    /\ UNCHANGED <<script, pc, asked, found>>
-----------------------------------------------------------------------------
Next ==
    \/ \E r \in Ranks : Ask(r) \/ Answered(r)
    \/ \E n \in Nodes : \E s \in Nodes \cup Ranks : mtpmi_processops(n, s)

Spec == Init /\ [][Next]_vars

\* The processes make their calls and every mpispawn reads what has come.
Fairness ==
    /\ \A r \in Ranks : WF_vars(Ask(r)) /\ WF_vars(Answered(r))
    /\ \A n \in Nodes : \A s \in Nodes \cup Ranks : WF_vars(mtpmi_processops(n, s))

FairSpec == Spec /\ Fairness
-----------------------------------------------------------------------------
(* Properties *)

\* The barriers that r has entered, and left.
Barriers(r, upto) == Cardinality({i \in 1 .. Len(script[r]) : i < upto /\ script[r][i].cmd = "barrier_in"})
Entered(r) == Barriers(r, IF asked[r] THEN pc[r] + 1 ELSE pc[r])
Left(r) == Barriers(r, pc[r])

\* Nobody leaves a barrier before all have entered it (barrier_count over the tree).
BarrierHolds == \A r, q \in Ranks : Left(r) <= Entered(q)

\* When a process has left a barrier, all that was put before it is known at its node: the
\* bunches that check_pending_puts sends overtake the barrier at every node.
PutsCommitted ==
    \A r, q \in Ranks : \A i \in 1 .. Len(script[q]) :
        script[q][i].cmd = "put" /\ Barriers(q, i) < Left(r) /\ state[Home[r]] = "ops"
        => script[q][i].key \in kvs[Home[r]]

\* A name that was published, and not unpublished, before a barrier is found after it, and
\* one that was unpublished before a barrier is not (for names published once).
Called(cmd, k, b) ==
    \E q \in Ranks : \E i \in 1 .. Len(script[q]) :
        script[q][i].cmd = cmd /\ script[q][i].key = k /\ Barriers(q, i) < b

NamesFound ==
    \A r \in Ranks :
        LET last == pc[r] - 1 IN
        last > 0 /\ ~asked[r] /\ script[r][last].cmd = "lookup_name" =>
            LET k == script[r][last].key
                before == Barriers(r, last)
                published == Called("publish_name", k, before)
                removedLater == ~Called("unpublish_name", k, before + 1)
                removed == Called("unpublish_name", k, before)
            IN  /\ published /\ removedLater => found[r]
                /\ removed => ~found[r]

\* All PMI calls are answered, with one exception: when a process of another node than the
\* root's has published or withdrawn a name, and a child of the root has taken the root's
\* answer, which has no header (cmd=publish_name in parse_str), for one.
NamedBelowRoot ==
    \E r \in Ranks : Home[r] # 0 /\ \E i \in 1 .. Len(script[r]) :
        script[r][i].cmd \in {"publish_name", "unpublish_name"} /\ i <= pc[r]

AnswerMisread == NamedBelowRoot /\ \E n \in Children(0) : state[n] = "lost"

AllAnswered == \A r \in Ranks : <>(pc[r] > Len(script[r]) \/ AnswerMisread)
=============================================================================
