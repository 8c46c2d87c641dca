------------------------------ MODULE ThreadPool ------------------------------
(***************************************************************************)
(* struct ggml_threadpool (ggml/src/ggml-cpu/ggml-cpu.c, the build without *)
(* OpenMP): the main thread computes graphs with the workers of the pool,  *)
(* which poll for a new graph, sleep at a condition variable when none     *)
(* comes, and meet at ggml_barrier() (ThreadBarrier) after every node.     *)
(*                                                                         *)
(* A step is one access to what the threads share; under the mutex, a step *)
(* is everything up to the next access that is also made without it.  The  *)
(* mutex is held between two steps by ggml_graph_compute_kickoff() only.   *)
(*                                                                         *)
(*     n_graph, stop, pause, abort, ec, current_chunk                      *)
(*              the fields of the pool                                     *)
(*     cgraph   the number of the graph the pool points at                 *)
(*     pc       where each thread is; thread 0 is the main thread          *)
(*     local    each thread's last_graph and its variables                 *)
(*     parts    history: what is computed of the current graph             *)
(***************************************************************************)
EXTENDS ThreadBarrier

CONSTANTS
    NNodes,     \* nodes of a graph
    MulMats,    \* the nodes (from 0) that are computed in chunks, on demand
    Chunks,     \* chunks of such a node, unless it has more threads
    Counts,     \* the numbers of threads a plan asks for (cplan->n_threads)
    Growing,    \* TRUE: a graph may ask for more threads than the one before
    MayAbort,   \* TRUE: the plan has an abort callback
    MayPause,   \* TRUE: the program pauses and resumes the pool
    StartPaused,\* ggml_threadpool_params.paused
    MaxGraphs   \* bound: graphs that are computed

ASSUME ThreadPoolAssumption ==
    /\ NNodes \in Nat \ {0} /\ MulMats \subseteq 0 .. NNodes - 1
    /\ Chunks \in Nat /\ MaxGraphs \in Nat
    /\ Counts \subseteq Nat \ {0}
    /\ {Growing, MayAbort, MayPause, StartPaused} \subseteq BOOLEAN

VARIABLES n_graph, stop, pause, abort, ec, current_chunk, cgraph, pc, local, parts

pool == <<n_graph, stop, pause>>
work == <<abort, ec, current_chunk, cgraph, parts>>
vars == <<barrierVars, pool, work, pc, local>>

Workers == Threads \ {0}

MutexFree == pc[0] \notin {"kick_graph", "kick_wake"}

Init ==
    /\ BarrierInit
    /\ n_graph = 0 /\ stop = FALSE /\ pause = StartPaused
    /\ abort = -1 /\ ec = "success" /\ current_chunk = 0 /\ cgraph = 0 /\ parts = {}
    /\ pc = [t \in Threads |-> IF t = 0 THEN "idle" ELSE "pause"]
    /\ local = [t \in Threads |-> [last_graph |-> 0, new_graph |-> 0, graph |-> 0,
                                   nth |-> 0, node |-> 0, chunk |-> 0]]

Goto(t, where) == pc' = [pc EXCEPT ![t] = where]

\* ggml_cond_broadcast(), and the main thread goes on.  Who is woken takes the
\* mutex again before it looks at anything.
Broadcast(where) ==
    pc' = [t \in Threads |-> CASE t = 0 -> where
                               [] t # 0 /\ pc[t] = "asleep" -> "lock"
                               [] t # 0 /\ pc[t] = "pause_wait" -> "pause_wake"
                               [] OTHER -> pc[t]]

-----------------------------------------------------------------------------
(* The main thread, between two graphs and until it joins the workers.     *)

\* ggml_graph_compute() resets the parameters of the pool ...
SetUp ==
    /\ pc[0] = "idle" /\ n_graph < MaxGraphs
    /\ cgraph' = n_graph + 1
    /\ current_chunk' = 0 /\ abort' = -1 /\ ec' = "success" /\ parts' = {}
    /\ Goto(0, "kick")
    /\ UNCHANGED <<barrierVars, pool, local>>

NumThreads_Uncut(n) == n

\* The number a plan asks for is cut to the size of the pool.
NumThreads(n) == IF n > MaxThreads THEN MaxThreads ELSE n

\* ... and kicks the threads off: their number first, then the graph, then who
\* sleeps.
KickThreads ==
    /\ pc[0] = "kick"
    /\ \E n \in Counts : /\ Growing \/ n_threads_cur \in {n, MaxThreads} \/ n < n_threads_cur
                         /\ SetThreads(NumThreads(n))
    /\ Goto(0, "kick_graph")
    /\ UNCHANGED <<pool, work, local>>

KickGraph ==
    /\ pc[0] = "kick_graph"
    /\ n_graph' = n_graph + 1
    /\ Goto(0, "kick_wake")
    /\ UNCHANGED <<barrierVars, stop, pause, work, local>>

KickWake ==
    /\ pc[0] = "kick_wake"
    /\ pause' = FALSE
    /\ Broadcast("begin")
    /\ UNCHANGED <<barrierVars, n_graph, stop, work, local>>

\* ggml_threadpool_pause() and _resume()
SetPause(value) ==
    /\ MayPause /\ pc[0] = "idle" /\ pause # value
    /\ pause' = value
    /\ Broadcast("idle")
    /\ UNCHANGED <<barrierVars, n_graph, stop, work, local>>

\* ggml_threadpool_free()
FreePool ==
    /\ pc[0] = "idle"
    /\ stop' = TRUE /\ pause' = FALSE
    /\ Broadcast("join")
    /\ UNCHANGED <<barrierVars, n_graph, work, local>>

Join ==
    /\ pc[0] = "join" /\ \A w \in Workers : pc[w] = "exited"
    /\ Goto(0, "freed")
    /\ UNCHANGED <<barrierVars, pool, work, local>>

-----------------------------------------------------------------------------
(* A worker: ggml_graph_compute_secondary_thread().                        *)

Idling(w, from, to) ==
    /\ pc[w] = from
    /\ Goto(w, to)
    /\ UNCHANGED <<barrierVars, pool, work, local>>

\* The pause is looked at without the mutex, and again under it.
PauseLoop(w) ==
    \/ pause /\ Idling(w, "pause", "pause_lock")
    \/ ~pause /\ Idling(w, "pause", "stop")
    \/ MutexFree /\ pause /\ Idling(w, "pause_lock", "pause_wait")
    \/ MutexFree /\ ~pause /\ Idling(w, "pause_lock", "pause")
    \/ MutexFree /\ Idling(w, "pause_wake", "pause")

StopCheck(w) ==
    \/ stop /\ Idling(w, "stop", "exited")
    \/ ~stop /\ Idling(w, "stop", "active")

IsActive_OffByOne(w) == w <= n_threads_cur

\* ggml_graph_compute_thread_active()
IsActive(w) == w < n_threads_cur

\* ggml_graph_compute_poll_for_work(): threads the last graph did not use do
\* not poll.
PollCheck(w) ==
    \/ IsActive(w) /\ Idling(w, "active", "poll")
    \/ ~IsActive(w) /\ Idling(w, "active", "lock")

\* One round of polling looks for a new graph; it ends the polling when the pool
\* stops or pauses, and any round may be the last.
Poll(w) ==
    /\ pc[w] = "poll"
    /\ IF ~stop /\ ~pause /\ n_graph # local[w].last_graph
       THEN local' = [local EXCEPT ![w].new_graph = n_graph] /\ Goto(w, "poll_new")
       ELSE UNCHANGED local /\ Goto(w, "lock")
    /\ UNCHANGED <<barrierVars, pool, work>>

\* ggml_graph_compute_thread_ready() has seen a new graph, and will not look at
\* it again.
Seen(w, graph) ==
    local' = [local EXCEPT ![w].last_graph = graph, ![w].new_graph = 0]

\* The number of threads is read after the graph: does this thread take part?
PollNew(w) ==
    /\ pc[w] = "poll_new"
    /\ Seen(w, local[w].new_graph)
    /\ \/ IsActive(w) /\ Goto(w, "begin")
       \/ ~IsActive(w) /\ Goto(w, "poll")
    /\ UNCHANGED <<barrierVars, pool, work>>

\* The rest of ggml_graph_compute_check_for_work(), under the mutex.
CheckForWork(w) ==
    /\ pc[w] = "lock" /\ MutexFree
    /\ IF stop \/ pause
       THEN UNCHANGED local /\ Goto(w, "pause")
       ELSE IF n_graph # local[w].last_graph
       THEN /\ Seen(w, n_graph)
            /\ Goto(w, IF IsActive(w) THEN "begin" ELSE "asleep")
       ELSE UNCHANGED local /\ Goto(w, "asleep")
    /\ UNCHANGED <<barrierVars, pool, work>>

-----------------------------------------------------------------------------
(* ggml_graph_compute_thread(): the main thread and the active workers.    *)

Begin(t) ==
    /\ pc[t] = "begin"
    /\ local' = [local EXCEPT ![t].graph = cgraph, ![t].nth = n_threads_cur, ![t].node = 0]
    /\ Goto(t, "node")
    /\ UNCHANGED <<barrierVars, pool, work>>

\* The parts of a node for nth threads: the chunks of a matrix product, unless
\* there are too few of them, and otherwise one for each thread.
Parts(node, nth) ==
    0 .. (IF node \in MulMats /\ Chunks > nth THEN Chunks ELSE nth) - 1

NextNode(t) ==
    /\ pc[t] = "node" /\ local[t].node < NNodes /\ abort # local[t].node
    /\ local' = [local EXCEPT ![t].chunk = t]
    /\ Goto(t, IF local[t].node \in MulMats THEN "mul_mat" ELSE "part")
    /\ UNCHANGED <<barrierVars, pool, work>>

LeaveLoop(t) ==
    /\ pc[t] = "node" /\ (local[t].node = NNodes \/ abort = local[t].node)
    /\ Goto(t, "last_barrier")
    /\ UNCHANGED <<barrierVars, pool, work, local>>

FirstChunk_FromZero(t) ==
    /\ pc[t] = "mul_mat"
    /\ current_chunk' = IF t = 0 THEN 0 ELSE current_chunk
    /\ Goto(t, "mul_mat_barrier")
    /\ UNCHANGED <<barrierVars, pool, abort, ec, cgraph, parts, local>>

\* ggml_compute_forward_mul_mat(): every thread starts with the chunk of its own
\* number, and the first that nobody starts with is nth.
FirstChunk(t) ==
    /\ pc[t] = "mul_mat"
    /\ current_chunk' = IF t = 0 THEN local[t].nth ELSE current_chunk
    /\ Goto(t, "mul_mat_barrier")
    /\ UNCHANGED <<barrierVars, pool, abort, ec, cgraph, parts, local>>

ComputePart(t) ==
    LET l   == local[t]
        all == Parts(l.node, l.nth)
    IN  /\ pc[t] = "part" /\ l.chunk \in all
        /\ parts' = parts \cup {<<l.node, l.chunk>>}
        /\ Goto(t, IF l.node \in MulMats /\ l.nth < Cardinality(all)
                   THEN "next_chunk" ELSE "node_done")
        /\ UNCHANGED <<barrierVars, pool, abort, ec, current_chunk, cgraph, local>>

NextChunk(t) ==
    /\ pc[t] = "next_chunk"
    /\ local' = [local EXCEPT ![t].chunk = current_chunk]
    /\ current_chunk' = current_chunk + 1
    /\ Goto(t, "part")
    /\ UNCHANGED <<barrierVars, pool, abort, ec, cgraph, parts>>

NoMoreParts(t) ==
    /\ pc[t] = "part" /\ local[t].chunk \notin Parts(local[t].node, local[t].nth)
    /\ Goto(t, "node_done")
    /\ UNCHANGED <<barrierVars, pool, work, local>>

AskCallback_ThisNode(t) ==
    \/ UNCHANGED <<abort, ec>>
    \/ /\ t = 0 /\ MayAbort
       /\ abort' = local[t].node
       /\ ec' = "aborted"

\* The main thread asks the callback, and tells the others at which node to stop.
AskCallback(t) ==
    \/ UNCHANGED <<abort, ec>>
    \/ /\ t = 0 /\ MayAbort
       /\ abort' = local[t].node + 1
       /\ ec' = "aborted"

NodeDone(t) ==
    /\ pc[t] = "node_done"
    /\ AskCallback(t)
    /\ IF local[t].node + 1 < NNodes
       THEN Goto(t, "barrier") /\ UNCHANGED local
       ELSE Goto(t, "node") /\ local' = [local EXCEPT ![t].node = @ + 1]
    /\ UNCHANGED <<barrierVars, pool, current_chunk, cgraph, parts>>

\* What follows a barrier.
AfterBarrier(t) ==
    CASE pc[t] = "mul_mat_barrier" -> Goto(t, "part") /\ UNCHANGED local
      [] pc[t] = "barrier" -> Goto(t, "node") /\ local' = [local EXCEPT ![t].node = @ + 1]
      [] pc[t] = "last_barrier" -> Goto(t, IF t = 0 THEN "idle" ELSE "pause") /\ UNCHANGED local

AtBarrier(t) ==
    /\ pc[t] \in {"mul_mat_barrier", "barrier", "last_barrier"}
    /\ \/ (Enter(t) \/ Arrive(t) \/ Reset(t)) /\ UNCHANGED <<pc, local>>
       \/ (Pass(t) \/ Leave(t)) /\ AfterBarrier(t)
       \/ bar[t].at = "out" /\ n_threads_cur = 1 /\ AfterBarrier(t) /\ UNCHANGED barrierVars
    /\ UNCHANGED <<pool, work>>

ComputeThread(t) ==
    \/ Begin(t) \/ NextNode(t) \/ LeaveLoop(t) \/ FirstChunk(t) \/ ComputePart(t)
    \/ NextChunk(t) \/ NoMoreParts(t) \/ NodeDone(t) \/ AtBarrier(t)

-----------------------------------------------------------------------------

\* What the main thread does once it has begun to compute or to free.
MainGoesOn == KickThreads \/ KickGraph \/ KickWake \/ Join \/ ComputeThread(0)

Main == SetUp \/ (\E value \in BOOLEAN : SetPause(value)) \/ FreePool \/ MainGoesOn

Worker(w) ==
    \/ PauseLoop(w) \/ StopCheck(w) \/ PollCheck(w) \/ Poll(w) \/ PollNew(w)
    \/ CheckForWork(w) \/ ComputeThread(w)

Freed == pc[0] = "freed" /\ UNCHANGED vars

Next == Main \/ (\E w \in Workers : Worker(w)) \/ Freed

\* Threads that can run do run; what the program asks of the pool is its own.
Fairness == WF_vars(MainGoesOn) /\ \A w \in Workers : WF_vars(Worker(w))

Spec == Init /\ [][Next]_vars /\ Fairness

-----------------------------------------------------------------------------

TypeOK ==
    /\ BarrierTypeOK
    /\ n_graph \in 0 .. MaxGraphs /\ {stop, pause} \subseteq BOOLEAN
    /\ abort \in {-1} \cup 1 .. NNodes /\ ec \in {"success", "aborted"}
    /\ current_chunk \in 0 .. 2 * MaxThreads + Chunks /\ cgraph \in 0 .. MaxGraphs
    /\ pc[0] \in {"idle", "kick", "kick_graph", "kick_wake", "join", "freed", "begin", "node",
                  "mul_mat", "mul_mat_barrier", "part", "next_chunk", "node_done", "barrier",
                  "last_barrier"}
    /\ \A w \in Workers : local[w].last_graph <= n_graph

\* Every part of every node is computed once, for the graph the pool points at,
\* by one thread, and no node is begun before the nodes before it are whole: this
\* rests on the barrier, on the shared counter of chunks, and on the workers
\* finding each new graph exactly once.
PartsOnce ==
    \A t \in Threads : LET l == local[t] IN
       pc[t] = "part" /\ l.chunk \in Parts(l.node, l.nth) =>
          /\ l.graph = cgraph /\ l.nth = n_threads_cur
          /\ <<l.node, l.chunk>> \notin parts
          /\ \A u \in Threads \ {t} : pc[u] = "part" =>
                <<local[u].node, local[u].chunk>> # <<l.node, l.chunk>>
          /\ \A k \in 0 .. l.node - 1 : {k} \X Parts(k, l.nth) \subseteq parts

Computing(w) ==
    pc[w] \in {"begin", "node", "mul_mat", "mul_mat_barrier", "part", "next_chunk",
               "node_done", "barrier"}

\* "No worker threads should be accessing the parameters below at this stage"
\* (ggml_graph_compute()): when the main thread sets up a graph, no worker is in
\* ggml_graph_compute_thread(), except on its way out of the last barrier.
NoWorkerAtSetUp ==
    pc[0] = "idle" => \A w \in Workers : ~ Computing(w)

\* The pool keeps to the conditions under which the barrier works.
PoolUsesBarrier == BarrierSpec

\* The nodes of the current graph that are whole.
Whole == {k \in 0 .. NNodes - 1 : {k} \X Parts(k, n_threads_cur) \subseteq parts}

Graph == INSTANCE GraphCompute WITH
    phase <- CASE pc[0] = "idle" -> "idle"
               [] pc[0] \in {"join", "freed"} -> "freed"
               [] OTHER -> "computing",
    done  <- Cardinality(Whole),
    limit <- IF abort = -1 THEN NNodes ELSE abort

\* The pool computes graphs as the caller of ggml_graph_compute() expects: node
\* by node, in order, all of them or as many as the callback lets it, and every
\* call comes back.
ComputesGraphs == Graph!GraphSpec
=============================================================================
