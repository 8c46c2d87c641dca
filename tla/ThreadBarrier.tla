---------------------------- MODULE ThreadBarrier ----------------------------
(***************************************************************************)
(* ggml_barrier() (ggml/src/ggml-cpu/ggml-cpu.c, the build without OpenMP):*)
(* the threads that compute a graph wait for each other at a counter and a *)
(* generation, which are the same two words for every barrier of the pool. *)
(*                                                                         *)
(*     n_threads_cur      threads the barrier waits for                    *)
(*     n_barrier          threads that have arrived                        *)
(*     n_barrier_passed   barriers that were passed                        *)
(*     bar                each thread's place in ggml_barrier() and the    *)
(*                        two values it has read on entering               *)
(*     arrived            history: the barrier each thread has arrived at, *)
(*                        counted like n_barrier_passed                    *)
(*                                                                         *)
(* The actions are those of the code.  Next is the use the barrier is made *)
(* for: only the first n_threads_cur threads come to it, and their number  *)
(* changes while nobody waits.  ThreadPool composes the actions without    *)
(* these two conditions, and must show that it keeps to them.              *)
(***************************************************************************)
EXTENDS Integers, FiniteSets

CONSTANT MaxThreads     \* n_threads_max: the main thread and the workers

ASSUME BarrierAssumption == MaxThreads \in Nat \ {0}

VARIABLES n_threads_cur, n_barrier, n_barrier_passed, bar, arrived

barrierVars == <<n_threads_cur, n_barrier, n_barrier_passed, bar, arrived>>

Threads == 0 .. MaxThreads - 1

\* The threads that compute the current graph, by their index (ith).
Active == 0 .. n_threads_cur - 1

Out == [at |-> "out", n_threads |-> 0, n_passed |-> 0]

BarrierInit ==
    /\ n_threads_cur = MaxThreads
    /\ n_barrier = 0
    /\ n_barrier_passed = 0
    /\ bar = [t \in Threads |-> Out]
    /\ arrived = [t \in Threads |-> 0]

\* The number of threads and the generation are read before the thread counts
\* itself; a thread that computes alone does not stop.
Enter(t) ==
    /\ bar[t].at = "out"
    /\ n_threads_cur # 1
    /\ bar' = [bar EXCEPT ![t] = [at |-> "read", n_threads |-> n_threads_cur,
                                  n_passed |-> n_barrier_passed]]
    /\ UNCHANGED <<n_threads_cur, n_barrier, n_barrier_passed, arrived>>

\* fetch_add: the last thread to arrive opens the barrier, the others wait for
\* the generation they have read to pass.
Arrive(t) ==
    /\ bar[t].at = "read"
    /\ n_barrier' = n_barrier + 1
    /\ arrived' = [arrived EXCEPT ![t] = @ + 1]
    /\ bar' = [bar EXCEPT ![t].at =
                 IF n_barrier = bar[t].n_threads - 1 THEN "reset" ELSE "wait"]
    /\ UNCHANGED <<n_threads_cur, n_barrier_passed>>

\* The last thread makes the counter ready for the next barrier ...
Reset(t) ==
    /\ bar[t].at = "reset"
    /\ n_barrier' = 0
    /\ bar' = [bar EXCEPT ![t].at = "pass"]
    /\ UNCHANGED <<n_threads_cur, n_barrier_passed, arrived>>

\* ... and only then lets the others go, and leaves.
Pass(t) ==
    /\ bar[t].at = "pass"
    /\ n_barrier_passed' = n_barrier_passed + 1
    /\ bar' = [bar EXCEPT ![t] = Out]
    /\ UNCHANGED <<n_threads_cur, n_barrier, arrived>>

Released(t) == bar[t].at = "wait" /\ n_barrier_passed # bar[t].n_passed

Leave(t) ==
    /\ Released(t)
    /\ bar' = [bar EXCEPT ![t] = Out]
    /\ UNCHANGED <<n_threads_cur, n_barrier, n_barrier_passed, arrived>>

\* ggml_graph_compute_kickoff() sets the number of threads of the next graph.
SetThreads(n) ==
    /\ n_threads_cur' = n
    /\ arrived' = [t \in Threads |-> n_barrier_passed]
    /\ UNCHANGED <<n_barrier, n_barrier_passed, bar>>

\* Nobody is held by the barrier: a thread may still be on its way out.
Quiet == \A t \in Threads : bar[t].at = "out" \/ Released(t)

BarrierNext ==
    \/ \E t \in Active : Enter(t)
    \/ \E t \in Threads : Arrive(t) \/ Reset(t) \/ Pass(t) \/ Leave(t)
    \/ Quiet /\ \E n \in 1 .. MaxThreads : SetThreads(n)

BarrierSpec == BarrierInit /\ [][BarrierNext]_barrierVars

-----------------------------------------------------------------------------

BarrierTypeOK ==
    /\ n_threads_cur \in 1 .. MaxThreads
    /\ n_barrier \in Nat
    /\ n_barrier_passed \in Nat
    /\ bar \in [Threads -> [at : {"out", "read", "reset", "pass", "wait"},
                            n_threads : 0 .. MaxThreads, n_passed : Nat]]
    /\ arrived \in [Threads -> Nat]

\* A thread that has left a barrier leaves behind no thread that has yet to
\* arrive at it: the counter is back at 0 before anybody can come to the next
\* barrier, so that two barriers in a row are never mixed up.
NobodyLeftBehind ==
    \A t, u \in Active : bar[t].at = "out" => arrived[u] >= arrived[t]

\* At most one thread opens a barrier, when every other one waits for it.
OneOpens ==
    \A t, u \in Active :
        bar[t].at \in {"reset", "pass"} /\ u # t => bar[u].at = "wait" /\ ~ Released(u)
=============================================================================
