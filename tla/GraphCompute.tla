---------------------------- MODULE GraphCompute ----------------------------
(***************************************************************************)
(* What ggml_graph_compute() promises its caller (ggml/include/ggml-cpu.h):*)
(* the nodes of the graph are computed one after the other, each of them   *)
(* whole, and the call comes back, with "success" when all of them are     *)
(* computed and with "aborted" when the caller's callback has stopped it   *)
(* after a node.                                                           *)
(***************************************************************************)
EXTENDS Integers

CONSTANT NNodes     \* nodes of a graph

VARIABLES
    phase,  \* what the caller is doing: "idle", "computing" or "freed"
    done,   \* nodes of the last graph that are computed
    limit,  \* nodes of it that are to be computed
    ec      \* the status of the last graph

graphVars == <<phase, done, limit, ec>>

GraphInit == phase = "idle" /\ done = 0 /\ limit = NNodes /\ ec = "success"

Start ==
    /\ phase = "idle"
    /\ phase' = "computing" /\ done' = 0 /\ limit' = NNodes /\ ec' = "success"

ComputeNode ==
    /\ phase = "computing" /\ done < limit
    /\ done' = done + 1
    /\ UNCHANGED <<phase, limit, ec>>

\* The callback is asked after every node; other threads may still be at it.
Abort ==
    /\ phase = "computing" /\ ec = "success"
    /\ limit' \in {done, done + 1} \cap (1 .. NNodes)
    /\ ec' = "aborted"
    /\ UNCHANGED <<phase, done>>

Return ==
    /\ phase = "computing" /\ done = limit
    /\ phase' = "idle"
    /\ UNCHANGED <<done, limit, ec>>

Free ==
    /\ phase = "idle"
    /\ phase' = "freed"
    /\ UNCHANGED <<done, limit, ec>>

GraphNext == Start \/ ComputeNode \/ Abort \/ Return \/ Free

GraphSpec == GraphInit /\ [][GraphNext]_graphVars /\ WF_graphVars(ComputeNode \/ Return)
=============================================================================
