-------------------------- MODULE ServerProperties --------------------------
(***************************************************************************)
(* What the server of module Server should and should not do.              *)
(***************************************************************************)
EXTENDS Server

\* Every variable has its type.
TypeOK ==
    /\ queue_tasks \in Seq(Task) /\ queue_tasks_deferred \in Seq(Task)
    /\ queue_running \in BOOLEAN
    /\ loop \in LoopState
    /\ current \in Task \cup {NoTask}
    /\ waiting_task_ids \subseteq TaskId
    /\ queue_results \in Seq([id : TaskId, stop : BOOLEAN, error : BOOLEAN])
    /\ asleep \subseteq Request
    /\ slots \in [Slots -> [state : SlotState, id_task : TaskId \cup {NoId}, n : 0 .. MaxTokens]]
    /\ phase \in {"begin", "prompt", "decode", "sample", "stop", "embedded", "fail", "end"}
    /\ visit \subseteq Slots /\ unsampled \subseteq Slots
    /\ outbox \in Seq([id : TaskId \cup {NoId}, stop : BOOLEAN, error : BOOLEAN])
    /\ failures \in 0 .. MaxFailures
    /\ pc \in [Request -> {"start", "post", "provide", "receive", "cancel", "finish", "done"}]
    /\ left \in [Request -> SUBSET TaskId]
    /\ closed \subseteq Request /\ cancelled \subseteq TaskId

\* The task that the new-task callback has still to dispose of.
Undecided == IF loop = "new_task" /\ phase = "begin" THEN <<current>> ELSE <<>>

Pending == queue_tasks \o queue_tasks_deferred \o Undecided
IsPending(id) == RequestTask(id) \in ToSet(Pending)
IsRunning(id) == \E s \in Slots : Processing(s) /\ slots[s].id_task = id
IsAnswered(id) ==
    \E res \in ToSet(queue_results) \cup ToSet(outbox) : res.id = id /\ res.stop

\* A request that waits for a task is never forgotten: the task is queued,
\* deferred, running on a slot, or its final result or error is on the way.
NoTaskForgotten ==
    \A r \in Request : pc[r] \in {"provide", "receive"} =>
        \A id \in left[r] : IsPending(id) \/ IsRunning(id) \/ IsAnswered(id)

\* A task is in one place: not twice in the queues, not on two slots, and not
\* in a queue while a slot works on it.
TaskOnce ==
    /\ \A i, j \in DOMAIN Pending :
         Pending[i] = Pending[j] /\ Pending[i].type # "CANCEL" => i = j
    /\ \A s \in Slots : Processing(s) =>
         /\ ~IsPending(slots[s].id_task)
         /\ \A t \in Slots \ {s} : Processing(t) => slots[t].id_task # slots[s].id_task

\* The main thread sleeps only when every slot is idle: a busy slot keeps
\* calling update_slots() through its NEXT_RESPONSE task.
BusyServerIsAwake == loop \in {"waiting", "notified"} => Idle(Slots) = Slots

\* An HTTP thread does not sleep through a result that is meant for it.
SleeperHasNoResult == \A r \in asleep : Matching(IdSet(r)) = {}

\* "if no slot is available, we defer this task for processing later"
\* (server.cpp:2728): no task is left deferred when the server goes to sleep.
NoStrandedTask == loop = "waiting" => queue_tasks_deferred = <<>>

\* After a failed decode update_slots() sends an error for every slot, for an
\* idle one with the id of the task it ran last (server.cpp:3424): such an error
\* may be a second answer, and it may come after its request has stopped waiting.
Excused(res) == failures > 0 /\ res.error

\* A task is answered once: while its request waits for others, no result of
\* a task follows its final one, but for the errors of a failed decode.
OneAnswer ==
    \A i \in DOMAIN queue_results :
        LET res == queue_results[i]
            r   == Owner(res.id)
        IN  \/ Excused(res)
            \/ /\ pc[r] = "receive" => res.id \in left[r]
               /\ \A j \in 1 .. i - 1 : queue_results[j].id = res.id => ~queue_results[j].stop

\* "make sure to clean up all pending results" (server.cpp:1750): a result is
\* kept only as long as somebody waits for it.  The exceptions are a streaming
\* request whose client went away before its content provider was called:
\* on_complete() forgets the ids with remove_waiting_task_ids() and leaves the
\* results behind, without a cancellation; and the errors of a failed decode.
ResultsHaveWaiter ==
    \A res \in ToSet(queue_results) :
        \/ res.id \in waiting_task_ids
        \/ /\ pc[Owner(res.id)] = "done" /\ Owner(res.id) \in closed
           /\ res.id \notin cancelled
        \/ Excused(res)

\* "if this is cancel task make sure to clean up pending tasks"
\* (server.cpp:1570): posting the cancellation of a task removes the task from
\* the queue and from the deferred tasks.
CancelCleansPending ==
    [][\A id \in cancelled' \ cancelled :
           RequestTask(id) \notin ToSet(queue_tasks' \o queue_tasks_deferred')]_vars

\* Every request whose tasks were posted gets its answer, or the thread sees
\* that the client is gone, and the thread is free for another request.
AllServed == \A r \in Request : pc[r] # "start" ~> pc[r] = "done"

\* No task holds its slot for ever.
SlotsAreFreed == \A s \in Slots : Processing(s) ~> ~Processing(s)
=============================================================================
