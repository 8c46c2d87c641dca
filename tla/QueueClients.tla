--------------------------- MODULE QueueClients ---------------------------
(***************************************************************************)
(* server_queue under any use the server makes of it: HTTP threads post    *)
(* their tasks once each, the new-task callback consumes or defers its     *)
(* task, the update callback posts a NEXT_RESPONSE and releases slots, a   *)
(* signal terminates the loop at any time.                                 *)
(***************************************************************************)
EXTENDS ServerQueue

CONSTANTS
    Batch,          \* the vectors of tasks the HTTP threads will post
    NextResponse    \* the task update_slots() posts to itself

ASSUME BatchAssumption ==
    /\ Batch \subseteq Seq(Task) \ {<<>>}
    /\ NextResponse \in Task

\* get_new_id() gives every task an id of its own, so that no task is posted
\* twice, and only a CANCEL task names another one.
ASSUME TasksAssumption ==
    /\ \A t \in Task : t.type = "CANCEL" <=> t.id_target # NoId
    /\ NextResponse.type = "NEXT_RESPONSE"
    /\ \A ts \in Batch : IsInjective(ts) /\ NextResponse \notin ToSet(ts)
    /\ \A ts, us \in Batch : ts # us => ToSet(ts) \cap ToSet(us) = {}

VARIABLES
    unposted,   \* the batches the HTTP threads have still to post
    returning,  \* the callback has deferred its task and is about to return
    updated     \* update_slots() has posted its NEXT_RESPONSE in this call

vars == <<queueVars, unposted, returning, updated>>

Init ==
    /\ QueueInit
    /\ unposted = Batch
    /\ returning = FALSE
    /\ updated = FALSE

\* cancel_tasks() and the metrics and slots handlers post in front.
HighPriority(ts) == ts[1].type \in {"CANCEL", "METRICS"}

HttpPost ==
    /\ \E ts \in unposted :
         /\ Post(ts, HighPriority(ts))
         /\ unposted' = unposted \ {ts}
    /\ UNCHANGED <<returning, updated>>

CallbackDefers ==
    /\ loop = "new_task" /\ ~returning
    /\ current.type \notin {"CANCEL", "METRICS", "NEXT_RESPONSE"}
    /\ Defer
    /\ returning' = TRUE
    /\ UNCHANGED <<unposted, updated>>

\* A CANCEL task releases at most one slot.
CallbackReleases ==
    /\ loop = "new_task" /\ ~returning
    /\ current.type = "CANCEL"
    /\ PopDeferred
    /\ returning' = TRUE
    /\ UNCHANGED <<unposted, updated>>

CallbackReturns ==
    /\ NewTaskReturns
    /\ returning' = FALSE
    /\ UNCHANGED <<unposted, updated>>

\* Some slot is busy: update_slots() asks to be called again.
UpdatePostsNext ==
    /\ loop = "update_slots" /\ ~updated
    /\ Post(<<NextResponse>>, FALSE)
    /\ updated' = TRUE
    /\ UNCHANGED <<unposted, returning>>

UpdateReleases ==
    /\ loop = "update_slots" /\ updated
    /\ PopDeferred
    /\ UNCHANGED <<unposted, returning, updated>>

UpdateReturns ==
    /\ UpdateSlotsReturns
    /\ updated' = FALSE
    /\ UNCHANGED <<unposted, returning>>

Signal ==
    /\ Terminate
    /\ UNCHANGED <<unposted, returning, updated>>

Start ==
    /\ StartLoop
    /\ UNCHANGED <<unposted, returning, updated>>

MainLoop ==
    /\ LoopStep
    /\ UNCHANGED <<unposted, returning, updated>>

Next ==
    \/ HttpPost
    \/ CallbackDefers
    \/ CallbackReleases
    \/ CallbackReturns
    \/ UpdatePostsNext
    \/ UpdateReleases
    \/ UpdateReturns
    \/ Signal
    \/ Start
    \/ MainLoop

\* The main thread keeps running and its callbacks return.
Fairness ==
    /\ WF_vars(Start)
    /\ WF_vars(MainLoop)
    /\ WF_vars(CallbackReturns)
    /\ WF_vars(UpdateReturns)

Spec == Init /\ [][Next]_vars
FairSpec == Spec /\ Fairness

-----------------------------------------------------------------------------
(* Properties.                                                             *)

\* Every variable has its type.
TypeOK ==
    /\ queue_tasks \in Seq(Task)
    /\ queue_tasks_deferred \in Seq(Task)
    /\ queue_running \in BOOLEAN
    /\ loop \in LoopState
    /\ current \in Task \cup {NoTask}
    /\ unposted \subseteq Batch
    /\ returning \in BOOLEAN /\ updated \in BOOLEAN

\* The main thread sleeps on condition_tasks only while there is nothing to
\* pop and nobody has asked it to stop: no notification is ever missed.
NoLostWakeup == loop = "waiting" => queue_tasks = <<>> /\ queue_running

\* The task in the callback, for the places below.
InCallback == IF current = NoTask \/ returning THEN <<>> ELSE <<current>>

\* The queue implements the abstract pool of tasks: deferring, taking back
\* and posting in front neither lose nor duplicate a task.
Pool == INSTANCE TaskPool WITH
    pool  <- ToSet(queue_tasks) \cup ToSet(queue_tasks_deferred),
    taken <- IF returning THEN NoTask ELSE current,
    open  <- queue_running

PoolSpec == Pool!Spec

\* A task that was posted reaches the callback unless the loop returns: tasks
\* posted in front and NEXT_RESPONSE tasks cannot keep it in the queue for ever,
\* and a cancellation does not reach into the queue.
QueuedIsTaken ==
    \A t \in Task \ {NextResponse} :
        t \in ToSet(queue_tasks) ~> current = t \/ loop = "returned"

\* terminate() called after start_loop() has begun ends the loop.
StopEndsLoop == ~queue_running /\ loop # "not_started" ~> loop = "returned"
=============================================================================
