---------------------------- MODULE ServerQueue ----------------------------
(***************************************************************************)
(* struct server_queue of tools/server/server.cpp: the queue through which *)
(* the HTTP threads hand tasks to the main thread, the list of deferred    *)
(* tasks, and the main loop that drains them.                              *)
(*                                                                         *)
(* Every public method is one critical section of mutex_tasks, so each is  *)
(* one action.  start_loop() releases the mutex around its two callbacks:  *)
(* `loop' says where the main thread is in it.  Only the main thread waits *)
(* on condition_tasks, so notify_one and notify_all wake the same thread.  *)
(*                                                                         *)
(* get_new_id() advances a counter under the mutex, so no two tasks share  *)
(* an id: an element of Task stands for a task with its id.  The id of a   *)
(* CANCEL or NEXT_RESPONSE task is never compared with anything.           *)
(***************************************************************************)
EXTENDS Naturals, Sequences, FiniteSets, SequencesExt, RemoveIf

CONSTANTS
    Task,       \* the tasks: records with a type, an id and an id_target
    NoTask,     \* no task is in the new-task callback
    NoId        \* id_target == -1

ASSUME TaskAssumption == NoTask \notin Task

VARIABLES
    queue_tasks,            \* std::deque queue_tasks
    queue_tasks_deferred,   \* std::deque queue_tasks_deferred
    queue_running,          \* the flag start_loop() runs under
    loop,                   \* where the main thread is in start_loop()
    current                 \* the task handed to callback_new_task

queueVars == <<queue_tasks, queue_tasks_deferred, queue_running, loop, current>>

LoopState == {"not_started", "drain", "new_task", "update_slots", "recheck",
              "waiting", "notified", "returned"}

\* `running' has no initialiser: it may hold either value before start_loop().
QueueInit ==
    /\ queue_tasks = <<>>
    /\ queue_tasks_deferred = <<>>
    /\ queue_running \in BOOLEAN
    /\ loop = "not_started"
    /\ current = NoTask

-----------------------------------------------------------------------------
(* Operations of the other threads and of the callbacks.                   *)

\* Mutant: the notification is forgotten.
Notify_Forgotten == loop' = loop

Notify == loop' = IF loop = "waiting" THEN "notified" ELSE loop

\* cleanup_pending_task() for every CANCEL task of ts.
CleanupPending(q, ts) ==
    LET targets == {ts[i].id_target : i \in {j \in DOMAIN ts : ts[j].type = "CANCEL"}}
    IN  RemoveIf(q, {i \in DOMAIN q : q[i].id_target \in targets})

\* post() of one task or of a vector.  push_front of a vector reverses it.
Post(ts, front) ==
    LET kept == CleanupPending(queue_tasks, ts)
    IN  /\ queue_tasks' = IF front THEN Reverse(ts) \o kept ELSE kept \o ts
        /\ queue_tasks_deferred' = CleanupPending(queue_tasks_deferred, ts)
        /\ Notify
        /\ UNCHANGED <<queue_running, current>>

\* Mutant: the task is deferred after it has been moved from.
Defer_Moved ==
    /\ queue_tasks_deferred' = Append(queue_tasks_deferred, NoTask)
    /\ Notify
    /\ UNCHANGED <<queue_tasks, queue_running, current>>

\* Called by callback_new_task with the task it was given.
Defer ==
    /\ queue_tasks_deferred' = Append(queue_tasks_deferred, current)
    /\ Notify
    /\ UNCHANGED <<queue_tasks, queue_running, current>>

\* Mutants: the deferred task is copied, or dropped.
PopDeferred_Copies ==
    /\ queue_tasks' = IF queue_tasks_deferred = <<>> THEN queue_tasks
                       ELSE Append(queue_tasks, Head(queue_tasks_deferred))
    /\ Notify
    /\ UNCHANGED <<queue_tasks_deferred, queue_running, current>>

PopDeferred_Drops ==
    /\ queue_tasks_deferred' = IF queue_tasks_deferred = <<>> THEN <<>>
                                ELSE Tail(queue_tasks_deferred)
    /\ Notify
    /\ UNCHANGED <<queue_tasks, queue_running, current>>

\* Called when a slot is released: one deferred task goes back to the queue.
PopDeferred ==
    /\ IF queue_tasks_deferred = <<>>
         THEN UNCHANGED <<queue_tasks, queue_tasks_deferred>>
         ELSE /\ queue_tasks' = Append(queue_tasks, Head(queue_tasks_deferred))
              /\ queue_tasks_deferred' = Tail(queue_tasks_deferred)
    /\ Notify
    /\ UNCHANGED <<queue_running, current>>

Terminate ==
    /\ queue_running' = FALSE
    /\ Notify
    /\ UNCHANGED <<queue_tasks, queue_tasks_deferred, current>>

-----------------------------------------------------------------------------
(* start_loop(), one action per stretch of it between two releases of the  *)
(* mutex.                                                                  *)

StartLoop ==
    /\ loop = "not_started"
    /\ queue_running' = TRUE
    /\ loop' = "drain"
    /\ UNCHANGED <<queue_tasks, queue_tasks_deferred, current>>

PopTask ==
    /\ loop = "drain" /\ queue_running /\ queue_tasks # <<>>
    /\ current' = Head(queue_tasks)
    /\ queue_tasks' = Tail(queue_tasks)
    /\ loop' = "new_task"
    /\ UNCHANGED <<queue_tasks_deferred, queue_running>>

\* callback_new_task returns.
NewTaskReturns ==
    /\ loop = "new_task"
    /\ current' = NoTask
    /\ loop' = "drain"
    /\ UNCHANGED <<queue_tasks, queue_tasks_deferred, queue_running>>

Drained ==
    /\ loop = "drain" /\ queue_running /\ queue_tasks = <<>>
    /\ loop' = "update_slots"
    /\ UNCHANGED <<queue_tasks, queue_tasks_deferred, queue_running, current>>

\* callback_update_slots returns.
UpdateSlotsReturns ==
    /\ loop = "update_slots"
    /\ loop' = "recheck"
    /\ UNCHANGED <<queue_tasks, queue_tasks_deferred, queue_running, current>>

Recheck ==
    /\ loop = "recheck" /\ queue_running
    /\ loop' = IF queue_tasks = <<>> THEN "waiting" ELSE "drain"
    /\ UNCHANGED <<queue_tasks, queue_tasks_deferred, queue_running, current>>

\* Mutants: the predicate of the wait tests one of its two conditions only.
WakeUp_OnlyStop ==
    /\ loop = "notified"
    /\ loop' = IF ~queue_running THEN "drain" ELSE "waiting"
    /\ UNCHANGED <<queue_tasks, queue_tasks_deferred, queue_running, current>>

WakeUp_OnlyTasks ==
    /\ loop = "notified"
    /\ loop' = IF queue_tasks # <<>> THEN "drain" ELSE "waiting"
    /\ UNCHANGED <<queue_tasks, queue_tasks_deferred, queue_running, current>>

\* The waiting thread has been notified and evaluates its predicate again.
WakeUp ==
    /\ loop = "notified"
    /\ loop' = IF queue_tasks # <<>> \/ ~queue_running THEN "drain" ELSE "waiting"
    /\ UNCHANGED <<queue_tasks, queue_tasks_deferred, queue_running, current>>

LoopExits ==
    /\ loop \in {"drain", "recheck"} /\ ~queue_running
    /\ loop' = "returned"
    /\ UNCHANGED <<queue_tasks, queue_tasks_deferred, queue_running, current>>

LoopStep ==
    \/ PopTask \/ Drained \/ Recheck \/ WakeUp \/ LoopExits
=============================================================================
