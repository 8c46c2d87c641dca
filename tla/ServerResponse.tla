--------------------------- MODULE ServerResponse ---------------------------
(***************************************************************************)
(* struct server_response of tools/server/server.cpp: the results the main *)
(* thread sends, kept until the HTTP thread that waits for them takes      *)
(* them.  Every method is a critical section of mutex_results, except      *)
(* recv() and recv_with_timeout(), which give it up while they sleep on    *)
(* condition_results: they are split at that point.                        *)
(*                                                                         *)
(* A result is a record with the id of its task and                        *)
(*     stop   TRUE for a final result or an error, FALSE for a partial one *)
(*     error  TRUE for an error.                                           *)
(* terminate() and the flag it clears are in ServerShutdown.               *)
(***************************************************************************)
EXTENDS Naturals, Sequences, SequencesExt, FiniteSetsExt, RemoveIf

VARIABLES
    waiting_task_ids,   \* ids some HTTP thread wants results of
    queue_results,      \* results not yet taken
    asleep              \* threads sleeping on condition_results

responseVars == <<waiting_task_ids, queue_results, asleep>>

ResponseInit ==
    /\ waiting_task_ids = {}
    /\ queue_results = <<>>
    /\ asleep = {}

\* add_waiting_task_id() and add_waiting_tasks().
AddWaiting(ids) ==
    /\ waiting_task_ids' = waiting_task_ids \cup ids
    /\ UNCHANGED <<queue_results, asleep>>

\* Mutant: the results stay behind.
RemoveWaitingId_Keeps(id) ==
    /\ waiting_task_ids' = waiting_task_ids \ {id}
    /\ UNCHANGED <<queue_results, asleep>>

\* remove_waiting_task_id(): the results of the task go with it.
RemoveWaitingId(id) ==
    /\ waiting_task_ids' = waiting_task_ids \ {id}
    /\ queue_results' = RemoveIf(queue_results, {i \in DOMAIN queue_results : queue_results[i].id = id})
    /\ UNCHANGED asleep

\* remove_waiting_task_ids(): the results stay.
RemoveWaitingIds(ids) ==
    /\ waiting_task_ids' = waiting_task_ids \ ids
    /\ UNCHANGED <<queue_results, asleep>>

\* Mutants: one sleeper at most is woken; nobody is; the result is put first.
Send_NotifyOne(res) ==
    IF res.id \in waiting_task_ids
      THEN /\ queue_results' = Append(queue_results, res)
           /\ asleep' \in IF asleep = {} THEN {{}} ELSE {asleep \ {t} : t \in asleep}
           /\ UNCHANGED waiting_task_ids
      ELSE UNCHANGED responseVars

Send_Front(res) ==
    IF res.id \in waiting_task_ids
      THEN /\ queue_results' = <<res>> \o queue_results
           /\ asleep' = {}
           /\ UNCHANGED waiting_task_ids
      ELSE UNCHANGED responseVars

\* send(): a result nobody waits for is dropped; every sleeper is woken.
Send(res) ==
    IF res.id \in waiting_task_ids
      THEN /\ queue_results' = Append(queue_results, res)
           /\ asleep' = {}
           /\ UNCHANGED waiting_task_ids
      ELSE UNCHANGED responseVars

Matching(ids) == {i \in DOMAIN queue_results : queue_results[i].id \in ids}

\* The scan of recv() and recv_with_timeout(): the oldest result for one of
\* the ids is taken.
FirstMatch(ids) == queue_results[Min(Matching(ids))]

TakeResult(thread, ids) ==
    /\ thread \notin asleep
    /\ Matching(ids) # {}
    /\ queue_results' = RemoveAt(queue_results, Min(Matching(ids)))
    /\ UNCHANGED <<waiting_task_ids, asleep>>

\* recv(): the predicate is that there is some result, for whomever.
RecvSleeps(thread) ==
    /\ thread \notin asleep
    /\ queue_results = <<>>
    /\ asleep' = asleep \cup {thread}
    /\ UNCHANGED <<waiting_task_ids, queue_results>>

\* recv_with_timeout(): the scan has found nothing.
TimedRecvSleeps(thread, ids) ==
    /\ thread \notin asleep
    /\ Matching(ids) = {}
    /\ asleep' = asleep \cup {thread}
    /\ UNCHANGED <<waiting_task_ids, queue_results>>

\* wait_for() times out: recv_with_timeout() returns nullptr without a scan.
TimedRecvExpires(thread) ==
    /\ thread \in asleep
    /\ asleep' = asleep \ {thread}
    /\ UNCHANGED <<waiting_task_ids, queue_results>>
=============================================================================
