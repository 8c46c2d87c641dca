--------------------------- MODULE ServerShutdown ---------------------------
(***************************************************************************)
(* How the server stops: the signal handler, start_loop() returning,       *)
(* clean_up(), and the join of the HTTP threads (tools/server/server.cpp). *)
(*                                                                         *)
(* The module looks at the two mutexes in finer steps than Server does,    *)
(* because a signal handler runs in the middle of the thread it interrupts *)
(* and server_response::terminate() takes no mutex.  What the tasks are is *)
(* left out: the main thread takes mutex_tasks for its own loop and in its *)
(* callbacks, and an HTTP thread waits for one result.                     *)
(***************************************************************************)
CONSTANTS
    Untimed,        \* HTTP threads waiting in recv()
    Timed,          \* HTTP threads waiting in recv_with_timeout()
    EarlySignal,    \* may the signal arrive before start_loop()?
    Interrupts      \* the threads the signal may interrupt

ASSUME ShutdownAssumption ==
    /\ Untimed \cap Timed = {}
    /\ EarlySignal \in BOOLEAN
    /\ Interrupts \subseteq {"main", "other"}

Reader == Untimed \cup Timed

VARIABLES
    process,            \* "alive", "exited", or "aborted" by std::terminate()
    main,               \* where the main thread is
    mutex_tasks,        \* who holds it: "main", "handler" or "free"
    queue_running,      \* server_queue::running
    handler,            \* the signal handler: "none", "begin", "locked", "done"
    interrupted,        \* the thread it runs on
    results_running,    \* server_response::running
    reader,             \* where every HTTP thread is
    result,             \* the readers whose result is in queue_results
    missed              \* history: the readers about to sleep when terminate() notified

vars == <<process, main, mutex_tasks, queue_running, handler, interrupted,
          results_running, reader, result, missed>>

Init ==
    /\ process = "alive"
    /\ main = "ready"
    /\ mutex_tasks = "free"
    /\ queue_running \in BOOLEAN
    /\ handler = "none" /\ interrupted = "other"
    /\ results_running = TRUE
    /\ reader = [r \in Reader |-> "scan"]
    /\ result = {} /\ missed = {}

\* The main thread does not move while the handler runs on it.
MainFree == process = "alive" /\ ~(handler \in {"begin", "locked"} /\ interrupted = "main")

MainGoes(from, to) == MainFree /\ main = from /\ main' = to

\* mutex_results is held between the test of recv()'s predicate and the sleep.
ResultsFree == \A r \in Reader : reader[r] # "tested"

-----------------------------------------------------------------------------
(* The main thread.                                                        *)

StartLoop ==
    /\ MainGoes("ready", "loop")
    /\ queue_running' = TRUE
    /\ UNCHANGED <<process, mutex_tasks, handler, interrupted, results_running, reader,
                   result, missed>>

\* start_loop() locks mutex_tasks, and so do its callbacks, to post or defer.
MainLocks ==
    /\ \/ MainGoes("loop", "loop_locked")
       \/ MainGoes("callback", "callback_locked")
    /\ mutex_tasks = "free"
    /\ mutex_tasks' = "main"
    /\ UNCHANGED <<process, queue_running, handler, interrupted, results_running, reader,
                   result, missed>>

\* Under the mutex the loop returns, sleeps, or goes on with a callback.
LoopDecides ==
    /\ \/ ~queue_running /\ MainGoes("loop_locked", "returned")
       \/ queue_running /\ MainGoes("loop_locked", "callback")
       \/ queue_running /\ MainGoes("loop_locked", "sleep")
       \/ MainGoes("callback_locked", "loop")
    /\ mutex_tasks' = "free"
    /\ UNCHANGED <<process, queue_running, handler, interrupted, results_running, reader,
                   result, missed>>

\* A callback sends a result: queue_results.send() wakes the sleepers.
MainSends ==
    /\ MainGoes("callback", "loop")
    /\ ResultsFree
    /\ \E r \in Reader :
         /\ reader[r] # "gone"
         /\ result' = result \cup {r}
    /\ reader' = [q \in Reader |-> IF reader[q] = "asleep" THEN "woken" ELSE reader[q]]
    /\ UNCHANGED <<process, mutex_tasks, queue_running, handler, interrupted, results_running,
                   missed>>

\* A task has been posted: the main thread is woken.
MainWakes ==
    /\ MainGoes("sleep", "loop")
    /\ mutex_tasks = "free"
    /\ UNCHANGED <<process, mutex_tasks, queue_running, handler, interrupted, results_running,
                   reader, result, missed>>

\* clean_up(): svr->stop() only closes the socket; queue_results.terminate()
\* clears the flag, and then notifies, holding no mutex.
ClearResultsFlag ==
    /\ MainGoes("returned", "flag_cleared")
    /\ results_running' = FALSE
    /\ UNCHANGED <<process, mutex_tasks, queue_running, handler, interrupted, reader, result,
                   missed>>

\* Mutant: the flag is cleared and nobody is told.
NotifyReaders_Not ==
    /\ MainGoes("flag_cleared", "join")
    /\ missed' = {r \in Reader : reader[r] = "tested"}
    /\ UNCHANGED <<process, mutex_tasks, queue_running, handler, interrupted, results_running,
                   reader, result>>

NotifyReaders ==
    /\ MainGoes("flag_cleared", "join")
    /\ reader' = [r \in Reader |-> IF reader[r] = "asleep" THEN "woken" ELSE reader[r]]
    /\ missed' = {r \in Reader : reader[r] = "tested"}
    /\ UNCHANGED <<process, mutex_tasks, queue_running, handler, interrupted, results_running,
                   result>>

\* t.join() returns when every HTTP thread has finished its request.
Join ==
    /\ MainGoes("join", "joined")
    /\ \A r \in Reader : reader[r] = "gone"
    /\ process' = "exited"
    /\ UNCHANGED <<mutex_tasks, queue_running, handler, interrupted, results_running, reader,
                   result, missed>>

MainThread ==
    \/ StartLoop \/ MainLocks \/ LoopDecides \/ MainSends
    \/ ClearResultsFlag \/ NotifyReaders \/ Join

-----------------------------------------------------------------------------
(* The HTTP threads: recv() and recv_with_timeout().                       *)

ReaderGoes(r, from, to) ==
    process = "alive" /\ reader[r] = from /\ reader' = [reader EXCEPT ![r] = to]

\* The scan finds the result; recv() tests the flag before it scans.
ReaderScans(r) ==
    /\ ResultsFree
    /\ \/ /\ r \in Untimed /\ ~results_running /\ reader[r] = "scan"
          /\ process = "alive" /\ process' = "aborted"
          /\ UNCHANGED <<reader, result>>
       \/ /\ r \in Untimed => results_running
          /\ r \in result
          /\ ReaderGoes(r, "scan", "gone")
          /\ result' = result \ {r}
          /\ UNCHANGED process
       \/ /\ r \in Untimed => results_running /\ result = {}
          /\ r \notin result
          /\ ReaderGoes(r, "scan", "tested")
          /\ UNCHANGED <<process, result>>
    /\ UNCHANGED <<main, mutex_tasks, queue_running, handler, interrupted, results_running, missed>>

\* The thread goes to sleep on condition_results and gives the mutex up.
ReaderSleeps(r) ==
    /\ ReaderGoes(r, "tested", "asleep")
    /\ UNCHANGED <<process, main, mutex_tasks, queue_running, handler, interrupted,
                   results_running, result, missed>>

\* wait_for() has timed out, or the thread has been notified.  Only
\* recv_with_timeout() tests the flag here, recv() does in its predicate.
ReaderWakes(r) ==
    /\ ResultsFree
    /\ reader[r] \in IF r \in Timed THEN {"asleep", "woken"} ELSE {"woken"}
    /\ IF r \in Timed /\ ~results_running
         THEN process = "alive" /\ process' = "aborted" /\ UNCHANGED reader
         ELSE ReaderGoes(r, reader[r], "scan") /\ UNCHANGED process
    /\ UNCHANGED <<main, mutex_tasks, queue_running, handler, interrupted, results_running,
                   result, missed>>

HttpThread(r) == ReaderScans(r) \/ ReaderSleeps(r) \/ ReaderWakes(r)

-----------------------------------------------------------------------------
(* The signal.                                                             *)

\* SIGINT or SIGTERM; before start_loop() only when EarlySignal says so.
Signal ==
    /\ process = "alive" /\ handler = "none"
    /\ main # "ready" \/ EarlySignal
    /\ interrupted' \in Interrupts
    /\ handler' = "begin"
    /\ UNCHANGED <<process, main, mutex_tasks, queue_running, results_running, reader, result,
                   missed>>

\* Mutant: terminate() does not lock the mutex.
HandlerLocks_Not ==
    /\ process = "alive" /\ handler = "begin"
    /\ handler' = "locked"
    /\ UNCHANGED <<process, main, mutex_tasks, queue_running, interrupted, results_running,
                   reader, result, missed>>

\* server_queue::terminate() locks the mutex.
HandlerLocks ==
    /\ process = "alive" /\ handler = "begin" /\ mutex_tasks = "free"
    /\ mutex_tasks' = "handler"
    /\ handler' = "locked"
    /\ UNCHANGED <<process, main, queue_running, interrupted, results_running, reader, result,
                   missed>>

\* Mutant: the flag is cleared but the loop is not notified.
HandlerTerminates_Silent ==
    /\ process = "alive" /\ handler = "locked"
    /\ queue_running' = FALSE
    /\ mutex_tasks' = "free"
    /\ handler' = "done"
    /\ UNCHANGED <<process, main, interrupted, results_running, reader, result, missed>>

HandlerTerminates ==
    /\ process = "alive" /\ handler = "locked"
    /\ queue_running' = FALSE
    /\ main' = IF main = "sleep" THEN "loop" ELSE main
    /\ mutex_tasks' = "free"
    /\ handler' = "done"
    /\ UNCHANGED <<process, interrupted, results_running, reader, result, missed>>

\* A second signal exits at once.
SecondSignal ==
    /\ process = "alive" /\ handler # "none"
    /\ process' = "exited"
    /\ UNCHANGED <<main, mutex_tasks, queue_running, handler, interrupted, results_running,
                   reader, result, missed>>

Handler == HandlerLocks \/ HandlerTerminates

Next ==
    \/ MainThread \/ MainWakes
    \/ \E r \in Reader : HttpThread(r)
    \/ Signal \/ SecondSignal \/ Handler

Spec == Init /\ [][Next]_vars

\* Threads keep running and a mutex that is free again and again is obtained in
\* the end; but no task, no signal and no second signal need ever come.
Fairness ==
    /\ WF_vars(MainThread) /\ SF_vars(Handler)
    /\ \A r \in Reader : SF_vars(HttpThread(r))

FairSpec == Spec /\ Fairness

-----------------------------------------------------------------------------
(* Properties.                                                             *)

\* Every variable has its type.
TypeOK ==
    /\ process \in {"alive", "exited", "aborted"}
    /\ main \in {"ready", "loop", "loop_locked", "callback", "callback_locked", "sleep",
                 "returned", "flag_cleared", "join", "joined"}
    /\ mutex_tasks \in {"free", "main", "handler"}
    /\ queue_running \in BOOLEAN /\ results_running \in BOOLEAN
    /\ handler \in {"none", "begin", "locked", "done"}
    /\ interrupted \in {"main", "other"}
    /\ reader \in [Reader -> {"scan", "tested", "asleep", "woken", "gone"}]
    /\ result \subseteq Reader /\ missed \subseteq Reader

\* Whoever changes the loop's flag or decides by it holds mutex_tasks, and the
\* two never hold it together.
LoopLock ==
    /\ main \in {"loop_locked", "callback_locked"} <=> mutex_tasks = "main"
    /\ handler = "locked" <=> mutex_tasks = "handler"

\* A stopped loop stays stopped: once the handler is done the main thread does
\* not go to sleep on condition_tasks again.
StoppedLoopIsAwake == handler = "done" /\ ~queue_running => main # "sleep"

\* Once terminate() has been heard (the flag is cleared and start_loop() does
\* not set it again) the process ends, by the join or by std::terminate().  Of
\* the threads in recv() only one that had tested the flag and was not asleep yet
\* when queue_results.terminate() notified may keep it from that: all others are
\* woken by the notification, or see the flag when they come to test it.
StopEndsProcess ==
    ~queue_running /\ main # "ready" ~>
        process # "alive" \/ \E r \in Untimed \cap missed : reader[r] = "asleep"

\* "terminate the waiting loop" (server.cpp:1841): once server_response::terminate()
\* has notified, no thread is left waiting in recv() in a process that goes on.
TerminateEndsWaiting ==
    main = "join" ~> process # "alive" \/ \A r \in Reader : reader[r] # "asleep"

\* "this will unblock start_loop()" (server.cpp:4941): after a signal the
\* process ends.
SignalEndsProcess == handler # "none" ~> process # "alive"
=============================================================================
