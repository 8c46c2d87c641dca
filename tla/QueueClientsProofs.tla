------------------------- MODULE QueueClientsProofs -------------------------
(***************************************************************************)
(* No wake-up of the main thread is lost, and the queue implements the     *)
(* abstract pool of tasks, whatever the tasks, the batches and the order   *)
(* in which the threads reach mutex_tasks.                                 *)
(***************************************************************************)
EXTENDS QueueClients, SequenceLemmas

(***************************************************************************)
(* The inductive invariant.  Everything that fills the queue or clears the *)
(* flag notifies, so afterwards the main thread is not "waiting"; and it   *)
(* becomes "waiting" only under the mutex, having seen an empty queue and  *)
(* the flag set.                                                           *)
(***************************************************************************)
WakeupInv ==
    /\ loop \in LoopState
    /\ queue_running \in BOOLEAN
    /\ NoLostWakeup

\* Whatever Notify accompanies leaves the main thread in a state it can be in,
\* and not waiting.
LEMMA NotifyWakes ==
    ASSUME loop \in LoopState, Notify
    PROVE  loop' \in LoopState /\ loop' # "waiting"
BY DEF Notify, LoopState

\* A step of start_loop() preserves the invariant.
LEMMA LoopStepWakeup ==
    ASSUME WakeupInv, LoopStep
    PROVE  WakeupInv'
<1>1. CASE PopTask
  BY <1>1 DEF PopTask, WakeupInv, NoLostWakeup, LoopState
<1>2. CASE Drained
  BY <1>2 DEF Drained, WakeupInv, NoLostWakeup, LoopState
<1>3. CASE Recheck
  BY <1>3 DEF Recheck, WakeupInv, NoLostWakeup, LoopState
<1>4. CASE WakeUp
  BY <1>4 DEF WakeUp, WakeupInv, NoLostWakeup, LoopState
<1>5. CASE LoopExits
  BY <1>5 DEF LoopExits, WakeupInv, NoLostWakeup, LoopState
<1> QED BY <1>1, <1>2, <1>3, <1>4, <1>5 DEF LoopStep

\* Every step preserves the invariant.
LEMMA StepWakeup == WakeupInv /\ [Next]_vars => WakeupInv'
<1> SUFFICES ASSUME WakeupInv, [Next]_vars PROVE WakeupInv'
  OBVIOUS
<1> USE DEF WakeupInv
<1>1. CASE HttpPost
  BY <1>1, NotifyWakes DEF HttpPost, Post, NoLostWakeup
<1>2. CASE CallbackDefers
  BY <1>2, NotifyWakes DEF CallbackDefers, Defer, NoLostWakeup
<1>3. CASE CallbackReleases
  BY <1>3, NotifyWakes DEF CallbackReleases, PopDeferred, NoLostWakeup
<1>4. CASE CallbackReturns
  BY <1>4 DEF CallbackReturns, NewTaskReturns, NoLostWakeup, LoopState
<1>5. CASE UpdatePostsNext
  BY <1>5, NotifyWakes DEF UpdatePostsNext, Post, NoLostWakeup
<1>6. CASE UpdateReleases
  BY <1>6, NotifyWakes DEF UpdateReleases, PopDeferred, NoLostWakeup
<1>7. CASE UpdateReturns
  BY <1>7 DEF UpdateReturns, UpdateSlotsReturns, NoLostWakeup, LoopState
<1>8. CASE Signal
  BY <1>8, NotifyWakes DEF Signal, Terminate, NoLostWakeup
<1>9. CASE Start
  BY <1>9 DEF Start, StartLoop, NoLostWakeup, LoopState
<1>10. CASE MainLoop
  BY <1>10, LoopStepWakeup DEF MainLoop
<1>11. CASE UNCHANGED vars
  BY <1>11 DEF vars, queueVars, NoLostWakeup
<1> QED BY <1>1, <1>2, <1>3, <1>4, <1>5, <1>6, <1>7, <1>8, <1>9, <1>10, <1>11 DEF Next

\* The main thread never sleeps on condition_tasks while a task is queued or
\* after terminate(): the predicate it tested cannot become true behind its back.
THEOREM WakeupsNotLost == Spec => []NoLostWakeup
<1>1. Init => WakeupInv
  BY DEF Init, QueueInit, WakeupInv, NoLostWakeup, LoopState
<1> QED BY <1>1, StepWakeup, PTL DEF Spec, WakeupInv

-----------------------------------------------------------------------------
(***************************************************************************)
(* The queue implements TaskPool.  The pool is a set, so a step of the     *)
(* queue is a step of the pool only as long as no task is queued twice:    *)
(* the task that PopTask takes away has to be the only one of its kind.    *)
(* That a posted task is a new one, and that NEXT_RESPONSE is not posted   *)
(* while it is queued, is what the last three parts of the invariant say.  *)
(***************************************************************************)

Pooled == ToSet(queue_tasks) \cup ToSet(queue_tasks_deferred)

DistinctTasks ==
    /\ IsInjective(queue_tasks) /\ IsInjective(queue_tasks_deferred)
    /\ ToSet(queue_tasks) \cap ToSet(queue_tasks_deferred) = {}

Callbacks ==
    /\ loop = "new_task" <=> current # NoTask
    /\ returning => loop = "new_task"
    /\ updated => loop = "update_slots"

InHand == ~returning => current \notin Pooled

Unposted == \A ts \in unposted : ToSet(ts) \cap Pooled = {} /\ current \notin ToSet(ts)

OneNextResponse ==
    /\ NextResponse \notin ToSet(queue_tasks_deferred)
    /\ loop = "update_slots" /\ ~updated => NextResponse \notin ToSet(queue_tasks)

PoolInv ==
    TypeOK /\ DistinctTasks /\ Callbacks /\ InHand /\ Unposted /\ OneNextResponse

\* The tasks that a post of ts takes away.
Cancelled(ts) ==
    {t \in Pooled : t.type = "CANCEL" /\ \E u \in ToSet(ts) : u.type = "CANCEL"
                                                           /\ u.id_target = t.id_target}

LEMMA CleanupTakes ==
    ASSUME NEW q \in Seq(Task), NEW ts \in Seq(Task)
    PROVE  /\ CleanupPending(q, ts) \in Seq(Task)
           /\ IsInjective(q) => IsInjective(CleanupPending(q, ts))
           /\ ToSet(CleanupPending(q, ts)) =
                {t \in ToSet(q) : ~(t.type = "CANCEL" /\ \E u \in ToSet(ts) :
                                        u.type = "CANCEL" /\ u.id_target = t.id_target)}
<1> DEFINE targets == {ts[i].id_target : i \in {j \in DOMAIN ts : ts[j].type = "CANCEL"}}
           K       == {i \in DOMAIN q : q[i].id_target \in targets}
<1>1. CleanupPending(q, ts) = RemoveIf(q, K)
  BY DEF CleanupPending
<1>2. ASSUME NEW t \in Task
      PROVE  t.id_target \in targets <=>
               t.type = "CANCEL" /\ \E u \in ToSet(ts) : u.type = "CANCEL" /\ u.id_target = t.id_target
  <2>1. t.id_target \in targets <=>
           \E u \in ToSet(ts) : u.type = "CANCEL" /\ u.id_target = t.id_target
    BY DEF ToSet
  <2>2. \A u \in ToSet(ts) : u \in Task
    BY DEF ToSet
  <2> QED BY <2>1, <2>2, TasksAssumption
<1> HIDE DEF targets
<1>3. /\ RemoveIf(q, K) \in Seq(Task)
      /\ ToSet(RemoveIf(q, K)) = {q[j] : j \in DOMAIN q \ K}
  BY SetOfRemoveIf
<1>4. {q[j] : j \in DOMAIN q \ K} = {t \in ToSet(q) : t.id_target \notin targets}
  BY DEF ToSet
<1>5. \A t \in ToSet(q) : t \in Task
  BY DEF ToSet
<1>6. IsInjective(q) => IsInjective(RemoveIf(q, K))
  BY DistinctRemoveIf
<1> QED BY <1>1, <1>2, <1>3, <1>4, <1>5, <1>6

LEMMA PostSubmits ==
    ASSUME TypeOK, DistinctTasks, NEW ts \in Seq(Task), NEW front \in BOOLEAN, Post(ts, front),
           IsInjective(ts), ToSet(ts) \cap Pooled = {}
    PROVE  /\ queue_tasks' \in Seq(Task) /\ queue_tasks_deferred' \in Seq(Task)
           /\ loop' \in LoopState
           /\ DistinctTasks'
           /\ Pooled' = (Pooled \ Cancelled(ts)) \cup ToSet(ts)
           /\ ToSet(queue_tasks') \subseteq ToSet(queue_tasks) \cup ToSet(ts)
           /\ ToSet(queue_tasks_deferred') \subseteq ToSet(queue_tasks_deferred)
           /\ loop' = IF loop = "waiting" THEN "notified" ELSE loop
           /\ UNCHANGED <<queue_running, current>>
<1> DEFINE kept == CleanupPending(queue_tasks, ts)
           late == CleanupPending(queue_tasks_deferred, ts)
           Gone(t) == t.type = "CANCEL" /\ \E u \in ToSet(ts) :
                                        u.type = "CANCEL" /\ u.id_target = t.id_target
<1>1. /\ kept \in Seq(Task) /\ IsInjective(kept)
      /\ ToSet(kept) = {t \in ToSet(queue_tasks) : ~Gone(t)}
  BY CleanupTakes DEF TypeOK, DistinctTasks
<1>2. /\ late \in Seq(Task) /\ IsInjective(late)
      /\ ToSet(late) = {t \in ToSet(queue_tasks_deferred) : ~Gone(t)}
  BY CleanupTakes DEF TypeOK, DistinctTasks
<1>3. /\ Reverse(ts) \in Seq(Task) /\ ToSet(Reverse(ts)) = ToSet(ts)
      /\ IsInjective(Reverse(ts))
  BY SetOfReverse, DistinctReverse
<1>4. /\ queue_tasks' = IF front THEN Reverse(ts) \o kept ELSE kept \o ts
      /\ queue_tasks_deferred' = late
      /\ loop' = IF loop = "waiting" THEN "notified" ELSE loop
      /\ UNCHANGED <<queue_running, current>>
  BY DEF Post, Notify
<1>5. ToSet(kept) \cap ToSet(ts) = {} /\ ToSet(late) \cap ToSet(ts) = {}
  BY <1>1, <1>2 DEF Pooled
<1>6. Cancelled(ts) = {t \in Pooled : Gone(t)}
  BY DEF Cancelled
<1> HIDE DEF kept, late, Gone
<1>7. /\ queue_tasks' \in Seq(Task) /\ ToSet(queue_tasks') = ToSet(kept) \cup ToSet(ts)
      /\ IsInjective(queue_tasks')
  <2>1. CASE front
    BY <1>1, <1>3, <1>4, <1>5, <2>1, SetOfConcat, DistinctConcat
  <2>2. CASE ~front
    BY <1>1, <1>4, <1>5, <2>2, SetOfConcat, DistinctConcat
  <2> QED BY <2>1, <2>2
<1>8. DistinctTasks'
  BY <1>1, <1>2, <1>4, <1>5, <1>7 DEF DistinctTasks
<1>9. Pooled' = (Pooled \ Cancelled(ts)) \cup ToSet(ts)
  BY <1>1, <1>2, <1>4, <1>6, <1>7 DEF Pooled
<1> QED BY <1>1, <1>2, <1>4, <1>7, <1>8, <1>9 DEF TypeOK, LoopState

\* pop_deferred_task() moves a task within the pool.
LEMMA PopKeepsPool ==
    ASSUME TypeOK, DistinctTasks, PopDeferred
    PROVE  /\ queue_tasks' \in Seq(Task) /\ queue_tasks_deferred' \in Seq(Task)
           /\ loop' \in LoopState
           /\ DistinctTasks'
           /\ Pooled' = Pooled
           /\ ToSet(queue_tasks') \subseteq Pooled
           /\ ToSet(queue_tasks_deferred') \subseteq ToSet(queue_tasks_deferred)
           /\ loop' = IF loop = "waiting" THEN "notified" ELSE loop
           /\ UNCHANGED <<queue_running, current>>
<1>1. /\ loop' = IF loop = "waiting" THEN "notified" ELSE loop
      /\ UNCHANGED <<queue_running, current>>
      /\ loop' \in LoopState
  BY DEF PopDeferred, Notify, TypeOK, LoopState
<1>2. CASE queue_tasks_deferred = <<>>
  <2>1. UNCHANGED <<queue_tasks, queue_tasks_deferred>>
    BY <1>2 DEF PopDeferred
  <2> QED BY <1>1, <2>1 DEF TypeOK, DistinctTasks, Pooled
<1>3. CASE queue_tasks_deferred # <<>>
  <2> DEFINE h == Head(queue_tasks_deferred)
             d == Tail(queue_tasks_deferred)
  <2>1. queue_tasks' = Append(queue_tasks, h) /\ queue_tasks_deferred' = d
    BY <1>3 DEF PopDeferred
  <2>2. /\ h \in Task /\ d \in Seq(Task) /\ ToSet(queue_tasks_deferred) = {h} \cup ToSet(d)
        /\ IsInjective(d) /\ h \notin ToSet(d)
    BY <1>3, SetOfTail, DistinctTail DEF TypeOK, DistinctTasks
  <2> HIDE DEF h, d
  <2>3. h \notin ToSet(queue_tasks)
    BY <2>2 DEF DistinctTasks
  <2>4. /\ queue_tasks' \in Seq(Task) /\ ToSet(queue_tasks') = ToSet(queue_tasks) \cup {h}
        /\ IsInjective(queue_tasks')
    BY <2>1, <2>2, <2>3, SetOfAppend, DistinctAppend DEF TypeOK, DistinctTasks
  <2>5. DistinctTasks'
    BY <2>1, <2>2, <2>3, <2>4 DEF DistinctTasks
  <2>6. Pooled' = Pooled
    BY <2>1, <2>2, <2>4 DEF Pooled
  <2> QED BY <1>1, <2>1, <2>2, <2>4, <2>5, <2>6 DEF Pooled
<1> QED BY <1>2, <1>3

LEMMA InitPool == Init => PoolInv
<1> SUFFICES ASSUME Init PROVE PoolInv
  OBVIOUS
<1>1. /\ queue_tasks = <<>> /\ queue_tasks_deferred = <<>> /\ loop = "not_started"
      /\ current = NoTask /\ unposted = Batch /\ ~returning /\ ~updated
      /\ ToSet(queue_tasks) = {} /\ ToSet(queue_tasks_deferred) = {}
  BY DEF Init, QueueInit, ToSet
<1>2. TypeOK
  <2>1. queue_tasks \in Seq(Task) /\ queue_tasks_deferred \in Seq(Task)
    BY <1>1
  <2>2. queue_running \in BOOLEAN /\ returning \in BOOLEAN /\ updated \in BOOLEAN
    BY DEF Init, QueueInit
  <2> QED BY <1>1, <2>1, <2>2 DEF TypeOK, LoopState
<1>3. DistinctTasks
  BY <1>1 DEF DistinctTasks, IsInjective
<1>4. \A ts \in Batch : NoTask \notin ToSet(ts)
  BY BatchAssumption, TaskAssumption DEF ToSet
<1>5. Callbacks /\ InHand /\ Unposted /\ OneNextResponse
  BY <1>1, <1>4 DEF Callbacks, InHand, Unposted, OneNextResponse, Pooled
<1> QED BY <1>2, <1>3, <1>5 DEF PoolInv

\* What is in the pool is a task, and what an HTTP thread posts is new.
LEMMA PooledTasks == TypeOK => Pooled \subseteq Task
BY DEF TypeOK, Pooled, ToSet

LEMMA PostedBatch ==
    ASSUME PoolInv, NEW ts \in unposted
    PROVE  /\ ts \in Seq(Task) /\ IsInjective(ts)
           /\ ToSet(ts) \subseteq Task /\ ToSet(ts) # {}
           /\ ToSet(ts) \cap Pooled = {} /\ current \notin ToSet(ts)
           /\ NextResponse \notin ToSet(ts)
           /\ \A us \in unposted \ {ts} : ToSet(us) \cap ToSet(ts) = {}
<1>1. ts \in Batch /\ unposted \subseteq Batch
  BY DEF PoolInv, TypeOK
<1>2. ts \in Seq(Task) /\ ts # <<>>
  BY <1>1, BatchAssumption
<1>3. ToSet(ts) \subseteq Task /\ ToSet(ts) # {}
  <2>1. 1 \in DOMAIN ts /\ \A i \in DOMAIN ts : ts[i] \in Task
    BY <1>2
  <2> QED BY <2>1 DEF ToSet
<1> QED BY <1>1, <1>2, <1>3, TasksAssumption DEF PoolInv, Unposted

LEMMA NextAlone ==
    /\ <<NextResponse>> \in Seq(Task) /\ IsInjective(<<NextResponse>>)
    /\ ToSet(<<NextResponse>>) = {NextResponse} /\ NextResponse \in Task
<1>1. /\ <<NextResponse>> \in Seq(Task) /\ DOMAIN <<NextResponse>> = {1}
      /\ <<NextResponse>>[1] = NextResponse
  BY BatchAssumption
<1> QED BY <1>1, BatchAssumption DEF IsInjective, ToSet

-----------------------------------------------------------------------------
(* One lemma per action: it preserves the invariant and is a step of the   *)
(* pool, or none.                                                          *)

Taken == IF returning THEN NoTask ELSE current

PoolStep == [Pool!Next]_(Pool!vars)

LEMMA PoolStutters ==
    ASSUME Pooled' = Pooled, Taken' = Taken, queue_running' = queue_running
    PROVE  PoolStep
BY DEF PoolStep, Pool!vars, Pooled, Taken

LEMMA HttpPostPool ==
    ASSUME PoolInv, HttpPost
    PROVE  PoolInv' /\ PoolStep
<1>1. PICK ts \in unposted : Post(ts, HighPriority(ts)) /\ unposted' = unposted \ {ts}
  BY DEF HttpPost
<1>2. /\ ts \in Seq(Task) /\ IsInjective(ts)
      /\ ToSet(ts) \subseteq Task /\ ToSet(ts) # {}
      /\ ToSet(ts) \cap Pooled = {} /\ current \notin ToSet(ts)
      /\ NextResponse \notin ToSet(ts)
      /\ \A us \in unposted \ {ts} : ToSet(us) \cap ToSet(ts) = {}
  BY PostedBatch
<1>3. HighPriority(ts) \in BOOLEAN
  BY DEF HighPriority
<1>4. /\ queue_tasks' \in Seq(Task) /\ queue_tasks_deferred' \in Seq(Task)
      /\ loop' \in LoopState
      /\ DistinctTasks'
      /\ Pooled' = (Pooled \ Cancelled(ts)) \cup ToSet(ts)
      /\ ToSet(queue_tasks') \subseteq ToSet(queue_tasks) \cup ToSet(ts)
      /\ ToSet(queue_tasks_deferred') \subseteq ToSet(queue_tasks_deferred)
      /\ loop' = IF loop = "waiting" THEN "notified" ELSE loop
      /\ UNCHANGED <<queue_running, current>>
  BY <1>1, <1>2, <1>3, PostSubmits DEF PoolInv
<1>5. UNCHANGED <<returning, updated>>
  BY DEF HttpPost
<1>6. TypeOK'
  BY <1>1, <1>4, <1>5 DEF PoolInv, TypeOK
<1>7. Callbacks' /\ InHand' /\ OneNextResponse'
  BY <1>2, <1>4, <1>5 DEF PoolInv, Callbacks, InHand, OneNextResponse
<1>8. Unposted'
  BY <1>1, <1>2, <1>4 DEF PoolInv, Unposted
<1>9. PoolStep
  <2>1. Cancelled(ts) = Pool!Replaced(ToSet(ts))
    BY DEF Cancelled, Pooled, Pool!Replaced
  <2>2. ToSet(ts) \in (SUBSET Task) \ {{}}
    BY <1>2
  <2>3. Pooled' = (Pooled \ Pool!Replaced(ToSet(ts))) \cup ToSet(ts)
    BY <1>4, <2>1
  <2>4. Taken' = Taken /\ queue_running' = queue_running
    BY <1>4, <1>5 DEF Taken
  <2>5. Pool!Submit
    BY <2>2, <2>3, <2>4 DEF Pool!Submit, Pooled, Taken
  <2> QED BY <2>5 DEF PoolStep, Pool!Next
<1> QED BY <1>4, <1>6, <1>7, <1>8, <1>9 DEF PoolInv

LEMMA UpdatePostsNextPool ==
    ASSUME PoolInv, UpdatePostsNext
    PROVE  PoolInv' /\ PoolStep
<1> DEFINE ts == <<NextResponse>>
<1>1. Post(ts, FALSE) /\ loop = "update_slots" /\ ~updated
  BY DEF UpdatePostsNext
<1>2. /\ ts \in Seq(Task) /\ IsInjective(ts)
      /\ ToSet(ts) = {NextResponse} /\ NextResponse \in Task
  BY NextAlone
<1> HIDE DEF ts
<1>3. NextResponse \notin Pooled /\ current = NoTask /\ NextResponse # NoTask
  BY <1>1, <1>2, TaskAssumption DEF PoolInv, OneNextResponse, Callbacks, Pooled
<1>4. /\ queue_tasks' \in Seq(Task) /\ queue_tasks_deferred' \in Seq(Task)
      /\ loop' \in LoopState
      /\ DistinctTasks'
      /\ Pooled' = (Pooled \ Cancelled(ts)) \cup ToSet(ts)
      /\ ToSet(queue_tasks') \subseteq ToSet(queue_tasks) \cup ToSet(ts)
      /\ ToSet(queue_tasks_deferred') \subseteq ToSet(queue_tasks_deferred)
      /\ loop' = IF loop = "waiting" THEN "notified" ELSE loop
      /\ UNCHANGED <<queue_running, current>>
  BY <1>1, <1>2, <1>3, PostSubmits DEF PoolInv
<1>5. updated' = TRUE /\ UNCHANGED <<unposted, returning>>
  BY DEF UpdatePostsNext
<1>6. TypeOK'
  BY <1>4, <1>5 DEF PoolInv, TypeOK
<1>7. Callbacks' /\ InHand' /\ OneNextResponse'
  BY <1>1, <1>2, <1>3, <1>4, <1>5 DEF PoolInv, Callbacks, InHand, OneNextResponse
<1>8. Unposted'
  <2>1. \A us \in unposted : NextResponse \notin ToSet(us)
    BY PostedBatch
  <2> QED BY <1>2, <1>4, <1>5, <2>1 DEF PoolInv, Unposted
<1>9. PoolStep
  <2>1. Cancelled(ts) = Pool!Replaced(ToSet(ts))
    BY DEF Cancelled, Pooled, Pool!Replaced
  <2>2. ToSet(ts) \in (SUBSET Task) \ {{}}
    BY <1>2
  <2>3. Pooled' = (Pooled \ Pool!Replaced(ToSet(ts))) \cup ToSet(ts)
    BY <1>4, <2>1
  <2>4. Taken' = Taken /\ queue_running' = queue_running
    BY <1>4, <1>5 DEF Taken
  <2>5. Pool!Submit
    BY <2>2, <2>3, <2>4 DEF Pool!Submit, Pooled, Taken
  <2> QED BY <2>5 DEF PoolStep, Pool!Next
<1> QED BY <1>4, <1>6, <1>7, <1>8, <1>9 DEF PoolInv

LEMMA CallbackDefersPool ==
    ASSUME PoolInv, CallbackDefers
    PROVE  PoolInv' /\ PoolStep
<1>1. /\ loop = "new_task" /\ ~returning /\ ~updated /\ current \in Task
      /\ current # NoTask /\ current \notin Pooled /\ current # NextResponse
  BY TasksAssumption DEF CallbackDefers, PoolInv, Callbacks, InHand, TypeOK
<1>2. /\ queue_tasks_deferred' = Append(queue_tasks_deferred, current)
      /\ loop' = loop /\ returning' = TRUE
      /\ UNCHANGED <<queue_tasks, queue_running, current, unposted, updated>>
  BY <1>1 DEF CallbackDefers, Defer, Notify
<1>3. /\ queue_tasks_deferred' \in Seq(Task)
      /\ ToSet(queue_tasks_deferred') = ToSet(queue_tasks_deferred) \cup {current}
  BY <1>1, <1>2, SetOfAppend DEF PoolInv, TypeOK
<1>4. IsInjective(queue_tasks_deferred')
  BY <1>1, <1>2, DistinctAppend DEF PoolInv, TypeOK, DistinctTasks, Pooled
<1>5. Pooled' = Pooled \cup {current}
  BY <1>2, <1>3 DEF Pooled
<1>6. TypeOK' /\ DistinctTasks'
  BY <1>1, <1>2, <1>3, <1>4 DEF PoolInv, TypeOK, DistinctTasks, Pooled
<1>7. Callbacks' /\ InHand' /\ Unposted' /\ OneNextResponse'
  BY <1>1, <1>2, <1>3, <1>5 DEF PoolInv, Callbacks, InHand, Unposted, OneNextResponse
<1>8. Pool!PutBack
  BY <1>1, <1>2, <1>5 DEF Pool!PutBack, Pooled
<1> QED BY <1>6, <1>7, <1>8 DEF PoolInv, PoolStep, Pool!Next

LEMMA CallbackReleasesPool ==
    ASSUME PoolInv, CallbackReleases
    PROVE  PoolInv' /\ PoolStep
<1>1. /\ loop = "new_task" /\ ~returning /\ ~updated /\ current # NoTask
      /\ returning' = TRUE /\ UNCHANGED <<unposted, updated>> /\ PopDeferred
  BY DEF CallbackReleases, PoolInv, Callbacks
<1>2. /\ queue_tasks' \in Seq(Task) /\ queue_tasks_deferred' \in Seq(Task)
      /\ DistinctTasks' /\ Pooled' = Pooled
      /\ ToSet(queue_tasks_deferred') \subseteq ToSet(queue_tasks_deferred)
      /\ loop' = loop /\ UNCHANGED <<queue_running, current>>
  BY <1>1, PopKeepsPool DEF PoolInv
<1>3. TypeOK' /\ Callbacks' /\ InHand' /\ Unposted' /\ OneNextResponse'
  BY <1>1, <1>2 DEF PoolInv, TypeOK, Callbacks, InHand, Unposted, OneNextResponse
<1>4. Pool!Finish
  BY <1>1, <1>2 DEF Pool!Finish, Pooled
<1> QED BY <1>2, <1>3, <1>4 DEF PoolInv, PoolStep, Pool!Next

LEMMA UpdateReleasesPool ==
    ASSUME PoolInv, UpdateReleases
    PROVE  PoolInv' /\ PoolStep
<1>1. /\ loop = "update_slots" /\ updated /\ PopDeferred
      /\ UNCHANGED <<unposted, returning, updated>>
  BY DEF UpdateReleases
<1>2. /\ queue_tasks' \in Seq(Task) /\ queue_tasks_deferred' \in Seq(Task)
      /\ DistinctTasks' /\ Pooled' = Pooled
      /\ ToSet(queue_tasks_deferred') \subseteq ToSet(queue_tasks_deferred)
      /\ loop' = loop /\ UNCHANGED <<queue_running, current>>
  BY <1>1, PopKeepsPool DEF PoolInv
<1>3. TypeOK' /\ Callbacks' /\ InHand' /\ Unposted' /\ OneNextResponse'
  BY <1>1, <1>2 DEF PoolInv, TypeOK, Callbacks, InHand, Unposted, OneNextResponse
<1>4. PoolStep
  BY <1>1, <1>2, PoolStutters DEF Taken
<1> QED BY <1>2, <1>3, <1>4 DEF PoolInv

LEMMA CallbackReturnsPool ==
    ASSUME PoolInv, CallbackReturns
    PROVE  PoolInv' /\ PoolStep
<1>1. /\ loop = "new_task" /\ loop' = "drain" /\ current # NoTask /\ current' = NoTask
      /\ returning' = FALSE /\ ~updated
      /\ UNCHANGED <<queue_tasks, queue_tasks_deferred, queue_running, unposted, updated>>
  BY DEF CallbackReturns, NewTaskReturns, PoolInv, Callbacks
<1>2. TypeOK' /\ DistinctTasks' /\ Pooled' = Pooled
  BY <1>1 DEF PoolInv, TypeOK, LoopState, DistinctTasks, Pooled
<1>3. NoTask \notin Pooled /\ \A ts \in unposted : NoTask \notin ToSet(ts)
  BY PooledTasks, PostedBatch, TaskAssumption DEF PoolInv
<1>4. Callbacks' /\ InHand' /\ Unposted' /\ OneNextResponse'
  BY <1>1, <1>2, <1>3 DEF PoolInv, Callbacks, InHand, Unposted, OneNextResponse
<1>5. PoolStep
  <2>1. CASE returning
    BY <1>1, <1>2, <2>1, PoolStutters DEF Taken
  <2>2. CASE ~returning
    <3>1. Pool!Finish
      BY <1>1, <1>2, <2>2 DEF Pool!Finish, Pooled
    <3> QED BY <3>1 DEF PoolStep, Pool!Next
  <2> QED BY <2>1, <2>2
<1> QED BY <1>2, <1>4, <1>5 DEF PoolInv

LEMMA PopTaskPool ==
    ASSUME PoolInv, PopTask, UNCHANGED <<unposted, returning, updated>>
    PROVE  PoolInv' /\ PoolStep
<1> DEFINE h == Head(queue_tasks)
<1>1. /\ loop = "drain" /\ loop' = "new_task" /\ queue_running
      /\ current = NoTask /\ ~returning /\ ~updated
      /\ current' = h /\ queue_tasks' = Tail(queue_tasks)
      /\ UNCHANGED <<queue_tasks_deferred, queue_running, unposted, returning, updated>>
  BY DEF PopTask, PoolInv, Callbacks
<1>2. /\ h \in Task /\ queue_tasks' \in Seq(Task)
      /\ ToSet(queue_tasks) = {h} \cup ToSet(queue_tasks')
      /\ IsInjective(queue_tasks') /\ h \notin ToSet(queue_tasks')
  BY <1>1, SetOfTail, DistinctTail DEF PopTask, PoolInv, TypeOK, DistinctTasks
<1> HIDE DEF h
<1>3. /\ h \in Pooled /\ h \notin ToSet(queue_tasks_deferred) /\ h # NoTask
      /\ Pooled' = Pooled \ {h}
  BY <1>1, <1>2, TaskAssumption DEF Pooled, PoolInv, DistinctTasks
<1>4. TypeOK' /\ DistinctTasks'
  BY <1>1, <1>2 DEF PoolInv, TypeOK, LoopState, DistinctTasks
<1>5. Callbacks' /\ InHand' /\ Unposted' /\ OneNextResponse'
  BY <1>1, <1>3 DEF PoolInv, Callbacks, InHand, Unposted, OneNextResponse
<1>6. Pool!Take
  BY <1>1, <1>3 DEF Pool!Take, Pooled
<1> QED BY <1>4, <1>5, <1>6 DEF PoolInv, PoolStep, Pool!Next

\* The steps of the loop and of its callbacks that leave the tasks where they are.
LEMMA QuietPool ==
    ASSUME PoolInv, UNCHANGED <<queue_tasks, queue_tasks_deferred, current, unposted, returning>>,
           queue_running' \in BOOLEAN, updated' \in BOOLEAN, loop' \in LoopState,
           loop' = "new_task" <=> loop = "new_task",
           updated' => loop' = "update_slots",
           loop' = "update_slots" /\ ~updated' =>
                (loop = "update_slots" /\ ~updated) \/ queue_tasks = <<>>
    PROVE  PoolInv'
<1>1. Pooled' = Pooled /\ (queue_tasks = <<>> => NextResponse \notin ToSet(queue_tasks))
  BY DEF Pooled, ToSet
<1>2. TypeOK' /\ DistinctTasks'
  BY DEF PoolInv, TypeOK, DistinctTasks
<1>3. Callbacks' /\ InHand' /\ Unposted' /\ OneNextResponse'
  BY <1>1 DEF PoolInv, Callbacks, InHand, Unposted, OneNextResponse
<1> QED BY <1>2, <1>3 DEF PoolInv

LEMMA MainLoopPool ==
    ASSUME PoolInv, MainLoop
    PROVE  PoolInv' /\ PoolStep
<1>1. LoopStep /\ UNCHANGED <<unposted, returning, updated>>
  BY DEF MainLoop
<1>2. CASE PopTask
  BY <1>1, <1>2, PopTaskPool
<1>3. CASE Drained \/ Recheck \/ WakeUp \/ LoopExits
  <2>1. /\ UNCHANGED <<queue_tasks, queue_tasks_deferred, queue_running, current>>
        /\ loop \notin {"new_task", "update_slots"}
        /\ loop' \in {"update_slots", "waiting", "drain", "returned"}
        /\ loop' = "update_slots" => queue_tasks = <<>>
    BY <1>3 DEF Drained, Recheck, WakeUp, LoopExits
  <2>2. PoolInv'
    BY <1>1, <2>1, QuietPool DEF PoolInv, TypeOK, Callbacks, LoopState
  <2>3. Pooled' = Pooled /\ Taken' = Taken
    BY <1>1, <2>1 DEF Pooled, Taken
  <2> QED BY <2>1, <2>2, <2>3, PoolStutters
<1> QED BY <1>1, <1>2, <1>3 DEF LoopStep

LEMMA UpdateReturnsPool ==
    ASSUME PoolInv, UpdateReturns
    PROVE  PoolInv' /\ PoolStep
<1>1. /\ loop = "update_slots" /\ loop' = "recheck" /\ updated' = FALSE
      /\ UNCHANGED <<queue_tasks, queue_tasks_deferred, queue_running, current, unposted, returning>>
  BY DEF UpdateReturns, UpdateSlotsReturns
<1>2. PoolInv'
  BY <1>1, QuietPool DEF PoolInv, TypeOK, LoopState
<1>3. Pooled' = Pooled /\ Taken' = Taken
  BY <1>1 DEF Pooled, Taken
<1> QED BY <1>1, <1>2, <1>3, PoolStutters

LEMMA SignalPool ==
    ASSUME PoolInv, Signal
    PROVE  PoolInv' /\ PoolStep
<1>1. /\ queue_running' = FALSE /\ loop' = IF loop = "waiting" THEN "notified" ELSE loop
      /\ UNCHANGED <<queue_tasks, queue_tasks_deferred, current, unposted, returning, updated>>
  BY DEF Signal, Terminate, Notify
<1>2. PoolInv'
  BY <1>1, QuietPool DEF PoolInv, TypeOK, Callbacks, LoopState
<1>3. Pool!Close
  BY <1>1 DEF Pool!Close
<1> QED BY <1>2, <1>3 DEF PoolStep, Pool!Next

LEMMA StartPool ==
    ASSUME PoolInv, Start
    PROVE  PoolInv' /\ PoolStep
<1>1. /\ queue_running' = TRUE /\ loop = "not_started" /\ loop' = "drain"
      /\ UNCHANGED <<queue_tasks, queue_tasks_deferred, current, unposted, returning, updated>>
  BY DEF Start, StartLoop
<1>2. PoolInv'
  BY <1>1, QuietPool DEF PoolInv, TypeOK, Callbacks, LoopState
<1>3. Pool!Open
  BY <1>1 DEF Pool!Open
<1> QED BY <1>2, <1>3 DEF PoolStep, Pool!Next

LEMMA NextPool == PoolInv /\ [Next]_vars => PoolInv' /\ PoolStep
<1> SUFFICES ASSUME PoolInv, [Next]_vars PROVE PoolInv' /\ PoolStep
  OBVIOUS
<1>1. CASE UNCHANGED vars
  <2>1. UNCHANGED <<queue_tasks, queue_tasks_deferred, queue_running, loop, current,
                    unposted, returning, updated>>
    BY <1>1 DEF vars, queueVars
  <2>2. PoolInv'
    BY <2>1, QuietPool DEF PoolInv, TypeOK, Callbacks
  <2>3. Pooled' = Pooled /\ Taken' = Taken
    BY <2>1 DEF Pooled, Taken
  <2> QED BY <2>1, <2>2, <2>3, PoolStutters
<1> QED
  BY <1>1, HttpPostPool, UpdatePostsNextPool, CallbackDefersPool, CallbackReleasesPool,
     UpdateReleasesPool, CallbackReturnsPool, UpdateReturnsPool, SignalPool, StartPool,
     MainLoopPool DEF Next

\* The variables of server_queue and of its callers keep their types.
THEOREM QueueTypeCorrect == Spec => []TypeOK
<1>1. PoolInv => TypeOK
  BY DEF PoolInv
<1> QED BY <1>1, InitPool, NextPool, PTL DEF Spec

\* server_queue implements the abstract pool: post(), defer(),
\* pop_deferred_task() and start_loop() neither lose nor duplicate a task, and
\* only a CANCEL task makes another one disappear, namely a pending CANCEL task
\* with its target.
THEOREM QueueImplementsPool == Spec => PoolSpec
<1>1. Init => Pool!Init
  BY DEF Init, QueueInit, Pool!Init, ToSet
<1>2. PoolInv /\ [Next]_vars => [Pool!Next]_(Pool!vars)
  BY NextPool DEF PoolStep
<1>3. PoolInv /\ [Next]_vars => PoolInv'
  BY NextPool
<1> QED BY <1>1, <1>2, <1>3, InitPool, PTL DEF Spec, PoolSpec, Pool!Spec
=============================================================================
