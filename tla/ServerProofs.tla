---------------------------- MODULE ServerProofs ----------------------------
(***************************************************************************)
(* What the server of module Server guarantees for any number of requests, *)
(* tasks, slots and tokens, however the threads are scheduled and however  *)
(* often decoding fails.                                                   *)
(***************************************************************************)
EXTENDS ServerProperties, SequenceLemmas

ResultType(ids) == [id : ids, stop : BOOLEAN, error : BOOLEAN]

-----------------------------------------------------------------------------
(* Tasks and their owners.                                                 *)

\* A task belongs to the request that has its id.
LEMMA OwnerOf ==
    ASSUME NEW r \in Request, NEW id \in IdSet(r)
    PROVE  Owner(id) = r /\ id \in TaskId
<1>1. \A q \in Request : id \in IdSet(q) => q = r
  BY IdsAssumption
<1> QED BY <1>1 DEF Owner, TaskId

LEMMA OwnerHas ==
    ASSUME NEW id \in TaskId
    PROVE  Owner(id) \in Request /\ id \in IdSet(Owner(id))
<1>1. PICK r \in Request : id \in IdSet(r)
  BY DEF TaskId
<1> QED BY <1>1, OwnerOf

LEMMA RequestIds ==
    ASSUME NEW r \in Request
    PROVE  Ids[r] \in Seq(IdSet(r)) /\ Ids[r] # <<>>
BY IdsAssumption

LEMMA RequestTasks ==
    ASSUME NEW id \in TaskId
    PROVE  /\ RequestTask(id) \in Task
           /\ RequestTask(id).id = id /\ RequestTask(id).id_target = NoId
           /\ RequestTask(id).type \in AnyKind
           /\ CancelTask(id) \in Task
<1>1. TaskType(Owner(id)) \in AnyKind
  BY OwnerHas, ServerAssumption DEF TaskType, AnyKind
<1> QED BY <1>1, ServerAssumption DEF RequestTask, CancelTask, NewTask, ServerTask

LEMMA NextIsTask == /\ NextResponse \in Task
                    /\ NextResponse.type = "NEXT_RESPONSE" /\ NextResponse.id_target = NoId
BY ServerAssumption DEF NextResponse, NewTask, ServerTask

\* The type of a task says which of the three kinds it is.
LEMMA TaskKinds ==
    ASSUME NEW t \in Task
    PROVE  /\ t.type = "CANCEL" => \E id \in TaskId : t = CancelTask(id) /\ t.id_target = id
           /\ t.type \in AnyKind => t.id \in TaskId /\ t = RequestTask(t.id)
<1>1. CASE \E id \in TaskId : t = RequestTask(id)
  <2>1. PICK id \in TaskId : t = RequestTask(id)
    BY <1>1
  <2>2. t.type \in AnyKind /\ t.id = id
    BY <2>1, RequestTasks
  <2> QED BY <2>1, <2>2 DEF AnyKind
<1>2. CASE \E id \in TaskId : t = CancelTask(id)
  <2>1. PICK id \in TaskId : t = CancelTask(id)
    BY <1>2
  <2>2. t.type = "CANCEL" /\ t.id_target = id
    BY <2>1 DEF CancelTask, NewTask
  <2> QED BY <2>1, <2>2 DEF AnyKind
<1>3. CASE t = NextResponse
  BY <1>3, NextIsTask DEF AnyKind
<1> QED BY <1>1, <1>2, <1>3, ServerAssumption DEF ServerTask

-----------------------------------------------------------------------------
(* What the operations of the queue do to the set of its tasks.            *)

QueueTypes ==
    /\ queue_tasks \in Seq(Task) /\ queue_tasks_deferred \in Seq(Task)
    /\ queue_running \in BOOLEAN
    /\ loop \in LoopState
    /\ current \in Task \cup {NoTask}
    /\ loop = "new_task" => current \in Task

LEMMA CleanupKeeps ==
    ASSUME NEW q \in Seq(Task), NEW ts \in Seq(Task)
    PROVE  /\ CleanupPending(q, ts) \in Seq(Task)
           /\ ToSet(CleanupPending(q, ts)) \subseteq ToSet(q)
           /\ \A t \in ToSet(q) : t.id_target = NoId => t \in ToSet(CleanupPending(q, ts))
<1> DEFINE targets == {ts[i].id_target : i \in {j \in DOMAIN ts : ts[j].type = "CANCEL"}}
           K       == {i \in DOMAIN q : q[i].id_target \in targets}
<1>1. CleanupPending(q, ts) = RemoveIf(q, K)
  BY DEF CleanupPending
<1>2. NoId \notin targets
  <2>1. \A i \in DOMAIN ts : ts[i] \in Task
    OBVIOUS
  <2>2. \A i \in DOMAIN ts : ts[i].type = "CANCEL" => ts[i].id_target \in TaskId
    BY <2>1, TaskKinds
  <2> QED BY <2>2, ServerAssumption
<1> HIDE DEF targets
<1>3. /\ RemoveIf(q, K) \in Seq(Task)
      /\ ToSet(RemoveIf(q, K)) = {q[j] : j \in DOMAIN q \ K}
  BY SetOfRemoveIf
<1> DEFINE R == RemoveIf(q, K)
<1> HIDE DEF R
<1>4. R \in Seq(Task) /\ ToSet(R) \subseteq ToSet(q)
  BY <1>3 DEF R, ToSet
<1>5. ASSUME NEW j \in DOMAIN q, q[j].id_target = NoId
      PROVE  q[j] \in ToSet(R)
  BY <1>2, <1>3, <1>5 DEF R
<1>6. \A t \in ToSet(q) : t.id_target = NoId => t \in ToSet(R)
  BY <1>5 DEF ToSet
<1> QED BY <1>1, <1>4, <1>6 DEF R

LEMMA PostSets ==
    ASSUME QueueTypes, NEW ts \in Seq(Task), NEW front \in BOOLEAN, Post(ts, front)
    PROVE  /\ QueueTypes'
           /\ ToSet(ts) \subseteq ToSet(queue_tasks')
           /\ ToSet(queue_tasks') \subseteq ToSet(ts) \cup ToSet(queue_tasks)
           /\ ToSet(queue_tasks_deferred') \subseteq ToSet(queue_tasks_deferred)
           /\ \A t \in ToSet(queue_tasks) : t.id_target = NoId => t \in ToSet(queue_tasks')
           /\ \A t \in ToSet(queue_tasks_deferred) :
                t.id_target = NoId => t \in ToSet(queue_tasks_deferred')
           /\ UNCHANGED <<queue_running, current>>
           /\ loop' = IF loop = "waiting" THEN "notified" ELSE loop
<1> DEFINE kept == CleanupPending(queue_tasks, ts)
<1>1. /\ kept \in Seq(Task) /\ ToSet(kept) \subseteq ToSet(queue_tasks)
      /\ \A t \in ToSet(queue_tasks) : t.id_target = NoId => t \in ToSet(kept)
  BY CleanupKeeps DEF QueueTypes
<1>2. /\ queue_tasks_deferred' \in Seq(Task)
      /\ ToSet(queue_tasks_deferred') \subseteq ToSet(queue_tasks_deferred)
      /\ \A t \in ToSet(queue_tasks_deferred) :
            t.id_target = NoId => t \in ToSet(queue_tasks_deferred')
  BY CleanupKeeps DEF Post, QueueTypes
<1>3. Reverse(ts) \in Seq(Task) /\ ToSet(Reverse(ts)) = ToSet(ts)
  BY SetOfReverse
<1>4. /\ queue_tasks' = IF front THEN Reverse(ts) \o kept ELSE kept \o ts
      /\ UNCHANGED <<queue_running, current>>
      /\ loop' = IF loop = "waiting" THEN "notified" ELSE loop
  BY DEF Post, Notify
<1> HIDE DEF kept
<1>5. queue_tasks' \in Seq(Task) /\ ToSet(queue_tasks') = ToSet(ts) \cup ToSet(kept)
  <2>1. Reverse(ts) \o kept \in Seq(Task) /\ ToSet(Reverse(ts) \o kept) = ToSet(ts) \cup ToSet(kept)
    BY <1>1, <1>3, SetOfConcat
  <2>2. kept \o ts \in Seq(Task) /\ ToSet(kept \o ts) = ToSet(kept) \cup ToSet(ts)
    BY <1>1, SetOfConcat
  <2> QED BY <1>4, <2>1, <2>2
<1> QED BY <1>1, <1>2, <1>4, <1>5 DEF QueueTypes, LoopState

LEMMA DeferSets ==
    ASSUME QueueTypes, loop = "new_task", Defer
    PROVE  /\ QueueTypes' /\ UNCHANGED <<queue_tasks, queue_running, current, loop>>
           /\ ToSet(queue_tasks_deferred') = ToSet(queue_tasks_deferred) \cup {current}
<1>1. current \in Task /\ queue_tasks_deferred \in Seq(Task)
  BY DEF QueueTypes
<1>2. /\ queue_tasks_deferred' = Append(queue_tasks_deferred, current)
      /\ UNCHANGED <<queue_tasks, queue_running, current, loop>>
  BY DEF Defer, Notify
<1>3. /\ queue_tasks_deferred' \in Seq(Task)
      /\ ToSet(queue_tasks_deferred') = ToSet(queue_tasks_deferred) \cup {current}
  BY <1>1, <1>2, SetOfAppend
<1> QED BY <1>2, <1>3 DEF QueueTypes

LEMMA PopDeferredSets ==
    ASSUME QueueTypes, PopDeferred, loop # "waiting"
    PROVE  /\ QueueTypes' /\ UNCHANGED <<queue_running, current, loop>>
           /\ ToSet(queue_tasks) \subseteq ToSet(queue_tasks')
           /\ ToSet(queue_tasks') \cup ToSet(queue_tasks_deferred')
                = ToSet(queue_tasks) \cup ToSet(queue_tasks_deferred)
<1>1. queue_tasks \in Seq(Task) /\ queue_tasks_deferred \in Seq(Task)
  BY DEF QueueTypes
<1>2. UNCHANGED <<queue_running, current, loop>>
  BY DEF PopDeferred, Notify
<1>3. CASE queue_tasks_deferred = <<>>
  BY <1>2, <1>3 DEF PopDeferred, QueueTypes
<1>4. CASE queue_tasks_deferred # <<>>
  <2> DEFINE h == Head(queue_tasks_deferred)
  <2>1. /\ h \in Task /\ Tail(queue_tasks_deferred) \in Seq(Task)
        /\ ToSet(queue_tasks_deferred) = {h} \cup ToSet(Tail(queue_tasks_deferred))
    BY <1>1, <1>4, SetOfTail
  <2>2. /\ queue_tasks' = Append(queue_tasks, h)
        /\ queue_tasks_deferred' = Tail(queue_tasks_deferred)
    BY <1>4 DEF PopDeferred
  <2> HIDE DEF h
  <2>3. queue_tasks' \in Seq(Task) /\ ToSet(queue_tasks') = ToSet(queue_tasks) \cup {h}
    BY <1>1, <2>1, <2>2, SetOfAppend
  <2> QED BY <1>2, <2>1, <2>2, <2>3 DEF QueueTypes
<1> QED BY <1>3, <1>4

LEMMA PopTaskSets ==
    ASSUME QueueTypes, PopTask
    PROVE  /\ QueueTypes' /\ loop' = "new_task" /\ UNCHANGED queue_tasks_deferred
           /\ ToSet(queue_tasks) = ToSet(queue_tasks') \cup {current'}
<1>1. queue_tasks \in Seq(Task) /\ queue_tasks # <<>>
  BY DEF QueueTypes, PopTask
<1>2. /\ Head(queue_tasks) \in Task /\ Tail(queue_tasks) \in Seq(Task)
      /\ ToSet(queue_tasks) = {Head(queue_tasks)} \cup ToSet(Tail(queue_tasks))
  BY <1>1, SetOfTail
<1> QED BY <1>2 DEF PopTask, QueueTypes, LoopState

-----------------------------------------------------------------------------
(***************************************************************************)
(* Types.  That a slot never counts more tokens than its request has asked *)
(* for needs that what update_slots() is about to sample has a token left, *)
(* which only the slot that has taken its last one, and stops, has not.    *)
(***************************************************************************)

ResponseTypes ==
    /\ waiting_task_ids \subseteq TaskId
    /\ queue_results \in Seq(ResultType(TaskId))
    /\ asleep \subseteq Request

SlotTypes ==
    slots \in [Slots -> [state : SlotState, id_task : TaskId \cup {NoId}, n : 0 .. MaxTokens]]

MainTypes ==
    /\ phase \in {"begin", "prompt", "decode", "sample", "stop", "embedded", "fail", "end"}
    /\ visit \subseteq Slots /\ unsampled \subseteq Slots
    /\ outbox \in Seq(ResultType(TaskId \cup {NoId}))
    /\ failures \in 0 .. MaxFailures

HttpTypes ==
    /\ pc \in [Request -> {"start", "post", "provide", "receive", "cancel", "finish", "done"}]
    /\ left \in [Request -> SUBSET TaskId]
    /\ \A r \in Request : left[r] \subseteq IdSet(r)
    /\ closed \subseteq Request /\ cancelled \subseteq TaskId

\* Where the main thread can be.
Phases ==
    /\ loop \notin {"new_task", "update_slots"} => phase = "begin"
    /\ loop = "new_task" => phase \in {"begin", "end"}
    /\ phase \in {"stop", "embedded"} => visit # {}
    /\ phase \in {"begin", "decode", "end"} => visit = {}

\* What it has gathered, and what is left of it.
Sampled == {"DONE_PROMPT", "GENERATING"}

Batches ==
    /\ phase \in {"decode", "sample", "stop", "embedded"} =>
         /\ visit \cap unsampled = {}
         /\ \A s \in visit \cup unsampled : slots[s].state \in Sampled
    /\ phase = "prompt" => \A s \in visit : slots[s].state \in {"STARTED", "PROCESSING_PROMPT"}
    /\ \A s \in Slots :
         slots[s].state \in Sampled /\ ~(phase = "stop" /\ s = Min(visit)) => slots[s].n < MaxTokens

TypeInv ==
    /\ QueueTypes /\ ResponseTypes /\ SlotTypes /\ MainTypes /\ HttpTypes
    /\ Phases /\ Batches

LEMMA TypeInvImplies == TypeInv => TypeOK
BY DEF TypeInv, QueueTypes, ResponseTypes, ResultType, SlotTypes, MainTypes, HttpTypes, TypeOK

\* The slot a pass looks at is one of those it has to visit.
LEMMA VisitedSlot ==
    ASSUME NEW ss \in SUBSET Slots, ss # {}
    PROVE  Min(ss) \in ss /\ Min(ss) \in Slots
<1>1. Slots \subseteq Nat
  BY ServerAssumption DEF Slots
<1> QED BY <1>1, LeastIn

LEMMA TypesInit == Init => TypeInv
<1> SUFFICES ASSUME Init
             PROVE  TypeInv
  OBVIOUS
<1> USE DEF Init
<1>1. QueueTypes
  BY DEF QueueInit, QueueTypes, LoopState
<1>2. ResponseTypes
  BY DEF ResponseInit, ResponseTypes
<1>3. SlotTypes
  BY ServerAssumption DEF SlotTypes, SlotState
<1>4. MainTypes
  BY ServerAssumption DEF MainTypes
<1>5. HttpTypes
  BY DEF HttpTypes
<1>6. Phases /\ Batches
  BY DEF Phases, Batches, Sampled, QueueInit
<1> QED BY <1>1, <1>2, <1>3, <1>4, <1>5, <1>6 DEF TypeInv

\* The methods of server_response.
LEMMA SendTypes ==
    ASSUME ResponseTypes, NEW res \in ResultType(TaskId \cup {NoId}), Send(res)
    PROVE  /\ ResponseTypes' /\ waiting_task_ids' = waiting_task_ids
           /\ asleep' \subseteq asleep
           /\ ToSet(queue_results) \subseteq ToSet(queue_results')
           /\ ToSet(queue_results') \subseteq ToSet(queue_results) \cup {res}
           /\ res.id \in waiting_task_ids => res \in ToSet(queue_results') /\ asleep' = {}
           /\ res.id \notin waiting_task_ids => UNCHANGED responseVars
<1>1. CASE res.id \in waiting_task_ids
  <2>1. res \in ResultType(TaskId)
    BY <1>1 DEF ResultType, ResponseTypes
  <2>2. /\ queue_results' = Append(queue_results, res)
        /\ asleep' = {} /\ UNCHANGED waiting_task_ids
    BY <1>1 DEF Send
  <2>3. /\ queue_results' \in Seq(ResultType(TaskId))
        /\ ToSet(queue_results') = ToSet(queue_results) \cup {res}
    BY <2>1, <2>2, SetOfAppend DEF ResponseTypes
  <2> QED BY <1>1, <2>2, <2>3 DEF ResponseTypes
<1>2. CASE res.id \notin waiting_task_ids
  BY <1>2 DEF Send, responseVars, ResponseTypes
<1> QED BY <1>1, <1>2

LEMMA TakeTypes ==
    ASSUME ResponseTypes, NEW r \in Request, TakeResult(r, IdSet(r))
    PROVE  /\ ResponseTypes' /\ UNCHANGED <<waiting_task_ids, asleep>>
           /\ Min(Matching(IdSet(r))) \in DOMAIN queue_results
           /\ FirstMatch(IdSet(r)) \in ToSet(queue_results)
           /\ FirstMatch(IdSet(r)).id \in IdSet(r)
           /\ FirstMatch(IdSet(r)) \in ResultType(TaskId)
           /\ ToSet(queue_results') \subseteq ToSet(queue_results)
           /\ ToSet(queue_results) \subseteq ToSet(queue_results') \cup {FirstMatch(IdSet(r))}
<1> DEFINE M == Matching(IdSet(r))
           k == Min(M)
<1>1. M # {} /\ queue_results' = RemoveAt(queue_results, k) /\ UNCHANGED <<waiting_task_ids, asleep>>
  BY DEF TakeResult
<1>2. queue_results \in Seq(ResultType(TaskId))
  BY DEF ResponseTypes
<1>3. M \subseteq Nat
  BY <1>2 DEF Matching
<1>4. k \in M
  BY <1>1, <1>3, LeastIn
<1>5. /\ k \in DOMAIN queue_results /\ queue_results[k].id \in IdSet(r)
      /\ FirstMatch(IdSet(r)) = queue_results[k] /\ queue_results[k] \in ResultType(TaskId)
  BY <1>2, <1>4 DEF Matching, FirstMatch
<1> HIDE DEF k
<1>6. /\ queue_results' \in Seq(ResultType(TaskId))
      /\ ToSet(queue_results') = {queue_results[j] : j \in DOMAIN queue_results \ {k}}
  BY <1>1, <1>2, <1>5, SetOfRemoveAt
<1> QED BY <1>1, <1>5, <1>6 DEF ResponseTypes, ToSet, k

LEMMA ForgetTypes ==
    ASSUME ResponseTypes, NEW id \in TaskId, RemoveWaitingId(id)
    PROVE  /\ ResponseTypes' /\ waiting_task_ids' = waiting_task_ids \ {id} /\ asleep' = asleep
           /\ ToSet(queue_results') = {res \in ToSet(queue_results) : res.id # id}
<1> DEFINE K == {i \in DOMAIN queue_results : queue_results[i].id = id}
<1>1. /\ queue_results' = RemoveIf(queue_results, K)
      /\ waiting_task_ids' = waiting_task_ids \ {id} /\ asleep' = asleep
  BY DEF RemoveWaitingId
<1>2. queue_results \in Seq(ResultType(TaskId))
  BY DEF ResponseTypes
<1>3. /\ queue_results' \in Seq(ResultType(TaskId))
      /\ ToSet(queue_results') = {queue_results[j] : j \in DOMAIN queue_results \ K}
  <2> HIDE DEF K
  <2> QED BY <1>1, <1>2, SetOfRemoveIf
<1> QED BY <1>1, <1>3 DEF ResponseTypes, ToSet

\* The tasks of a request and their cancellations are posted as sequences.
LEMMA PostedTasks ==
    ASSUME NEW r \in Request
    PROVE  /\ [i \in DOMAIN Ids[r] |-> RequestTask(Ids[r][i])] \in Seq(Task)
           /\ [i \in DOMAIN Ids[r] |-> CancelTask(Ids[r][i])] \in Seq(Task)
           /\ ToSet([i \in DOMAIN Ids[r] |-> RequestTask(Ids[r][i])]) = {RequestTask(id) : id \in IdSet(r)}
           /\ ToSet([i \in DOMAIN Ids[r] |-> CancelTask(Ids[r][i])]) = {CancelTask(id) : id \in IdSet(r)}
<1>1. /\ Ids[r] \in Seq(IdSet(r)) /\ Len(Ids[r]) \in Nat /\ DOMAIN Ids[r] = 1 .. Len(Ids[r])
      /\ \A i \in DOMAIN Ids[r] : Ids[r][i] \in IdSet(r)
  <2>1. Ids[r] \in Seq(IdSet(r))
    BY RequestIds
  <2> QED BY <2>1
<1>2. \A i \in DOMAIN Ids[r] : RequestTask(Ids[r][i]) \in Task /\ CancelTask(Ids[r][i]) \in Task
  BY <1>1, OwnerOf, RequestTasks
<1> DEFINE f == [i \in DOMAIN Ids[r] |-> RequestTask(Ids[r][i])]
           g == [i \in DOMAIN Ids[r] |-> CancelTask(Ids[r][i])]
<1>3. f \in [1 .. Len(Ids[r]) -> Task] /\ g \in [1 .. Len(Ids[r]) -> Task]
  BY <1>1, <1>2
<1>4. f \in Seq(Task) /\ g \in Seq(Task)
  <2> HIDE DEF f, g
  <2> QED BY <1>1, <1>3
<1>5. ToSet(f) = {RequestTask(id) : id \in IdSet(r)} /\ ToSet(g) = {CancelTask(id) : id \in IdSet(r)}
  BY DEF ToSet, IdSet
<1> QED BY <1>4, <1>5

\* What a thread posts leaves the main thread where it is, or wakes it.
LEMMA QueueKeepsPhases ==
    ASSUME TypeInv, loop' = loop \/ (loop = "waiting" /\ loop' = "notified"), UNCHANGED mainVars
    PROVE  SlotTypes' /\ MainTypes' /\ Phases' /\ Batches'
BY DEF TypeInv, mainVars, SlotTypes, MainTypes, Phases, Batches

\* The part of an HTTP thread that is its own.
LEMMA HttpKeepsTypes ==
    ASSUME TypeInv, NEW r \in Request,
           NEW to \in {"start", "post", "provide", "receive", "cancel", "finish", "done"},
           NEW ids \in SUBSET IdSet(r),
           pc' = [pc EXCEPT ![r] = to], left' = [left EXCEPT ![r] = ids],
           UNCHANGED closed, cancelled' \subseteq TaskId
    PROVE  HttpTypes'
<1>1. ids \subseteq TaskId
  BY OwnerOf
<1> QED BY <1>1 DEF TypeInv, HttpTypes

LEMMA HttpTypesStep ==
    ASSUME TypeInv, NEW r \in Request, HttpThread(r) \/ ClientCloses(r)
    PROVE  TypeInv'
<1> USE DEF TypeInv
<1> DEFINE PcState == {"start", "post", "provide", "receive", "cancel", "finish", "done"}
<1>1. /\ pc[r] \in PcState /\ left[r] \subseteq IdSet(r) /\ IdSet(r) \subseteq TaskId
      /\ cancelled \subseteq TaskId
      /\ pc = [pc EXCEPT ![r] = pc[r]] /\ left = [left EXCEPT ![r] = left[r]]
  BY OwnerOf DEF HttpTypes
<1>2. ASSUME UNCHANGED <<queueVars, mainVars>>
      PROVE  QueueTypes' /\ SlotTypes' /\ MainTypes' /\ Phases' /\ Batches'
  BY <1>2, QueueKeepsPhases DEF queueVars, QueueTypes
<1>3. ASSUME NEW ts \in Seq(Task), NEW front \in BOOLEAN, Post(ts, front), UNCHANGED mainVars
      PROVE  QueueTypes' /\ SlotTypes' /\ MainTypes' /\ Phases' /\ Batches'
  BY <1>3, PostSets, QueueKeepsPhases
<1>4. ASSUME UNCHANGED responseVars
      PROVE  ResponseTypes'
  BY <1>4 DEF responseVars, ResponseTypes
<1>5. CASE Begin(r)
  <2>1. ResponseTypes'
    BY <1>1, <1>5 DEF Begin, AddWaiting, ResponseTypes
  <2>2. HttpTypes'
    BY <1>1, <1>5, HttpKeepsTypes DEF Begin, Goto
  <2> QED BY <1>2, <1>5, <2>1, <2>2 DEF Begin
<1>6. CASE PostTasks(r)
  <2>1. HttpTypes'
    BY <1>1, <1>6, HttpKeepsTypes DEF PostTasks, Goto
  <2> QED BY <1>3, <1>4, <1>6, <2>1, PostedTasks DEF PostTasks
<1>7. CASE ClientCloses(r)
  <2>1. HttpTypes'
    BY <1>7 DEF ClientCloses, HttpTypes
  <2> QED BY <1>2, <1>4, <1>7, <2>1 DEF ClientCloses
<1>8. CASE Provide(r)
  <2>1. HttpTypes'
    BY <1>1, <1>8, HttpKeepsTypes DEF Provide, Goto
  <2> QED BY <1>2, <1>4, <1>8, <2>1 DEF Provide
<1>9. CASE ReceivePolling(r)
  <2>1. ResponseTypes'
    BY <1>9, TakeTypes DEF ReceivePolling
  <2>2. \E to \in PcState, ids \in SUBSET IdSet(r) :
          pc' = [pc EXCEPT ![r] = to] /\ left' = [left EXCEPT ![r] = ids]
    BY <1>1, <1>9 DEF ReceivePolling, Goto
  <2>3. HttpTypes'
    BY <1>1, <1>9, <2>2, HttpKeepsTypes DEF ReceivePolling
  <2> QED BY <1>2, <1>9, <2>1, <2>3 DEF ReceivePolling
<1>10. CASE ReceiveOnce(r)
  <2>1. ResponseTypes'
    BY <1>10, TakeTypes DEF ReceiveOnce
  <2>2. /\ pc' = [pc EXCEPT ![r] = "finish"] /\ left' = [left EXCEPT ![r] = {}]
        /\ UNCHANGED <<closed, cancelled>>
    BY <1>10 DEF ReceiveOnce, Goto
  <2>3. HttpTypes'
    BY <1>1, <2>2, HttpKeepsTypes, {} \in SUBSET IdSet(r)
  <2> QED BY <1>2, <1>10, <2>1, <2>3 DEF ReceiveOnce
<1>11. CASE FallAsleep(r)
  <2>1. ResponseTypes'
    BY <1>11 DEF FallAsleep, TimedRecvSleeps, RecvSleeps, ResponseTypes
  <2>2. HttpTypes'
    BY <1>11 DEF FallAsleep, httpVars, HttpTypes
  <2> QED BY <1>2, <1>11, <2>1, <2>2 DEF FallAsleep
<1>12. CASE PollExpires(r)
  <2>1. ResponseTypes'
    BY <1>12 DEF PollExpires, TimedRecvExpires, ResponseTypes
  <2>2. \E to \in PcState, ids \in SUBSET IdSet(r) :
          pc' = [pc EXCEPT ![r] = to] /\ left' = [left EXCEPT ![r] = ids]
    BY <1>1, <1>12 DEF PollExpires, Goto
  <2>3. HttpTypes'
    BY <1>1, <1>12, <2>2, HttpKeepsTypes DEF PollExpires
  <2> QED BY <1>2, <1>12, <2>1, <2>3 DEF PollExpires
<1>13. CASE CancelForgets(r)
  <2>1. PICK id \in left[r] : RemoveWaitingId(id) /\ left' = [left EXCEPT ![r] = left[r] \ {id}]
    BY <1>13 DEF CancelForgets
  <2>2. ResponseTypes'
    BY <1>1, <2>1, ForgetTypes
  <2>3. left[r] \ {id} \in SUBSET IdSet(r) /\ pc' = pc /\ UNCHANGED <<closed, cancelled>>
    BY <1>1, <1>13 DEF CancelForgets
  <2>4. HttpTypes'
    BY <1>1, <2>1, <2>3, HttpKeepsTypes
  <2> QED BY <1>2, <1>13, <2>2, <2>4 DEF CancelForgets
<1>14. CASE CancelPosts(r)
  <2>1. HttpTypes'
    BY <1>1, <1>14, HttpKeepsTypes DEF CancelPosts, Goto
  <2> QED BY <1>3, <1>4, <1>14, <2>1, PostedTasks DEF CancelPosts
<1>15. CASE Finish(r)
  <2>1. ResponseTypes'
    <3>1. CASE Polls(r)
      BY <1>15, <3>1 DEF Finish, RemoveWaitingIds, ResponseTypes
    <3>2. CASE ~Polls(r)
      <4>1. Ids[r][1] \in TaskId
        <5>1. Ids[r] \in Seq(IdSet(r)) /\ Ids[r] # <<>>
          BY RequestIds
        <5>2. Ids[r][1] \in IdSet(r)
          BY <5>1
        <5> QED BY <1>1, <5>2
      <4> QED BY <1>15, <3>2, <4>1, ForgetTypes DEF Finish
    <3> QED BY <3>1, <3>2
  <2>2. HttpTypes'
    BY <1>1, <1>15, HttpKeepsTypes DEF Finish, Goto
  <2> QED BY <1>2, <1>15, <2>1, <2>2 DEF Finish
<1> QED
  BY <1>5, <1>6, <1>7, <1>8, <1>9, <1>10, <1>11, <1>12, <1>13, <1>14, <1>15 DEF HttpThread

\* What a callback does to a slot: it is idle, and the oldest deferred task is
\* queued again, if it was not.
SameOthers(s) == \A t \in Slots \ {s} : slots'[t] = slots[t]

LEMMA ReleaseSets ==
    ASSUME QueueTypes, SlotTypes, NEW s \in Slots, ReleaseSlot(s), loop # "waiting"
    PROVE  /\ QueueTypes' /\ SlotTypes' /\ UNCHANGED <<queue_running, current, loop>>
           /\ slots'[s].state = "IDLE" /\ SameOthers(s)
           /\ slots'[s].id_task = slots[s].id_task
           /\ ToSet(queue_tasks) \subseteq ToSet(queue_tasks')
           /\ ToSet(queue_tasks') \cup ToSet(queue_tasks_deferred')
                = ToSet(queue_tasks) \cup ToSet(queue_tasks_deferred)
<1>1. CASE Processing(s)
  <2>1. slots' = [slots EXCEPT ![s].state = "IDLE"] /\ PopDeferred
    BY <1>1 DEF ReleaseSlot, SetSlot
  <2>2. /\ SlotTypes' /\ slots'[s].state = "IDLE" /\ SameOthers(s)
        /\ slots'[s].id_task = slots[s].id_task
    BY <2>1 DEF SlotTypes, SlotState, SameOthers
  <2> QED BY <2>1, <2>2, PopDeferredSets
<1>2. CASE ~Processing(s)
  BY <1>2 DEF ReleaseSlot, Processing, SlotTypes, SameOthers, QueueTypes, queueVars
<1> QED BY <1>1, <1>2

\* An answer has the type of an answer.
LEMMA AnswerTypes ==
    ASSUME NEW id \in TaskId \cup {NoId}
    PROVE  /\ Final(id) \in ResultType(TaskId \cup {NoId}) /\ Final(id).id = id /\ Final(id).stop
           /\ Error(id) \in ResultType(TaskId \cup {NoId}) /\ Error(id).id = id /\ Error(id).stop
           /\ Partial(id) \in ResultType(TaskId \cup {NoId})
BY DEF Final, Error, Partial, Result, ResultType

LEMMA OneAnswerInOutbox ==
    ASSUME NEW id \in TaskId \cup {NoId}, NEW o \in {<<Final(id)>>, <<Error(id)>>}
    PROVE  /\ o \in Seq(ResultType(TaskId \cup {NoId}))
           /\ \E res \in ToSet(o) : res.id = id /\ res.stop
<1> DEFINE R == ResultType(TaskId \cup {NoId})
<1>1. PICK x \in R : o = <<x>> /\ x.id = id /\ x.stop
  BY AnswerTypes
<1> HIDE DEF R
<1>2. <<x>> \in Seq(R) /\ DOMAIN <<x>> = {1} /\ <<x>>[1] = x
  OBVIOUS
<1>3. x \in ToSet(o)
  BY <1>1, <1>2 DEF ToSet
<1> QED BY <1>1, <1>2, <1>3 DEF R

LEMMA LoopTypesStep ==
    ASSUME TypeInv, MainLoop
    PROVE  TypeInv'
<1> USE DEF TypeInv
<1>1. ResponseTypes' /\ SlotTypes' /\ MainTypes' /\ HttpTypes' /\ Batches'
  BY DEF MainLoop, responseVars, mainVars, httpVars, ResponseTypes, SlotTypes, MainTypes,
         HttpTypes, Batches
<1>2. QueueTypes'
  <2>1. CASE PopTask
    BY <2>1, PopTaskSets
  <2>2. CASE ~PopTask
    BY <2>2 DEF MainLoop, LoopStep, StartLoop, Drained, Recheck, WakeUp, LoopExits, QueueTypes,
           LoopState
  <2> QED BY <2>1, <2>2
<1>3. Phases'
  BY DEF MainLoop, LoopStep, StartLoop, PopTask, Drained, Recheck, WakeUp, LoopExits, mainVars, Phases
<1> QED BY <1>1, <1>2, <1>3

LEMMA TaskTypesStep ==
    ASSUME TypeInv, ProcessSingleTask
    PROVE  TypeInv'
<1> USE DEF TypeInv
<1>1. /\ loop = "new_task" /\ phase = "begin" /\ phase' = "end" /\ current \in Task
      /\ outbox = <<>> /\ current.type \in AnyKind \cup {"CANCEL", "NEXT_RESPONSE"}
      /\ UNCHANGED <<responseVars, visit, unsampled, failures, httpVars>>
  BY DEF ProcessSingleTask, DeferTask, LaunchTask, CancelSlot, AnswerTask, IgnoreTask,
         CallbackGets, QueueTypes, Inference, AnyKind
<1>2. ResponseTypes' /\ HttpTypes'
  BY <1>1 DEF responseVars, httpVars, ResponseTypes, HttpTypes
<1>3. ASSUME outbox' \in Seq(ResultType(TaskId \cup {NoId}))
      PROVE  MainTypes'
  BY <1>1, <1>3 DEF MainTypes
<1>4. ASSUME QueueTypes', UNCHANGED loop
      PROVE  Phases'
  BY <1>1, <1>4 DEF Phases
<1>5. ASSUME NEW s \in Slots, SameOthers(s), slots'[s].state \notin Sampled
      PROVE  Batches'
  BY <1>1, <1>5 DEF Batches, SameOthers
<1>6. ASSUME UNCHANGED slots
      PROVE  SlotTypes' /\ Batches'
  BY <1>1, <1>6 DEF Batches, SlotTypes
<1>7. CASE DeferTask
  <2>1. QueueTypes' /\ UNCHANGED <<loop, slots, outbox>>
    BY <1>1, <1>7, DeferSets DEF DeferTask
  <2> QED BY <1>2, <1>3, <1>4, <1>6, <2>1 DEF MainTypes
<1>8. CASE LaunchTask
  <2>1. current.type \in AnyKind
    BY <1>8 DEF LaunchTask, CallbackGets, Inference, AnyKind
  <2>2. current.id \in TaskId
    BY <1>1, <2>1, TaskKinds
  <2>3. PICK s \in Idle(Candidates(current)) :
          /\ slots' = [slots EXCEPT ![s] =
                [@ EXCEPT !.id_task = current.id,
                          !.state   = IF Owner(current.id) \in BadGrammar THEN "IDLE" ELSE "STARTED"]]
          /\ outbox' = IF Owner(current.id) \in BadGrammar THEN <<Error(current.id)>> ELSE <<>>
    BY <1>8 DEF LaunchTask
  <2>4. s \in Slots
    BY DEF Idle, Candidates
  <2>5. /\ SlotTypes' /\ SameOthers(s)
        /\ slots'[s].state \in {"IDLE", "STARTED"}
    BY <2>2, <2>3, <2>4 DEF SlotTypes, SlotState, SameOthers
  <2>6. outbox' \in Seq(ResultType(TaskId \cup {NoId}))
    <3>1. <<>> \in Seq(ResultType(TaskId \cup {NoId}))
      OBVIOUS
    <3> QED BY <2>2, <2>3, <3>1, OneAnswerInOutbox
  <2>7. QueueTypes' /\ UNCHANGED loop
    BY <1>8 DEF LaunchTask, queueVars, QueueTypes
  <2>8. Batches'
    BY <1>5, <2>4, <2>5 DEF Sampled
  <2> QED BY <1>2, <1>3, <1>4, <2>5, <2>6, <2>7, <2>8
<1>9. CASE CancelSlot
  <2> DEFINE same == {s \in Slots : slots[s].id_task = current.id_target}
  <2>1. UNCHANGED outbox
    BY <1>9 DEF CancelSlot
  <2>2. CASE same = {}
    <3>1. UNCHANGED <<slots, queueVars>>
      BY <1>9, <2>2 DEF CancelSlot
    <3>2. QueueTypes' /\ UNCHANGED loop
      BY <3>1 DEF queueVars, QueueTypes
    <3> QED BY <1>2, <1>3, <1>4, <1>6, <2>1, <3>1, <3>2 DEF MainTypes
  <2>3. CASE same # {}
    <3>1. ReleaseSlot(Min(same))
      BY <1>9, <2>3 DEF CancelSlot
    <3>2. Min(same) \in Slots
      BY <2>3, VisitedSlot
    <3>3. QueueTypes' /\ SlotTypes' /\ UNCHANGED loop
          /\ slots'[Min(same)].state = "IDLE" /\ SameOthers(Min(same))
      BY <1>1, <3>1, <3>2, ReleaseSets
    <3>4. Batches'
      BY <1>5, <3>2, <3>3 DEF Sampled
    <3> QED BY <1>2, <1>3, <1>4, <2>1, <3>3, <3>4 DEF MainTypes
  <2> QED BY <2>2, <2>3
<1>10. CASE AnswerTask
  <2>1. current.type \in AnyKind
    BY <1>10 DEF AnswerTask, CallbackGets, AnyKind
  <2>2. current.id \in TaskId
    BY <1>1, <2>1, TaskKinds
  <2>3. outbox' \in {<<Final(current.id)>>, <<Error(current.id)>>}
    BY <1>10 DEF AnswerTask
  <2>4. outbox' \in Seq(ResultType(TaskId \cup {NoId}))
    BY <2>2, <2>3, OneAnswerInOutbox
  <2>5. QueueTypes' /\ UNCHANGED <<loop, slots>>
    BY <1>10 DEF AnswerTask, queueVars, QueueTypes
  <2> QED BY <1>2, <1>3, <1>4, <1>6, <2>4, <2>5
<1>11. CASE IgnoreTask
  <2>1. QueueTypes' /\ UNCHANGED <<loop, slots, outbox>>
    BY <1>11 DEF IgnoreTask, queueVars, QueueTypes
  <2> QED BY <1>2, <1>3, <1>4, <1>6, <2>1 DEF MainTypes
<1> QED BY <1>7, <1>8, <1>9, <1>10, <1>11 DEF ProcessSingleTask

LEMMA SendTypesStep ==
    ASSUME TypeInv, SendOutbox
    PROVE  TypeInv'
<1> USE DEF TypeInv
<1>1. /\ Head(outbox) \in ResultType(TaskId \cup {NoId})
      /\ Tail(outbox) \in Seq(ResultType(TaskId \cup {NoId}))
  <2>1. outbox \in Seq(ResultType(TaskId \cup {NoId})) /\ outbox # <<>>
    BY DEF MainTypes, SendOutbox
  <2> QED BY <2>1, SetOfTail
<1>2. ResponseTypes'
  BY <1>1, SendTypes DEF SendOutbox
<1>3. /\ outbox' = Tail(outbox)
      /\ UNCHANGED <<queueVars, slots, phase, visit, unsampled, failures, httpVars>>
  BY DEF SendOutbox
<1>4. QueueTypes' /\ SlotTypes' /\ Phases' /\ Batches'
  BY <1>3 DEF queueVars, QueueTypes, SlotTypes, Phases, Batches
<1>5. MainTypes' /\ HttpTypes'
  BY <1>1, <1>3 DEF httpVars, MainTypes, HttpTypes
<1> QED BY <1>2, <1>4, <1>5

LEMMA ReturnTypesStep ==
    ASSUME TypeInv, CallbackReturns
    PROVE  TypeInv'
<1> USE DEF TypeInv
<1>1. /\ phase = "end" /\ phase' = "begin" /\ loop' \in {"drain", "recheck"}
      /\ current' \in {current, NoTask} /\ loop \in {"new_task", "update_slots"}
      /\ UNCHANGED <<queue_tasks, queue_tasks_deferred, queue_running>>
      /\ UNCHANGED <<responseVars, slots, visit, unsampled, outbox, failures, httpVars>>
  BY DEF CallbackReturns, NewTaskReturns, UpdateSlotsReturns
<1>2. QueueTypes' /\ SlotTypes' /\ Phases' /\ Batches'
  BY <1>1 DEF QueueTypes, LoopState, SlotTypes, Phases, Batches
<1>3. ResponseTypes' /\ MainTypes' /\ HttpTypes'
  BY <1>1 DEF responseVars, ResponseTypes, MainTypes, httpVars, HttpTypes
<1> QED BY <1>2, <1>3

\* The steps of update_slots() that touch no slot.
LEMMA PassTypesStep ==
    ASSUME TypeInv,
           \/ UpdateAllIdle \/ UpdatePostsNext \/ BatchFilled \/ DecodeSucceeds \/ DecodeFails
           \/ ViewSampled
    PROVE  TypeInv'
<1> USE DEF TypeInv
<1>1. /\ UNCHANGED <<responseVars, slots, outbox, httpVars>>
      /\ loop = "update_slots"
  BY DEF UpdateAllIdle, UpdatePostsNext, BatchFilled, DecodeSucceeds, DecodeFails, ViewSampled,
         InUpdate
<1>2. ResponseTypes' /\ SlotTypes' /\ HttpTypes'
  BY <1>1 DEF responseVars, ResponseTypes, SlotTypes, httpVars, HttpTypes
<1>3. QueueTypes' /\ loop' = loop
  <2>1. CASE UpdatePostsNext
    <3>1. <<NextResponse>> \in Seq(Task)
      BY NextIsTask
    <3> QED BY <1>1, <2>1, <3>1, PostSets DEF UpdatePostsNext
  <2>2. CASE UNCHANGED queueVars
    BY <2>2 DEF queueVars, QueueTypes
  <2> QED
    BY <2>1, <2>2 DEF UpdateAllIdle, BatchFilled, DecodeSucceeds, DecodeFails, ViewSampled
<1>4. MainTypes'
  <2>1. CASE UpdateAllIdle \/ ViewSampled
    BY <1>1, <2>1 DEF UpdateAllIdle, ViewSampled, MainTypes
  <2>2. CASE UpdatePostsNext \/ BatchFilled
    BY <1>1, <2>2 DEF UpdatePostsNext, BatchFilled, InState, Batched, MainTypes
  <2>3. CASE DecodeSucceeds
    BY <1>1, <2>3 DEF DecodeSucceeds, MainTypes
  <2>4. CASE DecodeFails
    <3>1. failures \in Nat /\ failures + 1 \in 0 .. MaxFailures
      BY <2>4, ServerAssumption DEF DecodeFails, MainTypes
    <3> QED BY <1>1, <2>4, <3>1 DEF DecodeFails, MainTypes
  <2> QED BY <2>1, <2>2, <2>3, <2>4
<1>5. Phases'
  BY <1>1, <1>3 DEF UpdateAllIdle, UpdatePostsNext, BatchFilled, DecodeSucceeds, DecodeFails, ViewSampled,
         InUpdate, Phases
<1>6. Batches'
  <2>1. CASE UpdateAllIdle
    BY <1>1, <2>1 DEF UpdateAllIdle, InUpdate, Batches
  <2>2. CASE UpdatePostsNext
    BY <1>1, <2>2 DEF UpdatePostsNext, InUpdate, Batches, InState, Batched
  <2>3. CASE BatchFilled
    BY <1>1, <2>3 DEF BatchFilled, InUpdate, Batches, InState, Batched, Sampled
  <2>4. CASE DecodeSucceeds
    BY <1>1, <2>4 DEF DecodeSucceeds, InUpdate, Batches, Phases
  <2>5. CASE DecodeFails
    BY <1>1, <2>5 DEF DecodeFails, InUpdate, Batches
  <2>6. CASE ViewSampled
    BY <1>1, <2>6 DEF ViewSampled, InUpdate, Batches
  <2> QED BY <2>1, <2>2, <2>3, <2>4, <2>5, <2>6
<1> QED BY <1>2, <1>3, <1>4, <1>5, <1>6

\* The steps that look at one slot.
LEMMA SlotTypesStep ==
    ASSUME TypeInv,
           \/ PromptFits \/ PromptRejected \/ FailSlot
           \/ SampleToken \/ StopSlot \/ SendEmbedding \/ ReleaseEmbedding
    PROVE  TypeInv'
<1> USE DEF TypeInv
<1> DEFINE s == Min(visit)
<1>1. /\ UNCHANGED <<failures, httpVars>> /\ loop = "update_slots"
      /\ visit # {} => s \in visit /\ s \in Slots /\ slots[s].id_task \in TaskId \cup {NoId}
  BY VisitedSlot DEF PromptFits, PromptRejected, FailSlot, SampleToken, StopSlot,
         SendEmbedding, ReleaseEmbedding, InUpdate, MainTypes, SlotTypes
<1> HIDE DEF s
<1>2. HttpTypes'
  BY <1>1 DEF httpVars, HttpTypes
<1>3. ASSUME UNCHANGED queueVars
      PROVE  QueueTypes' /\ loop' = loop
  BY <1>3 DEF queueVars, QueueTypes
<1>4. ASSUME UNCHANGED responseVars
      PROVE  ResponseTypes'
  BY <1>4 DEF responseVars, ResponseTypes
<1>5. ASSUME NEW id \in TaskId \cup {NoId}, outbox' \in {<<Final(id)>>, <<Error(id)>>}
      PROVE  outbox' \in Seq(ResultType(TaskId \cup {NoId}))
  BY <1>5, OneAnswerInOutbox
<1>6. CASE PromptFits
  <2>1. /\ visit # {} /\ phase = "prompt"
        /\ \/ slots' = [slots EXCEPT ![s].state = "DONE_PROMPT", ![s].n = 0]
           \/ slots' = [slots EXCEPT ![s].state = "PROCESSING_PROMPT"]
        /\ visit' \in {visit \ {s}, {}}
        /\ UNCHANGED <<queueVars, responseVars, phase, unsampled, outbox>>
    BY <1>6 DEF PromptFits, InUpdate, SetSlot, s
  <2>2. /\ SlotTypes' /\ SameOthers(s)
        /\ slots'[s].state \in Sampled => slots'[s].n < MaxTokens
    BY <1>1, <2>1, ServerAssumption DEF SlotTypes, SlotState, SameOthers, Sampled
  <2>3. MainTypes' /\ Phases'
    BY <1>1, <1>3, <2>1 DEF MainTypes, Phases
  <2>4. Batches'
    BY <1>1, <2>1, <2>2 DEF Batches, SameOthers, MainTypes
  <2> QED BY <1>2, <1>3, <1>4, <2>1, <2>2, <2>3, <2>4
<1>7. CASE PromptRejected
  <2>1. /\ visit # {} /\ phase = "prompt" /\ ReleaseSlot(s)
        /\ outbox' \in {<<Final(slots[s].id_task)>>, <<Error(slots[s].id_task)>>}
        /\ visit' = visit \ {s}
        /\ UNCHANGED <<responseVars, phase, unsampled>>
    BY <1>7 DEF PromptRejected, InUpdate, s
  <2>2. /\ QueueTypes' /\ SlotTypes' /\ loop' = loop
        /\ slots'[s].state = "IDLE" /\ SameOthers(s)
    BY <1>1, <2>1, ReleaseSets
  <2>3. MainTypes' /\ Phases'
    BY <1>1, <1>5, <2>1, <2>2 DEF MainTypes, Phases
  <2>4. Batches'
    BY <1>1, <2>1, <2>2 DEF Batches, SameOthers, MainTypes, Sampled
  <2> QED BY <1>2, <1>4, <2>1, <2>2, <2>3, <2>4
<1>8. CASE FailSlot /\ visit = {}
  <2>1. /\ phase' = "end" /\ phase = "fail"
        /\ UNCHANGED <<queueVars, slots, visit, outbox, responseVars, unsampled>>
    BY <1>8 DEF FailSlot, InUpdate
  <2>2. SlotTypes' /\ MainTypes' /\ Phases' /\ Batches'
    BY <1>1, <1>3, <1>8, <2>1 DEF SlotTypes, MainTypes, Phases, Batches
  <2> QED BY <1>2, <1>3, <1>4, <2>1, <2>2
<1>9. CASE FailSlot /\ visit # {}
  <2>1. /\ phase = "fail" /\ ReleaseSlot(s)
        /\ outbox' = <<Error(slots[s].id_task)>>
        /\ visit' = visit \ {s}
        /\ UNCHANGED <<responseVars, phase, unsampled>>
    BY <1>9 DEF FailSlot, InUpdate, s
  <2>2. /\ QueueTypes' /\ SlotTypes' /\ loop' = loop
        /\ slots'[s].state = "IDLE" /\ SameOthers(s)
    BY <1>1, <1>9, <2>1, ReleaseSets
  <2>3. MainTypes' /\ Phases'
    BY <1>1, <1>5, <1>9, <2>1, <2>2 DEF MainTypes, Phases
  <2>4. Batches'
    BY <1>1, <1>9, <2>1, <2>2 DEF Batches, SameOthers, MainTypes, Sampled
  <2> QED BY <1>2, <1>4, <2>1, <2>2, <2>3, <2>4
<1>10. CASE SampleToken
  <2>1. /\ visit # {} /\ phase = "sample"
        /\ slots' = [slots EXCEPT ![s].state = "GENERATING", ![s].n = slots[s].n + 1]
        /\ \/ UNCHANGED responseVars
           \/ Send(Partial(slots[s].id_task))
        /\ \/ slots[s].n + 1 < MaxTokens /\ visit' = visit \ {s} /\ UNCHANGED phase
           \/ phase' = "stop" /\ UNCHANGED visit
        /\ UNCHANGED <<queueVars, unsampled, outbox>>
    BY <1>10 DEF SampleToken, InUpdate, s
  <2>2. slots[s].n < MaxTokens /\ slots[s].n \in 0 .. MaxTokens
    BY <1>1, <2>1 DEF Batches, SlotTypes
  <2>3. /\ SlotTypes' /\ SameOthers(s)
        /\ slots'[s].n = slots[s].n + 1 /\ slots'[s].state = "GENERATING"
    BY <1>1, <2>1, <2>2, ServerAssumption DEF SlotTypes, SlotState, SameOthers
  <2>4. ResponseTypes'
    BY <1>1, <1>4, <2>1, AnswerTypes, SendTypes
  <2>5. MainTypes' /\ Phases'
    BY <1>1, <1>3, <2>1 DEF MainTypes, Phases
  <2>6. Batches'
    <3>1. visit' \subseteq visit
      BY <2>1
    <3>2. \A t \in visit \cup unsampled : slots'[t].state \in Sampled
      BY <1>1, <2>1, <2>3 DEF Batches, SameOthers, MainTypes, Sampled
    <3>3. ASSUME NEW t \in Slots, slots'[t].state \in Sampled,
                 ~(phase' = "stop" /\ t = Min(visit'))
          PROVE  slots'[t].n < MaxTokens
      <4>1. CASE t = s
        <5>1. slots[s].n + 1 < MaxTokens
          BY <2>1, <3>3, <4>1 DEF s
        <5> QED BY <2>3, <4>1, <5>1
      <4>2. CASE t # s
        BY <2>1, <2>3, <3>3, <4>2 DEF SameOthers, Batches
      <4> QED BY <4>1, <4>2
    <3> QED BY <2>1, <3>1, <3>2, <3>3 DEF Batches
  <2> QED BY <1>2, <1>3, <2>1, <2>3, <2>4, <2>5, <2>6
<1>11. CASE StopSlot \/ ReleaseEmbedding
  <2>1. /\ visit # {} /\ phase \in {"stop", "embedded"} /\ phase' = "sample" /\ ReleaseSlot(s)
        /\ outbox' \in {outbox, <<Final(slots[s].id_task)>>}
        /\ visit' = visit \ {s}
        /\ UNCHANGED <<responseVars, unsampled>>
    BY <1>11 DEF StopSlot, ReleaseEmbedding, InUpdate, Phases, s
  <2>2. /\ QueueTypes' /\ SlotTypes' /\ loop' = loop
        /\ slots'[s].state = "IDLE" /\ SameOthers(s)
    BY <1>1, <2>1, ReleaseSets
  <2>3. outbox' \in Seq(ResultType(TaskId \cup {NoId}))
    BY <1>1, <1>5, <2>1 DEF MainTypes
  <2>4. MainTypes' /\ Phases'
    BY <1>1, <2>1, <2>2, <2>3 DEF MainTypes, Phases
  <2>5. Batches'
    BY <1>1, <2>1, <2>2 DEF Batches, SameOthers, MainTypes, Sampled, s
  <2> QED BY <1>2, <1>4, <2>1, <2>2, <2>4, <2>5
<1>12. CASE SendEmbedding
  <2>1. /\ visit # {} /\ phase = "sample" /\ phase' = "embedded"
        /\ Send(Final(slots[s].id_task))
        /\ UNCHANGED <<queueVars, slots, visit, unsampled, outbox>>
    BY <1>12 DEF SendEmbedding, InUpdate, s
  <2>2. ResponseTypes'
    BY <1>1, <2>1, AnswerTypes, SendTypes
  <2>3. SlotTypes' /\ MainTypes' /\ Phases' /\ Batches'
    BY <1>1, <1>3, <2>1 DEF SlotTypes, MainTypes, Phases, Batches
  <2> QED BY <1>2, <1>3, <2>1, <2>2, <2>3
<1> QED BY <1>6, <1>7, <1>8, <1>9, <1>10, <1>11, <1>12

LEMMA TypesNext == TypeInv /\ [Next]_vars => TypeInv'
<1> SUFFICES ASSUME TypeInv, [Next]_vars
             PROVE  TypeInv'
  OBVIOUS
<1>1. CASE UNCHANGED vars
  BY <1>1 DEF vars, queueVars, responseVars, mainVars, httpVars, TypeInv, QueueTypes,
       ResponseTypes, SlotTypes, MainTypes, HttpTypes, Phases, Batches
<1>2. CASE MainThread
  BY <1>2, LoopTypesStep, TaskTypesStep, SendTypesStep, ReturnTypesStep, PassTypesStep,
     SlotTypesStep DEF MainThread, UpdateSlots
<1> QED BY <1>1, <1>2, HttpTypesStep DEF Next

\* Every variable keeps its type: in particular no slot generates more tokens
\* than its request has asked for, whatever fails meanwhile.
THEOREM ServerTypes == Spec => []TypeOK
BY TypesInit, TypesNext, TypeInvImplies, PTL DEF Spec

-----------------------------------------------------------------------------
(***************************************************************************)
(* The main thread sleeps only when there is nothing to do.  What makes it *)
(* so is the NEXT_RESPONSE task that update_slots() posts before it works  *)
(* on a busy slot: no cancellation removes it, so the queue is not empty   *)
(* when start_loop() looks at it again.                                    *)
(***************************************************************************)

AllIdle == \A s \in Slots : slots[s].state = "IDLE"
NextQueued == NextResponse \in ToSet(queue_tasks)

Awake ==
    /\ loop \in {"waiting", "notified"} => AllIdle
    /\ loop = "update_slots" /\ phase \notin {"begin", "end"} => NextQueued
    /\ loop = "recheck" \/ (loop = "update_slots" /\ phase = "end") => NextQueued \/ AllIdle

LEMMA AwakeImplies == Awake => BusyServerIsAwake
BY DEF Awake, AllIdle, BusyServerIsAwake, Idle, Processing

LEMMA AllIdleIs == Idle(Slots) = Slots <=> AllIdle
BY DEF Idle, Processing, AllIdle

LEMMA PostKeepsNext ==
    ASSUME QueueTypes, NEW ts \in Seq(Task), NEW front \in BOOLEAN, Post(ts, front), NextQueued
    PROVE  NextQueued'
BY PostSets, NextIsTask DEF NextQueued, NextResponse

LEMMA AwakeHttp ==
    ASSUME TypeInv, Awake, NEW r \in Request, HttpThread(r) \/ ClientCloses(r)
    PROVE  Awake'
<1> USE DEF TypeInv
<1>1. UNCHANGED mainVars
  BY DEF HttpThread, ClientCloses, Begin, PostTasks, Provide, ReceivePolling, ReceiveOnce, FallAsleep, PollExpires,
         CancelForgets, CancelPosts, Finish
<1>2. CASE UNCHANGED queueVars
  BY <1>1, <1>2 DEF queueVars, mainVars, Awake, AllIdle, NextQueued
<1>3. ASSUME NEW ts \in Seq(Task), NEW front \in BOOLEAN, Post(ts, front)
      PROVE  Awake'
  <2>1. NextQueued => NextQueued'
    BY <1>3, PostKeepsNext
  <2>2. loop' = IF loop = "waiting" THEN "notified" ELSE loop
    BY <1>3, PostSets
  <2> QED BY <1>1, <2>1, <2>2 DEF mainVars, Awake, AllIdle
<1>4. CASE PostTasks(r) \/ CancelPosts(r)
  BY <1>3, <1>4, PostedTasks DEF PostTasks, CancelPosts
<1> QED
  BY <1>2, <1>4 DEF HttpThread, ClientCloses, Begin, Provide, ReceivePolling, ReceiveOnce, FallAsleep, PollExpires,
     CancelForgets, Finish

LEMMA AwakeMain ==
    ASSUME TypeInv, Awake, MainThread
    PROVE  Awake'
<1> USE DEF TypeInv
<1>1. CASE MainLoop
  <2>1. UNCHANGED <<slots, phase>>
    BY <1>1 DEF MainLoop, mainVars
  <2>2. loop = "drain" => phase = "begin"
    BY DEF Phases
  <2>3. CASE Recheck \/ WakeUp
    <3>1. queue_tasks = <<>> => ~NextQueued
      BY DEF NextQueued, ToSet
    <3>2. AllIdle' <=> AllIdle
      BY <2>1 DEF AllIdle
    <3> QED BY <2>1, <2>3, <3>1, <3>2 DEF Recheck, WakeUp, Awake
  <2>4. CASE StartLoop \/ PopTask \/ Drained \/ LoopExits
    BY <2>1, <2>2, <2>4 DEF StartLoop, PopTask, Drained, LoopExits, Awake
  <2> QED BY <1>1, <2>3, <2>4 DEF MainLoop, LoopStep
<1>2. CASE ProcessSingleTask
  <2>1. loop = "new_task" /\ loop' = "new_task"
    BY <1>2 DEF ProcessSingleTask, DeferTask, LaunchTask, CancelSlot, AnswerTask, IgnoreTask,
       CallbackGets, Defer, ReleaseSlot, PopDeferred, Notify, queueVars
  <2> QED BY <2>1 DEF Awake
<1>3. CASE SendOutbox
  BY <1>3 DEF SendOutbox, queueVars, Awake, AllIdle, NextQueued
<1>4. CASE CallbackReturns
  <2>1. /\ phase = "end" /\ UNCHANGED <<queue_tasks, slots>>
        /\ \/ loop = "new_task" /\ loop' = "drain"
           \/ loop = "update_slots" /\ loop' = "recheck"
    BY <1>4 DEF CallbackReturns, NewTaskReturns, UpdateSlotsReturns
  <2> QED BY <2>1 DEF Awake, AllIdle, NextQueued
<1>5. CASE UpdateSlots
  <2>1. loop = "update_slots"
    BY <1>5 DEF UpdateSlots, UpdateAllIdle, UpdatePostsNext, PromptFits, PromptRejected,
       BatchFilled, DecodeSucceeds, DecodeFails, FailSlot, SampleToken, StopSlot, SendEmbedding,
       ReleaseEmbedding, ViewSampled, InUpdate
  <2>2. CASE UpdateAllIdle
    <3>1. AllIdle /\ phase' = "end" /\ loop' = "update_slots" /\ UNCHANGED slots
      BY <2>1, <2>2, AllIdleIs DEF UpdateAllIdle, queueVars
    <3> QED BY <3>1 DEF Awake, AllIdle
  <2>3. CASE UpdatePostsNext
    <3>1. <<NextResponse>> \in Seq(Task) /\ NextResponse \in ToSet(<<NextResponse>>)
      <4>1. <<NextResponse>> \in Seq(Task) /\ 1 \in DOMAIN <<NextResponse>>
            /\ <<NextResponse>>[1] = NextResponse
        BY NextIsTask
      <4> QED BY <4>1 DEF ToSet
    <3>2. NextQueued' /\ loop' = "update_slots"
      BY <2>1, <2>3, <3>1, PostSets DEF UpdatePostsNext, NextQueued
    <3> QED BY <2>3, <3>2 DEF UpdatePostsNext, Awake
  <2>4. CASE ~UpdateAllIdle /\ ~UpdatePostsNext
    <3>1. phase \notin {"begin", "end"}
      BY <1>5, <2>4 DEF UpdateSlots, PromptFits, PromptRejected,
         BatchFilled, DecodeSucceeds, DecodeFails, FailSlot, SampleToken, StopSlot, SendEmbedding,
         ReleaseEmbedding, ViewSampled, InUpdate
    <3>2. NextQueued
      BY <2>1, <3>1 DEF Awake
    <3>3. CASE UNCHANGED queueVars
      BY <2>1, <3>2, <3>3 DEF queueVars, Awake, NextQueued
    <3>4. ASSUME NEW s \in Slots, ReleaseSlot(s)
          PROVE  Awake'
      <4>1. NextQueued' /\ loop' = "update_slots"
        BY <2>1, <3>2, <3>4, ReleaseSets DEF NextQueued
      <4> QED BY <4>1 DEF Awake
    <3>5. visit # {} => Min(visit) \in Slots
      BY VisitedSlot DEF MainTypes
    <3>6. CASE PromptRejected
      BY <3>4, <3>5, <3>6 DEF PromptRejected
    <3>7. CASE FailSlot
      BY <3>3, <3>4, <3>5, <3>7 DEF FailSlot, queueVars
    <3>8. CASE StopSlot \/ ReleaseEmbedding
      <4>1. visit # {}
        BY <3>8 DEF StopSlot, ReleaseEmbedding, InUpdate, Phases
      <4> QED BY <3>4, <3>5, <3>8, <4>1 DEF StopSlot, ReleaseEmbedding
    <3> QED
      BY <1>5, <2>4, <3>3, <3>6, <3>7, <3>8 DEF UpdateSlots, PromptFits, BatchFilled,
         DecodeSucceeds, DecodeFails, SampleToken, SendEmbedding, ViewSampled
  <2> QED BY <2>2, <2>3, <2>4
<1> QED BY <1>1, <1>2, <1>3, <1>4, <1>5 DEF MainThread

LEMMA AwakeInit == Init => Awake
BY DEF Init, QueueInit, Awake

LEMMA AwakeNext == TypeInv /\ Awake /\ [Next]_vars => Awake'
<1> SUFFICES ASSUME TypeInv, Awake, [Next]_vars
             PROVE  Awake'
  OBVIOUS
<1>1. CASE UNCHANGED vars
  BY <1>1 DEF vars, queueVars, mainVars, Awake, AllIdle, NextQueued
<1> QED BY <1>1, AwakeHttp, AwakeMain DEF Next

\* The main thread sleeps in start_loop(), on an empty queue, only when no slot
\* has anything to do, whatever is posted, cancelled and deferred meanwhile:
\* update_slots() has left its NEXT_RESPONSE task in the queue.
THEOREM ServerIsAwake == Spec => []BusyServerIsAwake
BY AwakeInit, AwakeNext, TypesInit, TypesNext, AwakeImplies, PTL DEF Spec

-----------------------------------------------------------------------------
(***************************************************************************)
(* An HTTP thread sleeps only while there is nothing for it: send() wakes  *)
(* every sleeper, and nobody goes to sleep without having looked.          *)
(***************************************************************************)

Unheard == \A r \in asleep : \A res \in ToSet(queue_results) : res.id \notin IdSet(r)

LEMMA UnheardImplies == Unheard => SleeperHasNoResult
BY DEF Unheard, SleeperHasNoResult, Matching, ToSet

\* Results are taken away, or the sleepers are woken.
LEMMA UnheardKept ==
    ASSUME Unheard,
           \/ asleep' \subseteq asleep /\ ToSet(queue_results') \subseteq ToSet(queue_results)
           \/ asleep' = {}
    PROVE  Unheard'
BY DEF Unheard

LEMMA UnheardHttp ==
    ASSUME TypeInv, Unheard, NEW r \in Request, HttpThread(r) \/ ClientCloses(r)
    PROVE  Unheard'
<1> USE DEF TypeInv
<1>1. CASE UNCHANGED <<queue_results, asleep>>
  BY <1>1 DEF Unheard
<1>2. CASE ReceivePolling(r) \/ ReceiveOnce(r)
  BY <1>2, TakeTypes, UnheardKept DEF ReceivePolling, ReceiveOnce
<1>3. CASE FallAsleep(r)
  <2>1. /\ UNCHANGED queue_results /\ asleep' = asleep \cup {r}
        /\ queue_results = <<>> \/ Matching(IdSet(r)) = {}
    BY <1>3 DEF FallAsleep, TimedRecvSleeps, RecvSleeps
  <2>2. \A res \in ToSet(queue_results) : res.id \notin IdSet(r)
    BY <2>1 DEF Matching, ToSet
  <2> QED BY <2>1, <2>2 DEF Unheard
<1>4. CASE PollExpires(r)
  BY <1>4, UnheardKept DEF PollExpires, TimedRecvExpires
<1>5. ASSUME NEW id \in TaskId, RemoveWaitingId(id)
      PROVE  Unheard'
  <2>1. asleep' = asleep /\ ToSet(queue_results') \subseteq ToSet(queue_results)
    BY <1>5, ForgetTypes
  <2> QED BY <2>1, UnheardKept
<1>6. CASE CancelForgets(r)
  <2>1. left[r] \subseteq TaskId
    BY DEF HttpTypes
  <2> QED BY <1>5, <1>6, <2>1 DEF CancelForgets
<1>7. CASE Finish(r)
  <2>1. Ids[r][1] \in TaskId
    <3>1. Ids[r][1] \in IdSet(r)
      <4>1. Ids[r] \in Seq(IdSet(r)) /\ Ids[r] # <<>>
        BY RequestIds
      <4> QED BY <4>1
    <3> QED BY <3>1, OwnerOf
  <2> QED BY <1>1, <1>5, <1>7, <2>1 DEF Finish, RemoveWaitingIds
<1> QED
  BY <1>1, <1>2, <1>3, <1>4, <1>6, <1>7 DEF HttpThread, ClientCloses, Begin, AddWaiting,
     PostTasks, Provide, CancelPosts, responseVars

LEMMA UnheardMain ==
    ASSUME TypeInv, Unheard, MainThread
    PROVE  Unheard'
<1> USE DEF TypeInv
<1>1. CASE UNCHANGED responseVars
  BY <1>1 DEF responseVars, Unheard
<1>2. ASSUME NEW res \in ResultType(TaskId \cup {NoId}), Send(res)
      PROVE  Unheard'
  <2>1. asleep' = {} \/ UNCHANGED responseVars
    BY <1>2, SendTypes
  <2> QED BY <1>1, <2>1, UnheardKept
<1>3. CASE SendOutbox
  <2>1. outbox \in Seq(ResultType(TaskId \cup {NoId})) /\ outbox # <<>>
    BY <1>3 DEF MainTypes, SendOutbox
  <2>2. Head(outbox) \in ResultType(TaskId \cup {NoId})
    BY <2>1, SetOfTail
  <2> QED BY <1>2, <1>3, <2>2 DEF SendOutbox
<1>4. CASE SampleToken \/ SendEmbedding
  <2> DEFINE s == Min(visit)
  <2>1. s \in Slots
    BY <1>4, VisitedSlot DEF SampleToken, SendEmbedding, MainTypes
  <2>2. slots[s].id_task \in TaskId \cup {NoId}
    BY <2>1 DEF SlotTypes
  <2>3. \/ UNCHANGED responseVars
        \/ Send(Partial(slots[s].id_task)) \/ Send(Final(slots[s].id_task))
    BY <1>4 DEF SampleToken, SendEmbedding
  <2> HIDE DEF s
  <2> QED BY <1>1, <1>2, <2>2, <2>3, AnswerTypes
<1> QED
  BY <1>1, <1>3, <1>4 DEF MainThread, MainLoop, ProcessSingleTask, DeferTask, LaunchTask,
     CancelSlot, AnswerTask, IgnoreTask, CallbackReturns, UpdateSlots, UpdateAllIdle,
     UpdatePostsNext, PromptFits, PromptRejected, BatchFilled, DecodeSucceeds, DecodeFails,
     FailSlot, StopSlot, ReleaseEmbedding, ViewSampled

\* No HTTP thread sleeps in recv() or recv_with_timeout() through a result that
\* is meant for it: send() wakes every sleeper, and the others look before they
\* sleep.
THEOREM NobodySleepsThrough == Spec => []SleeperHasNoResult
<1>1. Init => Unheard
  BY DEF Init, ResponseInit, Unheard
<1>2. TypeInv /\ Unheard /\ [Next]_vars => Unheard'
  <2> SUFFICES ASSUME TypeInv, Unheard, [Next]_vars
               PROVE  Unheard'
    OBVIOUS
  <2>1. CASE UNCHANGED vars
    BY <2>1 DEF vars, responseVars, Unheard
  <2> QED BY <2>1, UnheardHttp, UnheardMain DEF Next
<1> QED
  BY <1>1, <1>2, TypesInit, TypesNext, UnheardImplies, PTL DEF Spec

-----------------------------------------------------------------------------
(***************************************************************************)
(* No task is forgotten.  As long as its request waits for it, a task is   *)
(* queued or deferred, or it is the one the callback has in hand, or a     *)
(* slot works on it, or its answer is on the way.  Three things besides    *)
(* make this inductive: a request that waits is registered, so its answers *)
(* are not dropped; a task is only cancelled when its request has given    *)
(* up; and the slot whose embedding has been sent can be released.         *)
(***************************************************************************)

Queued ==
    ToSet(queue_tasks) \cup ToSet(queue_tasks_deferred) \cup
    (IF loop = "new_task" /\ phase = "begin" THEN {current} ELSE {})

Waits(r, id) == pc[r] \in {"provide", "receive"} /\ id \in left[r]

Answered(id) == \E res \in ToSet(queue_results) : res.id = id /\ res.stop
Answering(id) == \E res \in ToSet(outbox) : res.id = id /\ res.stop

Known(id) == RequestTask(id) \in Queued \/ IsRunning(id) \/ Answered(id) \/ Answering(id)

Registered ==
    \A r \in Request : pc[r] \in {"post", "provide", "receive"} => IdSet(r) \subseteq waiting_task_ids

CancelledLate ==
    \A r \in Request, id \in TaskId :
        id \in IdSet(r) /\ CancelTask(id) \in Queued => pc[r] \in {"finish", "done"}

EmbeddingSent ==
    phase = "embedded" =>
        \A r \in Request : Waits(r, slots[Min(visit)].id_task) =>
            LET id == slots[Min(visit)].id_task
            IN  RequestTask(id) \in Queued \/ Answered(id)

AllKnown == \A r \in Request, id \in TaskId : Waits(r, id) => Known(id)

ForgetInv == Registered /\ CancelledLate /\ EmbeddingSent /\ AllKnown

LEMMA PendingIsQueued ==
    ASSUME QueueTypes, NEW t
    PROVE  t \in ToSet(Pending) <=> t \in Queued
<1> DEFINE u == Undecided
<1>1. u \in Seq(Task) /\ ToSet(u) = IF loop = "new_task" /\ phase = "begin" THEN {current} ELSE {}
  <2>1. CASE loop = "new_task" /\ phase = "begin"
    <3>1. u = <<current>> /\ current \in Task
      BY <2>1 DEF Undecided, QueueTypes
    <3> QED BY <2>1, <3>1 DEF ToSet
  <2>2. CASE ~(loop = "new_task" /\ phase = "begin")
    BY <2>2 DEF Undecided, ToSet
  <2> QED BY <2>1, <2>2
<1> HIDE DEF u
<1>2. queue_tasks \in Seq(Task) /\ queue_tasks_deferred \in Seq(Task)
  BY DEF QueueTypes
<1>3. /\ queue_tasks \o queue_tasks_deferred \in Seq(Task)
      /\ ToSet(queue_tasks \o queue_tasks_deferred) = ToSet(queue_tasks) \cup ToSet(queue_tasks_deferred)
  BY <1>2, SetOfConcat
<1> DEFINE c == queue_tasks \o queue_tasks_deferred
<1> HIDE DEF c
<1>4. ToSet(c \o u) = ToSet(c) \cup ToSet(u)
  <2>1. c \in Seq(Task) /\ u \in Seq(Task)
    BY <1>1, <1>3 DEF c
  <2> QED BY <2>1, SetOfConcat
<1>5. Pending = c \o u
  BY DEF Pending, c, u
<1> QED BY <1>1, <1>3, <1>4, <1>5 DEF Queued, c

LEMMA ForgetImplies == TypeInv /\ ForgetInv => NoTaskForgotten
<1> SUFFICES ASSUME TypeInv, ForgetInv, NEW r \in Request, pc[r] \in {"provide", "receive"},
                    NEW id \in left[r]
             PROVE  IsPending(id) \/ IsRunning(id) \/ IsAnswered(id)
  BY DEF NoTaskForgotten
<1>1. id \in TaskId
  BY DEF TypeInv, HttpTypes
<1>2. Known(id)
  BY <1>1 DEF ForgetInv, AllKnown, Waits
<1>3. RequestTask(id) \in Queued => IsPending(id)
  BY PendingIsQueued DEF TypeInv, IsPending
<1>4. Answered(id) \/ Answering(id) => IsAnswered(id)
  BY DEF Answered, Answering, IsAnswered
<1> QED BY <1>2, <1>3, <1>4 DEF Known

\* What a thread does concerns its own tasks.
LEMMA ForgetHttpFrame ==
    ASSUME TypeInv, TypeInv', ForgetInv, NEW r \in Request,
           UNCHANGED mainVars,
           \A q \in Request \ {r} : pc'[q] = pc[q] /\ left'[q] = left[q],
           \A id \in TaskId : RequestTask(id) \in Queued => RequestTask(id) \in Queued',
           \A id \in TaskId : CancelTask(id) \in Queued' =>
                CancelTask(id) \in Queued \/ (id \in IdSet(r) /\ pc'[r] \in {"finish", "done"}),
           \A res \in ToSet(queue_results) : res.id \notin IdSet(r) => res \in ToSet(queue_results'),
           waiting_task_ids \ IdSet(r) \subseteq waiting_task_ids',
           pc[r] \in {"finish", "done"} => pc'[r] \in {"finish", "done"},
           pc'[r] \in {"post", "provide", "receive"} => IdSet(r) \subseteq waiting_task_ids',
           \A id \in IdSet(r) : Waits(r, id)' =>
                \/ RequestTask(id) \in Queued'
                \/ Waits(r, id) /\ (Answered(id) => Answered(id)')
    PROVE  ForgetInv'
<1> USE DEF TypeInv
<1>1. UNCHANGED <<phase, slots, visit, outbox>>
  BY DEF mainVars
<1>2. ASSUME NEW q \in Request, NEW id \in TaskId, Waits(q, id)'
      PROVE  \/ RequestTask(id) \in Queued'
             \/ /\ Waits(q, id)
                /\ Answered(id) => Answered(id)'
                /\ RequestTask(id) \in Queued => RequestTask(id) \in Queued'
  <2>1. CASE q = r
    <3>1. CASE id \in IdSet(r)
      BY <1>2, <2>1, <3>1
    <3>2. CASE id \notin IdSet(r)
      BY <1>2, <2>1, <3>2 DEF HttpTypes, Waits
    <3> QED BY <3>1, <3>2
  <2>2. CASE q # r
    <3>1. Waits(q, id)
      BY <1>2, <2>2 DEF Waits
    <3>2. id \notin IdSet(r)
      <4>1. id \in IdSet(q)
        BY <3>1 DEF Waits, HttpTypes
      <4> QED BY <2>2, <4>1, IdsAssumption
    <3> QED BY <3>1, <3>2 DEF Answered
  <2> QED BY <2>1, <2>2
<1>3. Registered'
  <2> SUFFICES ASSUME NEW q \in Request, pc'[q] \in {"post", "provide", "receive"}
               PROVE  IdSet(q) \subseteq waiting_task_ids'
    BY DEF Registered
  <2>1. CASE q # r
    <3>1. IdSet(q) \subseteq waiting_task_ids /\ IdSet(q) \cap IdSet(r) = {}
      BY <2>1, IdsAssumption DEF ForgetInv, Registered
    <3> QED BY <3>1
  <2> QED BY <2>1
<1>4. CancelledLate'
  <2> SUFFICES ASSUME NEW q \in Request, NEW id \in TaskId, id \in IdSet(q), CancelTask(id) \in Queued'
               PROVE  pc'[q] \in {"finish", "done"}
    BY DEF CancelledLate
  <2>1. CASE CancelTask(id) \in Queued
    BY <2>1 DEF ForgetInv, CancelledLate
  <2>2. CASE id \in IdSet(r) /\ pc'[r] \in {"finish", "done"}
    BY <2>2, IdsAssumption
  <2> QED BY <2>1, <2>2
<1>5. EmbeddingSent'
  <2>1. PICK e : e = slots[Min(visit)].id_task
    OBVIOUS
  <2>2. slots'[Min(visit')].id_task = e /\ phase' = phase
    BY <1>1, <2>1
  <2> SUFFICES ASSUME phase = "embedded", NEW q \in Request, Waits(q, e)'
               PROVE  RequestTask(e) \in Queued' \/ Answered(e)'
    BY <2>2 DEF EmbeddingSent
  <2>3. e \in TaskId
    BY DEF Waits, HttpTypes
  <2>4. Waits(q, e) => RequestTask(e) \in Queued \/ Answered(e)
    BY <2>1 DEF ForgetInv, EmbeddingSent
  <2> QED BY <1>2, <2>3, <2>4
<1>6. AllKnown'
  <2> SUFFICES ASSUME NEW q \in Request, NEW id \in TaskId, Waits(q, id)'
               PROVE  Known(id)'
    BY DEF AllKnown
  <2>1. IsRunning(id) => IsRunning(id)'
    BY <1>1 DEF IsRunning, Processing
  <2>2. Answering(id) => Answering(id)'
    BY <1>1 DEF Answering
  <2> QED BY <1>2, <2>1, <2>2 DEF ForgetInv, AllKnown, Known
<1> QED BY <1>3, <1>4, <1>5, <1>6 DEF ForgetInv

LEMMA ForgetHttp ==
    ASSUME TypeInv, TypeInv', ForgetInv, NEW r \in Request, HttpThread(r) \/ ClientCloses(r)
    PROVE  ForgetInv'
<1> USE DEF TypeInv
<1>1. /\ UNCHANGED mainVars
      /\ \A q \in Request \ {r} : pc'[q] = pc[q] /\ left'[q] = left[q]
      /\ pc[r] \in {"finish", "done"} => pc'[r] \in {"finish", "done"}
  BY DEF HttpThread, ClientCloses, Begin, PostTasks, Provide, ReceivePolling, ReceiveOnce, FallAsleep, PollExpires,
         CancelForgets, CancelPosts, Finish, Goto, HttpTypes, httpVars
<1>2. ASSUME UNCHANGED queueVars
      PROVE  Queued' = Queued
  BY <1>1, <1>2 DEF queueVars, mainVars, Queued
<1>3. ASSUME NEW ts \in Seq(Task), NEW front \in BOOLEAN, Post(ts, front)
      PROVE  /\ \A id \in TaskId : RequestTask(id) \in Queued => RequestTask(id) \in Queued'
             /\ \A t \in ToSet(ts) : t \in Queued'
             /\ \A t \in Queued' : t \in Queued \/ t \in ToSet(ts)
  <2>1. /\ phase' = phase /\ current' = current
        /\ loop' = "new_task" <=> loop = "new_task"
    BY <1>1, <1>3, PostSets DEF mainVars
  <2>2. \A id \in TaskId : RequestTask(id).id_target = NoId
    BY RequestTasks
  <2> QED BY <1>3, <2>1, <2>2, PostSets DEF Queued
<1>4. CASE Begin(r)
  <2>1. /\ pc'[r] = "post" /\ UNCHANGED <<queueVars, queue_results>>
        /\ waiting_task_ids' = waiting_task_ids \cup IdSet(r)
    BY <1>4 DEF Begin, AddWaiting, Goto, HttpTypes
  <2> QED BY <1>1, <1>2, <2>1, ForgetHttpFrame DEF Waits
<1>5. CASE PostTasks(r)
  <2> DEFINE ts == [i \in DOMAIN Ids[r] |-> RequestTask(Ids[r][i])]
  <2>1. /\ pc[r] = "post" /\ Post(ts, Kind[r] = "METRICS") /\ UNCHANGED responseVars
    BY <1>5 DEF PostTasks
  <2>2. ts \in Seq(Task) /\ ToSet(ts) = {RequestTask(id) : id \in IdSet(r)}
    BY PostedTasks
  <2> HIDE DEF ts
  <2>3. /\ \A id \in TaskId : RequestTask(id) \in Queued => RequestTask(id) \in Queued'
        /\ \A t \in ToSet(ts) : t \in Queued'
        /\ \A t \in Queued' : t \in Queued \/ t \in ToSet(ts)
    <3>1. (Kind[r] = "METRICS") \in BOOLEAN
      OBVIOUS
    <3> QED BY <1>3, <2>1, <2>2, <3>1
  <2>4. \A id \in TaskId : CancelTask(id) \notin ToSet(ts)
    <3>1. \A id \in TaskId : CancelTask(id).type = "CANCEL"
      BY DEF CancelTask, NewTask
    <3>2. \A id \in IdSet(r) : RequestTask(id).type # "CANCEL"
      BY OwnerOf, RequestTasks DEF AnyKind
    <3> QED BY <2>2, <3>1, <3>2
  <2>5. IdSet(r) \subseteq waiting_task_ids
    BY <2>1 DEF ForgetInv, Registered
  <2> QED BY <1>1, <2>1, <2>2, <2>3, <2>4, <2>5, ForgetHttpFrame DEF responseVars
<1>6. CASE ClientCloses(r) \/ FallAsleep(r) \/ Provide(r)
  <2>1. /\ UNCHANGED <<queueVars, queue_results, waiting_task_ids, left>>
        /\ \/ pc'[r] = pc[r]
           \/ pc[r] = "provide" /\ pc'[r] \in {"receive", "finish"}
    BY <1>6 DEF ClientCloses, FallAsleep, RecvSleeps, TimedRecvSleeps, Provide, Goto, responseVars, httpVars,
       HttpTypes
  <2>2. pc[r] \in {"post", "provide", "receive"} => IdSet(r) \subseteq waiting_task_ids
    BY DEF ForgetInv, Registered
  <2>3. \A id \in IdSet(r) : Waits(r, id)' => Waits(r, id) /\ (Answered(id) => Answered(id)')
    BY <2>1 DEF Waits, Answered
  <2> QED BY <1>1, <1>2, <2>1, <2>2, <2>3, ForgetHttpFrame
<1>7. CASE ReceivePolling(r) \/ ReceiveOnce(r)
  <2> DEFINE res == FirstMatch(IdSet(r))
  <2>1. /\ pc[r] = "receive" /\ UNCHANGED queueVars /\ TakeResult(r, IdSet(r))
        /\ \/ pc'[r] \in {"cancel", "finish"}
           \/ /\ pc'[r] = "receive"
              /\ left'[r] = IF res.stop THEN left[r] \ {res.id} ELSE left[r]
    BY <1>7 DEF ReceivePolling, ReceiveOnce, Goto, HttpTypes
  <2>2. /\ waiting_task_ids' = waiting_task_ids
        /\ res.id \in IdSet(r)
        /\ ToSet(queue_results) \subseteq ToSet(queue_results') \cup {res}
    BY <2>1, TakeTypes
  <2> HIDE DEF res
  <2>3. IdSet(r) \subseteq waiting_task_ids
    BY <2>1 DEF ForgetInv, Registered
  <2>4. ASSUME NEW id \in IdSet(r), Waits(r, id)'
        PROVE  Waits(r, id) /\ (Answered(id) => Answered(id)')
    <3>1. pc'[r] = "receive" /\ id \in left[r] /\ ~(res.stop /\ res.id = id)
      BY <2>1, <2>4 DEF Waits
    <3> QED BY <2>1, <2>2, <3>1 DEF Waits, Answered
  <2> QED BY <1>1, <1>2, <2>1, <2>2, <2>3, <2>4, ForgetHttpFrame
<1>8. CASE PollExpires(r)
  <2>1. /\ UNCHANGED <<queueVars, queue_results, waiting_task_ids>> /\ pc[r] = "receive"
        /\ \/ pc'[r] = "cancel"
           \/ UNCHANGED <<pc, left>>
    BY <1>8 DEF PollExpires, TimedRecvExpires, Goto, HttpTypes
  <2>2. IdSet(r) \subseteq waiting_task_ids
    BY <2>1 DEF ForgetInv, Registered
  <2>3. \A id \in IdSet(r) : Waits(r, id)' => Waits(r, id) /\ (Answered(id) => Answered(id)')
    BY <2>1 DEF Waits, Answered
  <2> QED BY <1>1, <1>2, <2>1, <2>2, <2>3, ForgetHttpFrame
<1>9. ASSUME NEW id \in IdSet(r), RemoveWaitingId(id), UNCHANGED queueVars,
             pc'[r] \in {"cancel", "finish", "done"}
      PROVE  ForgetInv'
  <2>1. /\ waiting_task_ids' = waiting_task_ids \ {id}
        /\ ToSet(queue_results') = {res \in ToSet(queue_results) : res.id # id}
    BY <1>9, OwnerOf, ForgetTypes
  <2> QED BY <1>1, <1>2, <1>9, <2>1, ForgetHttpFrame DEF Waits
<1>10. CASE CancelForgets(r)
  <2>1. PICK id \in IdSet(r) : RemoveWaitingId(id)
    BY <1>10 DEF CancelForgets, HttpTypes
  <2> QED BY <1>9, <1>10, <2>1 DEF CancelForgets
<1>11. CASE CancelPosts(r)
  <2> DEFINE ts == [i \in DOMAIN Ids[r] |-> CancelTask(Ids[r][i])]
  <2>1. /\ Post(ts, TRUE) /\ UNCHANGED responseVars /\ pc'[r] = "finish"
    BY <1>11 DEF CancelPosts, Goto, HttpTypes
  <2>2. ts \in Seq(Task) /\ ToSet(ts) = {CancelTask(id) : id \in IdSet(r)}
    BY PostedTasks
  <2> HIDE DEF ts
  <2>3. /\ \A id \in TaskId : RequestTask(id) \in Queued => RequestTask(id) \in Queued'
        /\ \A t \in Queued' : t \in Queued \/ t \in ToSet(ts)
    BY <1>3, <2>1, <2>2
  <2>4. \A id \in TaskId : CancelTask(id) \in ToSet(ts) => id \in IdSet(r)
    BY <2>2 DEF CancelTask, NewTask
  <2> QED BY <1>1, <2>1, <2>3, <2>4, ForgetHttpFrame DEF Waits, responseVars
<1>12. CASE Finish(r)
  <2>1. pc'[r] = "done" /\ UNCHANGED queueVars
    BY <1>12 DEF Finish, Goto, HttpTypes
  <2>2. CASE Polls(r)
    <3>1. UNCHANGED queue_results /\ waiting_task_ids' = waiting_task_ids \ IdSet(r)
      BY <1>12, <2>2 DEF Finish, RemoveWaitingIds
    <3> QED BY <1>1, <1>2, <2>1, <3>1, ForgetHttpFrame DEF Waits
  <2>3. CASE ~Polls(r)
    <3>1. Ids[r][1] \in IdSet(r)
      <4>1. Ids[r] \in Seq(IdSet(r)) /\ Ids[r] # <<>>
        BY RequestIds
      <4> QED BY <4>1
    <3>2. RemoveWaitingId(Ids[r][1])
      BY <1>12, <2>3 DEF Finish
    <3> QED BY <1>9, <2>1, <3>1, <3>2
  <2> QED BY <2>2, <2>3
<1> QED
  BY <1>4, <1>5, <1>6, <1>7, <1>8, <1>10, <1>11, <1>12 DEF HttpThread

\* What the main thread does concerns no thread's own state.
LEMMA ForgetMainFrame ==
    ASSUME ForgetInv, TypeInv, UNCHANGED <<httpVars, waiting_task_ids>>,
           \A id \in TaskId : CancelTask(id) \in Queued' => CancelTask(id) \in Queued,
           EmbeddingSent',
           \A r \in Request, id \in TaskId :
                Waits(r, id) /\ id \in waiting_task_ids /\ Known(id) => Known(id)'
    PROVE  ForgetInv'
<1>1. Registered' /\ CancelledLate'
  BY DEF ForgetInv, Registered, CancelledLate, httpVars
<1>2. AllKnown'
  <2> SUFFICES ASSUME NEW r \in Request, NEW id \in TaskId, Waits(r, id)'
               PROVE  Known(id)'
    BY DEF AllKnown
  <2>1. Waits(r, id)
    BY DEF Waits, httpVars
  <2>2. id \in waiting_task_ids
    BY <2>1 DEF Waits, ForgetInv, Registered, TypeInv, HttpTypes
  <2> QED BY <2>1, <2>2 DEF ForgetInv, AllKnown
<1> QED BY <1>1, <1>2 DEF ForgetInv

\* Slots keep their tasks, but for one, and no task leaves the queues.
LEMMA KnownKept ==
    ASSUME NEW id \in TaskId, NEW s \in Slots, Known(id), SameOthers(s),
           RequestTask(id) \in Queued => RequestTask(id) \in Queued' \/ Known(id)',
           Answered(id) => Known(id)', Answering(id) => Known(id)',
           Processing(s) /\ slots[s].id_task = id => Known(id)'
    PROVE  Known(id)'
<1>1. CASE IsRunning(id)
  <2>1. PICK t \in Slots : Processing(t) /\ slots[t].id_task = id
    BY <1>1 DEF IsRunning
  <2>2. CASE t # s
    BY <2>1, <2>2 DEF SameOthers, Known, IsRunning, Processing
  <2> QED BY <2>1, <2>2
<1> QED BY <1>1 DEF Known

LEMMA ForgetLoop ==
    ASSUME TypeInv, ForgetInv, MainLoop
    PROVE  ForgetInv'
<1> USE DEF TypeInv
<1>1. UNCHANGED <<responseVars, mainVars, httpVars>>
  BY DEF MainLoop
<1>2. Queued' = Queued
  <2>1. loop = "drain" => phase = "begin"
    BY DEF Phases
  <2>2. CASE PopTask
    <3>1. /\ ToSet(queue_tasks) = ToSet(queue_tasks') \cup {current'}
          /\ UNCHANGED queue_tasks_deferred /\ loop = "drain" /\ loop' = "new_task"
      BY <2>2, PopTaskSets DEF PopTask
    <3> QED BY <1>1, <2>1, <3>1 DEF Queued, mainVars
  <2>3. CASE ~PopTask
    <3>1. /\ UNCHANGED <<queue_tasks, queue_tasks_deferred>>
          /\ loop # "new_task" /\ loop' # "new_task"
      BY <2>3 DEF MainLoop, LoopStep, StartLoop, Drained, Recheck, WakeUp, LoopExits
    <3> QED BY <3>1 DEF Queued
  <2> QED BY <2>2, <2>3
<1>3. EmbeddingSent'
  BY <1>1, <1>2 DEF ForgetInv, EmbeddingSent, Waits, Answered, responseVars, mainVars, httpVars
<1>4. ASSUME NEW id \in TaskId, Known(id)
      PROVE  Known(id)'
  BY <1>1, <1>2, <1>4 DEF Known, IsRunning, Processing, Answered, Answering, responseVars, mainVars
<1> QED BY <1>1, <1>2, <1>3, <1>4, ForgetMainFrame DEF responseVars

LEMMA ForgetTask ==
    ASSUME TypeInv, ForgetInv, ProcessSingleTask
    PROVE  ForgetInv'
<1> USE DEF TypeInv
<1>1. /\ loop = "new_task" /\ phase = "begin" /\ phase' = "end" /\ current \in Task
      /\ outbox = <<>> /\ UNCHANGED <<responseVars, httpVars>>
  BY DEF ProcessSingleTask, DeferTask, LaunchTask, CancelSlot, AnswerTask, IgnoreTask,
         CallbackGets, QueueTypes
<1>2. /\ Queued = ToSet(queue_tasks) \cup ToSet(queue_tasks_deferred) \cup {current}
      /\ Queued' = ToSet(queue_tasks') \cup ToSet(queue_tasks_deferred')
  BY <1>1 DEF Queued
<1>3. EmbeddingSent'
  BY <1>1 DEF EmbeddingSent
<1>4. \A id : ~Answering(id) /\ (Answered(id) => Answered(id)')
  BY <1>1 DEF Answering, Answered, ToSet, responseVars
<1>5. ASSUME Queued' \subseteq Queued,
             \A r \in Request, id \in TaskId : Waits(r, id) /\ Known(id) => Known(id)'
      PROVE  ForgetInv'
  BY <1>1, <1>3, <1>5, ForgetMainFrame DEF responseVars
<1>6. ASSUME NEW id \in TaskId, UNCHANGED slots, Known(id), RequestTask(id) \in Queued => Known(id)'
      PROVE  Known(id)'
  BY <1>4, <1>6 DEF Known, IsRunning, Processing
<1>7. CASE DeferTask
  <2>1. Queued' = Queued /\ UNCHANGED slots
    BY <1>1, <1>2, <1>7, DeferSets DEF DeferTask
  <2> QED BY <1>5, <1>6, <2>1 DEF Known
<1>8. ASSUME \/ LaunchTask \/ AnswerTask
      PROVE  /\ current.id \in TaskId /\ current = RequestTask(current.id)
             /\ UNCHANGED <<queue_tasks, queue_tasks_deferred>>
  BY <1>1, <1>8, TaskKinds DEF LaunchTask, AnswerTask, CallbackGets, Inference, AnyKind, queueVars
<1>9. CASE LaunchTask
  <2> PICK i \in TaskId : i = current.id /\ current = RequestTask(i)
    BY <1>8, <1>9
  <2>1. PICK s \in Idle(Candidates(current)) :
          /\ slots' = [slots EXCEPT ![s] =
                [@ EXCEPT !.id_task = current.id,
                          !.state   = IF Owner(current.id) \in BadGrammar THEN "IDLE" ELSE "STARTED"]]
          /\ outbox' = IF Owner(current.id) \in BadGrammar THEN <<Error(current.id)>> ELSE <<>>
    BY <1>9 DEF LaunchTask
  <2>2. s \in Slots /\ ~Processing(s)
    BY DEF Idle, Candidates
  <2>3. /\ SameOthers(s) /\ slots'[s].id_task = i
        /\ slots'[s].state = IF Owner(i) \in BadGrammar THEN "IDLE" ELSE "STARTED"
    BY <2>1, <2>2 DEF SlotTypes, SameOthers
  <2>4. Known(i)'
    <3>1. CASE Owner(i) \in BadGrammar
      <4>1. outbox' = <<Error(i)>>
        BY <2>1, <3>1
      <4>2. \E res \in ToSet(outbox') : res.id = i /\ res.stop
        BY <4>1, OneAnswerInOutbox
      <4> QED BY <4>2 DEF Known, Answering
    <3>2. CASE Owner(i) \notin BadGrammar
      BY <2>2, <2>3, <3>2 DEF Known, IsRunning, Processing
    <3> QED BY <3>1, <3>2
  <2>5. ASSUME NEW id \in TaskId, Known(id)
        PROVE  Known(id)'
    <3>1. CASE id = i
      BY <2>4, <3>1
    <3>2. CASE id # i
      <4>1. RequestTask(id) # current
        BY <3>2, RequestTasks
      <4>2. RequestTask(id) \in Queued => RequestTask(id) \in Queued'
        BY <1>2, <1>8, <1>9, <4>1
      <4>3. Answered(id) => Known(id)'
        BY <1>4 DEF Known
      <4> QED BY <1>4, <2>2, <2>3, <2>5, <4>2, <4>3, KnownKept
    <3> QED BY <3>1, <3>2
  <2> QED BY <1>2, <1>5, <1>8, <1>9, <2>5
<1>10. CASE AnswerTask
  <2> PICK i \in TaskId : i = current.id /\ current = RequestTask(i)
    BY <1>8, <1>10
  <2>1. /\ UNCHANGED slots
        /\ outbox' \in {<<Final(i)>>, <<Error(i)>>}
    BY <1>10 DEF AnswerTask
  <2>2. Answering(i)'
    BY <2>1, OneAnswerInOutbox DEF Answering
  <2>3. ASSUME NEW id \in TaskId, RequestTask(id) \in Queued
        PROVE  Known(id)'
    <3>1. CASE RequestTask(id) = current
      <4>1. id = i
        BY <3>1, RequestTasks
      <4> QED BY <2>2, <4>1 DEF Known
    <3>2. CASE RequestTask(id) # current
      BY <1>2, <1>8, <1>10, <2>3, <3>2 DEF Known
    <3> QED BY <3>1, <3>2
  <2> QED BY <1>2, <1>5, <1>6, <1>8, <1>10, <2>1, <2>3
<1>11. CASE IgnoreTask
  <2>1. UNCHANGED <<queue_tasks, queue_tasks_deferred, slots>> /\ current.type = "NEXT_RESPONSE"
    BY <1>11 DEF IgnoreTask, CallbackGets, queueVars
  <2>2. ASSUME NEW id \in TaskId, RequestTask(id) \in Queued
        PROVE  Known(id)'
    <3>1. RequestTask(id) # current
      BY <2>1, RequestTasks DEF AnyKind
    <3> QED BY <1>2, <2>1, <2>2, <3>1 DEF Known
  <2> QED BY <1>2, <1>5, <1>6, <2>1, <2>2
<1>12. CASE CancelSlot
  <2> DEFINE same == {s \in Slots : slots[s].id_task = current.id_target}
             s    == Min(same)
  <2>1. PICK c \in TaskId : current = CancelTask(c) /\ current.id_target = c
    BY <1>1, <1>12, TaskKinds DEF CancelSlot, CallbackGets
  <2>2. \A r \in Request : ~Waits(r, c)
    <3> SUFFICES ASSUME NEW r \in Request, Waits(r, c)
                 PROVE  FALSE
      OBVIOUS
    <3>1. c \in IdSet(r)
      BY DEF Waits, HttpTypes
    <3> QED BY <1>2, <2>1, <3>1 DEF ForgetInv, CancelledLate, Waits
  <2>3. \A id \in TaskId : RequestTask(id) # current
    BY <1>12, RequestTasks DEF CancelSlot, CallbackGets, AnyKind
  <2>4. CASE same = {}
    <3>1. UNCHANGED <<queue_tasks, queue_tasks_deferred, slots>>
      BY <1>12, <2>4 DEF CancelSlot, queueVars
    <3>2. ASSUME NEW id \in TaskId, RequestTask(id) \in Queued
          PROVE  Known(id)'
      BY <1>2, <2>3, <3>1, <3>2 DEF Known
    <3> QED BY <1>2, <1>5, <1>6, <3>1, <3>2
  <2>5. CASE same # {}
    <3>1. s \in Slots /\ slots[s].id_task = c
      BY <2>1, <2>5, VisitedSlot
    <3>2. ReleaseSlot(s)
      BY <1>12, <2>5 DEF CancelSlot
    <3> HIDE DEF s
    <3>3. /\ SameOthers(s)
          /\ ToSet(queue_tasks') \cup ToSet(queue_tasks_deferred')
                = ToSet(queue_tasks) \cup ToSet(queue_tasks_deferred)
      BY <1>1, <3>1, <3>2, ReleaseSets
    <3>4. ASSUME NEW r \in Request, NEW id \in TaskId, Waits(r, id), Known(id)
          PROVE  Known(id)'
      <4>1. id # c
        BY <2>2, <3>4
      <4>2. RequestTask(id) \in Queued => RequestTask(id) \in Queued'
        BY <1>2, <2>3, <3>3
      <4>3. Answered(id) => Known(id)'
        BY <1>4 DEF Known
      <4> QED BY <1>4, <3>1, <3>3, <3>4, <4>1, <4>2, <4>3, KnownKept
    <3> QED BY <1>2, <1>5, <3>3, <3>4
  <2> QED BY <2>4, <2>5
<1> QED BY <1>7, <1>9, <1>10, <1>11, <1>12 DEF ProcessSingleTask

LEMMA ForgetSend ==
    ASSUME TypeInv, ForgetInv, SendOutbox
    PROVE  ForgetInv'
<1> USE DEF TypeInv
<1> DEFINE R == ResultType(TaskId \cup {NoId})
<1>1. outbox \in Seq(R) /\ outbox # <<>>
  BY DEF MainTypes, SendOutbox
<1>2. PICK h \in R : h = Head(outbox) /\ ToSet(outbox) = {h} \cup ToSet(Tail(outbox))
  <2> HIDE DEF R
  <2> QED BY <1>1, SetOfTail
<1>3. /\ Send(h) /\ outbox' = Tail(outbox)
      /\ UNCHANGED <<queueVars, slots, phase, visit, httpVars>>
  BY <1>2 DEF SendOutbox
<1>4. /\ UNCHANGED waiting_task_ids
      /\ ToSet(queue_results) \subseteq ToSet(queue_results')
      /\ h.id \in waiting_task_ids => h \in ToSet(queue_results')
  BY <1>3, SendTypes
<1>5. Queued' = Queued
  BY <1>3 DEF queueVars, Queued
<1>6. EmbeddingSent'
  BY <1>3, <1>4, <1>5 DEF ForgetInv, EmbeddingSent, Waits, Answered, httpVars
<1>7. ASSUME NEW id \in TaskId, id \in waiting_task_ids, Known(id)
      PROVE  Known(id)'
  <2>1. IsRunning(id)' <=> IsRunning(id)
    BY <1>3 DEF IsRunning, Processing
  <2>2. Answered(id) => Answered(id)'
    BY <1>4 DEF Answered
  <2>3. Answering(id) => Answered(id)' \/ Answering(id)'
    BY <1>2, <1>3, <1>4, <1>7 DEF Answered, Answering
  <2> QED BY <1>5, <1>7, <2>1, <2>2, <2>3 DEF Known
<1> QED BY <1>3, <1>4, <1>5, <1>6, <1>7, ForgetMainFrame

\* Steps of the callbacks that leave the slots alone and lose no task.
LEMMA ForgetQuiet ==
    ASSUME TypeInv, ForgetInv, UNCHANGED <<responseVars, slots, outbox, httpVars>>,
           \A id \in TaskId : /\ RequestTask(id) \in Queued => RequestTask(id) \in Queued'
                              /\ CancelTask(id) \in Queued' => CancelTask(id) \in Queued,
           phase' # "embedded"
    PROVE  ForgetInv'
<1>1. EmbeddingSent'
  BY DEF EmbeddingSent
<1>2. ASSUME NEW id \in TaskId, Known(id)
      PROVE  Known(id)'
  BY <1>2 DEF Known, IsRunning, Processing, Answered, Answering, responseVars
<1> QED BY <1>1, <1>2, ForgetMainFrame DEF responseVars

LEMMA ForgetReturn ==
    ASSUME TypeInv, ForgetInv, CallbackReturns
    PROVE  ForgetInv'
<1>1. /\ phase = "end" /\ phase' = "begin" /\ loop' # "new_task"
      /\ UNCHANGED <<queue_tasks, queue_tasks_deferred, responseVars, slots, outbox, httpVars>>
  BY DEF CallbackReturns, NewTaskReturns, UpdateSlotsReturns
<1>2. Queued' = Queued
  BY <1>1 DEF Queued
<1> QED BY <1>1, <1>2, ForgetQuiet

LEMMA ForgetPass ==
    ASSUME TypeInv, ForgetInv,
           \/ UpdateAllIdle \/ UpdatePostsNext \/ BatchFilled \/ DecodeSucceeds \/ DecodeFails
           \/ ViewSampled
    PROVE  ForgetInv'
<1> USE DEF TypeInv
<1>1. /\ loop = "update_slots" /\ phase' # "embedded"
      /\ UNCHANGED <<responseVars, slots, outbox, httpVars>>
  BY DEF UpdateAllIdle, UpdatePostsNext, BatchFilled, DecodeSucceeds, DecodeFails, ViewSampled,
         InUpdate
<1>2. CASE UpdatePostsNext
  <2>1. /\ Post(<<NextResponse>>, FALSE) /\ <<NextResponse>> \in Seq(Task)
        /\ ToSet(<<NextResponse>>) = {NextResponse}
    <3>1. <<NextResponse>> \in Seq(Task) /\ DOMAIN <<NextResponse>> = {1}
          /\ <<NextResponse>>[1] = NextResponse
      BY NextIsTask
    <3> QED BY <1>2, <3>1 DEF UpdatePostsNext, ToSet
  <2>2. loop' = "update_slots"
    BY <1>1, <2>1, PostSets
  <2>3. \A id \in TaskId : CancelTask(id) # NextResponse
    <3>1. \A id \in TaskId : CancelTask(id).type = "CANCEL"
      BY DEF CancelTask, NewTask
    <3>2. NextResponse.type = "NEXT_RESPONSE"
      BY NextIsTask
    <3> QED BY <3>1, <3>2
  <2>4. \A id \in TaskId : /\ RequestTask(id) \in Queued => RequestTask(id) \in Queued'
                           /\ CancelTask(id) \in Queued' => CancelTask(id) \in Queued
    <3> SUFFICES ASSUME NEW id \in TaskId
                 PROVE  /\ RequestTask(id) \in Queued => RequestTask(id) \in Queued'
                        /\ CancelTask(id) \in Queued' => CancelTask(id) \in Queued
      OBVIOUS
    <3>1. RequestTask(id).id_target = NoId
      BY RequestTasks
    <3>2. RequestTask(id) \in Queued => RequestTask(id) \in Queued'
      BY <1>1, <2>1, <2>2, <3>1, PostSets DEF Queued
    <3>3. CancelTask(id) \in Queued' => CancelTask(id) \in Queued
      BY <1>1, <2>1, <2>2, <2>3, PostSets DEF Queued
    <3> QED BY <3>2, <3>3
  <2> QED BY <1>1, <2>4, ForgetQuiet
<1>3. CASE UNCHANGED queueVars
  <2>1. Queued' = Queued
    BY <1>1, <1>3 DEF queueVars, Queued
  <2> QED BY <1>1, <2>1, ForgetQuiet
<1> QED
  BY <1>2, <1>3 DEF UpdateAllIdle, BatchFilled, DecodeSucceeds, DecodeFails, ViewSampled

LEMMA ForgetSlot ==
    ASSUME TypeInv, ForgetInv,
           \/ PromptFits \/ PromptRejected \/ FailSlot
           \/ SampleToken \/ StopSlot \/ SendEmbedding \/ ReleaseEmbedding
    PROVE  ForgetInv'
<1> USE DEF TypeInv
<1>1. /\ loop = "update_slots" /\ outbox = <<>> /\ UNCHANGED httpVars
      /\ visit # {} => Min(visit) \in Slots
  BY VisitedSlot DEF PromptFits, PromptRejected, FailSlot, SampleToken, StopSlot,
         SendEmbedding, ReleaseEmbedding, InUpdate, MainTypes
<1>2. ~(\E id : Answering(id))
  BY <1>1 DEF Answering, ToSet
<1>3. Queued = ToSet(queue_tasks) \cup ToSet(queue_tasks_deferred)
  BY <1>1 DEF Queued
\* A slot is released, and it is answered for.
<1>4. ASSUME NEW s \in Slots, ReleaseSlot(s), UNCHANGED responseVars, phase' # "embedded",
             \A r \in Request, id \in TaskId : Waits(r, id) /\ slots[s].id_task = id => Known(id)'
      PROVE  ForgetInv'
  <2>1. /\ loop' = "update_slots" /\ SameOthers(s)
        /\ ToSet(queue_tasks') \cup ToSet(queue_tasks_deferred')
              = ToSet(queue_tasks) \cup ToSet(queue_tasks_deferred)
    BY <1>1, <1>4, ReleaseSets
  <2>2. Queued' = Queued
    BY <1>3, <2>1 DEF Queued
  <2>3. EmbeddingSent'
    BY <1>4 DEF EmbeddingSent
  <2>4. ASSUME NEW r \in Request, NEW id \in TaskId, Waits(r, id), Known(id)
        PROVE  Known(id)'
    <3>1. Answered(id) => Known(id)'
      BY <1>4 DEF Answered, Known, responseVars
    <3> QED BY <1>2, <1>4, <2>1, <2>2, <2>4, <3>1, KnownKept
  <2> QED BY <1>1, <1>4, <2>2, <2>3, <2>4, ForgetMainFrame DEF responseVars
\* A slot goes on.
<1>5. ASSUME NEW s \in Slots, SameOthers(s), slots'[s].id_task = slots[s].id_task,
             slots'[s].state # "IDLE" \/ UNCHANGED slots,
             UNCHANGED <<queueVars, waiting_task_ids, outbox>>,
             ToSet(queue_results) \subseteq ToSet(queue_results'), EmbeddingSent'
      PROVE  ForgetInv'
  <2>1. Queued' = Queued
    BY <1>1, <1>5 DEF Queued, queueVars
  <2>2. ASSUME NEW id \in TaskId, Known(id)
        PROVE  Known(id)'
    <3>1. Answered(id) => Known(id)'
      BY <1>5 DEF Answered, Known
    <3>2. Processing(s) /\ slots[s].id_task = id => Known(id)'
      BY <1>5 DEF Processing, Known, IsRunning
    <3> QED BY <1>2, <1>5, <2>1, <2>2, <3>1, <3>2, KnownKept
  <2> QED BY <1>1, <1>5, <2>1, <2>2, ForgetMainFrame
<1>6. CASE PromptFits
  <2>1. PICK s \in Slots : /\ \/ slots' = [slots EXCEPT ![s].state = "DONE_PROMPT", ![s].n = 0]
                              \/ slots' = [slots EXCEPT ![s].state = "PROCESSING_PROMPT"]
                           /\ UNCHANGED <<queueVars, responseVars, phase, outbox>> /\ phase = "prompt"
    BY <1>1, <1>6 DEF PromptFits, InUpdate, SetSlot
  <2>2. SameOthers(s) /\ slots'[s].id_task = slots[s].id_task /\ slots'[s].state # "IDLE"
    BY <2>1 DEF SlotTypes, SameOthers
  <2>3. EmbeddingSent'
    BY <2>1 DEF EmbeddingSent
  <2> QED BY <1>5, <2>1, <2>2, <2>3 DEF responseVars
<1>7. CASE SampleToken
  <2>1. PICK s \in Slots : /\ slots' = [slots EXCEPT ![s].state = "GENERATING", ![s].n = slots[s].n + 1]
                           /\ UNCHANGED responseVars \/ Send(Partial(slots[s].id_task))
                           /\ UNCHANGED <<queueVars, outbox>> /\ phase' \in {"sample", "stop"}
    BY <1>1, <1>7 DEF SampleToken, InUpdate
  <2>2. SameOthers(s) /\ slots'[s].id_task = slots[s].id_task /\ slots'[s].state # "IDLE"
    BY <2>1 DEF SlotTypes, SameOthers
  <2>3. EmbeddingSent'
    BY <2>1 DEF EmbeddingSent
  <2>4. UNCHANGED waiting_task_ids /\ ToSet(queue_results) \subseteq ToSet(queue_results')
    <3>1. Partial(slots[s].id_task) \in ResultType(TaskId \cup {NoId})
      BY AnswerTypes DEF SlotTypes
    <3> QED BY <2>1, <3>1, SendTypes DEF responseVars
  <2> QED BY <1>5, <2>1, <2>2, <2>3, <2>4
<1>8. CASE SendEmbedding
  <2> DEFINE s == Min(visit)
  <2>1. /\ visit # {} /\ phase' = "embedded"
        /\ UNCHANGED <<queueVars, slots, visit, outbox>>
    BY <1>8 DEF SendEmbedding, InUpdate
  <2>2. PICK e \in TaskId \cup {NoId} : e = slots[s].id_task /\ Send(Final(e))
    BY <1>1, <1>8, <2>1 DEF SendEmbedding, SlotTypes
  <2>3. /\ UNCHANGED waiting_task_ids
        /\ ToSet(queue_results) \subseteq ToSet(queue_results')
        /\ e \in waiting_task_ids => Answered(e)'
    <3>1. Final(e) \in ResultType(TaskId \cup {NoId}) /\ Final(e).id = e /\ Final(e).stop
      BY AnswerTypes
    <3> QED BY <2>2, <3>1, SendTypes DEF Answered
  <2>4. EmbeddingSent'
    <3>1. ASSUME NEW r \in Request, Waits(r, e)'
          PROVE  Answered(e)'
      <4>1. Waits(r, e)
        BY <1>1, <3>1 DEF Waits, httpVars
      <4>2. e \in waiting_task_ids
        BY <4>1 DEF Waits, HttpTypes, ForgetInv, Registered
      <4> QED BY <2>3, <4>2
    <3> QED BY <2>1, <2>2, <3>1 DEF EmbeddingSent
  <2> QED BY <1>1, <1>5, <2>1, <2>3, <2>4 DEF SameOthers
<1>9. CASE PromptRejected \/ (FailSlot /\ visit # {}) \/ StopSlot
  <2>1. PICK s \in Slots :
          /\ ReleaseSlot(s) /\ UNCHANGED responseVars /\ phase' # "embedded"
          /\ outbox' \in {<<Final(slots[s].id_task)>>, <<Error(slots[s].id_task)>>}
    BY <1>1, <1>9 DEF PromptRejected, FailSlot, StopSlot, InUpdate, Phases
  <2>2. ASSUME NEW id \in TaskId, slots[s].id_task = id
        PROVE  Known(id)'
    <3>1. \E res \in ToSet(outbox') : res.id = id /\ res.stop
      BY <2>1, <2>2, OneAnswerInOutbox
    <3> QED BY <3>1 DEF Known, Answering
  <2> QED BY <1>4, <2>1, <2>2
<1>10. CASE FailSlot /\ visit = {}
  <2>1. UNCHANGED <<queueVars, responseVars, slots, outbox>> /\ phase' = "end"
    BY <1>10 DEF FailSlot
  <2>2. Queued' = Queued
    BY <1>1, <2>1 DEF queueVars, Queued
  <2> QED BY <1>1, <2>1, <2>2, ForgetQuiet
<1>11. CASE ReleaseEmbedding
  <2> DEFINE s == Min(visit)
  <2>1. /\ visit # {} /\ phase = "embedded" /\ phase' = "sample" /\ ReleaseSlot(s)
        /\ UNCHANGED <<responseVars, outbox>>
    BY <1>11 DEF ReleaseEmbedding, InUpdate, Phases
  <2>2. s \in Slots
    BY <1>1, <2>1
  <2>3. ASSUME NEW r \in Request, NEW id \in TaskId, Waits(r, id), slots[s].id_task = id
        PROVE  Known(id)'
    <3>1. RequestTask(id) \in Queued \/ Answered(id)
      BY <2>1, <2>3 DEF ForgetInv, EmbeddingSent
    <3>2. Queued' = Queued
      <4>1. /\ loop' = "update_slots"
            /\ ToSet(queue_tasks') \cup ToSet(queue_tasks_deferred')
                  = ToSet(queue_tasks) \cup ToSet(queue_tasks_deferred)
        BY <1>1, <2>1, <2>2, ReleaseSets
      <4> QED BY <1>3, <4>1 DEF Queued
    <3> QED BY <2>1, <3>1, <3>2 DEF Known, Answered, responseVars
  <2> HIDE DEF s
  <2> QED BY <1>4, <2>1, <2>2, <2>3
<1> QED BY <1>6, <1>7, <1>8, <1>9, <1>10, <1>11

LEMMA ForgetInit == Init => ForgetInv
<1> SUFFICES ASSUME Init
             PROVE  ForgetInv
  OBVIOUS
<1>1. Queued = {} /\ \A r \in Request : pc[r] = "start"
  BY DEF Init, QueueInit, Queued, ToSet
<1> QED
  BY <1>1 DEF Init, ForgetInv, Registered, CancelledLate, EmbeddingSent, AllKnown, Waits

LEMMA ForgetNext == TypeInv /\ ForgetInv /\ [Next]_vars => ForgetInv'
<1> SUFFICES ASSUME TypeInv, ForgetInv, [Next]_vars
             PROVE  ForgetInv'
  OBVIOUS
<1>1. CASE UNCHANGED vars
  BY <1>1 DEF vars, queueVars, responseVars, mainVars, httpVars, ForgetInv, Registered, CancelledLate,
     EmbeddingSent, AllKnown, Waits, Known, IsRunning, Processing, Answered, Answering, Queued
<1>2. CASE MainThread
  BY <1>2, ForgetLoop, ForgetTask, ForgetSend, ForgetReturn, ForgetPass, ForgetSlot
     DEF MainThread, UpdateSlots
<1>3. TypeInv'
  BY TypesNext
<1> QED BY <1>1, <1>2, <1>3, ForgetHttp DEF Next

\* As long as the thread of a request waits for one of its tasks, the task is
\* queued, deferred, in hand, on a slot, or answered: no interleaving of the two
\* queues, no cancellation of another request, no failed decode loses it.
THEOREM NoTaskLost == Spec => []NoTaskForgotten
BY ForgetInit, ForgetNext, TypesInit, TypesNext, ForgetImplies, PTL DEF Spec

-----------------------------------------------------------------------------
(***************************************************************************)
(* A task is in one place.  What a thread posts has to be new: its request *)
(* has not posted it before (FreshOnce), a cancellation is not queued      *)
(* already (CancelledLate), and update_slots() posts NEXT_RESPONSE when    *)
(* the queue has been drained (NextOnce).                                  *)
(***************************************************************************)

QueueOnce ==
    /\ IsInjective(queue_tasks) /\ IsInjective(queue_tasks_deferred)
    /\ ToSet(queue_tasks) \cap ToSet(queue_tasks_deferred) = {}
    /\ loop = "new_task" /\ phase = "begin" =>
         current \notin ToSet(queue_tasks) \cup ToSet(queue_tasks_deferred)

NextOnce ==
    /\ NextResponse \notin ToSet(queue_tasks_deferred)
    /\ loop = "update_slots" /\ phase = "begin" => NextResponse \notin ToSet(queue_tasks)

FreshOnce ==
    \A r \in Request : pc[r] \in {"start", "post"} =>
        \A id \in IdSet(r) : RequestTask(id) \notin Queued /\ ~IsRunning(id)

SlotsOnce ==
    \A s \in Slots : Processing(s) =>
        /\ slots[s].id_task \in TaskId
        /\ RequestTask(slots[s].id_task) \notin Queued
        /\ \A t \in Slots \ {s} : Processing(t) => slots[t].id_task # slots[s].id_task

OnceInv == QueueOnce /\ NextOnce /\ FreshOnce /\ SlotsOnce

LEMMA OnceImplies == TypeInv /\ OnceInv => TaskOnce
<1> SUFFICES ASSUME TypeInv, OnceInv
             PROVE  TaskOnce
  OBVIOUS
<1> USE DEF TypeInv, OnceInv
<1> DEFINE u == Undecided
           c == queue_tasks \o queue_tasks_deferred
<1>1. u \in Seq(Task) /\ IsInjective(u)
      /\ ToSet(u) = IF loop = "new_task" /\ phase = "begin" THEN {current} ELSE {}
  <2>1. CASE loop = "new_task" /\ phase = "begin"
    <3>1. u = <<current>> /\ current \in Task
      BY <2>1 DEF Undecided, QueueTypes
    <3>2. u \in Seq(Task) /\ DOMAIN u = {1} /\ u[1] = current
      BY <3>1
    <3> QED BY <2>1, <3>2 DEF ToSet, IsInjective
  <2>2. CASE ~(loop = "new_task" /\ phase = "begin")
    BY <2>2 DEF Undecided, ToSet, IsInjective
  <2> QED BY <2>1, <2>2
<1>2. queue_tasks \in Seq(Task) /\ queue_tasks_deferred \in Seq(Task)
  BY DEF QueueTypes
<1>3. /\ c \in Seq(Task) /\ IsInjective(c)
      /\ ToSet(c) = ToSet(queue_tasks) \cup ToSet(queue_tasks_deferred)
  BY <1>2, SetOfConcat, DistinctConcat DEF QueueOnce
<1>4. Pending = c \o u
  BY DEF Pending
<1> HIDE DEF u, c
<1>5. IsInjective(Pending)
  BY <1>1, <1>3, <1>4, DistinctConcat DEF QueueOnce
<1>6. \A i, j \in DOMAIN Pending : Pending[i] = Pending[j] => i = j
  BY <1>5 DEF IsInjective
<1>7. \A s \in Slots : Processing(s) =>
         /\ ~IsPending(slots[s].id_task)
         /\ \A t \in Slots \ {s} : Processing(t) => slots[t].id_task # slots[s].id_task
  BY PendingIsQueued DEF SlotsOnce, IsPending
<1> QED BY <1>6, <1>7 DEF TaskOnce

-----------------------------------------------------------------------------
(* The operations of the queue.                                            *)

LEMMA PostOnce ==
    ASSUME QueueTypes, QueueOnce, NEW ts \in Seq(Task), IsInjective(ts), ToSet(ts) \cap Queued = {},
           NEW front \in BOOLEAN, Post(ts, front), phase' = phase \/ loop # "new_task"
    PROVE  QueueOnce'
<1> DEFINE kept == CleanupPending(queue_tasks, ts)
           late == CleanupPending(queue_tasks_deferred, ts)
<1>1. /\ kept \in Seq(Task) /\ ToSet(kept) \subseteq ToSet(queue_tasks)
      /\ late \in Seq(Task) /\ ToSet(late) \subseteq ToSet(queue_tasks_deferred)
  BY CleanupKeeps DEF QueueTypes
<1>2. IsInjective(kept) /\ IsInjective(late)
  BY DistinctRemoveIf DEF CleanupPending, QueueTypes, QueueOnce
<1>3. /\ Reverse(ts) \in Seq(Task) /\ ToSet(Reverse(ts)) = ToSet(ts) /\ IsInjective(Reverse(ts))
  BY SetOfReverse, DistinctReverse
<1>4. /\ queue_tasks' = IF front THEN Reverse(ts) \o kept ELSE kept \o ts
      /\ queue_tasks_deferred' = late /\ current' = current
      /\ loop' = "new_task" <=> loop = "new_task"
  BY DEF Post, Notify
<1> HIDE DEF kept, late
<1>5. /\ ToSet(ts) \cap ToSet(queue_tasks) = {} /\ ToSet(ts) \cap ToSet(queue_tasks_deferred) = {}
      /\ loop = "new_task" /\ phase = "begin" => current \notin ToSet(ts)
  BY DEF Queued
<1>6. IsInjective(queue_tasks') /\ ToSet(queue_tasks') = ToSet(kept) \cup ToSet(ts)
  <2>1. CASE front
    BY <1>1, <1>2, <1>3, <1>4, <1>5, <2>1, SetOfConcat, DistinctConcat
  <2>2. CASE ~front
    BY <1>1, <1>2, <1>4, <1>5, <2>2, SetOfConcat, DistinctConcat
  <2> QED BY <2>1, <2>2
<1> QED BY <1>1, <1>2, <1>4, <1>5, <1>6 DEF QueueOnce

LEMMA PopDeferredOnce ==
    ASSUME QueueTypes, QueueOnce, PopDeferred, loop # "waiting",
           ~(loop = "new_task" /\ phase' = "begin")
    PROVE  /\ QueueOnce'
           /\ ToSet(queue_tasks_deferred') \subseteq ToSet(queue_tasks_deferred)
           /\ loop' = loop
<1>1. loop' = loop
  BY DEF PopDeferred, Notify
<1>2. CASE queue_tasks_deferred = <<>>
  BY <1>1, <1>2 DEF PopDeferred, QueueOnce
<1>3. CASE queue_tasks_deferred # <<>>
  <2> DEFINE h == Head(queue_tasks_deferred)
             d == Tail(queue_tasks_deferred)
  <2>1. queue_tasks' = Append(queue_tasks, h) /\ queue_tasks_deferred' = d
    BY <1>3 DEF PopDeferred
  <2>2. /\ h \in Task /\ d \in Seq(Task) /\ ToSet(queue_tasks_deferred) = {h} \cup ToSet(d)
        /\ IsInjective(d) /\ h \notin ToSet(d)
    BY <1>3, SetOfTail, DistinctTail DEF QueueTypes, QueueOnce
  <2> HIDE DEF h, d
  <2>3. h \notin ToSet(queue_tasks)
    BY <2>2 DEF QueueOnce
  <2>4. ToSet(queue_tasks') = ToSet(queue_tasks) \cup {h} /\ IsInjective(queue_tasks')
    BY <2>1, <2>2, <2>3, SetOfAppend, DistinctAppend DEF QueueTypes, QueueOnce
  <2> QED BY <1>1, <2>1, <2>2, <2>3, <2>4 DEF QueueOnce
<1> QED BY <1>2, <1>3

-----------------------------------------------------------------------------
(* The steps.                                                              *)

\* A step that posts no task of a request and starts none on a slot.
LEMMA OnceFrame ==
    ASSUME OnceInv, QueueOnce', NextOnce',
           \A r \in Request : pc'[r] \in {"start", "post"} => pc[r] \in {"start", "post"},
           \A id \in TaskId : RequestTask(id) \in Queued' => RequestTask(id) \in Queued,
           \A s \in Slots : slots'[s].state # "IDLE" =>
                Processing(s) /\ slots'[s].id_task = slots[s].id_task
    PROVE  OnceInv'
<1>1. FreshOnce'
  <2> SUFFICES ASSUME NEW r \in Request, pc'[r] \in {"start", "post"}, NEW id \in IdSet(r)
               PROVE  RequestTask(id) \notin Queued' /\ ~IsRunning(id)'
    BY DEF FreshOnce
  <2>1. RequestTask(id) \notin Queued /\ ~IsRunning(id) /\ id \in TaskId
    BY OwnerOf DEF OnceInv, FreshOnce
  <2> QED BY <2>1 DEF IsRunning, Processing
<1>2. SlotsOnce'
  <2> SUFFICES ASSUME NEW s \in Slots, slots'[s].state # "IDLE"
               PROVE  /\ slots'[s].id_task \in TaskId
                      /\ RequestTask(slots'[s].id_task) \notin Queued'
                      /\ \A t \in Slots \ {s} : slots'[t].state # "IDLE"
                                                  => slots'[t].id_task # slots'[s].id_task
    BY DEF SlotsOnce, Processing
  <2> QED BY DEF OnceInv, SlotsOnce
<1> QED BY <1>1, <1>2 DEF OnceInv

\* A step that leaves the queues alone, too.
LEMMA OnceQuiet ==
    ASSUME OnceInv, UNCHANGED <<queue_tasks, queue_tasks_deferred, pc>>,
           loop' = "new_task" /\ phase' = "begin" =>
                loop = "new_task" /\ phase = "begin" /\ current' = current,
           loop' = "update_slots" /\ phase' = "begin" =>
                (loop = "update_slots" /\ phase = "begin") \/ queue_tasks = <<>>,
           \A s \in Slots : slots'[s].state # "IDLE" =>
                Processing(s) /\ slots'[s].id_task = slots[s].id_task
    PROVE  OnceInv'
<1>1. QueueOnce'
  BY DEF OnceInv, QueueOnce
<1>2. NextOnce'
  <2>1. queue_tasks = <<>> => NextResponse \notin ToSet(queue_tasks)
    BY DEF ToSet
  <2> QED BY <2>1 DEF OnceInv, NextOnce
<1>3. Queued' \subseteq Queued
  BY DEF Queued
<1> QED BY <1>1, <1>2, <1>3, OnceFrame

\* What a thread posts is new, and no task is in it twice.
LEMMA PostedOnce ==
    ASSUME NEW r \in Request
    PROVE  /\ IsInjective([i \in DOMAIN Ids[r] |-> RequestTask(Ids[r][i])])
           /\ IsInjective([i \in DOMAIN Ids[r] |-> CancelTask(Ids[r][i])])
<1>1. \A i \in DOMAIN Ids[r] : Ids[r][i] \in IdSet(r)
  BY DEF IdSet, ToSet
<1>2. \A i \in DOMAIN Ids[r] : RequestTask(Ids[r][i]).id = Ids[r][i]
  BY <1>1, OwnerOf, RequestTasks
<1>3. \A i \in DOMAIN Ids[r] : CancelTask(Ids[r][i]).id_target = Ids[r][i]
  BY DEF CancelTask, NewTask
<1>4. IsInjective(Ids[r])
  BY IdsAssumption
<1> QED BY <1>2, <1>3, <1>4 DEF IsInjective

\* The tasks of requests, cancellations and NEXT_RESPONSE differ.
LEMMA KindsDiffer ==
    /\ \A id, x \in TaskId : /\ RequestTask(id) = RequestTask(x) => id = x
                             /\ RequestTask(id) # CancelTask(x)
    /\ \A id \in TaskId : RequestTask(id) # NextResponse /\ CancelTask(id) # NextResponse
<1>1. \A id \in TaskId : CancelTask(id).type = "CANCEL"
  BY DEF CancelTask, NewTask
<1>2. \A id \in TaskId : RequestTask(id).id = id /\ RequestTask(id).type \in AnyKind
  BY RequestTasks
<1>3. NextResponse.type = "NEXT_RESPONSE"
  BY NextIsTask
<1>4. \A id, x \in TaskId : RequestTask(id) = RequestTask(x) => id = x
  BY <1>2
<1>5. "CANCEL" \notin AnyKind /\ "NEXT_RESPONSE" \notin AnyKind
  BY DEF AnyKind
<1>6. \A id, x \in TaskId : RequestTask(id) # CancelTask(x)
  BY <1>1, <1>2, <1>5
<1>7. \A id \in TaskId : RequestTask(id) # NextResponse /\ CancelTask(id) # NextResponse
  BY <1>1, <1>2, <1>3, <1>5
<1> QED BY <1>4, <1>6, <1>7

LEMMA OncePosts ==
    ASSUME TypeInv, OnceInv, NEW r \in Request, PostTasks(r)
    PROVE  OnceInv'
<1> USE DEF TypeInv, OnceInv
<1> DEFINE ts == [i \in DOMAIN Ids[r] |-> RequestTask(Ids[r][i])]
<1>1. /\ Post(ts, Kind[r] = "METRICS") /\ UNCHANGED mainVars
      /\ pc[r] = "post" /\ pc'[r] \notin {"start", "post"}
      /\ \A q \in Request \ {r} : pc'[q] = pc[q]
  BY DEF PostTasks, Goto, HttpTypes
<1>2. /\ ts \in Seq(Task) /\ IsInjective(ts)
      /\ ToSet(ts) = {RequestTask(id) : id \in IdSet(r)}
  BY PostedTasks, PostedOnce
<1>3. (Kind[r] = "METRICS") \in BOOLEAN
  OBVIOUS
<1>4. \A id \in IdSet(r) : id \in TaskId /\ RequestTask(id) \notin Queued /\ ~IsRunning(id)
  BY <1>1, OwnerOf DEF FreshOnce
<1> HIDE DEF ts
<1>5. ToSet(ts) \cap Queued = {}
  BY <1>2, <1>4
<1>6. QueueOnce'
  BY <1>1, <1>2, <1>3, <1>5, PostOnce DEF mainVars
<1>7. /\ ToSet(queue_tasks') \subseteq ToSet(ts) \cup ToSet(queue_tasks)
      /\ ToSet(queue_tasks_deferred') \subseteq ToSet(queue_tasks_deferred)
      /\ current' = current /\ loop' = IF loop = "waiting" THEN "notified" ELSE loop
  BY <1>1, <1>2, <1>3, PostSets
<1>8. NextOnce'
  <2>1. NextResponse \notin ToSet(ts)
    BY <1>2, <1>4, KindsDiffer
  <2> QED BY <1>1, <1>7, <2>1 DEF NextOnce, mainVars
<1>9. Queued' \subseteq Queued \cup ToSet(ts)
  BY <1>1, <1>7 DEF Queued, mainVars
<1>10. \A id \in TaskId : RequestTask(id) \in ToSet(ts) => id \in IdSet(r)
  BY <1>2, <1>4, KindsDiffer
<1>11. FreshOnce'
  <2> SUFFICES ASSUME NEW q \in Request, pc'[q] \in {"start", "post"}, NEW id \in IdSet(q)
               PROVE  RequestTask(id) \notin Queued' /\ ~IsRunning(id)'
    BY DEF FreshOnce
  <2>1. q # r /\ pc[q] = pc'[q] /\ id \in TaskId /\ id \notin IdSet(r)
    BY <1>1, OwnerOf
  <2>2. RequestTask(id) \notin Queued /\ ~IsRunning(id)
    BY <2>1 DEF FreshOnce
  <2> QED BY <1>1, <1>9, <1>10, <2>1, <2>2 DEF IsRunning, Processing, mainVars
<1>12. SlotsOnce'
  <2>1. ASSUME NEW s \in Slots, Processing(s)
        PROVE  slots[s].id_task \in TaskId /\ RequestTask(slots[s].id_task) \notin Queued'
    <3>1. slots[s].id_task \in TaskId /\ RequestTask(slots[s].id_task) \notin Queued
      BY <2>1 DEF SlotsOnce
    <3>2. slots[s].id_task \notin IdSet(r)
      BY <1>4, <2>1 DEF IsRunning
    <3> QED BY <1>9, <1>10, <3>1, <3>2
  <2>2. slots' = slots
    BY <1>1 DEF mainVars
  <2> QED BY <2>1, <2>2 DEF SlotsOnce, Processing
<1> QED BY <1>6, <1>8, <1>11, <1>12

LEMMA OnceCancels ==
    ASSUME TypeInv, ForgetInv, OnceInv, NEW r \in Request, CancelPosts(r)
    PROVE  OnceInv'
<1> USE DEF TypeInv, OnceInv
<1> DEFINE ts == [i \in DOMAIN Ids[r] |-> CancelTask(Ids[r][i])]
<1>1. /\ Post(ts, TRUE) /\ UNCHANGED mainVars
      /\ pc[r] = "cancel" /\ pc'[r] = "finish"
      /\ \A q \in Request \ {r} : pc'[q] = pc[q]
  BY DEF CancelPosts, Goto, HttpTypes
<1>2. /\ ts \in Seq(Task) /\ IsInjective(ts)
      /\ ToSet(ts) = {CancelTask(id) : id \in IdSet(r)}
  BY PostedTasks, PostedOnce
<1> HIDE DEF ts
<1>3. \A id \in IdSet(r) : id \in TaskId /\ CancelTask(id) \notin Queued
  BY <1>1, OwnerOf DEF ForgetInv, CancelledLate
<1>4. ToSet(ts) \cap Queued = {}
  BY <1>2, <1>3
<1>5. QueueOnce'
  BY <1>1, <1>2, <1>4, PostOnce DEF mainVars
<1>6. /\ ToSet(queue_tasks') \subseteq ToSet(ts) \cup ToSet(queue_tasks)
      /\ ToSet(queue_tasks_deferred') \subseteq ToSet(queue_tasks_deferred)
      /\ current' = current /\ loop' = IF loop = "waiting" THEN "notified" ELSE loop
  BY <1>1, <1>2, PostSets
<1>7. NextResponse \notin ToSet(ts) /\ \A id \in TaskId : RequestTask(id) \notin ToSet(ts)
  BY <1>2, <1>3, KindsDiffer
<1>8. NextOnce'
  BY <1>1, <1>6, <1>7 DEF NextOnce, mainVars
<1>9. Queued' \subseteq Queued \cup ToSet(ts)
  BY <1>1, <1>6 DEF Queued, mainVars
<1>10. \A q \in Request : pc'[q] \in {"start", "post"} => pc[q] \in {"start", "post"}
  BY <1>1
<1>11. \A s \in Slots : slots'[s].state # "IDLE" =>
                Processing(s) /\ slots'[s].id_task = slots[s].id_task
  BY <1>1 DEF mainVars, Processing
<1> QED BY <1>5, <1>7, <1>8, <1>9, <1>10, <1>11, OnceFrame

LEMMA OnceHttp ==
    ASSUME TypeInv, ForgetInv, OnceInv, NEW r \in Request, HttpThread(r) \/ ClientCloses(r)
    PROVE  OnceInv'
<1>1. CASE ~PostTasks(r) /\ ~CancelPosts(r)
  <2>1. /\ UNCHANGED <<queueVars, mainVars>>
        /\ \A q \in Request : pc'[q] \in {"start", "post"} => pc[q] \in {"start", "post"}
    BY <1>1 DEF HttpThread, ClientCloses, Begin, Provide, ReceivePolling, ReceiveOnce, FallAsleep,
           PollExpires, CancelForgets, Finish, Goto, TypeInv, HttpTypes, httpVars
  <2>2. Queued' = Queued /\ QueueOnce' /\ NextOnce'
    BY <2>1 DEF OnceInv, Queued, QueueOnce, NextOnce, queueVars, mainVars
  <2> QED BY <2>1, <2>2, OnceFrame DEF mainVars, Processing
<1> QED BY <1>1, OncePosts, OnceCancels

LEMMA OnceLoop ==
    ASSUME TypeInv, OnceInv, MainLoop
    PROVE  OnceInv'
<1> USE DEF TypeInv
<1>1. UNCHANGED <<slots, phase, pc>>
  BY DEF MainLoop, mainVars, httpVars
<1>2. CASE PopTask
  <2>1. /\ queue_tasks \in Seq(Task) /\ queue_tasks # <<>> /\ loop = "drain" /\ phase = "begin"
        /\ queue_tasks' = Tail(queue_tasks) /\ current' = Head(queue_tasks)
        /\ loop' = "new_task" /\ UNCHANGED queue_tasks_deferred
    BY <1>2 DEF PopTask, QueueTypes, Phases
  <2>2. /\ ToSet(queue_tasks) = {current'} \cup ToSet(queue_tasks')
        /\ IsInjective(queue_tasks') /\ current' \notin ToSet(queue_tasks')
    BY <2>1, SetOfTail, DistinctTail DEF OnceInv, QueueOnce
  <2>3. QueueOnce' /\ NextOnce' /\ Queued' = Queued
    BY <1>1, <2>1, <2>2 DEF OnceInv, QueueOnce, NextOnce, Queued
  <2> QED BY <1>1, <2>3, OnceFrame DEF Processing
<1>3. CASE ~PopTask
  <2>1. /\ UNCHANGED <<queue_tasks, queue_tasks_deferred>> /\ loop' # "new_task"
        /\ loop' = "update_slots" => queue_tasks = <<>>
    BY <1>3 DEF MainLoop, LoopStep, StartLoop, Drained, Recheck, WakeUp, LoopExits
  <2> QED BY <1>1, <2>1, OnceQuiet DEF Processing
<1> QED BY <1>2, <1>3

\* A slot is released.
LEMMA OnceReleases ==
    ASSUME TypeInv, OnceInv, NEW s \in Slots, ReleaseSlot(s), UNCHANGED pc,
           loop \in {"new_task", "update_slots"}, phase' # "begin"
    PROVE  OnceInv'
<1> USE DEF TypeInv
<1>1. /\ SameOthers(s) /\ slots'[s].state = "IDLE" /\ loop' = loop
      /\ ToSet(queue_tasks') \cup ToSet(queue_tasks_deferred')
            = ToSet(queue_tasks) \cup ToSet(queue_tasks_deferred)
  BY ReleaseSets
<1>2. QueueOnce' /\ ToSet(queue_tasks_deferred') \subseteq ToSet(queue_tasks_deferred)
  <2>1. CASE PopDeferred
    BY <2>1, PopDeferredOnce DEF OnceInv
  <2>2. CASE UNCHANGED queueVars
    BY <2>2 DEF OnceInv, QueueOnce, queueVars
  <2> QED BY <2>1, <2>2 DEF ReleaseSlot
<1>3. NextOnce'
  BY <1>2 DEF OnceInv, NextOnce
<1>4. Queued' \subseteq Queued
  BY <1>1 DEF Queued
<1>5. \A t \in Slots : slots'[t].state # "IDLE" =>
                Processing(t) /\ slots'[t].id_task = slots[t].id_task
  BY <1>1 DEF SameOthers, Processing
<1> QED BY <1>2, <1>3, <1>4, <1>5, OnceFrame

LEMMA OnceTask ==
    ASSUME TypeInv, OnceInv, ProcessSingleTask
    PROVE  OnceInv'
<1> USE DEF TypeInv
<1>1. /\ loop = "new_task" /\ phase = "begin" /\ phase' = "end" /\ current \in Task
      /\ UNCHANGED httpVars
      /\ Queued = ToSet(queue_tasks) \cup ToSet(queue_tasks_deferred) \cup {current}
      /\ current \notin ToSet(queue_tasks) \cup ToSet(queue_tasks_deferred)
  BY DEF ProcessSingleTask, DeferTask, LaunchTask, CancelSlot, AnswerTask, IgnoreTask,
         CallbackGets, QueueTypes, Queued, OnceInv, QueueOnce
<1>2. CASE DeferTask
  <2>1. /\ queue_tasks_deferred' = Append(queue_tasks_deferred, current)
        /\ UNCHANGED <<queue_tasks, loop, current, slots>>
        /\ current.type \in Inference \cup {"SLOT_ACTION"}
    BY <1>1, <1>2 DEF DeferTask, Defer, Notify, CallbackGets
  <2>2. /\ IsInjective(queue_tasks_deferred')
        /\ ToSet(queue_tasks_deferred') = ToSet(queue_tasks_deferred) \cup {current}
    BY <1>1, <2>1, SetOfAppend, DistinctAppend DEF QueueTypes, OnceInv, QueueOnce
  <2>3. current # NextResponse
    <3>1. NextResponse.type \notin Inference \cup {"SLOT_ACTION"}
      BY NextIsTask DEF Inference
    <3> QED BY <2>1, <3>1
  <2>4. QueueOnce' /\ NextOnce'
    BY <1>1, <2>1, <2>2, <2>3 DEF OnceInv, QueueOnce, NextOnce
  <2>5. Queued' \subseteq Queued
    BY <1>1, <2>1, <2>2 DEF Queued
  <2> QED BY <1>1, <2>1, <2>4, <2>5, OnceFrame DEF httpVars, Processing
<1>3. CASE LaunchTask
  <2>1. PICK s \in Slots :
          /\ slots' = [slots EXCEPT ![s] =
                    [slots[s] EXCEPT !.id_task = current.id,
                              !.state = IF Owner(current.id) \in BadGrammar THEN "IDLE" ELSE "STARTED"]]
          /\ UNCHANGED queueVars /\ current.type \in Inference
    BY <1>3 DEF LaunchTask, Candidates, Idle, CallbackGets
  <2>2. /\ slots'[s].id_task = current.id
        /\ \A t \in Slots \ {s} : slots'[t] = slots[t]
    BY <2>1 DEF SlotTypes
  <2>3. current.id \in TaskId /\ current = RequestTask(current.id)
    BY <1>1, <2>1, TaskKinds DEF Inference, AnyKind
  <2>4. Queued' = Queued \ {current}
    BY <1>1, <2>1 DEF Queued, queueVars
  <2>5. QueueOnce' /\ NextOnce'
    BY <1>1, <2>1 DEF OnceInv, QueueOnce, NextOnce, queueVars
  <2> DEFINE cid == current.id
  <2>6. \A t \in Slots \ {s} : Processing(t) => slots[t].id_task # cid
    BY <1>1, <2>3 DEF OnceInv, SlotsOnce
  <2> HIDE DEF cid
  <2>7. FreshOnce'
    <3> SUFFICES ASSUME NEW r \in Request, pc'[r] \in {"start", "post"}, NEW id \in IdSet(r)
                 PROVE  RequestTask(id) \notin Queued' /\ ~IsRunning(id)'
      BY DEF FreshOnce
    <3>1. RequestTask(id) \notin Queued /\ ~IsRunning(id)
      BY <1>1 DEF OnceInv, FreshOnce, httpVars
    <3>2. id # cid
      BY <1>1, <2>3, <3>1 DEF cid
    <3> QED BY <2>2, <2>4, <3>1, <3>2 DEF IsRunning, Processing, cid
  <2>8. SlotsOnce'
    <3> SUFFICES ASSUME NEW t \in Slots, slots'[t].state # "IDLE"
                 PROVE  /\ slots'[t].id_task \in TaskId
                        /\ RequestTask(slots'[t].id_task) \notin Queued'
                        /\ \A x \in Slots \ {t} : slots'[x].state # "IDLE"
                                                    => slots'[x].id_task # slots'[t].id_task
      BY DEF SlotsOnce, Processing
    <3>1. CASE t = s
      <4>1. slots'[t].id_task = cid /\ cid \in TaskId /\ RequestTask(cid) \notin Queued'
        BY <2>2, <2>3, <2>4, <3>1 DEF cid
      <4> QED BY <2>2, <2>6, <3>1, <4>1 DEF Processing
    <3>2. CASE t # s
      <4>1. slots'[t] = slots[t] /\ Processing(t)
        BY <2>2, <3>2 DEF Processing
      <4>2. \A x \in Slots \ {t, s} : slots'[x] = slots[x]
        BY <2>2
      <4>3. slots[t].id_task # slots'[s].id_task
        BY <2>2, <2>6, <3>2, <4>1 DEF cid
      <4> QED BY <2>4, <4>1, <4>2, <4>3 DEF OnceInv, SlotsOnce, Processing
    <3> QED BY <3>1, <3>2
  <2> QED BY <2>5, <2>7, <2>8 DEF OnceInv
<1>4. CASE CancelSlot
  <2>1. CASE UNCHANGED <<slots, queueVars>>
    BY <1>1, <2>1, OnceQuiet DEF queueVars, httpVars, Processing
  <2>2. CASE ~ UNCHANGED <<slots, queueVars>>
    <3> DEFINE same == {s \in Slots : slots[s].id_task = current.id_target}
    <3>1. same # {} /\ ReleaseSlot(Min(same))
      BY <1>4, <2>2 DEF CancelSlot
    <3>2. Min(same) \in Slots
      <4>1. same \subseteq Nat
        BY ServerAssumption DEF Slots
      <4> HIDE DEF same
      <4>2. Min(same) \in same
        BY <3>1, <4>1, LeastIn
      <4> QED BY <4>2 DEF same
    <3> HIDE DEF same
    <3> QED BY <1>1, <3>1, <3>2, OnceReleases DEF httpVars
  <2> QED BY <2>1, <2>2
<1>5. CASE AnswerTask \/ IgnoreTask
  BY <1>1, <1>5, OnceQuiet DEF AnswerTask, IgnoreTask, queueVars, httpVars, Processing
<1> QED BY <1>2, <1>3, <1>4, <1>5 DEF ProcessSingleTask

LEMMA OncePass ==
    ASSUME TypeInv, OnceInv,
           \/ SendOutbox \/ CallbackReturns
           \/ UpdateAllIdle \/ UpdatePostsNext \/ BatchFilled \/ DecodeSucceeds \/ DecodeFails
           \/ ViewSampled
    PROVE  OnceInv'
<1> USE DEF TypeInv
<1>1. UNCHANGED <<slots, pc>>
  BY DEF SendOutbox, CallbackReturns, UpdateAllIdle, UpdatePostsNext, BatchFilled, DecodeSucceeds,
         DecodeFails, ViewSampled, httpVars
<1>2. CASE UpdatePostsNext
  <2>1. /\ Post(<<NextResponse>>, FALSE) /\ loop = "update_slots" /\ phase = "begin"
        /\ phase' = "prompt"
    BY <1>2 DEF UpdatePostsNext, InUpdate
  <2>2. /\ <<NextResponse>> \in Seq(Task) /\ IsInjective(<<NextResponse>>)
        /\ ToSet(<<NextResponse>>) = {NextResponse}
    <3>1. <<NextResponse>> \in Seq(Task) /\ DOMAIN <<NextResponse>> = {1}
          /\ <<NextResponse>>[1] = NextResponse
      BY NextIsTask
    <3> QED BY <3>1 DEF ToSet, IsInjective
  <2> DEFINE ts == <<NextResponse>>
  <2> HIDE DEF ts
  <2>3. /\ ts \in Seq(Task) /\ IsInjective(ts) /\ ToSet(ts) = {NextResponse} /\ Post(ts, FALSE)
    BY <2>1, <2>2 DEF ts
  <2>4. NextResponse \notin Queued
    BY <2>1 DEF OnceInv, NextOnce, Queued
  <2>5. QueueOnce'
    BY <2>1, <2>3, <2>4, PostOnce DEF OnceInv
  <2>6. /\ ToSet(queue_tasks') \subseteq ToSet(ts) \cup ToSet(queue_tasks)
        /\ ToSet(queue_tasks_deferred') \subseteq ToSet(queue_tasks_deferred)
        /\ loop' = "update_slots"
    BY <2>1, <2>3, PostSets
  <2>7. NextOnce'
    BY <2>1, <2>6 DEF OnceInv, NextOnce
  <2>8. \A id \in TaskId : RequestTask(id) \in Queued' => RequestTask(id) \in Queued
    BY <2>1, <2>3, <2>6, KindsDiffer DEF Queued
  <2> QED BY <1>1, <2>5, <2>7, <2>8, OnceFrame DEF Processing
<1>3. CASE ~UpdatePostsNext
  <2>1. UNCHANGED <<queue_tasks, queue_tasks_deferred>>
    BY <1>3 DEF SendOutbox, CallbackReturns, NewTaskReturns, UpdateSlotsReturns, UpdateAllIdle,
           BatchFilled, DecodeSucceeds, DecodeFails, ViewSampled, queueVars
  <2>2. CASE SendOutbox
    BY <1>1, <2>1, <2>2, OnceQuiet DEF SendOutbox, queueVars, Processing
  <2>3. CASE CallbackReturns
    <3>1. loop' \in {"drain", "recheck"}
      BY <2>3 DEF CallbackReturns, NewTaskReturns, UpdateSlotsReturns
    <3> QED BY <1>1, <2>1, <3>1, OnceQuiet DEF Processing
  <2>4. CASE ~SendOutbox /\ ~CallbackReturns
    <3>1. phase' # "begin"
      BY <1>3, <2>4 DEF UpdateAllIdle, BatchFilled, DecodeSucceeds, DecodeFails, ViewSampled
    <3> QED BY <1>1, <2>1, <3>1, OnceQuiet DEF Processing
  <2> QED BY <2>2, <2>3, <2>4
<1> QED BY <1>2, <1>3

LEMMA OnceSlot ==
    ASSUME TypeInv, OnceInv,
           \/ PromptFits \/ PromptRejected \/ FailSlot
           \/ SampleToken \/ StopSlot \/ SendEmbedding \/ ReleaseEmbedding
    PROVE  OnceInv'
<1> USE DEF TypeInv
<1>1. /\ loop = "update_slots" /\ phase # "begin" /\ phase' # "begin" /\ UNCHANGED pc
      /\ visit # {} => Min(visit) \in visit /\ Min(visit) \in Slots
  BY VisitedSlot DEF PromptFits, PromptRejected, FailSlot, SampleToken, StopSlot,
         SendEmbedding, ReleaseEmbedding, InUpdate, MainTypes, httpVars
<1>2. CASE PromptRejected \/ (FailSlot /\ visit # {}) \/ StopSlot \/ ReleaseEmbedding
  <2>1. PICK s \in Slots : ReleaseSlot(s)
    BY <1>1, <1>2 DEF PromptRejected, FailSlot, StopSlot, ReleaseEmbedding, InUpdate, Phases
  <2> QED BY <1>1, <2>1, OnceReleases
<1>3. CASE PromptFits \/ SampleToken
  <2>1. PICK s \in visit : /\ \/ slots' = [slots EXCEPT ![s].state = "DONE_PROMPT", ![s].n = 0]
                              \/ slots' = [slots EXCEPT ![s].state = "PROCESSING_PROMPT"]
                              \/ slots' = [slots EXCEPT ![s].state = "GENERATING", ![s].n = slots[s].n + 1]
                           /\ UNCHANGED queueVars /\ phase \in {"prompt", "sample"}
    BY <1>1, <1>3 DEF PromptFits, SampleToken, InUpdate, SetSlot
  <2>2. s \in Slots /\ Processing(s)
    BY <2>1 DEF MainTypes, Batches, Processing, Sampled
  <2>3. SameOthers(s) /\ slots'[s].id_task = slots[s].id_task
    BY <2>1, <2>2 DEF SlotTypes, SameOthers
  <2>4. \A t \in Slots : slots'[t].state # "IDLE" =>
                Processing(t) /\ slots'[t].id_task = slots[t].id_task
    BY <2>2, <2>3 DEF SameOthers, Processing
  <2> QED BY <1>1, <2>1, <2>4, OnceQuiet DEF queueVars
<1>4. CASE SendEmbedding \/ (FailSlot /\ visit = {})
  <2>1. UNCHANGED <<queueVars, slots>>
    BY <1>4 DEF SendEmbedding, FailSlot
  <2> QED BY <1>1, <2>1, OnceQuiet DEF queueVars, Processing
<1> QED BY <1>2, <1>3, <1>4

LEMMA OnceInit == Init => OnceInv
<1> SUFFICES ASSUME Init
             PROVE  OnceInv
  OBVIOUS
<1>1. /\ queue_tasks = <<>> /\ queue_tasks_deferred = <<>> /\ loop = "not_started"
      /\ ToSet(queue_tasks) = {} /\ ToSet(queue_tasks_deferred) = {}
      /\ Queued = {} /\ \A s \in Slots : ~Processing(s)
  BY DEF Init, QueueInit, Queued, ToSet, Processing
<1> QED BY <1>1 DEF OnceInv, QueueOnce, NextOnce, FreshOnce, SlotsOnce, IsRunning, IsInjective

LEMMA OnceNext == TypeInv /\ ForgetInv /\ OnceInv /\ [Next]_vars => OnceInv'
<1> SUFFICES ASSUME TypeInv, ForgetInv, OnceInv, [Next]_vars
             PROVE  OnceInv'
  OBVIOUS
<1>1. CASE UNCHANGED vars
  BY <1>1, OnceQuiet DEF vars, queueVars, mainVars, httpVars, Processing
<1>2. CASE MainThread
  BY <1>2, OnceLoop, OnceTask, OncePass, OnceSlot DEF MainThread, UpdateSlots
<1> QED BY <1>1, <1>2, OnceHttp DEF Next

\* A task is in one place: whatever is deferred, taken back, cancelled and
\* released, no task is queued twice, on two slots, or queued while a slot works
\* on it, and NEXT_RESPONSE tasks do not pile up.
THEOREM TasksOnce == Spec => []TaskOnce
BY OnceInit, OnceNext, ForgetInit, ForgetNext, TypesInit, TypesNext, OnceImplies, PTL DEF Spec

-----------------------------------------------------------------------------
(***************************************************************************)
(* Deferred tasks.  Only the release of a slot takes a task back from      *)
(* queue_tasks_deferred, one task at a time, so what matters is that some  *)
(* slot is, or will be, busy as long as a task is deferred.                *)
(***************************************************************************)

\* Every task that gets a slot keeps it until it is released.  A task that
\* launch_slot_with_task() rejects and a slot action use up the release of the
\* slot that took them back, and a slot that does not exist is never released.
Plain ==
    /\ BadGrammar = {}
    /\ \A r \in Request : Kind[r] # "SLOT_ACTION" /\ IdSlot[r] \in Slots \cup {NoId}

\* The tasks ahead of the deferred ones.
InFront ==
    ToSet(queue_tasks) \cup (IF loop = "new_task" /\ phase = "begin" THEN {current} ELSE {})

\* Some slot is busy, or is about to be.
Attended == (\E s \in Slots : Processing(s)) \/ (\E t \in InFront : t.type \in Inference)

StrandInv ==
    /\ \A t \in ToSet(queue_tasks_deferred) : t.type \in Inference
    /\ loop = "waiting" => queue_tasks = <<>>
    /\ queue_tasks_deferred # <<>> => Attended

\* The server goes to sleep with every slot idle and no task in front.
LEMMA StrandImplies == TypeInv /\ Awake /\ StrandInv => NoStrandedTask
<1> SUFFICES ASSUME TypeInv, Awake, StrandInv, loop = "waiting"
             PROVE  queue_tasks_deferred = <<>>
  BY DEF NoStrandedTask
<1>1. InFront = {}
  BY DEF StrandInv, InFront, ToSet
<1>2. \A s \in Slots : ~Processing(s)
  BY DEF Awake, AllIdle, Processing
<1> QED BY <1>1, <1>2 DEF StrandInv, Attended

\* A step that defers nothing.
LEMMA StrandFrame ==
    ASSUME StrandInv,
           ToSet(queue_tasks_deferred') \subseteq ToSet(queue_tasks_deferred),
           queue_tasks_deferred' # <<>> => queue_tasks_deferred # <<>>,
           loop' = "waiting" => queue_tasks' = <<>>,
           Attended => Attended'
    PROVE  StrandInv'
BY DEF StrandInv

\* Cleaning up adds nothing.
LEMMA CleanupEmpty ==
    ASSUME NEW q \in Seq(Task), NEW ts \in Seq(Task), CleanupPending(q, ts) # <<>>
    PROVE  q # <<>>
<1> SUFFICES ASSUME q = <<>>
             PROVE  FALSE
  OBVIOUS
<1> DEFINE R == CleanupPending(q, ts)
<1>1. R \in Seq(Task) /\ ToSet(R) \subseteq ToSet(q)
  BY CleanupKeeps
<1>2. R # <<>>
  OBVIOUS
<1> HIDE DEF R
<1>3. R[1] \in ToSet(R)
  BY <1>1, <1>2 DEF ToSet
<1> QED BY <1>1, <1>3 DEF ToSet

LEMMA StrandPost ==
    ASSUME TypeInv, StrandInv, NEW ts \in Seq(Task), NEW front \in BOOLEAN, Post(ts, front),
           UNCHANGED slots, phase' = phase \/ loop # "new_task"
    PROVE  StrandInv'
<1> USE DEF TypeInv
<1>1. /\ ToSet(queue_tasks_deferred') \subseteq ToSet(queue_tasks_deferred)
      /\ \A t \in ToSet(queue_tasks) : t.id_target = NoId => t \in ToSet(queue_tasks')
      /\ current' = current /\ loop' = IF loop = "waiting" THEN "notified" ELSE loop
  BY PostSets
<1>2. queue_tasks_deferred' # <<>> => queue_tasks_deferred # <<>>
  BY CleanupEmpty DEF Post, QueueTypes
<1>3. \A t \in ToSet(queue_tasks) : t.type \in Inference => t \in ToSet(queue_tasks')
  <2> SUFFICES ASSUME NEW t \in ToSet(queue_tasks), t.type \in Inference
               PROVE  t \in ToSet(queue_tasks')
    OBVIOUS
  <2>1. t \in Task
    BY DEF ToSet, QueueTypes
  <2>2. t.id \in TaskId /\ t = RequestTask(t.id)
    BY <2>1, TaskKinds DEF Inference, AnyKind
  <2>3. t.id_target = NoId
    BY <2>2, RequestTasks
  <2> QED BY <1>1, <2>3
<1>4. Attended => Attended'
  BY <1>1, <1>3 DEF Attended, InFront, Processing
<1> QED BY <1>1, <1>2, <1>4, StrandFrame

LEMMA StrandPop ==
    ASSUME TypeInv, StrandInv, PopDeferred, loop # "waiting"
    PROVE  StrandInv'
<1> USE DEF TypeInv
<1>1. loop' = loop /\ queue_tasks_deferred \in Seq(Task) /\ queue_tasks \in Seq(Task)
  BY DEF PopDeferred, Notify, QueueTypes
<1>2. CASE queue_tasks_deferred = <<>>
  BY <1>1, <1>2 DEF PopDeferred, StrandInv
<1>3. CASE queue_tasks_deferred # <<>>
  <2> DEFINE h == Head(queue_tasks_deferred)
             d == Tail(queue_tasks_deferred)
  <2>1. queue_tasks' = Append(queue_tasks, h) /\ queue_tasks_deferred' = d
    BY <1>3 DEF PopDeferred
  <2>2. /\ h \in Task /\ d \in Seq(Task)
        /\ ToSet(queue_tasks_deferred) = {h} \cup ToSet(d)
    BY <1>1, <1>3, SetOfTail
  <2> HIDE DEF h, d
  <2>3. h \in ToSet(queue_tasks')
    BY <1>1, <2>1, <2>2, SetOfAppend
  <2>4. h.type \in Inference
    BY <2>2 DEF StrandInv
  <2>5. Attended'
    BY <2>3, <2>4 DEF Attended, InFront
  <2> QED BY <1>1, <2>1, <2>2, <2>5 DEF StrandInv
<1> QED BY <1>2, <1>3

\* Whatever becomes of the slot, a release takes a deferred task back.
LEMMA StrandRelease ==
    ASSUME TypeInv, StrandInv, NEW s \in Slots, ReleaseSlot(s),
           loop \in {"new_task", "update_slots"},
           \A t \in InFront : t.type \in Inference => t \in InFront'
    PROVE  StrandInv'
<1>1. CASE PopDeferred
  BY <1>1, StrandPop
<1>2. CASE UNCHANGED <<slots, queueVars>>
  <2>1. Attended => Attended'
    BY <1>2 DEF Attended, Processing
  <2> QED BY <1>2, <2>1, StrandFrame DEF queueVars
<1> QED BY <1>1, <1>2 DEF ReleaseSlot

LEMMA StrandHttp ==
    ASSUME TypeInv, StrandInv, NEW r \in Request, HttpThread(r) \/ ClientCloses(r)
    PROVE  StrandInv'
<1>1. UNCHANGED <<slots, phase>>
  BY DEF HttpThread, ClientCloses, Begin, PostTasks, Provide, ReceivePolling, ReceiveOnce, FallAsleep,
         PollExpires, CancelForgets, CancelPosts, Finish, mainVars
<1>2. CASE UNCHANGED queueVars
  BY <1>1, <1>2 DEF queueVars, StrandInv, Attended, InFront, Processing
<1>3. CASE PostTasks(r) \/ CancelPosts(r)
  BY <1>1, <1>3, StrandPost, PostedTasks DEF PostTasks, CancelPosts
<1> QED
  BY <1>2, <1>3 DEF HttpThread, ClientCloses, Begin, Provide, ReceivePolling, ReceiveOnce, FallAsleep,
     PollExpires, CancelForgets, Finish

LEMMA StrandLoop ==
    ASSUME TypeInv, StrandInv, MainLoop
    PROVE  StrandInv'
<1> USE DEF TypeInv
<1>1. UNCHANGED <<slots, phase>> /\ (loop = "drain" => phase = "begin")
  BY DEF MainLoop, mainVars, Phases
<1>2. CASE PopTask
  <2>1. /\ ToSet(queue_tasks) = ToSet(queue_tasks') \cup {current'}
        /\ UNCHANGED queue_tasks_deferred /\ loop = "drain" /\ loop' = "new_task"
    BY <1>2, PopTaskSets DEF PopTask
  <2> QED BY <1>1, <2>1 DEF StrandInv, Attended, InFront, Processing
<1>3. CASE ~PopTask
  <2>1. /\ UNCHANGED <<queue_tasks, queue_tasks_deferred>>
        /\ loop # "new_task" /\ loop' # "new_task"
        /\ loop' = "waiting" => queue_tasks = <<>>
    BY <1>3 DEF MainLoop, LoopStep, StartLoop, Drained, Recheck, WakeUp, LoopExits
  <2> QED BY <1>1, <2>1 DEF StrandInv, Attended, InFront, Processing
<1> QED BY <1>2, <1>3

LEMMA StrandTask ==
    ASSUME Plain, TypeInv, StrandInv, ProcessSingleTask
    PROVE  StrandInv'
<1> USE DEF TypeInv
<1>1. /\ loop = "new_task" /\ phase = "begin" /\ phase' = "end" /\ current \in Task
      /\ InFront = ToSet(queue_tasks) \cup {current}
      /\ InFront' = ToSet(queue_tasks')
  BY DEF ProcessSingleTask, DeferTask, LaunchTask, CancelSlot, AnswerTask, IgnoreTask,
         CallbackGets, QueueTypes, InFront
<1>2. CASE DeferTask
  <2>1. /\ queue_tasks_deferred' = Append(queue_tasks_deferred, current)
        /\ UNCHANGED <<queue_tasks, loop, current, slots>>
        /\ current.type \in Inference \cup {"SLOT_ACTION"}
        /\ Idle(Candidates(current)) = {}
    BY <1>1, <1>2 DEF DeferTask, Defer, Notify, CallbackGets
  <2>2. current.id \in TaskId /\ current = RequestTask(current.id)
    BY <1>1, <2>1, TaskKinds DEF Inference, AnyKind
  <2> DEFINE r == Owner(current.id)
  <2>3. r \in Request /\ current.type = TaskType(r) /\ current.id_slot = IdSlot[r]
    BY <2>2, OwnerHas DEF RequestTask, NewTask
  <2> HIDE DEF r
  <2>4. current.type \in Inference /\ current.id_slot \in Slots \cup {NoId}
    BY <2>1, <2>3 DEF Plain, TaskType, Inference
  <2>5. \E s \in Slots : Processing(s)
    <3>1. 0 \in Slots
      BY ServerAssumption DEF Slots
    <3> QED BY <2>1, <2>4, <3>1 DEF Candidates, Idle
  <2>6. ToSet(queue_tasks_deferred') = ToSet(queue_tasks_deferred) \cup {current}
    BY <1>1, <2>1, SetOfAppend DEF QueueTypes
  <2> QED BY <1>1, <2>1, <2>4, <2>5, <2>6 DEF StrandInv, Attended, Processing
<1>3. CASE LaunchTask
  <2>1. PICK s \in Slots :
          slots' = [slots EXCEPT ![s] = [slots[s] EXCEPT !.id_task = current.id, !.state = "STARTED"]]
    <3>1. current.id \in TaskId
      BY <1>1, <1>3, TaskKinds DEF LaunchTask, CallbackGets, Inference, AnyKind
    <3>2. Owner(current.id) \notin BadGrammar
      BY DEF Plain
    <3> QED BY <1>3, <3>2 DEF LaunchTask, Candidates, Idle
  <2>2. slots'[s].state = "STARTED"
    BY <2>1 DEF SlotTypes
  <2>3. Attended'
    BY <2>2 DEF Attended, Processing
  <2> QED BY <1>1, <1>3, <2>3 DEF LaunchTask, queueVars, StrandInv
<1>4. ASSUME current.type \notin Inference
      PROVE  \A t \in InFront : t.type \in Inference => t \in ToSet(queue_tasks)
  BY <1>1, <1>4
<1>5. CASE CancelSlot
  <2>1. current.type \notin Inference
    BY <1>5 DEF CancelSlot, CallbackGets, Inference
  <2>2. CASE UNCHANGED <<slots, queueVars>>
    <3>1. Attended => Attended'
      BY <1>1, <1>4, <2>1, <2>2 DEF Attended, Processing, queueVars
    <3> QED BY <1>1, <2>2, <3>1, StrandFrame DEF queueVars
  <2>3. CASE ~ UNCHANGED <<slots, queueVars>>
    <3> DEFINE same == {s \in Slots : slots[s].id_task = current.id_target}
    <3>1. same # {} /\ ReleaseSlot(Min(same))
      BY <1>5, <2>3 DEF CancelSlot
    <3>2. PopDeferred
      BY <2>3, <3>1 DEF ReleaseSlot
    <3> QED BY <1>1, <3>2, StrandPop
  <2> QED BY <2>2, <2>3
<1>6. CASE AnswerTask \/ IgnoreTask
  <2>1. current.type \notin Inference /\ UNCHANGED <<slots, queueVars>>
    BY <1>6 DEF AnswerTask, IgnoreTask, CallbackGets, Inference
  <2>2. Attended => Attended'
    BY <1>1, <1>4, <2>1 DEF Attended, Processing, queueVars
  <2> QED BY <1>1, <2>1, <2>2, StrandFrame DEF queueVars
<1> QED BY <1>2, <1>3, <1>5, <1>6 DEF ProcessSingleTask

LEMMA StrandUpdate ==
    ASSUME TypeInv, StrandInv, UpdateSlots
    PROVE  StrandInv'
<1> USE DEF TypeInv
<1>1. /\ loop = "update_slots"
      /\ visit # {} => Min(visit) \in visit /\ Min(visit) \in Slots
  BY VisitedSlot DEF UpdateSlots, UpdateAllIdle, UpdatePostsNext, PromptFits, PromptRejected,
       BatchFilled, DecodeSucceeds, DecodeFails, FailSlot, SampleToken, StopSlot, SendEmbedding,
       ReleaseEmbedding, ViewSampled, InUpdate, MainTypes
<1>2. InFront = ToSet(queue_tasks)
  BY <1>1 DEF InFront
<1>3. CASE UpdatePostsNext
  <2>1. /\ Post(<<NextResponse>>, FALSE) /\ UNCHANGED slots
    BY <1>3 DEF UpdatePostsNext
  <2>2. <<NextResponse>> \in Seq(Task)
    BY NextIsTask
  <2> QED BY <1>1, <2>1, <2>2, StrandPost
<1>4. CASE PopDeferred
  BY <1>1, <1>4, StrandPop
<1>5. ASSUME UNCHANGED queueVars,
             (\E s \in Slots : Processing(s)) => \E s \in Slots : slots'[s].state # "IDLE"
      PROVE  StrandInv'
  <2>1. Attended => Attended'
    BY <1>1, <1>2, <1>5 DEF Attended, InFront, Processing, queueVars
  <2> QED BY <1>1, <1>5, <2>1, StrandFrame DEF queueVars
<1>6. CASE PopDeferred \/ UNCHANGED <<slots, queueVars>>
  BY <1>4, <1>5, <1>6 DEF Processing
<1>7. CASE PromptRejected \/ FailSlot \/ StopSlot \/ ReleaseEmbedding
  BY <1>6, <1>7 DEF PromptRejected, FailSlot, StopSlot, ReleaseEmbedding, ReleaseSlot, queueVars
<1>8. CASE PromptFits \/ SampleToken
  <2>1. PICK s \in Slots : /\ \/ slots' = [slots EXCEPT ![s].state = "DONE_PROMPT", ![s].n = 0]
                              \/ slots' = [slots EXCEPT ![s].state = "PROCESSING_PROMPT"]
                              \/ slots' = [slots EXCEPT ![s].state = "GENERATING", ![s].n = slots[s].n + 1]
                           /\ UNCHANGED queueVars
    BY <1>1, <1>8 DEF PromptFits, SampleToken, InUpdate, SetSlot
  <2>2. slots'[s].state # "IDLE"
    BY <2>1 DEF SlotTypes
  <2> QED BY <1>5, <2>1, <2>2
<1> QED
  BY <1>3, <1>6, <1>7, <1>8 DEF UpdateSlots, UpdateAllIdle, BatchFilled, DecodeSucceeds, DecodeFails,
     SendEmbedding, ViewSampled

LEMMA StrandNext == Plain /\ TypeInv /\ StrandInv /\ [Next]_vars => StrandInv'
<1> SUFFICES ASSUME Plain, TypeInv, StrandInv, [Next]_vars
             PROVE  StrandInv'
  OBVIOUS
<1>1. CASE UNCHANGED vars
  BY <1>1 DEF vars, queueVars, mainVars, StrandInv, Attended, InFront, Processing
<1>2. CASE SendOutbox \/ CallbackReturns
  <2>1. /\ UNCHANGED <<slots, queue_tasks, queue_tasks_deferred>>
        /\ loop' = "new_task" /\ phase' = "begin" <=> loop = "new_task" /\ phase = "begin"
        /\ current' = current \/ ~(loop = "new_task" /\ phase = "begin")
        /\ loop' = "waiting" => loop = "waiting"
    BY <1>2 DEF SendOutbox, CallbackReturns, NewTaskReturns, UpdateSlotsReturns, queueVars
  <2> QED BY <2>1 DEF StrandInv, Attended, InFront, Processing
<1> QED
  BY <1>1, <1>2, StrandHttp, StrandLoop, StrandTask, StrandUpdate DEF Next, MainThread

\* No task stays deferred in a server that sleeps, provided that no request is
\* for a slot action or for a slot that does not exist and that no task is
\* rejected when it is launched: the release of the last busy slot takes one
\* deferred task back, which then gets a slot itself.
THEOREM NothingStranded == Plain => (Spec => []NoStrandedTask)
<1> SUFFICES ASSUME Plain
             PROVE  Spec => []NoStrandedTask
  OBVIOUS
<1>1. Init => StrandInv
  <2> SUFFICES ASSUME Init
               PROVE  StrandInv
    OBVIOUS
  <2>1. queue_tasks_deferred = <<>> /\ ToSet(queue_tasks_deferred) = {} /\ loop = "not_started"
    BY DEF Init, QueueInit, ToSet
  <2> QED BY <2>1 DEF StrandInv
<1>2. TypeInv /\ StrandInv /\ [Next]_vars => StrandInv'
  BY StrandNext
<1> QED
  BY <1>1, <1>2, AwakeInit, AwakeNext, TypesInit, TypesNext, StrandImplies, PTL DEF Spec

-----------------------------------------------------------------------------
(***************************************************************************)
(* Results.  A result is sent while somebody waits for the task, so what   *)
(* has to be shown is which results are still under way once a request     *)
(* has stopped waiting, and which may still come once a task has been      *)
(* answered: none, because the slot that works on a task gives it up with  *)
(* its final result.  The errors that follow a failed decode are sent to   *)
(* idle slots, too, and are excused everywhere.                            *)
(***************************************************************************)

\* The results of a task that wait to be taken, and to be sent.
ResultsOf(id) == {res \in ToSet(queue_results) : res.id = id}
LeavingOf(id) == {res \in ToSet(outbox) : res.id = id}

\* remove_waiting_task_id() has been called for the task, or, for a request
\* that does not poll, the handler has returned.
Dropped(r, id) ==
    \/ id \in cancelled
    \/ pc[r] = "cancel" /\ id \notin left[r]
    \/ pc[r] = "done" /\ ~Polls(r)

\* What server_response knows of a request.
Books(r) ==
    /\ pc[r] \in {"post", "provide"} => left[r] = IdSet(r)
    /\ \A id \in IdSet(r) :
         /\ \/ pc[r] = "cancel" /\ id \in left[r]
            \/ pc[r] = "finish" /\ id \notin cancelled
            => id \in waiting_task_ids
         /\ id \in cancelled => pc[r] \in {"finish", "done"}
         /\ Dropped(r, id) => id \notin waiting_task_ids /\ ResultsOf(id) = {}

WaitInv == \A r \in Request : Books(r)

\* A slot works on its task until it is released, or has sent its embedding.
Working(s) == Processing(s) /\ ~(phase = "embedded" /\ s = Min(visit))
Works(id) == RequestTask(id) \in Queued \/ \E s \in Slots : Working(s) /\ slots[s].id_task = id

\* The request has taken the last result of the task.
Gone(r, id) ==
    \/ pc[r] = "receive" /\ id \notin left[r]
    \/ pc[r] \in {"finish", "done"} /\ Polls(r) /\ r \notin closed /\ id \notin cancelled

\* A new task has no results; one that is answered, or about to be, is not
\* worked on, so that only an excused result can follow.
Settled(r, id) ==
    /\ pc[r] \in {"start", "post"} => ResultsOf(id) \cup LeavingOf(id) = {}
    /\ \A res \in LeavingOf(id) : ~Works(id) /\ (Answered(id) => Excused(res))
    /\ Answered(id) => ~Works(id)
    /\ Gone(r, id) => ~Works(id) /\ \A res \in ResultsOf(id) \cup LeavingOf(id) : Excused(res)

\* Two results of a task, the first of which should have been the last.
Repeats ==
    {p \in ResultType(TaskId) \X ResultType(TaskId) :
        p[1].id = p[2].id /\ p[1].stop /\ ~Excused(p[2])}

\* An idle slot keeps the id of its last task, which is nowhere else.
AssignedOnce ==
    \A s \in Slots : slots[s].id_task # NoId =>
        /\ RequestTask(slots[s].id_task) \notin Queued
        /\ pc[Owner(slots[s].id_task)] \notin {"start", "post"}
        /\ \A t \in Slots \ {s} : slots[t].id_task # slots[s].id_task

\* The callbacks prepare one result at a time.
Callback ==
    /\ outbox = <<>> \/ \E x : outbox = <<x>>
    /\ phase = "fail" => failures > 0
    /\ phase = "embedded" => outbox = <<>>

AnswerInv ==
    /\ \A r \in Request : \A id \in IdSet(r) : Settled(r, id)
    /\ NoneAfter(queue_results, Repeats)
    /\ AssignedOnce
    /\ Callback

\* What is in queue_results follows no final result, and is not gone.
LEMMA AnswerImplies == TypeInv /\ AnswerInv => OneAnswer
<1> SUFFICES ASSUME TypeInv, AnswerInv, NEW i \in DOMAIN queue_results, ~Excused(queue_results[i])
             PROVE  LET res == queue_results[i]
                        r   == Owner(res.id)
                    IN  /\ pc[r] = "receive" => res.id \in left[r]
                        /\ \A j \in 1 .. i - 1 : queue_results[j].id = res.id => ~queue_results[j].stop
  BY DEF OneAnswer
<1>1. queue_results \in Seq(ResultType(TaskId))
  BY DEF TypeInv, ResponseTypes
<1> DEFINE res == queue_results[i]
           r   == Owner(res.id)
<1>2. res \in ResultType(TaskId) /\ res.id \in TaskId /\ res \in ToSet(queue_results)
  <2>1. res \in ResultType(TaskId)
    BY <1>1
  <2> QED BY <2>1 DEF ResultType, ToSet
<1>3. r \in Request /\ res.id \in IdSet(r)
  BY <1>2, OwnerHas
<1>4. pc[r] = "receive" => res.id \in left[r]
  <2>1. res \in ResultsOf(res.id)
    BY <1>2 DEF ResultsOf
  <2>2. Settled(r, res.id)
    BY <1>3 DEF AnswerInv
  <2> HIDE DEF r, res
  <2> QED BY <2>1, <2>2 DEF Settled, Gone, res
<1>5. ASSUME NEW j \in 1 .. i - 1, queue_results[j].id = res.id
      PROVE  ~queue_results[j].stop
  <2>1. j \in DOMAIN queue_results /\ j < i /\ queue_results[j] \in ResultType(TaskId)
    BY <1>1
  <2>2. <<queue_results[j], res>> \notin Repeats
    BY <2>1 DEF AnswerInv, NoneAfter
  <2> QED BY <1>2, <1>5, <2>1, <2>2 DEF Repeats
<1> QED BY <1>4, <1>5

\* A result without a waiter can only be left by a request that has closed.
LEMMA WaiterImplies == TypeInv /\ ForgetInv /\ WaitInv /\ AnswerInv => ResultsHaveWaiter
<1> SUFFICES ASSUME TypeInv, ForgetInv, WaitInv, AnswerInv, NEW res \in ToSet(queue_results),
                    ~Excused(res), res.id \notin waiting_task_ids
             PROVE  /\ pc[Owner(res.id)] = "done" /\ Owner(res.id) \in closed
                    /\ res.id \notin cancelled
  BY DEF ResultsHaveWaiter
<1>1. res.id \in TaskId
  <2>1. queue_results \in Seq(ResultType(TaskId))
    BY DEF TypeInv, ResponseTypes
  <2>2. res \in ResultType(TaskId)
    BY <2>1 DEF ToSet
  <2> QED BY <2>2 DEF ResultType
<1> DEFINE id == res.id
<1>2. PICK r \in Request : r = Owner(id) /\ id \in IdSet(r)
  BY <1>1, OwnerHas
<1>3. res \in ResultsOf(id)
  BY DEF ResultsOf
<1>4. Books(r) /\ Settled(r, id)
  BY <1>2 DEF WaitInv, AnswerInv
<1> HIDE DEF id
<1>5. pc[r] \notin {"start", "post"} /\ ~Gone(r, id) /\ ~Dropped(r, id)
  BY <1>2, <1>3, <1>4 DEF Settled, Books
<1>6. pc[r] \notin {"provide", "receive"}
  BY <1>2 DEF ForgetInv, Registered, id
<1>7. pc[r] = "done" /\ Polls(r)
  BY <1>2, <1>4, <1>5, <1>6 DEF Books, Dropped, TypeInv, HttpTypes, id
<1> QED BY <1>2, <1>5, <1>7 DEF Gone, Dropped, id

LEMMA AnswerInit == Init => WaitInv /\ AnswerInv
<1> SUFFICES ASSUME Init
             PROVE  WaitInv /\ AnswerInv
  OBVIOUS
<1>1. /\ ToSet(queue_results) = {} /\ ToSet(outbox) = {} /\ queue_results = <<>> /\ outbox = <<>>
      /\ phase = "begin" /\ cancelled = {} /\ \A r \in Request : pc[r] = "start"
      /\ \A s \in Slots : slots[s].id_task = NoId
  BY DEF Init, ResponseInit, ToSet
<1>2. WaitInv
  BY <1>1 DEF WaitInv, Books, Dropped
<1>3. AnswerInv
  BY <1>1 DEF AnswerInv, Settled, ResultsOf, LeavingOf, Answered, Gone, NoneAfter, AssignedOnce, Callback
<1> QED BY <1>2, <1>3

\* What a step of a thread leaves to the others.
OwnStep(r) ==
    /\ UNCHANGED mainVars
    /\ pc' \in [Request -> {"start", "post", "provide", "receive", "cancel", "finish", "done"}]
    /\ \A q \in Request \ {r} : pc'[q] = pc[q] /\ left'[q] = left[q]
    /\ \A q \in Request \ {r} : q \in closed' <=> q \in closed
    /\ closed \subseteq closed'
    /\ \A id : id \notin IdSet(r) => (id \in cancelled' <=> id \in cancelled)
    /\ \A id : id \notin IdSet(r) => (id \in waiting_task_ids' <=> id \in waiting_task_ids)
    /\ ToSet(queue_results') \subseteq ToSet(queue_results)

\* Every step of a thread is one.
LEMMA HttpOwn ==
    ASSUME TypeInv, TypeInv', NEW r \in Request, HttpThread(r) \/ ClientCloses(r)
    PROVE  OwnStep(r)
<1> USE DEF TypeInv
<1>1. /\ UNCHANGED mainVars
      /\ \A q \in Request \ {r} : pc'[q] = pc[q] /\ left'[q] = left[q]
      /\ \A q \in Request \ {r} : q \in closed' <=> q \in closed
      /\ closed \subseteq closed'
  BY DEF HttpThread, ClientCloses, Begin, PostTasks, Provide, ReceivePolling, ReceiveOnce, FallAsleep, PollExpires,
         CancelForgets, CancelPosts, Finish, Goto, HttpTypes, httpVars
<1>2. \A id : id \notin IdSet(r) => (id \in cancelled' <=> id \in cancelled)
  BY DEF HttpThread, ClientCloses, Begin, PostTasks, Provide, ReceivePolling, ReceiveOnce, FallAsleep, PollExpires,
         CancelForgets, CancelPosts, Finish, httpVars
<1>3. /\ \A id : id \notin IdSet(r) => (id \in waiting_task_ids' <=> id \in waiting_task_ids)
      /\ ToSet(queue_results') \subseteq ToSet(queue_results)
  <2>1. CASE ReceivePolling(r) \/ ReceiveOnce(r)
    BY <2>1, TakeTypes DEF ReceivePolling, ReceiveOnce
  <2>2. ASSUME NEW id \in IdSet(r), RemoveWaitingId(id)
        PROVE  /\ \A x : x \notin IdSet(r) => (x \in waiting_task_ids' <=> x \in waiting_task_ids)
               /\ ToSet(queue_results') \subseteq ToSet(queue_results)
    BY <2>2, OwnerOf, ForgetTypes
  <2>3. CASE CancelForgets(r)
    BY <2>2, <2>3 DEF CancelForgets, HttpTypes
  <2>4. CASE Finish(r)
    <3>1. Ids[r][1] \in IdSet(r)
      <4>1. Ids[r] \in Seq(IdSet(r)) /\ Ids[r] # <<>>
        BY RequestIds
      <4> QED BY <4>1
    <3> QED BY <2>2, <2>4, <3>1 DEF Finish, RemoveWaitingIds
  <2>5. CASE Begin(r) \/ PostTasks(r) \/ Provide(r) \/ ClientCloses(r) \/ FallAsleep(r) \/ PollExpires(r) \/ CancelPosts(r)
    BY <2>5 DEF Begin, AddWaiting, PostTasks, Provide, ClientCloses, FallAsleep, TimedRecvSleeps, RecvSleeps,
       PollExpires, TimedRecvExpires, CancelPosts, responseVars
  <2> QED BY <2>1, <2>3, <2>4, <2>5 DEF HttpThread
<1> QED BY <1>1, <1>2, <1>3 DEF OwnStep, HttpTypes

\* It is enough to look at the thread's own ids.
LEMMA BooksFrame ==
    ASSUME TypeInv, WaitInv, NEW r \in Request, OwnStep(r), Books(r)'
    PROVE  WaitInv'
<1> SUFFICES ASSUME NEW q \in Request, q # r
             PROVE  Books(q)'
  BY DEF WaitInv
<1>1. pc'[q] = pc[q] /\ left'[q] = left[q] /\ Books(q)
  BY DEF OwnStep, WaitInv
<1>2. ASSUME NEW id \in IdSet(q)
      PROVE  /\ id \in waiting_task_ids' <=> id \in waiting_task_ids
             /\ id \in cancelled' <=> id \in cancelled
             /\ ResultsOf(id)' \subseteq ResultsOf(id)
  <2>1. id \notin IdSet(r)
    BY IdsAssumption
  <2> QED BY <2>1 DEF OwnStep, ResultsOf
<1> QED BY <1>1, <1>2 DEF Books, Dropped

\* What a thread does to its ids it does to its books.
LEMMA BooksHttp ==
    ASSUME TypeInv, TypeInv', ForgetInv, WaitInv, NEW r \in Request, HttpThread(r) \/ ClientCloses(r)
    PROVE  WaitInv'
<1> USE DEF TypeInv
<1>1. OwnStep(r) /\ Books(r)
  BY HttpOwn DEF WaitInv
<1>2. pc[r] \in {"post", "provide", "receive"} => IdSet(r) \subseteq waiting_task_ids
  BY DEF ForgetInv, Registered
<1>3. \A id \in IdSet(r) : ResultsOf(id)' \subseteq ResultsOf(id)
  BY <1>1 DEF OwnStep, ResultsOf
<1>4. CASE Begin(r)
  <2>1. /\ pc[r] = "start" /\ pc'[r] = "post" /\ left'[r] = IdSet(r) /\ UNCHANGED cancelled
    BY <1>4 DEF Begin, Goto, HttpTypes
  <2> QED BY <1>1, <2>1, BooksFrame DEF Books, Dropped
<1>5. CASE PostTasks(r)
  <2>1. /\ pc[r] = "post" /\ pc'[r] \in {"provide", "receive"} /\ UNCHANGED <<cancelled, left>>
    BY <1>5 DEF PostTasks, Goto, HttpTypes
  <2> QED BY <1>1, <2>1, BooksFrame DEF Books, Dropped
<1>6. CASE ClientCloses(r) \/ FallAsleep(r)
  <2>1. UNCHANGED <<pc, left, cancelled, waiting_task_ids, queue_results>>
    BY <1>6 DEF ClientCloses, FallAsleep, RecvSleeps, TimedRecvSleeps, responseVars, httpVars
  <2> QED BY <1>1, <2>1, BooksFrame DEF Books, Dropped, ResultsOf
<1>7. CASE Provide(r)
  <2>1. /\ pc[r] = "provide" /\ pc'[r] \in {"receive", "finish"} /\ UNCHANGED <<cancelled, left, waiting_task_ids>>
    BY <1>7 DEF Provide, Goto, HttpTypes, responseVars
  <2> QED BY <1>1, <1>2, <2>1, BooksFrame DEF Books, Dropped
<1>8. CASE ReceivePolling(r) \/ ReceiveOnce(r) \/ PollExpires(r)
  <2>1. /\ pc[r] = "receive" /\ UNCHANGED cancelled
        /\ \/ pc'[r] \in {"finish", "receive"}
           \/ pc'[r] = "cancel" /\ left'[r] = IdSet(r)
    BY <1>8 DEF ReceivePolling, ReceiveOnce, PollExpires, Goto, HttpTypes
  <2>2. waiting_task_ids' = waiting_task_ids
    BY <1>8, TakeTypes DEF ReceivePolling, ReceiveOnce, PollExpires, TimedRecvExpires
  <2> QED BY <1>1, <1>2, <2>1, <2>2, BooksFrame DEF Books, Dropped
<1>9. ASSUME NEW id \in IdSet(r), RemoveWaitingId(id)
      PROVE  /\ waiting_task_ids' = waiting_task_ids \ {id}
             /\ ResultsOf(id)' = {}
  <2>1. /\ waiting_task_ids' = waiting_task_ids \ {id}
        /\ ToSet(queue_results') = {res \in ToSet(queue_results) : res.id # id}
    BY <1>9, OwnerOf, ForgetTypes
  <2> QED BY <2>1 DEF ResultsOf
<1>10. CASE CancelForgets(r)
  <2>1. PICK id \in IdSet(r) : /\ RemoveWaitingId(id) /\ left'[r] = left[r] \ {id}
                               /\ pc[r] = "cancel" /\ UNCHANGED <<pc, cancelled>>
    BY <1>10 DEF CancelForgets, HttpTypes
  <2> QED BY <1>1, <1>3, <1>9, <2>1, BooksFrame DEF Books, Dropped
<1>11. CASE CancelPosts(r)
  <2>1. /\ pc[r] = "cancel" /\ left[r] = {} /\ pc'[r] = "finish" /\ UNCHANGED responseVars
        /\ cancelled' = cancelled \cup IdSet(r)
    BY <1>11 DEF CancelPosts, Goto, HttpTypes
  <2> QED BY <1>1, <1>3, <2>1, BooksFrame DEF Books, Dropped, responseVars
<1>12. CASE Finish(r)
  <2>1. /\ pc[r] = "finish" /\ pc'[r] = "done" /\ UNCHANGED cancelled
    BY <1>12 DEF Finish, Goto, HttpTypes
  <2>2. CASE Polls(r)
    <3>1. waiting_task_ids' = waiting_task_ids \ IdSet(r)
      BY <1>12, <2>2 DEF Finish, RemoveWaitingIds
    <3>2. Polls(r)' <=> Polls(r)
      BY DEF Polls
    <3> QED BY <1>1, <1>3, <2>1, <2>2, <3>1, <3>2, BooksFrame DEF Books, Dropped
  <2>3. CASE ~Polls(r)
    <3>1. Len(Ids[r]) = 1 /\ Ids[r] \in Seq(IdSet(r))
      BY <2>3, IdsAssumption
    <3>2. PICK id \in IdSet(r) : id = Ids[r][1]
      BY <3>1
    <3>3. IdSet(r) = {id}
      <4>1. DOMAIN Ids[r] = {1}
        BY <3>1
      <4> QED BY <3>2, <4>1 DEF IdSet, ToSet
    <3>4. RemoveWaitingId(id)
      BY <1>12, <2>3, <3>2 DEF Finish
    <3>5. waiting_task_ids' = waiting_task_ids \ {id} /\ ResultsOf(id)' = {}
      BY <1>9, <3>4
    <3> QED BY <1>1, <2>1, <3>3, <3>5, BooksFrame DEF Books, Dropped
  <2> QED BY <2>2, <2>3
<1> QED
  BY <1>4, <1>5, <1>6, <1>7, <1>8, <1>10, <1>11, <1>12 DEF HttpThread

\* The answers stay, or the thread takes some.
LEMMA AnswerHttpFrame ==
    ASSUME TypeInv, TypeInv', AnswerInv, NEW r \in Request, OwnStep(r),
           NoneAfter(queue_results', Repeats),
           pc'[r] \in {"start", "post"} => pc[r] \in {"start", "post"},
           \A id \in TaskId : RequestTask(id) \in Queued' =>
                RequestTask(id) \in Queued \/ (id \in IdSet(r) /\ pc[r] = "post" /\ pc'[r] # "post"),
           \A id \in IdSet(r) : Gone(r, id)' =>
                /\ pc[r] # "post"
                /\ ~Works(id)
                /\ \A res \in ResultsOf(id)' \cup LeavingOf(id)' : Excused(res)
    PROVE  AnswerInv'
<1> USE DEF TypeInv
<1>1. /\ UNCHANGED <<slots, phase, visit, outbox, failures>>
      /\ \A q \in Request \ {r} : pc'[q] = pc[q]
      /\ ToSet(queue_results') \subseteq ToSet(queue_results)
  BY DEF OwnStep, mainVars
<1>2. /\ \A id : ResultsOf(id)' \subseteq ResultsOf(id) /\ LeavingOf(id)' = LeavingOf(id)
      /\ \A id : Answered(id)' => Answered(id)
      /\ \A res : Excused(res)' <=> Excused(res)
  BY <1>1 DEF ResultsOf, LeavingOf, Answered, Excused
<1>3. ASSUME NEW q \in Request, NEW id \in IdSet(q)
      PROVE  Settled(q, id)'
  <2>1. Settled(q, id) /\ id \in TaskId
    BY <1>3, OwnerOf DEF AnswerInv
  <2>2. Works(id)' => Works(id) \/ (q = r /\ pc[r] = "post" /\ pc'[r] # "post")
    <3>1. RequestTask(id) \in Queued' => RequestTask(id) \in Queued \/ (q = r /\ pc[r] = "post" /\ pc'[r] # "post")
      BY <2>1, IdsAssumption
    <3>2. \A s \in Slots : Working(s)' <=> Working(s)
      BY <1>1 DEF Working, Processing
    <3> QED BY <1>1, <3>1, <3>2 DEF Works
  <2>4. CASE q # r
    <3>1. Gone(q, id)' <=> Gone(q, id)
      <4>1. id \notin IdSet(r)
        BY <2>4, IdsAssumption
      <4>2. Polls(q)' <=> Polls(q)
        BY DEF Polls
      <4> QED BY <2>4, <4>1, <4>2 DEF OwnStep, Gone
    <3> QED BY <1>1, <1>2, <2>1, <2>2, <2>4, <3>1 DEF Settled
  <2>5. CASE q = r /\ pc[r] # "post"
    BY <1>2, <2>1, <2>2, <2>5 DEF Settled
  <2>6. CASE q = r /\ pc[r] = "post"
    <3>1. ResultsOf(id)' \cup LeavingOf(id)' = {} /\ ~Answered(id) /\ ~Gone(q, id)'
      BY <1>2, <2>1, <2>6 DEF Settled, Answered, ResultsOf
    <3> QED BY <1>2, <3>1 DEF Settled
  <2> QED BY <2>4, <2>5, <2>6
<1>4. NoneAfter(queue_results, Repeats)'
  <2>1. Repeats' = Repeats
    BY <1>2 DEF Repeats
  <2> QED BY <2>1
<1>5. AssignedOnce'
  <2> SUFFICES ASSUME NEW s \in Slots, slots[s].id_task # NoId
               PROVE  /\ RequestTask(slots[s].id_task) \notin Queued'
                      /\ pc'[Owner(slots[s].id_task)] \notin {"start", "post"}
                      /\ \A t \in Slots \ {s} : slots[t].id_task # slots[s].id_task
    BY <1>1 DEF AssignedOnce
  <2>1. PICK id \in TaskId : id = slots[s].id_task
    BY DEF SlotTypes
  <2>2. PICK q \in Request : q = Owner(id) /\ id \in IdSet(q)
    BY OwnerHas
  <2>3. RequestTask(id) \notin Queued /\ pc[q] \notin {"start", "post"}
    BY <2>1, <2>2 DEF AnswerInv, AssignedOnce
  <2>4. id \in IdSet(r) => q = r
    BY <2>2, IdsAssumption
  <2>5. RequestTask(id) \notin Queued'
    BY <2>3, <2>4
  <2>6. pc'[q] \notin {"start", "post"}
    BY <1>1, <2>3
  <2> QED BY <2>1, <2>2, <2>5, <2>6 DEF AnswerInv, AssignedOnce
<1>6. Callback'
  BY <1>1 DEF AnswerInv, Callback
<1> QED BY <1>3, <1>4, <1>5, <1>6 DEF AnswerInv

\* A result that is taken is the first for its task.
LEMMA TakenIsFirst ==
    ASSUME TypeInv, AnswerInv, NEW r \in Request, TakeResult(r, IdSet(r))
    PROVE  /\ NoneAfter(queue_results', Repeats)
           /\ FirstMatch(IdSet(r)).stop =>
                \A res \in ToSet(queue_results') : res.id = FirstMatch(IdSet(r)).id => Excused(res)
<1> DEFINE k == Min(Matching(IdSet(r)))
           RT == ResultType(TaskId)
<1>1. /\ queue_results \in Seq(RT) /\ k \in DOMAIN queue_results
      /\ FirstMatch(IdSet(r)) = queue_results[k] /\ queue_results[k].id \in IdSet(r)
      /\ queue_results' = RemoveAt(queue_results, k)
  BY TakeTypes DEF TypeInv, ResponseTypes, TakeResult, FirstMatch
<1>2. NoneAfter(queue_results, Repeats)
  BY DEF AnswerInv
<1>3. \A j \in DOMAIN queue_results : queue_results[j].id \in IdSet(r) => k <= j
  <2>1. Matching(IdSet(r)) \subseteq Nat /\ Matching(IdSet(r)) # {}
    BY <1>1 DEF Matching
  <2>2. \E x \in Matching(IdSet(r)) : \A y \in Matching(IdSet(r)) : x =< y
    BY <2>1, LeastNat
  <2> QED BY <2>2 DEF Min, Matching
<1> HIDE DEF k, RT
<1>4. NoneAfter(queue_results', Repeats)
  BY <1>1, <1>2, NoneAfterRemoveAt
<1>5. ToSet(queue_results') = {queue_results[j] : j \in DOMAIN queue_results \ {k}}
  BY <1>1, SetOfRemoveAt
<1>6. ASSUME queue_results[k].stop, NEW res \in ToSet(queue_results'), res.id = queue_results[k].id
      PROVE  Excused(res)
  <2>1. PICK j \in DOMAIN queue_results \ {k} : res = queue_results[j]
    BY <1>5
  <2>2. k < j /\ queue_results[j] \in RT /\ queue_results[k] \in RT
    BY <1>1, <1>3, <1>6, <2>1
  <2>3. <<queue_results[k], queue_results[j]>> \notin Repeats
    BY <1>1, <1>2, <2>1, <2>2 DEF NoneAfter
  <2> QED BY <1>6, <2>1, <2>2, <2>3 DEF Repeats, RT
<1> QED BY <1>1, <1>4, <1>6

\* A thread stops waiting for a task when it has taken its final result.
LEMMA AnswerHttp ==
    ASSUME TypeInv, TypeInv', WaitInv, AnswerInv, NEW r \in Request, HttpThread(r) \/ ClientCloses(r)
    PROVE  AnswerInv'
<1> USE DEF TypeInv
<1>1. /\ OwnStep(r) /\ Books(r) /\ NoneAfter(queue_results, Repeats)
      /\ \A id \in IdSet(r) : Settled(r, id)
      /\ UNCHANGED <<outbox, phase>>
  BY HttpOwn DEF WaitInv, AnswerInv, OwnStep, mainVars
<1>2. \A id \in IdSet(r) : ResultsOf(id)' \subseteq ResultsOf(id) /\ LeavingOf(id)' = LeavingOf(id)
  BY <1>1 DEF OwnStep, ResultsOf, LeavingOf
<1>3. UNCHANGED queueVars => Queued' = Queued
  BY <1>1 DEF queueVars, Queued
<1>4. ASSUME UNCHANGED queueVars, NoneAfter(queue_results', Repeats),
             pc[r] \notin {"start", "post"}, pc'[r] \notin {"start", "post"},
             \A id \in IdSet(r) : Gone(r, id)' =>
                \/ Gone(r, id)
                \/ /\ ~Works(id)
                   /\ \A res \in ResultsOf(id)' \cup LeavingOf(id)' : Excused(res)
      PROVE  AnswerInv'
  <2>1. \A id \in IdSet(r) : Gone(r, id) => ~Works(id) /\ \A res \in ResultsOf(id)' \cup LeavingOf(id)' : Excused(res)
    BY <1>1, <1>2 DEF Settled
  <2> QED BY <1>1, <1>3, <1>4, <2>1, AnswerHttpFrame
<1>5. CASE Begin(r)
  <2>1. /\ pc[r] = "start" /\ pc'[r] = "post" /\ UNCHANGED <<queue_results, queueVars>>
    BY <1>5 DEF Begin, AddWaiting, Goto, HttpTypes
  <2> QED BY <1>1, <1>3, <2>1, AnswerHttpFrame DEF Gone
<1>6. CASE PostTasks(r)
  <2> DEFINE ts == [i \in DOMAIN Ids[r] |-> RequestTask(Ids[r][i])]
  <2>1. /\ pc[r] = "post" /\ Post(ts, Kind[r] = "METRICS") /\ UNCHANGED <<queue_results, left>>
        /\ pc'[r] \in {"provide", "receive"}
    BY <1>6 DEF PostTasks, Goto, HttpTypes, responseVars
  <2>2. ts \in Seq(Task) /\ ToSet(ts) = {RequestTask(id) : id \in IdSet(r)}
    BY PostedTasks
  <2>3. (Kind[r] = "METRICS") \in BOOLEAN
    OBVIOUS
  <2> HIDE DEF ts
  <2>4. /\ ToSet(queue_tasks') \subseteq ToSet(ts) \cup ToSet(queue_tasks)
        /\ ToSet(queue_tasks_deferred') \subseteq ToSet(queue_tasks_deferred)
        /\ current' = current /\ loop' = IF loop = "waiting" THEN "notified" ELSE loop
    BY <2>1, <2>2, <2>3, PostSets
  <2>5. Queued' \subseteq Queued \cup ToSet(ts)
    BY <1>1, <2>4 DEF Queued
  <2>6. \A id \in TaskId : RequestTask(id) \in ToSet(ts) => id \in IdSet(r)
    BY <2>2, OwnerOf, KindsDiffer
  <2>7. \A id \in IdSet(r) : ~Gone(r, id)'
    BY <1>1, <2>1 DEF Gone, Books
  <2> QED BY <1>1, <2>1, <2>5, <2>6, <2>7, AnswerHttpFrame
<1>7. CASE ClientCloses(r)
  <2>1. /\ UNCHANGED <<queueVars, queue_results, pc, left, cancelled>>
    BY <1>7 DEF ClientCloses, responseVars
  <2>2. \A id \in IdSet(r) : Gone(r, id)' => Gone(r, id)
    BY <1>1, <2>1 DEF Gone, OwnStep, Polls
  <2>3. CASE pc[r] \in {"start", "post"}
    <3>1. \A id \in IdSet(r) : ~Gone(r, id)'
      BY <2>1, <2>3 DEF Gone
    <3> QED BY <1>1, <1>3, <2>1, <2>3, <3>1, AnswerHttpFrame
  <2>4. CASE pc[r] \notin {"start", "post"}
    BY <1>1, <1>4, <2>1, <2>2, <2>4
  <2> QED BY <2>3, <2>4
<1>8. CASE FallAsleep(r) \/ PollExpires(r)
  <2>1. /\ UNCHANGED <<queueVars, queue_results, closed, cancelled>> /\ pc[r] = "receive"
        /\ pc'[r] = "cancel" \/ UNCHANGED <<pc, left>>
    BY <1>8 DEF FallAsleep, RecvSleeps, TimedRecvSleeps, PollExpires, TimedRecvExpires, Goto, HttpTypes, httpVars
  <2>2. \A id \in IdSet(r) : Gone(r, id)' => Gone(r, id)
    BY <2>1 DEF Gone
  <2>3. pc'[r] \notin {"start", "post"}
    BY <2>1
  <2> QED BY <1>1, <1>4, <2>1, <2>2, <2>3
<1>9. CASE Provide(r)
  <2>1. /\ UNCHANGED <<queueVars, queue_results, closed, cancelled, left>> /\ pc[r] = "provide"
        /\ pc'[r] = "receive" \/ (pc'[r] = "finish" /\ r \in closed)
    BY <1>9 DEF Provide, Goto, HttpTypes, responseVars
  <2>2. \A id \in IdSet(r) : ~Gone(r, id)'
    BY <1>1, <2>1 DEF Gone, Books
  <2> QED BY <1>1, <1>4, <2>1, <2>2
<1>10. CASE ReceivePolling(r)
  <2> DEFINE res == FirstMatch(IdSet(r))
  <2>1. /\ pc[r] = "receive" /\ UNCHANGED <<queueVars, closed, cancelled>> /\ TakeResult(r, IdSet(r)) /\ Polls(r)
        /\ \/ pc'[r] = "cancel"
           \/ /\ pc'[r] = "receive" \/ (pc'[r] = "finish" /\ left'[r] = {})
              /\ left'[r] = IF res.stop THEN left[r] \ {res.id} ELSE left[r]
    BY <1>10 DEF ReceivePolling, Goto, HttpTypes
  <2>2. /\ NoneAfter(queue_results', Repeats)
        /\ res.stop => \A x \in ToSet(queue_results') : x.id = res.id => Excused(x)
    BY <2>1, TakenIsFirst
  <2>3. res \in ToSet(queue_results) /\ res.id \in IdSet(r)
    BY <2>1, TakeTypes
  <2> HIDE DEF res
  <2>4. ASSUME NEW id \in IdSet(r), Gone(r, id)', ~Gone(r, id)
        PROVE  ~Works(id) /\ \A x \in ResultsOf(id)' \cup LeavingOf(id)' : Excused(x)
    <3>1. id \notin left'[r] /\ id \in left[r]
      BY <2>1, <2>4 DEF Gone
    <3>2. res.stop /\ res.id = id
      BY <2>1, <2>4, <3>1 DEF Gone
    <3>3. Answered(id)
      BY <2>3, <3>2 DEF Answered
    <3> QED BY <1>1, <1>2, <2>2, <3>2, <3>3 DEF Settled, ResultsOf
  <2> QED BY <1>4, <2>1, <2>2, <2>4
<1>11. CASE ReceiveOnce(r)
  <2>1. /\ pc[r] = "receive" /\ pc'[r] = "finish" /\ UNCHANGED queueVars /\ TakeResult(r, IdSet(r)) /\ ~Polls(r)
    BY <1>11 DEF ReceiveOnce, Goto, HttpTypes
  <2>2. \A id \in IdSet(r) : ~Gone(r, id)'
    BY <2>1 DEF Gone, Polls
  <2> QED BY <1>4, <2>1, <2>2, TakenIsFirst
<1>12. ASSUME NEW id \in IdSet(r), RemoveWaitingId(id)
       PROVE  NoneAfter(queue_results', Repeats)
  <2> DEFINE K == {i \in DOMAIN queue_results : queue_results[i].id = id}
  <2>1. queue_results' = RemoveIf(queue_results, K) /\ queue_results \in Seq(ResultType(TaskId))
    BY <1>12 DEF RemoveWaitingId, ResponseTypes
  <2> HIDE DEF K
  <2> QED BY <1>1, <2>1, NoneAfterRemoveIf
<1>13. CASE CancelForgets(r)
  <2>1. PICK id \in IdSet(r) : RemoveWaitingId(id) /\ pc[r] = "cancel" /\ UNCHANGED <<queueVars, pc>>
    BY <1>13 DEF CancelForgets, HttpTypes
  <2>2. \A x \in IdSet(r) : ~Gone(r, x)'
    BY <2>1 DEF Gone
  <2> QED BY <1>4, <1>12, <2>1, <2>2
<1>14. CASE CancelPosts(r)
  <2> DEFINE ts == [i \in DOMAIN Ids[r] |-> CancelTask(Ids[r][i])]
  <2>1. /\ pc[r] = "cancel" /\ Post(ts, TRUE) /\ UNCHANGED queue_results
        /\ pc'[r] = "finish" /\ cancelled' = cancelled \cup IdSet(r)
    BY <1>14 DEF CancelPosts, Goto, HttpTypes, responseVars
  <2>2. ts \in Seq(Task) /\ ToSet(ts) = {CancelTask(id) : id \in IdSet(r)}
    BY PostedTasks
  <2> HIDE DEF ts
  <2>3. /\ ToSet(queue_tasks') \subseteq ToSet(ts) \cup ToSet(queue_tasks)
        /\ ToSet(queue_tasks_deferred') \subseteq ToSet(queue_tasks_deferred)
        /\ current' = current /\ loop' = IF loop = "waiting" THEN "notified" ELSE loop
    BY <2>1, <2>2, PostSets
  <2>4. Queued' \subseteq Queued \cup ToSet(ts)
    BY <1>1, <2>3 DEF Queued
  <2>5. \A id \in TaskId : RequestTask(id) \notin ToSet(ts)
    BY <2>2, OwnerOf, KindsDiffer
  <2>6. \A id \in IdSet(r) : ~Gone(r, id)'
    BY <2>1 DEF Gone
  <2> QED BY <1>1, <2>1, <2>4, <2>5, <2>6, AnswerHttpFrame
<1>15. CASE Finish(r)
  <2>1. /\ pc[r] = "finish" /\ pc'[r] = "done" /\ UNCHANGED <<queueVars, closed, cancelled>>
    BY <1>15 DEF Finish, Goto, HttpTypes
  <2>2. \A id \in IdSet(r) : Gone(r, id)' => Gone(r, id)
    BY <2>1 DEF Gone, Polls
  <2>3. NoneAfter(queue_results', Repeats)
    <3>1. Ids[r][1] \in IdSet(r)
      <4>1. Ids[r] \in Seq(IdSet(r)) /\ Ids[r] # <<>>
        BY RequestIds
      <4> QED BY <4>1
    <3> QED BY <1>1, <1>12, <1>15, <3>1 DEF Finish, RemoveWaitingIds
  <2> QED BY <1>4, <2>1, <2>2, <2>3
<1> QED
  BY <1>5, <1>6, <1>7, <1>8, <1>9, <1>10, <1>11, <1>13, <1>14, <1>15 DEF HttpThread

\* A task that is worked on has not been answered, nor is its request new.
LEMMA WorkedOn ==
    ASSUME TypeInv, OnceInv, AnswerInv, NEW r \in Request, NEW id \in IdSet(r), Works(id)
    PROVE  /\ LeavingOf(id) = {} /\ ~Answered(id) /\ ~Gone(r, id)
           /\ pc[r] \notin {"start", "post"}
<1>1. Settled(r, id)
  BY DEF AnswerInv
<1>2. RequestTask(id) \in Queued \/ IsRunning(id)
  BY DEF Works, Working, IsRunning
<1> QED BY <1>1, <1>2 DEF Settled, OnceInv, FreshOnce

\* The main thread gives no work back, and prepares an answer at most.
LEMMA AnswerMainFrame ==
    ASSUME TypeInv, OnceInv, AnswerInv, UNCHANGED <<httpVars, responseVars>>,
           failures > 0 => failures' > 0,
           \A id \in TaskId : Works(id)' => Works(id),
           \A id \in TaskId : \A res \in LeavingOf(id)' :
                \/ res \in LeavingOf(id)
                \/ Works(id) /\ ~Works(id)'
                \/ Excused(res)' /\ ~Works(id)' /\ pc[Owner(id)] \notin {"start", "post"},
           AssignedOnce', Callback'
    PROVE  AnswerInv'
<1>1. /\ UNCHANGED <<pc, left, closed, cancelled, queue_results>>
  BY DEF httpVars, responseVars
<1>2. /\ \A id : ResultsOf(id)' = ResultsOf(id)
      /\ \A id : Answered(id)' <=> Answered(id)
      /\ \A res : Excused(res) => Excused(res)'
      /\ \A r, id : Gone(r, id)' <=> Gone(r, id)
  BY <1>1 DEF ResultsOf, Answered, Excused, Gone, Polls
<1>3. ASSUME NEW r \in Request, NEW id \in IdSet(r)
      PROVE  Settled(r, id)'
  <2>1. Settled(r, id) /\ id \in TaskId /\ Owner(id) = r
    BY OwnerOf DEF AnswerInv
  <2>2. Works(id)' => Works(id)
    BY <2>1
  <2>3. ASSUME NEW res \in LeavingOf(id)'
        PROVE  /\ pc[r] \notin {"start", "post"} /\ ~Works(id)'
               /\ Answered(id) => Excused(res)'
               /\ Gone(r, id) => Excused(res)'
    <3>1. CASE res \in LeavingOf(id)
      BY <1>2, <2>1, <2>2, <3>1 DEF Settled
    <3>2. CASE Works(id) /\ ~Works(id)'
      BY <3>2, WorkedOn
    <3>3. CASE Excused(res)' /\ ~Works(id)' /\ pc[Owner(id)] \notin {"start", "post"}
      BY <2>1, <3>3
    <3> QED BY <2>1, <3>1, <3>2, <3>3
  <2>4. pc[r] \in {"start", "post"} => ResultsOf(id) = {} /\ LeavingOf(id)' = {}
    BY <2>1, <2>3 DEF Settled
  <2> QED BY <1>1, <1>2, <2>1, <2>2, <2>3, <2>4 DEF Settled
<1>4. NoneAfter(queue_results, Repeats)'
  <2>1. Repeats' \subseteq Repeats
    BY <1>2 DEF Repeats
  <2> QED BY <1>1, <2>1 DEF AnswerInv, NoneAfter
<1> QED BY <1>3, <1>4 DEF AnswerInv

\* A result is sent: a final one is the last for its task.
LEMMA AnswerSend ==
    ASSUME TypeInv, WaitInv, AnswerInv, UNCHANGED httpVars, UNCHANGED failures,
           \A id \in TaskId : Works(id)' => Works(id),
           NEW x \in ResultType(TaskId \cup {NoId}), Send(x), outbox' = <<>>,
           phase' \in {phase, "stop", "embedded"},
           \A r \in Request : x.id \in IdSet(r) =>
                /\ pc[r] \notin {"start", "post"}
                /\ Answered(x.id) \/ Gone(r, x.id) => Excused(x)
                /\ x.stop => ~Works(x.id)',
           AssignedOnce'
    PROVE  WaitInv' /\ AnswerInv'
<1> USE DEF TypeInv
<1>1. /\ UNCHANGED <<pc, left, closed, cancelled, waiting_task_ids>>
      /\ LeavingOf(x.id)' = {}
      /\ \A id : LeavingOf(id)' = {}
      /\ \A res : Excused(res)' <=> Excused(res)
      /\ \A r, id : Gone(r, id)' <=> Gone(r, id)
  <2>1. waiting_task_ids' = waiting_task_ids
    BY SendTypes
  <2>2. UNCHANGED <<pc, left, closed, cancelled>>
    BY DEF httpVars
  <2>3. \A id : LeavingOf(id)' = {}
    BY DEF LeavingOf, ToSet
  <2> QED BY <2>1, <2>2, <2>3 DEF Excused, Gone, Polls
<1>2. Repeats' = Repeats /\ NoneAfter(queue_results, Repeats)
  BY <1>1 DEF Repeats, AnswerInv
<1>3. Callback'
  BY DEF AnswerInv, Callback
<1>4. CASE x.id \notin waiting_task_ids
  <2>1. UNCHANGED queue_results
    BY <1>4 DEF Send, responseVars
  <2>2. WaitInv'
    BY <1>1, <2>1 DEF WaitInv, Books, Dropped, ResultsOf, Polls
  <2>3. \A id : ResultsOf(id)' = ResultsOf(id) /\ (Answered(id)' <=> Answered(id))
    BY <2>1 DEF ResultsOf, Answered
  <2>4. ASSUME NEW r \in Request, NEW id \in IdSet(r)
        PROVE  Settled(r, id)'
    <3>1. Settled(r, id) /\ (Works(id)' => Works(id))
      BY OwnerOf DEF AnswerInv
    <3> QED BY <1>1, <2>3, <3>1 DEF Settled
  <2> QED BY <1>2, <1>3, <2>1, <2>2, <2>4 DEF AnswerInv
<1>5. CASE x.id \in waiting_task_ids
  <2>1. /\ queue_results \in Seq(ResultType(TaskId)) /\ x \in ResultType(TaskId) /\ x.id \in TaskId
        /\ queue_results' = Append(queue_results, x)
    BY <1>5 DEF ResponseTypes, ResultType, Send
  <2>2. ToSet(queue_results') = ToSet(queue_results) \cup {x}
    BY <2>1, SetOfAppend
  <2>3. /\ \A id : id # x.id => ResultsOf(id)' = ResultsOf(id) /\ (Answered(id)' <=> Answered(id))
        /\ ResultsOf(x.id)' = ResultsOf(x.id) \cup {x}
        /\ Answered(x.id)' <=> Answered(x.id) \/ x.stop
    BY <2>2 DEF ResultsOf, Answered
  <2>4. PICK o \in Request : x.id \in IdSet(o)
    BY <2>1, OwnerHas
  <2>5. WaitInv'
    <3>1. \A r \in Request : \A id \in IdSet(r) : Dropped(r, id) => id # x.id
      BY <1>5 DEF WaitInv, Books
    <3> QED BY <1>1, <2>3, <3>1 DEF WaitInv, Books, Dropped, Polls
  <2>6. NoneAfter(queue_results', Repeats)
    <3>1. \A y \in ToSet(queue_results) : <<y, x>> \notin Repeats
      <4>1. ASSUME NEW y \in ToSet(queue_results), y.id = x.id, y.stop
            PROVE  Excused(x)
        BY <2>4, <4>1 DEF Answered
      <4> QED BY <4>1 DEF Repeats
    <3> QED BY <1>2, <2>1, <3>1, NoneAfterAppend
  <2>7. ASSUME NEW r \in Request, NEW id \in IdSet(r)
        PROVE  Settled(r, id)'
    <3>1. Settled(r, id) /\ (Works(id)' => Works(id))
      BY OwnerOf DEF AnswerInv
    <3>2. CASE id # x.id
      BY <1>1, <2>3, <3>1, <3>2 DEF Settled
    <3>3. CASE id = x.id
      BY <1>1, <2>3, <3>1, <3>3 DEF Settled
    <3> QED BY <3>2, <3>3
  <2> QED BY <1>2, <1>3, <2>5, <2>6, <2>7 DEF AnswerInv
<1> QED BY <1>4, <1>5

\* The books of the threads are theirs.
LEMMA BooksMain ==
    ASSUME WaitInv, UNCHANGED <<httpVars, responseVars>>
    PROVE  WaitInv'
BY DEF WaitInv, Books, Dropped, ResultsOf, Polls, httpVars, responseVars

\* Tasks are only taken out of the queues, and slots keep their ids.
LEMMA WorkKept ==
    ASSUME TypeInv, AnswerInv, UNCHANGED httpVars,
           \A id \in TaskId : RequestTask(id) \in Queued' => RequestTask(id) \in Queued,
           \A s \in Slots : slots'[s].id_task = slots[s].id_task /\ (Working(s)' => Working(s))
    PROVE  AssignedOnce' /\ \A id \in TaskId : Works(id)' => Works(id)
<1>1. \A id \in TaskId : Works(id)' => Works(id)
  BY DEF Works
<1>2. AssignedOnce'
  <2> SUFFICES ASSUME NEW s \in Slots, slots'[s].id_task # NoId
               PROVE  /\ RequestTask(slots'[s].id_task) \notin Queued'
                      /\ pc'[Owner(slots'[s].id_task)] \notin {"start", "post"}
                      /\ \A t \in Slots \ {s} : slots'[t].id_task # slots'[s].id_task
    BY DEF AssignedOnce
  <2>1. PICK id \in TaskId : id = slots[s].id_task
    BY DEF TypeInv, SlotTypes
  <2>2. /\ RequestTask(id) \notin Queued /\ pc[Owner(id)] \notin {"start", "post"}
        /\ \A t \in Slots \ {s} : slots[t].id_task # id
    BY <2>1 DEF AnswerInv, AssignedOnce
  <2>3. slots'[s].id_task = id /\ pc' = pc
    BY <2>1 DEF httpVars
  <2> QED BY <2>2, <2>3
<1> QED BY <1>1, <1>2

\* Nothing is prepared.
LEMMA AnswerQuiet ==
    ASSUME TypeInv, OnceInv, AnswerInv, UNCHANGED <<httpVars, responseVars, outbox>>,
           failures > 0 => failures' > 0,
           phase' = "fail" => phase = "fail" \/ failures' > 0,
           phase' # "embedded",
           \A id \in TaskId : RequestTask(id) \in Queued' => RequestTask(id) \in Queued,
           \A s \in Slots : slots'[s].id_task = slots[s].id_task /\ (Working(s)' => Working(s))
    PROVE  AnswerInv'
<1>1. AssignedOnce' /\ \A id \in TaskId : Works(id)' => Works(id)
  BY WorkKept
<1>2. Callback'
  BY DEF AnswerInv, Callback
<1>3. \A id \in TaskId : LeavingOf(id)' = LeavingOf(id)
  BY DEF LeavingOf
<1> QED BY <1>1, <1>2, <1>3, AnswerMainFrame

\* A slot is released, and perhaps an answer is prepared for the task it had.
LEMMA AnswerReleases ==
    ASSUME TypeInv, OnceInv, AnswerInv, UNCHANGED <<httpVars, responseVars, failures>>,
           NEW s \in Slots, ReleaseSlot(s), loop \in {"new_task", "update_slots"},
           phase = "embedded" => s = Min(visit),
           phase' \notin {"begin", "embedded"}, phase' = "fail" => phase = "fail",
           \/ outbox' = <<>>
           \/ \E x : /\ outbox' = <<x>> /\ x.id = slots[s].id_task
                     /\ Working(s) \/ Excused(x)
    PROVE  AnswerInv'
<1> USE DEF TypeInv
<1>1. /\ SameOthers(s) /\ slots'[s].state = "IDLE" /\ slots'[s].id_task = slots[s].id_task
      /\ loop' = loop
      /\ ToSet(queue_tasks') \cup ToSet(queue_tasks_deferred')
            = ToSet(queue_tasks) \cup ToSet(queue_tasks_deferred)
  BY ReleaseSets
<1>2. Queued' \subseteq Queued
  BY <1>1 DEF Queued
<1>3. \A t \in Slots : slots'[t].id_task = slots[t].id_task /\ (Working(t)' => Working(t) /\ t # s)
  BY <1>1 DEF SameOthers, Working, Processing
<1>4. AssignedOnce' /\ \A id \in TaskId : Works(id)' => Works(id)
  BY <1>2, <1>3, WorkKept
<1>5. Callback'
  BY DEF AnswerInv, Callback
<1>6. ASSUME NEW id \in TaskId, NEW res \in LeavingOf(id)'
      PROVE  \/ Works(id) /\ ~Works(id)'
             \/ Excused(res)' /\ ~Works(id)' /\ pc[Owner(id)] \notin {"start", "post"}
  <2>1. outbox' # <<>>
    BY <1>6 DEF LeavingOf, ToSet
  <2>2. PICK x : outbox' = <<x>> /\ x.id = slots[s].id_task /\ (Working(s) \/ Excused(x))
    BY <2>1
  <2>3. res = x /\ id = slots[s].id_task
    BY <1>6, <2>2 DEF LeavingOf, ToSet
  <2>4. /\ RequestTask(id) \notin Queued /\ pc[Owner(id)] \notin {"start", "post"}
        /\ \A t \in Slots \ {s} : slots[t].id_task # id
    <3>1. id # NoId
      BY ServerAssumption
    <3> QED BY <2>3, <3>1 DEF AnswerInv, AssignedOnce
  <2>5. ~Works(id)'
    BY <1>2, <1>3, <2>4 DEF Works
  <2>6. Excused(res) => Excused(res)'
    BY DEF Excused
  <2> QED BY <2>2, <2>3, <2>4, <2>5, <2>6 DEF Works
<1> QED BY <1>4, <1>5, <1>6, AnswerMainFrame

\* start_loop() moves tasks about.
LEMMA AnswerLoop ==
    ASSUME TypeInv, OnceInv, AnswerInv, MainLoop
    PROVE  AnswerInv'
<1> USE DEF TypeInv
<1>1. UNCHANGED <<slots, phase, visit, outbox, failures, responseVars, httpVars>>
  BY DEF MainLoop, mainVars
<1>2. phase' # "embedded"
  BY <1>1 DEF MainLoop, StartLoop, LoopStep, PopTask, Drained, Recheck, WakeUp, LoopExits, Phases
<1>3. Queued' = Queued
  <2>1. CASE PopTask
    <3>1. /\ queue_tasks \in Seq(Task) /\ queue_tasks # <<>> /\ loop = "drain" /\ phase = "begin"
          /\ queue_tasks' = Tail(queue_tasks) /\ current' = Head(queue_tasks)
          /\ loop' = "new_task" /\ UNCHANGED queue_tasks_deferred
      BY <2>1 DEF PopTask, QueueTypes, Phases
    <3>2. ToSet(queue_tasks) = {current'} \cup ToSet(queue_tasks')
      BY <3>1, SetOfTail
    <3> QED BY <1>1, <3>1, <3>2 DEF Queued
  <2>2. CASE ~PopTask
    BY <1>1, <2>2 DEF MainLoop, LoopStep, StartLoop, Drained, Recheck, WakeUp, LoopExits, Queued
  <2> QED BY <2>1, <2>2
<1>4. \A s \in Slots : slots'[s].id_task = slots[s].id_task /\ (Working(s)' => Working(s))
  BY <1>1 DEF Working, Processing
<1> QED BY <1>1, <1>2, <1>3, <1>4, AnswerQuiet

\* The task that is handed to the callback is answered: nobody works on it.
LEMMA AnswerCurrent ==
    ASSUME TypeInv, OnceInv, AnswerInv, UNCHANGED <<httpVars, responseVars, failures, queueVars>>,
           loop = "new_task", phase = "begin", phase' = "end",
           NEW cid \in TaskId, current = RequestTask(cid),
           NEW x, outbox' = <<x>>, x.id = cid,
           \A t \in Slots : Working(t)' => Working(t) /\ slots'[t].id_task = slots[t].id_task,
           AssignedOnce'
    PROVE  AnswerInv'
<1>1. /\ Queued' = ToSet(queue_tasks) \cup ToSet(queue_tasks_deferred)
      /\ Queued = Queued' \cup {current} /\ current \notin Queued'
  BY DEF Queued, queueVars, OnceInv, QueueOnce
<1>2. \A id \in TaskId : Works(id)' => Works(id)
  BY <1>1 DEF Works
<1>3. Works(cid) /\ ~Works(cid)'
  <2>1. \A t \in Slots : Working(t) => slots[t].id_task # cid
    BY <1>1 DEF Working, OnceInv, SlotsOnce
  <2> QED BY <1>1, <2>1 DEF Works
<1>4. Callback'
  BY DEF Callback
<1>5. ASSUME NEW id \in TaskId, NEW res \in LeavingOf(id)'
      PROVE  Works(id) /\ ~Works(id)'
  <2>1. id = cid
    BY <1>5 DEF LeavingOf, ToSet
  <2> QED BY <1>3, <2>1
<1> QED BY <1>2, <1>4, <1>5, AnswerMainFrame

\* A slot gets a task that no other slot has had.
LEMMA AnswerLaunch ==
    ASSUME TypeInv, OnceInv, AnswerInv, LaunchTask
    PROVE  AnswerInv'
<1> USE DEF TypeInv
<1>1. /\ loop = "new_task" /\ phase = "begin" /\ phase' = "end" /\ current \in Task
      /\ current.type \in Inference /\ UNCHANGED <<httpVars, responseVars, failures, queueVars>>
  BY DEF LaunchTask, CallbackGets, QueueTypes
<1>2. PICK s \in Slots :
          /\ ~Processing(s)
          /\ slots' = [slots EXCEPT ![s] =
                    [slots[s] EXCEPT !.id_task = current.id,
                              !.state = IF Owner(current.id) \in BadGrammar THEN "IDLE" ELSE "STARTED"]]
          /\ outbox' = IF Owner(current.id) \in BadGrammar THEN <<Error(current.id)>> ELSE <<>>
  BY DEF LaunchTask, Candidates, Idle
<1>3. PICK cid \in TaskId : cid = current.id /\ current = RequestTask(cid)
  <2>1. current.id \in TaskId /\ current = RequestTask(current.id)
    BY <1>1, TaskKinds DEF Inference, AnyKind
  <2> QED BY <2>1
<1>4. /\ slots'[s].id_task = cid
      /\ slots'[s].state = IF Owner(cid) \in BadGrammar THEN "IDLE" ELSE "STARTED"
      /\ \A t \in Slots \ {s} : slots'[t] = slots[t]
  BY <1>2, <1>3 DEF SlotTypes
<1>5. /\ Queued' = ToSet(queue_tasks) \cup ToSet(queue_tasks_deferred)
      /\ Queued = Queued' \cup {current} /\ current \notin Queued'
  BY <1>1 DEF Queued, queueVars, OnceInv, QueueOnce
<1>6. pc' = pc /\ pc[Owner(cid)] \notin {"start", "post"}
  <2>1. Owner(cid) \in Request /\ cid \in IdSet(Owner(cid))
    BY OwnerHas
  <2> QED BY <1>1, <1>3, <1>5, <2>1 DEF httpVars, OnceInv, FreshOnce
<1>7. \A t \in Slots \ {s} : slots[t].id_task # cid
  <2>1. cid # NoId
    BY ServerAssumption
  <2> QED BY <1>3, <1>5, <2>1 DEF AnswerInv, AssignedOnce
<1>8. AssignedOnce'
  <2> SUFFICES ASSUME NEW t \in Slots, slots'[t].id_task # NoId
               PROVE  /\ RequestTask(slots'[t].id_task) \notin Queued'
                      /\ pc'[Owner(slots'[t].id_task)] \notin {"start", "post"}
                      /\ \A u \in Slots \ {t} : slots'[u].id_task # slots'[t].id_task
    BY DEF AssignedOnce
  <2>1. CASE t = s
    BY <1>3, <1>4, <1>5, <1>6, <1>7, <2>1
  <2>2. CASE t # s
    <3>1. slots'[t] = slots[t] /\ slots[t].id_task # cid
      BY <1>4, <1>7, <2>2
    <3>2. /\ RequestTask(slots[t].id_task) \notin Queued
          /\ pc[Owner(slots[t].id_task)] \notin {"start", "post"}
          /\ \A u \in Slots \ {t} : slots[u].id_task # slots[t].id_task
      BY <3>1 DEF AnswerInv, AssignedOnce
    <3>3. \A u \in Slots \ {t} : slots'[u].id_task # slots[t].id_task
      BY <1>4, <3>1, <3>2
    <3> QED BY <1>5, <1>6, <3>1, <3>2, <3>3
  <2> QED BY <2>1, <2>2
<1>9. CASE Owner(cid) \in BadGrammar
  <2>1. outbox' = <<Error(cid)>> /\ Error(cid).id = cid
    BY <1>2, <1>3, <1>9, AnswerTypes
  <2>2. \A t \in Slots : Working(t)' => Working(t) /\ slots'[t].id_task = slots[t].id_task
    BY <1>1, <1>4, <1>9 DEF Working, Processing
  <2> QED BY <1>1, <1>3, <1>8, <2>1, <2>2, AnswerCurrent
<1>10. CASE Owner(cid) \notin BadGrammar
  <2>1. outbox' = <<>>
    BY <1>2, <1>3, <1>10
  <2>2. Callback' /\ \A id : LeavingOf(id)' = {}
    BY <1>1, <2>1 DEF Callback, LeavingOf, ToSet
  <2>3. ASSUME NEW id \in TaskId, Works(id)'
        PROVE  Works(id)
    <3>1. CASE id = cid
      BY <1>3, <1>5, <3>1 DEF Works
    <3>2. CASE id # cid
      BY <1>1, <1>4, <1>5, <2>3, <3>2 DEF Works, Working, Processing
    <3> QED BY <3>1, <3>2
  <2> QED BY <1>1, <1>8, <2>2, <2>3, AnswerMainFrame
<1> QED BY <1>9, <1>10

\* process_single_task().
LEMMA AnswerTasks ==
    ASSUME TypeInv, OnceInv, AnswerInv, ProcessSingleTask
    PROVE  AnswerInv'
<1> USE DEF TypeInv
<1>1. /\ loop = "new_task" /\ phase = "begin" /\ phase' = "end" /\ current \in Task
      /\ outbox = <<>> /\ UNCHANGED <<httpVars, responseVars, failures>>
      /\ Queued = ToSet(queue_tasks) \cup ToSet(queue_tasks_deferred) \cup {current}
      /\ Queued' = ToSet(queue_tasks') \cup ToSet(queue_tasks_deferred')
  BY DEF ProcessSingleTask, DeferTask, LaunchTask, CancelSlot, AnswerTask, IgnoreTask,
         CallbackGets, QueueTypes, Queued
<1>2. ASSUME UNCHANGED slots
      PROVE  \A s \in Slots : slots'[s].id_task = slots[s].id_task /\ (Working(s)' => Working(s))
  BY <1>1, <1>2 DEF Working, Processing
<1>3. ASSUME UNCHANGED <<slots, outbox>>, Queued' \subseteq Queued
      PROVE  AnswerInv'
  BY <1>1, <1>2, <1>3, AnswerQuiet
<1>4. CASE DeferTask
  <2>1. Queued' = Queued
    BY <1>1, <1>4, DeferSets DEF DeferTask
  <2> QED BY <1>3, <1>4, <2>1 DEF DeferTask
<1>5. CASE IgnoreTask
  BY <1>1, <1>3, <1>5 DEF IgnoreTask, queueVars
<1>6. CASE AnswerTask
  <2>1. /\ UNCHANGED <<queueVars, slots>> /\ current.type \in {"METRICS", "SET_LORA", "SLOT_ACTION"}
        /\ outbox' \in {<<Final(current.id)>>, <<Error(current.id)>>}
    BY <1>6 DEF AnswerTask, CallbackGets
  <2>2. PICK cid \in TaskId : cid = current.id /\ current = RequestTask(cid)
    <3>1. current.id \in TaskId /\ current = RequestTask(current.id)
      BY <1>1, <2>1, TaskKinds DEF Inference, AnyKind
    <3> QED BY <3>1
  <2>3. PICK x : outbox' = <<x>> /\ x.id = cid
    BY <2>1, <2>2, AnswerTypes
  <2>4. AssignedOnce'
    <3>1. Queued' \subseteq Queued
      BY <1>1, <2>1 DEF queueVars
    <3> QED BY <1>1, <1>2, <2>1, <3>1, WorkKept
  <2> QED BY <1>1, <1>2, <2>1, <2>2, <2>3, <2>4, AnswerCurrent
<1>7. CASE CancelSlot
  <2>1. CASE UNCHANGED <<slots, queueVars>>
    BY <1>1, <1>3, <1>7, <2>1 DEF CancelSlot, queueVars
  <2>2. CASE ~ UNCHANGED <<slots, queueVars>>
    <3> DEFINE same == {s \in Slots : slots[s].id_task = current.id_target}
    <3>1. same # {} /\ ReleaseSlot(Min(same)) /\ outbox' = <<>>
      BY <1>1, <1>7, <2>2 DEF CancelSlot
    <3>2. Min(same) \in Slots
      BY <3>1, VisitedSlot
    <3> HIDE DEF same
    <3> QED BY <1>1, <3>1, <3>2, AnswerReleases
  <2> QED BY <2>1, <2>2
<1> QED BY <1>4, <1>5, <1>6, <1>7, AnswerLaunch DEF ProcessSingleTask

\* What has been prepared is sent: nobody works on the task any more.
LEMMA AnswerOutbox ==
    ASSUME TypeInv, OnceInv, WaitInv, AnswerInv, SendOutbox
    PROVE  WaitInv' /\ AnswerInv'
<1> USE DEF TypeInv
<1>1. /\ Send(Head(outbox)) /\ outbox' = Tail(outbox) /\ outbox # <<>>
      /\ UNCHANGED <<queueVars, slots, phase, visit, failures, httpVars>>
  BY DEF SendOutbox
<1>2. PICK x : outbox = <<x>>
  BY <1>1 DEF AnswerInv, Callback
<1>3. x \in ResultType(TaskId \cup {NoId}) /\ Head(outbox) = x /\ outbox' = <<>> /\ x \in ToSet(outbox)
  <2>1. x \in ResultType(TaskId \cup {NoId})
    BY <1>2 DEF MainTypes
  <2> QED BY <1>1, <1>2, <2>1 DEF ToSet
<1>4. Queued' = Queued
  BY <1>1 DEF queueVars, Queued
<1>5. \A s \in Slots : slots'[s].id_task = slots[s].id_task /\ (Working(s)' => Working(s))
  BY <1>1 DEF Working, Processing
<1>6. AssignedOnce' /\ \A id \in TaskId : Works(id)' => Works(id)
  BY <1>1, <1>4, <1>5, WorkKept
<1>7. ASSUME NEW r \in Request, x.id \in IdSet(r)
      PROVE  /\ pc[r] \notin {"start", "post"}
             /\ Answered(x.id) \/ Gone(r, x.id) => Excused(x)
             /\ x.stop => ~Works(x.id)'
  <2>1. PICK id \in IdSet(r) : id = x.id
    BY <1>7
  <2>2. Settled(r, id) /\ x \in LeavingOf(id) /\ id \in TaskId
    BY <1>3, <2>1, OwnerOf DEF AnswerInv, LeavingOf
  <2>3. ~Works(id)'
    BY <1>6, <2>2 DEF Settled
  <2> QED BY <2>1, <2>2, <2>3 DEF Settled
<1> QED BY <1>1, <1>3, <1>6, <1>7, AnswerSend

\* The steps of update_slots() that concern no single slot.
LEMMA AnswerPass ==
    ASSUME TypeInv, OnceInv, AnswerInv,
           \/ CallbackReturns \/ UpdateAllIdle \/ UpdatePostsNext \/ BatchFilled
           \/ DecodeSucceeds \/ DecodeFails \/ ViewSampled
    PROVE  AnswerInv'
<1> USE DEF TypeInv
<1>1. /\ loop \in {"new_task", "update_slots"} /\ phase \notin {"fail", "embedded"}
      /\ phase' # "embedded" /\ (loop' = "new_task" => phase' # "begin")
      /\ UNCHANGED <<responseVars, slots, outbox, httpVars>>
  BY DEF CallbackReturns, NewTaskReturns, UpdateSlotsReturns, UpdateAllIdle, UpdatePostsNext,
         BatchFilled, DecodeSucceeds, DecodeFails, ViewSampled, InUpdate
<1>2. phase' = "fail" => failures' > 0
  BY DEF CallbackReturns, UpdateAllIdle, UpdatePostsNext, BatchFilled, DecodeSucceeds, DecodeFails,
         ViewSampled, MainTypes
<1>3. failures > 0 => failures' > 0
  <2>1. failures \in Nat
    BY ServerAssumption DEF MainTypes
  <2>2. failures' \in {failures, failures + 1}
    BY DEF CallbackReturns, UpdateAllIdle, UpdatePostsNext, BatchFilled, DecodeSucceeds, DecodeFails,
           ViewSampled
  <2> QED BY <2>1, <2>2
<1>4. \A id \in TaskId : RequestTask(id) \in Queued' => RequestTask(id) \in Queued
  <2>1. CASE UpdatePostsNext
    <3>1. /\ <<NextResponse>> \in Seq(Task) /\ ToSet(<<NextResponse>>) = {NextResponse}
      <4>1. <<NextResponse>> \in Seq(Task) /\ DOMAIN <<NextResponse>> = {1}
            /\ <<NextResponse>>[1] = NextResponse
        BY NextIsTask
      <4> QED BY <4>1 DEF ToSet
    <3> DEFINE ts == <<NextResponse>>
    <3> HIDE DEF ts
    <3>2. Post(ts, FALSE) /\ ts \in Seq(Task) /\ ToSet(ts) = {NextResponse} /\ loop = "update_slots"
      BY <2>1, <3>1 DEF UpdatePostsNext, InUpdate, ts
    <3>3. /\ ToSet(queue_tasks') \subseteq ToSet(ts) \cup ToSet(queue_tasks)
          /\ ToSet(queue_tasks_deferred') \subseteq ToSet(queue_tasks_deferred)
          /\ loop' = "update_slots"
      BY <3>2, PostSets
    <3> QED BY <3>2, <3>3, KindsDiffer DEF Queued
  <2>2. CASE ~UpdatePostsNext
    <3>1. UNCHANGED <<queue_tasks, queue_tasks_deferred>>
      BY <2>2 DEF CallbackReturns, NewTaskReturns, UpdateSlotsReturns, UpdateAllIdle,
             BatchFilled, DecodeSucceeds, DecodeFails, ViewSampled, queueVars
    <3>2. ~(loop' = "new_task" /\ phase' = "begin")
      BY <1>1
    <3> QED BY <3>1, <3>2 DEF Queued
  <2> QED BY <2>1, <2>2
<1>5. \A s \in Slots : slots'[s].id_task = slots[s].id_task /\ (Working(s)' => Working(s))
  BY <1>1 DEF Working, Processing
<1> QED BY <1>1, <1>2, <1>3, <1>4, <1>5, AnswerQuiet

\* Those that do: results are sent for slots that work on a task.
LEMMA AnswerSlot ==
    ASSUME TypeInv, OnceInv, WaitInv, AnswerInv,
           \/ PromptFits \/ PromptRejected \/ FailSlot
           \/ SampleToken \/ StopSlot \/ SendEmbedding \/ ReleaseEmbedding
    PROVE  WaitInv' /\ AnswerInv'
<1> USE DEF TypeInv
<1>1. /\ loop = "update_slots" /\ outbox = <<>> /\ phase' # "begin" /\ UNCHANGED <<failures, httpVars>>
      /\ visit # {} => Min(visit) \in visit /\ Min(visit) \in Slots
  BY VisitedSlot DEF PromptFits, PromptRejected, FailSlot, SampleToken, StopSlot,
         SendEmbedding, ReleaseEmbedding, InUpdate, MainTypes
<1>2. Queued = ToSet(queue_tasks) \cup ToSet(queue_tasks_deferred)
  BY <1>1 DEF Queued
<1>3. UNCHANGED queueVars => Queued' = Queued
  BY <1>1, <1>2 DEF Queued, queueVars
\* A slot is released.
<1>4. CASE PromptRejected \/ (FailSlot /\ visit # {}) \/ StopSlot \/ ReleaseEmbedding
  <2>1. PICK s \in Slots : s = Min(visit) /\ s \in visit /\ ReleaseSlot(s)
    BY <1>1, <1>4 DEF PromptRejected, FailSlot, StopSlot, ReleaseEmbedding, InUpdate, Phases
  <2>2. /\ phase' \notin {"begin", "embedded"} /\ (phase' = "fail" => phase = "fail")
        /\ UNCHANGED responseVars
    BY <1>4 DEF PromptRejected, FailSlot, StopSlot, ReleaseEmbedding, InUpdate
  <2>3. \/ outbox' = <<>>
        \/ \E x : /\ outbox' = <<x>> /\ x.id = slots[s].id_task
                  /\ Working(s) \/ Excused(x)
    <3> DEFINE e == slots[s].id_task
    <3>1. e \in TaskId \cup {NoId}
      BY DEF SlotTypes
    <3>2. CASE ReleaseEmbedding
      BY <1>1, <3>2 DEF ReleaseEmbedding
    <3>3. CASE PromptRejected \/ StopSlot
      <4>1. outbox' \in {<<Final(e)>>, <<Error(e)>>}
        BY <2>1, <3>3 DEF PromptRejected, StopSlot
      <4>2. Working(s)
        BY <2>1, <3>3 DEF PromptRejected, StopSlot, InUpdate, Batches, Sampled, Working, Processing
      <4> HIDE DEF e
      <4> QED BY <3>1, <4>1, <4>2, AnswerTypes DEF e
    <3>4. CASE FailSlot /\ visit # {}
      <4>1. outbox' = <<Error(e)>> /\ phase = "fail"
        BY <2>1, <3>4 DEF FailSlot, InUpdate
      <4>2. Excused(Error(e)) /\ Error(e).id = e
        BY <4>1 DEF AnswerInv, Callback, Excused, Error, Result
      <4> QED BY <4>1, <4>2
    <3> QED BY <1>4, <3>2, <3>3, <3>4
  <2> QED BY <1>1, <2>1, <2>2, <2>3, AnswerReleases, BooksMain
<1>5. CASE FailSlot /\ visit = {}
  <2>1. UNCHANGED <<queueVars, responseVars, slots, outbox>> /\ phase' = "end" /\ phase = "fail"
    BY <1>5 DEF FailSlot, InUpdate
  <2>2. \A s \in Slots : slots'[s].id_task = slots[s].id_task /\ (Working(s)' => Working(s))
    BY <2>1 DEF Working, Processing
  <2> QED BY <1>1, <1>3, <2>1, <2>2, AnswerQuiet, BooksMain
\* A slot goes on.
<1>6. CASE PromptFits \/ SampleToken
  <2>1. PICK s \in visit : /\ \/ slots' = [slots EXCEPT ![s].state = "DONE_PROMPT", ![s].n = 0]
                              \/ slots' = [slots EXCEPT ![s].state = "PROCESSING_PROMPT"]
                              \/ slots' = [slots EXCEPT ![s].state = "GENERATING", ![s].n = slots[s].n + 1]
                           /\ UNCHANGED queueVars /\ phase \in {"prompt", "sample"}
                           /\ s = Min(visit) /\ UNCHANGED outbox /\ phase' \in {phase, "stop"}
    BY <1>1, <1>6 DEF PromptFits, SampleToken, InUpdate, SetSlot
  <2>2. s \in Slots /\ Working(s)
    BY <2>1 DEF MainTypes, Batches, Processing, Sampled, Working
  <2>3. SameOthers(s) /\ slots'[s].id_task = slots[s].id_task
    BY <2>1, <2>2 DEF SlotTypes, SameOthers
  <2>4. \A t \in Slots : slots'[t].id_task = slots[t].id_task /\ (Working(t)' => Working(t))
    BY <2>1, <2>2, <2>3 DEF SameOthers, Processing, Working
  <2>5. CASE UNCHANGED responseVars
    BY <1>1, <1>3, <2>1, <2>4, <2>5, AnswerQuiet, BooksMain
  <2>6. CASE ~UNCHANGED responseVars
    <3>1. PICK id \in TaskId : id = slots[s].id_task
      BY <2>2 DEF Working, OnceInv, SlotsOnce
    <3>2. Send(Partial(id))
      BY <1>6, <2>1, <2>6, <3>1 DEF PromptFits, SampleToken
    <3>3. PICK x \in ResultType(TaskId \cup {NoId}) : x = Partial(id)
      BY AnswerTypes
    <3>4. x.id = id /\ ~x.stop
      BY <3>3 DEF Partial, Result
    <3>5. Works(id)
      BY <2>2, <3>1 DEF Works
    <3>6. AssignedOnce' /\ \A i \in TaskId : Works(i)' => Works(i)
      BY <1>1, <1>3, <2>1, <2>4, WorkKept
    <3>7. \A r \in Request : x.id \in IdSet(r) =>
                /\ pc[r] \notin {"start", "post"}
                /\ Answered(x.id) \/ Gone(r, x.id) => Excused(x)
                /\ x.stop => ~Works(x.id)'
      BY <3>4, <3>5, WorkedOn
    <3> QED BY <1>1, <2>1, <3>2, <3>3, <3>6, <3>7, AnswerSend
  <2> QED BY <2>5, <2>6
\* The embedding of a slot is sent.
<1>7. CASE SendEmbedding
  <2>1. PICK s \in visit : /\ s = Min(visit) /\ s \in Slots /\ Send(Final(slots[s].id_task))
                           /\ phase = "sample" /\ phase' = "embedded"
                           /\ UNCHANGED <<queueVars, slots, visit, outbox>>
    BY <1>1, <1>7 DEF SendEmbedding, InUpdate
  <2>2. Working(s)
    BY <2>1 DEF Batches, Processing, Sampled, Working
  <2>3. PICK id \in TaskId : id = slots[s].id_task
    BY <2>1, <2>2 DEF Working, OnceInv, SlotsOnce
  <2>4. PICK x \in ResultType(TaskId \cup {NoId}) : x = Final(id) /\ x.id = id
    BY AnswerTypes
  <2>5. \A t \in Slots : slots'[t].id_task = slots[t].id_task /\ (Working(t)' => Working(t) /\ t # s)
    BY <2>1 DEF Processing, Working
  <2>6. AssignedOnce' /\ \A i \in TaskId : Works(i)' => Works(i)
    BY <1>1, <1>3, <2>1, <2>5, WorkKept
  <2>7. Works(id) /\ ~Works(id)'
    <3>1. RequestTask(id) \notin Queued /\ \A t \in Slots \ {s} : Processing(t) => slots[t].id_task # id
      BY <2>1, <2>2, <2>3 DEF Working, OnceInv, SlotsOnce
    <3>2. ~Works(id)'
      BY <1>3, <2>1, <2>5, <3>1 DEF Works, Working
    <3> QED BY <2>1, <2>2, <2>3, <3>2 DEF Works
  <2>8. \A r \in Request : x.id \in IdSet(r) =>
                /\ pc[r] \notin {"start", "post"}
                /\ Answered(x.id) \/ Gone(r, x.id) => Excused(x)
                /\ x.stop => ~Works(x.id)'
    BY <2>4, <2>7, WorkedOn
  <2> QED BY <1>1, <2>1, <2>3, <2>4, <2>6, <2>8, AnswerSend
<1> QED BY <1>4, <1>5, <1>6, <1>7

LEMMA AnswerNext ==
    TypeInv /\ ForgetInv /\ OnceInv /\ WaitInv /\ AnswerInv /\ [Next]_vars => WaitInv' /\ AnswerInv'
<1> SUFFICES ASSUME TypeInv, ForgetInv, OnceInv, WaitInv, AnswerInv, [Next]_vars
             PROVE  WaitInv' /\ AnswerInv'
  OBVIOUS
<1>1. TypeInv'
  BY TypesNext
<1>2. CASE UNCHANGED vars
  <2>1. UNCHANGED <<queueVars, responseVars, mainVars, httpVars>>
    BY <1>2 DEF vars
  <2>2. WaitInv'
    BY <2>1, BooksMain
  <2> QED BY <2>1, <2>2 DEF AnswerInv, Settled, ResultsOf, LeavingOf, Excused, Works, Working, Queued, Answered,
          Gone, Repeats, AssignedOnce, Callback, Processing, Polls, NoneAfter, queueVars, responseVars, mainVars, httpVars
<1>3. ASSUME NEW r \in Request, HttpThread(r) \/ ClientCloses(r)
      PROVE  WaitInv' /\ AnswerInv'
  BY <1>1, <1>3, BooksHttp, AnswerHttp
<1>4. ASSUME MainLoop \/ ProcessSingleTask \/ CallbackReturns \/ UpdateAllIdle \/ UpdatePostsNext
             \/ BatchFilled \/ DecodeSucceeds \/ DecodeFails \/ ViewSampled
      PROVE  WaitInv' /\ AnswerInv'
  <2>1. UNCHANGED <<httpVars, responseVars>>
    BY <1>4 DEF MainLoop, ProcessSingleTask, DeferTask, LaunchTask, CancelSlot, AnswerTask, IgnoreTask,
           CallbackReturns, UpdateAllIdle, UpdatePostsNext, BatchFilled, DecodeSucceeds, DecodeFails, ViewSampled
  <2> QED BY <1>4, <2>1, BooksMain, AnswerLoop, AnswerTasks, AnswerPass
<1> QED BY <1>2, <1>3, <1>4, AnswerOutbox, AnswerSlot DEF Next, MainThread, UpdateSlots

\* Every task is answered once, whichever way it ends: no result of a task comes
\* after its final one, and a request that still waits has not had the last
\* result of what it waits for; the errors of failed decodes aside.
THEOREM AnsweredOnce == Spec => []OneAnswer
BY AnswerInit, AnswerNext, OnceInit, OnceNext, ForgetInit, ForgetNext, TypesInit, TypesNext,
   AnswerImplies, PTL DEF Spec

\* No result stays in queue_results without a request that waits for it, unless
\* the client went away before its results were asked for, or the result is an
\* error of a failed decode.
THEOREM NoResultLeftBehind == Spec => []ResultsHaveWaiter
BY AnswerInit, AnswerNext, OnceInit, OnceNext, ForgetInit, ForgetNext, TypesInit, TypesNext,
   WaiterImplies, PTL DEF Spec
=============================================================================
