------------------------------- MODULE Server -------------------------------
(***************************************************************************)
(* tools/server/server.cpp: the HTTP threads that turn a request into      *)
(* tasks and wait for their results, and the main thread that runs the     *)
(* tasks on slots.  They share server_queue and server_response; the slots *)
(* belong to the main thread.                                              *)
(*                                                                         *)
(* An action of an HTTP thread is one critical section of one of the two   *)
(* mutexes.  The main thread's callbacks are cut wherever they enter one:  *)
(* `phase' says how far the callback has come, `visit' which slots the     *)
(* current pass has still to look at (in index order), `outbox' which      *)
(* results it is about to send.                                            *)
(*                                                                         *)
(* Tokens, prompts and the KV cache are abstracted to the control they     *)
(* decide: whether a prompt fits, whether a decode succeeds, whether a     *)
(* token is the last one.                                                  *)
(***************************************************************************)
EXTENDS ServerQueue, ServerResponse

CONSTANTS
    Request,        \* the HTTP requests, one thread each
    Kind,           \* Kind[r]: what r asks for
    Ids,            \* Ids[r]: the sequence of the ids of its tasks
    IdSlot,         \* IdSlot[r]: the slot it asks for, or NoId for any
    Lora,           \* Lora[r]: the adapters it asks for
    BadGrammar,     \* requests whose tasks launch_slot_with_task() rejects
    MayClose,       \* requests whose client may close the connection
    NSlots,         \* the number of slots
    MaxTokens,      \* a completion stops after this many tokens at the latest
    MaxFailures     \* how many decodes may fail, to bound the model

Slots == 0 .. NSlots - 1
AnyKind == {"COMPLETION", "STREAM", "EMBEDDING", "METRICS", "SET_LORA", "SLOT_ACTION"}
IdSet(r) == ToSet(Ids[r])
TaskId == UNION {IdSet(r) : r \in Request}

\* The requests whose thread polls with recv_with_timeout() and watches the
\* connection; the others call recv() once.
Polls(r) == Kind[r] \in {"COMPLETION", "STREAM", "EMBEDDING"}
Owner(id) == CHOOSE r \in Request : id \in IdSet(r)

Inference == {"COMPLETION", "EMBEDDING"}
TaskType(r) == IF Kind[r] = "STREAM" THEN "COMPLETION" ELSE Kind[r]
NewTask(type, id, target, slot) ==
    [type |-> type, id |-> id, id_target |-> target, id_slot |-> slot]
RequestTask(id) == LET r == Owner(id) IN NewTask(TaskType(r), id, NoId, IdSlot[r])
CancelTask(id) == NewTask("CANCEL", NoId, id, NoId)
NextResponse == NewTask("NEXT_RESPONSE", NoId, NoId, NoId)

ServerTask ==
    {RequestTask(id) : id \in TaskId} \cup {CancelTask(id) : id \in TaskId} \cup {NextResponse}

ASSUME ServerAssumption ==
    /\ Task = ServerTask
    /\ NSlots \in Nat \ {0} /\ MaxTokens \in Nat \ {0} /\ MaxFailures \in Nat
    /\ Kind \in [Request -> AnyKind]
    /\ BadGrammar \subseteq Request
    /\ MayClose \subseteq {r \in Request : Polls(r)}
    /\ NoId \notin TaskId \cup Slots

ASSUME IdsAssumption ==
    /\ \A r \in Request : Ids[r] \in Seq(IdSet(r)) /\ Ids[r] # <<>> /\ IsInjective(Ids[r])
    /\ \A r \in Request : ~Polls(r) => Len(Ids[r]) = 1
    /\ \A q, r \in Request : q # r => IdSet(q) \cap IdSet(r) = {}

VARIABLES
    slots,      \* the slots: state, id_task, and tokens decoded for the task
    phase,      \* progress of the callback the main thread is in
    visit,      \* slots the current pass of update_slots() has yet to visit
    unsampled,  \* slots whose logits are in no decoded view of the batch yet
    outbox,     \* results the main thread is about to send
    failures,   \* decodes that have failed
    pc,         \* pc[r]: where the thread of request r is
    left,       \* left[r]: ids r has no final result of, or has yet to cancel
    closed,     \* requests whose client has closed the connection
    cancelled   \* ids whose CANCEL task has been posted

mainVars == <<slots, phase, visit, unsampled, outbox, failures>>
httpVars == <<pc, left, closed, cancelled>>
vars == <<queueVars, responseVars, mainVars, httpVars>>

SlotState == {"IDLE", "STARTED", "PROCESSING_PROMPT", "DONE_PROMPT", "GENERATING"}
Processing(s) == slots[s].state # "IDLE"

Result(id, stop, error) == [id |-> id, stop |-> stop, error |-> error]
Partial(id) == Result(id, FALSE, FALSE)
Final(id) == Result(id, TRUE, FALSE)
Error(id) == Result(id, TRUE, TRUE)

Init ==
    /\ QueueInit
    /\ ResponseInit
    /\ slots = [s \in Slots |-> [state |-> "IDLE", id_task |-> NoId, n |-> 0]]
    /\ phase = "begin"
    /\ visit = {} /\ unsampled = {}
    /\ outbox = <<>>
    /\ failures = 0
    /\ pc = [r \in Request |-> "start"]
    /\ left = [r \in Request |-> {}]
    /\ closed = {} /\ cancelled = {}

-----------------------------------------------------------------------------
(* The HTTP threads.                                                       *)

Goto(r, where) == pc' = [pc EXCEPT ![r] = where]

\* The handler builds its tasks and registers their ids.
Begin(r) ==
    /\ pc[r] = "start"
    /\ AddWaiting(IdSet(r))
    /\ left' = [left EXCEPT ![r] = IdSet(r)]
    /\ Goto(r, "post")
    /\ UNCHANGED <<queueVars, mainVars, closed, cancelled>>

\* The handler posts them; a streaming handler returns, its results are
\* received later, by the content provider.
PostTasks(r) ==
    /\ pc[r] = "post"
    /\ Post([i \in DOMAIN Ids[r] |-> RequestTask(Ids[r][i])], Kind[r] = "METRICS")
    /\ Goto(r, IF Kind[r] = "STREAM" THEN "provide" ELSE "receive")
    /\ UNCHANGED <<responseVars, mainVars, left, closed, cancelled>>

ClientCloses(r) ==
    /\ r \in MayClose \ closed /\ pc[r] # "done"
    /\ closed' = closed \cup {r}
    /\ UNCHANGED <<queueVars, responseVars, mainVars, pc, left, cancelled>>

\* The HTTP library calls the content provider, or, when the connection is no
\* longer writable, on_complete only (write_content_chunked() tests it first).
Provide(r) ==
    /\ pc[r] = "provide"
    /\ \/ Goto(r, "receive")
       \/ r \in closed /\ Goto(r, "finish")
    /\ UNCHANGED <<queueVars, responseVars, mainVars, left, closed, cancelled>>

\* recv_with_timeout() returns a result: receive_multi_results() and
\* receive_cmpl_results_stream().
ReceivePolling(r) ==
    /\ pc[r] = "receive" /\ Polls(r)
    /\ TakeResult(r, IdSet(r))
    /\ LET res  == FirstMatch(IdSet(r))
           rest == IF res.stop THEN left[r] \ {res.id} ELSE left[r]
       IN  \/ /\ r \in closed \/ res.error
              /\ Goto(r, "cancel")
              /\ left' = [left EXCEPT ![r] = IdSet(r)]
           \/ /\ r \notin closed /\ ~res.error
              /\ left' = [left EXCEPT ![r] = rest]
              /\ IF rest = {} THEN Goto(r, "finish") ELSE UNCHANGED pc
    /\ UNCHANGED <<queueVars, mainVars, closed, cancelled>>

\* recv() returns: the handlers of metrics, slots, slot actions and LoRA.
ReceiveOnce(r) ==
    /\ pc[r] = "receive" /\ ~Polls(r)
    /\ TakeResult(r, IdSet(r))
    /\ left' = [left EXCEPT ![r] = {}]
    /\ Goto(r, "finish")
    /\ UNCHANGED <<queueVars, mainVars, closed, cancelled>>

FallAsleep(r) ==
    /\ pc[r] = "receive"
    /\ IF Polls(r) THEN TimedRecvSleeps(r, IdSet(r)) ELSE RecvSleeps(r)
    /\ UNCHANGED <<queueVars, mainVars, httpVars>>

\* recv_with_timeout() returns nullptr: retry, unless the client is gone.
PollExpires(r) ==
    /\ pc[r] = "receive" /\ Polls(r)
    /\ TimedRecvExpires(r)
    /\ IF r \in closed
         THEN /\ Goto(r, "cancel")
              /\ left' = [left EXCEPT ![r] = IdSet(r)]
         ELSE UNCHANGED <<pc, left>>
    /\ UNCHANGED <<queueVars, mainVars, closed, cancelled>>

\* cancel_tasks(), one iteration of its loop.
CancelForgets(r) ==
    /\ pc[r] = "cancel" /\ left[r] # {}
    /\ \E id \in left[r] :
         /\ RemoveWaitingId(id)
         /\ left' = [left EXCEPT ![r] = @ \ {id}]
    /\ UNCHANGED <<queueVars, mainVars, pc, closed, cancelled>>

\* cancel_tasks(), its last statement.
CancelPosts(r) ==
    /\ pc[r] = "cancel" /\ left[r] = {}
    /\ Post([i \in DOMAIN Ids[r] |-> CancelTask(Ids[r][i])], TRUE)
    /\ cancelled' = cancelled \cup IdSet(r)
    /\ Goto(r, "finish")
    /\ UNCHANGED <<responseVars, mainVars, left, closed>>

Finish(r) ==
    /\ pc[r] = "finish"
    /\ IF Polls(r) THEN RemoveWaitingIds(IdSet(r)) ELSE RemoveWaitingId(Ids[r][1])
    /\ Goto(r, "done")
    /\ UNCHANGED <<queueVars, mainVars, left, closed, cancelled>>

HttpThread(r) ==
    \/ Begin(r) \/ PostTasks(r) \/ Provide(r)
    \/ ReceivePolling(r) \/ ReceiveOnce(r) \/ FallAsleep(r) \/ PollExpires(r)
    \/ CancelForgets(r) \/ CancelPosts(r) \/ Finish(r)

-----------------------------------------------------------------------------
(* The main thread: process_single_task().                                 *)

SetSlot(s, state) == slots' = [slots EXCEPT ![s].state = state]
Idle(ss) == {s \in ss : ~Processing(s)}

\* Mutant: no deferred task is taken back.
ReleaseSlot_NoPop(s) == SetSlot(s, "IDLE") /\ UNCHANGED queueVars

\* slot.release() and the callback init() gave it.
ReleaseSlot(s) ==
    IF Processing(s)
      THEN SetSlot(s, "IDLE") /\ PopDeferred
      ELSE UNCHANGED <<slots, queueVars>>

\* get_slot_by_id(), or any idle slot for get_available_slot(): similarity and
\* recency only choose among the idle ones.
Candidates(t) ==
    IF t.id_slot = NoId THEN Idle(Slots) ELSE {s \in Slots : s = t.id_slot}

CallbackGets(types) ==
    loop = "new_task" /\ phase = "begin" /\ outbox = <<>> /\ current.type \in types

\* No slot, or the requested one is busy.
DeferTask ==
    /\ CallbackGets(Inference \cup {"SLOT_ACTION"})
    /\ Idle(Candidates(current)) = {}
    /\ current.type = "SLOT_ACTION" => Candidates(current) # {}
    /\ Defer
    /\ phase' = "end"
    /\ UNCHANGED <<responseVars, slots, visit, unsampled, outbox, failures, httpVars>>

\* launch_slot_with_task(): a rejected task leaves its id in the idle slot.
LaunchTask ==
    /\ CallbackGets(Inference)
    /\ \E s \in Idle(Candidates(current)) :
         LET bad == Owner(current.id) \in BadGrammar
         IN  /\ slots' = [slots EXCEPT ![s] =
                    [@ EXCEPT !.id_task = current.id,
                              !.state   = IF bad THEN "IDLE" ELSE "STARTED"]]
             /\ outbox' = IF bad THEN <<Error(current.id)>> ELSE <<>>
    /\ phase' = "end"
    /\ UNCHANGED <<queueVars, responseVars, visit, unsampled, failures, httpVars>>

\* A CANCEL task releases the first slot with its id, stale ids included.
CancelSlot ==
    /\ CallbackGets({"CANCEL"})
    /\ LET same == {s \in Slots : slots[s].id_task = current.id_target}
       IN  IF same = {} THEN UNCHANGED <<slots, queueVars>> ELSE ReleaseSlot(Min(same))
    /\ phase' = "end"
    /\ UNCHANGED <<responseVars, visit, unsampled, outbox, failures, httpVars>>

\* METRICS and SET_LORA are answered; a slot action is carried out on an idle
\* slot and answered, with an error when it fails or names no slot.
AnswerTask ==
    /\ CallbackGets({"METRICS", "SET_LORA", "SLOT_ACTION"})
    /\ \/ /\ current.type # "SLOT_ACTION" \/ Idle(Candidates(current)) # {}
          /\ outbox' = <<Final(current.id)>>
       \/ /\ current.type = "SLOT_ACTION"
          /\ Candidates(current) = {} \/ Idle(Candidates(current)) # {}
          /\ outbox' = <<Error(current.id)>>
    /\ phase' = "end"
    /\ UNCHANGED <<queueVars, responseVars, slots, visit, unsampled, failures, httpVars>>

IgnoreTask ==
    /\ CallbackGets({"NEXT_RESPONSE"})
    /\ phase' = "end"
    /\ UNCHANGED <<queueVars, responseVars, slots, visit, unsampled, outbox, failures, httpVars>>

ProcessSingleTask ==
    DeferTask \/ LaunchTask \/ CancelSlot \/ AnswerTask \/ IgnoreTask

\* queue_results.send() of what the callback has prepared.
SendOutbox ==
    /\ outbox # <<>>
    /\ Send(Head(outbox))
    /\ outbox' = Tail(outbox)
    /\ UNCHANGED <<queueVars, slots, phase, visit, unsampled, failures, httpVars>>

CallbackReturns ==
    /\ phase = "end" /\ outbox = <<>>
    /\ NewTaskReturns \/ UpdateSlotsReturns
    /\ phase' = "begin"
    /\ UNCHANGED <<responseVars, slots, visit, unsampled, outbox, failures, httpVars>>

-----------------------------------------------------------------------------
(* The main thread: update_slots().                                        *)

InState(states) == {s \in Slots : slots[s].state \in states}
InUpdate(p) == loop = "update_slots" /\ phase = p /\ outbox = <<>>

SlotLora(s) == Lora[Owner(slots[s].id_task)]
SlotType(s) == RequestTask(slots[s].id_task).type

\* is_non_causal()
NonCausal(s) == SlotType(s) = "EMBEDDING"

\* Mutant: the slot that was first in an earlier batch is still taken for it.
BatchFirst_Stale == Min({s \in Slots : slots[s].id_task # NoId})

\* The slot that enters the batch first.
BatchFirst ==
    LET generating == InState({"GENERATING"})
    IN  Min(IF generating # {} THEN generating ELSE {s \in Slots : Processing(s)})

\* can_batch_with() keeps the slots with other adapters, and embeddings and
\* completions of each other, out of this call.
CanBatchWith(s, t) == NonCausal(s) = NonCausal(t) /\ SlotLora(s) = SlotLora(t)
Batched(ss) == {s \in ss : CanBatchWith(BatchFirst, s)}

UpdateAllIdle ==
    /\ InUpdate("begin") /\ Idle(Slots) = Slots
    /\ phase' = "end"
    /\ UNCHANGED <<queueVars, responseVars, slots, visit, unsampled, outbox, failures, httpVars>>

\* Mutant: a busy server does not call itself again.
UpdatePostsNext_Not ==
    /\ InUpdate("begin") /\ Idle(Slots) # Slots
    /\ phase' = "prompt"
    /\ visit' = Batched(InState({"STARTED", "PROCESSING_PROMPT"}))
    /\ UNCHANGED <<queueVars, responseVars, slots, unsampled, outbox, failures, httpVars>>

\* Some slot is busy: post a NEXT_RESPONSE task, then fill the batch.
UpdatePostsNext ==
    /\ InUpdate("begin") /\ Idle(Slots) # Slots
    /\ Post(<<NextResponse>>, FALSE)
    /\ phase' = "prompt"
    /\ visit' = Batched(InState({"STARTED", "PROCESSING_PROMPT"}))
    /\ UNCHANGED <<responseVars, slots, unsampled, outbox, failures, httpVars>>

\* A prompt enters the batch, to its end or, once, in part.  When the batch is
\* full the slots behind have to wait for the next call.
PromptFits ==
    /\ InUpdate("prompt") /\ visit # {}
    /\ LET s == Min(visit)
       IN  /\ \/ slots' = [slots EXCEPT ![s].state = "DONE_PROMPT", ![s].n = 0]
              \/ slots[s].state = "STARTED" /\ SetSlot(s, "PROCESSING_PROMPT")
           /\ visit' \in {visit \ {s}, {}}
    /\ UNCHANGED <<queueVars, responseVars, phase, unsampled, outbox, failures, httpVars>>

\* A new prompt is empty, or too large: the slot is released and then the
\* answer is sent.
PromptRejected ==
    /\ InUpdate("prompt") /\ visit # {}
    /\ LET s == Min(visit)
       IN  /\ slots[s].state = "STARTED"
           /\ ReleaseSlot(s)
           /\ outbox' \in {<<Final(slots[s].id_task)>>, <<Error(slots[s].id_task)>>}
           /\ visit' = visit \ {s}
    /\ UNCHANGED <<responseVars, phase, unsampled, failures, httpVars>>

BatchFilled ==
    /\ InUpdate("prompt") /\ visit = {}
    /\ phase' = IF Idle(Slots) = Slots THEN "end" ELSE "decode"
    /\ unsampled' = InState({"DONE_PROMPT"}) \cup Batched(InState({"GENERATING"}))
    /\ UNCHANGED <<queueVars, responseVars, slots, visit, outbox, failures, httpVars>>

\* llama_decode() of a view succeeds: its slots can be sampled.
DecodeSucceeds ==
    /\ InUpdate("decode")
    /\ IF unsampled = {}
         THEN phase' = "end" /\ UNCHANGED <<visit, unsampled>>
         ELSE /\ phase' = "sample"
              /\ visit' \in (SUBSET unsampled) \ {{}}
              /\ unsampled' = unsampled \ visit'
    /\ UNCHANGED <<queueVars, responseVars, slots, outbox, failures, httpVars>>

\* llama_decode() fails for good.
DecodeFails ==
    /\ InUpdate("decode") /\ failures < MaxFailures
    /\ failures' = failures + 1
    /\ phase' = "fail"
    /\ visit' = Slots
    /\ unsampled' = {}
    /\ UNCHANGED <<queueVars, responseVars, slots, outbox, httpVars>>

\* Mutant: the slots are released without a word.
FailSlot_Silent ==
    /\ InUpdate("fail")
    /\ IF visit = {}
         THEN phase' = "end" /\ UNCHANGED <<queueVars, slots, visit, outbox>>
         ELSE LET s == Min(visit)
              IN  /\ ReleaseSlot(s)
                  /\ outbox' = <<>>
                  /\ visit' = visit \ {s}
                  /\ UNCHANGED phase
    /\ UNCHANGED <<responseVars, unsampled, failures, httpVars>>

\* Every slot is released and sent an error, whether it was busy or not.
FailSlot ==
    /\ InUpdate("fail")
    /\ IF visit = {}
         THEN phase' = "end" /\ UNCHANGED <<queueVars, slots, visit, outbox>>
         ELSE LET s == Min(visit)
              IN  /\ ReleaseSlot(s)
                  /\ outbox' = <<Error(slots[s].id_task)>>
                  /\ visit' = visit \ {s}
                  /\ UNCHANGED phase
    /\ UNCHANGED <<responseVars, unsampled, failures, httpVars>>

Streams(s) == Kind[Owner(slots[s].id_task)] = "STREAM"

\* Mutant: the token budget is tested before the token is counted.
SampleToken_OneMore ==
    /\ InUpdate("sample") /\ visit # {}
    /\ LET s == Min(visit)
       IN  /\ SlotType(s) = "COMPLETION"
           /\ slots' = [slots EXCEPT ![s].state = "GENERATING", ![s].n = @ + 1]
           /\ \/ slots[s].n <= MaxTokens /\ visit' = visit \ {s} /\ UNCHANGED phase
              \/ phase' = "stop" /\ UNCHANGED visit
    /\ UNCHANGED <<queueVars, responseVars, unsampled, outbox, failures, httpVars>>

\* A token of a completion: process_token() sends it when the client streams
\* and the text is complete, and says whether there is a next one.
SampleToken ==
    /\ InUpdate("sample") /\ visit # {}
    /\ LET s == Min(visit)
       IN  /\ SlotType(s) = "COMPLETION"
           /\ slots' = [slots EXCEPT ![s].state = "GENERATING", ![s].n = @ + 1]
           /\ \/ UNCHANGED responseVars
              \/ Streams(s) /\ Send(Partial(slots[s].id_task))
           /\ \/ slots[s].n + 1 < MaxTokens /\ visit' = visit \ {s} /\ UNCHANGED phase
              \/ phase' = "stop" /\ UNCHANGED visit
    /\ UNCHANGED <<queueVars, unsampled, outbox, failures, httpVars>>

\* The last token: the slot is released before the final response is sent.
StopSlot ==
    /\ InUpdate("stop")
    /\ LET s == Min(visit)
       IN  /\ ReleaseSlot(s)
           /\ outbox' = <<Final(slots[s].id_task)>>
           /\ visit' = visit \ {s}
    /\ phase' = "sample"
    /\ UNCHANGED <<responseVars, unsampled, failures, httpVars>>

\* An embedding is sent, or the error that there is none, and then the slot is
\* released.
SendEmbedding ==
    /\ InUpdate("sample") /\ visit # {}
    /\ LET s == Min(visit)
       IN  SlotType(s) = "EMBEDDING" /\ Send(Final(slots[s].id_task))
    /\ phase' = "embedded"
    /\ UNCHANGED <<queueVars, slots, visit, unsampled, outbox, failures, httpVars>>

ReleaseEmbedding ==
    /\ InUpdate("embedded")
    /\ ReleaseSlot(Min(visit))
    /\ visit' = visit \ {Min(visit)}
    /\ phase' = "sample"
    /\ UNCHANGED <<responseVars, unsampled, outbox, failures, httpVars>>

ViewSampled ==
    /\ InUpdate("sample") /\ visit = {}
    /\ phase' = IF unsampled = {} THEN "end" ELSE "decode"
    /\ UNCHANGED <<queueVars, responseVars, slots, visit, unsampled, outbox, failures, httpVars>>

UpdateSlots ==
    \/ UpdateAllIdle \/ UpdatePostsNext \/ PromptFits \/ PromptRejected \/ BatchFilled
    \/ DecodeSucceeds \/ DecodeFails \/ FailSlot
    \/ SampleToken \/ StopSlot \/ SendEmbedding \/ ReleaseEmbedding \/ ViewSampled

MainLoop == (StartLoop \/ LoopStep) /\ UNCHANGED <<responseVars, mainVars, httpVars>>

MainThread ==
    MainLoop \/ ProcessSingleTask \/ SendOutbox \/ CallbackReturns \/ UpdateSlots

Next ==
    \/ \E r \in Request : HttpThread(r) \/ ClientCloses(r)
    \/ MainThread

Spec == Init /\ [][Next]_vars

\* Every thread keeps running; a client need not close its connection.
Fairness == WF_vars(MainThread) /\ \A r \in Request : WF_vars(HttpThread(r))

FairSpec == Spec /\ Fairness
=============================================================================
