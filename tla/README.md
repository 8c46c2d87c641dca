# A verification project for linkedin_llm

The repository is a LinkedIn assistant (a dozen Python scripts at its root) and
the llama.cpp tree it runs its models with. This directory holds TLA+ models of
the parts of both that carry state, the TLC configurations that check them, and
TLAPS proofs about them. Paths below are relative to the repository; `server.cpp`
is `src/llama.cpp/tools/server/server.cpp`, other paths of llama.cpp begin at
`src/llama.cpp/`. Of the three copies of llama.cpp in the tree (`src/llama.cpp`,
and two nested in it) the outer one is modelled.

## 1. The system

| component | state | operations | hard behaviour |
|---|---|---|---|
| assistant (`src/app.py`, `linkedin_query_answer.py`, `build_index.py`) | `raw_metadata.json`, the widgets and the run of each session, the CSV of generated posts | ask, click, rerun, load, answer, call the LLM, display, save; rebuild | the script is run again for every interaction and a run is given up half-way; the file is rewritten under it; a build may die |
| task queue (`server_queue`, server.cpp:1551-1714) | queue, deferred tasks, running flag, place of the main loop | post, defer, pop_deferred_task, terminate, start_loop | condition variable, callbacks outside the mutex, cancellation |
| result queue (`server_response`, server.cpp:1716-1846) | waiting ids, results, sleeping threads | add/remove ids, send, recv, recv_with_timeout | shared by all requests; timeouts; ids removed while results arrive |
| requests and slots (`server_context`, HTTP handlers) | slots, the callback's progress, each HTTP thread | process_single_task, update_slots, cancel_tasks, receive_* | clients that leave, deferral, batches that fail, adapters that do not mix |
| prompt cache of the slots (`update_slots`, server.cpp:2923-3597) | cache_tokens, n_past, i_batch of each slot, the batch | context shift, reuse of prompts and of chunks, truncation, halved batches, speculation, save, restore, erase | two records of one memory; failures in the middle of a batch |
| shutdown (`main`, server.cpp:4872-4967) | mutex holder, flags, place of every thread | signal, clean_up, join | a handler inside the thread it interrupts; notification without mutex |
| decoding context (`src/llama-context.cpp`) | the batch and its micro-batches, the memory | decode with placement, retry, failure | the placement is tried on the real cells and undone |
| KV caches (`src/llama-kv-cache-unified.cpp`, `-iswa.cpp`) | cells, head, rows of the tensors; a second cache for the sliding window | find_slot, apply_ubatch, prepare, seq_*, K-shift, defragmentation | cells and rows are changed at different times; cells reused by masking |
| KV cells (`src/llama-kv-cells.h`) | pos, shift, seq, used, seq_pos, has_shift | 10 methods that change the object | the same facts held several times; sets that cannot count |
| batch splitting (`src/llama-batch.cpp`) | groups of sequences | simple and equal split | a list shortened from its end while groups are taken side by side |
| thread pool (`ggml/src/ggml-cpu/ggml-cpu.c`) | barrier words, graph counter, flags, place of every thread | kickoff, poll, sleep, barrier, chunks, abort, pause, free | lock-free reads, two words for all barriers, one mutex for sleep only |
| recurrent cache, allocator, scheduler, RPC, log, n-gram cache | see section 8 | | not modelled |
| grammars, sampling, templates, tokenizer, model files, tensor operators | text and numbers | | not modelled: sequential text processing and numerics |

How they interact. An HTTP thread registers the ids of its tasks with
`queue_results`, posts the tasks to `queue_tasks`, and waits for results. The main
thread drains the queue through `process_single_task()`, which starts a task on
an idle slot, defers it or answers it, and then calls `update_slots()`, which
builds one batch from all slots, decodes it, sends results and releases slots; a
release takes one deferred task back. While a slot is busy `update_slots()` posts
a `NEXT_RESPONSE` task to keep the main loop awake. Cancellation is a task, too,
posted in front. A signal handler stops the main loop. `llama_decode()` first
brings the caches up to date (K-shift, defragmentation), cuts the batch into
micro-batches, finds cells for each in the one cache or the two, and computes a
graph for each; every graph is computed by the threads of the pool. What a slot
remembers (`cache_tokens`) and what the memory holds must agree, although only
the first is compared with the next prompt.

The models meet at these seams: `QueueClients` and `Server` use the queues;
`ServerShutdown` repeats their mutexes at a finer grain; `SlotCache` uses the
memory as `SequenceCache` describes it, sequence by sequence; `KvDecode`
implements `SequenceCache` with `KvCache`, which is built on `KvCells`; the
graphs that `KvDecode` takes as single steps are computed by `ThreadPool`, which
implements `GraphCompute` and uses `ThreadBarrier`.

## 2. Modules

| module | models | notes |
|---|---|---|
| `ServerQueue` | `server_queue` | one action per critical section of `mutex_tasks`; `loop` is the place of the main thread in `start_loop()` |
| `RemoveIf` | `erase(remove_if(...))` | operator of both queues |
| `TaskPool` | what `server_queue` promises | abstract specification, a set of tasks |
| `QueueClients`, `MCQueueClients` | any use of the queue by its callers | composes `ServerQueue` with posting threads, callbacks, signal; implements `TaskPool` |
| `ServerResponse` | `server_response` | `recv` is cut where it sleeps |
| `Server` | HTTP handlers, `process_single_task`, `update_slots` | EXTENDS both queues |
| `ServerProperties`, `MCServer` | properties; instances | |
| `ServerShutdown`, `MCShutdown` | the end of the process | finer steps on the mutexes than `Server` |
| `SlotCache`, `MCSlotCache` | what `update_slots()` does with tokens | one thread; a step is the visit of a loop to one slot (while chunks are reused, to one place of the cache), a call of `llama_decode()` or a sampled token |
| `SequenceCache` | the memory as `include/llama.h` describes it | abstract specification: entries with a position and sequences |
| `KvDecode`, `MCKvDecode` | `llama_context::decode()`, `llama_kv_cache_unified_iswa` | the program between two decodes does what `tools/server` does; implements `SequenceCache` |
| `KvCache` | `llama_kv_cache_unified` | methods as operators on the record of the members, the rows of the tensors as whose they are and the position they are rotated to |
| `BatchSplit` | `llama_sbatch` | operators |
| `KvCells`, `KvCellsUse` | `llama_kv_cells_unified`, and a caller that obeys its asserts | each method is an operator on the record of the members |
| `ThreadBarrier` | `ggml_barrier()` | actions, and as `BarrierSpec` the use they are made for |
| `ThreadPool` | `struct ggml_threadpool` and its threads | composes the actions of `ThreadBarrier`; implements `BarrierSpec` and `GraphCompute` |
| `GraphCompute` | what `ggml_graph_compute()` promises | abstract specification, with liveness |
| `Assistant`, `MCAssistant` | `app.py`, the answer rules, `build_index.py` | Streamlit is modelled from the way app.py uses it |
| `QueueClientsProofs`, `ServerShutdownProofs`, `KvCellsProofs`, `ThreadPoolProofs`, `AssistantProofs`, `ServerProofs`, `SlotCacheProofs`, `SequenceLemmas` | theorems | section 5 |

Operators named `X_Y` above an `X` with the comment "Mutant" are `X` with a
plausible bug. No specification uses them; substituted for `X` they show that the
property named in PROJECT.json notices the bug.

**Abstractions of the server.** In `Server`, prompts, tokens and text are reduced
to the control they decide: whether a prompt is empty or too large, whether it
fills the batch, whether a token is the last, whether a decode fails. A task is a
model value with a type, an id, a target and a slot number. The retry of
`llama_decode()` with half the batch is one step, "it succeeded for these slots"
or "it failed for good"; its steps are those of `SlotCache`. In
`can_batch_with()` compares adapters and whether the tasks are embeddings. In
`process_token()` a streamed token may or may not be sent (the code holds
incomplete UTF-8 and stop words back). `get_available_slot()` chooses any idle
slot, as similarity and recency only order them. `cont_batching` is on, as by
default. The branch of `update_slots()` for a context that is full while context
shift is disabled ends in the comment "we should never get here"
(server.cpp:2968) and is left out of `Server`. Multimodal prompts are left out.

**Abstractions of the slots' cache.** In `SlotCache` the memory is, for each
sequence, a set of tokens with positions, and the model samples any token. Why a
slot stops is left open except where the context forces it. Speculation is a
draft of which any number of tokens is accepted. The loops of `update_slots()` over
the slots are steps of their own: `at` is the slot the loop has reached, `group` is
`slot_batched` (its adapters), and `heads` are `head_c` and `head_p` of the loop that
reuses chunks, which stops at every place of the cache. `n_discard` is the default, half
of what is left; the window of `llama_model_n_swa()` is `KvDecode`'s. A call that fails leaves the
micro-batches before the failing one in the memory; `lost` is a history variable
that marks the slots that the code leaves with a `cache_tokens` the memory does
not have, until they start from scratch. Both settings of `CtxShift` are in the
model; the runs have it on, as the server has by default. All slots run completions:
slots of embedding and rerank tasks (server.cpp:3095-3106, 3239-3245, 3452-3465)
are left out, and so the comparison of `is_non_causal()` in `can_batch_with()` always
holds. `Server` has embeddings.

**Abstractions of the caches.** A token is its position and its sequences; a row
of K and V is the token it was computed for and the position it is rotated to.
A graph is one step that succeeds or fails. `set()` and `cp()` of several cells
are one call per cell. Whether the cache is fragmented enough for an automatic
defragmentation is left open. `seq_div()` and self-extend are in `KvCells`
only. The state of an empty cell's rows is forgotten. A window of one token,
chunked windows, M-RoPE and the recurrent cache are left out.

**Abstractions of the thread pool.** A step is one access to what the threads
share; memory is sequentially consistent, which the seq_cst operations of the
barrier and the mutex justify where they are used and the relaxed reads do not:
the model says nothing about weaker orders. Polling is one round, and any round
may be the last. The mutex is held across two steps in kickoff only. The
operators have one part per thread or, for a matrix product, chunks handed out by
`current_chunk`; what they compute is left out. OpenMP replaces this code in
builds that have it, and the disposable pools are the case of one graph.

**Abstractions of the assistant.** A post has an author, a url, a type or none, the
words and phrases it contains and three counts that may be junk; each rule of
`answer_linkedin_query()` is its pattern's verdict on the question and the lookup
that follows; rules differ in the order the code tries them in and in whether
they fall through when nothing is found. Of the text of an answer only is kept
whether it contains "could not find", which it does when it quotes a post or repeats
a name or keyword of the question that does; urls, names and titles are assumed not to.
What `apply_filters()` then returns is left open ("filtered").

## 3. The runs

All with two workers; times are for a small machine.

| run | instance | shows |
|---|---|---|
| `queue` | seven tasks in four batches, among them a two-prompt request, its cancellation and a metrics request; 21 000 states | no wake-up is lost, the queue implements `TaskPool` (no task lost or doubled), every task is taken, a stop is obeyed |
| `server` | a completion of two prompts and a streamed one on two slots, two tokens each, the client of the two prompts may leave; 1.4 million states, two minutes | tasks are never duplicated or stranded, a busy server stays awake, answers come once and in order |
| `server_mixed` | embedding, rejected stream whose client may leave, slot action, metrics on one slot, one failing decode; 1.9 million states, 90 seconds | the other kinds of request and the error path forget nothing; a thread in `recv()` is woken for its result; results outlive their waiter only when a stream is given up before its provider is called |
| `server_live` | the requests of `server`, one token each, with different LoRA adapters; 154 000 states, two minutes | every request is served, every slot freed, although one task is deferred and slots with other adapters sit out batches |
| `shutdown` | one thread in each kind of `recv`, a signal at any time on any thread; 3 500 states | mutual exclusion, no relapse into sleep, the process ends |
| `slot_cache` | two slots, a context of 4, batches of 2, prompts with a common beginning, drafts of one token, all failures of a decode; 868 000 states, two minutes | what a slot counts on is in the memory and is how its prompt begins, a slot is sampled from its own last token, every call of `update_slots()` ends |
| `slot_prompts` | one slot, a context of 5, batches of 3, empty, overlong and overlapping prompts, two sets of adapters, BOS, chunk reuse, save, restore, erase; 2 million states, 50 seconds | the context is never exceeded, the cache and the memory agree |
| `kv_cache` | one cache of 4 cells, 2 sequences, positions 0 to 3, batches up to 3 in micro-batches of 2, copies, rollbacks, context shifts, defragmentation, failing graphs; 52 000 states, 30 seconds | the cache implements `SequenceCache`; a micro-batch finds the tokens it attends to; `find_slot()` is complete; the splits lose nothing |
| `kv_window` | two sequences of up to 3 positions in a base cache of 6 cells and a window cache of 5, micro-batches of 1; one sequence of up to 8 positions in caches of 6 and 4 cells, micro-batches of 2, or of 5 and 5, micro-batches of 3; the window is 2; 290 000 states, 145 seconds | no token inside a window is missing, the two caches agree, also when placements fail |
| `cells` | 3 cells, 2 sequences, positions 0 to 2, shifts of 1, division by 2; 162 000 states | the redundant members agree |
| `thread_pool` | 3 threads, graphs of two nodes of which one is in 3 chunks, plans for 1, 2 or 4 threads, 2 graphs, with pause, abort and free; 143 000 states, 25 seconds | every part of every node is computed once and after the nodes before it; all calls come back; the barrier is used as it must be |
| `assistant` | one session, 5 questions, 2 builds, 2 clicks; 131 000 states | at most one saved post per click, answers from recent metadata, "not found" only when nothing is there |

**Why the bounds are enough.** Deferral needs one task more than slots; two tasks
of one request are needed for partial completion, two requests for results that
belong to another. Two slots are needed for batches with several members and for
`can_batch_with()`. One decode failure reaches every place a failure can occur in
a batch. With `MaxTokens` 2 a slot samples its first token, goes on GENERATING and
stops; a further token repeats the middle step. The other server runs have
`MaxTokens` 1: liveness is about who gets a slot and a place in the batch. In
`slot_cache` a prompt fills a batch, so that a second slot's prompt is split over
two calls and a batch is halved once; a context of 4 is the smallest that the code
can shift. `slot_prompts` has one slot, because chunk reuse, truncation and
adapters concern a slot alone, and a prompt of seven tokens for a context of five.
Three cells allow two cells of a sequence and a free one to move to; four cells
allow a hole between two sequences and a batch that does not fit before it is
closed. The window cache has the size the constructor gives it, less than the base
cache, so that cells are reused by masking; with two sequences every placement
succeeds, with one that fills the caches placements fail, in the base cache and, after
context shifts, in the window cache alone, and are taken back. Three threads are the
least with a worker that takes part and one that does not; with four asked for, the
number is cut; two graphs give a graph before and a graph after. Two builds suffice for a
run that begins in one and reads the other.

The bounds that cut behaviours are constants: `MaxTokens`, `MaxFailures`,
`MaxPos`, `MaxShift`, `MaxBatch`, `MaxGraphs` and `MaxPresses`. `NCtx`, `NBatch`,
`MaxDraft`, `NCells` and `MaxMoves` are parameters of the program.

**Switches.** The constants `AnyShift`, `WholeAgain`, `Shared` and `Growing` are
FALSE, and `CanFail` is at most {"compute"}, in the runs; what happens with the
other values is in section 6.

**Deadlock** checking is off where the system may stop: a server that has answered
its requests waits, a process that has ended or aborted (`SlotCache` models a
`GGML_ABORT`) does nothing more. It is on for the cells, the caches and the thread
pool.

**Embeddings beside completions.** In the listed runs slots that may not share a batch
differ in their adapters. That an embedding and a streamed completion with the same
adapter are both served, although `is_non_causal()` keeps them apart, is `AllServed` of
`MCServerLive.cfg` with `Kind <- ApartKind`, `Ids <- PairIds`, `Lora <- OneLora` and
`MaxTokens = 2` (39 000 states, 25 seconds).

**Symmetry** is not used: ids, slot numbers, sequences and threads are compared
with each other.

## 4. Fairness

`QueueClients`: weak fairness of the main loop and of the return of its callbacks.
They are code of one thread that is always enabled until it sleeps; the callbacks
hold no lock and loop over finite data. No fairness of posts or signals.

`Server`: weak fairness of the main thread as a whole and of each HTTP thread: a
thread that can run does in the end. `ClientCloses` has none. A decode that fails
has none either. Since the main thread's fairness is for the disjunction of its
actions, it says nothing of how the choices inside fall; the bound on tokens makes
every completion end, as `n_predict` and the context size do.

`ServerShutdown`: strong fairness for the signal handler and the HTTP threads,
because they contend for a mutex that the main loop takes and releases again and
again; C++ mutexes are not fair in theory, but a thread that never gets one that is
released infinitely often is not a scheduling the program can be blamed for. The
main loop's own wake-up by new tasks has no fairness: none need come.

`SlotCache`: weak fairness of the rest of a call (`Proceed`): one thread runs it
and waits for nobody. Nothing forces a new call or a task.

`ThreadPool`: weak fairness of each worker, and of the main thread once it has
begun to compute or to free; when the program computes, pauses or frees is its own
affair. No fairness of the mutex is needed: the main thread alone holds it across
steps, for two of its own.

`GraphCompute` has the fairness of a promise: a graph is computed and the call
comes back. `Assistant`, `KvCells` and `KvDecode` have safety properties only.

## 5. Proofs

TLAPS checks these for all values of the constants; PROJECT.json lists them.

* `QueueClientsProofs!WakeupsNotLost`: `NoLostWakeup` for any tasks and batches.
  Inductive invariant `WakeupInv`: the loop is in a known state, the flag is a
  Boolean, and the property. It is inductive because whatever fills the queue or
  clears the flag notifies under the mutex, and `Recheck` and `WakeUp` go to sleep
  under it with both conditions tested.
  `QueueTypeCorrect` and `QueueImplementsPool` (`TypeOK`, `PoolSpec`): every step of
  server_queue and its callers is a step of `TaskPool` or a stutter. The mapping turns
  two sequences and the task in hand into one set, so the invariant `PoolInv` says
  that they share no task and repeat none; that holds because a task that has still to
  be posted is new (`Unposted`) and NEXT_RESPONSE is posted once for each
  `update_slots()` (`OneNextResponse`). `CleanupTakes` says which tasks a post of
  CANCEL tasks takes away.
* `ServerProofs`, for any number of requests, tasks, slots, tokens and failing
  decodes. The invariant `TypeInv` of `ServerTypes` (`TypeOK`) adds to the types where
  the main thread can be in `update_slots()` and which slots it has still to look at:
  that no slot samples more tokens than it was asked for holds because one that
  is to be sampled has a token left, but for the slot that has just taken its last
  one and is about to stop.
  `ServerIsAwake` (`BusyServerIsAwake`): by `Awake`, the NEXT_RESPONSE task is in the
  queue from the moment `update_slots()` posts it until the callback returns, so that
  the main thread finds it before it sleeps, or else every slot is idle.
  `NobodySleepsThrough` (`SleeperHasNoResult`): `send()` wakes all sleepers, and a
  thread goes to sleep only when it has found no result of its own (`Unheard`).
  `NoTaskLost` (`NoTaskForgotten`): the property says only that the thread's task is
  somewhere; it is inductive with `ForgetInv`, by which a request that waits is
  registered with the result queue (or `send()` would drop the answer), a
  cancellation is queued only for a request that has given up, and the slot whose
  embedding has just been sent may be released.
  `TasksOnce` (`TaskOnce`): as for the pool, with the slots: `OnceInv` says that the
  tasks of a request that has not posted are nowhere (`FreshOnce`), that a busy slot's
  task is not queued and on no other slot (`SlotsOnce`), that the two queues and the
  task in hand are distinct (`QueueOnce`) and that NEXT_RESPONSE is never deferred and
  not queued when `update_slots()` begins (`NextOnce`).
  `NothingStranded` (`NoStrandedTask`) has the hypothesis `Plain`: no slot actions, no
  tasks that `launch_slot_with_task()` rejects, and only slots that exist are asked for.
  Each of the three is needed (section 6). By `StrandInv`, as long as a task is deferred
  a slot is busy or an inference task is on its way to one (`Attended`): the release that
  leaves the last slot idle takes a deferred task back, and that one finds a slot.
  `AnsweredOnce` (`OneAnswer`) and `NoResultLeftBehind` (`ResultsHaveWaiter`) need to know
  when the last result of a task has been sent. `Works(id)` says that the task is queued
  or on a slot that has still to answer it, which a slot whose embedding has been sent
  has not; by `Settled`, a task that is worked on has not been answered and nothing is
  about to be sent for it, and one that its request has taken the last result of is not
  worked on. What the main thread sends is then either for a task on which it works
  or, after a failed decode, an error for an idle slot, which `Excused` lets pass.
  `AssignedOnce` is needed for the latter: an idle slot keeps the id of its last task, and
  that id is on no other slot. `WaitInv` is the other half: a task whose id has been removed
  from `waiting_task_ids` with its results gets no results again, since `send()` drops
  them. One lemma per group of actions for each invariant.
* `SequenceLemmas`: what the operators on sequences do to the set of their elements,
  that those that reorder, join or shorten distinct sequences keep them distinct, and
  what is left by `RemoveIf`, the erase-remove idiom, for a sequence of any length. Its recursive function exists because the shortest prefix for which it did
  not would have a predecessor for which it does (`KeptExists`).
* `ServerShutdownProofs`: types, `LoopLock`, `StoppedLoopIsAwake`, for any number
  of HTTP threads. `StoppedLoopIsAwake` needs `LoopLock` (the handler acts only
  when the main thread is between its critical sections) and that a handler that is
  done has woken the sleeper.
* `KvCellsProofs`: for any set of cells and sequences and any bounds, types,
  `UsedOK`, `EmptyIsClean`, `SeqPosSound` and `ShiftAnnounced` are one inductive
  invariant `Inv` of `Spec`, whose caller is free to let positions collide: no
  conjunct is inductive alone (`SeqPosSound` of `pos_add` needs the type of
  positions, `EmptyIsClean` is what makes `pos_set` sound). One lemma per method.
  `ShiftsPending` adds `ShiftIsPending` under the hypothesis `Divisor = {}`, and
  `SeqPosComplete` adds `SeqPosExact` for `DistinctSpec`. The run `cells` checks
  types, `SeqPosExact` and `ShiftAnnounced` for the instance with distinct positions
  and division; the other parts of `Inv` are proved and no run repeats them.
* `ThreadPoolProofs`, first part: for any number of threads, no thread leaves a barrier
  before every active one has arrived at it (`NobodyLeftBehind`), and one thread at
  a time opens it (`OneOpens`). The invariant says that the counter is the
  number of threads that have arrived at the barrier that is next to open, that who
  resets it is the last of them, and that no thread is more than one barrier ahead
  of the generation; it is needed because the two words are shared by all barriers.
  The theorems are about `BarrierSpec`; that the pool keeps to it is proved in the
  second part.
* `ThreadPoolProofs`, second part, for any number of threads, nodes, chunks, graphs and plans,
  with pauses, aborts and matrix products, as long as no graph uses more threads than
  the one before it (`~ Growing`: a growing graph breaks the pool, section 6).
  The invariant has two layers. `Control` says where the threads are: `NextBarrier(t)`
  computes the barrier a thread comes to next from where it is, its node, and the
  node the graph is aborted at; all active threads have the same one (`Lockstep`). A
  worker that has not seen the graph counts as one before the first barrier, one that
  has been let out of a barrier as one before the next, so that `Lockstep` holds while
  threads walk out one by one; when the last one arrives, all of them change over at
  once. An abort changes it only for threads that have not passed the barrier after the
  aborting node, because the main thread has not (`AbortOK`). From `Control` follow
  `PoolKeepsToBarrier` (`PoolUsesBarrier`: who comes to the barrier and when their
  number changes) and `NobodyAtSetUp` (`NoWorkerAtSetUp`).
  `PartsInv` says what is computed. `Claims(t)` are the parts of the node that only
  `t` may compute: its own number while it is on its way to the node, then the chunk
  it has drawn. Claims are disjoint and not computed (`Share`), the shared counter is
  past exactly the chunks that are computed or drawn, and past the last one by no more
  than the threads that have drawn in vain (`Draw`, `Over`); when nobody draws any
  more the node is whole, so the barrier after it may open. From both follow
  `PoolPartsOnce` (`PartsOnce`) and `PoolTypeOK` (`TypeOK`, with the bound of the
  counter), and `PoolComputesGraphs`: every step of the pool is a step of
  `GraphCompute` or one the caller does not see. Its liveness, the rest of
  `ComputesGraphs`, is checked by the run `thread_pool`.
* `AssistantProofs`, for any sessions, questions, builds and clicks. `PostSavedOnce`
  (`SavedOnce`): the invariant `ClickInv` says that a click is in one place, a request
  or the widgets of one session, that what a run has still to save is not saved, and
  that a run that saves has displayed; `SavedOnce` alone says nothing of the run that
  is about to save. `AnswersAreRecent` (`AnswersFromLatest`): by `FileInv`, a file that
  is being built is half a file, and a whole one is at least as recent as any that a
  run began with. `SorryIsSo` (`SorryIsTrue`): an argument on the one step that
  answers, by `SorryMeansNone` on the fifteen rules in their order; it uses `ClickInv`
  for the type of the question.
* `SlotCacheProofs`, for any number of slots, any prompts and adapters, any context (of
  four tokens or more), batch, draft and size of reused chunks, with or without context
  shift, BOS token and saved slots, and any failure of a decode. `Spec => [](Types /\ IInv)`
  (`SlotInv`); `IInv` has parts for where `update_slots()` is (`PlaceOK`), whose tokens
  the batch may hold there (`BatchOK`), the saved file (`FileOK`), and five for each slot:
  - `MemoryOK`, the centre: for a slot that is not `lost`, the entries of `cache_tokens`
    are those of its sequence in the memory together with those that wait in the rest of
    the batch; and the entry at `i_batch`, when the slot is to be sampled, is its last
    token with none of its tokens behind it, or, when it has been sampled, none of its
    tokens waits. The second half is what `SamplesOwnToken` needs, and what makes
    speculation keep the first: a draft goes behind the last token only if nothing waits.
  - `ReuseOK`, for the slot whose cache is being compared with a new prompt, for which
    `MemoryOK` is false: below `n_past` (which is `head_p`) cache, prompt and memory
    agree, and from `head_c` on cache and memory agree; between the two nothing is said.
    `ChunkMoved` is the lemma for one chunk: `seq_rm`, `seq_add` and the copying within
    `cache_tokens` carry both facts over. After the last chunk the first one is left,
    and `seq_rm(n_past, -1)` makes it `MemoryOK` again (`FillIs`).
  - `SlotOK`: within the context, whether lost or not; `n_past` is the length of the
    cache; a prompt under way begins with the cache.
  - `OutputOK`: `i_batch` is in the part of the batch that is still to be decoded, or that has just been.
  - `RoomOK`: the context shift has left room for a token to those the second loop is
    still to visit.
  `EntriesShift` is the lemma for the context shift (removing the middle of the
  sequence and renumbering its end is what cutting it out of `cache_tokens` does, BOS
  included), `TruncatedIs` bounds the prompt that is cut (a multiple of half the room),
  `LeftSplit` moves a view from the batch to the memory. `Frame` says what a step of
  one slot does to the others. There is one lemma per action. From `SlotInv` follow
  `SlotTypeOK` (`TypeOK`), `CacheIsMemory` (`CacheInMemory`) and `SamplesFromOwnToken`
  (`SamplesOwnToken`).

The assumptions are the named ASSUMEs of the modules: NoTask is no task, batches are
non-empty sequences of tasks, a task has an `id_target` when it is a CANCEL task (`TasksAssumption`), a batch
repeats no task and shares none with another, a request has an id of its own for each
of its prompts and shares none with another (`IdsAssumption`; `get_new_id()` counts
upwards), tokens are natural numbers, slots are numbered from 0, a context has at least
four tokens and a batch one (`SlotCacheAssumption`), only
the handlers that poll have several, the two kinds of readers are disjoint, the bounds are
numbers, a divisor is not zero, there is a thread.

**Only model-checked:** the refinement of `SequenceCache`; that graphs come back (`ComputesGraphs`);
what the caches do (the properties of `KvDecode`); and all liveness. Liveness under
fairness and ENABLED are out of the prover's reach, and so is induction over data with the
library's theorems: what the folds of `KvCache` compute for every input is not proved.
For `RemoveIf` the induction is spelled out, on a definition written for it; the loops
of `update_slots()` are steps of `SlotCache`, so that the invariant of the specification is
their loop invariant.

## 6. What the code does otherwise than it says

Each statement below is in the source and is refuted by the model. The runs leave
it out; it comes back with the constants or the property in the second column.

| statement of the source | how to see it | the code |
|---|---|---|
| server.cpp:1841 "terminate the waiting loop" | `MCShutdown` with `Shutdown.cfg`: `TerminateEndsWaiting` | `server_response::terminate()` clears the flag (1843) and notifies without `mutex_results`: a thread in `recv()` that has tested the flag and is not asleep yet misses it, sleeps for ever, and `t.join()` (4965) waits for it |
| server.cpp:1570 "if this is cancel task make sure to clean up pending tasks" | `MCServer` with `Kind <- PairKind`, `Ids <- PairIds`, one slot, `MayClose = {2}`: `CancelCleansPending` | compares `id_target` of the pending tasks, which only CANCEL tasks have (1705): the pending task stays and is run |
| server.cpp:2728 "if no slot is available, we defer this task for processing later" | `MCServer` with `SaveKind`, `SaveIds`, `FirstSlot`, one slot: `NoStrandedTask` | a release takes back one task; if that is a slot action nothing is released after it and the next one waits for ever on an idle server. A task that is rejected when it is launched has the same effect: `MCServer` with one slot, `BadGrammar = {1}` |
| server.cpp:4941 "this will unblock start_loop()" | `MCShutdown` with `Interrupts = {"main"}`: `SignalEndsProcess` | the handler locks `mutex_tasks`, which the thread it interrupts may hold |
| llama-kv-cells.h:370 "this array accumulates any applied shifts to the pos array" | `KvCellsUse`, `Spec`, one sequence, `MaxPos = 4`, `Divisor = {2}`: `ShiftIsPending` | `pos_div()` adds the shift with the wrong sign (355) |
| app.py:97 "... to get answers or filtered results" | `MCAssistant` with `MaxPresses = 0`: `NoAnswerIsFiltered` | the test at app.py:85 looks for "could not find"; the answers that find nothing say "couldn't find" and "No profile details found" and are shown as they are. The filters are reached only when an answer quotes a post or repeats words of the question that contain "could not find", which then replaces an answer that was found |
| llama.h "all positions in the range [pos_min, pos_max] are guaranteed to be present in the memory" | `MCKvDecode`, `Window` with `n_pos = 5` in `Roomy`, `CanFail = {"compute"}`: `RangePresent` | a placement that is given up, or a failed micro-batch, has purged cells of the sliding-window cache (llama-kv-cache-unified.cpp:691) and does not restore them; what is lost is outside every window |
| server.cpp:3216 "pos_min == -1, but n_past > 0 - should not happen" | `MCSlotCache.cfg`, `NeverAborts` | a failed decode leaves tokens in `cache_tokens` that were never decoded. When it was the first batch of the slot its sequence in the memory is empty, and the next prompt that begins with some of these tokens ends in `GGML_ABORT`. With `MCSlotPrompts.cfg` also another way: the first all-idle update clears the memory, not the slots (`CleanFirst = FALSE`) |
| ggml-cpu.c:3130 "No worker threads should be accessing the parameters below at this stage" | `ThreadPool` with `Growing = TRUE`: `NoWorkerAtSetUp` | kickoff stores the number of threads (3015) before it announces the graph (3019): a worker between two looks takes the new number for the last graph |

What the models leave out or except on purpose, because the code does not handle it
and no document says that it does:

* `CacheInMemory` excepts the slots in `lost`: those of a failed decode
  (server.cpp:3424 releases them, `cache_tokens` stays), those of a failed speculative
  decode, whose answer is not looked at (3576), and those for which speculation runs
  while their own token is still in a later view of a halved batch (the token is
  decoded twice).
* `ResultsHaveWaiter` excepts a stream that ends before its provider is called, and
  errors of a failed decode;
  `StopEndsProcess` excepts a thread that had tested the flag and was not asleep yet
  when `server_response::terminate()`, which takes no mutex, notified (the history
  variable `missed`); `TerminateEndsWaiting` does not.
* After a failed decode the server sends errors for idle slots, too, with the id of
  the task they ran last. Such an error can be a second answer, and it can arrive after
  the request has taken the first and before it forgets its ids, and then it stays in
  `queue_results` (`PairKind`, two slots, one failure). `Excused` is that exception in
  `OneAnswer` and `ResultsHaveWaiter`. The run `server` has no failures, so that it
  ends in time: with `MaxFailures = 1` it passes with 3 million states, and
  `AnsweredOnce` is proved for any number.
* A slot number that does not exist is taken for busy slots (2727): the task is
  deferred for ever.
* A `terminate()` before `start_loop()` (1657) is forgotten: `EarlySignal`.
* `AnyShift = TRUE`: `seq_add()` moves cell by cell, and two cells of a sequence that
  meet at a position in between merge in `seq_pos`, a set
  (llama-kv-cache-unified.cpp:254). The runs shift sequences that lie in order.
* `WholeAgain = TRUE`: a prompt that is cached as a whole has its last token decoded
  again (`n_past--`) after the test of the sliding window, so that a token at the
  far end of the window may be missing.
* `Shared = TRUE`: a failed micro-batch is removed from the first sequence of each
  token only; with an equal split the loop that collects the positions reads
  entries of `seq_id` that are not filled (llama-context.cpp:1067; `pc = "crashed"`).
* `CanFail` with "shift" or "defrag": a failed K-shift is ignored and the rows keep
  their rotation; a failed defragmentation has moved the cells and not the rows.
* A window of one token would let the cell of the last token be taken:
  `KvDecodeAssumption` excludes it.

## 7. Properties and hazards

PROJECT.json lists the hazards of the code at their lines with the properties that
would notice them. The ones without a property are those of section 6, a slot
number that does not exist, and a count that cannot be read: `BestPost` is the
maximum the code takes, and a property on the winner would repeat it. What each property says, and of which code, is in the
comment above it.

## 8. Not modelled

* The recurrent cache (`llama-kv-cache-recurrent.cpp`), `seq_div()` at the level of
  the caches, chunked windows: other models need them; the server calls none of
  them for the models the assistant uses.
* `ggml_dyn_tallocr` and the backend scheduler: sequential, with plans that depend on
  tensor sizes.
* RPC: one request and one answer at a time on one connection.
* `common_log`: a ring buffer under one mutex with one reader, as `server_queue`.
* How a draft is made (speculative decoding, n-gram caches); what it does to a slot is
  in `SlotCache`.
* Grammars, sampling, chat templates, tokenizer, model files, quantisation and the
  operators: sequential text processing and numerics, most of the lines of the
  tree, and nothing for a model checker to interleave.
* What the filters of the assistant find, which app.py seldom reaches (section 6), the
  slots of embedding and rerank tasks in `SlotCache`, and the one-shot scripts.
* The HTTP library, a vendored one, except for how server.cpp uses it.
* The nested copies of llama.cpp.

What could be added next: the placement of several streams in the recurrent cache,
weaker memory orders for the barrier, and proofs about the KV caches: `KvCache` and
`BatchSplit` would first have to be written without folds and recursive operators, as
`SlotCache` is.
