----------------------------- MODULE SlotCache -----------------------------
(***************************************************************************)
(* server_context::update_slots() (tools/server/server.cpp) and the tokens *)
(* each slot believes to be in the memory of the context, cache_tokens: by *)
(* comparing them with the next prompt the slot decides what it need not   *)
(* decode again.  Only the thread of the main loop runs this code; what    *)
(* makes it hard are the failures in the middle of a batch.  Every slot    *)
(* runs completions: those of embedding and rerank tasks are left out.     *)
(*                                                                         *)
(*     slots    the fields of the slots                                    *)
(*     mem      the memory of the context: for each sequence (a slot has   *)
(*              the sequence of its number) the tokens at their positions  *)
(*     file     what the last /slots?action=save has written               *)
(*     clean    clean_kv_cache                                             *)
(*     pc       where update_slots() is: "idle" between two calls          *)
(*     at       the slot that its loops over the slots have reached        *)
(*     group    the adapters of the slots in the batch, once there is one  *)
(*     heads    head_c and head_p, when chunks of the cache are reused     *)
(*     batch    the tokens to decode                                       *)
(*     view     from where (i) and how many of them (n_batch) are decoded  *)
(*     todo     slots to sample, then slots to speculate for               *)
(*     lost     history: slots that count on tokens which the memory lost  *)
(***************************************************************************)
EXTENDS Integers, SequencesExt

CONSTANTS
    Slot,       \* the numbers of the slots, 0 .. n - 1
    Tokens,     \* what the model samples
    Prompts,    \* the prompts of requests
    Loras,      \* the sets of LoRA adapters of requests
    NKeep,      \* the values of n_keep in requests
    NCtx,       \* n_ctx of a slot
    NBatch,     \* n_batch
    NReuse,     \* n_cache_reuse
    CtxShift,   \* params_base.ctx_shift
    AddBos,     \* add_bos_token, 0 or 1
    MaxDraft,   \* speculative.n_max; 0 when there is no draft model
    Saves,      \* TRUE: slots are saved to files and restored
    CleanFirst, \* TRUE: the loop was idle, and the cache cleared, before the first request
    Fails       \* how llama_decode() may fail: "full" (1, for more than one token),
                \* "exceeded" (1, for a single token), "compute" (below -1)

ASSUME SlotCacheAssumption ==
    /\ IsFiniteSet(Slot) /\ Slot = 0 .. Cardinality(Slot) - 1
    /\ Tokens \subseteq Nat /\ Prompts \subseteq Seq(Nat) /\ NKeep \subseteq Nat \cup {-1}
    /\ NCtx \in Nat /\ NCtx >= 4 /\ NBatch \in Nat \ {0} /\ NReuse \in Nat
    /\ AddBos \in {0, 1} /\ MaxDraft \in Nat
    /\ {CtxShift, Saves, CleanFirst} \subseteq BOOLEAN
    /\ Fails \subseteq {"full", "exceeded", "compute"}

VARIABLES slots, mem, file, clean, pc, at, group, heads, batch, view, todo, lost

\* How far the building of the batch has come.
building == <<at, group, heads>>

vars == <<slots, mem, file, clean, pc, building, batch, view, todo, lost>>

NewSlot ==
    [state |-> "idle", cache |-> <<>>, n_past |-> 0, prompt |-> <<>>, lora |-> 0,
     n_keep |-> 0, cache_prompt |-> FALSE, sampled |-> 0, i_batch |-> -1]

NoView == [i |-> 0, n_batch |-> NBatch]
NoTodo == [sample |-> {}, spec |-> {}]
NoHeads == [c |-> 0, p |-> 0]

Init ==
    /\ slots = [s \in Slot |-> NewSlot]
    /\ mem = [s \in Slot |-> {}]
    /\ file = [cache |-> <<>>, mem |-> {}, lost |-> FALSE]
    /\ clean = ~CleanFirst
    /\ pc = "idle" /\ at = 0 /\ group = {} /\ heads = NoHeads
    /\ batch = <<>> /\ view = NoView /\ todo = NoTodo /\ lost = {}

Processing(s) == slots[s].state # "idle"

\* release().  What an idle slot has in other fields is not read any more, it is
\* written when the next request is launched.
Released(sl) == [NewSlot EXCEPT !.cache = sl.cache, !.lora = sl.lora, !.i_batch = sl.i_batch]

Least(a, b) == IF a < b THEN a ELSE b

-----------------------------------------------------------------------------
(* The memory (include/llama.h) of one sequence.                           *)

\* seq_rm(): the positions from p0 on, and below p1 unless it is -1.
SeqRm(m, p0, p1) == {e \in m : e.pos < p0 \/ (p1 # -1 /\ e.pos >= p1)}

\* seq_add()
SeqAdd(m, p0, p1, d) ==
    {IF p0 <= e.pos /\ e.pos < p1 THEN [e EXCEPT !.pos = @ + d] ELSE e : e \in m}

-----------------------------------------------------------------------------
(* Tasks, between two calls of update_slots().                             *)

Tasks(m, f, sl, l) ==
    /\ mem' = m /\ file' = f /\ slots' = sl /\ lost' = l
    /\ UNCHANGED <<clean, pc, building, batch, view, todo>>

\* launch_slot_with_task(): reset() keeps the cached tokens, unless the adapters
\* change.  A prompt with invalid tokens, or a bad grammar, is an error after
\* that.
Launch(s, p, lora, keep, cached, ok) ==
    /\ pc = "idle" /\ ~Processing(s)
    /\ LET same == [slots[s] EXCEPT !.lora = lora, !.cache = IF lora = slots[s].lora THEN @ ELSE <<>>]
       IN  Tasks(mem, file,
                 [slots EXCEPT ![s] = IF ~ok THEN same ELSE
                     [same EXCEPT !.state = "started", !.prompt = p, !.n_keep = keep,
                                  !.cache_prompt = cached]],
                 IF lora = slots[s].lora THEN lost ELSE lost \ {s})

\* A cancel task releases the slot, and whatever it has decoded stays.
Cancel(s) ==
    /\ pc = "idle" /\ Processing(s)
    /\ Tasks(mem, file, [slots EXCEPT ![s] = Released(@)], lost)

Save(s) ==
    /\ pc = "idle" /\ Saves /\ ~Processing(s)
    /\ Tasks(mem, [cache |-> slots[s].cache, mem |-> mem[s], lost |-> s \in lost], slots, lost)

\* The sequence is emptied before it is read; when there is no room for it, it
\* stays empty, and when the file does not open, nothing happens to it.
Restore(s, how) ==
    /\ pc = "idle" /\ Saves /\ ~Processing(s)
    /\ how \in {"read", "no_room", "no_file"}
    /\ Tasks([mem EXCEPT ![s] = CASE how = "read" -> file.mem
                                  [] how = "no_room" -> {}
                                  [] how = "no_file" -> @],
             file,
             [slots EXCEPT ![s].cache = IF how = "read" THEN file.cache ELSE <<>>],
             IF how = "read" /\ file.lost THEN lost \cup {s} ELSE lost \ {s})

Erase(s) ==
    /\ pc = "idle" /\ Saves /\ ~Processing(s)
    /\ Tasks([mem EXCEPT ![s] = {}], file, [slots EXCEPT ![s].cache = <<>>], lost \ {s})

-----------------------------------------------------------------------------
(* update_slots() builds the batch, visiting one slot after the other in   *)
(* each of three loops.                                                    *)

\* Nothing to do: the memory is cleared once.
IdleUpdate ==
    /\ pc = "idle" /\ clean /\ \A s \in Slot : ~Processing(s)
    /\ mem' = [s \in Slot |-> {}] /\ clean' = FALSE
    /\ lost' = {s \in Slot : slots[s].cache # <<>>}
    /\ UNCHANGED <<slots, file, pc, building, batch, view, todo>>

Begin ==
    /\ pc = "idle" /\ \E s \in Slot : Processing(s)
    /\ pc' = "shift"
    /\ UNCHANGED <<slots, mem, file, clean, building, batch, view, todo, lost>>

\* The loop goes on with the next slot, or the next loop begins.
NextSlot(loop, next) ==
    IF at + 1 \in Slot THEN at' = at + 1 /\ pc' = loop ELSE at' = 0 /\ pc' = next

\* A slot whose context is full.
IsFull(s) == Processing(s) /\ slots[s].n_past + 1 >= NCtx

\* Mutant: the part that is kept is measured without the BOS token in one place.
ShiftContext_ForgetsBos ==
    LET sl   == slots[at]
        keep == sl.n_keep + AddBos
        d    == (sl.n_past - keep) \div 2
    IN  /\ pc = "shift"
        /\ IF IsFull(at)
           THEN /\ mem' = [mem EXCEPT ![at] = SeqAdd(SeqRm(@, keep, keep + d), keep + d, sl.n_past, -d)]
                /\ slots' = [slots EXCEPT
                      ![at].cache = SubSeq(@, 1, sl.n_keep) \o SubSeq(@, sl.n_keep + d + 1, Len(@)),
                      ![at].n_past = @ - d]
           ELSE UNCHANGED <<slots, mem>>
        /\ NextSlot("shift", "sampled")
        /\ UNCHANGED <<file, clean, group, heads, batch, view, todo, lost>>

\* The context shift: half of what is not to be kept goes.
ShiftContext ==
    LET sl   == slots[at]
        keep == sl.n_keep + AddBos
        d    == (sl.n_past - keep) \div 2
    IN  /\ pc = "shift"
        /\ IF ~IsFull(at) THEN UNCHANGED <<slots, mem>>
           ELSE IF ~CtxShift THEN slots' = [slots EXCEPT ![at] = Released(@)] /\ UNCHANGED mem
           ELSE /\ mem' = [mem EXCEPT ![at] = SeqAdd(SeqRm(@, keep, keep + d), keep + d, sl.n_past, -d)]
                /\ slots' = [slots EXCEPT
                      ![at].cache = SubSeq(@, 1, keep) \o SubSeq(@, keep + d + 1, Len(@)),
                      ![at].n_past = @ - d]
        /\ NextSlot("shift", "sampled")
        /\ UNCHANGED <<file, clean, group, heads, batch, view, todo, lost>>

\* can_batch_with() the first slot of the batch.  Its comparison of is_non_causal()
\* holds for any two slots here: all of them run completions.
CanBatch(s) == group = {} \/ slots[s].lora \in group

\* The token sampled last, of a slot that generates.
AddSampled ==
    LET sl == slots[at]
    IN  /\ pc = "sampled"
        /\ IF sl.state = "generating" /\ CanBatch(at)
           THEN /\ batch' = Append(batch, [slot |-> at, pos |-> sl.n_past, tok |-> sl.sampled])
                /\ slots' = [slots EXCEPT ![at].i_batch = Len(batch), ![at].n_past = @ + 1,
                                          ![at].cache = Append(@, sl.sampled)]
                /\ group' = {sl.lora}
           ELSE UNCHANGED <<slots, batch, group>>
        /\ NextSlot("sampled", "prompt")
        /\ UNCHANGED <<mem, file, clean, heads, view, todo, lost>>

\* The third loop has dealt with a slot, and b is the batch now: done ends the loop.
NextPrompt(b, done) ==
    /\ batch' = b
    /\ IF done \/ at + 1 \notin Slot
       THEN at' = 0 /\ group' = {} /\ pc' = IF b = <<>> THEN "idle" ELSE "decode"
       ELSE /\ at' = at + 1 /\ pc' = "prompt"
            /\ group' = IF Processing(at) /\ group = {} THEN {slots[at].lora} ELSE group

\* Nothing to do for a slot that has no prompt, or other adapters.  Only the
\* latter are passed over without a look at the size of the batch.
PassOver ==
    /\ pc = "prompt" /\ ~(CanBatch(at) /\ slots[at].state \in {"started", "prompt"})
    /\ NextPrompt(batch, (Processing(at) => CanBatch(at)) /\ Len(batch) >= NBatch)
    /\ UNCHANGED <<slots, mem, file, clean, heads, view, todo, lost>>

Refused(sl) == sl.prompt = <<>> \/ (~CtxShift /\ Len(sl.prompt) >= NCtx)

\* A slot that is over before its prompt is begun leaves the batch as it was.
RefusePrompt ==
    /\ pc = "prompt" /\ CanBatch(at) /\ slots[at].state = "started" /\ Refused(slots[at])
    /\ slots' = [slots EXCEPT ![at] = Released(@)]
    /\ NextPrompt(batch, FALSE)
    /\ UNCHANGED <<mem, file, clean, heads, view, todo, lost>>

\* Mutant: one block is cut, however long the prompt is.
Truncated_OneBlock(p, keep) ==
    LET block == (NCtx - keep) \div 2
    IN  IF Len(p) < NCtx THEN p ELSE SubSeq(p, 1, keep) \o SubSeq(p, keep + block + 1, Len(p))

\* A prompt that does not fit loses blocks after the part that is to be kept.
Truncated(p, keep) ==
    LET block == (NCtx - keep) \div 2
    IN  IF Len(p) < NCtx THEN p
        ELSE SubSeq(p, 1, keep)
             \o SubSeq(p, keep + ((Len(p) - keep - block) \div block) * block + 1, Len(p))

\* How many tokens two sequences have in common at their beginning.
Common(p, q) == Len(LongestCommonPrefix({p, q}))

\* A new prompt: what of it is in the memory already?
StartPrompt ==
    LET sl     == slots[at]
        asked  == IF sl.n_keep < 0 THEN Len(sl.prompt) ELSE sl.n_keep
        keep   == Least(NCtx - 4, asked)
        prompt == Truncated(sl.prompt, keep)
        past   == IF sl.cache_prompt THEN Common(sl.cache, prompt) ELSE 0
    IN  /\ pc = "prompt" /\ CanBatch(at) /\ sl.state = "started" /\ ~Refused(sl)
        /\ slots' = [slots EXCEPT ![at] =
                       [@ EXCEPT !.state = "prompt", !.n_keep = keep, !.prompt = prompt, !.n_past = past]]
        /\ heads' = [c |-> past, p |-> past]
        /\ pc' = "reuse"
        /\ UNCHANGED <<mem, file, clean, at, group, batch, view, todo, lost>>

\* Chunks of the cache which the prompt has at another place are moved there:
\* is there more of both to compare, and how much agrees from the heads on?
MayReuse ==
    /\ slots[at].cache_prompt /\ NReuse > 0
    /\ heads.c < Len(slots[at].cache) /\ heads.p < Len(slots[at].prompt)

Match ==
    Common(SubSeq(slots[at].cache, heads.c + 1, Len(slots[at].cache)),
           SubSeq(slots[at].prompt, heads.p + 1, Len(slots[at].prompt)))

SkipCached ==
    /\ pc = "reuse" /\ MayReuse /\ Match < NReuse
    /\ heads' = [heads EXCEPT !.c = @ + 1]
    /\ UNCHANGED <<slots, mem, file, clean, pc, at, group, batch, view, todo, lost>>

\* Mutant: the token one further on is copied.
MoveChunk_NextToken ==
    LET hc == heads.c  hp == heads.p
    IN  /\ pc = "reuse" /\ MayReuse /\ Match >= NReuse
        /\ mem' = [mem EXCEPT ![at] = SeqAdd(SeqRm(@, hp, hc), hc, hc + Match, hp - hc)]
        /\ slots' = [slots EXCEPT ![at].n_past = @ + Match,
                                  ![at].cache = [k \in DOMAIN @ |->
              IF hp < k /\ k < hp + Match THEN @[k + hc - hp + 1] ELSE @[k]]]
        /\ heads' = [c |-> hc + Match, p |-> hp + Match]
        /\ UNCHANGED <<file, clean, pc, at, group, batch, view, todo, lost>>

MoveChunk ==
    LET hc == heads.c  hp == heads.p
    IN  /\ pc = "reuse" /\ MayReuse /\ Match >= NReuse
        /\ mem' = [mem EXCEPT ![at] = SeqAdd(SeqRm(@, hp, hc), hc, hc + Match, hp - hc)]
        /\ slots' = [slots EXCEPT ![at].n_past = @ + Match,
                                  ![at].cache = [k \in DOMAIN @ |->
              IF hp < k /\ k <= hp + Match THEN @[k + hc - hp] ELSE @[k]]]
        /\ heads' = [c |-> hc + Match, p |-> hp + Match]
        /\ UNCHANGED <<file, clean, pc, at, group, batch, view, todo, lost>>

\* The memory must have something of what goes on from the cache, and at least
\* one token is left to decode.
EndReuse ==
    LET sl == slots[at]
    IN  /\ pc = "reuse" /\ ~MayReuse
        /\ IF 0 < sl.n_past /\ sl.n_past < Len(sl.cache) /\ mem[at] = {}
           THEN pc' = "aborted" /\ UNCHANGED slots
           ELSE /\ pc' = "fill"
                /\ slots' = [slots EXCEPT ![at].n_past = IF @ = Len(sl.prompt) THEN @ - 1 ELSE @]
        /\ heads' = NoHeads
        /\ UNCHANGED <<mem, file, clean, at, group, batch, view, todo, lost>>

\* The entries of the batch for the next n tokens of a slot's prompt.
NextTokens(s, n) ==
    [k \in 1 .. n |-> [slot |-> s, pos |-> slots[s].n_past + k - 1,
                       tok |-> slots[s].prompt[slots[s].n_past + k]]]

\* How many tokens of its prompt there are for a slot, and room for.
Room(s) ==
    LET n == Least(Len(slots[s].prompt) - slots[s].n_past, NBatch - Len(batch))
    IN  IF n < 0 THEN 0 ELSE n

\* A prompt that has just been begun, or one that goes on.
HasPrompt(s) == pc = "fill" \/ (pc = "prompt" /\ CanBatch(s) /\ slots[s].state = "prompt")

\* The slot when n tokens of its prompt are added to the batch b.
Filled(sl, n, b) ==
    LET done == sl.n_past + n = Len(sl.prompt)
    IN  [sl EXCEPT !.n_past = @ + n,
                   !.cache = SubSeq(@, 1, sl.n_past) \o SubSeq(sl.prompt, sl.n_past + 1, sl.n_past + n),
                   !.state = IF done THEN "done_prompt" ELSE @,
                   !.i_batch = IF done THEN Len(b) - 1 ELSE @]

\* Mutant: what follows the common part stays in the memory.
FillPrompt_KeepsMemory ==
    LET full == batch \o NextTokens(at, Room(at))
    IN  /\ HasPrompt(at)
        /\ slots' = [slots EXCEPT ![at] = Filled(@, Room(at), full)]
        /\ NextPrompt(full, Len(full) >= NBatch)
        /\ UNCHANGED <<mem, file, clean, heads, view, todo, lost>>

\* What the cache and the prompt have in common stays, the next tokens of the
\* prompt are added as long as the batch has room.
FillPrompt ==
    LET full == batch \o NextTokens(at, Room(at))
    IN  /\ HasPrompt(at)
        /\ mem' = [mem EXCEPT ![at] = SeqRm(@, slots[at].n_past, -1)]
        /\ slots' = [slots EXCEPT ![at] = Filled(@, Room(at), full)]
        /\ lost' = IF slots[at].n_past = 0 THEN lost \ {at} ELSE lost
        /\ NextPrompt(full, Len(full) >= NBatch)
        /\ UNCHANGED <<file, clean, heads, view, todo>>

-----------------------------------------------------------------------------
(* update_slots() decodes the batch, view by view.                         *)

Size == Least(view.n_batch, Len(batch) - view.i)

\* The tokens of the view.
InView == SubSeq(batch, view.i + 1, view.i + Size)

\* llama_decode() adds tokens to the memory.
Decoded(m, toks) ==
    [s \in Slot |-> m[s] \cup {[pos |-> t.pos, tok |-> t.tok] :
                                  t \in {x \in Range(toks) : x.slot = s}}]

\* The call returns: the batch is done.
Finish == pc' = "idle" /\ batch' = <<>> /\ view' = NoView /\ todo' = NoTodo

\* Mutant: every slot is sampled after every view.
DecodeSucceeds_AllSlots ==
    /\ pc = "decode"
    /\ mem' = Decoded(mem, InView)
    /\ pc' = "sample"
    /\ todo' = [NoTodo EXCEPT !.sample =
          {s \in Slot : slots[s].i_batch # -1 /\ slots[s].state \in {"done_prompt", "generating"}}]
    /\ UNCHANGED <<slots, file, clean, building, batch, view, lost>>

DecodeSucceeds ==
    /\ pc = "decode"
    /\ mem' = Decoded(mem, InView)
    /\ pc' = "sample"
    /\ todo' = [NoTodo EXCEPT !.sample =
          {s \in Slot : /\ slots[s].i_batch \in view.i .. view.i + Size - 1
                        /\ slots[s].state \in {"done_prompt", "generating"}}]
    /\ UNCHANGED <<slots, file, clean, building, batch, view, lost>>

\* Mutant: the size is halved even when it is one.
DecodeHalf_Always ==
    /\ pc = "decode" /\ "full" \in Fails
    /\ view' = [view EXCEPT !.n_batch = @ \div 2]
    /\ UNCHANGED <<slots, mem, file, clean, pc, building, batch, todo, lost>>

\* No room for so many tokens at once: the same again with half of them.
DecodeHalf ==
    /\ pc = "decode" /\ "full" \in Fails /\ view.n_batch > 1
    /\ view' = [view EXCEPT !.n_batch = @ \div 2]
    /\ UNCHANGED <<slots, mem, file, clean, pc, building, batch, todo, lost>>

\* Any other failure ends the requests of all slots.  Micro-batches before the
\* one that fails have been decoded.
DecodeFails ==
    /\ pc = "decode"
    /\ \E n \in 0 .. Size - 1 :
          /\ "compute" \in Fails \/ ("exceeded" \in Fails /\ view.n_batch = 1)
          /\ mem' = Decoded(mem, SubSeq(InView, 1, n))
    /\ slots' = [s \in Slot |-> Released(slots[s])]
    /\ lost' = lost \cup {t.slot : t \in Range(SubSeq(batch, view.i + 1, Len(batch)))}
    /\ Finish
    /\ UNCHANGED <<file, clean, building>>

\* process_token(): may the slot go on?  Other reasons to stop are left open.
MayGoOn(n_past) == n_past < NCtx /\ (CtxShift \/ n_past + 1 < NCtx)

Sample(s, tok, goes_on) ==
    /\ pc = "sample" /\ s \in todo.sample /\ \A t \in todo.sample : s <= t
    /\ goes_on => MayGoOn(slots[s].n_past)
    /\ LET new == [slots[s] EXCEPT !.sampled = tok, !.i_batch = -1, !.state = "generating"]
       IN  slots' = [slots EXCEPT ![s] = IF goes_on THEN new ELSE Released(new)]
    /\ todo' = [todo EXCEPT !.sample = @ \ {s}]
    /\ UNCHANGED <<mem, file, clean, pc, building, batch, view, lost>>

CanSpeculate(s) ==
    /\ slots[s].state = "generating" /\ slots[s].cache_prompt
    /\ MaxDraft > 0 /\ NCtx - slots[s].n_past - 2 >= 0

BeginSpeculation ==
    /\ pc = "sample" /\ todo.sample = {}
    /\ pc' = "speculate"
    /\ todo' = [todo EXCEPT !.spec = {s \in Slot : CanSpeculate(s)}]
    /\ UNCHANGED <<slots, mem, file, clean, building, batch, view, lost>>

\* A draft is decoded after the sampled token; the first n tokens of it, and
\* another one, are what the model would have sampled.  The answer of
\* llama_decode() is not looked at.
Speculate(s, draft, n, tok, goes_on, ok) ==
    LET sl  == slots[s]
        all == <<sl.sampled>> \o draft
        ids == Append(SubSeq(draft, 1, n), tok)
        new == [k \in DOMAIN all |-> [slot |-> s, pos |-> sl.n_past + k - 1, tok |-> all[k]]]
    IN  /\ pc = "speculate" /\ s \in todo.spec /\ \A t \in todo.spec : s <= t
        /\ goes_on => MayGoOn(sl.n_past + Len(ids))
        /\ mem' = [Decoded(mem, IF ok THEN new ELSE <<>>)
                      EXCEPT ![s] = SeqRm(@, sl.n_past + Len(ids), -1)]
        /\ LET next == [sl EXCEPT !.n_past = @ + Len(ids), !.sampled = tok,
                                  !.cache = @ \o SubSeq(all, 1, n + 1)]
           IN  slots' = [slots EXCEPT ![s] = IF goes_on THEN next ELSE Released(next)]
        /\ todo' = [todo EXCEPT !.spec = @ \ {s}]
        /\ lost' = IF ok /\ sl.i_batch = -1 THEN lost ELSE lost \cup {s}
        /\ UNCHANGED <<file, clean, pc, building, batch, view>>

Drafts(s) == UNION {[1 .. n -> Tokens] : n \in 0 .. Least(MaxDraft, NCtx - slots[s].n_past - 2)}

\* "ignore small drafts"
SkipDraft(s) ==
    /\ pc = "speculate" /\ s \in todo.spec /\ \A t \in todo.spec : s <= t
    /\ todo' = [todo EXCEPT !.spec = @ \ {s}]
    /\ UNCHANGED <<slots, mem, file, clean, pc, building, batch, view, lost>>

NextView ==
    /\ pc = "speculate" /\ todo.spec = {}
    /\ IF view.i + Size < Len(batch)
       THEN /\ view' = [NoView EXCEPT !.i = view.i + Size]
            /\ pc' = "decode" /\ UNCHANGED <<batch, todo>>
       ELSE Finish
    /\ UNCHANGED <<slots, mem, file, clean, building, lost>>

-----------------------------------------------------------------------------

\* Tasks are processed between two calls of update_slots().
Task(s) ==
    \/ \E p \in Prompts, lora \in Loras, keep \in NKeep, cached, ok \in BOOLEAN :
          Launch(s, p, lora, keep, cached, ok)
    \/ Cancel(s)
    \/ Save(s)
    \/ \E how \in {"read", "no_room", "no_file"} : Restore(s, how)
    \/ Erase(s)

\* The rest of a call.
Proceed ==
    \/ ShiftContext \/ AddSampled
    \/ PassOver \/ RefusePrompt \/ StartPrompt \/ FillPrompt
    \/ SkipCached \/ MoveChunk \/ EndReuse
    \/ DecodeSucceeds
    \/ DecodeHalf
    \/ DecodeFails
    \/ \E s \in todo.sample, tok \in Tokens, goes_on \in BOOLEAN : Sample(s, tok, goes_on)
    \/ BeginSpeculation
    \/ \E s \in todo.spec : \E draft \in Drafts(s), tok \in Tokens, goes_on \in BOOLEAN :
          \E n \in 0 .. Len(draft), ok \in {TRUE, "compute" \notin Fails} :
             Speculate(s, draft, n, tok, goes_on, ok)
    \/ \E s \in todo.spec : SkipDraft(s)
    \/ NextView

Next == (\E s \in Slot : Task(s)) \/ IdleUpdate \/ Begin \/ Proceed

\* Between two calls the loop may wait for a task; a call goes on to its end.
Spec == Init /\ [][Next]_vars /\ WF_vars(Proceed)

-----------------------------------------------------------------------------

SlotState == {"idle", "started", "prompt", "done_prompt", "generating"}

\* Type correctness, and no slot ever holds more tokens than its context has
\* room for: the prompt is cut and the context shifted in time.
TypeOK ==
    /\ \A s \in Slot :
          /\ slots[s].state \in SlotState
          /\ slots[s].n_past \in 0 .. NCtx - 1
          /\ Len(slots[s].cache) < NCtx
          /\ slots[s].state = "generating" => slots[s].sampled \in Tokens
    /\ Len(batch) <= NBatch + Cardinality(Slot)
    /\ view.i \in 0 .. Len(batch) /\ view.n_batch \in 1 .. NBatch
    /\ pc \in {"idle", "shift", "sampled", "prompt", "reuse", "fill",
               "decode", "sample", "speculate", "aborted"}

\* What the slot believes to be in the memory, and what is still to be decoded
\* for it.
Cached(s) == {[pos |-> k - 1, tok |-> slots[s].cache[k]] : k \in DOMAIN slots[s].cache}

\* From where on the batch is still to be decoded.
Rest == IF pc \in {"sample", "speculate"} THEN view.i + Size + 1 ELSE view.i + 1

Waiting(s) ==
    {[pos |-> batch[k].pos, tok |-> batch[k].tok] :
        k \in {j \in Rest .. Len(batch) : batch[j].slot = s}}

\* The slot whose cache is being compared with its new prompt.
Comparing(s) == s = at /\ pc \in {"reuse", "fill", "aborted"}

\* The tokens a slot believes to be cached are in the memory, or are in the part
\* of the batch that is still to be decoded, at their positions; and while a
\* request is decoded there are no others.  So what is not decoded again because
\* of the cache is what would have been.  After a failed decode, until the slot
\* starts from scratch again, it is not so (lost).  And whatever has been reused
\* or moved, what is cached of a prompt is how that prompt begins.
CacheInMemory ==
    \A s \in Slot : ~Comparing(s) =>
        /\ s \notin lost => Cached(s) \subseteq mem[s] \cup Waiting(s)
        /\ slots[s].state \in {"prompt", "done_prompt", "generating"} =>
              /\ s \notin lost => Cached(s) = mem[s] \cup Waiting(s)
              /\ slots[s].n_past = Len(slots[s].cache)
        /\ slots[s].state = "prompt" => IsStrictPrefix(slots[s].cache, slots[s].prompt)
        /\ slots[s].state = "done_prompt" => slots[s].cache = slots[s].prompt

\* A token is sampled for a slot from the output of its own last token, once
\* all its tokens have been decoded: i_batch is never the one of an earlier batch
\* or of another slot.
SamplesOwnToken ==
    pc = "sample" => \A s \in todo.sample \ lost :
        /\ batch[slots[s].i_batch + 1] =
              [slot |-> s, pos |-> slots[s].n_past - 1, tok |-> Last(slots[s].cache)]
        /\ Waiting(s) = {}

\* Every call of update_slots() ends: a batch that finds no room is tried with
\* less and less of it at a time, and in the end decoded or given up.  (Or the
\* process, when it aborts.)
CallsEnd == (pc \notin {"idle", "aborted"}) ~> (pc \in {"idle", "aborted"})

\* "pos_min == -1, but n_past > 0 - should not happen" (server.cpp:3216): the
\* memory has something of a slot that goes on from its cache.
NeverAborts == pc # "aborted"
=============================================================================
