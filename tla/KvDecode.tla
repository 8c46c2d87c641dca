------------------------------ MODULE KvDecode ------------------------------
(***************************************************************************)
(* llama_context::decode() (src/llama-context.cpp) on its memory: one      *)
(* llama_kv_cache_unified, or llama_kv_cache_unified_iswa, which keeps a   *)
(* second, smaller one for the layers with a sliding window.  Between two  *)
(* decodes a program changes the memory as tools/server does.              *)
(*                                                                         *)
(*     cparams    the parameters of the context, which do not change       *)
(*     kv         the caches: "base", and "swa" when there is a window     *)
(*     pc         where decode() is                                        *)
(*     batch      the tokens of the batch being decoded                    *)
(*     plan       the micro-batches still to compute, each with its heads  *)
(***************************************************************************)
EXTENDS KvCache, BatchSplit

CONSTANTS
    Contexts,   \* the contexts: sizes base and swa of the caches, n_swa (0: one
                \* cache), n_ubatch, n_seq_max, whether defrag_thold is positive
                \* (defrag), and how far a program lets its sequences grow (n_pos)
    MaxPos,     \* bound: positions are below it
    MaxBatch,   \* tokens of a batch
    CanFail,    \* graphs that may fail: "shift", "defrag", "compute"
    Copies,     \* TRUE: programs copy sequences with seq_cp()
    Shared,     \* TRUE: a batch may hold tokens of several sequences
    WholeAgain, \* TRUE: a prompt that is cached as a whole may come again
    AnyShift    \* FALSE: only sequences that lie in order in the cells are shifted

ASSUME KvDecodeAssumption ==
    /\ \A x \in Contexts :
          /\ x.base \in 1 .. NCells /\ x.n_swa \in Nat \ {1} /\ x.n_ubatch \in Nat \ {0}
          /\ x.n_swa > 0 => x.swa \in Least(x.base, x.n_swa * x.n_seq_max + x.n_ubatch) .. x.base
          /\ x.n_seq_max \in Nat \ {0} /\ 0 .. x.n_seq_max - 1 \subseteq SeqId
          /\ x.defrag \in BOOLEAN /\ x.n_pos \in 1 .. MaxPos
    /\ MaxPos \in Nat \ {0} /\ MaxBatch \in Nat \ {0}
    /\ CanFail \subseteq {"shift", "defrag", "compute"}
    /\ {Copies, Shared, WholeAgain, AnyShift} \subseteq BOOLEAN

VARIABLES cparams, kv, pc, batch, plan

vars == <<cparams, kv, pc, batch, plan>>

Caches == DOMAIN kv
IsSwa  == "swa" \in Caches
NSwa   == cparams.n_swa
Seqs   == 0 .. cparams.n_seq_max - 1

\* seq_pos_min() and seq_pos_max() of the memory: with two caches the SWA
\* cache answers.
Asked     == IF IsSwa THEN kv["swa"] ELSE kv["base"]
MemMin(s) == PosMin(Asked, s)
MemMax(s) == PosMax(Asked, s)

\* Where a sequence continues.
NextPos(s) == PosMax(kv["base"], s) + 1

\* get_can_shift()
CanShift == IsSwa => kv["base"].size = kv["swa"].size

Init ==
    /\ cparams \in Contexts
    /\ kv = [c \in IF cparams.n_swa = 0 THEN {"base"} ELSE {"base", "swa"} |->
                IF c = "base" THEN NewCache(cparams.base, 0) ELSE NewCache(cparams.swa, cparams.n_swa)]
    /\ pc = "ready"
    /\ batch = <<>>
    /\ plan = <<>>

\* The rows of an empty cell are never read again: they are forgotten.
Tidy(c) == [c EXCEPT !.data = [i \in Cell |-> IF Free(c, i) THEN NoData ELSE @[i]]]

\* The same operation on every cache.
OnAll(Op(_)) == [c \in Caches |-> Tidy(Op(kv[c]))]

-----------------------------------------------------------------------------
(* The program between two decodes.                                        *)

\* llama_memory_clear()
ClearMemory ==
    /\ pc = "ready"
    /\ kv' = OnAll(Clear)
    /\ UNCHANGED <<cparams, pc, batch, plan>>

\* What update_slots() (tools/server/server.cpp) lets a slot keep of its
\* sequence: n tokens agree with the new prompt.  The one before the last line
\* of the condition is its n_past--.
MayKeep(s, n) ==
    LET size == NextPos(s)
        safe(p) == p < size => MemMin(s) =< p - NSwa
    IN  \/ n = 0
        \/ n \in 1 .. size - 1 /\ safe(n)
        \/ n \in 0 .. size - 2 /\ safe(n + 1)
        \/ WholeAgain /\ n = size - 1

\* Mutant: seq_rm() of the two caches is that of the base cache.
Rollback_BaseOnly(s, n) ==
    /\ pc = "ready"
    /\ n < NextPos(s)
    /\ MayKeep(s, n)
    /\ kv' = [kv EXCEPT !["base"] = Tidy(SeqRm(@, s, n, -1))]
    /\ UNCHANGED <<cparams, pc, batch, plan>>

\* Its seq_rm(n, -1).
Rollback(s, n) ==
    /\ pc = "ready"
    /\ n < NextPos(s)
    /\ MayKeep(s, n)
    /\ kv' = OnAll(LAMBDA c : SeqRm(c, s, n, -1))
    /\ UNCHANGED <<cparams, pc, batch, plan>>

\* seq_cp() of a whole sequence to an empty one.
CopySequence(s, d) ==
    /\ pc = "ready"
    /\ Copies
    /\ NextPos(s) > 0 /\ NextPos(d) = 0
    /\ kv' = OnAll(LAMBDA c : SeqCp(c, s, d, -1, -1))
    /\ UNCHANGED <<cparams, pc, batch, plan>>

KeepSequence(s) ==
    /\ pc = "ready"
    /\ kv' = OnAll(LAMBDA c : SeqKeep(c, s))
    /\ UNCHANGED <<cparams, pc, batch, plan>>

\* The context shift: d tokens after the first n are discarded and the others
\* follow.  A program does this to a sequence that shares no tokens.
ContextShift(s, n, d) ==
    /\ pc = "ready"
    /\ CanShift
    /\ n + d < NextPos(s)
    /\ \A c \in Caches : \A i \in Cell : s \in kv[c].cells.seq[i] =>
          /\ kv[c].cells.seq[i] = {s}
          /\ AnyShift \/ \A j \in 0 .. i - 1 : s \in kv[c].cells.seq[j] => kv[c].cells.pos[j] < kv[c].cells.pos[i]
    /\ kv' = OnAll(LAMBDA c : SeqAdd(SeqRm(c, s, n, n + d), s, n + d, NextPos(s), -d))
    /\ UNCHANGED <<cparams, pc, batch, plan>>

-----------------------------------------------------------------------------
(* decode()                                                                *)

\* kv_self_update(): the caches of dfg are defragmented, and graph fail fails.
Updated(dfg, fail) ==
    [c \in Caches |-> Tidy(Update(kv[c], IF c \in dfg THEN DefragPrepare(kv[c]) ELSE [i \in {} |-> 0], fail))]

\* n tokens of the sequences ss from position p on.
Tokens(ss, p, n) == [k \in 1 .. n |-> [pos |-> p + k - 1, seqs |-> ss]]

\* The batches a program may decode: tokens that continue their sequences, one
\* sequence after the other, after a prefix that all of them share, if allowed.
Batches(shared) ==
    LET order == SetToSortSeq(Seqs, <)
        Counts(k) == {f \in [Seqs -> 0 .. MaxBatch] :
                         /\ k + MapThenSumSet(LAMBDA s : f[s], Seqs) \in 1 .. MaxBatch
                         /\ \A s \in Seqs : k + f[s] = 0 \/ NextPos(s) + k + f[s] =< cparams.n_pos}
        Batch(k, f) == Tokens(Seqs, NextPos(order[1]), k) \o
                       FlattenSeq([j \in DOMAIN order |->
                                      Tokens({order[j]}, NextPos(order[j]) + k, f[order[j]])])
        prefixes == IF shared /\ \A s, t \in Seqs : NextPos(s) = NextPos(t) THEN 0 .. MaxBatch ELSE {0}
    IN  UNION {{Batch(k, f) : f \in Counts(k)} : k \in prefixes}

\* The micro-batches us with the slots that the caches have found for them.
Plan(us, base, swa) ==
    [u \in DOMAIN us |->
        [ubatch |-> us[u],
         heads |-> [c \in Caches |-> IF c = "base" THEN base.heads[u] ELSE swa.heads[u]]]]

\* prepare() of every cache in turn, as long as they succeed.
Prepared(k, us, base, swa) ==
    LET ok == base.heads # <<>> /\ (IsSwa => swa.heads # <<>>)
    IN  [ok |-> ok,
         kv |-> [c \in Caches |-> Tidy(IF c = "base" THEN base.c
                                       ELSE IF base.heads = <<>> THEN k[c] ELSE swa.c)],
         plan |-> IF ok THEN Plan(us, base, swa) ELSE <<>>]

\* One way of cutting the batch in init_batch().
Attempt(k, us) ==
    LET toks == [u \in DOMAIN us |-> us[u].toks]
    IN  Prepared(k, us, Prepare(k["base"], toks), Prepare(k["swa"], toks))

\* With two caches, the equal split is tried after the simple one.
OrEqual(simple, b) ==
    IF simple.ok \/ ~IsSwa THEN simple
    ELSE Attempt(simple.kv, SplitEqual(b, cparams.n_ubatch))

\* init_batch()
Placed(k, b) == OrEqual(Attempt(k, SplitSimple(b, cparams.n_ubatch)), b)

\* decode() begins with the pending updates and places the batch.  Whether a
\* cache is fragmented beyond defrag_thold is left open.
BeginDecode(b, dfg, fail) ==
    /\ pc = "ready"
    /\ \E placed \in {Placed(Updated(dfg, fail), b)} :
          /\ kv' = placed.kv
          /\ plan' = placed.plan
          /\ pc' = IF placed.ok THEN "ubatch" ELSE "optimize"
    /\ batch' = b
    /\ UNCHANGED cparams

\* kv_self_update(true) has something to do.
CanOptimize == \E c \in Caches : kv[c].cells.has_shift \/ DOMAIN DefragPrepare(kv[c]) # {}

\* No room: kv_self_update(true), and another try if there was something to do.
Optimize(fail) ==
    /\ pc = "optimize"
    /\ \E placed \in {IF CanOptimize THEN Placed(Updated(Caches, fail), batch)
                      ELSE [ok |-> FALSE, kv |-> kv, plan |-> <<>>]} :
          /\ kv' = placed.kv
          /\ plan' = placed.plan
          /\ pc' = IF placed.ok THEN "ubatch" ELSE "ready"
          /\ batch' = IF placed.ok THEN batch ELSE <<>>
    /\ UNCHANGED cparams

Applied ==
    LET u == Head(plan) IN [c \in Caches |-> ApplyUbatch(kv[c], u.heads[c], u.ubatch.toks)]

\* A micro-batch takes its cells and its graph is computed.
Compute ==
    /\ pc = "ubatch"
    /\ LET u == Head(plan)
       IN  kv' = [c \in Caches |-> Tidy(Computed(Applied[c], u.heads[c], u.ubatch.toks))]
    /\ plan' = Tail(plan)
    /\ pc' = IF Len(plan) = 1 THEN "ready" ELSE "ubatch"
    /\ batch' = IF Len(plan) = 1 THEN <<>> ELSE batch
    /\ UNCHANGED cparams

\* What decode() removes after a failure: for every token the first sequence of
\* its seq_id entry, from the least position of the micro-batch in it on.
Removed(k, u) ==
    LET least(s) == {u.toks[j].pos : j \in {i \in DOMAIN u.toks : Min(u.toks[i].seqs) = s}}
        Rm(c, s) == IF least(s) = {} THEN c ELSE SeqRm(c, s, Min(least(s)), -1)
    IN  [c \in Caches |-> Tidy(FoldLeft(Rm, k[c], SetToSortSeq(SeqId, <)))]

\* The graph of a micro-batch is aborted or fails.  A micro-batch of
\* split_equal() has filled seq_id for each of its sequences only, not for each
\* token: reading the rest of it is the end of the process.
ComputeFails ==
    /\ pc = "ubatch"
    /\ "compute" \in CanFail
    /\ LET u == Head(plan)
           k == [c \in Caches |-> Uncomputed(Applied[c], u.heads[c], u.ubatch.toks)]
       IN  IF u.ubatch.n_seqs = Len(u.ubatch.toks)
             THEN kv' = Removed(k, u.ubatch) /\ pc' = "ready"
             ELSE kv' = k /\ pc' = "crashed"
    /\ plan' = <<>>
    /\ batch' = <<>>
    /\ UNCHANGED cparams

Fails == {"none"} \cup (CanFail \ {"compute"})

Next ==
    \/ ClearMemory
    \/ \E s \in Seqs :
          \/ \E n \in 0 .. cparams.n_pos - 1 : Rollback(s, n)
          \/ \E d \in Seqs \ {s} : CopySequence(s, d)
          \/ KeepSequence(s)
          \/ \E n \in 0 .. cparams.n_pos - 1, d \in 1 .. cparams.n_pos - 1 : ContextShift(s, n, d)
    \/ \E b \in Batches(Shared), fail \in Fails :
          \E dfg \in SUBSET (IF cparams.defrag THEN Caches ELSE {}) : BeginDecode(b, dfg, fail)
    \/ \E fail \in Fails : Optimize(fail)
    \/ Compute
    \/ ComputeFails

Spec == Init /\ [][Next]_vars

-----------------------------------------------------------------------------
(* Properties.                                                             *)

\* The variables keep their types: positions stay below the context size, the
\* cells agree with their redundant members, and a plan exists exactly while
\* its micro-batches are computed.
TypeOK ==
    /\ pc \in {"ready", "optimize", "ubatch", "crashed"}
    /\ \A c \in Caches :
          /\ kv[c].head \in 0 .. kv[c].size
          /\ kv[c].cells.used = {i \in Cell : kv[c].cells.pos[i] >= 0}
          /\ \A i \in Cell :
                /\ kv[c].cells.pos[i] \in -1 .. cparams.n_pos - 1
                /\ i >= kv[c].size => Free(kv[c], i)
                /\ Free(kv[c], i) <=> kv[c].cells.seq[i] = {}
          /\ \A s \in SeqId :
                kv[c].cells.seq_pos[s] =
                    {kv[c].cells.pos[i] : i \in {j \in Cell : s \in kv[c].cells.seq[j]}}
    /\ plan # <<>> <=> pc = "ubatch"

\* The base cache is an implementation of the memory that llama.h promises:
\* where tokens are kept, prepare(), defragmentation and K-shifts do not show.
Memory == INSTANCE SequenceCache WITH
    Position <- 0 .. MaxPos - 1,
    entries  <- LET c == kv["base"]
                IN  {[who |-> c.data[i].who, pos |-> c.cells.pos[i], seqs |-> c.cells.seq[i]] :
                        i \in c.cells.used}
MemorySpec == Memory!Spec

\* find_slot() finds a place if and only if there is one.
FindSlotComplete ==
    \A c \in Caches : \A n \in 1 .. cparams.n_ubatch :
        LET fits(h) == h + n =< kv[c].size /\ \A j \in h .. h + n - 1 : CanUse(kv[c], j)
            h       == FindSlot(kv[c], n)
        IN  IF h = -1 THEN \A i \in Cell : ~fits(i) ELSE h \in Cell /\ fits(h)

\* However a batch is split, every token is in one micro-batch, none of them is
\* too large, and the tokens of a sequence stay in order.
SplitsCover ==
    pc = "ready" => \A b \in Batches(TRUE), n \in 1 .. 3 : \A us \in {SplitSimple(b, n), SplitEqual(b, n)} :
        LET toks == FlattenSeq([u \in DOMAIN us |-> us[u].toks])
        IN  /\ \A u \in DOMAIN us : Len(us[u].toks) \in 1 .. n
            /\ Len(toks) = Len(b) /\ Range(toks) = Range(b)
            /\ \A i, j \in DOMAIN toks :
                  i < j /\ toks[i].seqs \cap toks[j].seqs # {} => toks[i].pos < toks[j].pos

\* "all positions in the range [pos_min, pos_max] are guaranteed to be present in
\* the memory" (include/llama.h): in each cache, while decode() is not running.
RangePresent ==
    pc = "ready" => \A c \in Caches : \A s \in SeqId : kv[c].cells.seq_pos[s] # {} =>
        kv[c].cells.seq_pos[s] = PosMin(kv[c], s) .. PosMax(kv[c], s)

\* The graph of a micro-batch finds every token its own attend to, in the base
\* cache all earlier ones of the sequence, in the SWA cache those inside the
\* window: a cell of the sequence at that position, whose rows have been computed
\* and are rotated to it.
ComputeSeesTokens ==
    pc = "ubatch" => \A c \in Caches : \A t \in Range(Head(plan).ubatch.toks) : \A s \in t.seqs :
        LET h    == Head(plan).heads[c]
            slot == h .. h + Len(Head(plan).ubatch.toks) - 1
        IN  \A p \in 0 .. t.pos : (c = "swa" => t.pos - p < NSwa) =>
                \E i \in Applied[c].cells.used :
                    /\ s \in Applied[c].cells.seq[i]
                    /\ Applied[c].cells.pos[i] = p
                    /\ i \in slot \/ (kv[c].data[i].who # {} /\ kv[c].data[i].at = p)

\* "the base cache is a superset of the SWA cache" (iswa::seq_pos_min()): what
\* the SWA cache answers is also true of the base cache.
BaseIsSuperset ==
    pc # "crashed" /\ IsSwa => \A s \in SeqId :
        /\ kv["swa"].cells.seq_pos[s] \subseteq kv["base"].cells.seq_pos[s]
        /\ MemMax(s) = PosMax(kv["base"], s)
=============================================================================
