----------------------------- MODULE BatchSplit -----------------------------
(***************************************************************************)
(* llama_sbatch (src/llama-batch.cpp): how a batch is cut into             *)
(* micro-batches of at most n tokens.  A batch is a sequence of tokens     *)
(* [pos, seqs]; a micro-batch is the record                                *)
(*     toks     its tokens, in the order of their cells                    *)
(*     n_seqs   how many entries of its seq_id array are filled            *)
(***************************************************************************)
EXTENDS Integers, SequencesExt

Least(a, b) == IF a < b THEN a ELSE b

\* split_simple(): the batch in its own order, every token a sequence to itself.
SplitSimple(batch, n) ==
    [k \in 1 .. (Len(batch) + n - 1) \div n |->
        LET toks == SubSeq(batch, (k - 1) * n + 1, Least(k * n, Len(batch)))
        IN  [toks |-> toks, n_seqs |-> Len(toks)]]

-----------------------------------------------------------------------------
(* The constructor with simple_split = false.                              *)

\* "sort by seq_id, then by pos", after the more widely shared tokens.
SeqsBefore(a, b) ==
    \/ Cardinality(a) > Cardinality(b)
    \/ /\ Cardinality(a) = Cardinality(b)
       /\ a # b
       /\ Min((a \ b) \cup (b \ a)) \in a

\* The tokens of one group of sequences, by position.
GroupOf(batch, ss) ==
    SetToSortSeq({k \in DOMAIN batch : batch[k].seqs = ss},
                 LAMBDA j, k : batch[j].pos < batch[k].pos \/ (batch[j].pos = batch[k].pos /\ j < k))

\* "keep shared prompts first at the end, then sort by length descending"
Groups(batch) ==
    LET sets == {batch[k].seqs : k \in DOMAIN batch}
        size(ss) == Len(GroupOf(batch, ss))
        before(a, b) ==
            \/ Cardinality(a) < Cardinality(b)
            \/ Cardinality(a) = Cardinality(b) /\ size(a) > size(b)
            \/ Cardinality(a) = Cardinality(b) /\ size(a) = size(b) /\ SeqsBefore(a, b)
        order == SetToSortSeq(sets, before)
    IN  [g \in DOMAIN order |->
            LET ids == GroupOf(batch, order[g]) IN [i \in DOMAIN ids |-> batch[ids[i]]]]

\* Mutant: room for one group more than there is.
TakenGroups_TooMany(groups, len, n) ==
    LET N == Len(groups)
        Stop(k) == \/ k = N
                   \/ Cardinality(groups[N - k + 1][1].seqs) > 1
                   \/ k * len > n
    IN  N - Min({k \in 1 .. N : Stop(k)}) + 1 .. N

\* The groups, counted from the last one, whose next len tokens go into one
\* micro-batch: until one is shared or there is no room for another.
TakenGroups(groups, len, n) ==
    LET N == Len(groups)
        Stop(k) == \/ k = N
                   \/ Cardinality(groups[N - k + 1][1].seqs) > 1
                   \/ len + k * len > n
    IN  N - Min({k \in 1 .. N : Stop(k)}) + 1 .. N

\* One micro-batch of split_equal(), and the groups it leaves.
TakeEqual(groups, n) ==
    LET N     == Len(groups)
        len   == Least(Len(groups[N]), n)
        taken == TakenGroups(groups, len, n)
        toks  == FlattenSeq([j \in 1 .. Cardinality(taken) |-> SubSeq(groups[N - j + 1], 1, len)])
        rest  == [g \in 1 .. N |->
                    IF g \in taken THEN SubSeq(groups[g], len + 1, Len(groups[g])) ELSE groups[g]]
        used  == {g \in 1 .. N : \A h \in g .. N : rest[h] = <<>>}
    IN  [ubatch |-> [toks |-> toks, n_seqs |-> Cardinality(taken)],
         left   |-> SubSeq(rest, 1, N - Cardinality(used))]

\* split_equal(): as many groups as fit side by side, equally long.
SplitEqual(batch, n) ==
    LET Split[groups \in Seq(Seq([pos : Int, seqs : SUBSET Int]))] ==
            IF groups = <<>> THEN <<>>
            ELSE LET t == TakeEqual(groups, n) IN <<t.ubatch>> \o Split[t.left]
    IN  Split[Groups(batch)]
=============================================================================
