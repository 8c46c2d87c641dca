------------------------------ MODULE KvCache ------------------------------
(***************************************************************************)
(* class llama_kv_cache_unified (src/llama-kv-cache-unified.cpp): the      *)
(* cells of a cache, where its next search for free cells begins and what  *)
(* its tensors hold.  The object is the record                             *)
(*     cells   the metadata, an object of KvCells                          *)
(*     head    where find_slot() starts                                    *)
(*     data    data[i]: the K and V rows of cell i, as the token they were *)
(*             computed for (the sequences it was decoded in) and the      *)
(*             position its K row is rotated to                            *)
(*     size    number of cells                                             *)
(*     n_swa   width of the sliding window, 0 for a cache without one      *)
(* and a method that changes it is an operator from the object and the     *)
(* arguments to the new object.  A token is a record [pos, seqs], a        *)
(* micro-batch a sequence of tokens.                                       *)
(***************************************************************************)
EXTENDS Integers, SequencesExt

CONSTANTS
    NCells,     \* the cells of the largest cache
    SeqId,      \* the sequences
    MaxMoves    \* how many moves fit in the graph of a defragmentation

ASSUME KvCacheAssumption == NCells \in Nat \ {0} /\ SeqId \subseteq Nat /\ MaxMoves \in Nat \ {0}

Cell == 0 .. NCells - 1
CellSeq == [j \in 1 .. NCells |-> j - 1]

Cells == INSTANCE KvCells

\* Rows that no computation has written, or that one has left unfinished.
NoData == [who |-> {}, at |-> -1]

\* std::numeric_limits<llama_pos>::max()
Inf == 2147483647

NewCache(size, n_swa) ==
    [cells |-> Cells!NoCells, head |-> 0, data |-> [i \in Cell |-> NoData],
     size |-> size, n_swa |-> n_swa]

Free(c, i) == Cells!Empty(c.cells, i)

PosMin(c, s) == IF c.cells.seq_pos[s] = {} THEN -1 ELSE Min(c.cells.seq_pos[s])
PosMax(c, s) == IF c.cells.seq_pos[s] = {} THEN -1 ELSE Max(c.cells.seq_pos[s])

-----------------------------------------------------------------------------
(* Operations on sequences.                                                *)

\* The cells a loop over [p0, p1) of sequence s works on.
InRange(c, s, p0, p1) ==
    {i \in Cell : /\ c.cells.pos[i] >= (IF p0 < 0 THEN 0 ELSE p0)
                  /\ c.cells.pos[i] < (IF p1 < 0 THEN Inf ELSE p1)
                  /\ s \in c.cells.seq[i]}

\* "If we freed up a slot, set head to it so searching can start there."
HeadBack(head, freed) ==
    IF freed # {} /\ Min(freed) < head THEN Min(freed) ELSE head

Clear(c) == [NewCache(c.size, c.n_swa) EXCEPT !.data = c.data]

\* seq_rm() of one sequence.
SeqRm(c, s, p0, p1) ==
    LET hit   == InRange(c, s, p0, p1)
        cells == FoldLeft(LAMBDA cs, i : IF i \in hit THEN Cells!SeqRm(cs, i, s) ELSE cs,
                          c.cells, CellSeq)
    IN  [c EXCEPT !.cells = cells,
                  !.head = HeadBack(@, {i \in hit : Cells!Empty(cells, i)})]

SeqCp(c, src, dst, p0, p1) ==
    LET hit == InRange(c, src, p0, p1)
    IN  [c EXCEPT !.cells =
            FoldLeft(LAMBDA cs, i : IF i \in hit THEN Cells!SeqAdd(cs, i, dst) ELSE cs, @, CellSeq)]

SeqKeep(c, s) ==
    LET cells == FoldLeft(LAMBDA cs, i : Cells!SeqKeep(cs, i, s), c.cells, CellSeq)
    IN  [c EXCEPT !.cells = cells,
                  !.head = HeadBack(@, {i \in Cell : ~Free(c, i) /\ Cells!Empty(cells, i)})]

\* seq_add(): a search starts at the first freed cell, else at the beginning.
SeqAdd(c, s, p0, p1, d) ==
    LET hit   == InRange(c, s, p0, p1)
        cells == FoldLeft(LAMBDA cs, i : IF i \in hit THEN Cells!PosAdd(cs, i, d) ELSE cs,
                          c.cells, CellSeq)
        freed == {i \in hit : Cells!Empty(cells, i)}
    IN  [c EXCEPT !.cells = cells, !.head = IF freed = {} THEN 0 ELSE Min(freed)]

-----------------------------------------------------------------------------
(* Placing micro-batches.                                                  *)

\* is_masked_swa() for LLAMA_SWA_TYPE_STANDARD and, with n_swa = 0, _NONE.
MaskedSwa(n_swa, p0, p1) == n_swa > 0 /\ p1 - p0 >= n_swa

\* Mutant: the token after the next one decides.
CanUse_Early(c, i) ==
    \/ Free(c, i)
    \/ \E s \in c.cells.seq[i] :
           /\ c.cells.seq[i] = {s}
           /\ MaskedSwa(c.n_swa, c.cells.pos[i], PosMax(c, s) + 2)

\* A cell may be taken when it is empty, or in one sequence that no longer
\* looks at it.
CanUse(c, i) ==
    \/ Free(c, i)
    \/ \E s \in c.cells.seq[i] :
           /\ c.cells.seq[i] = {s}
           /\ MaskedSwa(c.n_swa, c.cells.pos[i], PosMax(c, s) + 1)

\* Mutant: the search does not come round.
FindSlot_Once(c, n) ==
    LET Fits(h) == \A j \in 0 .. n - 1 : CanUse(c, h + j)
        from    == {h \in c.head .. c.size - n : Fits(h)}
    IN  IF from = {} THEN -1 ELSE Min(from)

\* find_slot(): n cells in a row from which a micro-batch may take, -1 when the
\* search has come round without finding them.
FindSlot(c, n) ==
    LET Search[h \in 0 .. c.size, tested \in 0 .. 2 * c.size] ==
            IF h + n > c.size
              THEN Search[0, tested + c.size - h]
              ELSE LET bad == {j \in 0 .. n - 1 : ~CanUse(c, h + j)}
                       on  == Min(bad) + 1
                   IN  IF bad = {} THEN h
                       ELSE IF tested + on >= c.size THEN -1
                       ELSE Search[h + on, tested + on]
        \* with many free cells before the head, start at the beginning
        start == IF c.head > Cardinality(c.cells.used) + 2 * n THEN 0 ELSE c.head
    IN  IF n > c.size THEN -1 ELSE Search[start, 0]

\* The token takes cell i, whose former token is removed.
TakeCell(cells, i, tok) ==
    LET freed == IF Cells!Empty(cells, i) THEN cells ELSE Cells!Rm(cells, i)
    IN  [Cells!PosSet(freed, i, tok.pos) EXCEPT
            !.seq[i] = tok.seqs,
            !.seq_pos = [s \in SeqId |-> IF s \in tok.seqs THEN freed.seq_pos[s] \cup {tok.pos}
                                                           ELSE freed.seq_pos[s]]]

\* apply_ubatch(): the tokens of u take the cells from h on; a sequence that
\* lost a cell to them loses all positions below the lost one as well.
ApplyUbatch(c, h, u) ==
    LET slot  == h .. h + Len(u) - 1
        lost  == [s \in SeqId |-> {c.cells.pos[i] : i \in {j \in slot : s \in c.cells.seq[j]}}]
        taken == FoldLeft(LAMBDA cs, j : TakeCell(cs, h + j - 1, u[j]), c.cells, [j \in 1 .. Len(u) |-> j])
        Purge(k, s) == IF lost[s] # {} /\ PosMin(k, s) =< Max(lost[s])
                         THEN SeqRm(k, s, PosMin(k, s), Max(lost[s]) + 1) ELSE k
    IN  [FoldLeft(Purge, [c EXCEPT !.cells = taken], SetToSortSeq(SeqId, <))
            EXCEPT !.head = h + Len(u)]

\* The next micro-batch takes its slot h; what it changes is remembered.
Emplaced(a, u, h) ==
    IF ~a.ok THEN a
    ELSE IF h < 0 THEN [a EXCEPT !.ok = FALSE]
    ELSE [a EXCEPT !.c = ApplyUbatch(@, h, u),
                   !.heads = Append(@, h),
                   !.saved = <<[head |-> a.c.head, cells |-> a.c.cells,
                                slot |-> [j \in 1 .. Len(u) |-> h + j - 1]]>> \o @]

Tried(c, us) ==
    FoldLeft(LAMBDA a, u : Emplaced(a, u, FindSlot(a.c, Len(u))),
             [ok |-> TRUE, c |-> c, heads |-> <<>>, saved |-> <<>>], us)

\* The cells of a slot and the head are given back.
Restore(k, old) ==
    [k EXCEPT !.cells = FoldLeft(LAMBDA cs, i : Cells!SetCell(cs, i, old.cells.pos[i], old.cells.seq[i]),
                                 @, old.slot),
              !.head = old.head]

Recovered(tried) ==
    [c |-> FoldLeft(Restore, tried.c, tried.saved),
     heads |-> IF tried.ok THEN tried.heads ELSE <<>>]

\* Mutant: only the head is given back.
Prepare_Keeps(c, us) ==
    LET tried == Tried(c, us)
    IN  [c |-> [tried.c EXCEPT !.head = c.head],
         heads |-> IF tried.ok THEN tried.heads ELSE <<>>]

\* Mutant: the cells are given back only when everything fits.
Prepare_FailKeeps(c, us) ==
    LET tried == Tried(c, us)
    IN  IF tried.ok THEN Recovered(tried) ELSE [c |-> tried.c, heads |-> <<>>]

\* prepare(): emplaces every micro-batch to see whether all of them fit, then
\* gives the cells back; answers the slots, or none when they do not fit.
Prepare(c, us) == Recovered(Tried(c, us))

-----------------------------------------------------------------------------
(* Updates: K-shift and defragmentation.                                   *)

\* defrag_prepare(): which cell moves where, as long as moves are left.  The
\* holes among the first n_used cells are filled, from the first on, each with
\* the last cells of the cache in their order; cells in a row are one move.
DefragPrepare(c) ==
    LET used   == c.cells.used
        n_used == Cardinality(used)
        hole   == {i \in 0 .. n_used - 1 : i \notin used}
        starts == {i \in hole : i - 1 \notin hole}
        Fill(a, i0) ==
            LET nh  == CHOOSE n \in 1 .. n_used :
                           i0 .. i0 + n - 1 \subseteq hole /\ i0 + n \notin hole
                src == SetToSortSeq({i \in used \ DOMAIN a.to : i > i0 /\
                           Cardinality({j \in used \ DOMAIN a.to : j >= i}) =< nh}, <)
                Moves(k) == a.n + Cardinality({j \in 1 .. k : j = 1 \/ src[j] # src[j - 1] + 1})
                last == Max({k \in 1 .. nh : Moves(k) =< MaxMoves})
            IN  IF a.n >= MaxMoves THEN a
                ELSE [n |-> Moves(last),
                      to |-> [i \in DOMAIN a.to \cup {src[k] : k \in 1 .. last} |->
                                 IF i \in DOMAIN a.to THEN a.to[i]
                                 ELSE i0 - 1 + CHOOSE k \in 1 .. last : src[k] = i]]
    IN  FoldLeft(Fill, [n |-> 0, to |-> [i \in {} |-> 0]], SetToSortSeq(starts, <)).to

\* Mutant: the shifts are reset and nothing is rotated.
KShift_Forgets(c) ==
    [c EXCEPT !.cells = Cells!ResetShift(@)]

\* The K-shift graph rotates the rows by the shifts of their cells.
KShift(c) ==
    [c EXCEPT !.data = [i \in Cell |-> [@[i] EXCEPT !.at = @ + c.cells.shift[i]]],
              !.cells = Cells!ResetShift(@)]

\* The cells move first ...
MoveCells(c, to) ==
    [c EXCEPT !.cells = FoldLeft(LAMBDA cs, i : Cells!Mv(cs, i, to[i]), @, SetToSortSeq(DOMAIN to, <)),
              !.head = 0]

\* ... then the graph moves their rows.
MoveData(c, to) ==
    [c EXCEPT !.data = [i \in Cell |->
        IF \E j \in DOMAIN to : to[j] = i THEN c.data[CHOOSE j \in DOMAIN to : to[j] = i] ELSE @[i]]]

\* update(), where the graph of the stage fail cannot be built or computed.
Update(c, to, fail) ==
    LET shifts  == c.cells.has_shift
        shifted == IF shifts THEN KShift(c) ELSE c
        moved   == MoveCells(shifted, to)
    IN  IF shifts /\ fail = "shift" THEN c
        ELSE IF DOMAIN to = {} THEN shifted
        ELSE IF fail = "defrag" THEN moved
        ELSE MoveData(moved, to)

\* The graph of a micro-batch writes the rows of its tokens.
Computed(c, h, u) ==
    [c EXCEPT !.data = [i \in Cell |->
        IF i \in h .. h + Len(u) - 1 THEN [who |-> u[i - h + 1].seqs, at |-> u[i - h + 1].pos] ELSE @[i]]]

\* A graph that fails leaves them in any state.
Uncomputed(c, h, u) ==
    [c EXCEPT !.data = [i \in Cell |-> IF i \in h .. h + Len(u) - 1 THEN NoData ELSE @[i]]]
=============================================================================
