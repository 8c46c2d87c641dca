----------------------------- MODULE KvCellsUse -----------------------------
(***************************************************************************)
(* An llama_kv_cells_unified object in the hands of a caller that obeys    *)
(* the asserts of every method and is free otherwise.  The class holds the *)
(* same facts several times (pos and used, pos, seq and seq_pos, pos and   *)
(* shift); the invariants say how far they agree.                          *)
(*                                                                         *)
(* The object does not hold the K data, but its shift is there for them:   *)
(* the graph that llama_kv_cache_unified::update() runs rotates the data   *)
(* of a cell by the shift of the cell and then resets the shifts.  The     *)
(* history variable rotated is the position the data of a cell were last   *)
(* rotated to.                                                             *)
(***************************************************************************)
EXTENDS KvCells

CONSTANTS
    MaxPos,     \* bound: the largest position of a run
    MaxShift,   \* bound: the largest shift, up or down, between two resets
    Divisor     \* the arguments of pos_div; {} when the caller never divides

ASSUME KvCellsUseAssumption ==
    /\ MaxPos \in Nat
    /\ MaxShift \in Nat
    /\ Divisor \subseteq Nat \ {0}

VARIABLES
    cells,      \* the object
    rotated     \* rotated[i]: the position the K data of cell i stand for

vars == <<cells, rotated>>

Pos == 0 .. MaxPos

\* The bounds on what a call of pos_add or pos_div leaves in cell i.
Bounded(c, i) ==
    /\ c.pos[i] =< MaxPos
    /\ c.shift[i] \in -MaxShift .. MaxShift

Init ==
    /\ cells = NoCells
    /\ rotated = [i \in Cell |-> -1]

-----------------------------------------------------------------------------
(***************************************************************************)
(* One action per method.                                                  *)
(***************************************************************************)
DoPosSet(i, p) ==
    /\ Empty(cells, i)
    /\ cells.seq[i] = {}
    /\ cells' = PosSet(cells, i, p)
    /\ rotated' = [rotated EXCEPT ![i] = p]

DoSeqAdd(i, s) ==
    /\ ~Empty(cells, i)
    /\ s \notin cells.seq[i]
    /\ cells' = SeqAdd(cells, i, s)
    /\ UNCHANGED rotated

DoSeqRm(i, s) ==
    /\ s \in cells.seq[i]
    /\ ~Empty(cells, i)
    /\ cells' = SeqRm(cells, i, s)
    /\ UNCHANGED rotated

DoSeqKeep(i, s) ==
    /\ cells.seq[i] # {} \/ Empty(cells, i)
    /\ cells' = SeqKeep(cells, i, s)
    /\ UNCHANGED rotated

DoRm(i) ==
    /\ ~Empty(cells, i)
    /\ cells' = Rm(cells, i)
    /\ UNCHANGED rotated

\* The data move with the cell.
DoMv(isrc, idst) ==
    /\ Empty(cells, idst)
    /\ ~Empty(cells, isrc)
    /\ cells' = Mv(cells, isrc, idst)
    /\ rotated' = [rotated EXCEPT ![idst] = rotated[isrc]]

\* set() with an object of one cell; a longer one is one such call per cell.
\* It gives a cell back the position its data had when cp() was called.
DoSet(i, p, ss) ==
    /\ cells.shift[i] = 0
    /\ p = -1 => ss = {}
    /\ cells' = SetCell(cells, i, p, ss)
    /\ rotated' = [rotated EXCEPT ![i] = p]

DoPosAdd(i, d) ==
    /\ ~Empty(cells, i)
    /\ cells' = PosAdd(cells, i, d)
    /\ Bounded(cells', i)
    /\ UNCHANGED rotated

DoPosDiv(i, d) ==
    /\ ~Empty(cells, i)
    /\ cells' = PosDiv(cells, i, d)
    /\ Bounded(cells', i)
    /\ UNCHANGED rotated

\* The K-shift graph rotates every cell by its shift, then the shifts are reset.
DoResetShift ==
    /\ cells' = ResetShift(cells)
    /\ rotated' = [i \in Cell |-> rotated[i] + cells.shift[i]]
    /\ \A i \in Cell : rotated'[i] \in -1 .. MaxPos + MaxShift     \* bound

Next ==
    \/ \E i \in Cell, p \in Pos : DoPosSet(i, p)
    \/ \E i \in Cell, s \in SeqId : DoSeqAdd(i, s) \/ DoSeqRm(i, s) \/ DoSeqKeep(i, s)
    \/ \E i \in Cell : DoRm(i)
    \/ \E i, j \in Cell : DoMv(i, j)
    \/ \E i \in Cell, p \in Pos \cup {-1}, ss \in SUBSET SeqId : DoSet(i, p, ss)
    \/ \E i \in Cell, d \in -MaxPos .. MaxPos : DoPosAdd(i, d)
    \/ \E i \in Cell, d \in Divisor : DoPosDiv(i, d)
    \/ DoResetShift

Spec == Init /\ [][Next]_vars

\* No two cells of a sequence stand at the same position.
Distinct(c) ==
    \A i, j \in Cell : c.seq[i] \cap c.seq[j] # {} /\ c.pos[i] = c.pos[j] => i = j

\* A caller that keeps the positions of a sequence distinct after every call.
DistinctSpec == Init /\ [][Next /\ Distinct(cells')]_vars

-----------------------------------------------------------------------------
(***************************************************************************)
(* Properties                                                              *)
(***************************************************************************)

\* The members of the object have their types, as is_empty() asserts of pos.
TypeOK ==
    /\ cells \in [pos       : [Cell -> Int],
                  shift     : [Cell -> Int],
                  seq       : [Cell -> SUBSET SeqId],
                  used      : SUBSET Cell,
                  seq_pos   : [SeqId -> SUBSET Nat],
                  has_shift : BOOLEAN]
    /\ rotated \in [Cell -> Int]
    /\ \A i \in Cell : cells.pos[i] >= -1

\* The set used, from which the cache takes the number of cells and the range
\* an attention step looks at, is the set of cells with a position.
UsedOK == cells.used = {i \in Cell : ~Empty(cells, i)}

\* A cell without a position is in no sequence and has no pending shift, so
\* pos_set() can reuse it: it sets neither.
EmptyIsClean == \A i \in Cell : Empty(cells, i) => cells.seq[i] = {} /\ cells.shift[i] = 0

\* Every position recorded for a sequence is the position of one of its cells:
\* seq_pos_min() and seq_pos_max() never answer with a position nobody holds.
SeqPosSound ==
    \A s \in SeqId : \A p \in cells.seq_pos[s] :
        \E i \in Cell : s \in cells.seq[i] /\ cells.pos[i] = p

\* seq_pos is exact, that is also complete, for a caller that keeps the
\* positions of a sequence distinct after each call.  A set cannot count two
\* cells of a sequence at one position.
SeqPosExact ==
    \A s \in SeqId :
        cells.seq_pos[s] = {cells.pos[i] : i \in {j \in Cell : s \in cells.seq[j]}}

\* A pending shift is announced by has_shift, without which update() would not
\* look at the shifts.
ShiftAnnounced == (\E i \in Cell : cells.shift[i] # 0) => cells.has_shift

\* The shift of a cell is what its data still have to be rotated by to stand
\* for the position of the cell.
ShiftIsPending ==
    \A i \in Cell : ~Empty(cells, i) => rotated[i] + cells.shift[i] = cells.pos[i]
=============================================================================
