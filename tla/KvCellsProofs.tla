--------------------------- MODULE KvCellsProofs ---------------------------
(***************************************************************************)
(* What the class llama_kv_cells_unified guarantees to every caller that   *)
(* obeys the asserts of its methods, for any number of cells, sequences    *)
(* and positions.                                                          *)
(***************************************************************************)
EXTENDS KvCellsUse, TLAPS

(***************************************************************************)
(* The inductive invariant.  No part stands alone: mv() and set() keep     *)
(* SeqPosSound only because the cell they write is clean when it is empty, *)
(* and pos_set(), which writes neither seq nor shift, keeps SeqPosSound    *)
(* and ShiftAnnounced for the same reason.                                 *)
(***************************************************************************)
Inv == TypeOK /\ UsedOK /\ EmptyIsClean /\ SeqPosSound /\ ShiftAnnounced

\* pos_div() keeps a position a natural number.
LEMMA QuotientType ==
    ASSUME NEW p \in Nat, NEW d \in Nat \ {0}
    PROVE  p \div d \in Nat
OBVIOUS

-----------------------------------------------------------------------------
(***************************************************************************)
(* The initial object, then one lemma per method.                          *)
(***************************************************************************)

\* The object reset() leaves satisfies the invariant.
LEMMA InitInv == Init => Inv
BY DEF Init, Inv, TypeOK, UsedOK, EmptyIsClean, SeqPosSound, ShiftAnnounced, NoCells, Empty

\* pos_set() preserves the invariant.
LEMMA DoPosSetInv ==
    ASSUME Inv, NEW i \in Cell, NEW p \in Pos, DoPosSet(i, p)
    PROVE  Inv'
<1>1. TypeOK'
  <2>1. cells' = [pos |-> cells'.pos, shift |-> cells'.shift, seq |-> cells'.seq,
                  used |-> cells'.used, seq_pos |-> cells'.seq_pos,
                  has_shift |-> cells'.has_shift]
    BY DEF Inv, TypeOK, DoPosSet, Empty, PosSet, Pos
  <2>2. cells'.pos \in [Cell -> Int]
    BY KvCellsUseAssumption DEF Inv, TypeOK, DoPosSet, Empty, PosSet, Pos
  <2>3. cells'.shift \in [Cell -> Int] /\ cells'.has_shift \in BOOLEAN
    BY KvCellsUseAssumption DEF Inv, TypeOK, DoPosSet, Empty, PosSet, Pos
  <2>4. cells'.seq \in [Cell -> SUBSET SeqId] /\ cells'.used \in SUBSET Cell
    BY KvCellsUseAssumption DEF Inv, TypeOK, DoPosSet, Empty, PosSet, Pos
  <2>5. cells'.seq_pos \in [SeqId -> SUBSET Nat]
    BY KvCellsUseAssumption DEF Inv, TypeOK, DoPosSet, Empty, PosSet, Pos
  <2>6. rotated' \in [Cell -> Int]
    BY KvCellsUseAssumption DEF Inv, TypeOK, DoPosSet, Empty, PosSet, Pos
  <2>7. \A k \in Cell : cells'.pos[k] >= -1
    BY KvCellsUseAssumption DEF Inv, TypeOK, DoPosSet, Empty, PosSet, Pos
  <2> QED BY <2>1, <2>2, <2>3, <2>4, <2>5, <2>6, <2>7 DEF TypeOK
<1>2. UsedOK'
  BY KvCellsUseAssumption DEF Inv, TypeOK, UsedOK, DoPosSet, Empty, PosSet,
       Pos
<1>3. EmptyIsClean'
  BY KvCellsUseAssumption DEF Inv, TypeOK, EmptyIsClean, DoPosSet, Empty,
       PosSet, Pos
<1>4. SeqPosSound'
  BY KvCellsUseAssumption DEF Inv, TypeOK, SeqPosSound, DoPosSet, Empty,
       PosSet, Pos, EmptyIsClean
<1>5. ShiftAnnounced'
  BY KvCellsUseAssumption DEF Inv, TypeOK, ShiftAnnounced, DoPosSet, Empty,
       PosSet, Pos
<1> QED BY <1>1, <1>2, <1>3, <1>4, <1>5 DEF Inv

\* seq_add() preserves the invariant.
LEMMA DoSeqAddInv ==
    ASSUME Inv, NEW i \in Cell, NEW s \in SeqId, DoSeqAdd(i, s)
    PROVE  Inv'
<1>1. TypeOK'
  <2>1. cells' = [pos |-> cells'.pos, shift |-> cells'.shift, seq |-> cells'.seq,
                  used |-> cells'.used, seq_pos |-> cells'.seq_pos,
                  has_shift |-> cells'.has_shift]
    BY DEF Inv, TypeOK, DoSeqAdd, Empty, SeqAdd
  <2>2. cells'.pos \in [Cell -> Int]
    BY DEF Inv, TypeOK, DoSeqAdd, Empty, SeqAdd
  <2>3. cells'.shift \in [Cell -> Int] /\ cells'.has_shift \in BOOLEAN
    BY DEF Inv, TypeOK, DoSeqAdd, Empty, SeqAdd
  <2>4. cells'.seq \in [Cell -> SUBSET SeqId] /\ cells'.used \in SUBSET Cell
    BY DEF Inv, TypeOK, DoSeqAdd, Empty, SeqAdd
  <2>5. cells'.seq_pos \in [SeqId -> SUBSET Nat]
    BY DEF Inv, TypeOK, DoSeqAdd, Empty, SeqAdd
  <2>6. rotated' \in [Cell -> Int]
    BY DEF Inv, TypeOK, DoSeqAdd, Empty, SeqAdd
  <2>7. \A k \in Cell : cells'.pos[k] >= -1
    BY DEF Inv, TypeOK, DoSeqAdd, Empty, SeqAdd
  <2> QED BY <2>1, <2>2, <2>3, <2>4, <2>5, <2>6, <2>7 DEF TypeOK
<1>2. UsedOK'
  BY DEF Inv, TypeOK, UsedOK, DoSeqAdd, Empty, SeqAdd
<1>3. EmptyIsClean'
  BY DEF Inv, TypeOK, EmptyIsClean, DoSeqAdd, Empty, SeqAdd
<1>4. SeqPosSound'
  BY DEF Inv, TypeOK, SeqPosSound, DoSeqAdd, Empty, SeqAdd, EmptyIsClean
<1>5. ShiftAnnounced'
  BY DEF Inv, TypeOK, ShiftAnnounced, DoSeqAdd, Empty, SeqAdd
<1> QED BY <1>1, <1>2, <1>3, <1>4, <1>5 DEF Inv

\* seq_rm() preserves the invariant.
LEMMA DoSeqRmInv ==
    ASSUME Inv, NEW i \in Cell, NEW s \in SeqId, DoSeqRm(i, s)
    PROVE  Inv'
<1>1. TypeOK'
  <2>1. cells' = [pos |-> cells'.pos, shift |-> cells'.shift, seq |-> cells'.seq,
                  used |-> cells'.used, seq_pos |-> cells'.seq_pos,
                  has_shift |-> cells'.has_shift]
    BY DEF Inv, TypeOK, DoSeqRm, Empty, SeqRm, Emptied
  <2>2. cells'.pos \in [Cell -> Int]
    BY DEF Inv, TypeOK, DoSeqRm, Empty, SeqRm, Emptied
  <2>3. cells'.shift \in [Cell -> Int] /\ cells'.has_shift \in BOOLEAN
    BY DEF Inv, TypeOK, DoSeqRm, Empty, SeqRm, Emptied
  <2>4. cells'.seq \in [Cell -> SUBSET SeqId] /\ cells'.used \in SUBSET Cell
    BY DEF Inv, TypeOK, DoSeqRm, Empty, SeqRm, Emptied
  <2>5. cells'.seq_pos \in [SeqId -> SUBSET Nat]
    BY DEF Inv, TypeOK, DoSeqRm, Empty, SeqRm, Emptied
  <2>6. rotated' \in [Cell -> Int]
    BY DEF Inv, TypeOK, DoSeqRm, Empty, SeqRm, Emptied
  <2>7. \A k \in Cell : cells'.pos[k] >= -1
    BY DEF Inv, TypeOK, DoSeqRm, Empty, SeqRm, Emptied
  <2> QED BY <2>1, <2>2, <2>3, <2>4, <2>5, <2>6, <2>7 DEF TypeOK
<1>2. UsedOK'
  BY DEF Inv, TypeOK, UsedOK, DoSeqRm, Empty, SeqRm, Emptied
<1>3. EmptyIsClean'
  BY DEF Inv, TypeOK, EmptyIsClean, DoSeqRm, Empty, SeqRm, Emptied
<1>4. SeqPosSound'
  BY DEF Inv, TypeOK, SeqPosSound, DoSeqRm, Empty, SeqRm, Emptied,
       EmptyIsClean
<1>5. ShiftAnnounced'
  BY DEF Inv, TypeOK, ShiftAnnounced, DoSeqRm, Empty, SeqRm, Emptied
<1> QED BY <1>1, <1>2, <1>3, <1>4, <1>5 DEF Inv

\* seq_keep() preserves the invariant.
LEMMA DoSeqKeepInv ==
    ASSUME Inv, NEW i \in Cell, NEW s \in SeqId, DoSeqKeep(i, s)
    PROVE  Inv'
<1>1. TypeOK'
  <2>1. cells' = [pos |-> cells'.pos, shift |-> cells'.shift, seq |-> cells'.seq,
                  used |-> cells'.used, seq_pos |-> cells'.seq_pos,
                  has_shift |-> cells'.has_shift]
    BY DEF Inv, TypeOK, DoSeqKeep, Empty, SeqKeep, Rm, Emptied, SeqPosRm
  <2>2. cells'.pos \in [Cell -> Int]
    BY DEF Inv, TypeOK, DoSeqKeep, Empty, SeqKeep, Rm, Emptied, SeqPosRm
  <2>3. cells'.shift \in [Cell -> Int] /\ cells'.has_shift \in BOOLEAN
    BY DEF Inv, TypeOK, DoSeqKeep, Empty, SeqKeep, Rm, Emptied, SeqPosRm
  <2>4. cells'.seq \in [Cell -> SUBSET SeqId] /\ cells'.used \in SUBSET Cell
    BY DEF Inv, TypeOK, DoSeqKeep, Empty, SeqKeep, Rm, Emptied, SeqPosRm
  <2>5. cells'.seq_pos \in [SeqId -> SUBSET Nat]
    <3>1. CASE s \in cells.seq[i]
      BY <3>1 DEF Inv, TypeOK, EmptyIsClean, DoSeqKeep, Empty, SeqKeep,
           SeqPosRm
    <3>2. CASE s \notin cells.seq[i]
      BY <3>2 DEF Inv, TypeOK, DoSeqKeep, SeqKeep, Rm, Emptied, SeqPosRm
    <3> QED BY <3>1, <3>2
  <2>6. rotated' \in [Cell -> Int]
    BY DEF Inv, TypeOK, DoSeqKeep, Empty, SeqKeep, Rm, Emptied, SeqPosRm
  <2>7. \A k \in Cell : cells'.pos[k] >= -1
    BY DEF Inv, TypeOK, DoSeqKeep, Empty, SeqKeep, Rm, Emptied, SeqPosRm
  <2> QED BY <2>1, <2>2, <2>3, <2>4, <2>5, <2>6, <2>7 DEF TypeOK
<1>2. UsedOK'
  BY DEF Inv, TypeOK, UsedOK, DoSeqKeep, Empty, SeqKeep, Rm, Emptied,
       SeqPosRm
<1>3. EmptyIsClean'
  BY DEF Inv, TypeOK, EmptyIsClean, DoSeqKeep, Empty, SeqKeep, Rm, Emptied,
       SeqPosRm
<1>4. SeqPosSound'
  BY DEF Inv, TypeOK, SeqPosSound, DoSeqKeep, Empty, SeqKeep, Rm, Emptied,
       SeqPosRm, EmptyIsClean
<1>5. ShiftAnnounced'
  BY DEF Inv, TypeOK, ShiftAnnounced, DoSeqKeep, Empty, SeqKeep, Rm, Emptied,
       SeqPosRm
<1> QED BY <1>1, <1>2, <1>3, <1>4, <1>5 DEF Inv

\* rm() preserves the invariant.
LEMMA DoRmInv ==
    ASSUME Inv, NEW i \in Cell, DoRm(i)
    PROVE  Inv'
<1>1. TypeOK'
  <2>1. cells' = [pos |-> cells'.pos, shift |-> cells'.shift, seq |-> cells'.seq,
                  used |-> cells'.used, seq_pos |-> cells'.seq_pos,
                  has_shift |-> cells'.has_shift]
    BY DEF Inv, TypeOK, DoRm, Empty, Rm, Emptied, SeqPosRm
  <2>2. cells'.pos \in [Cell -> Int]
    BY DEF Inv, TypeOK, DoRm, Empty, Rm, Emptied, SeqPosRm
  <2>3. cells'.shift \in [Cell -> Int] /\ cells'.has_shift \in BOOLEAN
    BY DEF Inv, TypeOK, DoRm, Empty, Rm, Emptied, SeqPosRm
  <2>4. cells'.seq \in [Cell -> SUBSET SeqId] /\ cells'.used \in SUBSET Cell
    BY DEF Inv, TypeOK, DoRm, Empty, Rm, Emptied, SeqPosRm
  <2>5. cells'.seq_pos \in [SeqId -> SUBSET Nat]
    BY DEF Inv, TypeOK, DoRm, Empty, Rm, Emptied, SeqPosRm
  <2>6. rotated' \in [Cell -> Int]
    BY DEF Inv, TypeOK, DoRm, Empty, Rm, Emptied, SeqPosRm
  <2>7. \A k \in Cell : cells'.pos[k] >= -1
    BY DEF Inv, TypeOK, DoRm, Empty, Rm, Emptied, SeqPosRm
  <2> QED BY <2>1, <2>2, <2>3, <2>4, <2>5, <2>6, <2>7 DEF TypeOK
<1>2. UsedOK'
  BY DEF Inv, TypeOK, UsedOK, DoRm, Empty, Rm, Emptied, SeqPosRm
<1>3. EmptyIsClean'
  BY DEF Inv, TypeOK, EmptyIsClean, DoRm, Empty, Rm, Emptied, SeqPosRm
<1>4. SeqPosSound'
  BY DEF Inv, TypeOK, SeqPosSound, DoRm, Empty, Rm, Emptied, SeqPosRm,
       EmptyIsClean
<1>5. ShiftAnnounced'
  BY DEF Inv, TypeOK, ShiftAnnounced, DoRm, Empty, Rm, Emptied, SeqPosRm
<1> QED BY <1>1, <1>2, <1>3, <1>4, <1>5 DEF Inv

\* mv() preserves the invariant.
LEMMA DoMvInv ==
    ASSUME Inv, NEW i \in Cell, NEW j \in Cell, DoMv(i, j)
    PROVE  Inv'
<1>1. TypeOK'
  <2>1. cells' = [pos |-> cells'.pos, shift |-> cells'.shift, seq |-> cells'.seq,
                  used |-> cells'.used, seq_pos |-> cells'.seq_pos,
                  has_shift |-> cells'.has_shift]
    BY DEF Inv, TypeOK, DoMv, Empty, Mv
  <2>2. cells'.pos \in [Cell -> Int]
    BY DEF Inv, TypeOK, DoMv, Empty, Mv
  <2>3. cells'.shift \in [Cell -> Int] /\ cells'.has_shift \in BOOLEAN
    BY DEF Inv, TypeOK, DoMv, Empty, Mv
  <2>4. cells'.seq \in [Cell -> SUBSET SeqId] /\ cells'.used \in SUBSET Cell
    BY DEF Inv, TypeOK, DoMv, Empty, Mv
  <2>5. cells'.seq_pos \in [SeqId -> SUBSET Nat]
    BY DEF Inv, TypeOK, DoMv, Empty, Mv
  <2>6. rotated' \in [Cell -> Int]
    BY DEF Inv, TypeOK, DoMv, Empty, Mv
  <2>7. \A k \in Cell : cells'.pos[k] >= -1
    BY DEF Inv, TypeOK, DoMv, Empty, Mv
  <2> QED BY <2>1, <2>2, <2>3, <2>4, <2>5, <2>6, <2>7 DEF TypeOK
<1>2. UsedOK'
  BY DEF Inv, TypeOK, UsedOK, DoMv, Empty, Mv
<1>3. EmptyIsClean'
  BY DEF Inv, TypeOK, EmptyIsClean, DoMv, Empty, Mv
<1>4. SeqPosSound'
  BY DEF Inv, TypeOK, SeqPosSound, DoMv, Empty, Mv, EmptyIsClean
<1>5. ShiftAnnounced'
  BY DEF Inv, TypeOK, ShiftAnnounced, DoMv, Empty, Mv
<1> QED BY <1>1, <1>2, <1>3, <1>4, <1>5 DEF Inv

\* set() preserves the invariant.
LEMMA DoSetInv ==
    ASSUME Inv, NEW i \in Cell, NEW p \in Pos \cup {-1}, NEW ss \in SUBSET SeqId, DoSet(i, p, ss)
    PROVE  Inv'
<1>1. TypeOK'
  <2>1. cells' = [pos |-> cells'.pos, shift |-> cells'.shift, seq |-> cells'.seq,
                  used |-> cells'.used, seq_pos |-> cells'.seq_pos,
                  has_shift |-> cells'.has_shift]
    BY DEF Inv, TypeOK, DoSet, Empty, SetCell, SeqPosRm, SeqPosAdd, Pos
  <2>2. cells'.pos \in [Cell -> Int]
    BY KvCellsUseAssumption DEF Inv, TypeOK, DoSet, Empty, SetCell, SeqPosRm,
         SeqPosAdd, Pos
  <2>3. cells'.shift \in [Cell -> Int] /\ cells'.has_shift \in BOOLEAN
    BY KvCellsUseAssumption DEF Inv, TypeOK, DoSet, Empty, SetCell, SeqPosRm,
         SeqPosAdd, Pos
  <2>4. cells'.seq \in [Cell -> SUBSET SeqId] /\ cells'.used \in SUBSET Cell
    BY KvCellsUseAssumption DEF Inv, TypeOK, DoSet, Empty, SetCell, SeqPosRm,
         SeqPosAdd, Pos
  <2>5. cells'.seq_pos \in [SeqId -> SUBSET Nat]
    BY KvCellsUseAssumption DEF Inv, TypeOK, DoSet, Empty, SetCell, SeqPosRm,
         SeqPosAdd, Pos
  <2>6. rotated' \in [Cell -> Int]
    BY KvCellsUseAssumption DEF Inv, TypeOK, DoSet, Empty, SetCell, SeqPosRm,
         SeqPosAdd, Pos
  <2>7. \A k \in Cell : cells'.pos[k] >= -1
    BY KvCellsUseAssumption DEF Inv, TypeOK, DoSet, Empty, SetCell, SeqPosRm,
         SeqPosAdd, Pos
  <2> QED BY <2>1, <2>2, <2>3, <2>4, <2>5, <2>6, <2>7 DEF TypeOK
<1>2. UsedOK'
  BY KvCellsUseAssumption DEF Inv, TypeOK, UsedOK, DoSet, Empty, SetCell,
       SeqPosRm, SeqPosAdd, Pos
<1>3. EmptyIsClean'
  BY KvCellsUseAssumption DEF Inv, TypeOK, EmptyIsClean, DoSet, Empty,
       SetCell, SeqPosRm, SeqPosAdd, Pos
<1>4. SeqPosSound'
  BY KvCellsUseAssumption DEF Inv, TypeOK, SeqPosSound, DoSet, Empty,
       SetCell, SeqPosRm, SeqPosAdd, Pos, EmptyIsClean
<1>5. ShiftAnnounced'
  BY KvCellsUseAssumption DEF Inv, TypeOK, ShiftAnnounced, DoSet, Empty,
       SetCell, SeqPosRm, SeqPosAdd, Pos
<1> QED BY <1>1, <1>2, <1>3, <1>4, <1>5 DEF Inv

\* pos_add() preserves the invariant.
LEMMA DoPosAddInv ==
    ASSUME Inv, NEW i \in Cell, NEW d \in -MaxPos .. MaxPos, DoPosAdd(i, d)
    PROVE  Inv'
<1>1. TypeOK'
  <2>1. cells' = [pos |-> cells'.pos, shift |-> cells'.shift, seq |-> cells'.seq,
                  used |-> cells'.used, seq_pos |-> cells'.seq_pos,
                  has_shift |-> cells'.has_shift]
    BY DEF Inv, TypeOK, DoPosAdd, Empty, PosAdd, Emptied, SeqPosRm, SeqPosAdd
  <2>2. cells'.pos \in [Cell -> Int]
    BY KvCellsUseAssumption DEF Inv, TypeOK, DoPosAdd, Empty, PosAdd,
         Emptied, SeqPosRm, SeqPosAdd
  <2>3. cells'.shift \in [Cell -> Int] /\ cells'.has_shift \in BOOLEAN
    BY KvCellsUseAssumption DEF Inv, TypeOK, DoPosAdd, Empty, PosAdd,
         Emptied, SeqPosRm, SeqPosAdd
  <2>4. cells'.seq \in [Cell -> SUBSET SeqId] /\ cells'.used \in SUBSET Cell
    BY KvCellsUseAssumption DEF Inv, TypeOK, DoPosAdd, Empty, PosAdd,
         Emptied, SeqPosRm, SeqPosAdd
  <2>5. cells'.seq_pos \in [SeqId -> SUBSET Nat]
    BY KvCellsUseAssumption DEF Inv, TypeOK, DoPosAdd, Empty, PosAdd,
         Emptied, SeqPosRm, SeqPosAdd
  <2>6. rotated' \in [Cell -> Int]
    BY KvCellsUseAssumption DEF Inv, TypeOK, DoPosAdd, Empty, PosAdd,
         Emptied, SeqPosRm, SeqPosAdd
  <2>7. \A k \in Cell : cells'.pos[k] >= -1
    BY KvCellsUseAssumption DEF Inv, TypeOK, DoPosAdd, Empty, PosAdd,
         Emptied, SeqPosRm, SeqPosAdd
  <2> QED BY <2>1, <2>2, <2>3, <2>4, <2>5, <2>6, <2>7 DEF TypeOK
<1>2. UsedOK'
  BY KvCellsUseAssumption DEF Inv, TypeOK, UsedOK, DoPosAdd, Empty, PosAdd,
       Emptied, SeqPosRm, SeqPosAdd
<1>3. EmptyIsClean'
  BY KvCellsUseAssumption DEF Inv, TypeOK, EmptyIsClean, DoPosAdd, Empty,
       PosAdd, Emptied, SeqPosRm, SeqPosAdd
<1>4. SeqPosSound'
  BY KvCellsUseAssumption DEF Inv, TypeOK, SeqPosSound, DoPosAdd, Empty,
       PosAdd, Emptied, SeqPosRm, SeqPosAdd, EmptyIsClean
<1>5. ShiftAnnounced'
  BY KvCellsUseAssumption DEF Inv, TypeOK, ShiftAnnounced, DoPosAdd, Empty,
       PosAdd, Emptied, SeqPosRm, SeqPosAdd
<1> QED BY <1>1, <1>2, <1>3, <1>4, <1>5 DEF Inv

\* pos_div() preserves the invariant.
LEMMA DoPosDivInv ==
    ASSUME Inv, NEW i \in Cell, NEW d \in Divisor, DoPosDiv(i, d)
    PROVE  Inv'
<1>1. TypeOK'
  <2>1. cells' = [pos |-> cells'.pos, shift |-> cells'.shift, seq |-> cells'.seq,
                  used |-> cells'.used, seq_pos |-> cells'.seq_pos,
                  has_shift |-> cells'.has_shift]
    BY DEF Inv, TypeOK, DoPosDiv, Empty, PosDiv, SeqPosRm, SeqPosAdd
  <2>2. cells'.pos \in [Cell -> Int]
    BY KvCellsUseAssumption, QuotientType DEF Inv, TypeOK, DoPosDiv, Empty,
         PosDiv, SeqPosRm, SeqPosAdd
  <2>3. cells'.shift \in [Cell -> Int] /\ cells'.has_shift \in BOOLEAN
    BY KvCellsUseAssumption, QuotientType DEF Inv, TypeOK, DoPosDiv, Empty,
         PosDiv, SeqPosRm, SeqPosAdd
  <2>4. cells'.seq \in [Cell -> SUBSET SeqId] /\ cells'.used \in SUBSET Cell
    BY DEF Inv, TypeOK, DoPosDiv, Empty, PosDiv, SeqPosRm, SeqPosAdd
  <2>5. cells'.seq_pos \in [SeqId -> SUBSET Nat]
    BY KvCellsUseAssumption, QuotientType DEF Inv, TypeOK, DoPosDiv, Empty,
         PosDiv, SeqPosRm, SeqPosAdd
  <2>6. rotated' \in [Cell -> Int]
    BY DEF Inv, TypeOK, DoPosDiv, Empty, PosDiv, SeqPosRm, SeqPosAdd
  <2>7. \A k \in Cell : cells'.pos[k] >= -1
    BY KvCellsUseAssumption, QuotientType DEF Inv, TypeOK, DoPosDiv, Empty,
         PosDiv, SeqPosRm, SeqPosAdd
  <2> QED BY <2>1, <2>2, <2>3, <2>4, <2>5, <2>6, <2>7 DEF TypeOK
<1>2. UsedOK'
  BY KvCellsUseAssumption, QuotientType DEF Inv, TypeOK, UsedOK, DoPosDiv,
       Empty, PosDiv, SeqPosRm, SeqPosAdd
<1>3. EmptyIsClean'
  BY KvCellsUseAssumption, QuotientType DEF Inv, TypeOK, EmptyIsClean,
       DoPosDiv, Empty, PosDiv, SeqPosRm, SeqPosAdd
<1>4. SeqPosSound'
  BY KvCellsUseAssumption, QuotientType DEF Inv, TypeOK, SeqPosSound,
       DoPosDiv, Empty, PosDiv, SeqPosRm, SeqPosAdd, EmptyIsClean
<1>5. ShiftAnnounced'
  BY KvCellsUseAssumption, QuotientType DEF Inv, TypeOK, ShiftAnnounced,
       DoPosDiv, Empty, PosDiv, SeqPosRm, SeqPosAdd
<1> QED BY <1>1, <1>2, <1>3, <1>4, <1>5 DEF Inv

\* reset_shift() preserves the invariant.
LEMMA DoResetShiftInv ==
    ASSUME Inv, DoResetShift
    PROVE  Inv'
<1>1. TypeOK'
  <2>1. cells' = [pos |-> cells'.pos, shift |-> cells'.shift, seq |-> cells'.seq,
                  used |-> cells'.used, seq_pos |-> cells'.seq_pos,
                  has_shift |-> cells'.has_shift]
    BY DEF Inv, TypeOK, DoResetShift, Empty, ResetShift
  <2>2. cells'.pos \in [Cell -> Int]
    BY DEF Inv, TypeOK, DoResetShift, Empty, ResetShift
  <2>3. cells'.shift \in [Cell -> Int] /\ cells'.has_shift \in BOOLEAN
    BY DEF Inv, TypeOK, DoResetShift, Empty, ResetShift
  <2>4. cells'.seq \in [Cell -> SUBSET SeqId] /\ cells'.used \in SUBSET Cell
    BY DEF Inv, TypeOK, DoResetShift, Empty, ResetShift
  <2>5. cells'.seq_pos \in [SeqId -> SUBSET Nat]
    BY DEF Inv, TypeOK, DoResetShift, Empty, ResetShift
  <2>6. rotated' \in [Cell -> Int]
    BY DEF Inv, TypeOK, DoResetShift, Empty, ResetShift
  <2>7. \A k \in Cell : cells'.pos[k] >= -1
    BY DEF Inv, TypeOK, DoResetShift, Empty, ResetShift
  <2> QED BY <2>1, <2>2, <2>3, <2>4, <2>5, <2>6, <2>7 DEF TypeOK
<1>2. UsedOK'
  BY DEF Inv, TypeOK, UsedOK, DoResetShift, Empty, ResetShift
<1>3. EmptyIsClean'
  BY DEF Inv, TypeOK, EmptyIsClean, DoResetShift, Empty, ResetShift
<1>4. SeqPosSound'
  BY DEF Inv, TypeOK, SeqPosSound, DoResetShift, Empty, ResetShift,
       EmptyIsClean
<1>5. ShiftAnnounced'
  BY DEF Inv, TypeOK, ShiftAnnounced, DoResetShift, Empty, ResetShift
<1> QED BY <1>1, <1>2, <1>3, <1>4, <1>5 DEF Inv

-----------------------------------------------------------------------------
(***************************************************************************)
(* The theorems                                                            *)
(***************************************************************************)

\* Every call, and a step that is not a call, preserves the invariant.
LEMMA StepInv == Inv /\ [Next]_vars => Inv'
<1> SUFFICES ASSUME Inv, [Next]_vars PROVE Inv'
  OBVIOUS
<1>1. CASE Next
  BY <1>1, DoPosSetInv, DoSeqAddInv, DoSeqRmInv, DoSeqKeepInv, DoRmInv,
       DoMvInv, DoSetInv, DoPosAddInv, DoPosDivInv, DoResetShiftInv DEF Next
<1>2. CASE UNCHANGED vars
  BY <1>2 DEF vars, Inv, TypeOK, UsedOK, EmptyIsClean, SeqPosSound,
       ShiftAnnounced, Empty
<1> QED BY <1>1, <1>2

\* The invariant holds of every object.
LEMMA InvAlways == Spec => []Inv
BY InitInv, StepInv, PTL DEF Spec

\* The members keep their types; no position is below -1, as is_empty() asserts.
THEOREM TypeCorrect == Spec => []TypeOK
BY InvAlways, PTL DEF Inv

\* get_used(), used_min() and used_max_p1() answer from the set of cells that
\* have a position.
THEOREM UsedCorrect == Spec => []UsedOK
BY InvAlways, PTL DEF Inv

\* A cell that pos_set() may take has no sequence and no shift left over.
THEOREM EmptyCellsClean == Spec => []EmptyIsClean
BY InvAlways, PTL DEF Inv

\* seq_pos_min() and seq_pos_max() never answer with a position nobody holds.
THEOREM SeqPosCorrect == Spec => []SeqPosSound
BY InvAlways, PTL DEF Inv

\* No shift is pending while has_shift is false.
THEOREM ShiftsAnnounced == Spec => []ShiftAnnounced
BY InvAlways, PTL DEF Inv

\* Without pos_div(), the shift of a cell is exactly the rotation its data lack.
THEOREM ShiftsPending ==
    ASSUME Divisor = {}
    PROVE  Spec => []ShiftIsPending
<1>1. Init => ShiftIsPending
  BY DEF Init, ShiftIsPending, NoCells, Empty
<1>2. Inv /\ ShiftIsPending /\ [Next]_vars => ShiftIsPending'
  <2> SUFFICES ASSUME Inv, ShiftIsPending, [Next]_vars PROVE ShiftIsPending'
    OBVIOUS
  <2>1. ASSUME NEW i \in Cell, NEW p \in Pos, DoPosSet(i, p)
        PROVE  ShiftIsPending'
    BY KvCellsUseAssumption, <2>1 DEF Inv, TypeOK, ShiftIsPending, DoPosSet,
         Empty, PosSet, Pos, EmptyIsClean
  <2>2. ASSUME NEW i \in Cell, NEW s \in SeqId, DoSeqAdd(i, s)
        PROVE  ShiftIsPending'
    BY <2>2 DEF Inv, TypeOK, ShiftIsPending, DoSeqAdd, Empty, SeqAdd
  <2>3. ASSUME NEW i \in Cell, NEW s \in SeqId, DoSeqRm(i, s)
        PROVE  ShiftIsPending'
    BY <2>3 DEF Inv, TypeOK, ShiftIsPending, DoSeqRm, Empty, SeqRm, Emptied
  <2>4. ASSUME NEW i \in Cell, NEW s \in SeqId, DoSeqKeep(i, s)
        PROVE  ShiftIsPending'
    BY <2>4 DEF Inv, TypeOK, ShiftIsPending, DoSeqKeep, Empty, SeqKeep, Rm,
         Emptied, SeqPosRm
  <2>5. ASSUME NEW i \in Cell, DoRm(i)
        PROVE  ShiftIsPending'
    BY <2>5 DEF Inv, TypeOK, ShiftIsPending, DoRm, Empty, Rm, Emptied,
         SeqPosRm
  <2>6. ASSUME NEW i \in Cell, NEW j \in Cell, DoMv(i, j)
        PROVE  ShiftIsPending'
    BY <2>6 DEF Inv, TypeOK, ShiftIsPending, DoMv, Empty, Mv
  <2>7. ASSUME NEW i \in Cell, NEW p \in Pos \cup {-1}, NEW ss \in SUBSET SeqId, DoSet(i, p, ss)
        PROVE  ShiftIsPending'
    BY KvCellsUseAssumption, <2>7 DEF Inv, TypeOK, ShiftIsPending, DoSet,
         Empty, SetCell, SeqPosRm, SeqPosAdd, Pos
  <2>8. ASSUME NEW i \in Cell, NEW d \in -MaxPos .. MaxPos, DoPosAdd(i, d)
        PROVE  ShiftIsPending'
    BY KvCellsUseAssumption, <2>8 DEF Inv, TypeOK, ShiftIsPending, DoPosAdd,
         Empty, PosAdd, Emptied, SeqPosRm, SeqPosAdd
  <2>9. CASE DoResetShift
    BY <2>9 DEF Inv, TypeOK, ShiftIsPending, DoResetShift, Empty, ResetShift
  <2>10. CASE UNCHANGED vars
    BY <2>10 DEF vars, ShiftIsPending, Empty
  <2> QED BY <2>1, <2>2, <2>3, <2>4, <2>5, <2>6, <2>7, <2>8, <2>9, <2>10 DEF
       Next
<1> QED BY <1>1, <1>2, InvAlways, PTL DEF Spec

\* For a caller that keeps the positions of a sequence distinct after every
\* call, seq_pos is exact, whatever it does in between.
THEOREM SeqPosComplete == DistinctSpec => []SeqPosExact
<1> DEFINE DInv == Inv /\ Distinct(cells) /\ SeqPosExact
<1>1. Init => DInv
  <2> SUFFICES ASSUME Init PROVE Distinct(cells) /\ SeqPosExact
    BY InitInv
  <2> QED BY DEF Init, NoCells, Distinct, SeqPosExact
<1>2. DInv /\ [Next /\ Distinct(cells')]_vars => DInv'
  <2> SUFFICES ASSUME DInv, [Next /\ Distinct(cells')]_vars
               PROVE  Distinct(cells') /\ SeqPosExact'
    BY StepInv
  <2>0. CASE UNCHANGED vars
    BY <2>0 DEF vars, Distinct, SeqPosExact
  <2>1. ASSUME NEW i \in Cell, NEW p \in Pos, DoPosSet(i, p), Distinct(cells')
        PROVE  SeqPosExact'
    BY KvCellsUseAssumption, <2>1 DEF Inv, TypeOK, EmptyIsClean, Distinct,
         SeqPosExact, DoPosSet, Empty, PosSet, Pos
  <2>2. ASSUME NEW i \in Cell, NEW s \in SeqId, DoSeqAdd(i, s), Distinct(cells')
        PROVE  SeqPosExact'
    BY <2>2 DEF Inv, TypeOK, EmptyIsClean, Distinct, SeqPosExact, DoSeqAdd,
         Empty, SeqAdd
  <2>3. ASSUME NEW i \in Cell, NEW s \in SeqId, DoSeqRm(i, s), Distinct(cells')
        PROVE  SeqPosExact'
    BY <2>3 DEF Inv, TypeOK, EmptyIsClean, Distinct, SeqPosExact, DoSeqRm,
         Empty, SeqRm, Emptied
  <2>4. ASSUME NEW i \in Cell, NEW s \in SeqId, DoSeqKeep(i, s), Distinct(cells')
        PROVE  SeqPosExact'
    BY <2>4 DEF Inv, TypeOK, EmptyIsClean, Distinct, SeqPosExact, DoSeqKeep,
         Empty, SeqKeep, Rm, Emptied, SeqPosRm
  <2>5. ASSUME NEW i \in Cell, DoRm(i), Distinct(cells')
        PROVE  SeqPosExact'
    BY <2>5 DEF Inv, TypeOK, EmptyIsClean, Distinct, SeqPosExact, DoRm,
         Empty, Rm, Emptied, SeqPosRm
  <2>6. ASSUME NEW i \in Cell, NEW j \in Cell, DoMv(i, j), Distinct(cells')
        PROVE  SeqPosExact'
    BY <2>6 DEF Inv, TypeOK, EmptyIsClean, Distinct, SeqPosExact, DoMv,
         Empty, Mv
  <2>7. ASSUME NEW i \in Cell, NEW p \in Pos \cup {-1}, NEW ss \in SUBSET SeqId, DoSet(i, p, ss), Distinct(cells')
        PROVE  SeqPosExact'
    BY KvCellsUseAssumption, <2>7 DEF Inv, TypeOK, EmptyIsClean, Distinct,
         SeqPosExact, DoSet, Empty, SetCell, SeqPosRm, SeqPosAdd, Pos
  <2>8. ASSUME NEW i \in Cell, NEW d \in -MaxPos .. MaxPos, DoPosAdd(i, d), Distinct(cells')
        PROVE  SeqPosExact'
    BY KvCellsUseAssumption, <2>8 DEF Inv, TypeOK, EmptyIsClean, Distinct,
         SeqPosExact, DoPosAdd, Empty, PosAdd, Emptied, SeqPosRm, SeqPosAdd
  <2>9. ASSUME NEW i \in Cell, NEW d \in Divisor, DoPosDiv(i, d), Distinct(cells')
        PROVE  SeqPosExact'
    BY KvCellsUseAssumption, QuotientType, <2>9 DEF Inv, TypeOK,
         EmptyIsClean, Distinct, SeqPosExact, DoPosDiv, Empty, PosDiv,
         SeqPosRm, SeqPosAdd
  <2>10. ASSUME DoResetShift, Distinct(cells')
        PROVE  SeqPosExact'
    BY <2>10 DEF Inv, TypeOK, EmptyIsClean, Distinct, SeqPosExact,
         DoResetShift, Empty, ResetShift
  <2> QED BY <2>0, <2>1, <2>2, <2>3, <2>4, <2>5, <2>6, <2>7, <2>8, <2>9,
       <2>10 DEF Next
<1> QED BY <1>1, <1>2, PTL DEF DistinctSpec
=============================================================================
