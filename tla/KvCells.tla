------------------------------ MODULE KvCells ------------------------------
(***************************************************************************)
(* class llama_kv_cells_unified (src/llama-kv-cells.h): what the KV cache  *)
(* knows about its cells.  A cell may belong to several sequences at once. *)
(*                                                                         *)
(* The object is the record of its members,                                *)
(*     pos[i]      position of cell i, -1 when the cell is empty           *)
(*     shift[i]    shifts applied to pos[i] since the last reset_shift()   *)
(*     seq[i]      the sequences the cell belongs to                       *)
(*     used        indices of the cells that are not empty                 *)
(*     seq_pos[s]  positions present for sequence s                        *)
(*     has_shift   some shift has been applied                             *)
(* and a method that changes it is an operator from the object and the     *)
(* arguments to the new object.  The asserts of a method are its           *)
(* precondition, in the action that calls it.                              *)
(***************************************************************************)
EXTENDS Integers

CONSTANTS
    Cell,       \* the indices of the cells
    SeqId       \* the sequences, below LLAMA_MAX_PARALLEL_SEQUENCES

Empty(c, i) == c.pos[i] = -1

\* reset(), and resize() of a new object.
NoCells ==
    [pos       |-> [i \in Cell |-> -1],
     shift     |-> [i \in Cell |-> 0],
     seq       |-> [i \in Cell |-> {}],
     used      |-> {},
     seq_pos   |-> [s \in SeqId |-> {}],
     has_shift |-> FALSE]

\* seq_pos_rm() and seq_pos_add(): what becomes of seq_pos.
SeqPosRm(c, i) ==
    [s \in SeqId |-> IF s \in c.seq[i] THEN c.seq_pos[s] \ {c.pos[i]} ELSE c.seq_pos[s]]

SeqPosAdd(c, i) ==
    [s \in SeqId |-> IF s \in c.seq[i] THEN c.seq_pos[s] \cup {c.pos[i]} ELSE c.seq_pos[s]]

\* The cell becomes empty; seq_pos is up to the caller.
Emptied(c, i) ==
    [c EXCEPT !.pos[i] = -1, !.shift[i] = 0, !.seq[i] = {}, !.used = @ \ {i}]

\* Mutant: only the flag is reset.
ResetShift_OnlyFlag(c) ==
    [c EXCEPT !.has_shift = FALSE]

ResetShift(c) ==
    [c EXCEPT !.has_shift = FALSE, !.shift = [i \in Cell |-> 0]]

\* Defragmentation moves a cell to an empty one.
Mv(c, isrc, idst) ==
    [c EXCEPT !.pos   = [@ EXCEPT ![idst] = c.pos[isrc], ![isrc] = -1],
              !.shift = [@ EXCEPT ![idst] = c.shift[isrc], ![isrc] = 0],
              !.seq   = [@ EXCEPT ![idst] = c.seq[isrc], ![isrc] = {}],
              !.used  = (@ \ {isrc}) \cup {idst}]

\* One iteration of set(): cell i is given the position and the sequences that
\* cp() saved.  The shift is not touched: both methods assert that it is 0.
SetCell(c, i, p, ss) ==
    LET removed == [c EXCEPT !.used = IF Empty(c, i) = (p = -1) THEN @
                                      ELSE IF p = -1 THEN @ \ {i} ELSE @ \cup {i},
                             !.seq_pos = IF Empty(c, i) THEN @ ELSE SeqPosRm(c, i)]
        placed  == [removed EXCEPT !.pos[i] = p, !.seq[i] = ss]
    IN  [placed EXCEPT !.seq_pos = IF p = -1 THEN @ ELSE SeqPosAdd(placed, i)]

Rm(c, i) ==
    [Emptied(c, i) EXCEPT !.seq_pos = SeqPosRm(c, i)]

\* Mutant: the position of the sequence is left behind.
SeqRm_KeepsPos(c, i, s) ==
    LET without == [c EXCEPT !.seq[i] = @ \ {s}]
    IN  IF without.seq[i] = {} THEN Emptied(without, i) ELSE without

\* seq_rm(): the cell leaves one sequence, and is emptied when it was the last.
SeqRm(c, i, s) ==
    LET without == [c EXCEPT !.seq[i] = @ \ {s}, !.seq_pos[s] = @ \ {c.pos[i]}]
    IN  IF without.seq[i] = {} THEN Emptied(without, i) ELSE without

\* Mutant: the position of the sequence that stays is not put back.
SeqKeep_Forgets(c, i, s) ==
    IF s \in c.seq[i]
      THEN [c EXCEPT !.seq[i] = {s}, !.seq_pos = SeqPosRm(c, i)]
      ELSE IF c.seq[i] # {} THEN Rm(c, i) ELSE c

\* seq_keep(): the cell leaves every other sequence.
SeqKeep(c, i, s) ==
    IF s \in c.seq[i]
      THEN LET only == [c EXCEPT !.seq[i] = {s}, !.seq_pos = SeqPosRm(c, i)]
           IN  [only EXCEPT !.seq_pos[s] = @ \cup {c.pos[i]}]
      ELSE IF c.seq[i] # {} THEN Rm(c, i) ELSE c

SeqAdd(c, i, s) ==
    [c EXCEPT !.seq[i] = @ \cup {s}, !.seq_pos[s] = @ \cup {c.pos[i]}]

PosSet(c, i, p) ==
    [c EXCEPT !.pos[i] = p, !.used = @ \cup {i}]

\* Mutant: a negative position is kept.
PosAdd_Negative(c, i, d) ==
    LET moved == [c EXCEPT !.pos[i] = @ + d, !.shift[i] = @ + d, !.has_shift = TRUE,
                           !.seq_pos = SeqPosRm(c, i)]
    IN  [moved EXCEPT !.seq_pos = SeqPosAdd(moved, i)]

\* pos_add(): the cell is emptied when its position becomes negative.
PosAdd(c, i, d) ==
    LET moved == [c EXCEPT !.pos[i] = @ + d, !.shift[i] = @ + d, !.has_shift = TRUE,
                           !.seq_pos = SeqPosRm(c, i)]
    IN  IF moved.pos[i] < 0
          THEN Emptied(moved, i)
          ELSE [moved EXCEPT !.seq_pos = SeqPosAdd(moved, i)]

\* pos_div(): the shift accumulates the old position minus the new one.
PosDiv(c, i, d) ==
    LET moved == [c EXCEPT !.pos[i] = @ \div d,
                           !.shift[i] = @ + c.pos[i] - (c.pos[i] \div d),
                           !.has_shift = TRUE,
                           !.seq_pos = SeqPosRm(c, i)]
    IN  [moved EXCEPT !.seq_pos = SeqPosAdd(moved, i)]
=============================================================================
