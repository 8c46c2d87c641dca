--------------------------- MODULE SequenceCache ---------------------------
(***************************************************************************)
(* What include/llama.h promises of the memory of a context: it holds      *)
(* entries, each the rows of one token at a position of one or more        *)
(* sequences, and every operation is about sequences and positions only.   *)
(* Where a token is kept, how a batch is cut, when rows are moved or       *)
(* rotated is not visible here.                                            *)
(***************************************************************************)
EXTENDS Integers

CONSTANTS
    SeqId,      \* the sequences
    Position    \* the positions, natural numbers

VARIABLE
    entries     \* [who, pos, seqs]: the token, its position and its sequences

vars == <<entries>>

Token == (SUBSET SeqId) \ {{}}

Entry == [who : Token, pos : Position, seqs : Token]

Of(s) == {e \in entries : s \in e.seqs}

\* Entries from which sequence s is gone.
Without(es, s) ==
    {e \in {[x EXCEPT !.seqs = @ \ {s}] : x \in es} : e.seqs # {}}

Init == entries = {}

Clear == entries' = {}

\* The positions of a sequence from p on are removed.
Remove(s, p) ==
    LET hit == {e \in Of(s) : e.pos >= p}
    IN  entries' = (entries \ hit) \cup Without(hit, s)

\* An empty sequence shares the tokens of another.
Copy(s, d) ==
    /\ Of(d) = {}
    /\ entries' = (entries \ Of(s)) \cup {[e EXCEPT !.seqs = @ \cup {d}] : e \in Of(s)}

\* Every sequence but one is removed.
Keep(s) ==
    entries' = {[e EXCEPT !.seqs = {s}] : e \in Of(s)}

\* Positions from n to below n + d are removed and the later ones close the gap.
Shift(s, n, d) ==
    /\ \A e \in Of(s) : e.seqs = {s}
    /\ LET hit  == {e \in Of(s) : n =< e.pos /\ e.pos < n + d}
           late == {e \in Of(s) : e.pos >= n + d}
       IN  entries' = (entries \ (hit \cup late)) \cup {[e EXCEPT !.pos = @ - d] : e \in late}

\* Tokens continue their sequences, each sequence without a gap.
Append ==
    LET new == entries' \ entries
    IN  /\ entries \subseteq entries'
        /\ new \subseteq Entry
        /\ \A e \in new : \A s \in e.seqs :
              /\ \A x \in Of(s) : x.pos < e.pos
              /\ \A x \in new : s \in x.seqs /\ x.pos = e.pos => x = e
              /\ e.pos = 0 \/ \E x \in entries' : s \in x.seqs /\ x.pos = e.pos - 1

Next ==
    \/ Clear
    \/ \E s \in SeqId :
          \/ \E p \in Position : Remove(s, p)
          \/ \E d \in SeqId \ {s} : Copy(s, d)
          \/ Keep(s)
          \/ \E n \in Position, d \in Position \ {0} : Shift(s, n, d)
    \/ Append

Spec == Init /\ [][Next]_vars

\* Every position below one of a sequence belongs to the sequence as well, and
\* to one entry: "all positions in the range [pos_min, pos_max] are guaranteed
\* to be present in the memory" (include/llama.h).
Contiguous ==
    \A s \in SeqId : \A e \in Of(s) :
        \A p \in 0 .. e.pos : \E x \in Of(s) : x.pos = p /\ \A y \in Of(s) : y.pos = p => y = x
=============================================================================
