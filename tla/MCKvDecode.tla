----------------------------- MODULE MCKvDecode -----------------------------
(* Instances of decode() and its caches.                                   *)
EXTENDS KvDecode

Unified == {[base |-> 4, swa |-> 0, n_swa |-> 0, n_ubatch |-> 2, n_seq_max |-> 2,
             defrag |-> TRUE, n_pos |-> 4]}

\* Two sequences in two caches: cells are reused, and there is always room.
Roomy == [base |-> 6, swa |-> 5, n_swa |-> 2, n_ubatch |-> 1, n_seq_max |-> 2,
          defrag |-> FALSE, n_pos |-> 3]

\* One sequence that fills two caches, so that placements fail: in the base cache,
\* and in Even, after context shifts, in the SWA cache alone.
Uneven == [base |-> 6, swa |-> 4, n_swa |-> 2, n_ubatch |-> 2, n_seq_max |-> 1,
           defrag |-> FALSE, n_pos |-> 8]
Even   == [base |-> 5, swa |-> 5, n_swa |-> 2, n_ubatch |-> 3, n_seq_max |-> 1,
           defrag |-> FALSE, n_pos |-> 8]

\* The SWA caches have the sizes the constructor gives them.
Window == {Roomy, Uneven, Even}
=============================================================================
