----------------------------- MODULE TaskPool -----------------------------
(***************************************************************************)
(* What server_queue promises to its users, without queues or locks: a     *)
(* submitted task stays in the pool until the consumer takes it; a taken   *)
(* task is finished or put back; nothing else makes a task disappear,      *)
(* except that submitting a CANCEL task replaces the pending CANCEL tasks  *)
(* with the same target; once closed, nothing is taken any more.           *)
(***************************************************************************)
EXTENDS Sequences, SequencesExt

CONSTANTS Task, NoTask

VARIABLES
    pool,       \* the submitted tasks that nobody has taken
    taken,      \* the task the consumer works on, or NoTask
    open        \* FALSE once the pool is closed

vars == <<pool, taken, open>>

Init ==
    /\ pool = {}
    /\ taken = NoTask
    /\ open \in BOOLEAN

Replaced(ts) ==
    {t \in pool : t.type = "CANCEL" /\ \E u \in ts : u.type = "CANCEL"
                                                  /\ u.id_target = t.id_target}

Submit ==
    /\ \E ts \in (SUBSET Task) \ {{}} : pool' = (pool \ Replaced(ts)) \cup ts
    /\ UNCHANGED <<taken, open>>

Take ==
    /\ open /\ taken = NoTask
    /\ taken' \in pool
    /\ pool' = pool \ {taken'}
    /\ UNCHANGED open

Finish ==
    /\ taken # NoTask
    /\ taken' = NoTask
    /\ UNCHANGED <<pool, open>>

PutBack ==
    /\ taken # NoTask
    /\ pool' = pool \cup {taken}
    /\ taken' = NoTask
    /\ UNCHANGED open

Open ==
    /\ open' = TRUE
    /\ UNCHANGED <<pool, taken>>

Close ==
    /\ open' = FALSE
    /\ UNCHANGED <<pool, taken>>

Next == Submit \/ Take \/ Finish \/ PutBack \/ Open \/ Close

Spec == Init /\ [][Next]_vars
=============================================================================
