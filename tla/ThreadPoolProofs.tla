-------------------------- MODULE ThreadPoolProofs --------------------------
(***************************************************************************)
(* The CPU thread pool (ggml/src/ggml-cpu/ggml-cpu.c) for every number of  *)
(* threads, nodes, chunks and graphs, as long as no graph uses more        *)
(* threads than the one before it (~ Growing).                             *)
(*                                                                         *)
(* The argument has two layers.                                            *)
(*                                                                         *)
(*   Control   Every thread is on its way to a barrier of the graph, and   *)
(*             all active threads are on their way to the same one         *)
(*             (Lockstep): NextBarrier() computes it from where the thread *)
(*             is, from the variables it has read, and from the node the   *)
(*             callback has stopped the graph at.  A worker that has not   *)
(*             seen the graph yet counts as one before the first barrier,  *)
(*             which is why the main thread cannot come back without it.   *)
(*   PartsInv  Every part of the node the threads are at is computed, or   *)
(*             claimed by one thread, or not yet drawn from the shared     *)
(*             counter; the barrier after a node finds it whole.           *)
(*                                                                         *)
(* From the first follow the conditions under which ggml_barrier() works,  *)
(* from both that every part is computed once, and from these that the     *)
(* pool implements GraphCompute, but for its liveness.  The first part of  *)
(* this module is about the barrier alone (ThreadBarrier): it works for    *)
(* any number of threads, as often as it is used, and although the number  *)
(* of threads changes from graph to graph.                                 *)
(***************************************************************************)
EXTENDS ThreadPool, FiniteSetTheorems, TLAPS

-----------------------------------------------------------------------------
(* The barrier.                                                            *)

\* The threads that have arrived at the barrier which is to pass next.
Held == {t \in Active : arrived[t] = n_barrier_passed + 1}

\* A thread is before the next barrier, or held by it, or released from the last.
PlaceOK(t) ==
    /\ bar[t].at \in {"out", "read"} => arrived[t] = n_barrier_passed
    /\ bar[t].at = "read" => /\ bar[t].n_threads = n_threads_cur
                             /\ bar[t].n_passed = n_barrier_passed
    /\ bar[t].at = "wait" =>
          /\ bar[t].n_passed <= n_barrier_passed
          /\ arrived[t] = IF bar[t].n_passed = n_barrier_passed
                          THEN n_barrier_passed + 1 ELSE n_barrier_passed
    /\ bar[t].at \in {"reset", "pass"} => arrived[t] = n_barrier_passed + 1

Places == \A t \in Active : PlaceOK(t)

\* A thread the current graph does not use may be on its way out, not more.
Outside ==
    \A t \in Threads \ Active :
        bar[t].at = "out" \/ (bar[t].at = "wait" /\ bar[t].n_passed < n_barrier_passed)

Opens ==
    \A t, u \in Active :
        bar[t].at \in {"reset", "pass"} /\ u # t =>
            bar[u].at = "wait" /\ bar[u].n_passed = n_barrier_passed

\* n_barrier counts the held threads, until the last of them resets it.
Counted ==
    IF \E t \in Active : bar[t].at = "pass" THEN n_barrier = 0
                                            ELSE n_barrier = Cardinality(Held)

\* Somebody is still to come, or somebody opens the barrier.
NotFull == (\A t \in Active : bar[t].at \notin {"reset", "pass"}) => Held # Active

Inv == BarrierTypeOK /\ Places /\ Outside /\ Opens /\ Counted /\ NotFull

-----------------------------------------------------------------------------
(***************************************************************************)
(* The set of held threads.                                                *)
(***************************************************************************)

\* There are n_threads_cur active threads, and the held ones are some of them.
LEMMA HeldFinite ==
    ASSUME BarrierTypeOK
    PROVE  /\ IsFiniteSet(Active) /\ Cardinality(Active) = n_threads_cur
           /\ Active \subseteq Threads /\ Active # {}
           /\ IsFiniteSet(Held) /\ Held \subseteq Active
           /\ Cardinality(Held) \in Nat /\ Cardinality(Held) <= n_threads_cur
           /\ Cardinality(Held) = n_threads_cur => Held = Active
<1>1. n_threads_cur \in Nat \ {0} /\ n_threads_cur <= MaxThreads /\ MaxThreads \in Nat
  BY BarrierAssumption DEF BarrierTypeOK
<1>2. IsFiniteSet(Active) /\ Cardinality(Active) = n_threads_cur
  BY <1>1, FS_Interval DEF Active
<1>3. Active \subseteq Threads /\ 0 \in Active
  BY <1>1 DEF Active, Threads
<1>4. Held \in SUBSET Active
  BY DEF Held
<1>5. IsFiniteSet(Held) /\ Cardinality(Held) <= Cardinality(Active)
      /\ (Cardinality(Active) = Cardinality(Held) => Active = Held)
  BY <1>2, <1>4, FS_Subset
<1>6. Cardinality(Held) \in Nat
  BY <1>5, FS_CardinalityType
<1>7. QED
  BY <1>2, <1>3, <1>4, <1>5, <1>6

-----------------------------------------------------------------------------
(***************************************************************************)
(* The initial state, then one lemma per action.                           *)
(***************************************************************************)

\* The pool starts with nobody at the barrier.
LEMMA InitInv == BarrierInit => Inv
<1> SUFFICES ASSUME BarrierInit PROVE Inv
  OBVIOUS
<1>1. BarrierTypeOK
  BY BarrierAssumption DEF BarrierInit, BarrierTypeOK, Out
<1>2. Active \subseteq Threads /\ Active # {}
  BY <1>1, HeldFinite
<1>3. Held = {}
  BY <1>2 DEF BarrierInit, Held
<1>4. Places /\ Outside /\ Opens
  BY <1>2 DEF BarrierInit, Places, PlaceOK, Outside, Opens, Out
<1>5. Counted
  BY <1>2, <1>3, FS_EmptySet DEF BarrierInit, Counted, Out
<1>6. NotFull
  BY <1>2, <1>3 DEF NotFull
<1>7. QED
  BY <1>1, <1>4, <1>5, <1>6 DEF Inv

\* A thread comes to the barrier.
LEMMA EnterInv == Inv /\ (\E t \in Active : Enter(t)) => Inv'
<1> SUFFICES ASSUME Inv, NEW t \in Active, Enter(t) PROVE Inv'
  OBVIOUS
<1> USE DEF Inv
<1>1. t \in Threads /\ Active' = Active /\ Held' = Held
  BY HeldFinite DEF Enter, Active, Held
<1>2. BarrierTypeOK'
  BY <1>1, BarrierAssumption DEF BarrierTypeOK, Enter
<1>3. \A u \in Threads : u # t => bar'[u] = bar[u]
  BY DEF Enter, BarrierTypeOK
<1>4. bar'[t] = [at |-> "read", n_threads |-> n_threads_cur, n_passed |-> n_barrier_passed]
  BY <1>1 DEF Enter, BarrierTypeOK
<1>5. Places'
  <2> SUFFICES ASSUME NEW u \in Active PROVE PlaceOK(u)'
    BY <1>1 DEF Places
  <2>1. PlaceOK(u) /\ u \in Threads
    BY <1>1, HeldFinite DEF Places
  <2>2. CASE u = t
    BY <2>1, <2>2, <1>4 DEF PlaceOK, Enter
  <2>3. CASE u # t
    BY <2>1, <2>3, <1>3 DEF PlaceOK, Enter
  <2>4. QED
    BY <2>2, <2>3
<1>6. Outside'
  BY <1>1, <1>3 DEF Outside, Enter
<1>7. \A u \in Active : bar[u].at \notin {"reset", "pass"}
  BY <1>1 DEF Opens, Enter
<1>8. \A u \in Active : bar'[u].at \notin {"reset", "pass"}
  BY <1>1, <1>3, <1>4, <1>7, HeldFinite
<1>9. Opens' /\ Counted' /\ NotFull'
  BY <1>1, <1>7, <1>8 DEF Opens, Counted, NotFull, Enter
<1>10. QED
  BY <1>2, <1>5, <1>6, <1>9

\* A thread counts itself; when it is the last, all others wait for it.
LEMMA ArriveInv == Inv /\ (\E t \in Active : Arrive(t)) => Inv'
<1> SUFFICES ASSUME Inv, NEW t \in Active, Arrive(t) PROVE Inv'
  OBVIOUS
<1> USE DEF Inv
<1> DEFINE last == n_barrier = bar[t].n_threads - 1
<1>1. t \in Threads /\ Active' = Active /\ Active \subseteq Threads
  BY HeldFinite DEF Arrive, Active
<1>2. n_barrier_passed \in Nat /\ n_threads_cur \in Nat /\ n_barrier \in Nat
      /\ arrived \in [Threads -> Nat]
  BY DEF BarrierTypeOK
<1>3. arrived[t] = n_barrier_passed /\ bar[t].n_threads = n_threads_cur
      /\ bar[t].n_passed = n_barrier_passed
  BY DEF Places, PlaceOK, Arrive
<1>4. \A u \in Active : bar[u].at \notin {"reset", "pass"}
  BY <1>1 DEF Opens, Arrive
<1>5. n_barrier = Cardinality(Held)
  BY <1>4 DEF Counted
<1>6. \A u \in Threads : u # t => bar'[u] = bar[u] /\ arrived'[u] = arrived[u]
  BY <1>1 DEF Arrive, BarrierTypeOK
<1>7. bar'[t] = [at |-> IF last THEN "reset" ELSE "wait", n_threads |-> bar[t].n_threads,
                 n_passed |-> bar[t].n_passed]
      /\ arrived'[t] = n_barrier_passed + 1
  BY <1>1, <1>3 DEF Arrive, BarrierTypeOK
<1>8. Held' = Held \cup {t} /\ t \notin Held
  BY <1>1, <1>2, <1>3, <1>6, <1>7 DEF Held, Arrive
<1>9. Cardinality(Held') = Cardinality(Held) + 1
  BY <1>8, HeldFinite, FS_AddElement
<1>10. BarrierTypeOK'
  <2>1. bar' \in [Threads -> [at : {"out", "read", "reset", "pass", "wait"},
                             n_threads : 0 .. MaxThreads, n_passed : Nat]]
    BY <1>1 DEF BarrierTypeOK, Arrive
  <2>2. arrived' \in [Threads -> Nat]
    BY <1>1 DEF BarrierTypeOK, Arrive
  <2>3. QED
    BY <2>1, <2>2 DEF BarrierTypeOK, Arrive
<1>11. Places'
  <2> SUFFICES ASSUME NEW u \in Active PROVE PlaceOK(u)'
    BY <1>1 DEF Places
  <2>1. PlaceOK(u) /\ u \in Threads
    BY <1>1 DEF Places
  <2>2. CASE u = t
    BY <2>2, <1>2, <1>3, <1>7 DEF PlaceOK, Arrive
  <2>3. CASE u # t
    BY <2>1, <2>3, <1>6 DEF PlaceOK, Arrive
  <2>4. QED
    BY <2>2, <2>3
<1>12. Outside'
  BY <1>1, <1>6 DEF Outside, Arrive
<1>13. CASE last
  <2>1. Cardinality(Held') = n_threads_cur
    BY <1>2, <1>3, <1>5, <1>9, <1>13
  <2>2. Held' = Active
    <3>1. Held' \in SUBSET Active
      BY <1>1 DEF Held
    <3>2. IsFiniteSet(Active) /\ Cardinality(Active) = n_threads_cur
      BY HeldFinite
    <3>3. QED
      BY <3>1, <3>2, <2>1, FS_Subset
  <2>3. \A u \in Active : u # t => u \in Held
    BY <2>2, <1>8
  <2>4. \A u \in Active : u # t => bar[u].at = "wait" /\ bar[u].n_passed = n_barrier_passed
    <3> SUFFICES ASSUME NEW u \in Active, u # t
                 PROVE  bar[u].at = "wait" /\ bar[u].n_passed = n_barrier_passed
      OBVIOUS
    <3>1. arrived[u] = n_barrier_passed + 1
      BY <2>3 DEF Held
    <3>2. bar[u].at \in {"out", "read", "reset", "pass", "wait"}
      BY <1>1 DEF BarrierTypeOK
    <3>3. PlaceOK(u)
      BY DEF Places
    <3>4. bar[u].at = "wait"
      BY <3>1, <3>2, <3>3, <1>2, <1>4 DEF PlaceOK
    <3>5. QED
      BY <3>1, <3>3, <3>4, <1>2 DEF PlaceOK
  <2>5. \A u \in Active : u # t => bar'[u].at = "wait" /\ bar'[u].n_passed = n_barrier_passed
    BY <2>4, <1>1, <1>6
  <2>6. bar'[t].at = "reset"
    BY <1>7, <1>13
  <2>7. Opens'
    BY <2>5, <2>6, <1>1 DEF Opens, Arrive
  <2>8. Counted' /\ NotFull'
    <3>1. n_barrier' = Cardinality(Held')
      BY <1>5, <1>9 DEF Arrive
    <3>2. \A u \in Active : bar'[u].at # "pass"
      BY <2>5, <2>6
    <3>3. QED
      BY <3>1, <3>2, <2>6, <1>1 DEF Counted, NotFull
  <2>9. QED
    BY <1>10, <1>11, <1>12, <2>7, <2>8
<1>14. CASE ~last
  <2>1. \A u \in Active : bar'[u].at \notin {"reset", "pass"}
    BY <1>1, <1>4, <1>6, <1>7, <1>14
  <2>2. Held' # Active
    BY <1>2, <1>3, <1>5, <1>9, <1>14, HeldFinite
  <2>3. n_barrier' = Cardinality(Held')
    BY <1>5, <1>9 DEF Arrive
  <2>4. Opens' /\ Counted' /\ NotFull'
    BY <2>1, <2>2, <2>3, <1>1 DEF Opens, Counted, NotFull
  <2>5. QED
    BY <1>10, <1>11, <1>12, <2>4
<1>15. QED
  BY <1>13, <1>14

\* The last thread resets the counter: it still holds the others.
LEMMA ResetInv == Inv /\ (\E t \in Active : Reset(t)) => Inv'
<1> SUFFICES ASSUME Inv, NEW t \in Active, Reset(t) PROVE Inv'
  OBVIOUS
<1> USE DEF Inv
<1>1. t \in Threads /\ Active' = Active /\ Held' = Held /\ Active \subseteq Threads
  BY HeldFinite DEF Reset, Active, Held
<1>2. BarrierTypeOK'
  BY <1>1 DEF BarrierTypeOK, Reset
<1>3. \A u \in Threads : u # t => bar'[u] = bar[u]
  BY DEF Reset, BarrierTypeOK
<1>4. bar'[t].at = "pass"
  BY <1>1 DEF Reset, BarrierTypeOK
<1>5. Places'
  <2> SUFFICES ASSUME NEW u \in Active PROVE PlaceOK(u)'
    BY <1>1 DEF Places
  <2>1. PlaceOK(u) /\ u \in Threads
    BY <1>1 DEF Places
  <2>2. CASE u = t
    BY <2>1, <2>2, <1>4 DEF PlaceOK, Reset
  <2>3. CASE u # t
    BY <2>1, <2>3, <1>3 DEF PlaceOK, Reset
  <2>4. QED
    BY <2>2, <2>3
<1>6. Outside'
  BY <1>1, <1>3 DEF Outside, Reset
<1>7. \A u \in Active : u # t => bar[u].at = "wait" /\ bar[u].n_passed = n_barrier_passed
  BY DEF Opens, Reset
<1>8. \A u \in Active : u # t => bar'[u].at = "wait" /\ bar'[u].n_passed = n_barrier_passed
  BY <1>1, <1>3, <1>7
<1>9. Opens' /\ Counted' /\ NotFull'
  BY <1>1, <1>4, <1>8 DEF Opens, Counted, NotFull, Reset
<1>10. QED
  BY <1>2, <1>5, <1>6, <1>9

\* The last thread lets all others go.
LEMMA PassInv == Inv /\ (\E t \in Active : Pass(t)) => Inv'
<1> SUFFICES ASSUME Inv, NEW t \in Active, Pass(t) PROVE Inv'
  OBVIOUS
<1> USE DEF Inv
<1>1. t \in Threads /\ Active' = Active /\ Active \subseteq Threads
  BY HeldFinite DEF Pass, Active
<1>2. n_barrier_passed \in Nat /\ n_barrier_passed' = n_barrier_passed + 1 /\ arrived' = arrived
      /\ n_threads_cur' = n_threads_cur /\ n_barrier' = n_barrier
  BY DEF Pass, BarrierTypeOK
<1>3. BarrierTypeOK'
  BY <1>1, <1>2, BarrierAssumption DEF BarrierTypeOK, Pass, Out
<1>4. \A u \in Threads : u # t => bar'[u] = bar[u]
  BY DEF Pass, BarrierTypeOK
<1>5. bar'[t] = Out
  BY <1>1 DEF Pass, BarrierTypeOK
<1>6. \A u \in Active : u # t => bar[u].at = "wait" /\ bar[u].n_passed = n_barrier_passed
  BY DEF Opens, Pass
<1>7. \A u \in Active : arrived[u] = n_barrier_passed + 1
  BY <1>2, <1>6 DEF Places, PlaceOK, Pass
<1>8. Held' = {}
  BY <1>1, <1>2, <1>7 DEF Held
<1>9. Places'
  <2> SUFFICES ASSUME NEW u \in Active PROVE PlaceOK(u)'
    BY <1>1 DEF Places
  <2>1. CASE u = t
    BY <2>1, <1>2, <1>5, <1>7 DEF PlaceOK, Out
  <2>2. CASE u # t
    BY <2>2, <1>1, <1>2, <1>4, <1>6, <1>7 DEF PlaceOK
  <2>3. QED
    BY <2>1, <2>2
<1>10. Outside'
  <2> SUFFICES ASSUME NEW u \in Threads \ Active
               PROVE  bar'[u].at = "out" \/ (bar'[u].at = "wait" /\ bar'[u].n_passed < n_barrier_passed')
    BY <1>1 DEF Outside
  <2>1. bar'[u] = bar[u] /\ bar[u].n_passed \in Nat
    BY <1>4 DEF BarrierTypeOK
  <2>2. QED
    BY <2>1, <1>2 DEF Outside
<1>11. \A u \in Active : bar'[u].at \notin {"reset", "pass"}
  BY <1>1, <1>4, <1>5, <1>6 DEF Out
<1>12. Opens' /\ Counted' /\ NotFull'
  <2>1. n_barrier = 0
    BY DEF Counted, Pass
  <2>2. Active # {}
    OBVIOUS
  <2>3. QED
    BY <2>1, <2>2, <1>1, <1>2, <1>8, <1>11, FS_EmptySet DEF Opens, Counted, NotFull
<1>13. QED
  BY <1>3, <1>9, <1>10, <1>12

\* A released thread goes on, whether the current graph uses it or not.
LEMMA LeaveInv == Inv /\ (\E t \in Threads : Leave(t)) => Inv'
<1> SUFFICES ASSUME Inv, NEW t \in Threads, Leave(t) PROVE Inv'
  OBVIOUS
<1> USE DEF Inv
<1>1. Active' = Active /\ Held' = Held /\ Active \subseteq Threads
  BY HeldFinite DEF Leave, Active, Held
<1>2. BarrierTypeOK'
  BY <1>1, BarrierAssumption DEF BarrierTypeOK, Leave, Out
<1>3. \A u \in Threads : u # t => bar'[u] = bar[u]
  BY DEF Leave, BarrierTypeOK
<1>4. bar'[t] = Out
  BY <1>1 DEF Leave, BarrierTypeOK
<1>5. bar[t].at = "wait" /\ bar[t].n_passed # n_barrier_passed
  BY DEF Leave, Released
<1>6. Places'
  <2> SUFFICES ASSUME NEW u \in Active PROVE PlaceOK(u)'
    BY <1>1 DEF Places
  <2>1. PlaceOK(u) /\ u \in Threads
    BY <1>1 DEF Places
  <2>2. CASE u = t
    BY <2>1, <2>2, <1>4, <1>5 DEF PlaceOK, Leave, Out
  <2>3. CASE u # t
    BY <2>1, <2>3, <1>3 DEF PlaceOK, Leave
  <2>4. QED
    BY <2>2, <2>3
<1>7. Outside'
  BY <1>1, <1>3, <1>4 DEF Outside, Leave, Out
<1>8. \A u \in Active : bar[u].at \in {"reset", "pass"} <=> bar'[u].at \in {"reset", "pass"}
  BY <1>1, <1>3, <1>4, <1>5 DEF Out
<1>9. \A u \in Active : bar[u].at = "pass" <=> bar'[u].at = "pass"
  BY <1>1, <1>3, <1>4, <1>5 DEF Out
<1>10. Opens'
  <2> SUFFICES ASSUME NEW a \in Active, NEW u \in Active, bar'[a].at \in {"reset", "pass"}, u # a
               PROVE  bar'[u].at = "wait" /\ bar'[u].n_passed = n_barrier_passed
    BY <1>1 DEF Opens, Leave
  <2>1. bar[u].at = "wait" /\ bar[u].n_passed = n_barrier_passed
    BY <1>8 DEF Opens
  <2>2. u # t
    BY <2>1, <1>5
  <2>3. QED
    BY <2>1, <2>2, <1>1, <1>3
<1>11. Counted' /\ NotFull'
  BY <1>1, <1>8, <1>9 DEF Counted, NotFull, Leave
<1>12. QED
  BY <1>2, <1>6, <1>7, <1>10, <1>11

\* The next graph has another number of threads: nobody is held, so that the
\* counter is back at zero.
LEMMA SetThreadsInv == Inv /\ Quiet /\ (\E n \in 1 .. MaxThreads : SetThreads(n)) => Inv'
<1> SUFFICES ASSUME Inv, Quiet, NEW n \in 1 .. MaxThreads, SetThreads(n) PROVE Inv'
  OBVIOUS
<1> USE DEF Inv
<1>1. Active \subseteq Threads /\ Active # {}
  BY HeldFinite
<1>2. Active' \subseteq Threads /\ Active' # {}
  <2>1. Active' = 0 .. n - 1
    BY DEF SetThreads, Active
  <2>2. 0 \in 0 .. n - 1 /\ 0 .. n - 1 \subseteq Threads
    BY BarrierAssumption DEF Threads
  <2>3. QED
    BY <2>1, <2>2
<1>3. BarrierTypeOK'
  BY DEF BarrierTypeOK, SetThreads
<1>4. n_barrier_passed \in Nat /\ n_barrier_passed' = n_barrier_passed /\ bar' = bar
      /\ n_barrier' = n_barrier /\ \A t \in Threads : arrived'[t] = n_barrier_passed
  BY DEF SetThreads, BarrierTypeOK
<1>5. \A t \in Threads :
         bar[t].at = "out" \/ (bar[t].at = "wait" /\ bar[t].n_passed < n_barrier_passed)
  <2> SUFFICES ASSUME NEW t \in Threads
               PROVE  bar[t].at = "out" \/ (bar[t].at = "wait" /\ bar[t].n_passed < n_barrier_passed)
    OBVIOUS
  <2>1. CASE t \in Active
    <3>1. PlaceOK(t) /\ bar[t].n_passed \in Nat
      BY <2>1 DEF Places, BarrierTypeOK
    <3>2. QED
      BY <3>1, <1>4 DEF Quiet, Released, PlaceOK
  <2>2. CASE t \notin Active
    BY <2>2 DEF Outside
  <2>3. QED
    BY <2>1, <2>2
<1>6. Held = {}
  <2> SUFFICES ASSUME NEW t \in Active PROVE arrived[t] # n_barrier_passed + 1
    BY DEF Held
  <2>1. PlaceOK(t) /\ t \in Threads
    BY <1>1 DEF Places
  <2>2. QED
    BY <2>1, <1>4, <1>5 DEF PlaceOK
<1>7. n_barrier = 0
  BY <1>1, <1>5, <1>6, FS_EmptySet DEF Counted
<1>8. Held' = {}
  BY <1>2, <1>4 DEF Held
<1>9. Places'
  <2> SUFFICES ASSUME NEW t \in Threads PROVE PlaceOK(t)'
    BY <1>2 DEF Places
  <2>1. bar[t].n_passed \in Nat
    BY DEF BarrierTypeOK
  <2>2. QED
    BY <2>1, <1>4, <1>5 DEF PlaceOK
<1>10. Outside'
  BY <1>4, <1>5 DEF Outside
<1>11. Opens' /\ Counted' /\ NotFull'
  BY <1>2, <1>4, <1>5, <1>7, <1>8, FS_EmptySet DEF Opens, Counted, NotFull
<1>12. QED
  BY <1>3, <1>9, <1>10, <1>11

\* Only active threads are between their arrival and their release.
LEMMA OnlyActive ==
    ASSUME Inv, NEW t \in Threads, bar[t].at \in {"read", "reset", "pass"}
    PROVE  t \in Active
BY DEF Inv, Outside

\* Every step keeps the invariant.
LEMMA NextInv == Inv /\ [BarrierNext]_barrierVars => Inv'
<1> SUFFICES ASSUME Inv, [BarrierNext]_barrierVars PROVE Inv'
  OBVIOUS
<1>1. CASE \E t \in Active : Enter(t)
  BY <1>1, EnterInv
<1>2. CASE \E t \in Threads : Arrive(t)
  <2>1. \E t \in Active : Arrive(t)
    BY <1>2, OnlyActive DEF Arrive
  <2>2. QED
    BY <2>1, ArriveInv
<1>3. CASE \E t \in Threads : Reset(t)
  <2>1. \E t \in Active : Reset(t)
    BY <1>3, OnlyActive DEF Reset
  <2>2. QED
    BY <2>1, ResetInv
<1>4. CASE \E t \in Threads : Pass(t)
  <2>1. \E t \in Active : Pass(t)
    BY <1>4, OnlyActive DEF Pass
  <2>2. QED
    BY <2>1, PassInv
<1>5. CASE \E t \in Threads : Leave(t)
  BY <1>5, LeaveInv
<1>6. CASE Quiet /\ \E n \in 1 .. MaxThreads : SetThreads(n)
  BY <1>6, SetThreadsInv
<1>7. CASE UNCHANGED barrierVars
  BY <1>7 DEF barrierVars, Inv, BarrierTypeOK, Places, PlaceOK, Outside, Opens, Counted,
              NotFull, Held, Active
<1>8. QED
  BY <1>1, <1>2, <1>3, <1>4, <1>5, <1>6, <1>7 DEF BarrierNext

-----------------------------------------------------------------------------

\* The invariant holds in every state.
THEOREM BarrierInv == BarrierSpec => []Inv
BY InitInv, NextInv, PTL DEF BarrierSpec

\* No thread leaves a barrier before all the others have arrived at it.
THEOREM BarrierHolds == BarrierSpec => []NobodyLeftBehind
<1>1. Inv => NobodyLeftBehind
  <2> SUFFICES ASSUME Inv, NEW t \in Active, NEW u \in Active, bar[t].at = "out"
               PROVE  arrived[u] >= arrived[t]
    BY DEF NobodyLeftBehind
  <2>1. PlaceOK(t) /\ PlaceOK(u) /\ u \in Threads
    BY HeldFinite DEF Inv, Places
  <2>2. n_barrier_passed \in Nat /\ bar[u].n_passed \in Nat
        /\ bar[u].at \in {"out", "read", "reset", "pass", "wait"}
    BY <2>1 DEF Inv, BarrierTypeOK
  <2>3. arrived[t] = n_barrier_passed
    BY <2>1 DEF PlaceOK
  <2>4. arrived[u] \in {n_barrier_passed, n_barrier_passed + 1}
    BY <2>1, <2>2 DEF PlaceOK
  <2>5. QED
    BY <2>2, <2>3, <2>4
<1>2. QED
  BY <1>1, BarrierInv, PTL

\* One thread opens the barrier, and every other one is waiting for it.
THEOREM BarrierOpensOnce == BarrierSpec => []OneOpens
<1>1. Inv => OneOpens
  BY DEF Inv, Opens, OneOpens, Released
<1>2. QED
  BY <1>1, BarrierInv, PTL

-----------------------------------------------------------------------------
(* The pool.                                                               *)

\* Where a worker is outside ggml_graph_compute_thread(), ...
Away == {"pause", "pause_lock", "pause_wait", "pause_wake", "stop", "exited", "active", "poll",
         "poll_new", "lock", "asleep"}

\* ... where the main thread is outside a graph, ...
Between == {"idle", "kick", "kick_graph", "join", "freed"}

\* ... where any thread is in it, and where it waits for the others.
Inside == {"begin", "node", "mul_mat", "mul_mat_barrier", "part", "next_chunk", "node_done",
           "barrier", "last_barrier"}
Barriers == {"mul_mat_barrier", "barrier", "last_barrier"}

\* The barriers of a graph: the one in the matrix product of node k, the one after
\* node k, the one at the end, and none of them.
Mul(k) == <<k, "mul">>
Last == <<NNodes, "last">>
Rest == <<NNodes, "rest">>
End(k) == IF k + 1 < NNodes THEN <<k, "end">> ELSE Last

\* The loop over the nodes ends before node k.
Leaving(k) == k = NNodes \/ abort = k

\* The first barrier of a thread that comes to node k
From(k) == IF Leaving(k) THEN Last ELSE IF k \in MulMats THEN Mul(k) ELSE End(k)

\* A worker that has left the computation, or has only to walk out of its last
\* barrier.
Gone(w) == pc[w] \in Away \/ (pc[w] = "last_barrier" /\ Released(w))

\* A thread that has the whole graph before it: a worker that has not seen it yet,
\* or a thread that is about to begin.
Fresh(t) == \/ t # 0 /\ Gone(t) /\ local[t].last_graph # n_graph
            \/ pc[t] \in {"kick_wake", "begin"}

\* The next barrier a thread comes to, or waits at without being let out.
NextBarrier(t) ==
    LET k == local[t].node IN
    IF Fresh(t) THEN From(0) ELSE
    CASE pc[t] = "node" -> From(k)
      [] pc[t] = "mul_mat" -> Mul(k)
      [] pc[t] = "mul_mat_barrier" -> IF Released(t) THEN End(k) ELSE Mul(k)
      [] pc[t] \in {"part", "next_chunk", "node_done"} -> End(k)
      [] pc[t] = "barrier" -> IF Released(t) THEN From(k + 1) ELSE End(k)
      [] pc[t] = "last_barrier" /\ ~Released(t) -> Last
      [] OTHER -> Rest

Lockstep == \A t \in Active : NextBarrier(t) = NextBarrier(0)

Locals == [last_graph : Nat, new_graph : Nat, graph : Nat, nth : Nat,
           node : 0 .. NNodes, chunk : Nat]

PoolType ==
    /\ n_graph \in Nat /\ stop \in BOOLEAN /\ pause \in BOOLEAN
    /\ abort \in {-1} \cup 1 .. NNodes /\ ec \in {"success", "aborted"}
    /\ current_chunk \in Nat /\ cgraph \in Nat
    /\ pc \in [Threads -> Away \cup Between \cup {"kick_wake"} \cup Inside]
    /\ pc[0] \notin Away
    /\ \A w \in Workers : pc[w] \in Away \cup Inside
    /\ local \in [Threads -> Locals]
    /\ parts \in SUBSET ((0 .. NNodes - 1) \X Nat)

\* The main thread tells the others where to stop, and finds that itself at the
\* next node: the node it stops at is never behind it.
AbortOK ==
    /\ pc[0] \in {"kick", "kick_graph", "kick_wake", "begin", "mul_mat", "mul_mat_barrier", "part",
                  "next_chunk", "node_done"} => abort = -1
    /\ pc[0] = "node" => abort \in {-1, local[0].node}
    /\ pc[0] = "barrier" => abort \in {-1, local[0].node + 1}

MainOK ==
    /\ n_graph <= MaxGraphs
    /\ cgraph = IF pc[0] \in {"kick", "kick_graph"} THEN n_graph + 1 ELSE n_graph
    /\ pc[0] \in {"kick", "kick_graph"} => n_graph < MaxGraphs
    /\ AbortOK

\* An active worker in the computation has seen the graph, and one that has found
\* a new graph while it polled has found this one.
WorkerOK(w) ==
    /\ local[w].last_graph <= n_graph /\ local[w].new_graph <= n_graph
    /\ w \in Active =>
          /\ ~Gone(w) => local[w].last_graph = n_graph
          /\ pc[w] = "poll_new" => local[w].new_graph = n_graph /\ local[w].last_graph # n_graph

\* What a thread has read when it began is still so, and it is at a step its node
\* has.
VariablesOK(t) == LET l == local[t] IN
    /\ pc[t] \in Inside \ {"begin"} /\ ~Gone(t) =>
          l.graph = cgraph /\ l.nth = n_threads_cur
    /\ pc[t] \in Inside \ {"begin", "node", "last_barrier"} => l.node < NNodes
    /\ pc[t] = "last_barrier" /\ ~Released(t) => Leaving(l.node)
    /\ pc[t] = "barrier" => l.node + 1 < NNodes
    /\ pc[t] \in {"mul_mat", "mul_mat_barrier"} => l.node \in MulMats /\ l.chunk = t
    /\ pc[t] = "next_chunk" => l.node \in MulMats /\ l.nth < Chunks
    /\ pc[t] = "part" /\ ~(l.node \in MulMats /\ l.nth < Chunks) => l.chunk = t

ThreadOK(t) ==
    /\ bar[t].at # "out" => pc[t] \in Barriers
    /\ t \notin Active => Gone(t)
    /\ t \in Active => VariablesOK(t)

\* The first layer: where the threads are.  Inv is the invariant of the barrier.
Control ==
    /\ Inv /\ PoolType /\ MainOK
    /\ \A t \in Threads : ThreadOK(t)
    /\ \A w \in Workers : WorkerOK(w)
    /\ Lockstep

-----------------------------------------------------------------------------
(* Facts the proofs keep needing, and the steps that move one thread.      *)

\* Different barriers have different names.
LEMMA Distinct ==
    /\ \A k, m \in 0 .. NNodes - 1 :
          /\ Mul(k) = Mul(m) => k = m
          /\ End(k) = End(m) => k = m
          /\ Mul(k) # End(m)
    /\ \A k \in 0 .. NNodes - 1 : Mul(k) \notin {Last, Rest} /\ End(k) # Rest
                                  /\ (End(k) = Last <=> k + 1 = NNodes)
    /\ Last # Rest
BY ThreadPoolAssumption DEF Mul, End, Last, Rest

\* The main thread is active, and every other thread is a worker.
LEMMA ThreadFacts ==
    ASSUME BarrierTypeOK
    PROVE  /\ 0 \in Active /\ 0 \in Threads /\ Active \subseteq Threads
           /\ Workers \subseteq Threads /\ 0 \notin Workers
           /\ \A t \in Threads : t = 0 \/ t \in Workers
           /\ MaxThreads \in Nat /\ n_threads_cur \in Nat /\ n_threads_cur > 0
           /\ \A t \in Threads : t \in Nat
BY BarrierAssumption DEF BarrierTypeOK, Active, Threads, Workers

\* A step of one thread
LEMMA LocalStep ==
    ASSUME Control, NEW t \in Threads, Inv', PoolType', MainOK',
           UNCHANGED <<n_threads_cur, n_barrier_passed, n_graph, cgraph, abort>>,
           \A u \in Threads \ {t} : pc'[u] = pc[u] /\ local'[u] = local[u] /\ bar'[u] = bar[u],
           ThreadOK(t)', t # 0 => WorkerOK(t)',
           t \in Active => NextBarrier(t)' = NextBarrier(t) \/ Active = {0}
    PROVE  Control'
<1> USE DEF Control
<1>1. BarrierTypeOK
  BY DEF Inv
<1>2. Active' = Active
  BY DEF Active
<1>3. ASSUME NEW u \in Threads \ {t}
      PROVE  /\ Released(u)' = Released(u) /\ Gone(u)' = Gone(u) /\ Fresh(u)' = Fresh(u)
             /\ NextBarrier(u)' = NextBarrier(u)
  <2>1. Released(u)' = Released(u)
    BY <1>3 DEF Released
  <2>2. Gone(u)' = Gone(u)
    BY <1>3, <2>1 DEF Gone
  <2>3. Fresh(u)' = Fresh(u)
    BY <1>3, <2>2 DEF Fresh
  <2>4. NextBarrier(u)' = NextBarrier(u)
    BY <1>3, <2>1, <2>3 DEF NextBarrier, From, Leaving
  <2> QED BY <2>1, <2>2, <2>3, <2>4
<1>4. \A u \in Threads \ {t} : ThreadOK(u)'
  BY <1>2, <1>3 DEF VariablesOK, ThreadOK, Leaving
<1>5. \A w \in Workers \ {t} : WorkerOK(w)'
  BY <1>1, <1>2, <1>3, ThreadFacts DEF WorkerOK
<1>6. Lockstep'
  <2>1. CASE t \notin Active
    BY <2>1, <1>1, <1>2, <1>3, ThreadFacts DEF Lockstep
  <2>2. CASE t \in Active /\ NextBarrier(t)' = NextBarrier(t)
    BY <2>2, <1>1, <1>2, <1>3, ThreadFacts DEF Lockstep
  <2>3. CASE Active = {0}
    BY <2>3, <1>2 DEF Lockstep
  <2> QED BY <2>1, <2>2, <2>3
<1> QED BY <1>1, <1>4, <1>5, <1>6, ThreadFacts

\* The pool is made with every worker at its pause loop, or about to poll.
LEMMA InitControl == Init => Control
<1> SUFFICES ASSUME Init PROVE Control
  OBVIOUS
<1>1. Inv
  BY InitInv DEF Init
<1>2. BarrierTypeOK
  BY <1>1 DEF Inv
<1>3. PoolType
  <2>1. pc \in [Threads -> Away \cup Between \cup {"kick_wake"} \cup Inside]
        /\ pc[0] \notin Away /\ \A w \in Workers : pc[w] \in Away \cup Inside
    BY <1>2, ThreadFacts DEF Init, Away, Between, Inside
  <2>2. local \in [Threads -> Locals]
    BY ThreadPoolAssumption DEF Init, Locals
  <2> QED BY <2>1, <2>2, ThreadPoolAssumption DEF Init, PoolType
<1>4. MainOK
  BY <1>2, ThreadFacts, ThreadPoolAssumption DEF Init, AbortOK, MainOK
<1>5. \A t \in Threads : bar[t].at = "out" /\ t \in Active
  BY <1>2 DEF Init, BarrierInit, Out, Active, Threads
<1>6. \A t \in Threads : ThreadOK(t)
  BY <1>5 DEF Init, VariablesOK, ThreadOK, Inside, Away, Barriers
<1>7. \A w \in Workers : WorkerOK(w)
  BY <1>2, ThreadFacts DEF Init, WorkerOK, Gone, Away
<1>8. \A t \in Threads : NextBarrier(t) = Rest
  BY <1>2, ThreadFacts DEF Init, NextBarrier, Fresh, Gone, Away
<1>9. Lockstep
  BY <1>8, <1>2, ThreadFacts DEF Lockstep
<1> QED BY <1>1, <1>3, <1>4, <1>6, <1>7, <1>9 DEF Control

\* A step of one thread that leaves the barrier, the graph and the abort alone.
LEMMA QuietStep ==
    ASSUME Control, NEW t \in Threads, NEW where, Goto(t, where),
           UNCHANGED <<barrierVars, n_graph, cgraph, abort>>,
           stop' \in BOOLEAN, pause' \in BOOLEAN, ec' \in {"success", "aborted"},
           current_chunk' \in Nat, parts' \in SUBSET ((0 .. NNodes - 1) \X Nat),
           local' \in [Threads -> Locals], \A u \in Threads \ {t} : local'[u] = local[u],
           IF t = 0 THEN where \in Between \cup {"kick_wake"} \cup Inside ELSE where \in Away \cup Inside,
           MainOK', ThreadOK(t)', t # 0 => WorkerOK(t)',
           t \in Active => NextBarrier(t)' = NextBarrier(t) \/ Active = {0}
    PROVE  Control'
<1> USE DEF Control
<1>1. BarrierTypeOK
  BY DEF Inv
<1>2. Inv'
  BY NextInv
<1>3. \A u \in Threads \ {t} : pc'[u] = pc[u] /\ bar'[u] = bar[u]
  BY DEF Goto, PoolType, barrierVars
<1>4. PoolType'
  <2>1. pc' \in [Threads -> Away \cup Between \cup {"kick_wake"} \cup Inside]
    BY DEF Goto, PoolType
  <2>2. pc'[0] \notin Away
    BY <1>1, ThreadFacts DEF Goto, PoolType, Away, Between, Inside
  <2>3. \A w \in Workers : pc'[w] \in Away \cup Inside
    BY <1>1, ThreadFacts DEF Goto, PoolType
  <2> QED BY <2>1, <2>2, <2>3 DEF PoolType
<1> QED BY <1>2, <1>3, <1>4, LocalStep DEF barrierVars

\* Goto() moves one thread.
LEMMA MovedTo ==
    ASSUME PoolType, NEW t \in Threads, NEW where, Goto(t, where)
    PROVE  pc'[t] = where /\ \A u \in Threads \ {t} : pc'[u] = pc[u]
BY DEF Goto, PoolType

\* Who is active and who is let out is the barrier's business.
LEMMA SameBarrier ==
    ASSUME UNCHANGED barrierVars
    PROVE  Active' = Active /\ \A t : Released(t)' = Released(t)
BY DEF barrierVars, Active, Released

\* A worker that moves about outside the computation
LEMMA IdlingControl ==
    ASSUME Control, NEW w \in Workers, NEW from \in Away, NEW to \in Away \ {"poll_new"},
           Idling(w, from, to)
    PROVE  Control'
<1> USE DEF Control
<1>1. BarrierTypeOK
  BY DEF Inv
<1>2. w \in Threads /\ w # 0 /\ 0 \in Threads
  BY <1>1, ThreadFacts
<1>3. UNCHANGED <<barrierVars, pool, work, local>> /\ pc[w] = from /\ Goto(w, to)
  BY DEF Idling
<1>4. pc'[w] = to /\ pc'[0] = pc[0]
  BY <1>2, <1>3, MovedTo
<1>5. Gone(w) /\ Gone(w)' /\ Fresh(w)' = Fresh(w)
  BY <1>2, <1>3, <1>4 DEF Gone, Fresh, pool, Away
<1>6. NextBarrier(w)' = NextBarrier(w)
  BY <1>3, <1>4, <1>5 DEF NextBarrier, From, Leaving, Away, work
<1>7. ThreadOK(w)'
  <2>1. bar[w].at = "out"
    BY <1>2, <1>3 DEF VariablesOK, ThreadOK, Barriers, Away
  <2> QED BY <2>1, <1>3, <1>4, <1>5 DEF VariablesOK, ThreadOK, Inside, Away, barrierVars
<1>8. WorkerOK(w)'
  BY <1>3, <1>4, <1>5, SameBarrier DEF WorkerOK, pool
<1>9. MainOK'
  BY <1>3, <1>4 DEF AbortOK, MainOK, pool, work
<1> QED BY <1>2, <1>3, <1>6, <1>7, <1>8, <1>9, QuietStep DEF pool, work, PoolType

\* The pause loop, the stop flag and the choice to poll are such steps.
LEMMA WaitingControl ==
    ASSUME Control, NEW w \in Workers, PauseLoop(w) \/ StopCheck(w) \/ PollCheck(w)
    PROVE  Control'
<1>1. PICK from \in Away, to \in Away \ {"poll_new"} : Idling(w, from, to)
  <2>1. /\ {"pause", "pause_lock", "pause_wait", "pause_wake", "stop", "active"} \subseteq Away
        /\ {"pause", "pause_lock", "pause_wait", "stop", "exited", "active", "poll", "lock"}
              \subseteq Away \ {"poll_new"}
    BY DEF Away
  <2> QED BY <2>1 DEF PauseLoop, StopCheck, PollCheck
<1> QED BY <1>1, IdlingControl

\* What a worker knows of the graph it has come for.
LEMMA SeenLocal ==
    ASSUME PoolType, NEW w \in Threads, NEW graph \in Nat, Seen(w, graph)
    PROVE  /\ local' \in [Threads -> Locals]
           /\ local'[w] = [local[w] EXCEPT !.last_graph = graph, !.new_graph = 0]
           /\ local'[w].last_graph = graph /\ local'[w].new_graph = 0
           /\ \A u \in Threads \ {w} : local'[u] = local[u]
BY DEF Seen, PoolType, Locals

\* A worker that is away sees graph, and begins to compute or stays away.
LEMMA SeenControl ==
    ASSUME Control, NEW w \in Workers, pc[w] \in Away,
           NEW where \in (Away \ {"poll_new"}) \cup {"begin"}, Goto(w, where),
           NEW graph \in Nat, graph <= n_graph, Seen(w, graph), UNCHANGED <<barrierVars, pool, work>>,
           IsActive(w) => graph = n_graph /\ local[w].last_graph # n_graph /\ where = "begin",
           ~ IsActive(w) => where # "begin"
    PROVE  Control'
<1> USE DEF Control
<1>1. BarrierTypeOK
  BY DEF Inv
<1>2. w \in Threads /\ w # 0 /\ 0 \in Threads /\ (w \in Active <=> IsActive(w))
  BY <1>1, ThreadFacts DEF IsActive, Active
<1>3. pc'[w] = where /\ pc'[0] = pc[0]
  BY <1>2, MovedTo
<1>4. /\ local' \in [Threads -> Locals] /\ local'[w].last_graph = graph
      /\ \A u \in Threads \ {w} : local'[u] = local[u]
  BY <1>2, SeenLocal
<1>5. w \in Active => NextBarrier(w) = From(0) /\ NextBarrier(w)' = From(0)
  <2> SUFFICES ASSUME w \in Active PROVE NextBarrier(w) = From(0) /\ NextBarrier(w)' = From(0)
    OBVIOUS
  <2>1. Fresh(w) /\ Fresh(w)'
    BY <1>2, <1>3 DEF Fresh, Gone
  <2>2. NextBarrier(w) = From(0)
    BY <2>1 DEF NextBarrier
  <2>3. NextBarrier(w)' = From(0)'
    BY <2>1 DEF NextBarrier
  <2>4. From(0)' = From(0)
    BY DEF From, Leaving, work
  <2> QED BY <2>2, <2>3, <2>4
<1>6. bar[w].at = "out"
  BY <1>2 DEF VariablesOK, ThreadOK, Barriers, Away
<1>7. ThreadOK(w)'
  BY <1>2, <1>3, <1>6, SameBarrier DEF VariablesOK, ThreadOK, Inside, Gone, barrierVars
<1>8. WorkerOK(w)'
  <2>1. local'[w].new_graph = 0
    BY <1>2, SeenLocal
  <2>2. pc'[w] # "poll_new" /\ n_graph' = n_graph /\ n_graph \in Nat /\ Active' = Active
    BY <1>3, SameBarrier DEF pool, Away, PoolType
  <2>3. w \in Active => local'[w].last_graph = n_graph
    BY <1>2, <1>4
  <2> QED BY <2>1, <2>2, <2>3, <1>4 DEF WorkerOK
<1>9. MainOK'
  BY <1>2, <1>3, <1>4 DEF AbortOK, MainOK, pool, work
<1>10. where \in Away \cup Inside
  BY DEF Inside
<1> QED
  BY <1>2, <1>4, <1>5, <1>7, <1>8, <1>9, <1>10, QuietStep DEF pool, work, PoolType

\* A worker that polls sees the graph of now, and cannot see a later one before it
\* has taken part in this one.
LEMMA PollControl ==
    ASSUME Control, NEW w \in Workers, Poll(w)
    PROVE  Control'
<1> USE DEF Control
<1>1. BarrierTypeOK
  BY DEF Inv
<1>2. w \in Threads /\ w # 0 /\ 0 \in Threads
  BY <1>1, ThreadFacts
<1>3. pc[w] = "poll" /\ UNCHANGED <<barrierVars, pool, work>>
  BY DEF Poll
<1>4. CASE UNCHANGED local /\ Goto(w, "lock")
  <2>1. Idling(w, "poll", "lock")
    BY <1>3, <1>4 DEF Idling
  <2> QED BY <2>1, IdlingControl DEF Away
<1>5. CASE n_graph # local[w].last_graph
           /\ local' = [local EXCEPT ![w].new_graph = n_graph] /\ Goto(w, "poll_new")
  <2>1. pc'[w] = "poll_new" /\ pc'[0] = pc[0]
    BY <1>2, <1>5, MovedTo
  <2>2. /\ local' \in [Threads -> Locals] /\ local'[w].last_graph = local[w].last_graph
        /\ local'[w].new_graph = n_graph /\ \A u \in Threads \ {w} : local'[u] = local[u]
    BY <1>2, <1>5 DEF PoolType, Locals
  <2>3. Gone(w) /\ Gone(w)' /\ Fresh(w) /\ Fresh(w)'
    BY <1>2, <1>3, <1>5, <2>1, <2>2 DEF Gone, Fresh, pool, Away
  <2>4. NextBarrier(w)' = NextBarrier(w)
    BY <1>3, <2>3 DEF NextBarrier, From, Leaving, work
  <2>5. bar[w].at = "out"
    BY <1>2, <1>3 DEF VariablesOK, ThreadOK, Barriers
  <2>6. ThreadOK(w)'
    BY <1>3, <2>1, <2>3, <2>5 DEF VariablesOK, ThreadOK, Inside, barrierVars
  <2>7. WorkerOK(w)'
    BY <1>1, <1>2, <1>3, <1>5, <2>2, <2>3, SameBarrier, ThreadFacts DEF WorkerOK, pool, PoolType
  <2>8. MainOK'
    BY <1>2, <1>3, <2>1, <2>2 DEF AbortOK, MainOK, pool, work
  <2> QED
    BY <1>2, <1>3, <1>5, <2>2, <2>4, <2>6, <2>7, <2>8, QuietStep DEF pool, work, PoolType, Away
<1> QED BY <1>4, <1>5 DEF Poll

\* It looks at the number of threads after it has seen the graph: the number was
\* stored before the graph.
LEMMA PollNewControl ==
    ASSUME Control, NEW w \in Workers, PollNew(w)
    PROVE  Control'
<1> USE DEF Control
<1>1. BarrierTypeOK
  BY DEF Inv
<1>2. w \in Threads /\ w # 0 /\ (w \in Active <=> IsActive(w))
  BY <1>1, ThreadFacts DEF IsActive, Active
<1>3. pc[w] = "poll_new" /\ UNCHANGED <<barrierVars, pool, work>> /\ Seen(w, local[w].new_graph)
  BY DEF PollNew
<1>4. local[w].new_graph \in Nat
  BY <1>2 DEF PoolType, Locals
<1>5. local[w].new_graph <= n_graph
  BY DEF WorkerOK
<1>6. IsActive(w) => local[w].new_graph = n_graph /\ local[w].last_graph # n_graph
  BY <1>2, <1>3 DEF WorkerOK
<1>7. pc[w] \in Away /\ "poll" \in Away \ {"poll_new"}
  BY <1>3 DEF Away
<1>8. CASE IsActive(w) /\ Goto(w, "begin")
  BY <1>3, <1>4, <1>5, <1>6, <1>7, <1>8, SeenControl
<1>9. CASE ~ IsActive(w) /\ Goto(w, "poll")
  BY <1>3, <1>4, <1>5, <1>6, <1>7, <1>9, SeenControl
<1> QED BY <1>8, <1>9 DEF PollNew

\* Under the mutex the graph and its number of threads are those of now.
LEMMA CheckForWorkControl ==
    ASSUME Control, NEW w \in Workers, CheckForWork(w)
    PROVE  Control'
<1> USE DEF Control
<1>1. pc[w] = "lock" /\ UNCHANGED <<barrierVars, pool, work>>
  BY DEF CheckForWork
<1>2. {"lock", "pause", "asleep"} \subseteq Away \ {"poll_new"}
  BY DEF Away
<1>3. CASE UNCHANGED local /\ (Goto(w, "pause") \/ Goto(w, "asleep"))
  <2>1. Idling(w, "lock", "pause") \/ Idling(w, "lock", "asleep")
    BY <1>1, <1>3 DEF Idling
  <2> QED BY <2>1, <1>2, IdlingControl
<1>4. CASE n_graph # local[w].last_graph /\ Seen(w, n_graph)
           /\ Goto(w, IF IsActive(w) THEN "begin" ELSE "asleep")
  <2>1. n_graph \in Nat /\ n_graph <= n_graph
    BY DEF PoolType
  <2> QED BY <2>1, <1>1, <1>2, <1>4, SeenControl
<1> QED BY <1>3, <1>4 DEF CheckForWork

-----------------------------------------------------------------------------

\* A thread inside the computation, not at a barrier.
LEMMA InsideFacts ==
    ASSUME Control, NEW t \in Threads, pc[t] \in Inside \ Barriers
    PROVE  /\ t \in Active /\ ~ Gone(t) /\ bar[t].at = "out" /\ ~ Released(t)
           /\ VariablesOK(t)
           /\ Fresh(t) <=> pc[t] = "begin"
<1> USE DEF Control
<1>1. bar[t].at = "out"
  BY DEF ThreadOK
<1>2. ~ Released(t)
  BY <1>1 DEF Released
<1>3. ~ Gone(t)
  BY <1>2 DEF Gone, Inside, Away
<1>4. t \in Active /\ VariablesOK(t)
  BY <1>3 DEF ThreadOK
<1>5. Fresh(t) <=> pc[t] = "begin"
  BY <1>3 DEF Fresh, Inside
<1> QED BY <1>1, <1>2, <1>3, <1>4, <1>5

\* A step inside the computation that does not pass a barrier.
LEMMA ComputeStep ==
    ASSUME Control, NEW t \in Threads, pc[t] \in Inside \ Barriers,
           NEW where \in Inside \ {"begin"}, Goto(t, where),
           UNCHANGED <<barrierVars, pool, cgraph, abort>>,
           ec' \in {"success", "aborted"}, current_chunk' \in Nat,
           parts' \in SUBSET ((0 .. NNodes - 1) \X Nat),
           local' \in [Threads -> Locals], \A u \in Threads \ {t} : local'[u] = local[u],
           local'[t].last_graph = local[t].last_graph, local'[t].new_graph = local[t].new_graph,
           t = 0 => AbortOK', VariablesOK(t)', NextBarrier(t)' = NextBarrier(t)
    PROVE  Control' /\ NextBarrier(t)' = NextBarrier(t)
<1> USE DEF Control
<1>1. BarrierTypeOK
  BY DEF Inv
<1>2. 0 \in Threads /\ (t # 0 => t \in Workers)
  BY <1>1, ThreadFacts
<1>3. pc'[t] = where /\ \A u \in Threads \ {t} : pc'[u] = pc[u]
  BY MovedTo
<1>4. t \in Active /\ ~ Gone(t) /\ bar[t].at = "out"
  BY InsideFacts
<1>5. bar'[t].at = "out" /\ t \in Active' /\ ~ Released(t)'
  BY <1>4, SameBarrier DEF Released, barrierVars
<1>6. ~ Gone(t)'
  BY <1>3, <1>5 DEF Gone, Inside, Away
<1>7. ThreadOK(t)'
  BY <1>5 DEF ThreadOK
<1>8. t # 0 => WorkerOK(t)'
  BY <1>2, <1>3, <1>4 DEF WorkerOK, Inside, pool
<1>9. MainOK'
  BY <1>2, <1>3 DEF AbortOK, MainOK, Inside, Barriers, pool
<1> QED BY <1>7, <1>8, <1>9, QuietStep DEF pool, PoolType

\* Whoever begins reads the graph and the number of threads of now.
LEMMA BeginControl ==
    ASSUME Control, NEW t \in Threads, Begin(t)
    PROVE  Control' /\ NextBarrier(t)' = NextBarrier(t)
<1> USE DEF Control
<1>1. pc[t] = "begin" /\ UNCHANGED <<barrierVars, pool, work>> /\ Goto(t, "node")
  BY DEF Begin
<1>2. pc[t] \in Inside \ Barriers
  BY <1>1 DEF Inside, Barriers
<1>3. Fresh(t) /\ bar[t].at = "out" /\ ~ Released(t) /\ ~ Gone(t)
  BY <1>1, <1>2, InsideFacts
<1>4. BarrierTypeOK
  BY DEF Inv
<1>5. pc'[t] = "node"
  BY <1>1, MovedTo
<1>6. local'[t] = [local[t] EXCEPT !.graph = cgraph, !.nth = n_threads_cur, !.node = 0]
      /\ local' \in [Threads -> Locals] /\ \A u \in Threads \ {t} : local'[u] = local[u]
  <2> DEFINE new == [local[t] EXCEPT !.graph = cgraph, !.nth = n_threads_cur, !.node = 0]
  <2>1. local' = [local EXCEPT ![t] = new]
    BY DEF Begin
  <2>2. n_threads_cur \in Nat /\ 0 \in 0 .. NNodes /\ cgraph \in Nat /\ local[t] \in Locals
    BY <1>4, ThreadFacts, ThreadPoolAssumption DEF PoolType
  <2>3. new \in Locals
    BY <2>2 DEF Locals
  <2> QED BY <2>1, <2>3 DEF PoolType
<1>7. local'[t].graph = cgraph /\ local'[t].nth = n_threads_cur /\ local'[t].node = 0
      /\ local'[t].last_graph = local[t].last_graph /\ local'[t].new_graph = local[t].new_graph
  BY <1>6 DEF PoolType, Locals
<1>8. NextBarrier(t)' = NextBarrier(t)
  <2>1. ~ Released(t)' /\ ~ Gone(t)' /\ ~ Fresh(t)'
    BY <1>1, <1>3, <1>5, SameBarrier DEF Gone, Fresh, Away
  <2>2. NextBarrier(t)' = From(0)'
    BY <1>5, <1>7, <2>1 DEF NextBarrier
  <2> QED BY <2>2, <1>1, <1>3 DEF NextBarrier, From, Leaving, work
<1>9. VariablesOK(t)'
  BY <1>1, <1>5, <1>7 DEF VariablesOK, barrierVars, work
<1>10. t = 0 => AbortOK'
  BY <1>1, <1>5 DEF AbortOK, MainOK, work
<1> QED
  BY <1>1, <1>2, <1>6, <1>7, <1>8, <1>9, <1>10, ComputeStep DEF work, PoolType, Inside

\* An update of one thread's variables
LEMMA SetLocal ==
    ASSUME PoolType, NEW t \in Threads, NEW new \in Locals, local' = [local EXCEPT ![t] = new]
    PROVE  /\ local'[t] = new /\ local' \in [Threads -> Locals]
           /\ \A u \in Threads \ {t} : local'[u] = local[u]
BY DEF PoolType

\* The first barrier from a node depends on the abort only.
LEMMA SameFrom ==
    ASSUME UNCHANGED abort
    PROVE  \A k : From(k)' = From(k)
BY DEF From, Leaving

\* Going into a node, ...
LEMMA NextNodeControl ==
    ASSUME Control, NEW t \in Threads, NextNode(t)
    PROVE  Control' /\ NextBarrier(t)' = NextBarrier(t)
<1> USE DEF Control
<1>1. /\ pc[t] = "node" /\ UNCHANGED <<barrierVars, pool, work>>
      /\ local[t].node < NNodes /\ abort # local[t].node
      /\ local' = [local EXCEPT ![t].chunk = t]
  BY DEF NextNode
<1> DEFINE k == local[t].node
           where == IF k \in MulMats THEN "mul_mat" ELSE "part"
<1>2. Goto(t, where) /\ where \in Inside \ {"begin"}
  BY DEF NextNode, Inside
<1>3. pc[t] \in Inside \ Barriers
  BY <1>1 DEF Inside, Barriers
<1>4. ~ Fresh(t) /\ ~ Released(t) /\ ~ Gone(t) /\ t \in Active /\ VariablesOK(t)
  BY <1>1, <1>3, InsideFacts
<1>5. BarrierTypeOK /\ t \in Nat /\ local[t] \in Locals
  BY ThreadFacts DEF Inv, PoolType
<1>6. pc'[t] = where
  BY <1>2, MovedTo
<1> DEFINE new == [local[t] EXCEPT !.chunk = t]
<1>7. new \in Locals /\ new.node = k /\ new.chunk = t /\ new.graph = local[t].graph
      /\ new.nth = local[t].nth /\ new.last_graph = local[t].last_graph
      /\ new.new_graph = local[t].new_graph
  BY <1>5 DEF Locals
<1>8. local'[t] = new /\ local' \in [Threads -> Locals]
      /\ \A u \in Threads \ {t} : local'[u] = local[u]
  BY <1>1, <1>7, SetLocal
<1>9. NextBarrier(t)' = NextBarrier(t)
  <2>1. ~ Released(t)' /\ ~ Gone(t)' /\ ~ Fresh(t)'
    BY <1>1, <1>4, <1>6, SameBarrier DEF Gone, Fresh, Away
  <2>2. NextBarrier(t)' = IF k \in MulMats THEN Mul(k) ELSE End(k)
    BY <1>6, <1>7, <1>8, <2>1 DEF NextBarrier
  <2>3. NextBarrier(t) = From(k)
    BY <1>1, <1>4 DEF NextBarrier
  <2>4. k # NNodes
    BY <1>1, <1>5, ThreadPoolAssumption DEF Locals
  <2> QED BY <2>2, <2>3, <2>4, <1>1 DEF From, Leaving
<1>10. VariablesOK(t)'
  BY <1>1, <1>3, <1>4, <1>6, <1>7, <1>8 DEF VariablesOK, barrierVars, work, Inside, Barriers
<1>11. t = 0 => AbortOK'
  BY <1>1, <1>6 DEF AbortOK, MainOK, work
<1> QED
  BY <1>1, <1>2, <1>3, <1>7, <1>8, <1>9, <1>10, <1>11, ComputeStep DEF work, PoolType

\* The steps of a thread that change none of its variables.
LEMMA SameLocalStep ==
    ASSUME Control, NEW t \in Threads, pc[t] \in Inside \ Barriers, pc[t] # "begin",
           NEW where \in Inside \ {"begin"}, Goto(t, where),
           UNCHANGED <<barrierVars, pool, cgraph, abort, local>>,
           ec' \in {"success", "aborted"}, current_chunk' \in Nat,
           parts' \in SUBSET ((0 .. NNodes - 1) \X Nat),
           t = 0 => AbortOK', VariablesOK(t)',
           \/ pc[t] \in {"part", "node_done", "next_chunk"}
              /\ where \in {"part", "node_done", "next_chunk"}
           \/ pc[t] = "mul_mat" /\ where = "mul_mat_barrier"
           \/ pc[t] = "node_done" /\ where = "barrier"
           \/ pc[t] = "node" /\ where = "last_barrier" /\ Leaving(local[t].node)
    PROVE  Control' /\ NextBarrier(t)' = NextBarrier(t)
<1> USE DEF Control
<1>1. ~ Fresh(t) /\ ~ Released(t) /\ ~ Gone(t)
  BY InsideFacts
<1>2. pc'[t] = where
  BY MovedTo
<1>3. ~ Released(t)'
  BY <1>1, SameBarrier
<1>4. ~ Gone(t)' /\ ~ Fresh(t)'
  BY <1>2, <1>3 DEF Gone, Fresh, Inside, Away
<1>5. NextBarrier(t)' = NextBarrier(t)
  BY <1>1, <1>2, <1>3, <1>4 DEF NextBarrier, From
<1> QED BY <1>5, ComputeStep DEF PoolType

\* ... leaving the loop over the nodes, ...
LEMMA LeaveLoopControl ==
    ASSUME Control, NEW t \in Threads, LeaveLoop(t)
    PROVE  Control' /\ NextBarrier(t)' = NextBarrier(t)
<1> USE DEF Control
<1>1. pc[t] = "node" /\ UNCHANGED <<barrierVars, pool, work, local>> /\ Goto(t, "last_barrier")
      /\ Leaving(local[t].node)
  BY DEF LeaveLoop, Leaving
<1>2. pc[t] \in Inside \ Barriers /\ "last_barrier" \in Inside \ {"begin"}
  BY <1>1 DEF Inside, Barriers
<1>3. pc'[t] = "last_barrier" /\ ~ Gone(t) /\ VariablesOK(t)
  BY <1>1, <1>2, MovedTo, InsideFacts
<1>4. VariablesOK(t)'
  BY <1>1, <1>3 DEF VariablesOK, barrierVars, work, Leaving, Inside
<1>5. t = 0 => AbortOK'
  BY <1>1, <1>3 DEF AbortOK, MainOK, work
<1> QED BY <1>1, <1>2, <1>4, <1>5, SameLocalStep DEF work, PoolType

\* ... resetting the chunk counter, ...
LEMMA FirstChunkControl ==
    ASSUME Control, NEW t \in Threads, FirstChunk(t)
    PROVE  Control' /\ NextBarrier(t)' = NextBarrier(t)
<1> USE DEF Control
<1>1. /\ pc[t] = "mul_mat" /\ Goto(t, "mul_mat_barrier")
      /\ UNCHANGED <<barrierVars, pool, abort, ec, cgraph, parts, local>>
  BY DEF FirstChunk
<1>2. pc[t] \in Inside \ Barriers /\ "mul_mat_barrier" \in Inside \ {"begin"}
  BY <1>1 DEF Inside, Barriers
<1>3. pc'[t] = "mul_mat_barrier" /\ ~ Gone(t) /\ VariablesOK(t)
  BY <1>1, <1>2, MovedTo, InsideFacts
<1>4. VariablesOK(t)'
  BY <1>1, <1>3 DEF VariablesOK, barrierVars, Inside
<1>5. t = 0 => AbortOK'
  BY <1>1, <1>3 DEF AbortOK, MainOK
<1>6. current_chunk' \in Nat
  BY DEF FirstChunk, PoolType, Locals
<1> QED BY <1>1, <1>2, <1>4, <1>5, <1>6, SameLocalStep DEF PoolType

\* ... computing a part, ...
LEMMA ComputePartControl ==
    ASSUME Control, NEW t \in Threads, ComputePart(t)
    PROVE  Control' /\ NextBarrier(t)' = NextBarrier(t)
<1> USE DEF Control
<1> DEFINE l == local[t]
           where == IF l.node \in MulMats /\ l.nth < Cardinality(Parts(l.node, l.nth))
                    THEN "next_chunk" ELSE "node_done"
<1>1. /\ pc[t] = "part" /\ l.chunk \in Parts(l.node, l.nth) /\ Goto(t, where)
      /\ parts' = parts \cup {<<l.node, l.chunk>>}
      /\ UNCHANGED <<barrierVars, pool, abort, ec, current_chunk, cgraph, local>>
  BY DEF ComputePart
<1>2. pc[t] \in Inside \ Barriers /\ where \in Inside \ {"begin"}
  BY <1>1 DEF Inside, Barriers
<1>3. pc'[t] = where /\ ~ Gone(t) /\ VariablesOK(t)
  BY <1>1, <1>2, MovedTo, InsideFacts
<1>4. l \in Locals /\ l.node < NNodes
  BY <1>1, <1>3 DEF PoolType, VariablesOK, Inside
<1>5. parts' \in SUBSET ((0 .. NNodes - 1) \X Nat)
  BY <1>1, <1>4, ThreadPoolAssumption DEF PoolType, Locals
<1>6. where = "next_chunk" => l.node \in MulMats /\ l.nth < Chunks
  <2> SUFFICES ASSUME l.node \in MulMats, l.nth < Cardinality(Parts(l.node, l.nth)), l.nth >= Chunks
               PROVE  FALSE
    BY <1>4, ThreadPoolAssumption DEF Locals
  <2>1. l.nth \in Nat /\ Chunks \in Nat
    BY <1>4, ThreadPoolAssumption DEF Locals
  <2>2. Parts(l.node, l.nth) = 0 .. l.nth - 1
    BY <2>1 DEF Parts
  <2>3. \A n \in Nat : Cardinality(0 .. n - 1) = n
    <3> SUFFICES ASSUME NEW n \in Nat PROVE Cardinality(0 .. n - 1) = n
      OBVIOUS
    <3>1. 0 \in Int /\ n - 1 \in Int
      OBVIOUS
    <3> HIDE DEF l
    <3> QED BY <3>1, FS_Interval
  <2> QED BY <2>1, <2>2, <2>3
<1>7. VariablesOK(t)'
  BY <1>1, <1>3, <1>4, <1>6 DEF VariablesOK, barrierVars, Inside
<1>8. t = 0 => AbortOK'
  BY <1>1, <1>3 DEF AbortOK, MainOK
<1> QED BY <1>1, <1>2, <1>5, <1>7, <1>8, SameLocalStep DEF PoolType

\* ... finding no more of them, ...
LEMMA NoMorePartsControl ==
    ASSUME Control, NEW t \in Threads, NoMoreParts(t)
    PROVE  Control' /\ NextBarrier(t)' = NextBarrier(t)
<1> USE DEF Control
<1>1. pc[t] = "part" /\ Goto(t, "node_done") /\ UNCHANGED <<barrierVars, pool, work, local>>
  BY DEF NoMoreParts
<1>2. pc[t] \in Inside \ Barriers /\ "node_done" \in Inside \ {"begin"}
  BY <1>1 DEF Inside, Barriers
<1>3. pc'[t] = "node_done" /\ ~ Gone(t) /\ VariablesOK(t)
  BY <1>1, <1>2, MovedTo, InsideFacts
<1>4. VariablesOK(t)'
  BY <1>1, <1>3 DEF VariablesOK, barrierVars, work, Inside
<1>5. t = 0 => AbortOK'
  BY <1>1, <1>3 DEF AbortOK, MainOK, work
<1> QED BY <1>1, <1>2, <1>4, <1>5, SameLocalStep DEF work, PoolType

\* ... or drawing the next, a thread keeps its next barrier.
LEMMA NextChunkControl ==
    ASSUME Control, NEW t \in Threads, NextChunk(t)
    PROVE  Control' /\ NextBarrier(t)' = NextBarrier(t)
<1> USE DEF Control
<1>1. /\ pc[t] = "next_chunk" /\ Goto(t, "part") /\ current_chunk' = current_chunk + 1
      /\ UNCHANGED <<barrierVars, pool, abort, ec, cgraph, parts>>
      /\ local' = [local EXCEPT ![t].chunk = current_chunk]
  BY DEF NextChunk
<1>2. pc[t] \in Inside \ Barriers /\ "part" \in Inside \ {"begin"}
  BY <1>1 DEF Inside, Barriers
<1>3. pc'[t] = "part" /\ ~ Gone(t) /\ VariablesOK(t) /\ ~ Fresh(t) /\ ~ Released(t)
  BY <1>1, <1>2, MovedTo, InsideFacts
<1>4. local[t] \in Locals /\ current_chunk \in Nat
  BY DEF PoolType
<1> DEFINE new == [local[t] EXCEPT !.chunk = current_chunk]
<1>5. new \in Locals /\ new.node = local[t].node /\ new.graph = local[t].graph
      /\ new.nth = local[t].nth /\ new.last_graph = local[t].last_graph
      /\ new.new_graph = local[t].new_graph
  BY <1>4 DEF Locals
<1>6. local'[t] = new /\ local' \in [Threads -> Locals]
      /\ \A u \in Threads \ {t} : local'[u] = local[u]
  BY <1>1, <1>5, SetLocal
<1>7. NextBarrier(t)' = NextBarrier(t)
  <2>1. ~ Released(t)' /\ ~ Gone(t)' /\ ~ Fresh(t)'
    BY <1>1, <1>3, SameBarrier DEF Gone, Fresh, Away
  <2> QED BY <1>1, <1>3, <1>5, <1>6, <2>1 DEF NextBarrier
<1>8. VariablesOK(t)'
  BY <1>1, <1>3, <1>5, <1>6 DEF VariablesOK, barrierVars, Inside
<1>9. t = 0 => AbortOK'
  BY <1>1, <1>3 DEF AbortOK, MainOK
<1> QED
  BY <1>1, <1>2, <1>4, <1>5, <1>6, <1>7, <1>8, <1>9, ComputeStep DEF PoolType

\* A node is done, and nobody stops the graph.
LEMMA GoOnControl ==
    ASSUME Control, NEW t \in Threads, NodeDone(t), UNCHANGED <<abort, ec>>
    PROVE  Control' /\ NextBarrier(t)' = NextBarrier(t)
<1> USE DEF Control
<1>1. /\ pc[t] = "node_done" /\ UNCHANGED <<barrierVars, pool, current_chunk, cgraph, parts>>
  BY DEF NodeDone
<1>2. pc[t] \in Inside \ Barriers /\ {"node", "barrier"} \subseteq Inside \ {"begin"}
  BY <1>1 DEF Inside, Barriers
<1>3. ~ Gone(t) /\ VariablesOK(t) /\ ~ Fresh(t) /\ ~ Released(t)
  BY <1>1, <1>2, InsideFacts
<1> DEFINE k == local[t].node
<1>4. local[t] \in Locals /\ k < NNodes /\ k \in Nat /\ NNodes \in Nat
  BY <1>1, <1>3, ThreadPoolAssumption DEF PoolType, VariablesOK, Inside, Locals
<1>5. CASE k + 1 < NNodes /\ Goto(t, "barrier") /\ UNCHANGED local
  <2>1. pc'[t] = "barrier"
    BY <1>5, MovedTo
  <2>2. VariablesOK(t)'
    BY <1>1, <1>3, <1>5, <2>1 DEF VariablesOK, barrierVars, Inside
  <2>3. t = 0 => AbortOK'
    BY <1>1, <1>3, <2>1 DEF AbortOK, MainOK
  <2> QED BY <1>1, <1>2, <1>5, <2>2, <2>3, SameLocalStep DEF PoolType
<1>6. CASE ~ (k + 1 < NNodes) /\ Goto(t, "node") /\ local' = [local EXCEPT ![t].node = @ + 1]
  <2> DEFINE new == [local[t] EXCEPT !.node = @ + 1]
  <2>1. k + 1 = NNodes
    BY <1>4, <1>6
  <2>2. new \in Locals /\ new.node = NNodes /\ new.graph = local[t].graph
        /\ new.nth = local[t].nth /\ new.last_graph = local[t].last_graph
        /\ new.new_graph = local[t].new_graph
    BY <1>4, <2>1 DEF Locals
  <2>3. local' = [local EXCEPT ![t] = new]
    BY <1>6
  <2>4. local'[t] = new /\ local' \in [Threads -> Locals]
        /\ \A u \in Threads \ {t} : local'[u] = local[u]
    BY <2>2, <2>3, SetLocal
  <2>5. pc'[t] = "node"
    BY <1>6, MovedTo
  <2>6. NextBarrier(t)' = NextBarrier(t)
    <3>1. ~ Released(t)' /\ ~ Gone(t)' /\ ~ Fresh(t)'
      BY <1>1, <1>3, <2>5, SameBarrier DEF Gone, Fresh, Away
    <3>2. NextBarrier(t)' = From(NNodes)'
      BY <2>2, <2>4, <2>5, <3>1 DEF NextBarrier
    <3>3. NextBarrier(t) = End(k)
      BY <1>1, <1>3 DEF NextBarrier
    <3> QED BY <1>6, <3>2, <3>3 DEF From, Leaving, End
  <2>7. VariablesOK(t)'
    BY <1>1, <1>3, <2>2, <2>4, <2>5 DEF VariablesOK, barrierVars, Inside
  <2>8. t = 0 => AbortOK'
    BY <1>1, <2>5 DEF AbortOK, MainOK
  <2> QED
    BY <1>1, <1>2, <1>6, <2>2, <2>4, <2>6, <2>7, <2>8, ComputeStep DEF PoolType
<1> QED BY <1>5, <1>6 DEF NodeDone

\* The callback stops the graph after node k: no thread that goes to the end of
\* node k has seen the next one.
LEMMA SameEnd ==
    ASSUME NEW k \in 0 .. NNodes - 1, abort = -1, abort' = k + 1, NEW m \in Nat, m <= NNodes,
           From(m) = End(k)
    PROVE  Leaving(m)' = Leaving(m) /\ From(m)' = From(m)
<1>1. NNodes \in Nat /\ k \in Nat
  BY ThreadPoolAssumption
<1>2. CASE m = NNodes
  BY <1>2 DEF From, Leaving
<1>3. CASE m # NNodes
  <2>1. m \in 0 .. NNodes - 1 /\ ~ Leaving(m)
    BY <1>1, <1>3 DEF Leaving
  <2>2. m \notin MulMats /\ From(m) = End(m)
    BY <2>1, Distinct DEF From
  <2>3. m = k
    BY <2>1, <2>2, Distinct
  <2> QED BY <1>1, <1>3, <2>2, <2>3 DEF From, Leaving
<1> QED BY <1>2, <1>3

\* When the main thread aborts the graph after its node, nobody is past the barrier
\* after that node: from there all of them turn to the last barrier.
LEMMA AbortControl ==
    ASSUME Control, NodeDone(0), abort' = local[0].node + 1, ec' = "aborted"
    PROVE  Control' /\ NextBarrier(0)' = NextBarrier(0)
<1> USE DEF Control
<1> DEFINE k == local[0].node
<1>1. /\ pc[0] = "node_done" /\ UNCHANGED <<barrierVars, pool, current_chunk, cgraph, parts>>
  BY DEF NodeDone
<1>2. BarrierTypeOK /\ 0 \in Threads /\ 0 \in Active /\ Active \subseteq Threads
  BY ThreadFacts DEF Inv
<1>3. pc[0] \in Inside \ Barriers
  BY <1>1 DEF Inside, Barriers
<1>4. bar[0].at = "out" /\ ~ Gone(0) /\ VariablesOK(0) /\ ~ Fresh(0) /\ ~ Released(0)
  BY <1>1, <1>2, <1>3, InsideFacts
<1>5. local[0] \in Locals /\ k \in 0 .. NNodes - 1 /\ k \in Nat /\ NNodes \in Nat
  BY <1>1, <1>2, <1>4, ThreadPoolAssumption DEF PoolType, VariablesOK, Inside, Locals
<1>6. abort = -1
  BY <1>1 DEF MainOK, AbortOK
<1>7. Inv' /\ Active' = Active /\ \A u : Released(u)' = Released(u)
  BY <1>1, NextInv, SameBarrier
<1>8. /\ local' \in [Threads -> Locals] /\ \A u \in Threads \ {0} : local'[u] = local[u]
      /\ \/ k + 1 < NNodes /\ Goto(0, "barrier") /\ local'[0] = local[0]
         \/ /\ k + 1 = NNodes /\ Goto(0, "node")
            /\ local'[0] = [local[0] EXCEPT !.node = NNodes]
  <2> DEFINE new == [local[0] EXCEPT !.node = @ + 1]
  <2>1. CASE k + 1 < NNodes /\ Goto(0, "barrier") /\ UNCHANGED local
    BY <2>1 DEF PoolType
  <2>2. CASE ~ (k + 1 < NNodes) /\ Goto(0, "node") /\ local' = [local EXCEPT ![0].node = @ + 1]
    <3>1. new \in Locals /\ k + 1 = NNodes /\ new = [local[0] EXCEPT !.node = NNodes]
      BY <1>5, <2>2 DEF Locals
    <3>2. local' = [local EXCEPT ![0] = new]
      BY <2>2
    <3> QED BY <1>2, <2>2, <3>1, <3>2, SetLocal
  <2> QED BY <2>1, <2>2 DEF NodeDone
<1>9. local'[0].node \in {k, NNodes} /\ local'[0].graph = local[0].graph
      /\ local'[0].nth = local[0].nth
  BY <1>5, <1>8 DEF Locals
<1>10. /\ pc'[0] \in {"barrier", "node"} /\ pc' \in [Threads -> Away \cup Between \cup {"kick_wake"} \cup Inside]
       /\ pc'[0] = "barrier" => k + 1 < NNodes /\ local'[0].node = k
       /\ pc'[0] = "node" => k + 1 = NNodes /\ local'[0].node = NNodes
       /\ \A u \in Threads \ {0} : pc'[u] = pc[u]
  BY <1>2, <1>5, <1>8 DEF Goto, PoolType, Inside, Locals
<1>11. PoolType'
  <2>1. abort' \in {-1} \cup 1 .. NNodes
    BY <1>5
  <2>2. pc'[0] \notin Away
    BY <1>10 DEF Away
  <2>3. \A w \in Workers : pc'[w] \in Away \cup Inside
    BY <1>2, <1>10, ThreadFacts DEF PoolType
  <2> QED BY <1>1, <1>8, <1>10, <2>1, <2>2, <2>3 DEF PoolType, pool
<1>12. MainOK'
  BY <1>1, <1>9, <1>10, <1>6 DEF MainOK, AbortOK, pool
<1>13. ASSUME NEW u \in Threads \ {0}
       PROVE  Gone(u)' = Gone(u) /\ Fresh(u)' = Fresh(u)
  <2>1. Gone(u)' = Gone(u)
    BY <1>7, <1>10 DEF Gone
  <2> QED BY <2>1, <1>1, <1>8, <1>10 DEF Fresh, pool
<1>15. \A t \in Threads : ThreadOK(t)'
  <2>1. ASSUME NEW u \in Threads \ {0} PROVE ThreadOK(u)'
    <3>1. u \in Active => VariablesOK(u)'
      BY <1>1, <1>6, <1>7, <1>8, <1>10, <1>13 DEF ThreadOK, VariablesOK, Leaving, barrierVars, PoolType, Locals
    <3> QED BY <3>1, <1>1, <1>7, <1>10, <1>13 DEF ThreadOK, barrierVars
  <2>2. VariablesOK(0)'
    BY <1>1, <1>3, <1>4, <1>8, <1>9, <1>10 DEF VariablesOK, barrierVars, Inside, Barriers
  <2>3. ThreadOK(0)'
    BY <1>1, <1>2, <1>4, <1>7, <2>2 DEF ThreadOK, barrierVars
  <2> QED BY <2>1, <2>3
<1>16. \A w \in Workers : WorkerOK(w)'
  BY <1>1, <1>2, <1>7, <1>8, <1>10, <1>13, ThreadFacts DEF WorkerOK, pool
<1>17. NextBarrier(0) = End(k) /\ NextBarrier(0)' = End(k)
  <2>1. NextBarrier(0) = End(k)
    BY <1>1, <1>4 DEF NextBarrier
  <2>2. ~ Gone(0)' /\ ~ Fresh(0)' /\ ~ Released(0)'
    BY <1>4, <1>7, <1>10 DEF Gone, Fresh, Away
  <2>3. CASE pc'[0] = "barrier"
    BY <1>10, <2>1, <2>2, <2>3 DEF NextBarrier
  <2>4. CASE pc'[0] = "node"
    <3>1. NextBarrier(0)' = Last
      BY <1>10, <2>2, <2>4 DEF NextBarrier, From, Leaving
    <3> QED BY <3>1, <1>10, <1>5, <2>1, <2>4 DEF End
  <2> QED BY <2>1, <2>3, <2>4, <1>10
<1>18. ASSUME NEW u \in Active \ {0} PROVE NextBarrier(u)' = End(k)
  <2>1. NextBarrier(u) = End(k) /\ u \in Threads
    BY <1>2, <1>17 DEF Lockstep
  <2>2. ThreadOK(u) /\ local[u].node \in 0 .. NNodes
    BY <2>1, <1>18 DEF ThreadOK, PoolType, Locals
  <2>3. CASE Fresh(u)
    <3>1. NextBarrier(u) = From(0) /\ NextBarrier(u)' = From(0)'
      BY <2>1, <2>3, <1>13 DEF NextBarrier
    <3> QED BY <3>1, <2>1, <1>5, <1>6, SameEnd
  <2>4. CASE ~ Fresh(u) /\ pc[u] = "node"
    <3>1. PICK m \in Nat : m = local[u].node /\ m <= NNodes
      BY <2>2, <1>5
    <3>2. NextBarrier(u) = From(m) /\ NextBarrier(u)' = From(m)'
      BY <3>1, <2>1, <2>4, <1>8, <1>10, <1>13 DEF NextBarrier, From, Leaving
    <3> QED BY <3>1, <3>2, <2>1, <1>5, <1>6, SameEnd
  <2>5. CASE ~ Fresh(u) /\ pc[u] = "barrier" /\ Released(u)
    <3>1. local[u].node + 1 < NNodes
      BY <2>2, <2>5, <1>18 DEF ThreadOK, VariablesOK
    <3>2. PICK m \in Nat : m = local[u].node + 1 /\ m <= NNodes
      BY <3>1, <2>2, <1>5
    <3>3. NextBarrier(u) = From(m) /\ NextBarrier(u)' = From(m)'
      BY <3>2, <2>1, <2>5, <1>7, <1>8, <1>10, <1>13 DEF NextBarrier, From, Leaving
    <3> QED BY <3>2, <3>3, <2>1, <1>5, <1>6, SameEnd
  <2>6. CASE ~ Fresh(u) /\ pc[u] # "node" /\ ~ (pc[u] = "barrier" /\ Released(u))
    <3>1. NextBarrier(u)' = NextBarrier(u)
      BY <2>1, <2>6, <1>7, <1>8, <1>10, <1>13 DEF NextBarrier
    <3> QED BY <3>1, <2>1
  <2> QED BY <2>3, <2>4, <2>5, <2>6
<1>19. Lockstep'
  BY <1>7, <1>17, <1>18 DEF Lockstep
<1> QED BY <1>7, <1>11, <1>12, <1>15, <1>16, <1>17, <1>19

-----------------------------------------------------------------------------

\* A thread on its way to a barrier, or held by it.
LEMMA HeldFacts ==
    ASSUME Control, NEW t \in Threads, pc[t] \in Barriers, ~ Released(t)
    PROVE  /\ t \in Active /\ ~ Gone(t) /\ ~ Fresh(t) /\ VariablesOK(t)
           /\ t # 0 => local[t].last_graph = n_graph
<1> USE DEF Control
<1>1. ~ Gone(t)
  BY DEF Gone, Barriers, Away
<1>2. t \in Active /\ VariablesOK(t)
  BY <1>1 DEF ThreadOK
<1>3. ~ Fresh(t)
  BY <1>1 DEF Fresh, Barriers
<1>4. t # 0 => t \in Workers
  BY ThreadFacts DEF Inv
<1> QED BY <1>1, <1>2, <1>3, <1>4 DEF WorkerOK

\* A step at a barrier by which the thread is not released.
LEMMA ArrivingControl ==
    ASSUME Control, NEW t \in Threads, pc[t] \in Barriers, Enter(t) \/ Arrive(t) \/ Reset(t),
           UNCHANGED <<pc, local, pool, work>>
    PROVE  Control' /\ NextBarrier(t)' = NextBarrier(t)
<1> USE DEF Control
<1>1. BarrierTypeOK
  BY DEF Inv
<1>2. ~ Released(t)
  BY DEF Enter, Arrive, Reset, Released
<1>3. t \in Active /\ ~ Gone(t) /\ ~ Fresh(t) /\ VariablesOK(t) /\ (t # 0 => t \in Workers)
  BY <1>1, <1>2, HeldFacts, ThreadFacts
<1>4. Inv'
  BY <1>3, EnterInv, ArriveInv, ResetInv
<1>5. /\ n_threads_cur' = n_threads_cur /\ n_barrier_passed' = n_barrier_passed
      /\ \A u \in Threads \ {t} : bar'[u] = bar[u]
  BY <1>1 DEF Enter, Arrive, Reset, BarrierTypeOK
<1>6. ~ Released(t)'
  <2>1. CASE Enter(t)
    BY <1>1, <2>1 DEF Enter, Released, BarrierTypeOK
  <2>2. CASE Arrive(t)
    <3>1. bar[t].n_passed = n_barrier_passed
      BY <1>3, <2>2 DEF Inv, Places, PlaceOK, Arrive
    <3>2. bar'[t].n_passed = bar[t].n_passed
      BY <1>1, <2>2 DEF Arrive, BarrierTypeOK
    <3> QED BY <1>5, <3>1, <3>2 DEF Released
  <2>3. CASE Reset(t)
    BY <1>1, <2>3 DEF Reset, Released, BarrierTypeOK
  <2> QED BY <2>1, <2>2, <2>3
<1>7. ~ Gone(t)' /\ ~ Fresh(t)' /\ Active' = Active
  BY <1>3, <1>5, <1>6 DEF Gone, Fresh, Active, pool
<1>8. NextBarrier(t)' = NextBarrier(t)
  BY <1>2, <1>3, <1>6, <1>7 DEF NextBarrier, From, Leaving, work
<1>9. ThreadOK(t)'
  BY <1>2, <1>3, <1>5, <1>6, <1>7 DEF ThreadOK, VariablesOK, Leaving, work
<1>10. t # 0 => WorkerOK(t)'
  BY <1>3, <1>7 DEF WorkerOK, pool
<1>11. MainOK' /\ PoolType'
  BY DEF MainOK, AbortOK, PoolType, pool, work
<1> QED
  BY <1>4, <1>5, <1>8, <1>9, <1>10, <1>11, LocalStep DEF pool, work

\* What a thread does after a barrier.
LEMMA AfterBarrierFacts ==
    ASSUME Control, NEW t \in Threads, pc[t] \in Barriers, AfterBarrier(t)
    PROVE  /\ local' \in [Threads -> Locals]
           /\ \A u \in Threads \ {t} : local'[u] = local[u] /\ pc'[u] = pc[u]
           /\ pc' \in [Threads -> Away \cup Between \cup {"kick_wake"} \cup Inside]
           /\ local'[t] = IF pc[t] = "barrier" THEN [local[t] EXCEPT !.node = local[t].node + 1]
                                               ELSE local[t]
           /\ pc'[t] = CASE pc[t] = "mul_mat_barrier" -> "part"
                         [] pc[t] = "barrier" -> "node"
                         [] pc[t] = "last_barrier" -> (IF t = 0 THEN "idle" ELSE "pause")
           /\ pc[t] = "barrier" => local[t].node + 1 < NNodes /\ t \in Active
           /\ pc[t] = "mul_mat_barrier" => t \in Active
<1> USE DEF Control
<1>1. pc[t] \in {"barrier", "mul_mat_barrier"} => t \in Active /\ VariablesOK(t)
  BY DEF ThreadOK, Gone, Away
<1>2. pc[t] = "barrier" => local[t].node + 1 < NNodes
  BY <1>1 DEF VariablesOK
<1> DEFINE new == [local[t] EXCEPT !.node = local[t].node + 1]
<1>3. pc[t] = "barrier" => new \in Locals
  BY <1>2, ThreadPoolAssumption DEF PoolType, Locals
<1>4. CASE pc[t] = "barrier"
  <2>1. Goto(t, "node") /\ local' = [local EXCEPT ![t] = new]
    BY <1>4 DEF AfterBarrier
  <2> QED BY <1>1, <1>2, <1>3, <1>4, <2>1, SetLocal DEF Goto, PoolType, Inside
<1>5. CASE pc[t] = "mul_mat_barrier"
  <2>1. Goto(t, "part") /\ UNCHANGED local
    BY <1>5 DEF AfterBarrier
  <2> QED BY <1>1, <1>5, <2>1 DEF Goto, PoolType, Inside
<1>6. CASE pc[t] = "last_barrier"
  <2>1. Goto(t, IF t = 0 THEN "idle" ELSE "pause") /\ UNCHANGED local
    BY <1>6 DEF AfterBarrier
  <2> QED BY <1>6, <2>1 DEF Goto, PoolType, Between, Away
<1> QED BY <1>4, <1>5, <1>6 DEF Barriers

\* The thread itself is well after a barrier it has been let out of.
LEMMA AfterBarrierOK ==
    ASSUME Control, NEW t \in Threads, pc[t] \in Barriers, AfterBarrier(t),
           BarrierTypeOK', bar'[t].at = "out", UNCHANGED <<n_threads_cur, pool, work>>,
           pc[t] = "last_barrier" /\ t # 0 /\ ~ Released(t) => t \in Active
    PROVE  PoolType' /\ MainOK' /\ ThreadOK(t)' /\ (t # 0 => WorkerOK(t)')
<1> USE DEF Control
<1>1. BarrierTypeOK /\ Active' = Active /\ ~ Released(t)'
  BY DEF Inv, Active, Released
<1>2. 0 \in Threads /\ 0 \in Active /\ (t # 0 => t \in Workers) /\ Workers \subseteq Threads
      /\ 0 \notin Workers
  BY <1>1, ThreadFacts
<1>3. PoolType'
  <2>1. pc'[0] \notin Away
    BY <1>2, AfterBarrierFacts DEF PoolType, Barriers, Away
  <2>2. \A w \in Workers : pc'[w] \in Away \cup Inside
    BY <1>2, AfterBarrierFacts DEF PoolType, Barriers, Away, Inside
  <2> QED BY <2>1, <2>2, AfterBarrierFacts DEF PoolType, pool, work
<1>4. local'[t].node = IF pc[t] = "barrier" THEN local[t].node + 1 ELSE local[t].node
  BY AfterBarrierFacts DEF PoolType, Locals
<1>5. /\ local'[t].graph = local[t].graph /\ local'[t].nth = local[t].nth
      /\ local'[t].chunk = local[t].chunk /\ local'[t].last_graph = local[t].last_graph
      /\ local'[t].new_graph = local[t].new_graph
  BY AfterBarrierFacts DEF PoolType, Locals
<1>6. MainOK'
  <2>1. CASE t = 0
    BY <1>2, <1>4, <2>1, AfterBarrierFacts DEF MainOK, AbortOK, Barriers, pool, work
  <2>2. CASE t # 0
    BY <1>2, <2>2, AfterBarrierFacts DEF MainOK, AbortOK, pool, work
  <2> QED BY <2>1, <2>2
<1>7. pc'[t] = "pause" => Gone(t)'
  BY DEF Gone, Away
<1>8. ThreadOK(t)'
  <2>1. t \notin Active => Gone(t)'
    BY <1>2, <1>7, AfterBarrierFacts DEF Barriers
  <2>2. t \in Active => VariablesOK(t)'
    <3> SUFFICES ASSUME t \in Active PROVE VariablesOK(t)'
      OBVIOUS
    <3>1. VariablesOK(t)
      BY DEF ThreadOK
    <3>2. CASE pc[t] = "last_barrier"
      BY <3>2, AfterBarrierFacts DEF VariablesOK, Inside
    <3>3. CASE pc[t] # "last_barrier"
      <4>1. ~ Gone(t)
        BY <3>3 DEF Gone, Barriers, Away
      <4>2. local[t].graph = cgraph /\ local[t].nth = n_threads_cur
        BY <3>1, <3>3, <4>1 DEF VariablesOK, Barriers, Inside
      <4> QED
        BY <1>4, <1>5, <3>1, <3>3, <4>2, AfterBarrierFacts
           DEF VariablesOK, Barriers, Inside, work
    <3> QED BY <3>2, <3>3
  <2> QED BY <1>1, <2>1, <2>2 DEF ThreadOK
<1>9. t # 0 => WorkerOK(t)'
  <2> SUFFICES ASSUME t # 0 PROVE WorkerOK(t)'
    OBVIOUS
  <2>1. WorkerOK(t)
    BY <1>2
  <2>2. t \in Active /\ ~ Gone(t)' => local[t].last_graph = n_graph
    <3>1. CASE pc[t] = "last_barrier"
      BY <1>7, <3>1, AfterBarrierFacts
    <3>2. CASE pc[t] # "last_barrier"
      BY <2>1, <3>2 DEF Gone, Barriers, Away, WorkerOK
    <3> QED BY <3>1, <3>2
  <2>3. pc'[t] # "poll_new"
    BY AfterBarrierFacts DEF Barriers
  <2> QED BY <1>1, <1>5, <2>1, <2>2, <2>3 DEF WorkerOK, pool
<1> QED BY <1>3, <1>6, <1>8, <1>9

\* A thread that finds the barrier passed goes on.
LEMMA LeaveControl ==
    ASSUME Control, NEW t \in Threads, pc[t] \in Barriers, Leave(t), AfterBarrier(t),
           UNCHANGED <<pool, work>>
    PROVE  Control' /\ NextBarrier(t)' = NextBarrier(t)
<1> USE DEF Control
<1>1. BarrierTypeOK /\ Inv'
  BY LeaveInv DEF Inv
<1>2. /\ n_threads_cur' = n_threads_cur /\ n_barrier_passed' = n_barrier_passed
      /\ Released(t) /\ bar'[t].at = "out"
      /\ \A u \in Threads \ {t} : bar'[u] = bar[u]
  BY <1>1 DEF Leave, Out, BarrierTypeOK
<1>3. PoolType' /\ MainOK' /\ ThreadOK(t)' /\ (t # 0 => WorkerOK(t)')
  BY <1>1, <1>2, AfterBarrierOK DEF Inv
<1>4. NextBarrier(t)' = NextBarrier(t)
  <2>1. ~ Released(t)'
    BY <1>2 DEF Released
  <2>2. /\ local'[t].node = IF pc[t] = "barrier" THEN local[t].node + 1 ELSE local[t].node
        /\ local'[t].last_graph = local[t].last_graph
    BY AfterBarrierFacts DEF PoolType, Locals
  <2>3. CASE pc[t] = "mul_mat_barrier"
    <3>1. pc'[t] = "part"
      BY <2>3, AfterBarrierFacts
    <3>2. ~ Fresh(t) /\ ~ Fresh(t)'
      BY <2>3, <3>1 DEF Fresh, Gone, Away
    <3> QED BY <1>2, <2>2, <2>3, <3>1, <3>2 DEF NextBarrier
  <2>4. CASE pc[t] = "barrier"
    <3>1. pc'[t] = "node"
      BY <2>4, AfterBarrierFacts
    <3>2. ~ Fresh(t) /\ ~ Fresh(t)'
      BY <2>4, <3>1 DEF Fresh, Gone, Away
    <3> QED BY <1>2, <2>2, <2>4, <3>1, <3>2 DEF NextBarrier, From, Leaving, work
  <2>5. CASE pc[t] = "last_barrier"
    <3>1. pc'[t] = IF t = 0 THEN "idle" ELSE "pause"
      BY <2>5, AfterBarrierFacts
    <3>2. Fresh(t)' = Fresh(t)
      BY <1>2, <2>2, <2>5, <3>1 DEF Fresh, Gone, Away, pool
    <3> QED BY <1>2, <2>5, <3>1, <3>2 DEF NextBarrier, From, Leaving, work
  <2> QED BY <2>3, <2>4, <2>5 DEF Barriers
<1>5. \A u \in Threads \ {t} : pc'[u] = pc[u] /\ local'[u] = local[u]
  BY AfterBarrierFacts
<1> QED BY <1>1, <1>2, <1>3, <1>4, <1>5, LocalStep DEF pool, work

\* A thread that computes alone does not stop at the barriers.
LEMMA AloneControl ==
    ASSUME Control, NEW t \in Threads, pc[t] \in Barriers, bar[t].at = "out", n_threads_cur = 1,
           AfterBarrier(t), UNCHANGED <<barrierVars, pool, work>>
    PROVE  Control'
<1> USE DEF Control
<1>1. BarrierTypeOK /\ Inv' /\ ~ Released(t)
  BY NextInv DEF Inv, Released
<1>2. t \in Active
  BY <1>1, HeldFacts
<1>3. Active = {0}
  BY DEF Active
<1>4. PoolType' /\ MainOK' /\ ThreadOK(t)' /\ (t # 0 => WorkerOK(t)')
  BY <1>1, <1>2, AfterBarrierOK DEF Inv, barrierVars
<1>5. \A u \in Threads \ {t} : pc'[u] = pc[u] /\ local'[u] = local[u]
  BY AfterBarrierFacts
<1> QED BY <1>1, <1>3, <1>4, <1>5, LocalStep DEF pool, work, barrierVars

\* The barrier that follows the one a thread is held by.
After(t) == CASE pc[t] = "mul_mat_barrier" -> End(local[t].node)
              [] pc[t] = "barrier" -> From(local[t].node + 1)
              [] pc[t] = "last_barrier" -> Rest

\* What a thread comes to after the barrier it waits at is the same for all that
\* wait at it.
LEMMA SameAfter ==
    ASSUME Control, NEW t \in Threads, NEW u \in Threads, {pc[t], pc[u]} \subseteq Barriers,
           ~ Released(t), ~ Released(u), NextBarrier(t) = NextBarrier(u)
    PROVE  /\ pc[t] = pc[u] /\ (pc[t] # "last_barrier" => local[t].node = local[u].node)
           /\ After(t) = After(u)
<1> USE DEF Control
<1> DEFINE IsHeld(v) ==
             \/ /\ pc[v] = "mul_mat_barrier" /\ local[v].node \in 0 .. NNodes - 1
                /\ NextBarrier(v) = Mul(local[v].node)
             \/ /\ pc[v] = "barrier" /\ local[v].node \in 0 .. NNodes - 1
                /\ local[v].node + 1 # NNodes
                /\ NextBarrier(v) = End(local[v].node)
             \/ pc[v] = "last_barrier" /\ NextBarrier(v) = Last
<1>1. ASSUME NEW v \in Threads, pc[v] \in Barriers, ~ Released(v) PROVE IsHeld(v)
  <2>1. ~ Fresh(v) /\ VariablesOK(v) /\ local[v] \in Locals
    BY <1>1, HeldFacts DEF PoolType
  <2>2. CASE pc[v] = "mul_mat_barrier"
    <3>1. local[v].node < NNodes /\ local[v].node \in 0 .. NNodes
      BY <2>1, <2>2 DEF VariablesOK, Inside, Locals
    <3> QED BY <1>1, <2>1, <2>2, <3>1, ThreadPoolAssumption DEF NextBarrier
  <2>3. CASE pc[v] = "barrier"
    <3>1. local[v].node + 1 < NNodes /\ local[v].node \in 0 .. NNodes
      BY <2>1, <2>3 DEF VariablesOK, Locals
    <3> QED BY <1>1, <2>1, <2>3, <3>1, ThreadPoolAssumption DEF NextBarrier
  <2>4. CASE pc[v] = "last_barrier"
    BY <1>1, <2>1, <2>4 DEF NextBarrier
  <2> QED BY <1>1, <2>2, <2>3, <2>4 DEF Barriers
<1>2. IsHeld(t) /\ IsHeld(u)
  BY <1>1
<1>3. pc[t] = pc[u] /\ (pc[t] # "last_barrier" => local[t].node = local[u].node)
  BY <1>2, Distinct
<1>4. After(t) = After(u)
  BY <1>3 DEF After, Barriers
<1> QED BY <1>3, <1>4

\* The thread that goes through a barrier, ...
LEMMA PassedBarrier ==
    ASSUME Control, NEW t \in Threads, pc[t] \in Barriers, ~ Released(t), AfterBarrier(t),
           bar'[t].at = "out", UNCHANGED <<pool, work>>
    PROVE  NextBarrier(t)' = After(t) /\ ~ Fresh(t)'
<1> USE DEF Control
<1>1. ~ Released(t)' /\ ~ Fresh(t) /\ (t # 0 => local[t].last_graph = n_graph)
  BY HeldFacts DEF Released
<1>2. /\ local'[t].node = IF pc[t] = "barrier" THEN local[t].node + 1 ELSE local[t].node
      /\ local'[t].last_graph = local[t].last_graph
  BY AfterBarrierFacts DEF PoolType, Locals
<1>3. ~ Fresh(t)'
  BY <1>1, <1>2, AfterBarrierFacts DEF Fresh, Gone, Barriers, Away, pool
<1>4. CASE pc[t] = "mul_mat_barrier"
  BY <1>1, <1>2, <1>3, <1>4, AfterBarrierFacts DEF NextBarrier, After
<1>5. CASE pc[t] = "barrier"
  BY <1>1, <1>2, <1>3, <1>5, AfterBarrierFacts DEF NextBarrier, After, From, Leaving, work
<1>6. CASE pc[t] = "last_barrier"
  BY <1>1, <1>2, <1>3, <1>6, AfterBarrierFacts DEF NextBarrier, After
<1> QED BY <1>3, <1>4, <1>5, <1>6 DEF Barriers

\* ... and those it lets out.
LEMMA LetOut ==
    ASSUME Control, NEW t \in Threads, pc[t] \in Barriers, Pass(t), AfterBarrier(t), UNCHANGED pool,
           NEW u \in Active \ {t}
    PROVE  /\ u \in Threads /\ pc[u] \in Barriers /\ ~ Released(u) /\ Released(u)'
           /\ ~ Fresh(u) /\ ~ Fresh(u)' /\ VariablesOK(u) /\ ~ Gone(u)
           /\ pc'[u] = pc[u] /\ local'[u] = local[u]
<1> USE DEF Control
<1>1. BarrierTypeOK /\ t \in Active /\ Active \subseteq Threads
  BY OnlyActive, ThreadFacts DEF Pass, Inv
<1>2. n_barrier_passed' = n_barrier_passed + 1 /\ n_barrier_passed \in Nat /\ bar'[u] = bar[u]
  BY <1>1 DEF Pass, Out, BarrierTypeOK
<1>3. pc'[u] = pc[u] /\ local'[u] = local[u]
  BY <1>1, AfterBarrierFacts
<1>4. u \in Threads /\ bar[u].at = "wait" /\ bar[u].n_passed = n_barrier_passed
  BY <1>1 DEF Inv, Opens, Pass
<1>5. pc[u] \in Barriers /\ ~ Released(u) /\ Released(u)'
  BY <1>2, <1>4 DEF ThreadOK, Released
<1>6. ~ Fresh(u) /\ VariablesOK(u) /\ ~ Gone(u) /\ (u # 0 => local[u].last_graph = n_graph)
  BY <1>4, <1>5, HeldFacts
<1>7. ~ Fresh(u)'
  BY <1>3, <1>4, <1>5, <1>6 DEF Fresh, Barriers, pool
<1> QED BY <1>3, <1>4, <1>5, <1>6, <1>7

\* The last thread to arrive lets all others out, and all of them turn to the next
\* barrier at once.
LEMMA PassControl ==
    ASSUME Control, NEW t \in Threads, pc[t] \in Barriers, Pass(t), AfterBarrier(t),
           UNCHANGED <<pool, work>>
    PROVE  Control'
<1> USE DEF Control
<1>1. BarrierTypeOK /\ t \in Active /\ ~ Released(t) /\ 0 \in Active /\ Active \subseteq Threads
  BY OnlyActive, ThreadFacts DEF Pass, Inv, Released
<1>2. Inv' /\ Active' = Active
  BY <1>1, PassInv DEF Pass, Active
<1>3. /\ n_threads_cur' = n_threads_cur /\ n_barrier_passed' = n_barrier_passed + 1
      /\ n_barrier_passed \in Nat /\ bar'[t].at = "out"
      /\ \A u \in Threads \ {t} : bar'[u] = bar[u]
  BY <1>1 DEF Pass, Out, BarrierTypeOK
<1>4. PoolType' /\ MainOK' /\ ThreadOK(t)' /\ (t # 0 => WorkerOK(t)')
  BY <1>1, <1>2, <1>3, AfterBarrierOK DEF Inv
<1>5. \A u \in Threads \ {t} : pc'[u] = pc[u] /\ local'[u] = local[u]
  BY AfterBarrierFacts
<1>6. ASSUME NEW u \in Active \ {t}
      PROVE  /\ u \in Threads /\ pc[u] \in Barriers /\ ~ Released(u) /\ Released(u)'
             /\ ~ Fresh(u) /\ ~ Fresh(u)' /\ VariablesOK(u) /\ ~ Gone(u)
  BY LetOut
<1>7. ASSUME NEW u \in Threads \ Active PROVE Gone(u)' /\ Released(u)' = Released(u)
  <2>1. bar'[u] = bar[u] /\ pc'[u] = pc[u] /\ Gone(u)
    BY <1>1, <1>3, <1>5, <1>7 DEF ThreadOK
  <2>2. bar[u].at = "out" \/ (bar[u].at = "wait" /\ bar[u].n_passed < n_barrier_passed)
    BY DEF Inv, Outside
  <2>3. bar[u].n_passed \in Nat
    BY <1>1 DEF BarrierTypeOK
  <2>4. Released(u)' = Released(u)
    BY <1>3, <2>1, <2>2, <2>3 DEF Released
  <2> QED BY <2>1, <2>4 DEF Gone
<1>8. ASSUME NEW u \in Threads \ {t} PROVE ThreadOK(u)'
  <2>1. CASE u \in Active
    BY <1>2, <1>3, <1>5, <1>6, <2>1 DEF ThreadOK, VariablesOK, Gone, pool, work
  <2>2. CASE u \notin Active
    BY <1>2, <1>3, <1>5, <1>7, <2>2 DEF ThreadOK
  <2> QED BY <2>1, <2>2
<1>9. ASSUME NEW u \in Workers \ {t} PROVE WorkerOK(u)'
  <2>1. u \in Threads /\ WorkerOK(u) /\ pc'[u] = pc[u] /\ local'[u] = local[u]
    BY <1>1, <1>5, ThreadFacts
  <2>2. u \in Active => ~ Gone(u) /\ pc[u] \in Barriers
    BY <1>6, <1>9
  <2> QED BY <1>2, <2>1, <2>2 DEF WorkerOK, Barriers, pool
<1>10. NextBarrier(t)' = After(t)
  BY <1>1, <1>3, PassedBarrier
<1>11. ASSUME NEW u \in Active \ {t} PROVE NextBarrier(u)' = After(t)
  <2>1. NextBarrier(u)' = After(u)
    BY <1>5, <1>6 DEF NextBarrier, After, Barriers, From, Leaving, work
  <2>2. NextBarrier(u) = NextBarrier(t)
    BY <1>1 DEF Lockstep
  <2> QED BY <1>1, <1>6, <2>1, <2>2, SameAfter
<1>12. Lockstep'
  BY <1>1, <1>2, <1>10, <1>11 DEF Lockstep
<1> QED BY <1>1, <1>2, <1>4, <1>8, <1>9, <1>12, ThreadFacts

\* Everything a thread does at the barriers.
LEMMA AtBarrierControl ==
    ASSUME Control, NEW t \in Threads, AtBarrier(t)
    PROVE  Control'
<1>1. pc[t] \in Barriers /\ UNCHANGED <<pool, work>>
  BY DEF AtBarrier, Barriers
<1>2. CASE (Enter(t) \/ Arrive(t) \/ Reset(t)) /\ UNCHANGED <<pc, local>>
  BY <1>1, <1>2, ArrivingControl
<1>3. CASE Pass(t) /\ AfterBarrier(t)
  BY <1>1, <1>3, PassControl
<1>4. CASE Leave(t) /\ AfterBarrier(t)
  BY <1>1, <1>4, LeaveControl
<1>5. CASE bar[t].at = "out" /\ n_threads_cur = 1 /\ AfterBarrier(t) /\ UNCHANGED barrierVars
  BY <1>1, <1>5, AloneControl
<1> QED BY <1>2, <1>3, <1>4, <1>5 DEF AtBarrier

\* A step of ggml_graph_compute_thread()
LEMMA ComputeThreadControl ==
    ASSUME Control, NEW t \in Threads, ComputeThread(t)
    PROVE  Control'
<1>1. ASSUME NodeDone(t) PROVE Control'
  <2>1. CASE UNCHANGED <<abort, ec>>
    BY <1>1, <2>1, GoOnControl
  <2>2. CASE t = 0 /\ abort' = local[t].node + 1 /\ ec' = "aborted"
    BY <1>1, <2>2, AbortControl
  <2> QED BY <1>1, <2>1, <2>2 DEF NodeDone, AskCallback
<1> QED
  BY <1>1, BeginControl, NextNodeControl, LeaveLoopControl, FirstChunkControl, ComputePartControl,
     NextChunkControl, NoMorePartsControl, AtBarrierControl DEF ComputeThread

\* A step of a worker
LEMMA WorkerControl ==
    ASSUME Control, NEW w \in Workers, Worker(w)
    PROVE  Control'
<1>1. w \in Threads
  BY ThreadFacts DEF Control, Inv
<1> QED
  BY <1>1, WaitingControl, PollControl, PollNewControl, CheckForWorkControl, ComputeThreadControl
     DEF Worker

-----------------------------------------------------------------------------

\* A node always has a barrier after it.
LEMMA FromNotRest == \A k : From(k) # Rest
<1>1. \A k \in 0 .. NNodes - 1 : Mul(k) # Rest /\ End(k) # Rest
  BY Distinct
<1> QED BY Distinct DEF From, Mul, End, Rest, Last

\* Between two graphs no worker computes.
LEMMA Resting ==
    ASSUME Control, pc[0] \in Between
    PROVE  /\ bar[0].at = "out" /\ NextBarrier(0) = Rest
           /\ \A w \in Workers :
                 /\ Gone(w)
                 /\ w \in Active => local[w].last_graph = n_graph /\ pc[w] # "poll_new"
<1> USE DEF Control
<1>1. 0 \in Threads /\ Workers \subseteq Threads /\ 0 \notin Workers
  BY ThreadFacts DEF Inv
<1>2. bar[0].at = "out"
  BY <1>1 DEF ThreadOK, Between, Barriers
<1>3. NextBarrier(0) = Rest
  BY DEF NextBarrier, Fresh, Between
<1>4. ASSUME NEW w \in Workers PROVE Gone(w) /\ (w \in Active => ~ Fresh(w))
  <2>1. CASE w \notin Active
    BY <1>1, <2>1 DEF ThreadOK
  <2>2. CASE w \in Active
    <3>1. NextBarrier(w) = Rest /\ pc[w] \in Away \cup Inside /\ ThreadOK(w)
      BY <1>1, <1>3, <2>2 DEF Lockstep, PoolType
    <3>2. ~ Fresh(w)
      BY <3>1, FromNotRest DEF NextBarrier
    <3>3. \/ local[w].node < NNodes /\ local[w].node \in Nat
          \/ pc[w] \notin {"mul_mat", "mul_mat_barrier", "part", "next_chunk", "node_done", "barrier"}
      BY <1>1, <2>2, <3>1, ThreadPoolAssumption
         DEF ThreadOK, VariablesOK, Inside, PoolType, Locals
    <3>4. local[w].node \in 0 .. NNodes - 1 => Mul(local[w].node) # Rest /\ End(local[w].node) # Rest
      BY Distinct
    <3>5. NNodes \in Nat
      BY ThreadPoolAssumption
    <3>6. pc[w] \notin {"node", "begin", "mul_mat", "mul_mat_barrier", "part", "next_chunk",
                        "node_done", "barrier"}
      BY <3>1, <3>2, <3>3, <3>4, <3>5, FromNotRest DEF NextBarrier, Fresh
    <3>7. pc[w] = "last_barrier" => Released(w)
      BY <3>1, <3>2, Distinct DEF NextBarrier
    <3> QED BY <3>1, <3>2, <3>6, <3>7 DEF Gone, Inside
  <2> QED BY <2>1, <2>2
<1>5. ASSUME NEW w \in Workers, w \in Active
      PROVE  local[w].last_graph = n_graph /\ pc[w] # "poll_new"
  BY <1>1, <1>4, <1>5 DEF Fresh, WorkerOK
<1> QED BY <1>2, <1>3, <1>4, <1>5

\* A step of the main thread between two graphs.
LEMMA RestingStep ==
    ASSUME Control, pc[0] \in Between, Inv', PoolType', MainOK',
           Active' \subseteq Active, UNCHANGED <<n_barrier_passed, bar, local>>,
           \/ n_graph' = n_graph /\ pc'[0] \in Between
           \/ n_graph' = n_graph + 1 /\ pc'[0] = "kick_wake",
           \A w \in Workers : pc'[w] = pc[w] \/ {pc[w], pc'[w]} \subseteq Away \ {"poll_new"}
    PROVE  Control'
<1> USE DEF Control
<1>1. /\ 0 \in Threads /\ Workers \subseteq Threads /\ 0 \notin Workers
      /\ \A t \in Threads : t = 0 \/ t \in Workers
  BY ThreadFacts DEF Inv
<1>2. 0 \in Active' /\ Active' \subseteq Threads
  <2>1. n_threads_cur' \in 1 .. MaxThreads /\ MaxThreads \in Nat
    BY BarrierAssumption DEF Inv, BarrierTypeOK
  <2>2. Active' = 0 .. n_threads_cur' - 1 /\ Threads = 0 .. MaxThreads - 1
    BY DEF Active, Threads
  <2>3. \A n \in 1 .. MaxThreads : 0 \in 0 .. n - 1 /\ 0 .. n - 1 \subseteq 0 .. MaxThreads - 1
    BY <2>1
  <2> QED BY <2>1, <2>2, <2>3
<1>3. \A t : Released(t)' = Released(t)
  BY DEF Released
<1>4. ASSUME NEW w \in Workers
      PROVE  /\ Gone(w)' /\ WorkerOK(w)' /\ ThreadOK(w)'
             /\ w \in Active' => /\ local'[w].last_graph = n_graph
                                 /\ NextBarrier(w)' = IF n_graph' = n_graph THEN Rest ELSE From(0)'
  <2>1. Gone(w) /\ (w \in Active => local[w].last_graph = n_graph /\ pc[w] # "poll_new")
    BY Resting
  <2>2. Gone(w)'
    BY <1>3, <2>1 DEF Gone
  <2>3. w \in Active' => local'[w].last_graph = n_graph /\ pc'[w] # "poll_new"
    BY <2>1
  <2>4. n_graph \in Nat /\ local[w].last_graph \in Nat /\ local[w].new_graph \in Nat
    BY <1>1 DEF PoolType, Locals
  <2>5. WorkerOK(w)'
    BY <2>2, <2>3, <2>4 DEF WorkerOK
  <2>6. ThreadOK(w)'
    <3>1. bar'[w].at # "out" => pc'[w] \in Barriers
      BY <1>1 DEF ThreadOK, Barriers, Away
    <3>2. ~ (pc'[w] = "last_barrier" /\ ~ Released(w)') /\ pc'[w] \in Away \cup {"last_barrier"}
      BY <2>2 DEF Gone, Away
    <3>3. VariablesOK(w)'
      BY <2>2, <3>2 DEF VariablesOK, Inside, Away
    <3> QED BY <2>2, <3>1, <3>3 DEF ThreadOK
  <2>7. w \in Active' => NextBarrier(w)' = IF n_graph' = n_graph THEN Rest ELSE From(0)'
    <3> SUFFICES ASSUME w \in Active'
                 PROVE  NextBarrier(w)' = IF n_graph' = n_graph THEN Rest ELSE From(0)'
      OBVIOUS
    <3>1. Fresh(w)' <=> n_graph' # n_graph
      BY <1>1, <2>2, <2>3 DEF Fresh, Gone, Away
    <3> QED BY <2>2, <3>1 DEF NextBarrier, Gone, Away
  <2> QED BY <2>2, <2>3, <2>5, <2>6, <2>7
<1>5. ThreadOK(0)'
  BY <1>2, Resting DEF ThreadOK, VariablesOK, Inside, Between
<1>6. NextBarrier(0)' = IF n_graph' = n_graph THEN Rest ELSE From(0)'
  <2>1. n_graph \in Nat
    BY DEF PoolType
  <2> QED BY <2>1 DEF NextBarrier, Fresh, Between
<1>7. Lockstep'
  BY <1>1, <1>2, <1>4, <1>6 DEF Lockstep
<1> QED BY <1>1, <1>4, <1>5, <1>7

\* What the main thread does on its own, and nobody notices.
LEMMA BetweenStep ==
    ASSUME Control, pc[0] \in Between, NEW where \in Between \cup {"kick_wake"}, Goto(0, where)
    PROVE  /\ pc' \in [Threads -> Away \cup Between \cup {"kick_wake"} \cup Inside]
           /\ pc'[0] = where /\ pc'[0] \notin Away
           /\ \A w \in Workers : pc'[w] = pc[w] /\ pc'[w] \in Away \cup Inside
<1>1. 0 \in Threads /\ Workers \subseteq Threads /\ 0 \notin Workers
  BY ThreadFacts DEF Control, Inv
<1> QED BY <1>1 DEF Control, Goto, PoolType, Between, Away

\* The main thread between two graphs: nobody is in the computation, so it may
\* reset the parameters, ...
LEMMA SetUpControl == Control /\ SetUp => Control'
<1> SUFFICES ASSUME Control, SetUp PROVE Control'
  OBVIOUS
<1> USE DEF Control
<1>1. /\ pc[0] = "idle" /\ n_graph < MaxGraphs /\ Goto(0, "kick")
      /\ cgraph' = n_graph + 1 /\ current_chunk' = 0 /\ abort' = -1 /\ ec' = "success" /\ parts' = {}
      /\ UNCHANGED <<barrierVars, pool, local>>
  BY DEF SetUp
<1>2. Inv' /\ Active' = Active
  BY <1>1, NextInv, SameBarrier
<1>3. /\ pc' \in [Threads -> Away \cup Between \cup {"kick_wake"} \cup Inside]
      /\ pc'[0] = "kick" /\ pc'[0] \notin Away
      /\ \A w \in Workers : pc'[w] = pc[w] /\ pc'[w] \in Away \cup Inside
  BY <1>1, BetweenStep DEF Between
<1>4. PoolType'
  BY <1>1, <1>3 DEF PoolType, pool
<1>5. MainOK'
  BY <1>1, <1>3 DEF MainOK, AbortOK, pool
<1> QED BY <1>1, <1>2, <1>3, <1>4, <1>5, RestingStep DEF Between, pool, barrierVars

\* The threads of the next graph are among those of the last, and nobody is
\* held by the barrier when their number changes.
LEMMA KickThreadsFacts ==
    ASSUME Control, ~ Growing, KickThreads
    PROVE  Quiet /\ \E n \in 1 .. MaxThreads : n <= n_threads_cur /\ SetThreads(n)
<1> USE DEF Control
<1>1. pc[0] \in Between
  BY DEF KickThreads, Between
<1>2. BarrierTypeOK
  BY DEF Inv
<1>3. ASSUME NEW t \in Threads PROVE bar[t].at = "out" \/ Released(t)
  <2>1. CASE t = 0
    BY <1>1, <2>1, Resting
  <2>2. CASE t \in Workers
    <3>1. Gone(t)
      BY <1>1, <2>2, Resting
    <3> QED BY <3>1 DEF Gone, ThreadOK, Barriers, Away
  <2> QED BY <1>2, <2>1, <2>2, ThreadFacts
<1>4. PICK n \in Counts : /\ n_threads_cur \in {n, MaxThreads} \/ n < n_threads_cur
                          /\ SetThreads(NumThreads(n))
  BY DEF KickThreads
<1>5. n \in Nat \ {0} /\ MaxThreads \in Nat \ {0} /\ n_threads_cur \in 1 .. MaxThreads
  BY <1>2, ThreadPoolAssumption, BarrierAssumption DEF BarrierTypeOK
<1>6. NumThreads(n) \in 1 .. MaxThreads /\ NumThreads(n) <= n_threads_cur
  BY <1>4, <1>5 DEF NumThreads
<1> QED BY <1>3, <1>4, <1>6 DEF Quiet

\* ... set the number of threads (no thread that sleeps through a smaller graph
\* becomes active with it: ~ Growing), ...
LEMMA KickThreadsControl == Control /\ ~ Growing /\ KickThreads => Control'
<1> SUFFICES ASSUME Control, ~ Growing, KickThreads PROVE Control'
  OBVIOUS
<1> USE DEF Control
<1>1. pc[0] = "kick" /\ Goto(0, "kick_graph") /\ UNCHANGED <<pool, work, local>>
  BY DEF KickThreads
<1>2. PICK n \in 1 .. MaxThreads : n <= n_threads_cur /\ SetThreads(n)
  BY KickThreadsFacts
<1>3. Inv'
  BY KickThreadsFacts, SetThreadsInv
<1>4. UNCHANGED <<n_barrier_passed, bar>> /\ Active' \subseteq Active
  <2>1. n_threads_cur \in Nat /\ n_threads_cur' = n /\ n \in Nat
    BY <1>2, ThreadFacts, BarrierAssumption DEF Inv, SetThreads
  <2> QED BY <1>2, <2>1 DEF SetThreads, Active
<1>5. /\ pc' \in [Threads -> Away \cup Between \cup {"kick_wake"} \cup Inside]
      /\ pc'[0] = "kick_graph" /\ pc'[0] \notin Away
      /\ \A w \in Workers : pc'[w] = pc[w] /\ pc'[w] \in Away \cup Inside
  BY <1>1, BetweenStep DEF Between
<1>6. PoolType'
  BY <1>1, <1>5 DEF PoolType, pool, work
<1>7. MainOK'
  BY <1>1, <1>5 DEF MainOK, AbortOK, pool, work
<1> QED BY <1>1, <1>3, <1>4, <1>5, <1>6, <1>7, RestingStep DEF Between, pool

\* ... publish the graph, which makes every active worker fresh, ...
LEMMA KickGraphControl == Control /\ KickGraph => Control'
<1> SUFFICES ASSUME Control, KickGraph PROVE Control'
  OBVIOUS
<1> USE DEF Control
<1>1. /\ pc[0] = "kick_graph" /\ Goto(0, "kick_wake") /\ n_graph' = n_graph + 1
      /\ UNCHANGED <<barrierVars, stop, pause, work, local>>
  BY DEF KickGraph
<1>2. Inv' /\ Active' = Active
  BY <1>1, NextInv, SameBarrier
<1>3. /\ pc' \in [Threads -> Away \cup Between \cup {"kick_wake"} \cup Inside]
      /\ pc'[0] = "kick_wake" /\ pc'[0] \notin Away
      /\ \A w \in Workers : pc'[w] = pc[w] /\ pc'[w] \in Away \cup Inside
  BY <1>1, BetweenStep DEF Between
<1>4. PoolType'
  BY <1>1, <1>3 DEF PoolType, work
<1>5. MainOK'
  BY <1>1, <1>3, ThreadPoolAssumption DEF MainOK, AbortOK, PoolType, work
<1> QED BY <1>1, <1>2, <1>3, <1>4, <1>5, RestingStep DEF Between, barrierVars

\* ... and join the workers.
LEMMA JoinControl == Control /\ Join => Control'
<1> SUFFICES ASSUME Control, Join PROVE Control'
  OBVIOUS
<1> USE DEF Control
<1>1. pc[0] = "join" /\ Goto(0, "freed") /\ UNCHANGED <<barrierVars, pool, work, local>>
  BY DEF Join
<1>2. Inv' /\ Active' = Active
  BY <1>1, NextInv, SameBarrier
<1>3. /\ pc' \in [Threads -> Away \cup Between \cup {"kick_wake"} \cup Inside]
      /\ pc'[0] = "freed" /\ pc'[0] \notin Away
      /\ \A w \in Workers : pc'[w] = pc[w] /\ pc'[w] \in Away \cup Inside
  BY <1>1, BetweenStep DEF Between
<1>4. PoolType'
  BY <1>1, <1>3 DEF PoolType, pool, work
<1>5. MainOK'
  BY <1>1, <1>3 DEF MainOK, AbortOK, pool, work
<1> QED BY <1>1, <1>2, <1>3, <1>4, <1>5, RestingStep DEF Between, pool, barrierVars

-----------------------------------------------------------------------------

\* A broadcast moves the workers that sleep, and the main thread.
LEMMA BroadcastFacts ==
    ASSUME Control, NEW where \in Between \cup {"begin"}, Broadcast(where)
    PROVE  /\ pc' \in [Threads -> Away \cup Between \cup {"kick_wake"} \cup Inside]
           /\ pc'[0] = where /\ pc'[0] \notin Away
           /\ \A w \in Workers : /\ pc'[w] \in Away \cup Inside
                                 /\ pc'[w] = pc[w] \/ {pc[w], pc'[w]} \subseteq Away \ {"poll_new"}
<1> USE DEF Control
<1>1. 0 \in Threads /\ Workers \subseteq Threads /\ 0 \notin Workers
      /\ \A t \in Threads : t = 0 \/ t \in Workers
  BY ThreadFacts DEF Inv
<1>2. pc'[0] = where
  BY <1>1 DEF Broadcast
<1>3. ASSUME NEW w \in Workers
      PROVE  \/ pc[w] = "asleep" /\ pc'[w] = "lock"
             \/ pc[w] = "pause_wait" /\ pc'[w] = "pause_wake"
             \/ pc'[w] = pc[w]
  BY <1>1 DEF Broadcast
<1>4. ASSUME NEW w \in Workers
      PROVE  pc'[w] \in Away \cup Inside
             /\ (pc'[w] = pc[w] \/ {pc[w], pc'[w]} \subseteq Away \ {"poll_new"})
  BY <1>3 DEF PoolType, Away
<1>5. pc' = [t \in Threads |-> pc'[t]]
  BY DEF Broadcast
<1>6. where \notin Away
  BY DEF Between, Away
<1>7. \A t \in Threads : pc'[t] \in Away \cup Between \cup {"kick_wake"} \cup Inside
  BY <1>1, <1>2, <1>4 DEF Inside
<1> QED BY <1>2, <1>4, <1>5, <1>6, <1>7

\* ggml_threadpool_pause(), _resume() and _free()
LEMMA BroadcastControl ==
    ASSUME Control, pc[0] = "idle", NEW where \in {"idle", "join"}, Broadcast(where),
           stop' \in BOOLEAN, pause' \in BOOLEAN, UNCHANGED <<barrierVars, n_graph, work, local>>
    PROVE  Control'
<1> USE DEF Control
<1>1. Inv' /\ Active' = Active
  BY NextInv, SameBarrier
<1>2. /\ pc' \in [Threads -> Away \cup Between \cup {"kick_wake"} \cup Inside]
      /\ pc'[0] = where /\ pc'[0] \notin Away
      /\ \A w \in Workers : /\ pc'[w] \in Away \cup Inside
                            /\ pc'[w] = pc[w] \/ {pc[w], pc'[w]} \subseteq Away \ {"poll_new"}
  BY BroadcastFacts DEF Between
<1>3. PoolType'
  BY <1>2 DEF PoolType, work
<1>4. MainOK'
  BY <1>2 DEF MainOK, AbortOK, work
<1> QED BY <1>1, <1>2, <1>3, <1>4, RestingStep DEF Between, barrierVars

\* The graph is kicked off: the main thread and the workers go to its first barrier.
LEMMA KickWakeControl == Control /\ KickWake => Control'
<1> SUFFICES ASSUME Control, KickWake PROVE Control'
  OBVIOUS
<1> USE DEF Control
<1>1. /\ pc[0] = "kick_wake" /\ pause' = FALSE /\ Broadcast("begin")
      /\ UNCHANGED <<barrierVars, n_graph, stop, work, local>>
  BY DEF KickWake
<1>2. Inv' /\ Active' = Active /\ \A u : Released(u)' = Released(u)
  BY <1>1, NextInv, SameBarrier
<1>3. /\ 0 \in Threads /\ Workers \subseteq Threads /\ 0 \notin Workers
      /\ 0 \in Active /\ Active \subseteq Threads /\ \A t \in Threads : t = 0 \/ t \in Workers
  BY ThreadFacts DEF Inv
<1>4. /\ pc' \in [Threads -> Away \cup Between \cup {"kick_wake"} \cup Inside]
      /\ pc'[0] = "begin" /\ pc'[0] \notin Away
      /\ \A w \in Workers : /\ pc'[w] \in Away \cup Inside
                            /\ pc'[w] = pc[w] \/ {pc[w], pc'[w]} \subseteq Away \ {"poll_new"}
  BY <1>1, BroadcastFacts
<1>5. PoolType'
  BY <1>1, <1>4 DEF PoolType, work
<1>6. MainOK'
  BY <1>1, <1>4 DEF MainOK, AbortOK, work
<1>7. ASSUME NEW w \in Workers
      PROVE  /\ Gone(w)' = Gone(w) /\ Fresh(w)' = Fresh(w) /\ WorkerOK(w)' /\ ThreadOK(w)'
             /\ NextBarrier(w)' = NextBarrier(w)
  <2>1. CASE pc'[w] = pc[w]
    <3>1. Gone(w)' = Gone(w) /\ Fresh(w)' = Fresh(w)
      BY <1>1, <1>2, <2>1 DEF Gone, Fresh
    <3> QED
      BY <1>1, <1>2, <1>3, <2>1, <3>1
         DEF WorkerOK, ThreadOK, VariablesOK, NextBarrier, From, Leaving, barrierVars, work
  <2>2. CASE {pc[w], pc'[w]} \subseteq Away \ {"poll_new"}
    <3>1. Gone(w) /\ Gone(w)' /\ Fresh(w)' = Fresh(w)
      BY <1>1, <1>3, <2>2 DEF Gone, Fresh, Away
    <3>2. bar[w].at = "out" /\ bar' = bar
      BY <1>1, <1>3, <2>2 DEF ThreadOK, Barriers, Away, barrierVars
    <3>3. VariablesOK(w)'
      BY <2>2, <3>1 DEF VariablesOK, Inside, Away
    <3>4. NextBarrier(w)' = NextBarrier(w)
      BY <1>1, <2>2, <3>1 DEF NextBarrier, Away, From, Leaving, work
    <3>5. WorkerOK(w)'
      BY <1>1, <1>2, <2>2, <3>1 DEF WorkerOK
    <3> QED BY <3>1, <3>2, <3>3, <3>4, <3>5 DEF ThreadOK
  <2> QED BY <1>4, <2>1, <2>2
<1>8. ThreadOK(0)'
  <2>1. bar'[0].at = "out"
    BY <1>1, <1>3 DEF ThreadOK, Barriers, barrierVars
  <2> QED BY <1>2, <1>3, <1>4, <2>1 DEF ThreadOK, VariablesOK, Inside
<1>9. NextBarrier(0)' = NextBarrier(0)
  BY <1>1, <1>4 DEF NextBarrier, Fresh, From, Leaving, work
<1>10. Lockstep'
  BY <1>2, <1>3, <1>7, <1>9 DEF Lockstep
<1> QED BY <1>2, <1>3, <1>5, <1>6, <1>7, <1>8, <1>10

\* Nothing happens.
LEMMA StutterControl == Control /\ UNCHANGED vars => Control'
<1> SUFFICES ASSUME Control, UNCHANGED vars PROVE Control'
  OBVIOUS
<1> USE DEF Control
<1>1. UNCHANGED <<barrierVars, n_graph, stop, pause, abort, ec, current_chunk, cgraph, parts, pc, local>>
  BY DEF vars, pool, work
<1>2. Inv' /\ Active' = Active /\ \A t : Released(t)' = Released(t)
  BY <1>1, NextInv, SameBarrier
<1>3. \A t : Gone(t)' = Gone(t) /\ Fresh(t)' = Fresh(t)
  BY <1>1, <1>2 DEF Gone, Fresh
<1>4. \A t : NextBarrier(t)' = NextBarrier(t)
  BY <1>1, <1>2, <1>3 DEF NextBarrier, From, Leaving
<1>5. \A t : VariablesOK(t)' = VariablesOK(t)
  BY <1>1, <1>2, <1>3 DEF VariablesOK, Leaving, barrierVars
<1>6. PoolType' /\ MainOK'
  BY <1>1 DEF PoolType, MainOK, AbortOK
<1> QED
  BY <1>1, <1>2, <1>3, <1>4, <1>5, <1>6 DEF ThreadOK, WorkerOK, Lockstep, barrierVars

\* Control is inductive.
LEMMA NextControl == ~ Growing /\ Control /\ [Next]_vars => Control'
<1> SUFFICES ASSUME ~ Growing, Control, [Next]_vars PROVE Control'
  OBVIOUS
<1>1. CASE SetUp \/ KickThreads \/ KickGraph \/ KickWake \/ Join
  BY <1>1, SetUpControl, KickThreadsControl, KickGraphControl, KickWakeControl, JoinControl
<1>2. ASSUME NEW value \in BOOLEAN, SetPause(value) PROVE Control'
  BY <1>2, BroadcastControl DEF SetPause, Control, PoolType
<1>3. CASE FreePool
  BY <1>3, BroadcastControl DEF FreePool
<1>4. CASE ComputeThread(0)
  <2>1. 0 \in Threads
    BY ThreadFacts DEF Control, Inv
  <2> QED BY <1>4, <2>1, ComputeThreadControl
<1>5. ASSUME NEW w \in Workers, Worker(w) PROVE Control'
  BY <1>5, WorkerControl
<1>6. CASE UNCHANGED vars
  BY <1>6, StutterControl
<1> QED BY <1>1, <1>2, <1>3, <1>4, <1>5, <1>6 DEF Next, Main, MainGoesOn, Freed

-----------------------------------------------------------------------------

\* Every step of the pool is a step of the barrier as it is meant to be used, or
\* does not touch it.
LEMMA NextBarrierNext == ~ Growing /\ Control /\ [Next]_vars => [BarrierNext]_barrierVars
<1> SUFFICES ASSUME ~ Growing, Control, [Next]_vars PROVE [BarrierNext]_barrierVars
  OBVIOUS
<1>1. 0 \in Threads /\ Workers \subseteq Threads
  BY ThreadFacts DEF Control, Inv
<1>2. ASSUME NEW t \in Threads, ComputeThread(t) PROVE [BarrierNext]_barrierVars
  <2>1. CASE AtBarrier(t)
    <3>1. pc[t] \in Barriers
      BY <2>1 DEF AtBarrier, Barriers
    <3>2. Enter(t) => t \in Active
      BY <3>1, HeldFacts DEF Enter, Released
    <3> QED BY <2>1, <3>2 DEF AtBarrier, BarrierNext
  <2>2. CASE UNCHANGED barrierVars
    BY <2>2
  <2> QED
    BY <1>2, <2>1, <2>2
       DEF ComputeThread, Begin, NextNode, LeaveLoop, FirstChunk, ComputePart, NextChunk,
           NoMoreParts, NodeDone
<1>3. CASE KickThreads
  <2>1. Quiet /\ \E n \in 1 .. MaxThreads : SetThreads(n)
    BY <1>3, KickThreadsFacts
  <2> QED BY <2>1 DEF BarrierNext
<1>4. CASE SetUp \/ (\E value \in BOOLEAN : SetPause(value)) \/ FreePool \/ KickGraph \/ KickWake \/ Join
  BY <1>4 DEF SetUp, SetPause, FreePool, KickGraph, KickWake, Join
<1>5. ASSUME NEW w \in Workers, Worker(w) PROVE [BarrierNext]_barrierVars
  <2>1. CASE ComputeThread(w)
    BY <1>1, <1>2, <2>1
  <2>2. CASE PauseLoop(w) \/ StopCheck(w) \/ PollCheck(w) \/ Poll(w) \/ PollNew(w) \/ CheckForWork(w)
    BY <2>2 DEF PauseLoop, StopCheck, PollCheck, Poll, PollNew, CheckForWork, Idling
  <2> QED BY <1>5, <2>1, <2>2 DEF Worker
<1>6. CASE UNCHANGED vars
  BY <1>6 DEF vars
<1> QED BY <1>1, <1>2, <1>3, <1>4, <1>5, <1>6 DEF Next, Main, MainGoesOn, Freed

\* The threads are where Control says in every state: all active threads of the
\* pool are on their way to the same barrier, with the graph and the number of
\* threads of now.
THEOREM PoolInv == ~ Growing => (Spec => []Control)
<1> SUFFICES ASSUME ~ Growing PROVE Spec => []Control
  OBVIOUS
<1>1. Control /\ [Next]_vars => Control'
  BY NextControl
<1> QED BY <1>1, InitControl, PTL DEF Spec

\* The pool keeps to the conditions under which ggml_barrier() works: only the
\* threads of the graph come to it, and their number changes while nobody waits.
THEOREM PoolKeepsToBarrier == ~ Growing => (Spec => PoolUsesBarrier)
<1> SUFFICES ASSUME ~ Growing PROVE Spec => BarrierSpec
  BY DEF PoolUsesBarrier
<1>1. Control /\ [Next]_vars => [BarrierNext]_barrierVars
  BY NextBarrierNext
<1>2. Init => BarrierInit
  BY DEF Init
<1>3. Spec => []Control
  BY PoolInv
<1> QED BY <1>1, <1>2, <1>3, PTL DEF Spec, BarrierSpec

\* "No worker threads should be accessing the parameters below at this stage": when
\* ggml_graph_compute() sets up a graph, no worker computes the last one any more.
THEOREM NobodyAtSetUp == ~ Growing => (Spec => []NoWorkerAtSetUp)
<1> SUFFICES ASSUME ~ Growing PROVE Spec => []NoWorkerAtSetUp
  OBVIOUS
<1>1. Control => NoWorkerAtSetUp
  <2> SUFFICES ASSUME Control, pc[0] = "idle", NEW w \in Workers PROVE ~ Computing(w)
    BY DEF NoWorkerAtSetUp
  <2>1. Gone(w)
    BY Resting DEF Between
  <2> QED BY <2>1 DEF Gone, Away, Computing
<1> QED BY <1>1, PoolInv, PTL

-----------------------------------------------------------------------------
(***************************************************************************)
(* The parts of the current graph.                                         *)
(***************************************************************************)

\* A thread that has its first part of the node before its next barrier ahead of it.
Ahead(t) ==
    \/ Fresh(t)
    \/ pc[t] = "node" /\ ~ Leaving(local[t].node)
    \/ pc[t] \in {"mul_mat", "mul_mat_barrier"}
    \/ pc[t] = "barrier" /\ Released(t) /\ ~ Leaving(local[t].node + 1)

\* The part a thread is about to compute, ...
Drawn(t) == IF pc[t] = "part" THEN {local[t].chunk} ELSE {}

\* ... those that nobody else may compute, ...
Claims(t) == IF Ahead(t) THEN {t} ELSE Drawn(t)

\* ... and a thread that will compute no more of the node.
Past(t) == ~ Ahead(t) /\ pc[t] \notin {"part", "next_chunk"}

\* Every part of node k is computed.
WholeNode(k) == {k} \X Parts(k, n_threads_cur) \subseteq parts

\* The first n nodes are whole, and nothing else is computed.
Computed(n) ==
    /\ \A k \in 0 .. n - 1 : WholeNode(k)
    /\ \A p \in parts : p[1] < n

\* The threads compute node n, or have computed it and go to the barrier after it.
WorkOn(n) == NextBarrier(0) = End(n) /\ (n = NNodes - 1 => abort \in {-1, NNodes})

\* Chunks of node n are drawn from the shared counter.
OnDemand(n) == n \in MulMats /\ n_threads_cur < Chunks

\* The parts of the last graph are gone before the number of threads changes.
Cleared == pc[0] \in {"kick", "kick_graph"} => parts = {}

\* Only parts that the nodes have are computed.
PartsFit == \A p \in parts : p[2] \in Parts(p[1], n_threads_cur)

\* At the barrier in a matrix product, everything before it is computed and
\* nothing of it.
BeforeMul == \A n \in 0 .. NNodes - 1 : NextBarrier(0) = Mul(n) => Computed(n)

\* Aborted before the last node: everything before that node is computed, and no
\* thread will compute more.
AfterAbort ==
    NextBarrier(0) = Last /\ abort \in 1 .. NNodes - 1 =>
        Computed(abort) /\ \A t \in Active : Past(t)

\* A part is computed or claimed by at most one thread, and the first part of a
\* thread is not forgotten.
Share(n) ==
    /\ \A k \in 0 .. n - 1 : WholeNode(k)
    /\ \A p \in parts : p[1] <= n
    /\ \A t \in Active :
         /\ \A c \in Claims(t) : <<n, c>> \notin parts
         /\ <<n, t>> \in parts \/ t \in Claims(t)
    /\ \A t, u \in Active : t # u => Claims(t) \cap Claims(u) = {}

\* The threads that have found the node to have no more chunks.
Over == {t \in Active : Past(t) \/ \E c \in Drawn(t) : c >= Chunks}

\* The counter is past every chunk that is drawn, and every chunk it is past is
\* computed or drawn.
Draw(n) ==
    /\ current_chunk >= n_threads_cur
    /\ \A p \in parts : p[1] = n => p[2] < current_chunk
    /\ \A t \in Active : \A c \in Drawn(t) : c < current_chunk
    /\ OnDemand(n) =>
        /\ \A c \in n_threads_cur .. current_chunk - 1 : c < Chunks =>
              <<n, c>> \in parts \/ \E u \in Active : c \in Drawn(u)
        /\ (\E t \in Active : Past(t)) => current_chunk >= Chunks
        /\ current_chunk <= Chunks + Cardinality(Over)

\* What is said above of the node the threads are at.
Working == \A n \in 0 .. NNodes - 1 : WorkOn(n) => Share(n) /\ (n \in MulMats => Draw(n))

\* The counter is set when the main thread waits in a matrix product, and overruns
\* by no more than the threads.
CounterSet ==
    /\ pc[0] = "mul_mat_barrier" /\ ~ Released(0) => current_chunk = n_threads_cur
    /\ current_chunk <= MaxThreads + Chunks

\* What a graph leaves behind.
Returned ==
    NextBarrier(0) = Rest /\ pc[0] \notin {"kick", "kick_graph"} /\ n_graph > 0 =>
        Computed(IF abort = -1 THEN NNodes ELSE abort)

\* The second layer: what is computed, and by whom the rest will be.
PartsInv ==
    Cleared /\ PartsFit /\ BeforeMul /\ AfterAbort /\ Working /\ CounterSet /\ Returned

\* What is said of the parts depends on the parts, the counter and what the threads
\* claim.
LEMMA SameShare ==
    ASSUME UNCHANGED <<n_threads_cur, parts, current_chunk>>,
           \A t \in Active : Ahead(t)' = Ahead(t) /\ Drawn(t)' = Drawn(t) /\ Past(t)' = Past(t)
    PROVE  \A n : (Share(n) => Share(n)') /\ (Draw(n) => Draw(n)') /\ (Computed(n)' = Computed(n))
<1>1. Active' = Active
  BY DEF Active
<1>2. \A t \in Active : Claims(t)' = Claims(t)
  BY DEF Claims
<1>3. \A k : WholeNode(k)' = WholeNode(k)
  BY DEF WholeNode
<1>4. \A n : Computed(n)' = Computed(n)
  BY <1>3 DEF Computed
<1>5. \A n : OnDemand(n)' = OnDemand(n)
  BY DEF OnDemand
<1>6. \A n : Share(n) => Share(n)'
  BY <1>1, <1>2, <1>3 DEF Share
<1>7. Over' = Over
  BY <1>1 DEF Over
<1>8. \A n : Draw(n) => Draw(n)'
  BY <1>1, <1>5, <1>7 DEF Draw
<1> QED BY <1>4, <1>6, <1>8

\* A step that changes none of these
LEMMA SameParts ==
    ASSUME PartsInv, UNCHANGED <<n_threads_cur, n_graph, abort, parts, current_chunk>>,
           NextBarrier(0)' = NextBarrier(0),
           pc'[0] \in {"kick", "kick_graph"} <=> pc[0] \in {"kick", "kick_graph"},
           pc'[0] = "mul_mat_barrier" /\ ~ Released(0)' =>
              pc[0] = "mul_mat_barrier" /\ ~ Released(0),
           \A t \in Active : Ahead(t)' = Ahead(t) /\ Drawn(t)' = Drawn(t) /\ Past(t)' = Past(t)
    PROVE  PartsInv'
<1> USE DEF PartsInv
<1>1. Active' = Active
  BY DEF Active
<1>2. \A n : (Share(n) => Share(n)') /\ (Draw(n) => Draw(n)') /\ (Computed(n)' = Computed(n))
  BY SameShare
<1>3. \A n : WorkOn(n)' = WorkOn(n)
  BY DEF WorkOn
<1>4. Working'
  BY <1>2, <1>3 DEF Working
<1>5. Cleared' /\ PartsFit' /\ BeforeMul' /\ AfterAbort' /\ CounterSet' /\ Returned'
  BY <1>1, <1>2 DEF Cleared, PartsFit, BeforeMul, AfterAbort, CounterSet, Returned
<1> QED BY <1>4, <1>5

\* The parts of a thread that does not move.
LEMMA SameView ==
    ASSUME NEW u, pc'[u] = pc[u], local'[u] = local[u], bar'[u] = bar[u],
           UNCHANGED <<n_graph, n_barrier_passed, abort>>
    PROVE  /\ Ahead(u)' = Ahead(u) /\ Drawn(u)' = Drawn(u) /\ Past(u)' = Past(u)
           /\ NextBarrier(u)' = NextBarrier(u) /\ Released(u)' = Released(u)
<1>1. Released(u)' = Released(u)
  BY DEF Released
<1>2. Fresh(u)' = Fresh(u)
  BY <1>1 DEF Fresh, Gone
<1>3. Ahead(u)' = Ahead(u)
  BY <1>1, <1>2 DEF Ahead, Leaving
<1>4. Drawn(u)' = Drawn(u)
  BY DEF Drawn
<1>5. Past(u)' = Past(u)
  BY <1>3 DEF Past
<1>6. NextBarrier(u)' = NextBarrier(u)
  BY <1>1, <1>2 DEF NextBarrier, From, Leaving
<1> QED BY <1>1, <1>3, <1>4, <1>5, <1>6

\* A step of one thread that has no part in the graph's parts.
LEMMA SteadyStep ==
    ASSUME Control, PartsInv, NEW t \in Threads,
           UNCHANGED <<n_threads_cur, n_barrier_passed, n_graph, abort, parts, current_chunk>>,
           \A u \in Threads \ {t} : pc'[u] = pc[u] /\ local'[u] = local[u] /\ bar'[u] = bar[u],
           t = 0 => /\ NextBarrier(0)' = NextBarrier(0)
                    /\ {pc[0], pc'[0]} \cap {"kick", "kick_graph"} = {}
                    /\ pc'[0] = "mul_mat_barrier" /\ ~ Released(0)' =>
                          pc[0] = "mul_mat_barrier" /\ ~ Released(0),
           t \in Active => Ahead(t)' = Ahead(t) /\ Drawn(t)' = Drawn(t) /\ Past(t)' = Past(t)
    PROVE  PartsInv'
<1>1. 0 \in Threads /\ Active \subseteq Threads
  BY ThreadFacts DEF Control, Inv
<1>2. ASSUME NEW u \in Threads \ {t}
      PROVE  /\ Ahead(u)' = Ahead(u) /\ Drawn(u)' = Drawn(u) /\ Past(u)' = Past(u)
             /\ NextBarrier(u)' = NextBarrier(u) /\ Released(u)' = Released(u)
  BY <1>2, SameView
<1>3. \A u \in Active : Ahead(u)' = Ahead(u) /\ Drawn(u)' = Drawn(u) /\ Past(u)' = Past(u)
  BY <1>1, <1>2
<1>4. NextBarrier(0)' = NextBarrier(0)
  BY <1>1, <1>2
<1>5. pc'[0] \in {"kick", "kick_graph"} <=> pc[0] \in {"kick", "kick_graph"}
  BY <1>1
<1>6. pc'[0] = "mul_mat_barrier" /\ ~ Released(0)' => pc[0] = "mul_mat_barrier" /\ ~ Released(0)
  BY <1>1, <1>2
<1> QED BY <1>3, <1>4, <1>5, <1>6, SameParts

\* A worker outside the computation has a part ahead of it exactly when a graph
\* is under way.
LEMMA AwayView ==
    ASSUME Lockstep, NEW w \in Workers, w # 0, w \in Active, pc[w] \in Away \cup {"begin"}
    PROVE  /\ Ahead(w) <=> NextBarrier(0) # Rest
           /\ Past(w) <=> NextBarrier(0) = Rest
           /\ Drawn(w) = {}
<1>1. NextBarrier(w) = NextBarrier(0)
  BY DEF Lockstep
<1>2. Fresh(w) <=> NextBarrier(w) # Rest
  BY FromNotRest DEF NextBarrier, Fresh, Away
<1>3. Ahead(w) <=> Fresh(w)
  BY DEF Ahead, Away, Fresh
<1> QED BY <1>1, <1>2, <1>3 DEF Past, Drawn, Away

\* A worker outside the computation claims its first part as long as it has not
\* seen the graph.
LEMMA AwayParts ==
    ASSUME Control, PartsInv, Control', NEW w \in Workers, pc[w] \in Away,
           NEW where \in Away \cup {"begin"}, Goto(w, where),
           UNCHANGED <<barrierVars, pool, work>>, \A u \in Threads \ {w} : local'[u] = local[u]
    PROVE  PartsInv'
<1>1. w \in Threads /\ w # 0 /\ 0 \in Threads
  BY ThreadFacts DEF Control, Inv
<1>2. pc'[w] = where /\ \A u \in Threads \ {w} : pc'[u] = pc[u]
  BY <1>1, MovedTo DEF Control
<1>3. UNCHANGED <<n_threads_cur, n_barrier_passed, bar, n_graph, abort, parts, current_chunk>>
  BY DEF barrierVars, pool, work
<1>4. NextBarrier(0)' = NextBarrier(0)
  BY <1>1, <1>2, <1>3, SameView
<1>5. ASSUME w \in Active
      PROVE  Ahead(w)' = Ahead(w) /\ Drawn(w)' = Drawn(w) /\ Past(w)' = Past(w)
  <2>1. w \in Active'
    BY <1>3, <1>5 DEF Active
  <2>2. /\ Ahead(w) <=> NextBarrier(0) # Rest
        /\ Past(w) <=> NextBarrier(0) = Rest
        /\ Drawn(w) = {}
    BY <1>1, <1>5, AwayView DEF Control
  <2>3. Lockstep'
    BY DEF Control
  <2>4. NextBarrier(w)' = NextBarrier(0)'
    BY <2>1, <2>3 DEF Lockstep
  <2>5. Fresh(w)' <=> NextBarrier(w)' # Rest
    <3>1. NextBarrier(w)' = IF Fresh(w)' THEN From(0)' ELSE Rest
      BY <1>2 DEF NextBarrier, Fresh, Away
    <3>2. From(0)' # Rest
      <4>1. From(0)' = From(0)
        BY <1>3, SameFrom
      <4> QED BY <4>1, FromNotRest
    <3> QED BY <3>1, <3>2
  <2>6. (Ahead(w)' <=> Fresh(w)') /\ Drawn(w)' = {}
    BY <1>2 DEF Ahead, Away, Fresh, Drawn
  <2>7. Past(w)' <=> ~ Ahead(w)'
    BY <1>2 DEF Past, Away
  <2> QED BY <1>4, <2>2, <2>4, <2>5, <2>6, <2>7 DEF Past, Ahead
<1> QED BY <1>1, <1>2, <1>3, <1>5, SteadyStep

\* Everything a worker does outside the computation.
LEMMA WaitingParts ==
    ASSUME Control, PartsInv, NEW w \in Workers,
           \/ PauseLoop(w) \/ StopCheck(w) \/ PollCheck(w) \/ Poll(w) \/ PollNew(w)
           \/ CheckForWork(w)
    PROVE  PartsInv'
<1>1. Control'
  BY WaitingControl, PollControl, PollNewControl, CheckForWorkControl
<1>2. w \in Threads /\ PoolType
  BY ThreadFacts DEF Control, Inv
<1>3. \A graph : Seen(w, graph) => \A u \in Threads \ {w} : local'[u] = local[u]
  BY <1>2 DEF Seen, PoolType
<1>4. UNCHANGED <<barrierVars, pool, work>>
  BY DEF PauseLoop, StopCheck, PollCheck, Poll, PollNew, CheckForWork, Idling
<1>5. \A u \in Threads \ {w} : local'[u] = local[u]
  BY <1>2, <1>3 DEF PauseLoop, StopCheck, PollCheck, Poll, PollNew, CheckForWork, Idling, PoolType
<1>6. PICK where \in Away \cup {"begin"} : pc[w] \in Away /\ Goto(w, where)
  <2>1. {"pause", "pause_lock", "pause_wait", "pause_wake", "stop", "active", "poll", "poll_new",
         "lock", "exited", "asleep"} \subseteq Away
    BY DEF Away
  <2> QED BY <2>1 DEF PauseLoop, StopCheck, PollCheck, Poll, PollNew, CheckForWork, Idling
<1> QED BY <1>1, <1>4, <1>5, <1>6, AwayParts

\* A step inside the computation by which no part is claimed or computed.
LEMMA SteadyCompute ==
    ASSUME Control, PartsInv, NEW t \in Threads, pc[t] \in Inside \ Barriers,
           NEW where \in Inside \ {"begin", "mul_mat_barrier"}, Goto(t, where),
           NextBarrier(t)' = NextBarrier(t),
           UNCHANGED <<barrierVars, n_graph, abort, parts, current_chunk>>,
           \A u \in Threads \ {t} : local'[u] = local[u],
           Ahead(t)' = Ahead(t), Drawn(t)' = Drawn(t), Past(t)' = Past(t)
    PROVE  PartsInv'
<1>1. pc'[t] = where /\ \A u \in Threads \ {t} : pc'[u] = pc[u]
  BY MovedTo DEF Control
<1>2. UNCHANGED <<n_threads_cur, n_barrier_passed, bar>>
  BY DEF barrierVars
<1>3. where \notin {"kick", "kick_graph", "mul_mat_barrier"} /\ pc[t] \notin {"kick", "kick_graph"}
  BY DEF Inside
<1> QED BY <1>1, <1>2, <1>3, SteadyStep

\* Beginning, ...
LEMMA BeginParts ==
    ASSUME Control, PartsInv, NEW t \in Threads, Begin(t)
    PROVE  PartsInv'
<1>1. /\ pc[t] = "begin" /\ UNCHANGED <<barrierVars, pool, work>> /\ Goto(t, "node")
      /\ local' = [local EXCEPT ![t].graph = cgraph, ![t].nth = n_threads_cur, ![t].node = 0]
  BY DEF Begin
<1>2. /\ pc'[t] = "node" /\ local'[t].node = 0 /\ \A u \in Threads \ {t} : local'[u] = local[u]
      /\ pc[t] \in Inside \ Barriers /\ "node" \in Inside \ {"begin", "mul_mat_barrier"}
  BY <1>1, MovedTo DEF Control, PoolType, Locals, Inside, Barriers
<1>3. abort # 0 /\ 0 # NNodes
  BY ThreadPoolAssumption DEF Control, PoolType
<1>4. Ahead(t) /\ Ahead(t)'
  <2>1. ~ Leaving(0)'
    BY <1>1, <1>3 DEF Leaving, work
  <2> QED BY <1>1, <1>2, <2>1 DEF Ahead, Fresh, Leaving
<1>5. Past(t)' = Past(t) /\ Drawn(t)' = Drawn(t)
  BY <1>1, <1>2, <1>4 DEF Past, Drawn
<1>6. NextBarrier(t)' = NextBarrier(t)
  BY BeginControl
<1>7. Ahead(t)' = Ahead(t)
  BY <1>4
<1> QED BY <1>1, <1>2, <1>5, <1>6, <1>7, SteadyCompute DEF pool, work

\* ... leaving the loop, ...
LEMMA LeaveLoopParts ==
    ASSUME Control, PartsInv, NEW t \in Threads, LeaveLoop(t)
    PROVE  PartsInv'
<1>1. /\ pc[t] = "node" /\ UNCHANGED <<barrierVars, pool, work, local>> /\ Goto(t, "last_barrier")
      /\ Leaving(local[t].node)
  BY DEF LeaveLoop, Leaving
<1>2. /\ pc'[t] = "last_barrier" /\ pc[t] \in Inside \ Barriers
      /\ "last_barrier" \in Inside \ {"begin", "mul_mat_barrier"}
  BY <1>1, MovedTo DEF Control, Inside, Barriers
<1>3. ~ Released(t) /\ ~ Fresh(t) /\ ~ Released(t)'
  BY <1>1, <1>2, InsideFacts, SameBarrier
<1>4. Ahead(t) = FALSE /\ Ahead(t)' = FALSE
  BY <1>1, <1>2, <1>3 DEF Ahead, Fresh, Gone, Away
<1>5. Past(t)' = Past(t) /\ Drawn(t)' = Drawn(t) /\ Ahead(t)' = Ahead(t)
  BY <1>1, <1>2, <1>4 DEF Past, Drawn
<1>6. NextBarrier(t)' = NextBarrier(t)
  BY LeaveLoopControl
<1> QED BY <1>1, <1>2, <1>5, <1>6, SteadyCompute DEF pool, work

\* ... being done with a node, ...
LEMMA GoOnParts ==
    ASSUME Control, PartsInv, NEW t \in Threads, NodeDone(t), UNCHANGED <<abort, ec>>
    PROVE  PartsInv'
<1>1. /\ pc[t] = "node_done" /\ UNCHANGED <<barrierVars, pool, current_chunk, cgraph, parts>>
  BY DEF NodeDone
<1>2. pc[t] \in Inside \ Barriers /\ {"node", "barrier"} \subseteq Inside \ {"begin", "mul_mat_barrier"}
  BY <1>1 DEF Inside, Barriers
<1>3. ~ Released(t) /\ ~ Fresh(t) /\ ~ Released(t)' /\ VariablesOK(t)
  BY <1>1, <1>2, InsideFacts, SameBarrier
<1>4. PICK where \in {"node", "barrier"} :
        /\ Goto(t, where) /\ \A u \in Threads \ {t} : local'[u] = local[u]
        /\ where = "node" => local'[t].node = NNodes
  <2>1. local[t].node < NNodes /\ local[t].node \in Nat /\ NNodes \in Nat
    BY <1>1, <1>3, ThreadPoolAssumption DEF Control, PoolType, VariablesOK, Inside, Locals
  <2>2. CASE local[t].node + 1 < NNodes
    BY <2>2 DEF NodeDone
  <2>3. CASE ~ (local[t].node + 1 < NNodes)
    <3>1. local' = [local EXCEPT ![t].node = @ + 1] /\ local[t].node + 1 = NNodes /\ Goto(t, "node")
      BY <2>1, <2>3 DEF NodeDone
    <3> QED BY <3>1 DEF Control, PoolType, Locals
  <2> QED BY <2>2, <2>3
<1>5. pc'[t] = where
  BY <1>4, MovedTo DEF Control
<1>6. Ahead(t) = FALSE
  BY <1>1, <1>3 DEF Ahead
<1>7. ~ Fresh(t)'
  BY <1>5 DEF Fresh, Gone, Away
<1>8. Ahead(t)' = FALSE
  BY <1>3, <1>4, <1>5, <1>7 DEF Ahead, Leaving
<1>9. Past(t)' = Past(t) /\ Drawn(t)' = Drawn(t) /\ Ahead(t)' = Ahead(t)
  BY <1>1, <1>5, <1>6, <1>8 DEF Past, Drawn
<1>10. NextBarrier(t)' = NextBarrier(t)
  BY GoOnControl
<1> QED BY <1>1, <1>2, <1>4, <1>9, <1>10, SteadyCompute DEF pool

\* ... and arriving at a barrier change nothing of this.
LEMMA ArrivingParts ==
    ASSUME Control, PartsInv, NEW t \in Threads, pc[t] \in Barriers,
           Enter(t) \/ Arrive(t) \/ Reset(t), UNCHANGED <<pc, local, pool, work>>
    PROVE  PartsInv'
<1>1. BarrierTypeOK
  BY DEF Control, Inv
<1>2. ~ Released(t)
  BY DEF Enter, Arrive, Reset, Released
<1>3. t \in Active /\ ~ Fresh(t)
  BY <1>2, HeldFacts
<1>4. /\ UNCHANGED <<n_threads_cur, n_barrier_passed>>
      /\ \A u \in Threads \ {t} : bar'[u] = bar[u]
  BY <1>1 DEF Enter, Arrive, Reset, BarrierTypeOK
<1>5. ~ Released(t)'
  <2>1. CASE Enter(t)
    BY <1>1, <2>1 DEF Enter, Released, BarrierTypeOK
  <2>2. CASE Arrive(t)
    <3>1. bar[t].n_passed = n_barrier_passed
      BY <1>3, <2>2 DEF Control, Inv, Places, PlaceOK, Arrive
    <3>2. bar'[t].n_passed = bar[t].n_passed
      BY <1>1, <2>2 DEF Arrive, BarrierTypeOK
    <3> QED BY <1>4, <3>1, <3>2 DEF Released
  <2>3. CASE Reset(t)
    BY <1>1, <2>3 DEF Reset, Released, BarrierTypeOK
  <2> QED BY <2>1, <2>2, <2>3
<1>6. Fresh(t)' = Fresh(t)
  BY <1>3, <1>5 DEF Fresh, Gone, Away, Barriers, pool
<1>7. Ahead(t)' = Ahead(t) /\ Drawn(t)' = Drawn(t) /\ Past(t)' = Past(t)
  BY <1>2, <1>5, <1>6 DEF Ahead, Drawn, Past, Leaving, work
<1>8. NextBarrier(t)' = NextBarrier(t)
  BY ArrivingControl
<1>9. pc[t] \notin {"kick", "kick_graph"}
  BY DEF Barriers
<1> QED BY <1>2, <1>4, <1>7, <1>8, <1>9, SteadyStep DEF pool, work

-----------------------------------------------------------------------------

\* The threads that work at a node.
LEMMA WorkingAt ==
    ASSUME Control, PartsInv, NEW t \in Active, ~ Past(t), NEW n \in 0 .. NNodes - 1,
           NextBarrier(t) = End(n)
    PROVE  WorkOn(n) /\ Share(n) /\ (n \in MulMats => Draw(n))
<1>1. NextBarrier(0) = End(n)
  BY DEF Control, Lockstep
<1>2. n = NNodes - 1 => abort \in {-1, NNodes}
  <2> SUFFICES ASSUME n = NNodes - 1, abort \notin {-1, NNodes} PROVE FALSE
    OBVIOUS
  <2>1. NextBarrier(0) = Last
    BY <1>1, Distinct, ThreadPoolAssumption
  <2>2. abort \in 1 .. NNodes - 1
    BY ThreadPoolAssumption DEF Control, PoolType
  <2> QED BY <2>1, <2>2 DEF PartsInv, AfterAbort
<1> QED BY <1>1, <1>2 DEF PartsInv, Working, WorkOn

\* While they do, only what is said of this node matters.
LEMMA OnNode ==
    ASSUME NEW n \in 0 .. NNodes - 1, WorkOn(n)', Share(n)', n \in MulMats => Draw(n)', PartsFit', current_chunk' <= MaxThreads + Chunks
    PROVE  PartsInv'
<1>1. NextBarrier(0)' = End(n)
  BY DEF WorkOn
<1>2. Working'
  <2> SUFFICES ASSUME NEW m \in 0 .. NNodes - 1, WorkOn(m)' PROVE m = n
    BY DEF Working
  <2>1. End(m) = End(n)
    BY <1>1 DEF WorkOn
  <2> QED BY <2>1, Distinct
<1>3. Cleared'
  <2>1. pc'[0] \in {"kick", "kick_graph"} => NextBarrier(0)' = Rest
    BY DEF NextBarrier, Fresh
  <2> QED BY <1>1, <2>1, Distinct DEF Cleared
<1>4. CounterSet'
  <2>1. pc'[0] = "mul_mat_barrier" /\ ~ Released(0)' => NextBarrier(0)' = <<local'[0].node, "mul">>
    BY DEF NextBarrier, Fresh, Mul
  <2> QED BY <1>1, <2>1 DEF CounterSet, End, Last
<1>5. BeforeMul'
  BY <1>1, Distinct DEF BeforeMul
<1>6. AfterAbort'
  <2>1. End(n) = Last => n = NNodes - 1
    BY Distinct, ThreadPoolAssumption
  <2>2. NNodes \notin 1 .. NNodes - 1 /\ -1 \notin 1 .. NNodes - 1
    BY ThreadPoolAssumption
  <2> QED BY <1>1, <2>1, <2>2 DEF AfterAbort, WorkOn
<1>7. Returned'
  BY <1>1, Distinct DEF Returned
<1> QED BY <1>2, <1>3, <1>4, <1>5, <1>6, <1>7 DEF PartsInv

\* The same, when the node is the one the threads are at already.
LEMMA OnThisNode ==
    ASSUME NEW n \in 0 .. NNodes - 1, WorkOn(n), NextBarrier(0)' = NextBarrier(0), abort' = abort,
           Share(n)', n \in MulMats => Draw(n)', PartsFit', current_chunk' <= MaxThreads + Chunks
    PROVE  PartsInv'
<1>1. WorkOn(n)'
  BY DEF WorkOn
<1> QED BY <1>1, OnNode

\* The parts of a node, and the first one of each thread among them.
LEMMA PartsOf ==
    ASSUME BarrierTypeOK, NEW n
    PROVE  /\ Parts(n, n_threads_cur) = IF OnDemand(n) THEN 0 .. Chunks - 1
                                                       ELSE 0 .. n_threads_cur - 1
           /\ \A t \in Active : t \in Parts(n, n_threads_cur) /\ t \in Nat /\ t < n_threads_cur
           /\ Chunks \in Nat /\ n_threads_cur \in Nat
<1>1. n_threads_cur \in Nat /\ Chunks \in Nat
  BY ThreadFacts, ThreadPoolAssumption
<1>2. Parts(n, n_threads_cur) = IF OnDemand(n) THEN 0 .. Chunks - 1 ELSE 0 .. n_threads_cur - 1
  BY <1>1 DEF Parts, OnDemand
<1>3. ASSUME NEW t \in Active
      PROVE  t \in Parts(n, n_threads_cur) /\ t \in Nat /\ t < n_threads_cur
  BY <1>1, <1>2 DEF OnDemand, Active
<1> QED BY <1>1, <1>2, <1>3

\* Sets of active threads are finite.
LEMMA SomeActive ==
    ASSUME BarrierTypeOK, NEW S, S \subseteq Active
    PROVE  IsFiniteSet(S) /\ Cardinality(S) \in Nat /\ Cardinality(S) <= n_threads_cur
<1>1. IsFiniteSet(Active) /\ Cardinality(Active) = n_threads_cur
  BY HeldFinite
<1>2. S \in SUBSET Active
  OBVIOUS
<1>3. IsFiniteSet(S) /\ Cardinality(S) <= Cardinality(Active)
  BY <1>1, <1>2, FS_Subset
<1> QED BY <1>1, <1>3, FS_CardinalityType

\* A thread that draws parts.
LEMMA PartFacts ==
    ASSUME Control, NEW t \in Threads, pc[t] \in {"part", "next_chunk"}
    PROVE  /\ t \in Active /\ t \in Nat /\ t < n_threads_cur
           /\ local[t].node \in 0 .. NNodes - 1 /\ local[t].chunk \in Nat
           /\ local[t].nth = n_threads_cur /\ local[t].graph = cgraph
           /\ NextBarrier(t) = End(local[t].node)
           /\ ~ Ahead(t) /\ ~ Past(t)
           /\ pc[t] = "next_chunk" => OnDemand(local[t].node)
           /\ pc[t] = "part" /\ ~ OnDemand(local[t].node) => local[t].chunk = t
<1>1. pc[t] \in Inside \ Barriers
  BY DEF Inside, Barriers
<1>2. t \in Active /\ ~ Fresh(t) /\ ~ Gone(t) /\ VariablesOK(t)
  BY <1>1, InsideFacts
<1>3. t \in Nat /\ t < n_threads_cur
  BY <1>2, ThreadFacts DEF Control, Inv, Active
<1>4. local[t].node \in 0 .. NNodes - 1 /\ local[t].chunk \in Nat
  BY <1>2, ThreadPoolAssumption DEF VariablesOK, Control, PoolType, Locals, Inside
<1>5. local[t].nth = n_threads_cur /\ local[t].graph = cgraph
  BY <1>2 DEF VariablesOK, Inside
<1>6. NextBarrier(t) = End(local[t].node) /\ ~ Ahead(t)
  BY <1>2 DEF NextBarrier, Ahead
<1> QED BY <1>2, <1>3, <1>4, <1>5, <1>6 DEF Past, OnDemand, VariablesOK

\* A claimed part becomes a computed one.
LEMMA ComputePartParts ==
    ASSUME Control, PartsInv, NEW t \in Threads, ComputePart(t)
    PROVE  PartsInv'
<1>1. /\ pc[t] = "part" /\ local[t].chunk \in Parts(local[t].node, local[t].nth)
      /\ parts' = parts \cup {<<local[t].node, local[t].chunk>>}
      /\ UNCHANGED <<barrierVars, pool, abort, current_chunk, local>>
  BY DEF ComputePart
<1>2. BarrierTypeOK /\ 0 \in Threads /\ Active \subseteq Threads
  BY ThreadFacts DEF Control, Inv
<1>3. PICK n \in 0 .. NNodes - 1, c \in Nat : n = local[t].node /\ c = local[t].chunk
  BY <1>1, PartFacts
<1>4. /\ t \in Active /\ NextBarrier(t) = End(n) /\ ~ Ahead(t) /\ ~ Past(t)
      /\ local[t].nth = n_threads_cur
  BY <1>1, <1>3, PartFacts
<1>5. WorkOn(n) /\ Share(n) /\ (n \in MulMats => Draw(n))
  BY <1>3, <1>4, WorkingAt
<1>6. Claims(t) = {c} /\ Drawn(t) = {c} /\ c \in Parts(n, n_threads_cur)
      /\ parts' = parts \cup {<<n, c>>}
  BY <1>1, <1>3, <1>4 DEF Claims, Drawn
<1> DEFINE where == IF n \in MulMats /\ n_threads_cur < Cardinality(Parts(n, n_threads_cur))
                    THEN "next_chunk" ELSE "node_done"
<1>7. Goto(t, where) /\ pc'[t] = where /\ \A u \in Threads \ {t} : pc'[u] = pc[u]
  <2>1. Goto(t, where)
    BY <1>3, <1>4 DEF ComputePart
  <2> QED BY <2>1, MovedTo DEF Control
<1>8. OnDemand(n) => where = "next_chunk"
  <2> SUFFICES ASSUME OnDemand(n) PROVE n_threads_cur < Cardinality(Parts(n, n_threads_cur))
    BY DEF OnDemand
  <2>1. Parts(n, n_threads_cur) = 0 .. Chunks - 1 /\ Chunks \in Nat
    BY <1>2, PartsOf
  <2>2. Cardinality(0 .. Chunks - 1) = Chunks
    <3>1. 0 \in Int /\ Chunks - 1 \in Int
      BY <2>1
    <3> QED BY <3>1, <2>1, FS_Interval
  <2> QED BY <2>1, <2>2 DEF OnDemand
<1>9. UNCHANGED <<n_threads_cur, n_barrier_passed, bar, n_graph>> /\ Active' = Active
  BY <1>1 DEF barrierVars, pool, Active
<1>10. ASSUME NEW u \in Active, u # t
       PROVE  Claims(u)' = Claims(u) /\ Drawn(u)' = Drawn(u) /\ Past(u)' = Past(u)
  BY <1>1, <1>2, <1>7, <1>9, <1>10, SameView DEF Claims
<1>11. Claims(t)' = {} /\ Drawn(t)' = {} /\ (Past(t)' <=> where = "node_done")
  <2>1. ~ Ahead(t)'
    BY <1>7 DEF Ahead, Fresh, Gone, Away
  <2> QED BY <2>1, <1>7 DEF Claims, Drawn, Past
<1>12. Share(n)'
  <2>1. \A k \in 0 .. n - 1 : WholeNode(k)'
    BY <1>5, <1>6, <1>9 DEF Share, WholeNode
  <2>2. \A p \in parts' : p[1] <= n
    BY <1>3, <1>5, <1>6 DEF Share
  <2>3. ASSUME NEW u \in Active
        PROVE  (\A d \in Claims(u)' : <<n, d>> \notin parts') /\ (<<n, u>> \in parts' \/ u \in Claims(u)')
    <3>1. CASE u = t
      BY <3>1, <1>5, <1>6, <1>11, <2>3 DEF Share
    <3>2. CASE u # t
      BY <3>2, <1>4, <1>5, <1>6, <1>10, <2>3 DEF Share
    <3> QED BY <3>1, <3>2
  <2>4. \A u, v \in Active : u # v => Claims(u)' \cap Claims(v)' = {}
    BY <1>5, <1>10, <1>11 DEF Share
  <2> QED BY <1>9, <2>1, <2>2, <2>3, <2>4 DEF Share
<1>13. n \in MulMats => Draw(n)'
  <2> SUFFICES ASSUME n \in MulMats PROVE Draw(n)'
    OBVIOUS
  <2>1. Draw(n) /\ (OnDemand(n)' <=> OnDemand(n))
    BY <1>5, <1>9 DEF OnDemand
  <2>2. c < current_chunk
    BY <2>1, <1>4, <1>6 DEF Draw
  <2>3. \A p \in parts' : p[1] = n => p[2] < current_chunk
    BY <2>1, <2>2, <1>6 DEF Draw
  <2>4. \A u \in Active : \A d \in Drawn(u)' : d < current_chunk
    BY <2>1, <1>10, <1>11 DEF Draw
  <2>5. ASSUME OnDemand(n)
        PROVE  /\ \A d \in n_threads_cur .. current_chunk - 1 : d < Chunks =>
                     <<n, d>> \in parts' \/ \E u \in Active : d \in Drawn(u)'
               /\ (\E u \in Active : Past(u)') => current_chunk >= Chunks
               /\ Over' = Over
    <3>1. ~ Past(t)'
      BY <1>8, <1>11, <2>5
    <3>2. ~ (c >= Chunks)
      BY <1>2, <1>6, <2>5, PartsOf
    <3>3. Over' = Over
      <4>1. t \notin Over /\ t \notin Over'
        BY <1>4, <1>6, <1>11, <3>1, <3>2 DEF Over
      <4>2. \A u \in Active : u # t => (u \in Over <=> u \in Over')
        BY <1>9, <1>10 DEF Over
      <4> QED BY <1>9, <4>1, <4>2 DEF Over
    <3>4. \A d \in n_threads_cur .. current_chunk - 1 : d < Chunks =>
             <<n, d>> \in parts' \/ \E u \in Active : d \in Drawn(u)'
      BY <2>1, <2>5, <1>6, <1>10 DEF Draw
    <3> QED BY <2>1, <2>5, <1>10, <3>1, <3>3, <3>4 DEF Draw
  <2> QED BY <1>1, <1>9, <2>1, <2>3, <2>4, <2>5 DEF Draw
<1>14. PartsFit'
  BY <1>6, <1>9 DEF PartsInv, PartsFit
<1>15. NextBarrier(0)' = NextBarrier(0)
  BY <1>1, <1>2, <1>7, <1>9, SameView, ComputePartControl
<1>16. current_chunk' <= MaxThreads + Chunks
  BY <1>1 DEF PartsInv, CounterSet
<1> QED BY <1>1, <1>5, <1>12, <1>13, <1>14, <1>15, <1>16, OnThisNode

\* A thread that has drawn past the last chunk is over with the node, and was
\* counted as that when it drew.
LEMMA NoMorePartsParts ==
    ASSUME Control, PartsInv, NEW t \in Threads, NoMoreParts(t)
    PROVE  PartsInv'
<1>1. /\ pc[t] = "part" /\ local[t].chunk \notin Parts(local[t].node, local[t].nth)
      /\ Goto(t, "node_done") /\ UNCHANGED <<barrierVars, pool, work, local>>
  BY DEF NoMoreParts
<1>2. BarrierTypeOK /\ 0 \in Threads /\ Active \subseteq Threads
  BY ThreadFacts DEF Control, Inv
<1>3. PICK n \in 0 .. NNodes - 1, c \in Nat : n = local[t].node /\ c = local[t].chunk
  BY <1>1, PartFacts
<1>4. /\ t \in Active /\ NextBarrier(t) = End(n) /\ ~ Ahead(t) /\ ~ Past(t)
      /\ local[t].nth = n_threads_cur
  BY <1>1, <1>3, PartFacts
<1>5. WorkOn(n) /\ Share(n) /\ (n \in MulMats => Draw(n))
  BY <1>3, <1>4, WorkingAt
<1>6. Claims(t) = {c} /\ Drawn(t) = {c} /\ c \notin Parts(n, n_threads_cur)
  BY <1>1, <1>3, <1>4 DEF Claims, Drawn
<1>7. pc'[t] = "node_done" /\ \A u \in Threads \ {t} : pc'[u] = pc[u]
  BY <1>1, MovedTo DEF Control
<1>8. UNCHANGED <<n_threads_cur, n_barrier_passed, bar, n_graph, parts, current_chunk, abort>>
      /\ Active' = Active
  BY <1>1 DEF barrierVars, pool, work, Active
<1>9. ASSUME NEW u \in Active, u # t
      PROVE  Claims(u)' = Claims(u) /\ Drawn(u)' = Drawn(u) /\ Past(u)' = Past(u)
  BY <1>1, <1>2, <1>7, <1>8, <1>9, SameView DEF Claims
<1>10. Claims(t)' = {} /\ Drawn(t)' = {} /\ Past(t)'
  <2>1. ~ Ahead(t)'
    BY <1>7 DEF Ahead, Fresh, Gone, Away
  <2> QED BY <2>1, <1>7 DEF Claims, Drawn, Past
<1>11. t # c
  BY <1>2, <1>4, <1>6, PartsOf
<1>12. Share(n)'
  <2>1. \A k \in 0 .. n - 1 : WholeNode(k)'
    BY <1>5, <1>8 DEF Share, WholeNode
  <2>2. ASSUME NEW u \in Active
        PROVE  (\A d \in Claims(u)' : <<n, d>> \notin parts) /\ (<<n, u>> \in parts \/ u \in Claims(u)')
    <3>1. CASE u = t
      BY <3>1, <1>4, <1>5, <1>6, <1>10, <1>11 DEF Share
    <3>2. CASE u # t
      BY <3>2, <1>5, <1>9 DEF Share
    <3> QED BY <3>1, <3>2
  <2>3. \A u, v \in Active : u # v => Claims(u)' \cap Claims(v)' = {}
    BY <1>5, <1>9, <1>10 DEF Share
  <2> QED BY <1>5, <1>8, <2>1, <2>2, <2>3 DEF Share
<1>13. n \in MulMats => Draw(n)'
  <2> SUFFICES ASSUME n \in MulMats PROVE Draw(n)'
    OBVIOUS
  <2>1. Draw(n) /\ (OnDemand(n)' <=> OnDemand(n))
    BY <1>5, <1>8 DEF OnDemand
  <2>2. c < current_chunk /\ current_chunk \in Nat
    BY <2>1, <1>4, <1>6 DEF Draw, Control, PoolType
  <2>3. \A u \in Active : \A d \in Drawn(u)' : d < current_chunk
    BY <2>1, <1>9, <1>10 DEF Draw
  <2>4. ASSUME OnDemand(n)
        PROVE  /\ \A d \in n_threads_cur .. current_chunk - 1 : d < Chunks =>
                     <<n, d>> \in parts \/ \E u \in Active : d \in Drawn(u)'
               /\ current_chunk >= Chunks
               /\ Over' = Over
    <3>1. c >= Chunks /\ Chunks \in Nat
      BY <1>2, <1>3, <1>6, <2>4, PartsOf
    <3>2. Over' = Over
      <4>1. t \in Over /\ t \in Over'
        BY <1>4, <1>6, <1>8, <1>10, <3>1 DEF Over
      <4>2. \A u \in Active : u # t => (u \in Over <=> u \in Over')
        BY <1>8, <1>9 DEF Over
      <4> QED BY <1>8, <4>1, <4>2 DEF Over
    <3>3. ASSUME NEW d \in n_threads_cur .. current_chunk - 1, d < Chunks
          PROVE  <<n, d>> \in parts \/ \E u \in Active : d \in Drawn(u)'
      <4>1. <<n, d>> \in parts \/ \E u \in Active : d \in Drawn(u)
        BY <2>1, <2>4, <3>3 DEF Draw
      <4>2. d # c
        BY <1>2, <3>1, <3>3, ThreadFacts
      <4> QED BY <4>1, <4>2, <1>6, <1>9
    <3> QED BY <2>2, <3>1, <3>2, <3>3
  <2> QED BY <1>8, <2>1, <2>3, <2>4 DEF Draw
<1>14. PartsFit'
  BY <1>8 DEF PartsInv, PartsFit
<1>15. NextBarrier(0)' = NextBarrier(0)
  BY <1>1, <1>2, <1>7, <1>8, SameView, NoMorePartsControl
<1>16. current_chunk' <= MaxThreads + Chunks
  BY <1>8 DEF PartsInv, CounterSet
<1> QED BY <1>5, <1>8, <1>12, <1>13, <1>14, <1>15, <1>16, OnThisNode

\* A thread draws the chunk of the counter: nobody has drawn it before, and the
\* counter is past the chunks by no more than the threads that are over.
LEMMA NextChunkParts ==
    ASSUME Control, PartsInv, NEW t \in Threads, NextChunk(t)
    PROVE  PartsInv'
<1>1. /\ pc[t] = "next_chunk" /\ Goto(t, "part") /\ current_chunk' = current_chunk + 1
      /\ UNCHANGED <<barrierVars, pool, abort, ec, cgraph, parts>>
      /\ local' = [local EXCEPT ![t].chunk = current_chunk]
  BY DEF NextChunk
<1>2. BarrierTypeOK /\ 0 \in Threads /\ Active \subseteq Threads
  BY ThreadFacts DEF Control, Inv
<1>3. PICK n \in 0 .. NNodes - 1, c \in Nat : n = local[t].node /\ c = current_chunk
  BY <1>1, PartFacts DEF Control, PoolType
<1>4. t \in Active /\ NextBarrier(t) = End(n) /\ ~ Ahead(t) /\ ~ Past(t) /\ OnDemand(n)
  BY <1>1, <1>3, PartFacts
<1>5. WorkOn(n) /\ Share(n) /\ n \in MulMats /\ Draw(n)
  BY <1>3, <1>4, WorkingAt DEF OnDemand
<1>6. Claims(t) = {} /\ Drawn(t) = {}
  BY <1>1, <1>4 DEF Claims, Drawn
<1>7. pc'[t] = "part" /\ \A u \in Threads \ {t} : pc'[u] = pc[u]
  BY <1>1, MovedTo DEF Control
<1>8. local'[t].chunk = c /\ \A u \in Threads \ {t} : local'[u] = local[u]
  BY <1>1, <1>3 DEF Control, PoolType, Locals
<1>9. UNCHANGED <<n_threads_cur, n_barrier_passed, bar, n_graph, parts, abort>>
      /\ Active' = Active /\ current_chunk = c /\ current_chunk' = c + 1
  BY <1>1, <1>3 DEF barrierVars, pool, Active
<1>10. ASSUME NEW u \in Active, u # t
       PROVE  Claims(u)' = Claims(u) /\ Drawn(u)' = Drawn(u) /\ Past(u)' = Past(u)
  BY <1>2, <1>7, <1>8, <1>9, <1>10, SameView DEF Claims
<1>11. Claims(t)' = {c} /\ Drawn(t)' = {c} /\ ~ Past(t)'
  <2>1. ~ Ahead(t)'
    BY <1>7 DEF Ahead, Fresh, Gone, Away
  <2> QED BY <2>1, <1>7, <1>8 DEF Claims, Drawn, Past
<1>12. c >= n_threads_cur /\ n_threads_cur \in Nat /\ Chunks \in Nat
       /\ \A p \in parts : p[1] = n => p[2] < c
  BY <1>2, <1>5, <1>9, ThreadFacts, ThreadPoolAssumption DEF Draw
<1>13. <<n, c>> \notin parts
  BY <1>12
<1>14. ASSUME NEW u \in Active, u # t PROVE c \notin Claims(u)
  <2>1. u < c /\ u \in Nat
    BY <1>2, <1>12, ThreadFacts DEF Active
  <2>2. \A d \in Drawn(u) : d < c
    BY <1>5, <1>9 DEF Draw
  <2> QED BY <2>1, <2>2 DEF Claims
<1>15. Share(n)'
  <2>1. \A k \in 0 .. n - 1 : WholeNode(k)'
    BY <1>5, <1>9 DEF Share, WholeNode
  <2>2. ASSUME NEW u \in Active
        PROVE  (\A d \in Claims(u)' : <<n, d>> \notin parts) /\ (<<n, u>> \in parts \/ u \in Claims(u)')
    <3>1. CASE u = t
      BY <3>1, <1>4, <1>5, <1>6, <1>11, <1>13 DEF Share
    <3>2. CASE u # t
      BY <3>2, <1>5, <1>10 DEF Share
    <3> QED BY <3>1, <3>2
  <2>3. ASSUME NEW u \in Active, NEW v \in Active, u # v PROVE Claims(u)' \cap Claims(v)' = {}
    BY <2>3, <1>5, <1>10, <1>11, <1>14 DEF Share
  <2> QED BY <1>5, <1>9, <2>1, <2>2, <2>3 DEF Share
<1>16. Over' = IF c >= Chunks THEN Over \cup {t} ELSE Over
  <2>1. t \in Over' <=> c >= Chunks
    BY <1>4, <1>9, <1>11 DEF Over
  <2>2. \A u \in Active : u # t => (u \in Over <=> u \in Over')
    BY <1>9, <1>10 DEF Over
  <2>3. t \notin Over
    BY <1>4, <1>6 DEF Over
  <2> QED BY <1>4, <1>9, <2>1, <2>2, <2>3 DEF Over
<1>17. c + 1 <= Chunks + Cardinality(Over') /\ Over' \subseteq Active
  <2>1. Over \subseteq Active /\ t \notin Over
    BY <1>4, <1>6 DEF Over
  <2>2. IsFiniteSet(Over) /\ Cardinality(Over) \in Nat
    BY <1>2, <2>1, SomeActive
  <2>3. c <= Chunks + Cardinality(Over)
    BY <1>4, <1>5, <1>9 DEF Draw
  <2>4. CASE c >= Chunks
    <3>1. Cardinality(Over \cup {t}) = Cardinality(Over) + 1
      BY <2>1, <2>2, FS_AddElement
    <3> QED BY <1>4, <1>12, <1>16, <2>1, <2>2, <2>3, <2>4, <3>1
  <2>5. CASE ~ (c >= Chunks)
    BY <1>12, <1>16, <2>1, <2>2, <2>5
  <2> QED BY <2>4, <2>5
<1>18. Draw(n)'
  <2>1. \A p \in parts : p[1] = n => p[2] < c + 1
    <3>1. \A p \in parts : p[2] \in Nat
      BY DEF Control, PoolType
    <3> QED BY <1>12, <3>1
  <2>2. ASSUME NEW u \in Active, NEW d \in Drawn(u)' PROVE d < c + 1
    <3>1. CASE u = t
      BY <1>11, <2>2, <3>1
    <3>2. CASE u # t
      <4>1. d \in Drawn(u)
        BY <1>10, <2>2, <3>2
      <4>2. d < c
        BY <1>5, <1>9, <4>1 DEF Draw
      <4>3. d \in Nat
        BY <1>2, <4>1 DEF Drawn, Control, PoolType, Locals
      <4> QED BY <4>2, <4>3
    <3> QED BY <3>1, <3>2
  <2>3. ASSUME NEW d \in n_threads_cur .. c, d < Chunks
        PROVE  <<n, d>> \in parts \/ \E u \in Active : d \in Drawn(u)'
    <3>1. CASE d = c
      BY <1>4, <1>11, <3>1
    <3>2. CASE d # c
      <4>1. d \in n_threads_cur .. c - 1
        BY <1>12, <3>2
      <4>2. <<n, d>> \in parts \/ \E u \in Active : d \in Drawn(u)
        BY <1>4, <1>5, <1>9, <2>3, <4>1 DEF Draw
      <4> QED BY <1>6, <1>10, <4>2
    <3> QED BY <3>1, <3>2
  <2>4. (\E u \in Active : Past(u)') => c + 1 >= Chunks
    <3>1. (\E u \in Active : Past(u)) => c >= Chunks
      BY <1>4, <1>5, <1>9 DEF Draw
    <3> QED BY <1>10, <1>11, <1>12, <3>1
  <2>5. n_threads_cur' = n_threads_cur /\ n_threads_cur .. (c + 1) - 1 = n_threads_cur .. c
        /\ c + 1 >= n_threads_cur
    BY <1>9, <1>12
  <2> QED BY <1>9, <1>17, <2>1, <2>2, <2>3, <2>4, <2>5 DEF Draw
<1>19. PartsFit'
  BY <1>9 DEF PartsInv, PartsFit
<1>20. NextBarrier(0)' = NextBarrier(0)
  BY <1>2, <1>7, <1>8, <1>9, SameView, NextChunkControl
<1>21. current_chunk' <= MaxThreads + Chunks
  <2>1. Cardinality(Over') \in Nat /\ Cardinality(Over') <= n_threads_cur
    BY <1>2, <1>17, SomeActive
  <2>2. n_threads_cur <= MaxThreads /\ MaxThreads \in Nat
    BY <1>2, BarrierAssumption DEF BarrierTypeOK
  <2> QED BY <1>9, <1>12, <1>17, <2>1, <2>2
<1> QED BY <1>5, <1>9, <1>15, <1>18, <1>19, <1>20, <1>21, OnThisNode

\* A thread goes to the part of its own number.
LEMMA OwnPart ==
    ASSUME Control, PartsInv, NEW t \in Active, NEW n \in 0 .. NNodes - 1, NextBarrier(t) = End(n),
           Ahead(t), pc[t] # "part", ~ Ahead(t)', Drawn(t)' = {t}, ~ Past(t)',
           \A u \in Active \ {t} : Ahead(u)' = Ahead(u) /\ Drawn(u)' = Drawn(u) /\ Past(u)' = Past(u),
           UNCHANGED <<n_threads_cur, abort, parts, current_chunk>>, NextBarrier(0)' = NextBarrier(0)
    PROVE  PartsInv'
<1>1. BarrierTypeOK /\ Active' = Active
  BY DEF Control, Inv, Active
<1>2. ~ Past(t) /\ Claims(t) = {t} /\ Claims(t)' = {t} /\ Drawn(t) = {}
  BY DEF Past, Claims, Drawn
<1>3. WorkOn(n) /\ Share(n) /\ (n \in MulMats => Draw(n))
  BY <1>2, WorkingAt
<1>4. \A u \in Active : Claims(u)' = Claims(u)
  BY <1>2 DEF Claims
<1>5. Share(n)'
  BY <1>1, <1>3, <1>4 DEF Share, WholeNode
<1>6. n \in MulMats => Draw(n)'
  <2> SUFFICES ASSUME n \in MulMats PROVE Draw(n)'
    OBVIOUS
  <2>1. Draw(n) /\ (OnDemand(n)' <=> OnDemand(n))
    BY <1>3 DEF OnDemand
  <2>2. t < current_chunk
    <3>1. t < n_threads_cur /\ t \in Nat /\ n_threads_cur \in Nat /\ current_chunk \in Nat
      BY <1>1, PartsOf DEF Control, PoolType
    <3> QED BY <2>1, <3>1 DEF Draw
  <2>3. \A u \in Active : \A d \in Drawn(u)' : d < current_chunk
    BY <2>1, <2>2 DEF Draw
  <2>4. OnDemand(n) => Over' = Over
    <3> SUFFICES ASSUME OnDemand(n) PROVE Over' = Over
      OBVIOUS
    <3>1. ~ (t >= Chunks)
      BY <1>1, PartsOf
    <3>2. t \notin Over /\ t \notin Over'
      BY <1>2, <3>1 DEF Over
    <3>3. \A u \in Active : u # t => (u \in Over <=> u \in Over')
      BY <1>1 DEF Over
    <3> QED BY <1>1, <3>2, <3>3 DEF Over
  <2>5. OnDemand(n) /\ (\E u \in Active : Past(u)') => current_chunk >= Chunks
    BY <1>2, <2>1 DEF Draw
  <2>6. OnDemand(n) => \A d \in n_threads_cur .. current_chunk - 1 : d < Chunks =>
             <<n, d>> \in parts \/ \E u \in Active : d \in Drawn(u)'
    BY <1>2, <2>1 DEF Draw
  <2> QED BY <1>1, <2>1, <2>3, <2>4, <2>5, <2>6 DEF Draw
<1>7. PartsFit' /\ current_chunk' <= MaxThreads + Chunks
  BY DEF PartsInv, PartsFit, CounterSet
<1> QED BY <1>3, <1>5, <1>6, <1>7, OnThisNode

\* A thread starts with the part of its own number.
LEMMA NextNodeParts ==
    ASSUME Control, PartsInv, NEW t \in Threads, NextNode(t)
    PROVE  PartsInv'
<1>1. /\ pc[t] = "node" /\ UNCHANGED <<barrierVars, pool, work>>
      /\ local[t].node < NNodes /\ abort # local[t].node
      /\ local' = [local EXCEPT ![t].chunk = t]
  BY DEF NextNode
<1>2. /\ local[t].node \in 0 .. NNodes - 1 /\ local'[t].node = local[t].node /\ local'[t].chunk = t
      /\ \A u \in Threads \ {t} : local'[u] = local[u]
  BY <1>1, ThreadPoolAssumption DEF Control, PoolType, Locals
<1>3. pc[t] \in Inside \ Barriers
  BY <1>1 DEF Inside, Barriers
<1>4. t \in Active /\ ~ Fresh(t) /\ ~ Released(t)
  BY <1>1, <1>3, InsideFacts
<1>5. NextBarrier(t)' = NextBarrier(t)
  BY NextNodeControl
<1>6. Ahead(t) = TRUE
  BY <1>1, <1>2, ThreadPoolAssumption DEF Ahead, Leaving
<1>7. UNCHANGED <<n_threads_cur, n_barrier_passed, bar, n_graph, abort, parts, current_chunk>>
  BY <1>1 DEF barrierVars, pool, work
<1>8. CASE local[t].node \in MulMats
  <2>1. Goto(t, "mul_mat") /\ "mul_mat" \in Inside \ {"begin", "mul_mat_barrier"}
    BY <1>8 DEF NextNode, Inside
  <2>2. pc'[t] = "mul_mat"
    BY <2>1, MovedTo DEF Control
  <2>3. Ahead(t)' = TRUE
    BY <2>2 DEF Ahead
  <2>4. Ahead(t)' = Ahead(t) /\ Drawn(t)' = Drawn(t) /\ Past(t)' = Past(t)
    BY <1>1, <1>6, <2>2, <2>3 DEF Drawn, Past
  <2> QED BY <1>1, <1>2, <1>3, <1>5, <1>7, <2>1, <2>4, SteadyCompute
<1>9. CASE local[t].node \notin MulMats
  <2>1. Goto(t, "part")
    BY <1>9 DEF NextNode
  <2>2. pc'[t] = "part" /\ \A u \in Threads \ {t} : pc'[u] = pc[u]
    BY <2>1, MovedTo DEF Control
  <2>3. ~ Ahead(t)' /\ Drawn(t)' = {t} /\ ~ Past(t)'
    BY <1>2, <2>2 DEF Ahead, Fresh, Gone, Away, Drawn, Past
  <2>4. NextBarrier(t) = End(local[t].node)
    BY <1>1, <1>2, <1>4, <1>9, ThreadPoolAssumption DEF NextBarrier, From, Leaving
  <2>5. 0 \in Threads /\ Active \subseteq Threads
    BY ThreadFacts DEF Control, Inv
  <2>6. \A u \in Active \ {t} : Ahead(u)' = Ahead(u) /\ Drawn(u)' = Drawn(u) /\ Past(u)' = Past(u)
    BY <1>2, <1>7, <2>2, <2>5, SameView
  <2>7. NextBarrier(0)' = NextBarrier(0)
    BY <1>2, <1>5, <1>7, <2>2, <2>5, SameView
  <2>8. PICK n \in 0 .. NNodes - 1 : n = local[t].node
    BY <1>2
  <2> QED BY <1>1, <1>4, <1>6, <1>7, <2>3, <2>4, <2>6, <2>7, <2>8, OwnPart
<1> QED BY <1>8, <1>9

\* A thread that is let out of a barrier was turned to the next one when the
\* barrier was passed.
LEMMA LeaveParts ==
    ASSUME Control, PartsInv, NEW t \in Threads, pc[t] \in Barriers, Leave(t), AfterBarrier(t),
           UNCHANGED <<pool, work>>
    PROVE  PartsInv'
<1>1. BarrierTypeOK /\ 0 \in Threads /\ Active \subseteq Threads
  BY ThreadFacts DEF Control, Inv
<1>2. /\ UNCHANGED <<n_threads_cur, n_barrier_passed>> /\ Released(t) /\ bar'[t].at = "out"
      /\ \A u \in Threads \ {t} : bar'[u] = bar[u]
  BY <1>1 DEF Leave, Out, BarrierTypeOK
<1>3. UNCHANGED <<n_graph, abort, parts, current_chunk>>
  BY DEF pool, work
<1>4. /\ NextBarrier(t)' = NextBarrier(t)
      /\ \A u \in Threads \ {t} : pc'[u] = pc[u] /\ local'[u] = local[u]
  BY LeaveControl, AfterBarrierFacts
<1>5. /\ local'[t].node = IF pc[t] = "barrier" THEN local[t].node + 1 ELSE local[t].node
      /\ local'[t].last_graph = local[t].last_graph /\ local'[t].chunk = local[t].chunk
  BY AfterBarrierFacts DEF Control, PoolType, Locals
<1>6. \A u \in Threads \ {t} :
         /\ Ahead(u)' = Ahead(u) /\ Drawn(u)' = Drawn(u) /\ Past(u)' = Past(u)
         /\ NextBarrier(u)' = NextBarrier(u)
  BY <1>2, <1>3, <1>4, SameView
<1>7. NextBarrier(0)' = NextBarrier(0)
  BY <1>1, <1>4, <1>6
<1>8. pc[t] \notin {"kick", "kick_graph"} /\ pc'[t] \notin {"kick", "kick_graph", "mul_mat_barrier"}
  BY AfterBarrierFacts DEF Barriers
<1>9. CASE pc[t] = "mul_mat_barrier"
  <2>1. pc'[t] = "part" /\ t \in Active
    BY <1>9, AfterBarrierFacts
  <2>2. VariablesOK(t) /\ ~ Fresh(t)
    BY <1>9, <2>1 DEF Control, ThreadOK, Fresh, Gone, Away
  <2>3. local[t].chunk = t /\ local[t].node < NNodes
    BY <1>9, <2>2 DEF VariablesOK, Inside
  <2>4. PICK n \in 0 .. NNodes - 1 : n = local[t].node
    BY <2>3, ThreadPoolAssumption DEF Control, PoolType, Locals
  <2>5. NextBarrier(t) = End(n)
    BY <1>2, <1>9, <2>2, <2>4 DEF NextBarrier
  <2>6. Ahead(t) /\ ~ Ahead(t)' /\ Drawn(t)' = {t} /\ ~ Past(t)'
    BY <1>5, <1>9, <2>1, <2>3 DEF Ahead, Fresh, Gone, Away, Drawn, Past
  <2> QED BY <1>1, <1>2, <1>3, <1>6, <1>7, <1>9, <2>1, <2>5, <2>6, OwnPart
<1>10. CASE pc[t] = "barrier"
  <2>1. pc'[t] = "node"
    BY <1>10, AfterBarrierFacts
  <2>2. ~ Fresh(t) /\ ~ Fresh(t)'
    BY <1>10, <2>1 DEF Fresh, Gone, Away
  <2>3. Ahead(t)' = Ahead(t)
    BY <1>2, <1>3, <1>5, <1>10, <2>1, <2>2 DEF Ahead, Leaving
  <2>4. Drawn(t)' = Drawn(t) /\ Past(t)' = Past(t)
    BY <1>10, <2>1, <2>3 DEF Drawn, Past
  <2> QED BY <1>2, <1>3, <1>4, <1>7, <1>8, <2>3, <2>4, SteadyStep
<1>11. CASE pc[t] = "last_barrier"
  <2>1. pc'[t] = IF t = 0 THEN "idle" ELSE "pause"
    BY <1>11, AfterBarrierFacts
  <2>2. Fresh(t)' = Fresh(t)
    BY <1>2, <1>3, <1>5, <1>11, <2>1 DEF Fresh, Gone, Away
  <2>3. Ahead(t)' = Ahead(t)
    BY <1>11, <2>1, <2>2 DEF Ahead
  <2>4. Drawn(t)' = Drawn(t) /\ Past(t)' = Past(t)
    BY <1>11, <2>1, <2>3 DEF Drawn, Past
  <2> QED BY <1>2, <1>3, <1>4, <1>7, <1>8, <2>3, <2>4, SteadyStep
<1> QED BY <1>9, <1>10, <1>11 DEF Barriers

\* The main thread sets the counter before anybody draws.
LEMMA FirstChunkParts ==
    ASSUME Control, PartsInv, NEW t \in Threads, FirstChunk(t)
    PROVE  PartsInv'
<1>1. /\ pc[t] = "mul_mat" /\ Goto(t, "mul_mat_barrier")
      /\ current_chunk' = IF t = 0 THEN local[t].nth ELSE current_chunk
      /\ UNCHANGED <<barrierVars, pool, abort, ec, cgraph, parts, local>>
  BY DEF FirstChunk
<1>2. 0 \in Threads /\ pc'[t] = "mul_mat_barrier" /\ \A u \in Threads \ {t} : pc'[u] = pc[u]
  BY <1>1, MovedTo, ThreadFacts DEF Control, Inv
<1>3. pc[t] \in Inside \ Barriers
  BY <1>1 DEF Inside, Barriers
<1>4. t \in Active /\ ~ Fresh(t) /\ ~ Gone(t) /\ VariablesOK(t)
  BY <1>1, <1>3, InsideFacts
<1>5. PICK n \in 0 .. NNodes - 1 : n = local[t].node
  BY <1>1, <1>4, ThreadPoolAssumption DEF VariablesOK, Inside, Control, PoolType, Locals
<1>6. NextBarrier(0) = Mul(n)
  BY <1>1, <1>4, <1>5 DEF NextBarrier, Control, Lockstep
<1>7. UNCHANGED <<n_threads_cur, n_barrier_passed, bar, n_graph, local>> /\ Active' = Active
  BY <1>1 DEF barrierVars, pool, Active
<1>8. NextBarrier(0)' = NextBarrier(0)
  BY <1>1, <1>2, <1>7, SameView, FirstChunkControl
<1>9. Working' /\ AfterAbort' /\ Returned'
  BY <1>6, <1>8, Distinct DEF Working, WorkOn, AfterAbort, Returned
<1>10. Cleared'
  BY <1>1, <1>2 DEF PartsInv, Cleared
<1>11. PartsFit' /\ BeforeMul'
  BY <1>1, <1>7, <1>8 DEF PartsInv, PartsFit, BeforeMul, Computed, WholeNode
<1>12. CounterSet'
  <2>1. CASE t = 0
    <3>1. current_chunk' = n_threads_cur
      BY <1>1, <1>4, <2>1 DEF VariablesOK, Inside
    <3>2. n_threads_cur <= MaxThreads + Chunks
      BY ThreadPoolAssumption, BarrierAssumption DEF Control, Inv, BarrierTypeOK
    <3> QED BY <1>7, <3>1, <3>2 DEF CounterSet
  <2>2. CASE t # 0
    <3>1. pc'[0] = pc[0] /\ Released(0)' = Released(0) /\ current_chunk' = current_chunk
      BY <1>1, <1>2, <2>2, SameBarrier
    <3> QED BY <1>7, <3>1 DEF PartsInv, CounterSet
  <2> QED BY <2>1, <2>2
<1> QED BY <1>9, <1>10, <1>11, <1>12 DEF PartsInv

\* Nobody notices at once that the graph is to stop after this node.
LEMMA AbortParts ==
    ASSUME Control, PartsInv, NodeDone(0), abort' = local[0].node + 1, ec' = "aborted"
    PROVE  PartsInv'
<1>1. /\ pc[0] = "node_done" /\ UNCHANGED <<barrierVars, pool, current_chunk, cgraph, parts>>
  BY DEF NodeDone
<1>2. BarrierTypeOK /\ 0 \in Threads /\ 0 \in Active /\ Active \subseteq Threads
  BY ThreadFacts DEF Control, Inv
<1>3. pc[0] \in Inside \ Barriers
  BY <1>1 DEF Inside, Barriers
<1>4. ~ Fresh(0) /\ ~ Released(0) /\ VariablesOK(0)
  BY <1>1, <1>2, <1>3, InsideFacts
<1>5. PICK k \in 0 .. NNodes - 1 : k = local[0].node /\ abort = -1 /\ abort' = k + 1
  BY <1>1, <1>2, <1>4, ThreadPoolAssumption
     DEF VariablesOK, Inside, Control, MainOK, AbortOK, PoolType, Locals
<1>6. NextBarrier(0) = End(k) /\ NextBarrier(0)' = End(k)
  BY <1>1, <1>4, <1>5, AbortControl DEF NextBarrier
<1>7. NNodes \in Nat /\ k \in Nat
  BY ThreadPoolAssumption
<1>8. WorkOn(k) /\ WorkOn(k)' /\ Share(k) /\ (k \in MulMats => Draw(k))
  <2>1. WorkOn(k) /\ WorkOn(k)'
    BY <1>5, <1>6, <1>7 DEF WorkOn
  <2> QED BY <2>1 DEF PartsInv, Working
<1>9. /\ \A u \in Threads \ {0} : local'[u] = local[u]
      /\ \/ k + 1 < NNodes /\ Goto(0, "barrier")
         \/ Goto(0, "node") /\ local'[0].node = NNodes
  <2>1. CASE k + 1 < NNodes
    BY <1>5, <2>1 DEF NodeDone
  <2>2. CASE ~ (k + 1 < NNodes)
    <3>1. local' = [local EXCEPT ![0].node = @ + 1] /\ k + 1 = NNodes /\ Goto(0, "node")
      BY <1>5, <1>7, <2>2 DEF NodeDone
    <3> QED BY <1>2, <1>5, <3>1 DEF Control, PoolType, Locals
  <2> QED BY <2>1, <2>2
<1>10. /\ \A u \in Threads \ {0} : pc'[u] = pc[u]
       /\ pc'[0] = "barrier" \/ (pc'[0] = "node" /\ local'[0].node = NNodes)
  BY <1>2, <1>9, MovedTo DEF Control
<1>11. UNCHANGED <<n_threads_cur, n_barrier_passed, bar, n_graph>> /\ \A u : Released(u)' = Released(u)
  BY <1>1, SameBarrier DEF barrierVars, pool
<1>12. Ahead(0) = FALSE /\ Ahead(0)' = FALSE
  <2>1. Ahead(0) = FALSE
    BY <1>1, <1>4 DEF Ahead
  <2>2. ~ Fresh(0)' /\ ~ Released(0)'
    BY <1>4, <1>10, <1>11 DEF Fresh
  <2> QED BY <1>10, <2>1, <2>2 DEF Ahead, Leaving
<1>13. Drawn(0)' = Drawn(0) /\ Past(0)' = Past(0) /\ Ahead(0)' = Ahead(0)
  BY <1>1, <1>10, <1>12 DEF Drawn, Past
<1>14. ASSUME NEW u \in Active \ {0}
       PROVE  Ahead(u)' = Ahead(u) /\ Drawn(u)' = Drawn(u) /\ Past(u)' = Past(u)
  <2>1. /\ u \in Threads /\ pc'[u] = pc[u] /\ local'[u] = local[u] /\ NextBarrier(u) = End(k)
        /\ local[u].node \in 0 .. NNodes /\ ThreadOK(u)
    BY <1>2, <1>6, <1>9, <1>10 DEF Control, Lockstep, PoolType, Locals
  <2>2. Fresh(u)' = Fresh(u)
    BY <1>11, <2>1 DEF Fresh, Gone
  <2>3. pc[u] = "node" => Leaving(local[u].node)' = Leaving(local[u].node)
    <3> SUFFICES ASSUME pc[u] = "node" PROVE Leaving(local[u].node)' = Leaving(local[u].node)
      OBVIOUS
    <3>1. PICK m \in Nat : m = local[u].node /\ m <= NNodes
      BY <1>7, <2>1
    <3>2. From(m) = End(k)
      BY <2>1, <3>1 DEF NextBarrier, Fresh, Gone, Away
    <3>3. Leaving(m)' = Leaving(m)
      BY <1>5, <3>1, <3>2, SameEnd
    <3> QED BY <2>1, <3>1, <3>3 DEF Leaving
  <2>4. pc[u] = "barrier" /\ Released(u) => Leaving(local[u].node + 1)' = Leaving(local[u].node + 1)
    <3> SUFFICES ASSUME pc[u] = "barrier", Released(u)
                 PROVE  Leaving(local[u].node + 1)' = Leaving(local[u].node + 1)
      OBVIOUS
    <3>1. local[u].node + 1 < NNodes
      BY <2>1 DEF ThreadOK, VariablesOK
    <3>2. PICK m \in Nat : m = local[u].node + 1 /\ m <= NNodes
      BY <1>7, <2>1, <3>1
    <3>3. From(m) = End(k)
      BY <2>1, <3>2 DEF NextBarrier, Fresh, Gone, Away
    <3>4. Leaving(m)' = Leaving(m)
      BY <1>5, <3>2, <3>3, SameEnd
    <3> QED BY <2>1, <3>2, <3>4 DEF Leaving
  <2>5. Ahead(u)' = Ahead(u)
    BY <1>11, <2>1, <2>2, <2>3, <2>4 DEF Ahead
  <2> QED BY <2>1, <2>5 DEF Drawn, Past
<1>15. \A u \in Active : Ahead(u)' = Ahead(u) /\ Drawn(u)' = Drawn(u) /\ Past(u)' = Past(u)
  BY <1>13, <1>14
<1>16. Share(k)' /\ (k \in MulMats => Draw(k)')
  BY <1>1, <1>8, <1>11, <1>15, SameShare
<1>17. PartsFit' /\ current_chunk' <= MaxThreads + Chunks
  BY <1>1, <1>11 DEF PartsInv, PartsFit, CounterSet
<1> QED BY <1>8, <1>16, <1>17, OnNode

-----------------------------------------------------------------------------

\* When every thread has done what it can for a node, the node is whole.
LEMMA NodeWhole ==
    ASSUME Control, NEW n \in 0 .. NNodes - 1, Share(n), n \in MulMats => Draw(n),
           \A u \in Active : Past(u)
    PROVE  Computed(n + 1)
<1>1. BarrierTypeOK /\ 0 \in Active /\ n_threads_cur \in Nat /\ current_chunk \in Nat
  BY ThreadFacts DEF Control, Inv, PoolType
<1>2. n \in Nat
  BY ThreadPoolAssumption
<1>3. \A u \in Active : Claims(u) = {} /\ Drawn(u) = {}
  BY DEF Past, Claims, Drawn
<1>4. \A c \in Active : <<n, c>> \in parts
  BY <1>3 DEF Share
<1>5. ASSUME NEW c \in Parts(n, n_threads_cur) PROVE <<n, c>> \in parts
  <2>1. CASE c < n_threads_cur
    <3>1. c \in Active
      BY <1>1, <1>5, <2>1, PartsOf DEF Active
    <3> QED BY <1>4, <3>1
  <2>2. CASE ~ (c < n_threads_cur)
    <3>1. OnDemand(n) /\ c \in 0 .. Chunks - 1 /\ Chunks \in Nat
      BY <1>1, <1>5, <2>2, PartsOf
    <3>2. Draw(n)
      BY <3>1 DEF OnDemand
    <3>3. current_chunk >= Chunks
      BY <1>1, <3>1, <3>2 DEF Draw
    <3>4. c \in n_threads_cur .. current_chunk - 1 /\ c < Chunks
      BY <1>1, <2>2, <3>1, <3>3
    <3> QED BY <1>3, <3>1, <3>2, <3>4 DEF Draw
  <2> QED BY <2>1, <2>2
<1>6. WholeNode(n)
  BY <1>5 DEF WholeNode
<1>7. \A k \in 0 .. (n + 1) - 1 : WholeNode(k)
  <2> SUFFICES ASSUME NEW k \in 0 .. (n + 1) - 1 PROVE WholeNode(k)
    OBVIOUS
  <2>1. k = n \/ k \in 0 .. n - 1
    BY <1>2
  <2> QED BY <2>1, <1>6 DEF Share
<1>8. \A p \in parts : p[1] < n + 1
  <2> SUFFICES ASSUME NEW p \in parts PROVE p[1] < n + 1
    OBVIOUS
  <2>1. p[1] \in Int /\ p[1] <= n
    BY DEF Share, Control, PoolType
  <2> QED BY <1>2, <2>1
<1> QED BY <1>7, <1>8 DEF Computed

\* Everybody goes to a node that has not been begun.
LEMMA NodeBegins ==
    ASSUME BarrierTypeOK, NEW n \in 0 .. NNodes - 1, Computed(n)', UNCHANGED n_threads_cur,
           \A p \in parts' : p[1] \in Int,
           \A u \in Active : Claims(u)' = {u}
    PROVE  Share(n)'
<1>1. Active' = Active
  BY DEF Active
<1>2. n \in Nat /\ \A p \in parts' : p[1] <= n /\ p[1] # n
  BY ThreadPoolAssumption DEF Computed
<1>3. \A u \in Active : (\A c \in Claims(u)' : <<n, c>> \notin parts') /\ u \in Claims(u)'
  BY <1>2
<1>4. \A u, v \in Active : u # v => Claims(u)' \cap Claims(v)' = {}
  OBVIOUS
<1> QED BY <1>1, <1>2, <1>3, <1>4 DEF Computed, Share

\* All threads are held by a barrier, and one lets them go.
LEMMA ThroughFacts ==
    ASSUME Control, Control', NEW t \in Active, AfterBarrier(t),
           UNCHANGED <<n_threads_cur, pool, work>>, bar'[t].at = "out",
           \A u \in Active : pc[u] \in Barriers /\ ~ Released(u),
           \A u \in Active \ {t} : /\ pc'[u] = pc[u] /\ local'[u] = local[u]
                                   /\ Released(u)' /\ ~ Fresh(u)'
    PROVE  /\ NextBarrier(0)' = After(0)
           /\ \A u \in Active :
                 /\ pc[u] = pc[0] /\ (pc[0] # "last_barrier" => local[u].node = local[0].node)
                 /\ VariablesOK(u) /\ ~ Fresh(u) /\ ~ Fresh(u)'
<1>1. BarrierTypeOK /\ 0 \in Active /\ 0 \in Threads /\ Active \subseteq Threads /\ Active' = Active
  BY ThreadFacts DEF Control, Inv, Active
<1>2. \A u \in Active : VariablesOK(u) /\ ~ Fresh(u)
  BY <1>1, HeldFacts
<1>3. ASSUME NEW u \in Active
      PROVE  /\ pc[u] = pc[0] /\ (pc[0] # "last_barrier" => local[u].node = local[0].node)
             /\ After(u) = After(0)
  <2>1. NextBarrier(u) = NextBarrier(0)
    BY DEF Control, Lockstep
  <2> QED BY <1>1, <2>1, SameAfter
<1>4. NextBarrier(t)' = After(t) /\ ~ Fresh(t)'
  BY <1>1, PassedBarrier
<1>5. NextBarrier(t)' = NextBarrier(0)'
  <2>1. Lockstep'
    BY DEF Control
  <2> QED BY <1>1, <2>1 DEF Lockstep
<1> QED BY <1>2, <1>3, <1>4, <1>5

\* When the barrier is passed, the node is whole and the next one begins, the
\* matrix product goes on to its parts, or the graph is over.
LEMMA ThroughParts ==
    ASSUME Control, PartsInv, Control', NEW t \in Active, AfterBarrier(t),
           UNCHANGED <<n_threads_cur, pool, work>>, bar'[t].at = "out",
           \A u \in Active : pc[u] \in Barriers /\ ~ Released(u),
           \A u \in Active \ {t} : /\ pc'[u] = pc[u] /\ local'[u] = local[u]
                                   /\ Released(u)' /\ ~ Fresh(u)'
    PROVE  PartsInv'
<1>1. BarrierTypeOK /\ 0 \in Active /\ 0 \in Threads /\ Active \subseteq Threads /\ Active' = Active
  BY ThreadFacts DEF Control, Inv, Active
<1>2. /\ NextBarrier(0)' = After(0)
      /\ \A u \in Active :
            /\ pc[u] = pc[0] /\ (pc[0] # "last_barrier" => local[u].node = local[0].node)
            /\ VariablesOK(u) /\ ~ Fresh(u) /\ ~ Fresh(u)'
  BY ThroughFacts
<1>3. UNCHANGED <<n_threads_cur, n_graph, abort, parts, current_chunk>>
  BY DEF pool, work
<1>4. pc[t] \in Barriers /\ t \in Threads /\ ~ Released(t)'
  BY <1>1 DEF Released
<1>5. /\ local'[t].node = IF pc[t] = "barrier" THEN local[t].node + 1 ELSE local[t].node
      /\ local'[t].chunk = local[t].chunk
  BY <1>4, AfterBarrierFacts DEF Control, PoolType, Locals
<1>6. \A n : Computed(n)' = Computed(n)
  BY <1>3 DEF Computed, WholeNode
<1>7. Cleared' /\ PartsFit'
  <2>1. pc'[0] \notin {"kick", "kick_graph"}
    BY <1>1, <1>4, AfterBarrierFacts DEF Barriers
  <2> QED BY <1>3, <2>1 DEF PartsInv, Cleared, PartsFit
<1>8. CounterSet'
  <2>1. pc'[0] = "mul_mat_barrier" => Released(0)'
    BY <1>1, <1>4, AfterBarrierFacts DEF Barriers
  <2> QED BY <1>3, <2>1 DEF PartsInv, CounterSet
<1>9. \A p \in parts' : p[1] \in Int /\ p[1] \in 0 .. NNodes - 1
  BY <1>3 DEF Control, PoolType
<1>10. CASE pc[0] = "mul_mat_barrier"
  <2>1. PICK n \in 0 .. NNodes - 1 : n = local[0].node /\ n \in MulMats
    BY <1>1, <1>2, <1>10, ThreadPoolAssumption
       DEF VariablesOK, Inside, Control, PoolType, Locals
  <2>2. NextBarrier(0)' = End(n)
    BY <1>2, <1>10, <2>1 DEF After
  <2>3. NextBarrier(0) = Mul(n)
    BY <1>1, <1>2, <1>10, <2>1 DEF NextBarrier
  <2>4. Computed(n)'
    BY <1>6, <2>3 DEF PartsInv, BeforeMul
  <2>5. ASSUME NEW u \in Active
        PROVE  Claims(u)' = {u} /\ ~ Past(u)' /\ \A c \in Drawn(u)' : c = u
    <3>1. CASE u = t
      <4>1. pc'[t] = "part" /\ local[t].chunk = t
        BY <1>2, <1>4, <1>10, AfterBarrierFacts DEF VariablesOK
      <4>2. ~ Ahead(t)'
        BY <1>2, <4>1 DEF Ahead
      <4> QED BY <1>5, <3>1, <4>1, <4>2 DEF Claims, Drawn, Past
    <3>2. CASE u # t
      <4>1. pc'[u] = "mul_mat_barrier"
        BY <1>2, <1>10, <2>5, <3>2
      <4>2. Ahead(u)'
        BY <4>1 DEF Ahead
      <4> QED BY <4>1, <4>2 DEF Claims, Drawn, Past
    <3> QED BY <3>1, <3>2
  <2>6. Share(n)'
    BY <1>1, <1>3, <1>9, <2>4, <2>5, NodeBegins
  <2>7. current_chunk' = n_threads_cur /\ n_threads_cur' = n_threads_cur /\ n_threads_cur \in Nat
    BY <1>1, <1>3, <1>10, ThreadFacts DEF PartsInv, CounterSet
  <2>8. Draw(n)'
    <3>1. \A p \in parts' : p[1] # n
      BY <2>4, <1>9 DEF Computed
    <3>2. \A u \in Active : u < n_threads_cur
      BY <2>7 DEF Active
    <3>3. Cardinality(Over') \in Nat
      BY <1>1, SomeActive DEF Over
    <3>4. Chunks \in Nat
      BY ThreadPoolAssumption
    <3> QED BY <1>1, <2>5, <2>7, <3>1, <3>2, <3>3, <3>4 DEF Draw, OnDemand
  <2>9. WorkOn(n)'
    <3>1. abort' = -1
      BY <1>3, <1>10 DEF Control, MainOK, AbortOK
    <3> QED BY <2>2, <3>1 DEF WorkOn
  <2>10. current_chunk' <= MaxThreads + Chunks
    BY <1>8 DEF CounterSet
  <2> QED BY <1>7, <2>6, <2>8, <2>9, <2>10, OnNode
<1>11. CASE pc[0] = "barrier"
  <2>1. PICK n \in 0 .. NNodes - 1 : n = local[0].node /\ n + 1 < NNodes /\ n \in Nat /\ NNodes \in Nat
    BY <1>1, <1>2, <1>11, ThreadPoolAssumption
       DEF VariablesOK, Inside, Control, PoolType, Locals
  <2>2. NextBarrier(0)' = From(n + 1)
    BY <1>2, <1>11, <2>1 DEF After
  <2>3. NextBarrier(0) = End(n)
    BY <1>1, <1>2, <1>11, <2>1 DEF NextBarrier
  <2>4. \A u \in Active : Past(u)
    BY <1>2, <1>11 DEF Past, Ahead
  <2>5. WorkOn(n)
    BY <2>1, <2>3 DEF WorkOn
  <2>6. Computed(n + 1)'
    BY <1>6, <2>4, <2>5, NodeWhole DEF PartsInv, Working
  <2>7. abort \in {-1, n + 1} /\ abort' = abort
    BY <1>3, <1>11, <2>1 DEF Control, MainOK, AbortOK
  <2>8. Returned'
    BY <2>2, FromNotRest DEF Returned
  <2>9. ASSUME NEW u \in Active
        PROVE  /\ Drawn(u)' = {}
               /\ IF Leaving(n + 1)' THEN Past(u)' ELSE Claims(u)' = {u}
    <3>1. CASE u = t
      <4>1. pc'[t] = "node" /\ local'[t].node = n + 1
        BY <1>2, <1>4, <1>5, <1>11, <2>1, AfterBarrierFacts
      <4>2. Ahead(t)' <=> ~ Leaving(n + 1)'
        BY <1>2, <4>1 DEF Ahead, Leaving
      <4> QED BY <3>1, <4>1, <4>2 DEF Claims, Drawn, Past
    <3>2. CASE u # t
      <4>1. pc'[u] = "barrier" /\ local'[u].node = n /\ Released(u)' /\ ~ Fresh(u)'
        BY <1>2, <1>11, <2>1, <2>9, <3>2
      <4>2. Ahead(u)' <=> ~ Leaving(n + 1)'
        BY <4>1 DEF Ahead, Leaving
      <4> QED BY <4>1, <4>2 DEF Claims, Drawn, Past
    <3> QED BY <3>1, <3>2
  <2>10. Leaving(n + 1)' <=> abort = n + 1
    BY <2>1, <2>7 DEF Leaving
  <2>11. CASE abort = n + 1
    <3>1. NextBarrier(0)' = Last
      BY <2>1, <2>2, <2>11 DEF From, Leaving
    <3>2. AfterAbort'
      BY <1>1, <2>6, <2>7, <2>9, <2>10, <2>11 DEF AfterAbort
    <3>3. Working'
      <4> SUFFICES ASSUME NEW m \in 0 .. NNodes - 1, WorkOn(m)' PROVE FALSE
        BY DEF Working
      <4>1. m + 1 = NNodes
        BY <3>1, Distinct DEF WorkOn
      <4>2. m = NNodes - 1
        BY <2>1, <4>1
      <4> QED BY <2>1, <2>7, <2>11, <4>2 DEF WorkOn
    <3>4. BeforeMul'
      BY <3>1, Distinct DEF BeforeMul
    <3> QED BY <1>7, <1>8, <2>8, <3>2, <3>3, <3>4 DEF PartsInv
  <2>12. CASE abort # n + 1
    <3>1. PICK m \in 0 .. NNodes - 1 : m = n + 1 /\ abort = -1
      BY <2>1, <2>7, <2>12
    <3>2. AfterAbort'
      BY <2>7, <3>1 DEF AfterAbort
    <3>3. CASE m \in MulMats
      <4>1. NextBarrier(0)' = Mul(m)
        BY <2>1, <2>2, <3>1, <3>3 DEF From, Leaving
      <4>2. BeforeMul'
        BY <2>6, <3>1, <4>1, Distinct DEF BeforeMul
      <4>3. Working'
        BY <4>1, Distinct DEF Working, WorkOn
      <4> QED BY <1>7, <1>8, <2>8, <3>2, <4>2, <4>3 DEF PartsInv
    <3>4. CASE m \notin MulMats
      <4>1. NextBarrier(0)' = End(m)
        BY <2>1, <2>2, <3>1, <3>4 DEF From, Leaving
      <4>2. WorkOn(m)'
        BY <2>7, <3>1, <4>1 DEF WorkOn
      <4>3. \A u \in Active : Claims(u)' = {u}
        BY <2>9, <2>10, <2>12
      <4>4. Share(m)'
        BY <1>1, <1>3, <1>9, <2>6, <3>1, <4>3, NodeBegins
      <4>5. current_chunk' <= MaxThreads + Chunks
        BY <1>8 DEF CounterSet
      <4> QED BY <1>7, <3>4, <4>2, <4>4, <4>5, OnNode
    <3> QED BY <3>3, <3>4
  <2> QED BY <2>11, <2>12
<1>12. CASE pc[0] = "last_barrier"
  <2>1. NextBarrier(0)' = Rest
    BY <1>2, <1>12 DEF After
  <2>2. NextBarrier(0) = Last
    BY <1>1, <1>2, <1>12 DEF NextBarrier
  <2>3. \A u \in Active : Past(u)
    BY <1>2, <1>12 DEF Past, Ahead
  <2>4. Working' /\ BeforeMul' /\ AfterAbort'
    BY <2>1, Distinct DEF Working, WorkOn, BeforeMul, AfterAbort
  <2>5. Returned'
    <3>1. NNodes \in Nat \ {0} /\ abort \in {-1} \cup 1 .. NNodes
      BY ThreadPoolAssumption DEF Control, PoolType
    <3>2. CASE abort \in 1 .. NNodes - 1
      <4>1. Computed(abort)
        BY <2>2, <3>2 DEF PartsInv, AfterAbort
      <4>2. PICK m \in 1 .. NNodes - 1 : m = abort
        BY <3>2
      <4> QED BY <1>3, <1>6, <4>1, <4>2 DEF Returned
    <3>3. CASE abort \in {-1, NNodes}
      <4>1. PICK n \in 0 .. NNodes - 1 : n + 1 = NNodes
        BY <3>1
      <4>2. End(n) = Last
        BY <4>1, Distinct
      <4>3. WorkOn(n)
        BY <2>2, <3>3, <4>2 DEF WorkOn
      <4>4. Computed(NNodes)
        BY <2>3, <4>1, <4>3, NodeWhole DEF PartsInv, Working
      <4> QED BY <1>3, <1>6, <3>3, <4>4 DEF Returned
    <3> QED BY <3>1, <3>2, <3>3
  <2> QED BY <1>7, <1>8, <2>4, <2>5 DEF PartsInv
<1> QED BY <1>1, <1>10, <1>11, <1>12 DEF Barriers

\* The barrier of many threads and that of one
LEMMA PassParts ==
    ASSUME Control, PartsInv, NEW t \in Threads, pc[t] \in Barriers, Pass(t), AfterBarrier(t),
           UNCHANGED <<pool, work>>
    PROVE  PartsInv'
<1>1. BarrierTypeOK /\ t \in Active /\ ~ Released(t)
  BY OnlyActive DEF Pass, Control, Inv, Released
<1>2. UNCHANGED n_threads_cur /\ bar'[t].at = "out"
  BY <1>1 DEF Pass, Out, BarrierTypeOK
<1>3. \A u \in Active \ {t} :
         /\ pc[u] \in Barriers /\ ~ Released(u)
         /\ pc'[u] = pc[u] /\ local'[u] = local[u] /\ Released(u)' /\ ~ Fresh(u)'
  BY LetOut
<1>4. \A u \in Active : pc[u] \in Barriers /\ ~ Released(u)
  BY <1>1, <1>3
<1> QED BY <1>1, <1>2, <1>3, <1>4, PassControl, ThroughParts

\* (with one thread there is none).
LEMMA AloneParts ==
    ASSUME Control, PartsInv, NEW t \in Threads, pc[t] \in Barriers, bar[t].at = "out",
           n_threads_cur = 1, AfterBarrier(t), UNCHANGED <<barrierVars, pool, work>>
    PROVE  PartsInv'
<1>1. ~ Released(t)
  BY DEF Released
<1>2. t \in Active
  BY <1>1, HeldFacts
<1>3. Active = {0} /\ Active = {t}
  BY <1>2 DEF Active
<1>4. UNCHANGED n_threads_cur /\ bar'[t].at = "out"
  BY DEF barrierVars
<1> QED BY <1>1, <1>2, <1>3, <1>4, AloneControl, ThroughParts

\* A step at a barrier
LEMMA AtBarrierParts ==
    ASSUME Control, PartsInv, NEW t \in Threads, AtBarrier(t)
    PROVE  PartsInv'
<1>1. pc[t] \in Barriers /\ UNCHANGED <<pool, work>>
  BY DEF AtBarrier, Barriers
<1>2. CASE (Enter(t) \/ Arrive(t) \/ Reset(t)) /\ UNCHANGED <<pc, local>>
  BY <1>1, <1>2, ArrivingParts
<1>3. CASE Pass(t) /\ AfterBarrier(t)
  BY <1>1, <1>3, PassParts
<1>4. CASE Leave(t) /\ AfterBarrier(t)
  BY <1>1, <1>4, LeaveParts
<1>5. CASE bar[t].at = "out" /\ n_threads_cur = 1 /\ AfterBarrier(t) /\ UNCHANGED barrierVars
  BY <1>1, <1>5, AloneParts
<1> QED BY <1>2, <1>3, <1>4, <1>5 DEF AtBarrier

\* A step of ggml_graph_compute_thread()
LEMMA ComputeThreadParts ==
    ASSUME Control, PartsInv, NEW t \in Threads, ComputeThread(t)
    PROVE  PartsInv'
<1>1. ASSUME NodeDone(t) PROVE PartsInv'
  <2>1. CASE UNCHANGED <<abort, ec>>
    BY <1>1, <2>1, GoOnParts
  <2>2. CASE t = 0 /\ abort' = local[t].node + 1 /\ ec' = "aborted"
    BY <1>1, <2>2, AbortParts
  <2> QED BY <1>1, <2>1, <2>2 DEF NodeDone, AskCallback
<1> QED
  BY <1>1, BeginParts, NextNodeParts, LeaveLoopParts, FirstChunkParts, ComputePartParts,
     NextChunkParts, NoMorePartsParts, AtBarrierParts DEF ComputeThread

-----------------------------------------------------------------------------

\* Nothing is computed at first.
LEMMA InitParts == Init => PartsInv
<1> SUFFICES ASSUME Init PROVE PartsInv
  OBVIOUS
<1>1. Control
  BY InitControl
<1>2. pc[0] = "idle"
  BY <1>1, ThreadFacts DEF Init, Control, Inv
<1>3. NextBarrier(0) = Rest
  BY <1>2 DEF NextBarrier, Fresh
<1>4. Working /\ BeforeMul /\ AfterAbort
  BY <1>3, Distinct DEF Working, WorkOn, BeforeMul, AfterAbort
<1>5. Cleared /\ PartsFit /\ CounterSet /\ Returned
  BY <1>2, ThreadPoolAssumption, BarrierAssumption DEF Init, Cleared, PartsFit, CounterSet, Returned
<1> QED BY <1>4, <1>5 DEF PartsInv

\* While no graph is computed little is said of the parts.
LEMMA RestParts ==
    ASSUME NextBarrier(0)' = Rest, pc'[0] \in {"kick", "kick_graph"}, parts' = {},
           current_chunk' <= MaxThreads + Chunks
    PROVE  PartsInv'
<1>1. Working' /\ BeforeMul' /\ AfterAbort'
  BY Distinct DEF Working, WorkOn, BeforeMul, AfterAbort
<1>2. Cleared' /\ PartsFit' /\ CounterSet' /\ Returned'
  BY DEF Cleared, PartsFit, CounterSet, Returned
<1> QED BY <1>1, <1>2 DEF PartsInv

\* The steps between two graphs: the parts of the last graph are forgotten, ...
LEMMA SetUpParts == Control /\ PartsInv /\ SetUp => PartsInv'
<1> SUFFICES ASSUME Control, PartsInv, SetUp PROVE PartsInv'
  OBVIOUS
<1>1. pc'[0] = "kick"
  BY BetweenStep DEF SetUp, Between
<1>2. NextBarrier(0)' = Rest
  BY <1>1 DEF NextBarrier, Fresh
<1>3. parts' = {} /\ current_chunk' = 0
  BY DEF SetUp
<1> QED BY <1>1, <1>2, <1>3, RestParts, ThreadPoolAssumption, BarrierAssumption

\* ... with the number of threads nothing is computed yet, ...
LEMMA KickThreadsParts == Control /\ PartsInv /\ KickThreads => PartsInv'
<1> SUFFICES ASSUME Control, PartsInv, KickThreads PROVE PartsInv'
  OBVIOUS
<1>1. pc'[0] = "kick_graph"
  BY BetweenStep DEF KickThreads, Between
<1>2. NextBarrier(0)' = Rest
  BY <1>1 DEF NextBarrier, Fresh
<1>3. parts' = {} /\ current_chunk' <= MaxThreads + Chunks
  BY DEF KickThreads, work, PartsInv, Cleared, CounterSet
<1> QED BY <1>1, <1>2, <1>3, RestParts

\* ... with the graph every active thread has its first part before it, ...
LEMMA KickGraphParts == Control /\ PartsInv /\ KickGraph => PartsInv'
<1> SUFFICES ASSUME Control, PartsInv, KickGraph PROVE PartsInv'
  OBVIOUS
<1>1. /\ pc[0] = "kick_graph" /\ Goto(0, "kick_wake") /\ n_graph' = n_graph + 1
      /\ UNCHANGED <<barrierVars, work, local>>
  BY DEF KickGraph
<1>2. pc'[0] = "kick_wake" /\ \A w \in Workers : pc'[w] = pc[w]
  BY <1>1, BetweenStep DEF Between
<1>3. parts' = {} /\ abort = -1 /\ abort' = -1 /\ current_chunk' = current_chunk
      /\ n_threads_cur' = n_threads_cur /\ Active' = Active
  BY <1>1 DEF PartsInv, Cleared, Control, MainOK, AbortOK, work, barrierVars, Active
<1>4. /\ BarrierTypeOK /\ 0 \in Active /\ 0 \notin Workers
      /\ \A u \in Active : u = 0 \/ u \in Workers
  BY ThreadFacts DEF Control, Inv
<1>5. ASSUME NEW u \in Active PROVE Claims(u)' = {u} /\ Drawn(u)' = {}
  <2>1. Fresh(u)'
    <3>1. CASE u = 0
      BY <1>2, <3>1 DEF Fresh
    <3>2. CASE u \in Workers
      <4>1. Gone(u) /\ local[u].last_graph = n_graph
        BY <1>1, <1>5, <3>2, Resting DEF Between
      <4>2. Gone(u)'
        BY <1>1, <1>2, <3>2, <4>1, SameBarrier DEF Gone
      <4>3. n_graph' # n_graph
        BY <1>1 DEF Control, PoolType
      <4> QED BY <1>1, <1>4, <3>2, <4>1, <4>2, <4>3 DEF Fresh
    <3> QED BY <1>4, <3>1, <3>2
  <2>2. pc'[u] # "part"
    BY <2>1 DEF Fresh, Gone, Away
  <2> QED BY <2>1, <2>2 DEF Claims, Ahead, Drawn
<1>6. 0 \in 0 .. NNodes - 1 /\ ~ Leaving(0)'
  BY <1>3, ThreadPoolAssumption DEF Leaving
<1>7. NextBarrier(0)' = IF 0 \in MulMats THEN Mul(0) ELSE End(0)
  BY <1>2, <1>6 DEF NextBarrier, Fresh, From
<1>8. Computed(0)'
  BY <1>3 DEF Computed
<1>9. PartsFit' /\ current_chunk' <= MaxThreads + Chunks
  BY <1>3 DEF PartsInv, PartsFit, CounterSet
<1>10. CASE 0 \in MulMats
  <2>1. NextBarrier(0)' = Mul(0)
    BY <1>7, <1>10
  <2>2. BeforeMul'
    BY <1>6, <1>8, <2>1, Distinct DEF BeforeMul
  <2>3. Working' /\ AfterAbort' /\ Returned'
    BY <1>6, <2>1, Distinct DEF Working, WorkOn, AfterAbort, Returned
  <2>4. Cleared' /\ CounterSet'
    BY <1>2, <1>3, <1>9 DEF Cleared, CounterSet
  <2> QED BY <1>9, <2>2, <2>3, <2>4 DEF PartsInv
<1>11. CASE 0 \notin MulMats
  <2>1. WorkOn(0)'
    BY <1>3, <1>7, <1>11 DEF WorkOn
  <2>2. Share(0)'
    BY <1>3, <1>4, <1>5, <1>6, <1>8, NodeBegins
  <2> QED BY <1>6, <1>9, <1>11, <2>1, <2>2, OnNode
<1> QED BY <1>10, <1>11

\* A broadcast changes nobody's part.
LEMMA BroadcastParts ==
    ASSUME Control, PartsInv, NEW where \in {"idle", "join", "begin"},
           pc[0] = IF where = "begin" THEN "kick_wake" ELSE "idle", Broadcast(where),
           UNCHANGED <<barrierVars, n_graph, work, local>>
    PROVE  PartsInv'
<1>1. /\ pc'[0] = where
      /\ \A w \in Workers : pc'[w] = pc[w] \/ {pc[w], pc'[w]} \subseteq Away \ {"poll_new"}
  BY BroadcastFacts DEF Between
<1>2. UNCHANGED <<n_threads_cur, n_barrier_passed, bar, abort, parts, current_chunk>>
  BY DEF barrierVars, work
<1>3. \A u \in Active : u = 0 \/ (u \in Workers /\ u # 0)
  BY ThreadFacts DEF Control, Inv
<1>4. NextBarrier(0)' = NextBarrier(0)
  BY <1>1, <1>2 DEF NextBarrier, Fresh, From, Leaving
<1>5. Ahead(0)' = Ahead(0) /\ Drawn(0)' = Drawn(0) /\ Past(0)' = Past(0)
  BY <1>1 DEF Ahead, Fresh, Drawn, Past
<1>6. ASSUME NEW w \in Workers, w # 0
      PROVE  Ahead(w)' = Ahead(w) /\ Drawn(w)' = Drawn(w) /\ Past(w)' = Past(w)
  <2>1. CASE pc'[w] = pc[w]
    BY <1>2, <2>1, SameView
  <2>2. CASE {pc[w], pc'[w]} \subseteq Away \ {"poll_new"}
    <3>1. Fresh(w)' = Fresh(w)
      BY <2>2 DEF Fresh, Gone, Away
    <3>2. Ahead(w)' = Ahead(w)
      BY <2>2, <3>1 DEF Ahead, Away
    <3> QED BY <2>2, <3>2 DEF Drawn, Past, Away
  <2> QED BY <1>1, <2>1, <2>2
<1>7. \A u \in Active : Ahead(u)' = Ahead(u) /\ Drawn(u)' = Drawn(u) /\ Past(u)' = Past(u)
  BY <1>3, <1>5, <1>6
<1>8. /\ pc[0] \notin {"kick", "kick_graph"}
      /\ pc'[0] \notin {"kick", "kick_graph", "mul_mat_barrier"}
  BY <1>1
<1> QED BY <1>2, <1>4, <1>7, <1>8, SameParts

\* ... and when the pool is freed the parts stay.
LEMMA JoinParts == Control /\ PartsInv /\ Join => PartsInv'
<1> SUFFICES ASSUME Control, PartsInv, Join PROVE PartsInv'
  OBVIOUS
<1>1. pc[0] = "join" /\ Goto(0, "freed") /\ UNCHANGED <<barrierVars, pool, work, local>>
  BY DEF Join
<1>2. 0 \in Threads
  BY ThreadFacts DEF Control, Inv
<1>3. pc'[0] = "freed" /\ \A u \in Threads \ {0} : pc'[u] = pc[u]
  BY <1>1, <1>2, MovedTo DEF Control
<1>4. NextBarrier(0)' = NextBarrier(0)
  BY <1>1, <1>3 DEF NextBarrier, Fresh
<1>5. Ahead(0)' = Ahead(0) /\ Drawn(0)' = Drawn(0) /\ Past(0)' = Past(0)
  BY <1>1, <1>3 DEF Ahead, Fresh, Drawn, Past
<1>6. UNCHANGED <<n_threads_cur, n_barrier_passed, bar, n_graph, abort, parts, current_chunk>>
  BY <1>1 DEF barrierVars, pool, work
<1> QED BY <1>1, <1>2, <1>3, <1>4, <1>5, <1>6, SteadyStep

\* Nothing happens.
LEMMA StutterParts == PartsInv /\ UNCHANGED vars => PartsInv'
<1> SUFFICES ASSUME PartsInv, UNCHANGED vars PROVE PartsInv'
  OBVIOUS
<1>1. UNCHANGED <<n_threads_cur, n_barrier_passed, bar, n_graph, abort, parts, current_chunk, pc, local>>
  BY DEF vars, pool, work, barrierVars
<1>2. \A u : /\ Ahead(u)' = Ahead(u) /\ Drawn(u)' = Drawn(u) /\ Past(u)' = Past(u)
             /\ NextBarrier(u)' = NextBarrier(u) /\ Released(u)' = Released(u)
  BY <1>1, SameView
<1> QED BY <1>1, <1>2, SameParts

\* PartsInv is inductive, given Control.
LEMMA NextParts == Control /\ PartsInv /\ [Next]_vars => PartsInv'
<1> SUFFICES ASSUME Control, PartsInv, [Next]_vars PROVE PartsInv'
  OBVIOUS
<1>1. CASE SetUp \/ KickThreads \/ KickGraph \/ Join
  BY <1>1, SetUpParts, KickThreadsParts, KickGraphParts, JoinParts
<1>2. CASE KickWake
  BY <1>2, BroadcastParts DEF KickWake
<1>3. CASE \E value \in BOOLEAN : SetPause(value)
  BY <1>3, BroadcastParts DEF SetPause
<1>4. CASE FreePool
  BY <1>4, BroadcastParts DEF FreePool
<1>5. CASE ComputeThread(0)
  <2>1. 0 \in Threads
    BY ThreadFacts DEF Control, Inv
  <2> QED BY <1>5, <2>1, ComputeThreadParts
<1>6. ASSUME NEW w \in Workers, Worker(w) PROVE PartsInv'
  <2>1. w \in Threads
    BY ThreadFacts DEF Control, Inv
  <2> QED BY <1>6, <2>1, WaitingParts, ComputeThreadParts DEF Worker
<1>7. CASE UNCHANGED vars
  BY <1>7, StutterParts
<1> QED BY <1>1, <1>2, <1>3, <1>4, <1>5, <1>6, <1>7 DEF Next, Main, MainGoesOn, Freed

-----------------------------------------------------------------------------

\* Every part of the node the threads are at is computed, claimed by one thread or
\* not yet drawn, in every state, and what a graph leaves behind is whole.
THEOREM PoolPartsInv == ~ Growing => (Spec => []PartsInv)
<1> SUFFICES ASSUME ~ Growing PROVE Spec => []PartsInv
  OBVIOUS
<1>1. Control /\ PartsInv /\ [Next]_vars => PartsInv'
  BY NextParts
<1>2. Spec => []Control
  BY PoolInv
<1> QED BY <1>1, <1>2, InitParts, PTL DEF Spec

\* The variables keep their types; in particular the counter of chunks overruns by
\* no more than the threads (each draws once in vain), and no worker has seen a
\* graph that is not published.
THEOREM PoolTypeOK == ~ Growing => (Spec => []TypeOK)
<1> SUFFICES ASSUME ~ Growing PROVE Spec => []TypeOK
  OBVIOUS
<1>1. Control /\ PartsInv => TypeOK
  <2> SUFFICES ASSUME Control, PartsInv PROVE TypeOK
    OBVIOUS
  <2>1. BarrierTypeOK /\ 0 \in Threads
    BY ThreadFacts DEF Control, Inv
  <2>2. n_graph \in 0 .. MaxGraphs /\ cgraph \in 0 .. MaxGraphs
    BY ThreadPoolAssumption DEF Control, PoolType, MainOK
  <2>3. current_chunk \in 0 .. 2 * MaxThreads + Chunks
    BY ThreadPoolAssumption, BarrierAssumption DEF Control, PoolType, PartsInv, CounterSet
  <2>4. pc[0] \in Between \cup {"kick_wake"} \cup Inside
    BY <2>1 DEF Control, PoolType
  <2>5. \A w \in Workers : local[w].last_graph <= n_graph
    BY DEF Control, WorkerOK
  <2> QED BY <2>1, <2>2, <2>3, <2>4, <2>5 DEF TypeOK, Control, PoolType, Between, Inside
<1> QED BY <1>1, PoolInv, PoolPartsInv, PTL

\* Every part of a graph is computed once, by one thread, from the graph and the
\* number of threads of now, and no node before the nodes before it are whole:
\* what ggml_barrier(), the shared counter and the polling are there for.
THEOREM PoolPartsOnce == ~ Growing => (Spec => []PartsOnce)
<1> SUFFICES ASSUME ~ Growing PROVE Spec => []PartsOnce
  OBVIOUS
<1>1. Control /\ PartsInv => PartsOnce
  <2> SUFFICES ASSUME Control, PartsInv, NEW t \in Threads, pc[t] = "part"
               PROVE  LET l == local[t] IN
                      /\ l.graph = cgraph /\ l.nth = n_threads_cur
                      /\ <<l.node, l.chunk>> \notin parts
                      /\ \A u \in Threads \ {t} : pc[u] = "part" =>
                            <<local[u].node, local[u].chunk>> # <<l.node, l.chunk>>
                      /\ \A k \in 0 .. l.node - 1 : {k} \X Parts(k, l.nth) \subseteq parts
    BY DEF PartsOnce
  <2>1. /\ t \in Active /\ ~ Ahead(t) /\ ~ Past(t) /\ NextBarrier(t) = End(local[t].node)
        /\ local[t].graph = cgraph /\ local[t].nth = n_threads_cur
    BY PartFacts
  <2>2. PICK n \in 0 .. NNodes - 1 : n = local[t].node
    BY PartFacts
  <2>3. Share(n)
    BY <2>1, <2>2, WorkingAt
  <2>4. Claims(t) = {local[t].chunk}
    BY <2>1 DEF Claims, Drawn
  <2>5. ASSUME NEW u \in Threads \ {t}, pc[u] = "part", local[u].node = n
        PROVE  local[u].chunk # local[t].chunk
    <3>1. u \in Active /\ ~ Ahead(u)
      BY <2>5, PartFacts
    <3>2. Claims(u) = {local[u].chunk}
      BY <2>5, <3>1 DEF Claims, Drawn
    <3> QED BY <2>1, <2>3, <2>4, <3>1, <3>2 DEF Share
  <2> QED BY <2>1, <2>2, <2>3, <2>4, <2>5 DEF Share, WholeNode
<1> QED BY <1>1, PoolInv, PoolPartsInv, PTL

-----------------------------------------------------------------------------
(***************************************************************************)
(* What the caller of ggml_graph_compute() sees.                           *)
(***************************************************************************)

\* The status is that of the graph, and the main thread computes a graph.
Status ==
    /\ ec = IF abort = -1 THEN "success" ELSE "aborted"
    /\ pc[0] \in {"kick_wake"} \cup Inside => n_graph > 0

\* A step of the computation moves one thread, and starts no graph.
LEMMA ComputeMoves ==
    ASSUME Control, NEW t \in Threads, ComputeThread(t)
    PROVE  /\ pc[t] \in Inside /\ n_graph' = n_graph /\ n_threads_cur' = n_threads_cur
           /\ \A u \in Threads \ {t} : pc'[u] = pc[u]
           /\ NodeDone(t) \/ UNCHANGED <<abort, ec>>
           /\ ComputePart(t) \/ parts' = parts
           /\ pc'[t] \in Inside \/ pc[t] = "last_barrier"
<1>1. CASE AtBarrier(t)
  <2>1. pc[t] \in Barriers /\ UNCHANGED <<pool, work>>
    BY <1>1 DEF AtBarrier, Barriers
  <2>2. n_threads_cur' = n_threads_cur
    BY <1>1 DEF AtBarrier, Enter, Arrive, Reset, Pass, Leave, barrierVars
  <2>3. (\A u \in Threads \ {t} : pc'[u] = pc[u]) /\ (pc'[t] \in Inside \/ pc[t] = "last_barrier")
    <3>1. CASE UNCHANGED pc
      BY <2>1, <3>1 DEF Barriers, Inside
    <3>2. CASE AfterBarrier(t)
      BY <2>1, <3>2, AfterBarrierFacts DEF Barriers, Inside
    <3> QED BY <1>1, <3>1, <3>2 DEF AtBarrier
  <2> QED BY <2>1, <2>2, <2>3 DEF pool, work, Barriers, Inside
<1>2. ASSUME NEW where \in Inside, Goto(t, where)
      PROVE  (\A u \in Threads \ {t} : pc'[u] = pc[u]) /\ pc'[t] \in Inside
  BY <1>2, MovedTo DEF Control
<1>3. /\ {"node", "last_barrier", "mul_mat", "mul_mat_barrier", "part", "next_chunk", "node_done",
          "barrier"} \subseteq Inside
  BY DEF Inside
<1>4. CASE Begin(t)
  BY <1>2, <1>3, <1>4 DEF Begin, pool, work, barrierVars, Inside
<1>5. CASE NextNode(t)
  BY <1>2, <1>3, <1>5 DEF NextNode, pool, work, barrierVars
<1>6. CASE LeaveLoop(t)
  BY <1>2, <1>3, <1>6 DEF LeaveLoop, pool, work, barrierVars
<1>7. CASE FirstChunk(t)
  BY <1>2, <1>3, <1>7 DEF FirstChunk, pool, barrierVars
<1>8. CASE ComputePart(t)
  BY <1>2, <1>3, <1>8 DEF ComputePart, pool, barrierVars
<1>9. CASE NextChunk(t)
  BY <1>2, <1>3, <1>9 DEF NextChunk, pool, barrierVars
<1>10. CASE NoMoreParts(t)
  BY <1>2, <1>3, <1>10 DEF NoMoreParts, pool, work, barrierVars
<1>11. CASE NodeDone(t)
  BY <1>2, <1>3, <1>11 DEF NodeDone, pool, barrierVars
<1> QED BY <1>1, <1>4, <1>5, <1>6, <1>7, <1>8, <1>9, <1>10, <1>11 DEF ComputeThread

\* What a worker does outside the computation.
LEMMA WaitingMoves ==
    ASSUME Control, NEW w \in Workers,
           \/ PauseLoop(w) \/ StopCheck(w) \/ PollCheck(w) \/ Poll(w) \/ PollNew(w)
           \/ CheckForWork(w)
    PROVE  UNCHANGED <<barrierVars, pool, work>> /\ pc'[0] = pc[0]
<1>1. w \in Threads /\ w # 0 /\ 0 \in Threads
  BY ThreadFacts DEF Control, Inv
<1>2. UNCHANGED <<barrierVars, pool, work>>
  BY DEF PauseLoop, StopCheck, PollCheck, Poll, PollNew, CheckForWork, Idling
<1>3. \E where : Goto(w, where)
  BY DEF PauseLoop, StopCheck, PollCheck, Poll, PollNew, CheckForWork, Idling
<1> QED BY <1>1, <1>2, <1>3 DEF Goto, Control, PoolType

\* Status is inductive, given Control.
LEMMA NextStatus == Control /\ Status /\ [Next]_vars => Status'
<1> SUFFICES ASSUME Control, Status, [Next]_vars PROVE Status'
  OBVIOUS
<1> USE DEF Status
<1>1. 0 \in Threads /\ Workers \subseteq Threads /\ 0 \notin Workers /\ n_graph \in Nat
  BY ThreadFacts DEF Control, Inv, PoolType
<1>2. CASE SetUp
  BY <1>2, BetweenStep DEF SetUp, Between, Inside
<1>3. CASE KickThreads \/ Join
  BY <1>3, BetweenStep DEF KickThreads, Join, Between, Inside, work
<1>4. CASE KickGraph
  BY <1>1, <1>4, BetweenStep DEF KickGraph, Between, work
<1>5. CASE KickWake
  BY <1>5, BroadcastFacts DEF KickWake, work
<1>6. ASSUME NEW value \in BOOLEAN, SetPause(value) PROVE Status'
  BY <1>6, BroadcastFacts DEF SetPause, Between, Inside, work
<1>7. CASE FreePool
  BY <1>7, BroadcastFacts DEF FreePool, Between, Inside, work
<1>8. ASSUME NEW t \in Threads, ComputeThread(t) PROVE Status'
  <2>1. ec' = IF abort' = -1 THEN "success" ELSE "aborted"
    <3>1. CASE UNCHANGED <<abort, ec>>
      BY <3>1
    <3>2. CASE NodeDone(t) /\ t = 0 /\ abort' = local[t].node + 1 /\ ec' = "aborted"
      BY <1>1, <3>2 DEF Control, PoolType, Locals
    <3> QED BY <1>8, <3>1, <3>2, ComputeMoves DEF NodeDone, AskCallback
  <2> QED BY <1>1, <1>8, <2>1, ComputeMoves
<1>9. ASSUME NEW w \in Workers, Worker(w) PROVE Status'
  <2>1. CASE ComputeThread(w)
    BY <1>1, <1>8, <2>1
  <2>2. CASE ~ ComputeThread(w)
    BY <1>9, <2>2, WaitingMoves DEF Worker, pool, work
  <2> QED BY <2>1, <2>2
<1>10. CASE UNCHANGED vars
  BY <1>10 DEF vars, pool, work
<1> QED
  BY <1>1, <1>2, <1>3, <1>4, <1>5, <1>6, <1>7, <1>8, <1>9, <1>10 DEF Next, Main, MainGoesOn, Freed

-----------------------------------------------------------------------------

\* The nodes that are whole are counted.
LEMMA WholeNodes ==
    ASSUME BarrierTypeOK, \A p \in parts : p[1] \in Nat, NEW n \in 0 .. NNodes, Computed(n)
    PROVE  Whole = 0 .. n - 1 /\ Cardinality(Whole) = n
<1>1. n \in Nat /\ NNodes \in Nat
  BY ThreadPoolAssumption
<1>2. \A k : 0 \in Parts(k, n_threads_cur)
  <2> SUFFICES ASSUME NEW k PROVE 0 \in Parts(k, n_threads_cur)
    OBVIOUS
  <2>1. 0 \in Active
    BY ThreadFacts
  <2> QED BY <2>1, PartsOf
<1>3. ASSUME NEW k \in 0 .. NNodes - 1, k \notin 0 .. n - 1 PROVE ~ WholeNode(k)
  <2>1. <<k, 0>> \notin parts
    BY <1>1, <1>3 DEF Computed
  <2> QED BY <1>2, <2>1 DEF WholeNode
<1>4. Whole = {k \in 0 .. NNodes - 1 : WholeNode(k)}
  BY DEF Whole, WholeNode
<1>5. 0 .. n - 1 \subseteq 0 .. NNodes - 1
  BY <1>1
<1>6. Whole = 0 .. n - 1
  BY <1>3, <1>4, <1>5 DEF Computed
<1>7. Cardinality(0 .. n - 1) = n
  <2>1. 0 \in Int /\ n - 1 \in Int
    BY <1>1
  <2> QED BY <1>1, <2>1, FS_Interval
<1> QED BY <1>6, <1>7

\* At a node, it and those after it may or may not be whole.
LEMMA WholeAt ==
    ASSUME BarrierTypeOK, \A p \in parts : p[1] \in Nat, NEW n \in 0 .. NNodes - 1, Share(n)
    PROVE  /\ WholeNode(n) => Computed(n + 1)
           /\ ~ WholeNode(n) => Whole = 0 .. n - 1
           /\ Cardinality(Whole) = IF WholeNode(n) THEN n + 1 ELSE n
<1>1. n \in Nat /\ NNodes \in Nat /\ n + 1 \in 0 .. NNodes
  BY ThreadPoolAssumption
<1>2. WholeNode(n) => Computed(n + 1)
  <2> SUFFICES ASSUME WholeNode(n) PROVE Computed(n + 1)
    OBVIOUS
  <2>1. \A k \in 0 .. (n + 1) - 1 : k = n \/ k \in 0 .. n - 1
    BY <1>1
  <2>2. \A p \in parts : p[1] < n + 1
    <3> SUFFICES ASSUME NEW p \in parts PROVE p[1] < n + 1
      OBVIOUS
    <3>1. p[1] \in Nat /\ p[1] <= n
      BY DEF Share
    <3> QED BY <1>1, <3>1
  <2> QED BY <2>1, <2>2 DEF Computed, Share
<1>3. ASSUME ~ WholeNode(n) PROVE Whole = 0 .. n - 1
  <2>1. 0 \in Active
    BY ThreadFacts
  <2>2. ASSUME NEW k \in n + 1 .. NNodes - 1 PROVE ~ WholeNode(k)
    <3>1. 0 \in Parts(k, n_threads_cur)
      BY <2>1, PartsOf
    <3>2. <<k, 0>> \notin parts
      BY <1>1 DEF Share
    <3> QED BY <3>1, <3>2 DEF WholeNode
  <2>3. Whole = {k \in 0 .. NNodes - 1 : WholeNode(k)}
    BY DEF Whole, WholeNode
  <2>4. \A k \in 0 .. NNodes - 1 : k \in 0 .. n - 1 \/ k = n \/ k \in n + 1 .. NNodes - 1
    BY <1>1
  <2>5. 0 .. n - 1 \subseteq 0 .. NNodes - 1
    BY <1>1
  <2> QED BY <1>3, <2>2, <2>3, <2>4, <2>5 DEF Share
<1>4. Cardinality(0 .. n - 1) = n
  <2>1. 0 \in Int /\ n - 1 \in Int
    BY <1>1
  <2> QED BY <1>1, <2>1, FS_Interval
<1>5. WholeNode(n) => Cardinality(Whole) = n + 1
  BY <1>1, <1>2, WholeNodes
<1> QED BY <1>2, <1>3, <1>4, <1>5

\* While the threads are at node n, the callback has stopped the graph after this
\* node or not at all.
LEMMA LimitAt ==
    ASSUME Control, NEW n \in 0 .. NNodes - 1, WorkOn(n)
    PROVE  /\ abort \in {-1, n + 1}
           /\ pc[0] \in {"kick_wake"} \cup Inside
<1>1. 0 \in Threads /\ 0 \in Active /\ n \in Nat /\ NNodes \in Nat
  BY ThreadFacts, ThreadPoolAssumption DEF Control, Inv
<1>2. NextBarrier(0) = End(n)
  BY DEF WorkOn
<1>3. pc[0] \notin Between
  BY <1>2, Distinct DEF NextBarrier, Fresh, Between
<1>4. pc[0] \in {"kick_wake"} \cup Inside
  BY <1>1, <1>3 DEF Control, PoolType
<1>5. ASSUME abort # -1 PROVE abort = n + 1
  <2>1. pc[0] \in {"node", "barrier", "last_barrier"}
    BY <1>4, <1>5 DEF Control, MainOK, AbortOK, Inside
  <2>2. CASE n = NNodes - 1
    BY <1>1, <1>5, <2>2 DEF WorkOn
  <2>3. CASE n # NNodes - 1
    <3>1. End(n) # Last
      BY <1>1, <2>3, Distinct
    <3>2. CASE pc[0] = "node"
      <4>1. Leaving(local[0].node) /\ NextBarrier(0) = From(local[0].node)
        BY <1>5, <3>2 DEF Control, MainOK, AbortOK, Leaving, NextBarrier, Fresh
      <4> QED BY <1>2, <3>1, <4>1 DEF From
    <3>3. CASE pc[0] = "barrier"
      <4>1. abort = local[0].node + 1
        BY <1>5, <3>3 DEF Control, MainOK, AbortOK
      <4>2. VariablesOK(0) /\ local[0].node \in 0 .. NNodes
        BY <1>1 DEF Control, ThreadOK, PoolType, Locals
      <4>3. NextBarrier(0) = IF Released(0) THEN From(local[0].node + 1) ELSE End(local[0].node)
        BY <3>3 DEF NextBarrier, Fresh
      <4>4. ~ Released(0)
        BY <1>2, <3>1, <4>1, <4>3 DEF From, Leaving
      <4>5. local[0].node \in 0 .. NNodes - 1
        BY <1>1, <3>3, <4>2 DEF VariablesOK
      <4>6. local[0].node = n
        BY <1>2, <4>3, <4>4, <4>5, Distinct
      <4> QED BY <4>1, <4>6
    <3>4. CASE pc[0] = "last_barrier"
      <4>1. NextBarrier(0) \in {Last, Rest}
        BY <3>4 DEF NextBarrier, Fresh
      <4> QED BY <1>2, <3>1, <4>1, Distinct
    <3> QED BY <2>1, <3>2, <3>3, <3>4
  <2> QED BY <2>2, <2>3
<1> QED BY <1>4, <1>5


-----------------------------------------------------------------------------

\* What the variables of GraphCompute are mapped to
Phase == CASE pc[0] = "idle" -> "idle"
           [] pc[0] \in {"join", "freed"} -> "freed"
           [] OTHER -> "computing"
Done == Cardinality(Whole)
Limit == IF abort = -1 THEN NNodes ELSE abort

\* The phase of the abstract graph, by where the main thread is.
LEMMA PhaseIs ==
    /\ pc[0] = "idle" => Phase = "idle"
    /\ pc[0] \in {"join", "freed"} => Phase = "freed"
    /\ pc[0] \in {"kick", "kick_graph", "kick_wake"} \cup Inside => Phase = "computing"
    /\ pc'[0] = "idle" => Phase' = "idle"
    /\ pc'[0] \in {"join", "freed"} => Phase' = "freed"
    /\ pc'[0] \in {"kick", "kick_graph", "kick_wake"} \cup Inside => Phase' = "computing"
BY DEF Phase, Inside

\* The steps of the abstract graph in these terms.
LEMMA GraphSteps ==
    /\ Phase = "idle" /\ Phase' = "computing" /\ Done' = 0 /\ Limit' = NNodes
       /\ ec' = "success" => Graph!Start
    /\ Phase = "computing" /\ Done < Limit /\ Done' = Done + 1
       /\ Phase' = Phase /\ Limit' = Limit /\ ec' = ec => Graph!ComputeNode
    /\ Phase = "computing" /\ ec = "success" /\ Limit' \in {Done, Done + 1} \cap (1 .. NNodes)
       /\ ec' = "aborted" /\ Phase' = Phase /\ Done' = Done => Graph!Abort
    /\ Phase = "computing" /\ Done = Limit /\ Phase' = "idle"
       /\ Done' = Done /\ Limit' = Limit /\ ec' = ec => Graph!Return
    /\ Phase = "idle" /\ Phase' = "freed"
       /\ Done' = Done /\ Limit' = Limit /\ ec' = ec => Graph!Free
    /\ Phase' = Phase /\ Done' = Done /\ Limit' = Limit /\ ec' = ec
       => UNCHANGED Graph!graphVars
<1>1. Phase = "idle" /\ Phase' = "computing" /\ Done' = 0 /\ Limit' = NNodes
       /\ ec' = "success" => Graph!Start
  BY DEF Graph!Start, Phase, Done, Limit
<1>2. Phase = "computing" /\ Done < Limit /\ Done' = Done + 1
       /\ Phase' = Phase /\ Limit' = Limit /\ ec' = ec => Graph!ComputeNode
  BY DEF Graph!ComputeNode, Phase, Done, Limit
<1>3. Phase = "computing" /\ ec = "success" /\ Limit' \in {Done, Done + 1} \cap (1 .. NNodes)
       /\ ec' = "aborted" /\ Phase' = Phase /\ Done' = Done => Graph!Abort
  BY DEF Graph!Abort, Phase, Done, Limit
<1>4. Phase = "computing" /\ Done = Limit /\ Phase' = "idle"
       /\ Done' = Done /\ Limit' = Limit /\ ec' = ec => Graph!Return
  BY DEF Graph!Return, Phase, Done, Limit
<1>5. Phase = "idle" /\ Phase' = "freed"
       /\ Done' = Done /\ Limit' = Limit /\ ec' = ec => Graph!Free
  BY DEF Graph!Free, Phase, Done, Limit
<1>6. Phase' = Phase /\ Done' = Done /\ Limit' = Limit /\ ec' = ec
       => UNCHANGED Graph!graphVars
  BY DEF Graph!graphVars, Phase, Done, Limit
<1> QED BY <1>1, <1>2, <1>3, <1>4, <1>5, <1>6

\* How many nodes are whole while the threads are at node n.
LEMMA CountWhole ==
    ASSUME NEW n \in 0 .. NNodes - 1
    PROVE  \A W \in SUBSET (0 .. NNodes - 1) :
              (0 .. n - 1) \subseteq W /\ W \subseteq (0 .. n) =>
                 Cardinality(W) = IF n \in W THEN n + 1 ELSE n
<1>1. n \in Nat /\ 0 \in Int /\ n \in Int /\ n - 1 \in Int
  BY ThreadPoolAssumption
<1>2. Cardinality(0 .. n) = n + 1
  BY <1>1, FS_Interval
<1>3. Cardinality(0 .. n - 1) = n
  BY <1>1, FS_Interval
<1>4. ASSUME NEW W \in SUBSET (0 .. NNodes - 1), (0 .. n - 1) \subseteq W, W \subseteq (0 .. n)
      PROVE  W = IF n \in W THEN 0 .. n ELSE 0 .. n - 1
  <2>1. \A k \in 0 .. n : k = n \/ k \in 0 .. n - 1
    BY <1>1
  <2> QED BY <1>4, <2>1
<1> QED BY <1>2, <1>3, <1>4

\* Every node has a part.
LEMMA SomePart == \A m \in Nat \ {0} : \A k : 0 \in Parts(k, m)
BY ThreadPoolAssumption DEF Parts

\* A graph of which nothing is computed.
LEMMA NothingDone ==
    /\ BarrierTypeOK /\ parts = {} => Done = 0
    /\ BarrierTypeOK' /\ parts' = {} => Done' = 0
<1>1. Cardinality({}) = 0
  BY FS_EmptySet
<1>2. BarrierTypeOK => n_threads_cur \in Nat \ {0}
  BY ThreadFacts
<1>3. BarrierTypeOK' => n_threads_cur' \in Nat \ {0}
  BY BarrierAssumption DEF BarrierTypeOK
<1>4. \A m \in Nat \ {0} : \A k : ~ ({k} \X Parts(k, m) \subseteq {})
  <2> SUFFICES ASSUME NEW m \in Nat \ {0}, NEW k PROVE <<k, 0>> \in {k} \X Parts(k, m)
    OBVIOUS
  <2> QED BY SomePart
<1>5. ASSUME BarrierTypeOK, parts = {} PROVE Whole = {}
  BY <1>2, <1>4, <1>5 DEF Whole
<1>6. ASSUME BarrierTypeOK', parts' = {} PROVE Whole' = {}
  BY <1>3, <1>4, <1>6 DEF Whole
<1> QED BY <1>1, <1>5, <1>6 DEF Done

\* The parts and the number of threads say what is done.
LEMMA SameDone == UNCHANGED <<parts, n_threads_cur>> => Done' = Done
<1> SUFFICES ASSUME UNCHANGED <<parts, n_threads_cur>> PROVE Done' = Done
  OBVIOUS
<1>1. Whole' = Whole
  BY DEF Whole
<1> QED BY <1>1 DEF Done

\* Setting up a graph starts it.
LEMMA SetUpGraph == Control' /\ Control /\ SetUp => Graph!Start
<1> SUFFICES ASSUME Control, Control', SetUp PROVE Graph!Start
  OBVIOUS
<1>1. pc[0] = "idle" /\ pc'[0] = "kick"
  BY BetweenStep DEF SetUp, Between
<1>2. Done' = 0
  BY NothingDone DEF SetUp, Control, Inv
<1>3. Limit' = NNodes /\ ec' = "success"
  BY DEF SetUp, Limit
<1> QED BY <1>1, <1>2, <1>3, PhaseIs, GraphSteps

\* The number of threads changes what the parts of a node are, but none is computed.
LEMMA KickThreadsGraph == Control' /\ Control /\ PartsInv /\ KickThreads => UNCHANGED Graph!graphVars
<1> SUFFICES ASSUME Control', Control, PartsInv, KickThreads PROVE UNCHANGED Graph!graphVars
  OBVIOUS
<1>1. pc[0] = "kick" /\ pc'[0] = "kick_graph"
  BY BetweenStep DEF KickThreads, Between
<1>2. parts = {} /\ parts' = {}
  BY <1>1 DEF KickThreads, work, PartsInv, Cleared
<1>3. Done' = Done
  BY <1>2, NothingDone DEF Control, Inv
<1>4. Limit' = Limit /\ ec' = ec
  BY DEF KickThreads, work, Limit
<1> QED BY <1>1, <1>3, <1>4, PhaseIs, GraphSteps


\* The steps of the main thread between two graphs that change nothing the caller sees.
LEMMA QuietGraph ==
    ASSUME Control, KickGraph \/ KickWake \/ Join \/ (\E value \in BOOLEAN : SetPause(value))
    PROVE  UNCHANGED Graph!graphVars
<1>1. UNCHANGED <<n_threads_cur, work>>
  BY DEF KickGraph, KickWake, Join, SetPause, barrierVars
<1>2. Done' = Done /\ Limit' = Limit /\ ec' = ec
  BY <1>1, SameDone DEF work, Limit
<1>3. Phase' = Phase
  <2>1. CASE KickGraph
    BY <2>1, PhaseIs, BetweenStep DEF KickGraph, Between
  <2>2. CASE KickWake
    BY <2>2, PhaseIs, BroadcastFacts DEF KickWake, Inside
  <2>3. CASE Join
    BY <2>3, PhaseIs, BetweenStep DEF Join, Between
  <2>4. ASSUME NEW value \in BOOLEAN, SetPause(value) PROVE Phase' = Phase
    BY <2>4, PhaseIs, BroadcastFacts DEF SetPause, Between
  <2> QED BY <2>1, <2>2, <2>3, <2>4
<1> QED BY <1>2, <1>3, GraphSteps

\* Freeing the pool
LEMMA FreeGraph == Control /\ FreePool => Graph!Free
<1> SUFFICES ASSUME Control, FreePool PROVE Graph!Free
  OBVIOUS
<1>1. UNCHANGED <<n_threads_cur, work>>
  BY DEF FreePool, barrierVars
<1>2. Done' = Done /\ Limit' = Limit /\ ec' = ec
  BY <1>1, SameDone DEF work, Limit
<1>3. pc[0] = "idle" /\ pc'[0] = "join"
  BY BroadcastFacts DEF FreePool, Between
<1> QED BY <1>2, <1>3, PhaseIs, GraphSteps

\* Computing a part makes the node whole, or it does not.
LEMMA ComputePartGraph ==
    ASSUME Control, PartsInv, NEW t \in Threads, ComputePart(t)
    PROVE  Graph!ComputeNode \/ UNCHANGED Graph!graphVars
<1>1. /\ pc[t] = "part" /\ parts' = parts \cup {<<local[t].node, local[t].chunk>>}
      /\ UNCHANGED <<n_threads_cur, abort, ec>>
  BY DEF ComputePart, barrierVars
<1>2. PICK n \in 0 .. NNodes - 1 : n = local[t].node
  BY <1>1, PartFacts
<1>3. WorkOn(n) /\ Share(n)
  <2>1. t \in Active /\ ~ Past(t) /\ NextBarrier(t) = End(n)
    BY <1>1, <1>2, PartFacts
  <2> QED BY <2>1, WorkingAt
<1>4. abort \in {-1, n + 1} /\ pc[0] \in {"kick_wake"} \cup Inside
  BY <1>3, LimitAt
<1>5. n \in Nat /\ NNodes \in Nat /\ n < NNodes
  BY ThreadPoolAssumption
<1>6. n_threads_cur \in Nat \ {0} /\ \A p \in parts : p[1] \in Nat
  BY ThreadFacts DEF Control, Inv, PoolType
<1>7. /\ 0 .. n - 1 \subseteq Whole /\ Whole \subseteq Whole'
      /\ Whole \in SUBSET (0 .. NNodes - 1) /\ Whole' \in SUBSET (0 .. NNodes - 1)
  <2>1. \A k \in 0 .. n - 1 : k \in 0 .. NNodes - 1 /\ WholeNode(k)
    BY <1>3, <1>5 DEF Share
  <2> QED BY <1>1, <2>1 DEF Whole, WholeNode
<1>8. Whole \subseteq 0 .. n /\ Whole' \subseteq 0 .. n
  <2>1. \A k \in 0 .. NNodes - 1 : k \notin 0 .. n => <<k, 0>> \notin parts /\ <<k, 0>> \notin parts'
    BY <1>1, <1>2, <1>3, <1>5, <1>6 DEF Share
  <2>2. \A k : 0 \in Parts(k, n_threads_cur) /\ 0 \in Parts(k, n_threads_cur')
    BY <1>1, <1>6, SomePart
  <2>3. \A k : <<k, 0>> \in {k} \X Parts(k, n_threads_cur)
               /\ <<k, 0>> \in {k} \X Parts(k, n_threads_cur')
    BY <2>2
  <2> QED BY <2>1, <2>3 DEF Whole
<1>9. /\ Done = IF n \in Whole THEN n + 1 ELSE n
      /\ Done' = IF n \in Whole' THEN n + 1 ELSE n
  <2>1. Cardinality(Whole) = IF n \in Whole THEN n + 1 ELSE n
    BY <1>7, <1>8, CountWhole
  <2>2. Cardinality(Whole') = IF n \in Whole' THEN n + 1 ELSE n
    BY <1>7, <1>8, CountWhole
  <2> QED BY <2>1, <2>2 DEF Done
<1>10. Phase = "computing" /\ Phase' = "computing"
  <2>1. pc'[0] \in {"kick_wake"} \cup Inside
    <3>1. ComputeThread(t) /\ 0 \in Threads
      BY ThreadFacts DEF ComputeThread, Control, Inv
    <3> QED BY <1>1, <1>4, <3>1, ComputeMoves
  <2> QED BY <1>4, <2>1, PhaseIs
<1>11. Limit' = Limit /\ Limit > n /\ ec' = ec
  BY <1>1, <1>4, <1>5 DEF Limit
<1>12. CASE n \in Whole' /\ n \notin Whole
  BY <1>9, <1>10, <1>11, <1>12, GraphSteps
<1>13. CASE ~ (n \in Whole' /\ n \notin Whole)
  BY <1>7, <1>9, <1>10, <1>11, <1>13, GraphSteps
<1> QED BY <1>12, <1>13

\* The main thread aborts the graph after a node that is whole, or soon will be.
LEMMA AbortGraph ==
    ASSUME Control, PartsInv, Status, NodeDone(0), abort' # abort
    PROVE  Graph!Abort
<1>1. /\ pc[0] = "node_done" /\ abort' = local[0].node + 1 /\ ec' = "aborted"
      /\ UNCHANGED <<n_threads_cur, parts>>
  BY DEF NodeDone, AskCallback, barrierVars
<1>2. 0 \in Threads /\ BarrierTypeOK /\ NNodes \in Nat
  BY ThreadFacts, ThreadPoolAssumption DEF Control, Inv
<1>3. VariablesOK(0) /\ NextBarrier(0) = End(local[0].node)
  <2>1. pc[0] \in Inside \ Barriers
    BY <1>1 DEF Inside, Barriers
  <2>2. ~ Fresh(0) /\ VariablesOK(0)
    BY <1>1, <1>2, <2>1, InsideFacts
  <2> QED BY <1>1, <2>2 DEF NextBarrier
<1>4. local[0].node \in 0 .. NNodes - 1
  BY <1>1, <1>2, <1>3 DEF VariablesOK, Inside, Control, PoolType, Locals
<1>5. PICK n \in 0 .. NNodes - 1 : n = local[0].node
  BY <1>4
<1>6. abort = -1 /\ ec = "success"
  BY <1>1 DEF Control, MainOK, AbortOK, Status
<1>7. Share(n)
  BY <1>3, <1>5, <1>6 DEF PartsInv, Working, WorkOn
<1>8. \A p \in parts : p[1] \in Nat
  BY DEF Control, PoolType
<1>9. Cardinality(Whole) = IF WholeNode(n) THEN n + 1 ELSE n
  BY <1>2, <1>7, <1>8, WholeAt
<1>10. Done \in {n, n + 1} /\ Done' = Done
  BY <1>1, <1>9, SameDone DEF Done
<1>11. n \in Nat /\ n + 1 \in 1 .. NNodes /\ Limit' = n + 1
  BY <1>1, <1>2, <1>5 DEF Limit
<1>12. Phase = "computing" /\ Phase' = "computing"
  <2>1. pc[0] \in Inside /\ pc'[0] \in Inside
    <3>1. ComputeThread(0)
      BY DEF ComputeThread
    <3> QED BY <1>1, <1>2, <3>1, ComputeMoves
  <2> QED BY <2>1, PhaseIs
<1>13. Limit' \in {Done, Done + 1} \cap (1 .. NNodes)
  BY <1>10, <1>11
<1> QED BY <1>1, <1>6, <1>10, <1>12, <1>13, GraphSteps


\* The main thread comes back from the last barrier when all that was to be computed is.
LEMMA ReturnGraph ==
    ASSUME Control, PartsInv', Status, AtBarrier(0), pc'[0] \notin Inside
    PROVE  Graph!Return
<1>1. 0 \in Threads /\ NNodes \in Nat
  BY ThreadFacts, ThreadPoolAssumption DEF Control, Inv
<1>2. /\ UNCHANGED <<n_threads_cur, pool, work>> /\ pc[0] \in Barriers
      /\ pc[0] = "last_barrier" /\ AfterBarrier(0)
  <2>1. pc[0] \in Barriers /\ UNCHANGED <<pool, work>>
    BY DEF AtBarrier, Barriers
  <2>2. n_threads_cur' = n_threads_cur
    BY DEF AtBarrier, Enter, Arrive, Reset, Pass, Leave, barrierVars
  <2>3. AfterBarrier(0)
    BY <2>1 DEF AtBarrier, Barriers, Inside
  <2>4. pc[0] = "last_barrier"
    BY <1>1, <2>1, <2>3, AfterBarrierFacts DEF Barriers, Inside
  <2> QED BY <2>1, <2>2, <2>3, <2>4
<1>3. pc'[0] = "idle"
  BY <1>1, <1>2, AfterBarrierFacts
<1>4. Phase = "computing" /\ Phase' = "idle"
  BY <1>2, <1>3, PhaseIs DEF Barriers, Inside
<1>5. Done' = Done /\ Limit' = Limit /\ ec' = ec
  BY <1>2, SameDone DEF work, Limit
<1>6. Limit \in 0 .. NNodes /\ abort' = abort /\ parts' = parts
  BY <1>1, <1>2 DEF Control, PoolType, work, Limit
<1>7. PICK m \in 0 .. NNodes : m = Limit
  BY <1>6
<1>8. n_graph > 0 /\ n_graph' = n_graph
  BY <1>2 DEF Status, pool, Inside, Barriers
<1>9. NextBarrier(0)' = Rest
  BY <1>3 DEF NextBarrier, Fresh
<1>10. Computed(IF abort = -1 THEN NNodes ELSE abort)'
  BY <1>3, <1>8, <1>9 DEF PartsInv, Returned
<1>11. Computed(m)
  BY <1>2, <1>6, <1>7, <1>10 DEF Computed, WholeNode, Limit
<1>12. Done = m
  <2>1. BarrierTypeOK /\ \A p \in parts : p[1] \in Nat
    BY DEF Control, Inv, PoolType
  <2> QED BY <1>11, <2>1, WholeNodes DEF Done
<1> QED BY <1>4, <1>5, <1>7, <1>12, GraphSteps

\* Only the last barrier is the end of a graph.
LEMMA LastIsBarrier ==
    ASSUME NEW t, ComputeThread(t), pc[t] = "last_barrier"
    PROVE  AtBarrier(t)
BY DEF ComputeThread, Begin, NextNode, LeaveLoop, FirstChunk, ComputePart, NextChunk, NoMoreParts,
       NodeDone

\* A step of the computation
LEMMA ComputeGraph ==
    ASSUME Control, PartsInv, PartsInv', Status, Status', NEW t \in Threads, ComputeThread(t)
    PROVE  Graph!GraphNext \/ UNCHANGED Graph!graphVars
<1>1. CASE ComputePart(t)
  BY <1>1, ComputePartGraph DEF Graph!GraphNext
<1>2. CASE NodeDone(t) /\ abort' # abort
  <2>1. t = 0
    BY <1>2 DEF NodeDone, AskCallback
  <2> QED BY <1>2, <2>1, AbortGraph DEF Graph!GraphNext
<1>3. CASE AtBarrier(0) /\ pc'[0] \notin Inside
  BY <1>3, ReturnGraph DEF Graph!GraphNext
<1>4. ASSUME ~ ComputePart(t), ~ (NodeDone(t) /\ abort' # abort),
             ~ (AtBarrier(0) /\ pc'[0] \notin Inside)
      PROVE  UNCHANGED Graph!graphVars
  <2>1. 0 \in Threads
    BY ThreadFacts DEF Control, Inv
  <2>2. parts' = parts /\ n_threads_cur' = n_threads_cur
    BY <1>4, ComputeMoves
  <2>3. abort' = abort /\ ec' = ec
    BY <1>4, ComputeMoves DEF Status
  <2>4. Phase' = Phase
    <3>1. CASE t = 0
      <4>1. pc[0] \in Inside /\ (pc'[0] \in Inside \/ pc[0] = "last_barrier")
        BY <3>1, ComputeMoves
      <4>2. pc'[0] \in Inside
        BY <1>4, <3>1, <4>1, LastIsBarrier
      <4> QED BY <4>1, <4>2, PhaseIs
    <3>2. CASE t # 0
      <4>1. pc'[0] = pc[0]
        BY <2>1, <3>2, ComputeMoves
      <4> QED BY <4>1 DEF Phase
    <3> QED BY <3>1, <3>2
  <2> QED BY <2>2, <2>3, <2>4, SameDone, GraphSteps DEF Limit
<1> QED BY <1>1, <1>2, <1>3, <1>4

\* Every step of the pool is one of the graph's, or the caller sees nothing of it.
LEMMA NextGraph ==
    ASSUME Control, Control', PartsInv, PartsInv', Status, Status', [Next]_vars
    PROVE  [Graph!GraphNext]_(Graph!graphVars)
<1>1. CASE SetUp
  BY <1>1, SetUpGraph DEF Graph!GraphNext
<1>2. CASE KickThreads
  BY <1>2, KickThreadsGraph
<1>3. CASE KickGraph \/ KickWake \/ Join \/ (\E value \in BOOLEAN : SetPause(value))
  BY <1>3, QuietGraph
<1>4. CASE FreePool
  BY <1>4, FreeGraph DEF Graph!GraphNext
<1>5. ASSUME NEW t \in Threads, ComputeThread(t) PROVE [Graph!GraphNext]_(Graph!graphVars)
  BY <1>5, ComputeGraph
<1>6. ASSUME NEW w \in Workers, Worker(w) PROVE [Graph!GraphNext]_(Graph!graphVars)
  <2>1. CASE ComputeThread(w)
    <3>1. w \in Threads
      BY ThreadFacts DEF Control, Inv
    <3> QED BY <1>5, <2>1, <3>1
  <2>2. CASE ~ ComputeThread(w)
    <3>1. UNCHANGED <<barrierVars, work>> /\ pc'[0] = pc[0]
      BY <1>6, <2>2, WaitingMoves DEF Worker
    <3>2. Done' = Done /\ Phase' = Phase /\ Limit' = Limit /\ ec' = ec
      BY <3>1, SameDone DEF work, barrierVars, Phase, Limit
    <3> QED BY <3>2, GraphSteps
  <2> QED BY <2>1, <2>2
<1>7. CASE UNCHANGED vars
  <2>1. Done' = Done /\ Phase' = Phase /\ Limit' = Limit /\ ec' = ec
    BY <1>7, SameDone DEF vars, work, barrierVars, Phase, Limit
  <2> QED BY <2>1, GraphSteps
<1>8. 0 \in Threads
  BY ThreadFacts DEF Control, Inv
<1> QED
  BY <1>1, <1>2, <1>3, <1>4, <1>5, <1>6, <1>7, <1>8 DEF Next, Main, MainGoesOn, Freed

\* The pool starts as the abstract graph does.
LEMMA InitGraph == Init => Status /\ Graph!GraphInit
<1> SUFFICES ASSUME Init PROVE Status /\ Graph!GraphInit
  OBVIOUS
<1>1. Control
  BY InitControl
<1>2. pc[0] = "idle" /\ abort = -1 /\ ec = "success" /\ parts = {}
  BY <1>1, ThreadFacts DEF Init, Control, Inv
<1>3. Status
  BY <1>2 DEF Status, Inside
<1>4. Phase = "idle" /\ Done = 0 /\ Limit = NNodes
  BY <1>1, <1>2, PhaseIs, NothingDone DEF Limit, Control, Inv
<1>5. Graph!GraphInit
  BY <1>2, <1>4 DEF Graph!GraphInit, Phase, Done, Limit
<1> QED BY <1>3, <1>5

\* The pool implements the abstract graph, but for its liveness: seen by the caller
\* of ggml_graph_compute(), nodes become whole one after the other, an abort takes
\* effect at the node the main thread has reached, and the call comes back when
\* exactly the nodes up to the abort, or all of them, are whole.
THEOREM PoolComputesGraphs ==
    ~ Growing => (Spec => Graph!GraphInit /\ [][Graph!GraphNext]_(Graph!graphVars))
<1> SUFFICES ASSUME ~ Growing
             PROVE  Spec => Graph!GraphInit /\ [][Graph!GraphNext]_(Graph!graphVars)
  OBVIOUS
<1>1. Init => Status /\ Graph!GraphInit
  BY InitGraph
<1>2. Control /\ Status /\ [Next]_vars => Status'
  BY NextStatus
<1>3. Control /\ Control' /\ PartsInv /\ PartsInv' /\ Status /\ Status' /\ [Next]_vars
      => [Graph!GraphNext]_(Graph!graphVars)
  BY NextGraph
<1>4. Spec => []Control /\ []PartsInv
  BY PoolInv, PoolPartsInv, PTL
<1> QED BY <1>1, <1>2, <1>3, <1>4, PTL DEF Spec
=============================================================================
