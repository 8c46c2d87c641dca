------------------------ MODULE ServerShutdownProofs ------------------------
(***************************************************************************)
(* The locking of the shutdown, for any number of requests in flight, any  *)
(* thread the signal may interrupt, and a signal before start_loop() too.  *)
(***************************************************************************)
EXTENDS ServerShutdown, TLAPS

(***************************************************************************)
(* The inductive invariant.  StoppedLoopIsAwake needs LoopLock: the        *)
(* handler ends while it holds the mutex, so the main thread is not        *)
(* between its test of the flag and its sleep.                             *)
(***************************************************************************)
ShutdownInv == TypeOK /\ LoopLock /\ StoppedLoopIsAwake

\* A step of the main thread preserves the invariant.
LEMMA MainThreadInv ==
    ASSUME ShutdownInv, MainThread \/ MainWakes
    PROVE  ShutdownInv'
<1> USE DEF ShutdownInv, TypeOK, LoopLock, StoppedLoopIsAwake, MainGoes, MainFree
<1>1. CASE StartLoop
  BY <1>1 DEF StartLoop
<1>2. CASE MainLocks
  BY <1>2 DEF MainLocks
<1>3. CASE LoopDecides
  BY <1>3 DEF LoopDecides
<1>4. CASE MainSends
  BY <1>4 DEF MainSends
<1>5. CASE MainWakes
  BY <1>5 DEF MainWakes
<1>6. CASE ClearResultsFlag
  BY <1>6 DEF ClearResultsFlag
<1>7. CASE NotifyReaders
  BY <1>7 DEF NotifyReaders
<1>8. CASE Join
  BY <1>8 DEF Join
<1> QED BY <1>1, <1>2, <1>3, <1>4, <1>5, <1>6, <1>7, <1>8 DEF MainThread

\* An HTTP thread touches neither the loop nor its mutex.
LEMMA HttpThreadInv ==
    ASSUME ShutdownInv, NEW r \in Reader, HttpThread(r)
    PROVE  ShutdownInv'
<1> USE DEF ShutdownInv, TypeOK, LoopLock, StoppedLoopIsAwake, ReaderGoes
<1>1. CASE ReaderScans(r)
  BY <1>1 DEF ReaderScans
<1>2. CASE ReaderSleeps(r)
  BY <1>2 DEF ReaderSleeps
<1>3. CASE ReaderWakes(r)
  BY <1>3 DEF ReaderWakes
<1> QED BY <1>1, <1>2, <1>3 DEF HttpThread

\* Nor does a signal break the invariant, wherever it arrives.
LEMMA SignalInv ==
    ASSUME ShutdownInv, Signal \/ SecondSignal \/ Handler
    PROVE  ShutdownInv'
<1> USE DEF ShutdownInv, TypeOK, LoopLock, StoppedLoopIsAwake
<1>1. CASE Signal
  BY <1>1, ShutdownAssumption DEF Signal
<1>2. CASE SecondSignal
  BY <1>2 DEF SecondSignal
<1>3. CASE HandlerLocks
  BY <1>3 DEF HandlerLocks
<1>4. CASE HandlerTerminates
  BY <1>4 DEF HandlerTerminates
<1> QED BY <1>1, <1>2, <1>3, <1>4 DEF Handler

\* The invariant holds throughout.
LEMMA ShutdownInvAlways == Spec => []ShutdownInv
<1>1. Init => ShutdownInv
  BY DEF Init, ShutdownInv, TypeOK, LoopLock, StoppedLoopIsAwake
<1>2. ShutdownInv /\ [Next]_vars => ShutdownInv'
  <2> SUFFICES ASSUME ShutdownInv, [Next]_vars PROVE ShutdownInv'
    OBVIOUS
  <2>1. CASE Next
    BY <2>1, MainThreadInv, HttpThreadInv, SignalInv DEF Next
  <2>2. CASE UNCHANGED vars
    BY <2>2 DEF vars, ShutdownInv, TypeOK, LoopLock, StoppedLoopIsAwake
  <2> QED BY <2>1, <2>2
<1> QED BY <1>1, <1>2, PTL DEF Spec

\* The variables keep their types; in particular a result is stored only for
\* an HTTP thread.
THEOREM TypeCorrect == Spec => []TypeOK
BY ShutdownInvAlways, PTL DEF ShutdownInv

\* The main thread and the signal handler never hold mutex_tasks together.
THEOREM LoopLocked == Spec => []LoopLock
BY ShutdownInvAlways, PTL DEF ShutdownInv

\* After terminate() the main thread does not go back to sleep in start_loop().
THEOREM StoppedLoopStaysAwake == Spec => []StoppedLoopIsAwake
BY ShutdownInvAlways, PTL DEF ShutdownInv
=============================================================================
