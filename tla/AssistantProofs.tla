-------------------------- MODULE AssistantProofs --------------------------
(***************************************************************************)
(* What app.py guarantees for any number of sessions, questions, builds    *)
(* and clicks.  There are three arguments, about the clicks, about the     *)
(* file and about the rules, with an inductive invariant for each of the   *)
(* first two and one of a single step for the third.                       *)
(***************************************************************************)
EXTENDS Assistant, WellFoundedInduction, TLAPS

Phase == {"idle", "load", "answer", "button", "generating", "display", "save"}

-----------------------------------------------------------------------------
(***************************************************************************)
(* Clicks.  A click is in one place: it waits in a request, or belongs to  *)
(* the run of one session, and the post of a run that is still going on    *)
(* has not been saved.                                                     *)
(***************************************************************************)

ClickTypes ==
    /\ presses \in Nat
    /\ request \in [Session -> [question : SUBSET Question, press : Nat]]
    /\ widgets \in [Session -> [question : SUBSET Question, press : Nat]]
    /\ run \in [Session -> Phase]
    /\ displayed \in SUBSET Nat
    /\ saved \in Seq(Nat)

\* Clicks are numbered in the order in which they happen.
ClicksPast ==
    /\ \A s \in Session : request[s].press =< presses /\ widgets[s].press =< presses
    /\ \A i \in DOMAIN saved : saved[i] =< presses

\* No click is in two places.
ClickInOnePlace ==
    \A s, t \in Session :
        /\ request[s].press # 0 => request[s].press # widgets[t].press
        /\ s # t /\ request[s].press # 0 => request[s].press # request[t].press
        /\ s # t /\ widgets[s].press # 0 => widgets[s].press # widgets[t].press

\* What has still to be saved is not saved.
ClickNotSaved ==
    \A s \in Session : \A i \in DOMAIN saved :
        /\ saved[i] # 0
        /\ request[s].press # saved[i]
        /\ run[s] # "idle" => widgets[s].press # saved[i]

\* A run that writes has a click, and has shown what it writes.
SaveIsShown ==
    \A s \in Session :
        /\ run[s] \in {"generating", "display", "save"} => widgets[s].press # 0
        /\ run[s] = "save" => widgets[s].press \in displayed

Once ==
    /\ \A i, j \in DOMAIN saved : saved[i] = saved[j] => i = j
    /\ \A i \in DOMAIN saved : saved[i] \in displayed

ClickInv ==
    ClickTypes /\ ClicksPast /\ ClickInOnePlace /\ ClickNotSaved /\ SaveIsShown /\ Once

\* The invariant says what the run checks.
LEMMA OnceIsSavedOnce == ClickInv => SavedOnce
BY DEF ClickInv, Once, SavedOnce, ToSet

LEMMA ClickInit == Init => ClickInv
BY DEF Init, NoRequest, Phase, ClickInv, ClickTypes, ClicksPast, ClickInOnePlace,
       ClickNotSaved, SaveIsShown, Once

\* The user's edits and clicks.
LEMMA AskClick ==
    ASSUME ClickInv, NEW s \in Session, Ask(s)
    PROVE  ClickInv'
<1>1. PICK q \in Question : request' = [request EXCEPT ![s].question = {q}]
  BY DEF Ask
<1>2. /\ \A t \in Session : request'[t].press = request[t].press
      /\ request' \in [Session -> [question : SUBSET Question, press : Nat]]
  BY <1>1 DEF ClickInv, ClickTypes
<1>3. UNCHANGED <<widgets, run, displayed, saved, presses>>
  BY DEF Ask, postVars
<1> QED
  BY <1>2, <1>3 DEF ClickInv, ClickTypes, ClicksPast, ClickInOnePlace, ClickNotSaved,
       SaveIsShown, Once

LEMMA ClickClick ==
    ASSUME ClickInv, NEW s \in Session, Click(s)
    PROVE  ClickInv'
<1>1. /\ presses' = presses + 1
      /\ request[s].press = 0
      /\ UNCHANGED <<widgets, run, displayed, saved>>
  BY DEF Click
<1> DEFINE new == [question |-> IF request[s] = NoRequest THEN widgets[s].question
                                                         ELSE request[s].question,
                  press    |-> presses + 1]
<1>2. request' = [request EXCEPT ![s] = new]
  BY <1>1 DEF Click
<1>3. new \in [question : SUBSET Question, press : Nat]
  BY DEF ClickInv, ClickTypes
<1>4. /\ request' \in [Session -> [question : SUBSET Question, press : Nat]]
      /\ request'[s].press = presses + 1
      /\ \A t \in Session \ {s} : request'[t] = request[t]
  BY <1>2, <1>3 DEF ClickInv, ClickTypes
<1> HIDE DEF new
<1>5. ClickTypes' /\ SaveIsShown' /\ Once'
  BY <1>1, <1>4 DEF ClickInv, ClickTypes, SaveIsShown, Once
<1>6. ClicksPast'
  <2>1. \A t \in Session : /\ request[t].press \in Nat /\ widgets[t].press \in Nat
                           /\ request[t].press =< presses /\ widgets[t].press =< presses
    BY DEF ClickInv, ClickTypes, ClicksPast
  <2>2. \A i \in DOMAIN saved : saved[i] \in Nat /\ saved[i] =< presses
    BY DEF ClickInv, ClickTypes, ClicksPast
  <2>3. presses \in Nat
    BY DEF ClickInv, ClickTypes
  <2> QED BY <1>1, <1>4, <2>1, <2>2, <2>3 DEF ClicksPast
<1>7. ClickInOnePlace'
  BY <1>1, <1>4 DEF ClickInv, ClickTypes, ClicksPast, ClickInOnePlace
<1>8. ClickNotSaved'
  <2>1. \A i \in DOMAIN saved : saved[i] \in Nat /\ saved[i] =< presses /\ presses \in Nat
    BY DEF ClickInv, ClickTypes, ClicksPast
  <2> QED BY <1>1, <1>4, <2>1 DEF ClickInv, ClickNotSaved
<1> QED
  BY <1>5, <1>6, <1>7, <1>8 DEF ClickInv

\* A run takes the request of its session over.
LEMMA BeginRunClick ==
    ASSUME ClickInv, NEW s \in Session, BeginRun(s)
    PROVE  ClickInv'
<1>1. /\ run' = [run EXCEPT ![s] = "load"]
      /\ widgets' = [widgets EXCEPT ![s] = request[s]]
      /\ request' = [request EXCEPT ![s] = NoRequest]
      /\ UNCHANGED <<displayed, saved, presses>>
  BY DEF BeginRun, postVars
<1>2. /\ widgets'[s].press = request[s].press /\ request'[s].press = 0
      /\ \A t \in Session \ {s} : /\ widgets'[t] = widgets[t]
                                  /\ request'[t] = request[t]
                                  /\ run'[t] = run[t]
      /\ run'[s] = "load"
  BY <1>1 DEF ClickInv, ClickTypes, NoRequest
<1>3. ClickTypes'
  BY <1>1 DEF ClickInv, ClickTypes, NoRequest, Phase
<1>4. ClicksPast' /\ SaveIsShown' /\ Once'
  BY <1>1, <1>2 DEF ClickInv, ClickTypes, ClicksPast, SaveIsShown, Once
<1>5. ClickInOnePlace'
  BY <1>1, <1>2 DEF ClickInv, ClickTypes, ClickInOnePlace
<1>6. ClickNotSaved'
  BY <1>1, <1>2 DEF ClickInv, ClickTypes, ClickNotSaved
<1> QED
  BY <1>3, <1>4, <1>5, <1>6 DEF ClickInv

\* Steps of a run that change no click and no file of posts.
LEMMA QuietClick ==
    ASSUME ClickInv, NEW s \in Session, NEW to \in {"idle", "load", "answer", "button"},
           run[s] # "idle", run' = [run EXCEPT ![s] = to],
           UNCHANGED <<request, widgets, displayed, saved, presses>>
    PROVE  ClickInv'
<1>1. /\ run'[s] = to
      /\ \A t \in Session \ {s} : run'[t] = run[t]
  BY DEF ClickInv, ClickTypes
<1> QED
  BY <1>1 DEF ClickInv, ClickTypes, ClicksPast, ClickInOnePlace, ClickNotSaved,
       SaveIsShown, Once, Phase

LEMMA GenerateClick ==
    ASSUME ClickInv, NEW s \in Session, NEW to \in {"generating", "display"},
           run[s] # "idle", widgets[s].press # 0, run' = [run EXCEPT ![s] = to],
           UNCHANGED <<request, widgets, displayed, saved, presses>>
    PROVE  ClickInv'
<1>1. /\ run'[s] = to
      /\ \A t \in Session \ {s} : run'[t] = run[t]
  BY DEF ClickInv, ClickTypes
<1> QED
  BY <1>1 DEF ClickInv, ClickTypes, ClicksPast, ClickInOnePlace, ClickNotSaved,
       SaveIsShown, Once, Phase

LEMMA DisplayClick ==
    ASSUME ClickInv, NEW s \in Session, Display(s)
    PROVE  ClickInv'
<1>1. /\ run[s] = "display" /\ run' = [run EXCEPT ![s] = "save"]
      /\ displayed' = displayed \cup {widgets[s].press}
      /\ UNCHANGED <<request, widgets, saved, presses>>
  BY DEF Display, GoesOn
<1>2. /\ run'[s] = "save"
      /\ \A t \in Session \ {s} : run'[t] = run[t]
  BY <1>1 DEF ClickInv, ClickTypes
<1>3. ClickTypes' /\ ClicksPast' /\ ClickInOnePlace'
  BY <1>1 DEF ClickInv, ClickTypes, ClicksPast, ClickInOnePlace, Phase
<1>4. ClickNotSaved'
  BY <1>1, <1>2 DEF ClickInv, ClickNotSaved
<1>5. SaveIsShown' /\ Once'
  BY <1>1, <1>2 DEF ClickInv, SaveIsShown, Once
<1> QED BY <1>3, <1>4, <1>5 DEF ClickInv

LEMMA SaveClick ==
    ASSUME ClickInv, NEW s \in Session, Save(s)
    PROVE  ClickInv'
<1>1. /\ run[s] = "save" /\ run' = [run EXCEPT ![s] = "idle"]
      /\ UNCHANGED <<request, widgets, displayed, presses>>
  BY DEF Save, GoesOn
<1>2. /\ run'[s] = "idle"
      /\ \A t \in Session \ {s} : run'[t] = run[t]
  BY <1>1 DEF ClickInv, ClickTypes
<1> DEFINE p == widgets[s].press
<1>3. p \in Nat /\ p # 0 /\ p \in displayed /\ p =< presses
  BY <1>1 DEF ClickInv, ClickTypes, ClicksPast, SaveIsShown
<1>4. CASE saved' = saved
  <2>1. ClickTypes' /\ ClicksPast' /\ ClickInOnePlace' /\ SaveIsShown'
    BY <1>1, <1>2, <1>4 DEF ClickInv, ClickTypes, ClicksPast, ClickInOnePlace, SaveIsShown, Phase
  <2>2. ClickNotSaved' /\ Once'
    BY <1>1, <1>2, <1>4 DEF ClickInv, ClickNotSaved, Once
  <2> QED BY <2>1, <2>2 DEF ClickInv
<1>5. CASE saved' = Append(saved, p)
  <2>1. /\ saved' \in Seq(Nat)
        /\ DOMAIN saved' = 1 .. Len(saved) + 1 /\ DOMAIN saved = 1 .. Len(saved)
        /\ \A i \in DOMAIN saved : saved'[i] = saved[i]
        /\ saved'[Len(saved) + 1] = p
        /\ Len(saved) \in Nat
    BY <1>3, <1>5 DEF ClickInv, ClickTypes
  <2>2. \A i \in DOMAIN saved' : (i \in DOMAIN saved /\ saved'[i] = saved[i]) \/ saved'[i] = p
    BY <2>1
  <2>3. ClickTypes' /\ ClicksPast' /\ ClickInOnePlace' /\ SaveIsShown'
    BY <1>1, <1>2, <1>3, <2>1, <2>2 DEF ClickInv, ClickTypes, ClicksPast, ClickInOnePlace,
         SaveIsShown, Phase
  <2>4. ClickNotSaved'
    <3> SUFFICES ASSUME NEW t \in Session, NEW i \in DOMAIN saved'
                 PROVE  /\ saved'[i] # 0
                        /\ request[t].press # saved'[i]
                        /\ run'[t] # "idle" => widgets[t].press # saved'[i]
      BY <1>1 DEF ClickNotSaved
    <3>1. CASE saved'[i] = p
      BY <1>1, <1>2, <1>3, <3>1 DEF ClickInv, ClickTypes, ClickInOnePlace
    <3>2. CASE i \in DOMAIN saved /\ saved'[i] = saved[i]
      BY <1>1, <1>2, <3>2 DEF ClickInv, ClickTypes, ClickNotSaved
    <3> QED BY <2>2, <3>1, <3>2
  <2>5. Once'
    <3>1. \A i \in DOMAIN saved : saved[i] # p
      BY <1>1 DEF ClickInv, ClickNotSaved
    <3>2. \A i, j \in DOMAIN saved' : saved'[i] = saved'[j] => i = j
      BY <2>1, <3>1 DEF ClickInv, Once
    <3>3. \A i \in DOMAIN saved' : saved'[i] \in displayed'
      BY <1>1, <1>3, <2>2 DEF ClickInv, Once
    <3> QED BY <3>2, <3>3 DEF Once
  <2> QED BY <2>3, <2>4, <2>5 DEF ClickInv
<1> QED
  BY <1>4, <1>5 DEF Save

\* Every step keeps the clicks in order.
LEMMA ClickNext == ClickInv /\ [Next]_vars => ClickInv'
<1> SUFFICES ASSUME ClickInv, [Next]_vars
             PROVE  ClickInv'
  OBVIOUS
<1> USE DEF postVars
<1>1. ASSUME UNCHANGED <<request, run, widgets, postVars>>
      PROVE  ClickInv'
  BY <1>1 DEF ClickInv, ClickTypes, ClicksPast, ClickInOnePlace, ClickNotSaved, SaveIsShown,
       Once
<1>2. CASE BuildBegins \/ BuildWrites \/ BuildDies \/ UNCHANGED vars
  BY <1>1, <1>2 DEF BuildBegins, BuildWrites, BuildDies, vars
<1>3. ASSUME NEW s \in Session, RunStep(s)
      PROVE  ClickInv'
  <2>1. CASE GiveUp(s)
    BY <2>1, QuietClick DEF GiveUp
  <2>2. CASE LoadMetadata(s)
    BY <2>2, QuietClick DEF LoadMetadata, GoesOn
  <2>3. CASE ShowAnswer(s)
    <3>1. /\ run[s] = "answer" /\ run' = [run EXCEPT ![s] = "button"]
          /\ UNCHANGED <<request, widgets, displayed, saved, presses>>
      BY <2>3 DEF ShowAnswer, GoesOn
    <3> QED BY <3>1, QuietClick
  <2>4. CASE CallsLLM(s)
    BY <2>4, QuietClick, GenerateClick DEF CallsLLM, GoesOn
  <2>5. CASE LLMReturns(s)
    BY <2>5, QuietClick, GenerateClick DEF LLMReturns, GoesOn, ClickInv, SaveIsShown
  <2> QED
    BY <1>3, <2>1, <2>2, <2>3, <2>4, <2>5, BeginRunClick, DisplayClick, SaveClick DEF RunStep
<1> QED
  BY <1>2, <1>3, AskClick, ClickClick DEF Next

\* Whatever the users do, a click saves one post at most, and only one that its
\* user has seen: app.py saves after it has displayed, and a button is pressed
\* in the run of its click only.
THEOREM PostSavedOnce == Spec => []SavedOnce
<1>1. Spec => []ClickInv
  BY ClickInit, ClickNext, PTL DEF Spec
<1> QED BY <1>1, OnceIsSavedOnce, PTL
-----------------------------------------------------------------------------
(***************************************************************************)
(* The file.  While it is being written it is half a file, and when it is  *)
(* whole it is at least as recent as any whole file that a run has found.  *)
(***************************************************************************)

FileInv ==
    /\ version \in Nat /\ raw_metadata \in {Partial, 0} \cup 1 .. version
    /\ building \in BOOLEAN /\ (building => raw_metadata = Partial)
    /\ run \in [Session -> Phase]
    /\ latest \in [Session -> 0 .. version] /\ metadata \in [Session -> Nat]
    /\ \A s \in Session : raw_metadata \in Nat \ {0} => raw_metadata >= latest[s]
    /\ \A s \in Session : run[s] = "answer" => metadata[s] >= latest[s]

LEMMA FileImplies == FileInv => AnswersFromLatest
BY DEF FileInv, AnswersFromLatest

\* What a run takes for the state of the file.
LEMMA LastWhole ==
    ASSUME NEW n \in Int
    PROVE  /\ n >= 0 => Max({n, 0}) = n
           /\ n < 0 => Max({n, 0}) = 0
BY DEF Max

LEMMA FileInit == Init => FileInv
<1> SUFFICES ASSUME Init
             PROVE  FileInv
  OBVIOUS
<1>1. /\ version = 0 /\ raw_metadata = 0 /\ building = FALSE
      /\ \A s \in Session : run[s] = "idle" /\ latest[s] = 0
  BY DEF Init
<1>2. run \in [Session -> Phase]
  BY DEF Init, Phase
<1>3. latest \in [Session -> 0 .. version] /\ metadata \in [Session -> Nat]
  BY DEF Init
<1> QED BY <1>1, <1>2, <1>3 DEF FileInv

LEMMA FileNext == FileInv /\ [Next]_vars => FileInv'
<1> SUFFICES ASSUME FileInv, [Next]_vars
             PROVE  FileInv'
  OBVIOUS
<1> USE DEF fileVars
<1>1. CASE UNCHANGED vars
  BY <1>1 DEF FileInv, vars
<1>2. CASE BuildBegins
  BY <1>2 DEF BuildBegins, FileInv, Partial
<1>3. CASE BuildWrites
  <2>1. /\ raw_metadata' = version /\ building' = FALSE
        /\ UNCHANGED <<version, run, metadata, latest>>
    BY <1>3 DEF BuildWrites
  <2>2. version \in Nat /\ \A s \in Session : latest[s] \in 0 .. version
    BY DEF FileInv
  <2>3. raw_metadata' \in {Partial, 0} \cup 1 .. version'
    BY <2>1, <2>2
  <2>4. \A s \in Session : raw_metadata' >= latest'[s]
    BY <2>1, <2>2
  <2>5. /\ run' \in [Session -> Phase] /\ latest' \in [Session -> 0 .. version']
        /\ metadata' \in [Session -> Nat]
        /\ \A s \in Session : run'[s] = "answer" => metadata'[s] >= latest'[s]
    BY <2>1 DEF FileInv
  <2> QED BY <2>1, <2>2, <2>3, <2>4, <2>5 DEF FileInv
<1>4. CASE BuildDies
  BY <1>4 DEF BuildDies, FileInv
<1>5. ASSUME NEW s \in Session, Ask(s) \/ Click(s)
      PROVE  FileInv'
  BY <1>5 DEF Ask, Click, FileInv
<1>6. ASSUME NEW s \in Session, NEW to \in Phase \ {"answer"}, run' = [run EXCEPT ![s] = to],
             UNCHANGED <<fileVars, latest, metadata>>
      PROVE  FileInv'
  BY <1>6 DEF FileInv
<1>7. ASSUME NEW s \in Session, RunStep(s)
      PROVE  FileInv'
  <2>1. CASE BeginRun(s)
    <3>1. /\ run' = [run EXCEPT ![s] = "load"]
          /\ latest' = [latest EXCEPT ![s] = Max({raw_metadata, 0})]
          /\ UNCHANGED <<fileVars, metadata>>
      BY <2>1 DEF BeginRun
    <3>2. /\ raw_metadata >= 0 => Max({raw_metadata, 0}) = raw_metadata
          /\ raw_metadata < 0 => Max({raw_metadata, 0}) = 0
      BY LastWhole DEF FileInv, Partial
    <3> QED BY <3>1, <3>2 DEF FileInv, Phase, Partial
  <2>2. CASE LoadMetadata(s)
    <3>1. CASE raw_metadata \in {0, Partial}
      BY <1>6, <2>2, <3>1 DEF LoadMetadata, GoesOn, Phase
    <3>2. CASE raw_metadata \notin {0, Partial}
      BY <2>2, <3>2 DEF LoadMetadata, GoesOn, FileInv, Phase, Partial
    <3> QED BY <3>1, <3>2
  <2>3. CASE GiveUp(s)
    BY <1>6, <2>3 DEF GiveUp, Phase
  <2>4. CASE ShowAnswer(s)
    <3>1. run' = [run EXCEPT ![s] = "button"] /\ UNCHANGED <<fileVars, latest, metadata>>
      BY <2>4 DEF ShowAnswer, GoesOn
    <3> QED BY <1>6, <3>1 DEF Phase
  <2>5. CASE CallsLLM(s) \/ LLMReturns(s) \/ Display(s) \/ Save(s)
    BY <1>6, <2>5 DEF CallsLLM, LLMReturns, Display, Save, GoesOn, Phase
  <2> QED BY <1>7, <2>1, <2>2, <2>3, <2>4, <2>5 DEF RunStep
<1> QED
  BY <1>1, <1>2, <1>3, <1>4, <1>5, <1>7 DEF Next

\* A run answers from metadata at least as recent as the whole file it began
\* with, although load_metadata() reads the file later, between any two steps of
\* build_index.py.
THEOREM AnswersAreRecent == Spec => []AnswersFromLatest
BY FileImplies, FileInit, FileNext, PTL DEF Spec

-----------------------------------------------------------------------------
(***************************************************************************)
(* The rules.  A question is given up when no rule answers and no post has *)
(* a word of it; any other answer names the rule that gave it.             *)
(***************************************************************************)

LEMMA LeastIndex ==
    ASSUME NEW S, S \subseteq Nat, S # {}
    PROVE  Min(S) \in S
<1>1. PICK x \in S : \A y \in S : ~ (<<y, x>> \in OpToRel(<, Nat))
  BY NatLessThanWellFounded, WFMin
<1>2. ASSUME NEW y \in S
      PROVE  x =< y
  <2>1. x \in Nat /\ y \in Nat /\ <<y, x>> \in Nat \X Nat
    BY Zenon
  <2>2. ~(y < x)
    BY <1>1, <2>1, Zenon DEF OpToRel
  <2> QED BY <2>1, <2>2
<1> QED BY <1>2 DEF Min

LEMMA SorryMeansNone ==
    ASSUME NEW posts, NEW q \in Question, AnswerQuery(posts, q).kind = "sorry"
    PROVE  /\ WordHits(posts, q) = {}
           /\ \A rule \in DOMAIN q.asks : Hits(rule, posts, q) = {}
<1> DEFINE answering == {k \in DOMAIN Rules : Answers(Rules[k], posts, q)}
           rule      == Rules[Min(answering)]
<1>1. ASSUME answering # {}
      PROVE  FALSE
  <2>1. Min(answering) \in DOMAIN Rules
    <3>1. answering \subseteq Nat
      BY DEF Rules
    <3> QED BY <1>1, <3>1, LeastIndex
  <2>2. rule # "sorry"
    BY <2>1 DEF Rules
  <2>3. AnswerQuery(posts, q).kind \in {"no_profile", rule}
    BY <1>1 DEF AnswerQuery
  <2> QED BY <2>2, <2>3
<1>2. WordHits(posts, q) = {}
  BY <1>1 DEF AnswerQuery
<1>3. ASSUME NEW r \in DOMAIN q.asks
      PROVE  Hits(r, posts, q) = {}
  <2>1. PICK k \in DOMAIN Rules : Rules[k] = r
    BY AssistantAssumption DEF ToSet
  <2> QED BY <1>1, <2>1 DEF Answers
<1> QED BY <1>2, <1>3

SorryInv == SorryIsTrue /\ shown = [s \in Session |-> shown[s]]

LEMMA SorryInit == Init => SorryInv
BY DEF Init, SorryInv, SorryIsTrue, Nothing

LEMMA SorryNext == ClickInv /\ SorryInv /\ [Next]_vars => SorryInv'
<1> SUFFICES ASSUME ClickInv, SorryInv, [Next]_vars
             PROVE  SorryInv'
  OBVIOUS
<1>1. ASSUME UNCHANGED shown
      PROVE  SorryInv'
  BY <1>1 DEF SorryInv, SorryIsTrue, Posts
<1>2. ASSUME NEW s \in Session, NEW a, shown' = [shown EXCEPT ![s] = a],
             a.kind = "sorry" =>
                \A q \in a.question, p \in ToSet(Posts(a)) :
                    /\ ToSet(q.tokens) \cap p.words = {}
                    /\ \A rule \in DOMAIN q.asks : ~Matches(rule, p, q)
      PROVE  SorryInv'
  BY <1>2 DEF SorryInv, SorryIsTrue, Posts
<1>3. ASSUME NEW s \in Session, LoadMetadata(s)
      PROVE  SorryInv'
  <2>1. CASE UNCHANGED shown
    BY <1>1, <2>1
  <2>2. CASE shown' = [shown EXCEPT ![s] = [Nothing EXCEPT !.kind = "exception"]]
    BY <1>2, <2>2 DEF Nothing
  <2> QED BY <1>3, <2>1, <2>2 DEF LoadMetadata
<1>4. ASSUME NEW s \in Session, ShowAnswer(s)
      PROVE  SorryInv'
  <2>1. CASE shown' = [shown EXCEPT ![s] = Nothing]
    BY <1>2, <2>1 DEF Nothing
  <2>2. ASSUME NEW q \in Question, shown' = [shown EXCEPT ![s] = Shown(metadata[s], q)]
        PROVE  SorryInv'
    <3> DEFINE posts == Metadata[metadata[s]]
               a == Shown(metadata[s], q)
    <3>1. ASSUME a.kind = "sorry", NEW p \in ToSet(posts)
          PROVE  /\ ToSet(q.tokens) \cap p.words = {}
                 /\ \A rule \in DOMAIN q.asks : ~Matches(rule, p, q)
      <4>1. AnswerQuery(posts, q).kind = "sorry"
        BY <3>1 DEF Shown
      <4>2. /\ WordHits(posts, q) = {}
            /\ \A rule \in DOMAIN q.asks : Hits(rule, posts, q) = {}
        BY <4>1, SorryMeansNone
      <4>3. PICK i \in DOMAIN posts : posts[i] = p
        BY <3>1 DEF ToSet
      <4> QED BY <4>2, <4>3 DEF WordHits, Hits, ToSet
    <3>2. Posts(a) = posts /\ a.question = {q}
      BY DEF Posts, Shown
    <3>3. a.kind = "sorry" =>
             \A r \in a.question, p \in ToSet(Posts(a)) :
                 /\ ToSet(r.tokens) \cap p.words = {}
                 /\ \A rule \in DOMAIN r.asks : ~Matches(rule, p, r)
      BY <3>1, <3>2
    <3> HIDE DEF a
    <3> QED BY <1>2, <2>2, <3>3 DEF a
  <2>3. widgets[s].question \subseteq Question
    BY DEF ClickInv, ClickTypes
  <2> QED BY <1>4, <2>1, <2>2, <2>3 DEF ShowAnswer
<1>5. CASE BuildBegins \/ BuildWrites \/ BuildDies \/ UNCHANGED vars
  BY <1>1, <1>5 DEF BuildBegins, BuildWrites, BuildDies, vars
<1>6. ASSUME NEW s \in Session, Ask(s) \/ Click(s) \/ RunStep(s)
      PROVE  SorryInv'
  BY <1>1, <1>3, <1>4, <1>6 DEF Ask, Click, RunStep, BeginRun, GiveUp, CallsLLM, LLMReturns,
       Display, Save
<1> QED BY <1>5, <1>6 DEF Next

\* "Sorry, I couldn't find an answer" is true: no word of the question is in a
\* post and nothing that the question asks for is there.  answer_linkedin_query()
\* tries fifteen rules in turn, two of which answer in any case.
THEOREM SorryIsSo == Spec => []SorryIsTrue
<1>1. Spec => [](ClickInv /\ SorryInv)
  BY ClickInit, ClickNext, SorryInit, SorryNext, PTL DEF Spec
<1>2. SorryInv => SorryIsTrue
  BY DEF SorryInv
<1> QED BY <1>1, <1>2, PTL
=============================================================================
