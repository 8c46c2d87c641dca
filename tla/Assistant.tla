------------------------------ MODULE Assistant ------------------------------
(***************************************************************************)
(* The LinkedIn assistant itself: app.py, which answers questions from     *)
(* raw_metadata.json (linkedin_query_answer.py) and has posts written by   *)
(* an LLM, and build_index.py, which rewrites that file meanwhile.         *)
(*                                                                         *)
(* Streamlit runs the whole script again for every interaction.  A request *)
(* that arrives during a run waits for the run's next st. call, which then *)
(* gives the run up; only the run a click started sees the button pressed. *)
(* Between two st. calls a run is cut where it reads or writes a file and  *)
(* where it waits for the LLM.                                             *)
(*                                                                         *)
(* Text is abstracted to what the rules tell apart.  A post has an author, *)
(* whom it also names, a url, a type or none, the words and phrases it     *)
(* contains, and counts.  A question has, for each rule whose pattern it   *)
(* matches, the name, url or words the pattern extracts (q.asks), and its  *)
(* words in order (q.tokens).                                              *)
(***************************************************************************)
EXTENDS Integers, Sequences, SequencesExt, FiniteSetsExt

CONSTANTS
    Session,        \* the browser sessions
    Question,       \* the questions their users ask
    Metadata,       \* Metadata[v]: what build_index.py writes the v-th time
    MaxPresses      \* bound: clicks on "Generate Post"

\* The rules of answer_linkedin_query(), in the order it tries them.  Each of
\* them is a pattern, and what is looked up with the text the pattern extracts.
Rules == <<"profile", "name_by_url", "followers_of", "content_by_url", "type_by_url",
           "likes_by_author_and_url", "author_by_word", "common_type", "count_by_author",
           "average_likes", "details_by_word", "max_followers", "max_likes",
           "max_comments", "quoted_word">>

Junk == -1      \* a count that float() rejects
NoType == ""    \* a post whose type is empty or missing

ASSUME AssistantAssumption ==
    /\ \A v \in DOMAIN Metadata : \A i \in DOMAIN Metadata[v] :
         LET p == Metadata[v][i]
         IN  {p.followers, p.likes, p.comments} \subseteq Nat \cup {Junk}
    /\ \A q \in Question : DOMAIN q.asks \subseteq ToSet(Rules)
    /\ MaxPresses \in Nat

VARIABLES
    raw_metadata,   \* the file: the build that wrote it, 0 for no file, Partial for half of one
    building,       \* build_index.py is writing it
    version,        \* the last build begun
    request,        \* request[s]: the interaction that waits for s, or NoRequest
    run,            \* run[s]: the phase the run of s is in
    widgets,        \* widgets[s]: question and button of the run
    metadata,       \* metadata[s]: the build that the run has loaded
    latest,         \* history: the build in the file when the run of s began
    shown,          \* shown[s]: what the last run showed in answer to the question
    displayed,      \* generated posts that have been displayed
    saved,          \* rows of generated_linkedin_posts.csv
    presses         \* clicks so far: a generated post is known by its click

fileVars == <<raw_metadata, building, version>>
postVars == <<displayed, saved, presses>>
vars == <<fileVars, request, run, widgets, metadata, latest, shown, postVars>>

Partial == -1
NoRequest == [question |-> {}, press |-> 0]
Nothing == [kind |-> "nothing", build |-> 0, question |-> {}, post |-> 0]

Init ==
    /\ raw_metadata = 0 /\ building = FALSE /\ version = 0
    /\ request = [s \in Session |-> NoRequest]
    /\ run = [s \in Session |-> "idle"]
    /\ widgets = [s \in Session |-> NoRequest]
    /\ metadata = [s \in Session |-> 0]
    /\ latest = [s \in Session |-> 0]
    /\ shown = [s \in Session |-> Nothing]
    /\ displayed = {} /\ saved = <<>> /\ presses = 0

-----------------------------------------------------------------------------
(* answer_linkedin_query().                                                *)

\* The count in a field: junk counts as 0.
Parse(n) == IF n = Junk THEN 0 ELSE n

Matches(rule, p, q) ==
    LET arg == q.asks[rule]
    IN  CASE rule \in {"profile", "followers_of", "count_by_author"} -> p.author = arg
          [] rule \in {"name_by_url", "content_by_url", "type_by_url"} -> p.url = arg
          [] rule = "likes_by_author_and_url" -> <<p.author, p.url>> = arg
          [] rule \in {"author_by_word", "details_by_word", "quoted_word"} -> arg \in p.words
          [] rule = "common_type" -> p.type # NoType
          [] rule = "average_likes" -> p.likes # Junk
          [] OTHER -> TRUE

Hits(rule, posts, q) == {i \in DOMAIN posts : Matches(rule, posts[i], q)}

\* max(): the first of the posts with the largest count.
BestPost(posts, field) ==
    Min({i \in DOMAIN posts : \A j \in DOMAIN posts : Parse(posts[j][field]) =< Parse(posts[i][field])})

\* The post an answer is about, by its index in the metadata; 0 for none.
Pick(rule, posts, q) ==
    CASE rule = "max_followers" -> BestPost(posts, "followers")
      [] rule = "max_likes"     -> BestPost(posts, "likes")
      [] rule = "max_comments"  -> BestPost(posts, "comments")
      [] rule \in {"common_type", "average_likes", "count_by_author"}
           \/ Hits(rule, posts, q) = {} -> 0
      [] OTHER -> Min(Hits(rule, posts, q))

\* A rule that matches but finds nothing leaves the question to the next ones,
\* except that the first and the count answer in any case.
Answers(rule, posts, q) ==
    /\ rule \in DOMAIN q.asks
    /\ rule \in {"profile", "count_by_author"} \/ Hits(rule, posts, q) # {}

\* Mutant: only the first word of the question is looked for.
WordHits_First(posts, q) ==
    {k \in {1} \cap DOMAIN q.tokens : \E i \in DOMAIN posts : q.tokens[k] \in posts[i].words}

\* The fallback: the words of the question that some post contains.
WordHits(posts, q) ==
    {k \in DOMAIN q.tokens : \E i \in DOMAIN posts : q.tokens[k] \in posts[i].words}

\* The kind of the answer and the post it is about.
AnswerQuery(posts, q) ==
    LET answering == {k \in DOMAIN Rules : Answers(Rules[k], posts, q)}
        rule      == Rules[Min(answering)]
    IN  CASE answering # {} ->
               LET post == Pick(rule, posts, q)
               IN  [kind |-> IF rule = "profile" /\ post = 0 THEN "no_profile" ELSE rule,
                    post |-> post]
          [] answering = {} /\ WordHits(posts, q) # {} ->
               [kind |-> "word",
                post |-> LET word == q.tokens[Min(WordHits(posts, q))]
                         IN  Min({i \in DOMAIN posts : word \in posts[i].words})]
          [] OTHER -> [kind |-> "sorry", post |-> 0]

\* The phrase by which app.py knows an answer that is none.  "Sorry, I couldn't
\* find ..." and "No profile details found ..." do not contain it, but an answer
\* does when it quotes a post, or repeats words of the question, that do.
CouldNotFind == "could not find"
QuotesPost == {"content_by_url", "details_by_word", "max_likes", "max_comments", "quoted_word", "word"}
RepeatsQuestion == {"profile", "followers_of", "count_by_author", "details_by_word", "quoted_word"}

SaysCouldNotFind(answer, posts, q) ==
    LET kind == IF answer.kind = "no_profile" THEN "profile" ELSE answer.kind
    IN  \/ kind \in QuotesPost /\ CouldNotFind \in posts[answer.post].words
        \/ kind \in RepeatsQuestion /\ q.asks[kind] = CouldNotFind

-----------------------------------------------------------------------------
(* build_index.py: df.to_json() truncates the file and writes it.          *)

BuildBegins ==
    /\ ~building /\ version < Len(Metadata)
    /\ building' = TRUE
    /\ version' = version + 1
    /\ raw_metadata' = Partial
    /\ UNCHANGED <<request, run, widgets, metadata, latest, shown, postVars>>

BuildWrites ==
    /\ building
    /\ building' = FALSE
    /\ raw_metadata' = version
    /\ UNCHANGED <<version, request, run, widgets, metadata, latest, shown, postVars>>

\* The script dies and leaves the file as it is.
BuildDies ==
    /\ building
    /\ building' = FALSE
    /\ UNCHANGED <<raw_metadata, version, request, run, widgets, metadata, latest, shown, postVars>>

-----------------------------------------------------------------------------
(* Streamlit.                                                              *)

\* Mutant: the button stays pressed in the runs that follow the click.
Ask_StaysPressed(s) ==
    /\ \E q \in Question :
         request' = [request EXCEPT ![s] = [question |-> {q}, press |-> widgets[s].press]]
    /\ UNCHANGED <<fileVars, run, widgets, metadata, latest, shown, postVars>>

\* The user edits the question; a click that waits is not forgotten.
Ask(s) ==
    /\ \E q \in Question :
         request' = [request EXCEPT ![s].question = {q}]
    /\ UNCHANGED <<fileVars, run, widgets, metadata, latest, shown, postVars>>

Click(s) ==
    /\ presses < MaxPresses /\ request[s].press = 0
    /\ presses' = presses + 1
    /\ request' = [request EXCEPT ![s] =
         [question |-> IF @ = NoRequest THEN widgets[s].question ELSE @.question,
          press    |-> presses']]
    /\ UNCHANGED <<fileVars, run, widgets, metadata, latest, shown, displayed, saved>>

BeginRun(s) ==
    /\ run[s] = "idle" /\ request[s] # NoRequest
    /\ run' = [run EXCEPT ![s] = "load"]
    /\ widgets' = [widgets EXCEPT ![s] = request[s]]
    /\ request' = [request EXCEPT ![s] = NoRequest]
    /\ latest' = [latest EXCEPT ![s] = Max({raw_metadata, 0})]
    /\ UNCHANGED <<fileVars, metadata, shown, postVars>>

\* The next st. call finds a request.
GiveUp(s) ==
    /\ run[s] \in {"answer", "button", "display"} /\ request[s] # NoRequest
    /\ run' = [run EXCEPT ![s] = "idle"]
    /\ UNCHANGED <<fileVars, request, widgets, metadata, latest, shown, postVars>>

-----------------------------------------------------------------------------
(* A run of app.py.                                                        *)

GoesOn(s, from, to) ==
    /\ run[s] = from
    /\ run' = [run EXCEPT ![s] = to]

\* Mutant: the metadata are loaded once per session.
LoadMetadata_Once(s) ==
    /\ GoesOn(s, "load", "answer")
    /\ metadata' = [metadata EXCEPT ![s] = IF @ = 0 THEN Max({raw_metadata, 0}) ELSE @]
    /\ metadata'[s] # 0
    /\ UNCHANGED <<fileVars, request, widgets, latest, shown, postVars>>

\* load_metadata(); a file that is not there or not whole ends the run.
LoadMetadata(s) ==
    /\ IF raw_metadata \in {0, Partial}
         THEN /\ GoesOn(s, "load", "idle")
              /\ shown' = [shown EXCEPT ![s] = [Nothing EXCEPT !.kind = "exception"]]
              /\ UNCHANGED metadata
         ELSE /\ GoesOn(s, "load", "answer")
              /\ metadata' = [metadata EXCEPT ![s] = raw_metadata]
              /\ UNCHANGED shown
    /\ UNCHANGED <<fileVars, request, widgets, latest, postVars>>

\* The answer from the metadata of build v, or posts filtered by apply_filters()
\* when the answer seems to say that nothing could be found.
Shown(v, q) ==
    LET answer == AnswerQuery(Metadata[v], q)
        filter == SaysCouldNotFind(answer, Metadata[v], q)
    IN  [kind     |-> IF filter THEN "filtered" ELSE answer.kind,
         build    |-> v,
         question |-> {q},
         post     |-> IF filter THEN 0 ELSE answer.post]

\* The left column.
ShowAnswer(s) ==
    /\ GoesOn(s, "answer", "button")
    /\ request[s] = NoRequest
    /\ \/ widgets[s].question = {} /\ shown' = [shown EXCEPT ![s] = Nothing]
       \/ \E q \in widgets[s].question : shown' = [shown EXCEPT ![s] = Shown(metadata[s], q)]
    /\ UNCHANGED <<fileVars, request, widgets, metadata, latest, postVars>>

\* The button: the LLM is called when this run was started by a click and the
\* prompt is not empty.
CallsLLM(s) ==
    /\ \/ GoesOn(s, "button", "idle")
       \/ widgets[s].press # 0 /\ GoesOn(s, "button", "generating")
    /\ request[s] = NoRequest
    /\ UNCHANGED <<fileVars, request, widgets, metadata, latest, shown, postVars>>

\* The post comes back, or an exception.
LLMReturns(s) ==
    /\ GoesOn(s, "generating", "display") \/ GoesOn(s, "generating", "idle")
    /\ UNCHANGED <<fileVars, request, widgets, metadata, latest, shown, postVars>>

Display(s) ==
    /\ GoesOn(s, "display", "save")
    /\ request[s] = NoRequest
    /\ displayed' = displayed \cup {widgets[s].press}
    /\ UNCHANGED <<fileVars, request, widgets, metadata, latest, shown, saved, presses>>

\* The row is appended to the file, or writing it fails.
Save(s) ==
    /\ GoesOn(s, "save", "idle")
    /\ saved' \in {Append(saved, widgets[s].press), saved}
    /\ UNCHANGED <<fileVars, request, widgets, metadata, latest, shown, displayed, presses>>

RunStep(s) ==
    BeginRun(s) \/ GiveUp(s) \/ LoadMetadata(s) \/ ShowAnswer(s) \/ CallsLLM(s)
    \/ LLMReturns(s) \/ Display(s) \/ Save(s)

Next ==
    \/ BuildBegins \/ BuildWrites \/ BuildDies
    \/ \E s \in Session : Ask(s) \/ Click(s) \/ RunStep(s)

Spec == Init /\ [][Next]_vars

-----------------------------------------------------------------------------
(* Properties.                                                             *)

\* Every variable has its type.
TypeOK ==
    LET Widgets == [question : {{}} \cup {{q} : q \in Question}, press : 0 .. MaxPresses]
    IN  /\ raw_metadata \in Partial .. Len(Metadata)
        /\ building \in BOOLEAN
        /\ version \in 0 .. Len(Metadata)
        /\ request \in [Session -> Widgets] /\ widgets \in [Session -> Widgets]
        /\ run \in [Session -> {"idle", "load", "answer", "button", "generating", "display", "save"}]
        /\ metadata \in [Session -> 0 .. Len(Metadata)]
        /\ latest \in [Session -> 0 .. Len(Metadata)]
        /\ displayed \subseteq 1 .. MaxPresses
        /\ saved \in Seq(1 .. MaxPresses)
        /\ presses \in 0 .. MaxPresses

\* A run that is given up, or a user who edits the question meanwhile, does not
\* make one click save two posts, nor save a post its user has never seen.
SavedOnce ==
    /\ \A i, j \in DOMAIN saved : saved[i] = saved[j] => i = j
    /\ ToSet(saved) \subseteq displayed

\* A run answers from metadata at least as recent as the file was when it
\* began, however the rebuilds fall.
AnswersFromLatest == \A s \in Session : run[s] = "answer" => metadata[s] >= latest[s]

\* The posts an answer was taken from.
Posts(a) == Metadata[a.build]
\* "Sorry, I couldn't find an answer" is shown only when no post contains a
\* word of the question and no lookup that it asks for finds anything.
SorryIsTrue ==
    \A s \in Session : shown[s].kind = "sorry" =>
        \A q \in shown[s].question, p \in ToSet(Posts(shown[s])) :
            /\ ToSet(q.tokens) \cap p.words = {}
            /\ \A rule \in DOMAIN q.asks : ~Matches(rule, p, q)

\* "Enter a question above to get answers or filtered results." (app.py:97): a
\* question that has no answer is answered with filtered results.
NoAnswerIsFiltered == \A s \in Session : shown[s].kind \notin {"sorry", "no_profile"}
=============================================================================
