---------------------------- MODULE MCAssistant ----------------------------
(* Two builds of the metadata, the second with a post more, and questions  *)
(* that are answered by different rules before and after it.               *)
EXTENDS Assistant

Post(author, url, type, words, followers, likes, comments) ==
    [author |-> author, url |-> url, type |-> type, words |-> words,
     followers |-> followers, likes |-> likes, comments |-> comments]

p1 == Post("ann", "u1", NoType, {"cats"}, 2, Junk, 0)
p2 == Post("bob", "u2", NoType, {"dogs", CouldNotFind}, Junk, 1, 1)
p3 == Post("eve", "u3", "text", {"news"}, 1, 2, 1)

Asks(asks, tokens) == [asks |-> asks, tokens |-> tokens]

\* A profile; likes of a post by its author, or else the most liked post; the
\* author of a post, or else the one with most comments, which says that somebody
\* could not find something; the most common type, which only the second build
\* has, or else the most followers; a quoted word, or else a word of the question.
MCQuestion == {
    Asks("profile" :> "eve", <<"eve">>),
    Asks("likes_by_author_and_url" :> <<"eve", "u2">> @@ "max_likes" :> "", <<"likes">>),
    Asks("author_by_word" :> "birds" @@ "max_comments" :> "", <<"birds">>),
    Asks("common_type" :> "" @@ "max_followers" :> "", <<"most">>),
    Asks("quoted_word" :> "birds", <<"birds", "news">>)}
MCMetadata == <<<<p1, p2>>, <<p1, p2, p3>>>>
=============================================================================
