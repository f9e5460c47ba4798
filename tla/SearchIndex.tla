---------------------------- MODULE SearchIndex -----------------------------
(***************************************************************************)
(* What the indexer promises to those who search: at every moment the      *)
(* index answers for exactly the documents that are published, and         *)
(* documents are published by whole runs.                                  *)
(***************************************************************************)
EXTENDS Postings

CONSTANTS
    Titles,
    Tokens

VARIABLES
    corpus,  \* the published documents: a set of [title, body]
    found    \* token -> the titles a search for it finds

Answer(documents) ==
    [token \in Tokens |->
        {title \in Titles : \E document \in documents :
            document.title = title /\ Occurs(token, document.body)}]

OneBodyPerTitle(documents) ==
    \A x, y \in documents : x.title = y.title => x = y

Init ==
    /\ corpus = {}
    /\ found = Answer({})

\* A run adds documents; those already published stay as they are.
Publish ==
    /\ corpus \subseteq corpus'
    /\ OneBodyPerTitle(corpus')
    /\ found' = Answer(corpus')

\* The database is recreated.
Reset ==
    /\ corpus' = {}
    /\ found' = Answer({})

Next == Publish \/ Reset

Spec == Init /\ [][Next]_<<corpus, found>>

=============================================================================
