------------------------------- MODULE Search -------------------------------
(***************************************************************************)
(* A search over an index that grows while it is read.                     *)
(*                                                                         *)
(* A query is answered in three stages: it is split into tokens, reading   *)
(* number and docs_count of each one; the postings list of each token is   *)
(* fetched; the lists are joined in memory.  Every read is a statement of  *)
(* its own under autocommit, so an indexer may publish documents between   *)
(* any two of them.                                                        *)
(***************************************************************************)
EXTENDS Postings, SequencesExt

CONSTANTS
    Tokens,
    ShortTokens,         \* tokens shorter than the N of the N-grams
    Bodies,              \* the bodies an indexer may publish
    Queries,             \* the queries: sequences of tokens
    K,                   \* K - 1 results are printed
    MaxPublished,        \* bound on the number of documents
    NoToken              \* token number 0

ASSUME TextAssumption ==
    /\ \A body \in Bodies : body \in Seq(Tokens)
    /\ \A text \in Queries : text \in Seq(Tokens)

ASSUME TokensAssumption ==
    ShortTokens \subseteq Tokens /\ NoToken \notin Tokens

ASSUME BoundAssumption == MaxPublished \in Nat /\ K \in Nat \ {0}

VARIABLES
    phraseSearch,  \* env->enable_phrase_search
    orQuery,       \* env->enable_or_query
    corpus,   \* the published documents: document n has the body corpus[n]
    index,    \* the published postings lists
    arrived,  \* corpus when the query arrived (history)
    query,    \* the query
    next,     \* the position of the query that is split next
    entries,  \* the query tokens: token number -> [count, bases]
    order,    \* the token numbers as HASH_SORT leaves them
    lists,    \* cursors[i].documents, for the tokens fetched so far
    at,       \* cursors[i].current: an index, one past the end for NULL
    inner,    \* the cursor of the for loop
    docId,    \* doc_id
    nextId,   \* next_doc_id
    results,  \* document number -> what its score is computed from
    printed,  \* the answer: indexed_count, and the documents in their order
    pc        \* "idle", "split", "fetch", "round", "compare", "decide",
              \* "skip", "or" or "done"

options == <<phraseSearch, orQuery>>
database == <<corpus, index>>
tokenized == <<query, next, entries, order>>
cursors == <<lists, at, inner, docId, nextId>>
vars == <<options, database, arrived, tokenized, cursors, results, printed, pc>>

TokenIds == Tokens \cup {NoToken}

NoEntry == [count |-> 0, bases |-> {}]
NoEntries == [id \in TokenIds |-> NoEntry]
NoResults == [doc \in {} |-> <<>>]
NothingPrinted == [counted |-> 0, docs |-> <<>>]

QueryIds == {id \in TokenIds : entries[id].bases # {}}

AtEnd(k) == at[k] > Len(lists[k])

Current(k) == lists[k][at[k]]

Init ==
    /\ phraseSearch \in BOOLEAN
    /\ orQuery \in BOOLEAN
    /\ corpus = <<>>
    /\ index = [token \in Tokens |-> <<>>]
    /\ arrived = <<>>
    /\ query = <<>>
    /\ next = 1
    /\ entries = NoEntries
    /\ order = <<>>
    /\ lists = <<>>
    /\ at = <<>>
    /\ inner = 1
    /\ docId = 0
    /\ nextId = 0
    /\ results = NoResults
    /\ printed = NothingPrinted
    /\ pc = "idle"

-----------------------------------------------------------------------------
(***************************************************************************)
(* An indexer commits a document.  A run with several documents is several *)
(* of these steps with no read in between.                                 *)
(***************************************************************************)
Publish(body) ==
    LET doc == Len(corpus) + 1
        Posted(token) == [doc |-> doc, pos |-> Positions(body, token)]
    IN  /\ Len(corpus) < MaxPublished
        /\ corpus' = Append(corpus, body)
        /\ index' = [token \in Tokens |->
                        IF Occurs(token, body)
                        THEN Append(index[token], Posted(token))
                        ELSE index[token]]
        /\ UNCHANGED <<options, arrived, tokenized, cursors, results, printed, pc>>

-----------------------------------------------------------------------------
(***************************************************************************)
(* Splitting the query: db_get_token_id1 for each of its N-grams.          *)
(***************************************************************************)
Ask(text) ==
    /\ pc = "idle"
    /\ query' = text
    /\ arrived' = corpus
    /\ next' = 1
    /\ entries' = NoEntries
    /\ results' = NoResults
    /\ printed' = NothingPrinted
    /\ pc' = "split"
    /\ UNCHANGED <<options, database, order, cursors>>

\* A row exists for the tokens of the published documents.
TokenId(token) == IF index[token] = <<>> THEN NoToken ELSE token

DocsCount(id) == IF id = NoToken THEN 0 ELSE Len(index[id])

Entered(id, position) ==
    [entries EXCEPT ![id] =
        [count |-> IF @.bases = {} THEN DocsCount(id) ELSE @.count,
         bases |-> @.bases \cup {position - 1}]]

IsTooShort == Len(query) = 1 /\ query[1] \in ShortTokens

\* A query shorter than N is not split but compared with the column token,
\* which holds hashes: no row is LIKE it, and nothing is searched for.
PartialMatch ==
    /\ pc = "split"
    /\ IsTooShort
    /\ pc' = "done"
    /\ UNCHANGED <<options, database, arrived, tokenized, cursors, results, printed>>

SplitToken ==
    /\ pc = "split"
    /\ ~ IsTooShort
    /\ next <= Len(query)
    /\ next' = next + 1
    /\ entries' = IF query[next] \in ShortTokens
                  THEN entries
                  ELSE Entered(TokenId(query[next]), next)
    /\ UNCHANGED <<options, database, arrived, query, order, cursors, results,
                   printed, pc>>

\* Numbers in descending order of their docs_count; HASH_SORT may leave equal
\* ones in any order.
SortedIds ==
    {ids \in [1..Cardinality(QueryIds) -> QueryIds] :
        \A i, j \in 1..Cardinality(QueryIds) :
            i < j => /\ ids[i] # ids[j]
                     /\ entries[ids[i]].count >= entries[ids[j]].count}

SplitEnds ==
    /\ pc = "split"
    /\ next > Len(query)
    /\ order' \in SortedIds
    /\ lists' = <<>>
    /\ pc' = IF QueryIds = {} THEN "done" ELSE "fetch"
    /\ UNCHANGED <<options, database, arrived, query, next, entries, at, inner, docId,
                   nextId, results, printed>>

-----------------------------------------------------------------------------
(***************************************************************************)
(* Fetching the postings list of every token.                              *)
(***************************************************************************)
Fetching == order[Len(lists) + 1]

Fetch ==
    /\ pc = "fetch"
    /\ Len(lists) < Len(order)
    /\ Fetching # NoToken
    /\ lists' = Append(lists, index[Fetching])
    /\ UNCHANGED <<options, database, arrived, tokenized, at, inner, docId, nextId,
                   results, printed, pc>>

FetchFindsNothing ==
    /\ pc = "fetch"
    /\ Len(lists) < Len(order)
    /\ Fetching = NoToken
    /\ pc' = "done"
    /\ UNCHANGED <<options, database, arrived, tokenized, cursors, results, printed>>

FetchEnds ==
    /\ pc = "fetch"
    /\ Len(lists) = Len(order)
    /\ at' = [k \in 1..Len(lists) |-> 1]
    /\ pc' = IF orQuery THEN "or" ELSE "round"
    /\ UNCHANGED <<options, database, arrived, tokenized, lists, inner, docId, nextId,
                   results, printed>>

-----------------------------------------------------------------------------
(***************************************************************************)
(* search_docs_and: the loop that intersects the lists.                    *)
(***************************************************************************)
InMemory == UNCHANGED <<options, database, arrived, tokenized, lists, printed>>

\* while (cursors[0].current)
BeginRound ==
    /\ pc = "round"
    /\ ~ AtEnd(1)
    /\ docId' = Current(1).doc
    /\ nextId' = 0
    /\ inner' = 2
    /\ pc' = "compare"
    /\ UNCHANGED <<at, results>>
    /\ InMemory

FirstExhausted ==
    /\ pc = "round"
    /\ AtEnd(1)
    /\ pc' = "done"
    /\ UNCHANGED <<at, docId, nextId, inner, results>>
    /\ InMemory

Comparing == pc = "compare" /\ inner <= Len(lists)

SkipOther ==
    /\ Comparing
    /\ ~ AtEnd(inner)
    /\ Current(inner).doc < docId
    /\ at' = [at EXCEPT ![inner] = @ + 1]
    /\ UNCHANGED <<docId, nextId, inner, results, pc>>
    /\ InMemory

OtherExhausted ==
    /\ Comparing
    /\ AtEnd(inner)
    /\ pc' = "done"
    /\ UNCHANGED <<at, docId, nextId, inner, results>>
    /\ InMemory

OtherAgrees ==
    /\ Comparing
    /\ ~ AtEnd(inner)
    /\ Current(inner).doc = docId
    /\ inner' = inner + 1
    /\ UNCHANGED <<at, docId, nextId, results, pc>>
    /\ InMemory

\* Slip: the loop is left without next_doc_id being set.
OtherIsAheadUnmarked ==
    /\ Comparing
    /\ ~ AtEnd(inner)
    /\ Current(inner).doc > docId
    /\ pc' = "decide"
    /\ UNCHANGED <<at, docId, nextId, inner, results>>
    /\ InMemory

OtherIsAhead ==
    /\ Comparing
    /\ ~ AtEnd(inner)
    /\ Current(inner).doc > docId
    /\ nextId' = Current(inner).doc
    /\ pc' = "decide"
    /\ UNCHANGED <<at, docId, inner, results>>
    /\ InMemory

AllCompared ==
    /\ pc = "compare"
    /\ inner > Len(lists)
    /\ pc' = "decide"
    /\ UNCHANGED <<at, docId, nextId, inner, results>>
    /\ InMemory

Bases(k) == entries[order[k]].bases

\* Slip: only the beginning of a document is searched for the phrase.
PhraseOccursAtStart ==
    \A k \in 1..Len(lists) : Bases(k) \subseteq Current(k).pos

\* search_phrase finds the phrase in the document the cursors stand at: see
\* PhraseSearch for how.
PhraseOccurs ==
    \E start \in {p - base : p \in Current(1).pos, base \in Bases(1)} :
        \A k \in 1..Len(lists) :
            \A base \in Bases(k) : base + start \in Current(k).pos

\* Slip: the frequencies are taken from the heads of the lists.
TermFrequenciesOfHeads ==
    [k \in 1..Len(lists) |-> Cardinality(lists[k][1].pos)]

\* positions_count of the postings the cursors stand at, which calc_tf_idf
\* weighs and adds up.
TermFrequencies == [k \in 1..Len(lists) |-> Cardinality(Current(k).pos)]

\* add_search_result
WithResult(doc) ==
    [d \in DOMAIN results \cup {doc} |->
        IF d = doc THEN TermFrequencies ELSE results[d]]

\* Slip: the first cursor is moved here and once more at the end of the loop.
DocumentFoundMovingTwice ==
    /\ pc = "decide"
    /\ nextId = 0
    /\ results' = IF phraseSearch /\ ~ PhraseOccurs
                  THEN results ELSE WithResult(docId)
    /\ at' = [at EXCEPT ![1] = @ + 2]
    /\ pc' = "round"
    /\ UNCHANGED <<docId, nextId, inner>>
    /\ InMemory

DocumentFound ==
    /\ pc = "decide"
    /\ nextId = 0
    /\ results' = IF phraseSearch /\ ~ PhraseOccurs
                  THEN results ELSE WithResult(docId)
    /\ at' = [at EXCEPT ![1] = @ + 1]
    /\ pc' = "round"
    /\ UNCHANGED <<docId, nextId, inner>>
    /\ InMemory

SkipBegins ==
    /\ pc = "decide"
    /\ nextId > 0
    /\ pc' = "skip"
    /\ UNCHANGED <<at, docId, nextId, inner, results>>
    /\ InMemory

\* Slip: the document the other cursor stands at is skipped as well.
FirstIsNotPast == ~ AtEnd(1) /\ Current(1).doc <= nextId

FirstIsBehind == ~ AtEnd(1) /\ Current(1).doc < nextId

SkipFirst ==
    /\ pc = "skip"
    /\ FirstIsBehind
    /\ at' = [at EXCEPT ![1] = @ + 1]
    /\ UNCHANGED <<docId, nextId, inner, results, pc>>
    /\ InMemory

\* Slip: the round is not begun anew.
SkipEndsInRound ==
    /\ pc = "skip"
    /\ ~ FirstIsBehind
    /\ pc' = "decide"
    /\ UNCHANGED <<at, docId, nextId, inner, results>>
    /\ InMemory

SkipEnds ==
    /\ pc = "skip"
    /\ ~ FirstIsBehind
    /\ pc' = "round"
    /\ UNCHANGED <<at, docId, nextId, inner, results>>
    /\ InMemory

-----------------------------------------------------------------------------
(***************************************************************************)
(* search_docs_or: the documents are collected from the lists, and a score *)
(* is computed for each one while the cursors stand at the first postings. *)
(* The variable that walks the lists is set to the first one only.         *)
(***************************************************************************)
Collected == DocsIn(lists[1])

OrSearch ==
    /\ pc = "or"
    /\ results' = [doc \in Collected |-> TermFrequencies]
    /\ pc' = "done"
    /\ UNCHANGED <<at, docId, nextId, inner>>
    /\ InMemory

-----------------------------------------------------------------------------
(***************************************************************************)
(* Sorting and printing.  A score is the sum of tf * log2(n / df) over the *)
(* tokens, where n is indexed_count.  Two scores are compared as 2 to the  *)
(* power of them, multiplied out: all numbers are natural.                 *)
(***************************************************************************)
ToThe(n, e) == LET p[i \in 0..e] == IF i = 0 THEN 1 ELSE p[i - 1] * n IN p[e]

\* Slip: the quotient is one of integers.
WeightOfQuotients(n, tf, others) ==
    LET w[k \in 0..Len(tf)] ==
            IF k = 0 THEN 1
            ELSE w[k - 1] * ToThe(n \div entries[order[k]].count, tf[k])
    IN  w[Len(tf)]

Weight(n, tf, others) ==
    LET w[k \in 0..Len(tf)] ==
            IF k = 0 THEN 1
            ELSE w[k - 1] * (ToThe(n, tf[k]) * ToThe(entries[order[k]].count, others[k]))
    IN  w[Len(tf)]

HasHigherScore(n, doc, other) ==
    Weight(n, results[doc], results[other]) > Weight(n, results[other], results[doc])

\* HASH_SORT leaves results with equal scores as they were added.
IsBefore(n, doc, other) ==
    \/ HasHigherScore(n, doc, other)
    \/ ~ HasHigherScore(n, other, doc) /\ doc < other

Sorted(n) ==
    {docs \in [1..Cardinality(DOMAIN results) -> DOMAIN results] :
        /\ \A doc \in DOMAIN results : \E i \in DOMAIN docs : docs[i] = doc
        /\ \A i, j \in DOMAIN docs : i < j => IsBefore(n, docs[i], docs[j])}

\* The results are sorted, printed and freed.  indexed_count was read when the
\* server started, when n of the documents were published.
Reply ==
    /\ pc = "done"
    /\ \E n \in 0..Len(arrived) : \E docs \in Sorted(n) :
           printed' = [counted |-> n,
                       docs |-> SubSeq(docs, 1, Min({K - 1, Cardinality(DOMAIN results)}))]
    /\ pc' = "idle"
    /\ UNCHANGED <<options, database, arrived, tokenized, cursors, results>>

Indexer == \E body \in Bodies : Publish(body)

Join ==
    \/ BeginRound \/ FirstExhausted
    \/ SkipOther \/ OtherExhausted \/ OtherAgrees \/ OtherIsAhead \/ AllCompared
    \/ DocumentFound \/ SkipBegins \/ SkipFirst \/ SkipEnds

Searcher ==
    \/ PartialMatch \/ SplitToken \/ SplitEnds
    \/ Fetch \/ FetchFindsNothing \/ FetchEnds
    \/ Join
    \/ OrSearch
    \/ Reply

Next == Indexer \/ (\E text \in Queries : Ask(text)) \/ Searcher

Spec == Init /\ [][Next]_vars

\* The searcher is a sequential program that keeps running.  Nobody has to
\* ask or to publish anything.
FairSpec == Spec /\ WF_vars(Searcher)

-----------------------------------------------------------------------------
(***************************************************************************)
(* What a search is for, said of the documents and not of the index.       *)
(***************************************************************************)
Terms == {i \in 1..Len(query) : query[i] \notin ShortTokens}

\* The terms of the query occur in body at the distances they have in the query.
OccursAsPhrase(body) ==
    \E shift \in (1 - Len(query))..Len(body) : \A i \in Terms :
        i + shift \in 1..Len(body) /\ body[i + shift] = query[i]

MatchesAll(body) ==
    /\ \A i \in Terms : Occurs(query[i], body)
    /\ phraseSearch => OccursAsPhrase(body)

MatchesAny(body) == \E i \in Terms : Occurs(query[i], body)

Matches(body) ==
    /\ Terms # {}
    /\ IF orQuery THEN MatchesAny(body) ELSE MatchesAll(body)

Hits(documents) == {doc \in 1..Len(documents) : Matches(documents[doc])}

Found == DOMAIN results

\* Every variable has its type.
TypeOK ==
    /\ phraseSearch \in BOOLEAN /\ orQuery \in BOOLEAN
    /\ corpus \in Seq(Seq(Tokens))
    /\ index \in [Tokens -> Seq(Posting)]
    /\ arrived \in Seq(Seq(Tokens))
    /\ query \in Seq(Tokens)
    /\ next \in 1..(Len(query) + 1)
    /\ entries \in [TokenIds -> [count : Nat, bases : SUBSET Nat]]
    /\ order \in Seq(TokenIds)
    /\ lists \in Seq(Seq(Posting))
    /\ at \in Seq(Nat)
    /\ pc \in {"round", "compare", "decide", "skip"} =>
           /\ Len(at) = Len(lists)
           /\ \A k \in 1..Len(lists) : at[k] \in 1..(Len(lists[k]) + 1)
    /\ inner \in Nat
    /\ docId \in Nat
    /\ nextId \in Nat
    /\ \A doc \in Found : doc \in Nat /\ results[doc] \in Seq(Nat)
    /\ printed \in [counted : Nat, docs : Seq(Nat)]
    /\ pc \in {"idle", "split", "fetch", "round", "compare", "decide", "skip",
               "or", "done"}

(***************************************************************************)
(* A document that was published before the query arrived, and matches it, *)
(* is found: what the indexer does between the reads takes no hit away     *)
(* (split_query_to_tokens, fetch_postings, search_docs_and).               *)
(***************************************************************************)
NothingIsMissed == pc = "done" /\ ~ orQuery => Hits(arrived) \subseteq Found

(***************************************************************************)
(* A document that is found is published and matches the query, although   *)
(* the lists that are joined were read at different times.                 *)
(***************************************************************************)
NothingIsInvented == Found \subseteq Hits(corpus)

(***************************************************************************)
(* While the lists are joined no cursor walks past a hit that has not been *)
(* added to the results, whatever other cursors it follows                 *)
(* (search.c:303-362).                                                     *)
(***************************************************************************)
Ahead(k, doc) == \E i \in at[k]..Len(lists[k]) : lists[k][i].doc = doc

NoHitIsPassed ==
    pc \in {"round", "compare", "decide", "skip"} =>
        \A doc \in Hits(arrived) \ Found : \A k \in 1..Len(lists) : Ahead(k, doc)

(***************************************************************************)
(* The score of a result is computed from its own postings: calc_tf_idf    *)
(* reads them from wherever the cursors happen to stand (search.c:240).    *)
(***************************************************************************)
OwnFrequencies(doc) ==
    [k \in 1..Len(lists) |-> Cardinality(Positions(corpus[doc], order[k]))]

ScoresAreOwn ==
    pc = "done" /\ ~ orQuery =>
        \A doc \in Found : results[doc] = OwnFrequencies(doc)

(***************************************************************************)
(* A document that contains every token of the query as often as another   *)
(* one, and one of them more often, is printed before it, as long as more  *)
(* documents were counted when the server started than contain any of the  *)
(* tokens: with a count that is behind, idf is negative and the ranking    *)
(* turns round (search.c:238, searchengine.c:266).                         *)
(***************************************************************************)
AsOften(doc, other) ==
    \A k \in DOMAIN results[doc] : results[doc][k] >= results[other][k]

PrintedBefore(doc, other) ==
    \A i \in 1..Len(printed.docs) : printed.docs[i] = other =>
        \E j \in 1..i - 1 : printed.docs[j] = doc

CountIsAhead == \A k \in 1..Len(order) : entries[order[k]].count < printed.counted

MoreOftenIsFirst ==
    pc = "idle" /\ printed.docs # <<>> /\ CountIsAhead =>
        \A doc, other \in Found :
            AsOften(doc, other) /\ results[doc] # results[other]
                => PrintedBefore(doc, other)

\* Every query is answered.
QueriesEnd == pc = "split" ~> pc = "done"

-----------------------------------------------------------------------------
(***************************************************************************)
(* What a comment and the README of the code say, and the code does not do.*)
(***************************************************************************)

\* "support or query" (README.md:7): an OR query finds the documents that
\* contain any of its tokens, at least when it has no token that is new to the
\* index.
OrFindsUnion ==
    /\ pc = "done" /\ orQuery
    /\ \A i \in Terms : \E doc \in 1..Len(arrived) : Occurs(query[i], arrived[doc])
    => Hits(arrived) \subseteq Found

=============================================================================
