---------------------------- MODULE SearchProofs ----------------------------
(***************************************************************************)
(* Proofs about Search, for any tokens, bodies and queries, however many   *)
(* documents are published between the reads of a search.                  *)
(***************************************************************************)
EXTENDS Search, PostingsProofs

Joining == {"round", "compare", "decide", "skip"}

\* Every posting of the list is true of the document it names.
TrueOf(list, token) ==
    /\ list \in Seq(Posting)
    /\ Ascending(list)
    /\ \A i \in 1..Len(list) :
           /\ list[i].doc \in 1..Len(corpus)
           /\ Occurs(token, corpus[list[i].doc])
           /\ list[i].pos = Positions(corpus[list[i].doc], token)

Covers(list, token, docs) ==
    \A d \in 1..Len(docs) :
        Occurs(token, docs[d]) => \E i \in 1..Len(list) : list[i].doc = d

\* The published index reflects the published documents.
IndexInv ==
    /\ corpus \in Seq(Seq(Tokens))
    /\ arrived \in Seq(Seq(Tokens))
    /\ Len(arrived) <= Len(corpus)
    /\ \A d \in 1..Len(arrived) : arrived[d] = corpus[d]
    /\ index \in [Tokens -> Seq(Posting)]
    /\ \A token \in Tokens :
           TrueOf(index[token], token) /\ Covers(index[token], token, corpus)

NewToArrived(token) == \A d \in 1..Len(arrived) : ~ Occurs(token, arrived[d])

\* The terms split so far are entered under their token, or under number 0 if
\* no document contained the token when the query arrived.
QueryInv ==
    /\ query \in Seq(Tokens)
    /\ next \in 1..(Len(query) + 1)
    /\ entries \in [TokenIds -> [count : Nat, bases : SUBSET Nat]]
    /\ IsFiniteSet(QueryIds)
    /\ \A id \in TokenIds : \A base \in entries[id].bases :
           /\ base + 1 \in Terms
           /\ id \in Tokens => query[base + 1] = id
           /\ id = NoToken => NewToArrived(query[base + 1])
    /\ \A i \in Terms :
           i < next => i - 1 \in entries[query[i]].bases \cup entries[NoToken].bases

HasLists == pc \in {"fetch", "or"} \cup Joining \/ Found # {}

\* The lists were fetched after the query arrived, in the order of the tokens.
ListsInv ==
    HasLists =>
        /\ next > Len(query)
        /\ QueryIds # {}
        /\ order \in Seq(QueryIds)
        /\ \A id \in QueryIds : \E k \in 1..Len(order) : order[k] = id
        /\ lists \in Seq(Seq(Posting))
        /\ Len(lists) <= Len(order)
        /\ \A k \in 1..Len(lists) :
               /\ order[k] \in Tokens
               /\ TrueOf(lists[k], order[k])
               /\ Covers(lists[k], order[k], arrived)
        /\ pc # "fetch" => Len(lists) = Len(order)

StandsAt(k, doc) == ~ AtEnd(k) /\ Current(k).doc = doc

\* The cursor of the for loop has found a document to skip to.
Marked == nextId > 0 /\ inner \in 2..Len(lists) /\ StandsAt(inner, nextId)

\* The cursors of the join, by where the loop is.
CursorsInv ==
    pc \in Joining =>
        /\ ~ orQuery
        /\ at \in [1..Len(lists) -> Nat \ {0}]
        /\ pc \in {"compare", "decide"} => StandsAt(1, docId)
        /\ pc = "compare" =>
               /\ nextId = 0
               /\ inner \in 2..(Len(lists) + 1)
               /\ \A k \in 2..(inner - 1) : StandsAt(k, docId)
        /\ pc = "decide" =>
               \/ nextId = 0 /\ \A k \in 1..Len(lists) : StandsAt(k, docId)
               \/ Marked
        /\ pc = "skip" => Marked

ResultsInv ==
    /\ NothingIsInvented
    /\ ~ orQuery => \A doc \in Found : results[doc] = OwnFrequencies(doc)
    /\ pc \in {"split", "fetch", "or"} => Found = {}
    /\ pc = "or" => orQuery

IInv ==
    /\ IndexInv
    /\ QueryInv
    /\ ListsInv
    /\ CursorsInv
    /\ ResultsInv
    /\ NoHitIsPassed
    /\ NothingIsMissed

-----------------------------------------------------------------------------
(***************************************************************************)
(* What is known while the lists are joined.                               *)
(***************************************************************************)
LEMMA ListTypes ==
    ASSUME IndexInv, NEW list, NEW token, TrueOf(list, token)
    PROVE  /\ Len(list) \in Nat
           /\ Len(corpus) \in Nat
           /\ \A i \in 1..Len(list) :
                  /\ list[i].doc \in 1..Len(corpus)
                  /\ list[i].doc \in Nat \ {0}
                  /\ list[i].pos = Positions(corpus[list[i].doc], token)
                  /\ Occurs(token, corpus[list[i].doc])
           /\ \A i, j \in 1..Len(list) : i < j => list[i].doc < list[j].doc
  <1>1. Len(list) \in Nat /\ Len(corpus) \in Nat
    BY DEF IndexInv, TrueOf
  <1>2. \A i \in 1..Len(list) :
            /\ list[i].doc \in 1..Len(corpus)
            /\ list[i].pos = Positions(corpus[list[i].doc], token)
            /\ Occurs(token, corpus[list[i].doc])
    BY DEF TrueOf
  <1>3. \A i, j \in 1..Len(list) : i < j => list[i].doc < list[j].doc
    BY DEF TrueOf, Ascending
  <1> QED BY <1>1, <1>2, <1>3

\* Every list belongs to a token, and every term of the query has its list.
LEMMA ListsOfTerms ==
    ASSUME QueryInv, ListsInv, HasLists, Len(lists) = Len(order)
    PROVE  /\ Len(lists) \in Nat \ {0}
           /\ Terms # {}
           /\ \A k \in 1..Len(lists) :
                  /\ order[k] \in Tokens
                  /\ TrueOf(lists[k], order[k])
                  /\ Covers(lists[k], order[k], arrived)
                  /\ Bases(k) # {}
                  /\ \A base \in Bases(k) :
                         base \in Nat /\ base + 1 \in Terms /\ query[base + 1] = order[k]
           /\ \A i \in Terms :
                  \E k \in 1..Len(lists) : order[k] = query[i] /\ i - 1 \in Bases(k)
  <1>1. /\ next > Len(query)
        /\ QueryIds # {}
        /\ order \in Seq(QueryIds)
        /\ \A id \in QueryIds : \E k \in 1..Len(order) : order[k] = id
        /\ \A k \in 1..Len(lists) :
               /\ order[k] \in Tokens
               /\ TrueOf(lists[k], order[k])
               /\ Covers(lists[k], order[k], arrived)
        /\ Len(lists) = Len(order)
    BY DEF ListsInv
  <1>2. Len(order) \in Nat /\ \A k \in 1..Len(order) : order[k] \in QueryIds
    BY <1>1, ElementOfSeq
  <1>3. Len(lists) \in Nat \ {0}
    BY <1>1, <1>2
  <1>4. \A k \in 1..Len(lists) :
            /\ Bases(k) # {}
            /\ \A base \in Bases(k) :
                   base \in Nat /\ base + 1 \in Terms /\ query[base + 1] = order[k]
    BY <1>1, <1>2 DEF Bases, QueryIds, QueryInv
  <1>5. entries[NoToken].bases = {}
    BY <1>1, TokensAssumption DEF QueryIds, TokenIds
  <1>6. ASSUME NEW i \in Terms
        PROVE  \E k \in 1..Len(lists) : order[k] = query[i] /\ i - 1 \in Bases(k)
    <2>1. i \in 1..Len(query) /\ Len(query) \in Nat /\ query[i] \in Tokens
      BY ElementOfSeq DEF Terms, QueryInv
    <2>2. i < next
      BY <1>1, <2>1 DEF QueryInv
    <2>3. i - 1 \in entries[query[i]].bases
      BY <1>5, <2>2 DEF QueryInv
    <2>4. query[i] \in QueryIds
      BY <2>1, <2>3 DEF QueryIds, TokenIds
    <2>5. PICK k \in 1..Len(order) : order[k] = query[i]
      BY <1>1, <2>4
    <2> QED BY <1>1, <2>3, <2>5 DEF Bases
  <1>7. Terms # {}
    <2>1. 1 \in 1..Len(lists)
      BY <1>3
    <2> QED BY <1>4, <2>1
  <1> QED BY <1>1, <1>3, <1>4, <1>6, <1>7

LEMMA TermsHaveLists ==
    ASSUME QueryInv, ListsInv, HasLists, pc # "fetch"
    PROVE  /\ Len(lists) \in Nat \ {0}
           /\ Terms # {}
           /\ \A k \in 1..Len(lists) :
                  /\ order[k] \in Tokens
                  /\ TrueOf(lists[k], order[k])
                  /\ Covers(lists[k], order[k], arrived)
                  /\ Bases(k) # {}
                  /\ \A base \in Bases(k) :
                         base \in Nat /\ base + 1 \in Terms /\ query[base + 1] = order[k]
           /\ \A i \in Terms :
                  \E k \in 1..Len(lists) : order[k] = query[i] /\ i - 1 \in Bases(k)
  <1>1. Len(lists) = Len(order)
    BY DEF ListsInv
  <1> QED BY <1>1, ListsOfTerms

\* Where the cursors of the join may stand.
LEMMA JoinTypes ==
    ASSUME IInv, pc \in Joining
    PROVE  /\ Len(lists) \in Nat \ {0}
           /\ 1 \in 1..Len(lists)
           /\ at \in [1..Len(lists) -> Nat \ {0}]
           /\ \A k \in 1..Len(lists) :
                  /\ at[k] \in Nat \ {0}
                  /\ Len(lists[k]) \in Nat
                  /\ \A i \in 1..Len(lists[k]) : lists[k][i].doc \in Nat \ {0}
                  /\ \A i, j \in 1..Len(lists[k]) :
                         i < j => lists[k][i].doc < lists[k][j].doc
                  /\ ~ AtEnd(k) => at[k] \in 1..Len(lists[k])
                  /\ ~ AtEnd(k) => Current(k).doc \in Nat \ {0}
  <1>1. HasLists /\ pc # "fetch"
    BY DEF HasLists, Joining
  <1>2. /\ Len(lists) \in Nat \ {0}
        /\ \A k \in 1..Len(lists) : TrueOf(lists[k], order[k])
    BY <1>1, TermsHaveLists DEF IInv
  <1>3. at \in [1..Len(lists) -> Nat \ {0}]
    BY DEF IInv, CursorsInv
  <1>4. ASSUME NEW k \in 1..Len(lists)
        PROVE  /\ at[k] \in Nat \ {0}
               /\ Len(lists[k]) \in Nat
               /\ \A i \in 1..Len(lists[k]) : lists[k][i].doc \in Nat \ {0}
               /\ \A i, j \in 1..Len(lists[k]) :
                      i < j => lists[k][i].doc < lists[k][j].doc
               /\ ~ AtEnd(k) => at[k] \in 1..Len(lists[k])
               /\ ~ AtEnd(k) => Current(k).doc \in Nat \ {0}
    <2>1. at[k] \in Nat \ {0}
      BY <1>3
    <2>2. /\ Len(lists[k]) \in Nat
          /\ \A i \in 1..Len(lists[k]) : lists[k][i].doc \in Nat \ {0}
          /\ \A i, j \in 1..Len(lists[k]) :
                 i < j => lists[k][i].doc < lists[k][j].doc
      BY <1>2, ListTypes DEF IInv
    <2>3. ~ AtEnd(k) => at[k] \in 1..Len(lists[k])
      BY <2>1, <2>2 DEF AtEnd
    <2> QED BY <2>1, <2>2, <2>3 DEF Current
  <1> QED BY <1>2, <1>3, <1>4

-----------------------------------------------------------------------------
(***************************************************************************)
(* What the hits depend on.                                                *)
(***************************************************************************)
LEMMA SameTerms ==
    ASSUME UNCHANGED query
    PROVE  Terms' = Terms
  BY DEF Terms

LEMMA SameHits ==
    ASSUME UNCHANGED <<options, query, arrived>>
    PROVE  Hits(arrived)' = Hits(arrived)
  BY DEF Hits, Matches, MatchesAll, MatchesAny, OccursAsPhrase, Terms, Occurs, options

\* A document that is published takes no hit away.
LEMMA HitsStay ==
    ASSUME UNCHANGED <<options, query>>,
           Len(corpus) \in Nat, Len(corpus)' \in Nat,
           Len(corpus) <= Len(corpus)',
           \A d \in 1..Len(corpus) : corpus'[d] = corpus[d]
    PROVE  Hits(corpus) \subseteq Hits(corpus)'
  <1>1. ASSUME NEW doc \in 1..Len(corpus), Matches(corpus[doc])
        PROVE  Matches(corpus[doc])'
    <2>1. corpus'[doc] = corpus[doc]
      OBVIOUS
    <2> QED
      BY <1>1, <2>1
      DEF Matches, MatchesAll, MatchesAny, OccursAsPhrase, Terms, Occurs, options
  <1> QED BY <1>1 DEF Hits

\* A document that was published when the query arrived is still published.
LEMMA HitsOfArrived ==
    ASSUME IndexInv
    PROVE  Hits(arrived) \subseteq Hits(corpus)
  <1>1. /\ Len(arrived) \in Nat /\ Len(corpus) \in Nat
        /\ Len(arrived) <= Len(corpus)
        /\ \A d \in 1..Len(arrived) : arrived[d] = corpus[d]
    BY DEF IndexInv
  <1> QED BY <1>1 DEF Hits

-----------------------------------------------------------------------------
(***************************************************************************)
(* What it means that all cursors stand at the same document.              *)
(***************************************************************************)
LEMMA PositionMeans ==
    ASSUME NEW body, Len(body) \in Nat, NEW token, NEW p \in Int
    PROVE  p \in Positions(body, token) <=> p + 1 \in 1..Len(body) /\ body[p + 1] = token
  <1>1. ASSUME p + 1 \in 1..Len(body), body[p + 1] = token
        PROVE  p \in Positions(body, token)
    <2>1. p = (p + 1) - 1
      OBVIOUS
    <2> QED BY <1>1, <2>1 DEF Positions
  <1>2. ASSUME p \in Positions(body, token)
        PROVE  p + 1 \in 1..Len(body) /\ body[p + 1] = token
    BY <1>2 DEF Positions
  <1> QED BY <1>1, <1>2

LEMMA AgreeingPostings ==
    ASSUME IInv, pc \in Joining, NEW doc,
           \A k \in 1..Len(lists) : StandsAt(k, doc)
    PROVE  /\ doc \in 1..Len(corpus)
           /\ Len(corpus[doc]) \in Nat
           /\ \A k \in 1..Len(lists) :
                  /\ Current(k).pos = Positions(corpus[doc], order[k])
                  /\ Occurs(order[k], corpus[doc])
                  /\ \A base \in Bases(k) :
                         base \in Nat /\ base + 1 \in Terms /\ query[base + 1] = order[k]
           /\ \A i \in Terms :
                  \E k \in 1..Len(lists) : order[k] = query[i] /\ i - 1 \in Bases(k)
  <1>1. HasLists /\ pc # "fetch"
    BY DEF HasLists, Joining
  <1>2. ASSUME NEW k \in 1..Len(lists)
        PROVE  /\ doc \in 1..Len(corpus)
               /\ Current(k).pos = Positions(corpus[doc], order[k])
               /\ Occurs(order[k], corpus[doc])
    <2>1. TrueOf(lists[k], order[k])
      BY <1>1, TermsHaveLists DEF IInv
    <2>2. at[k] \in 1..Len(lists[k]) /\ lists[k][at[k]].doc = doc
      BY JoinTypes DEF StandsAt, Current
    <2> QED BY <2>1, <2>2 DEF TrueOf, Current
  <1>3. doc \in 1..Len(corpus)
    BY <1>2, JoinTypes
  <1>4. Len(corpus[doc]) \in Nat
    BY <1>3, ElementOfSeq DEF IInv, IndexInv
  <1> QED BY <1>1, <1>2, <1>3, <1>4, TermsHaveLists DEF IInv

\* The document then has all terms of the query, and what is found of them
\* are its own positions.
LEMMA AgreementIsHit ==
    ASSUME IInv, pc \in Joining, NEW doc,
           \A k \in 1..Len(lists) : StandsAt(k, doc)
    PROVE  /\ TermFrequencies = OwnFrequencies(doc)
           /\ (phraseSearch => PhraseOccurs) => doc \in Hits(corpus)
  <1>a. /\ doc \in 1..Len(corpus)
        /\ Len(corpus[doc]) \in Nat
        /\ \A k \in 1..Len(lists) :
               /\ Current(k).pos = Positions(corpus[doc], order[k])
               /\ Occurs(order[k], corpus[doc])
               /\ \A base \in Bases(k) :
                      base \in Nat /\ base + 1 \in Terms /\ query[base + 1] = order[k]
        /\ \A i \in Terms :
               \E k \in 1..Len(lists) : order[k] = query[i] /\ i - 1 \in Bases(k)
    BY AgreeingPostings
  <1>b. 1 \in 1..Len(lists)
    BY JoinTypes
  <1>1. TermFrequencies = OwnFrequencies(doc)
    BY <1>a DEF TermFrequencies, OwnFrequencies
  <1>2. ~ orQuery /\ Terms # {}
    BY TermsHaveLists DEF IInv, CursorsInv, HasLists, Joining
  <1>3. \A i \in Terms : Occurs(query[i], corpus[doc])
    BY <1>a
  <1>4. ASSUME PhraseOccurs
        PROVE  OccursAsPhrase(corpus[doc])
    <2>1. PICK start \in {p - base : p \in Current(1).pos, base \in Bases(1)} :
              \A k \in 1..Len(lists) : \A base \in Bases(k) : base + start \in Current(k).pos
      BY <1>4 DEF PhraseOccurs
    <2>2. PICK p \in Current(1).pos, b \in Bases(1) : start = p - b
      BY <2>1
    <2>3. p \in Positions(corpus[doc], order[1])
      BY <2>2, <1>a, <1>b
    <2>4. p \in 0..(Len(corpus[doc]) - 1)
      BY <2>3, <1>a DEF Positions
    <2>5. b \in 0..(Len(query) - 1) /\ Len(query) \in Nat
      <3>1. b \in Nat /\ b + 1 \in 1..Len(query)
        BY <2>2, <1>a, <1>b DEF Terms
      <3>2. Len(query) \in Nat
        BY DEF IInv, QueryInv
      <3> QED BY <3>1, <3>2
    <2>6. start \in (1 - Len(query))..Len(corpus[doc])
      BY <2>2, <2>4, <2>5, <1>a
    <2>7. ASSUME NEW i \in Terms
          PROVE  i + start \in 1..Len(corpus[doc]) /\ corpus[doc][i + start] = query[i]
      <3>1. PICK k \in 1..Len(lists) : order[k] = query[i] /\ i - 1 \in Bases(k)
        BY <1>a
      <3>2. i - 1 + start \in Positions(corpus[doc], query[i])
        BY <2>1, <3>1, <1>a
      <3>3. i \in Int /\ start \in Int
        BY <2>5, <2>6, <1>a DEF Terms
      <3>4. i - 1 + start \in Int /\ i - 1 + start + 1 = i + start
        BY <3>3
      <3> QED BY <3>2, <3>4, PositionMeans, <1>a
    <2> QED BY <2>6, <2>7 DEF OccursAsPhrase
  <1>5. (phraseSearch => PhraseOccurs) => Matches(corpus[doc])
    BY <1>2, <1>3, <1>4 DEF Matches, MatchesAll
  <1> QED BY <1>1, <1>5, <1>a DEF Hits

\* The phrase is found in a document that has it.
LEMMA HitHasPhrase ==
    ASSUME IInv, pc \in Joining, phraseSearch,
           NEW doc \in Hits(corpus),
           \A k \in 1..Len(lists) : StandsAt(k, doc)
    PROVE  PhraseOccurs
  <1>1. ~ orQuery
    BY DEF IInv, CursorsInv
  <1>2. PICK shift \in (1 - Len(query))..Len(corpus[doc]) :
            \A i \in Terms :
                i + shift \in 1..Len(corpus[doc]) /\ corpus[doc][i + shift] = query[i]
    BY <1>1 DEF Hits, Matches, MatchesAll, OccursAsPhrase
  <1>3. shift \in Int
    BY <1>2, AgreeingPostings DEF IInv, QueryInv
  <1>4. ASSUME NEW k \in 1..Len(lists), NEW base \in Bases(k)
        PROVE  base + shift \in Current(k).pos
    <2>1. base \in Nat /\ base + 1 \in Terms /\ query[base + 1] = order[k]
      BY AgreeingPostings
    <2>2. /\ base + 1 + shift \in 1..Len(corpus[doc])
          /\ corpus[doc][base + 1 + shift] = order[k]
      BY <1>2, <2>1
    <2>3. base + shift \in Int /\ base + shift + 1 = base + 1 + shift
      BY <1>3, <2>1
    <2>4. base + shift \in Positions(corpus[doc], order[k])
      BY <2>2, <2>3, PositionMeans, AgreeingPostings
    <2> QED BY <2>4, AgreeingPostings
  <1>5. PICK base \in Bases(1) : TRUE
    BY JoinTypes, TermsHaveLists DEF IInv, HasLists, Joining
  <1>6. base + shift \in Current(1).pos
    BY <1>4, JoinTypes
  <1>7. shift = (base + shift) - base
    BY <1>3, <1>5, AgreeingPostings, JoinTypes
  <1> QED BY <1>4, <1>5, <1>6, <1>7 DEF PhraseOccurs

-----------------------------------------------------------------------------
(***************************************************************************)
(* What the steps of the join have in common.                              *)
(***************************************************************************)
LEMMA SameIndex ==
    ASSUME IndexInv, UNCHANGED <<database, arrived>>
    PROVE  IndexInv'
  BY DEF IndexInv, TrueOf, Covers, database

LEMMA SameQuery ==
    ASSUME QueryInv, UNCHANGED <<query, next, entries, arrived>>
    PROVE  QueryInv'
  BY DEF QueryInv, QueryIds, Terms, NewToArrived

LEMMA SameLists ==
    ASSUME ListsInv, HasLists, pc # "fetch",
           UNCHANGED <<tokenized, lists, arrived, corpus>>
    PROVE  ListsInv'
  BY DEF ListsInv, QueryIds, TrueOf, Covers, tokenized

LEMMA SameResults ==
    ASSUME IndexInv, ResultsInv, UNCHANGED <<options, database, query, order, lists, results>>,
           pc' \in {"split", "fetch", "or"} => Found = {},
           pc' = "or" => pc = "or"
    PROVE  ResultsInv'
  <1>1. Found' = Found
    BY DEF Found
  <1>2. Hits(corpus) \subseteq Hits(corpus)'
    BY HitsStay DEF IndexInv, database
  <1>3. ~ orQuery' => \A doc \in Found' : results'[doc] = OwnFrequencies(doc)'
    <2>1. ASSUME NEW doc \in Found PROVE OwnFrequencies(doc)' = OwnFrequencies(doc)
      <3>1. corpus' = corpus /\ order' = order /\ lists' = lists
        BY DEF database
      <3> QED BY <3>1 DEF OwnFrequencies, Positions
    <2>2. orQuery' = orQuery /\ results' = results
      BY DEF options
    <2> QED BY <1>1, <2>1, <2>2 DEF ResultsInv
  <1>4. orQuery' = orQuery
    BY DEF options
  <1> QED BY <1>1, <1>2, <1>3, <1>4 DEF ResultsInv, NothingIsInvented

LEMMA JoinStep ==
    ASSUME IInv, pc \in Joining, InMemory, pc' \in Joining \cup {"done"}
    PROVE  /\ IndexInv' /\ QueryInv' /\ ListsInv'
           /\ UNCHANGED results => ResultsInv'
           /\ pc' # "done" => NothingIsMissed'
           /\ Hits(arrived)' = Hits(arrived)
           /\ ~ orQuery'
  <1>1. HasLists /\ pc # "fetch"
    BY DEF HasLists, Joining
  <1>2. IndexInv' /\ QueryInv' /\ ListsInv'
    BY <1>1, SameIndex, SameQuery, SameLists DEF IInv, InMemory, tokenized, database
  <1>3. UNCHANGED results => ResultsInv'
    BY SameResults DEF IInv, InMemory, tokenized, Joining
  <1>4. Hits(arrived)' = Hits(arrived)
    BY SameHits DEF InMemory, tokenized
  <1>5. ~ orQuery'
    BY DEF IInv, CursorsInv, InMemory, options
  <1> QED BY <1>2, <1>3, <1>4, <1>5 DEF NothingIsMissed

\* A hit that is still to be added is not before any cursor.
LEMMA HitIsAhead ==
    ASSUME IInv, pc \in Joining, NEW hit \in Hits(arrived) \ Found,
           NEW k \in 1..Len(lists)
    PROVE  /\ ~ AtEnd(k)
           /\ Current(k).doc <= hit
  <1>1. PICK i \in at[k]..Len(lists[k]) : lists[k][i].doc = hit
    BY DEF IInv, NoHitIsPassed, Ahead, Joining
  <1>2. at[k] \in Nat \ {0} /\ Len(lists[k]) \in Nat
    BY JoinTypes
  <1>3. at[k] \in 1..Len(lists[k]) /\ i \in 1..Len(lists[k]) /\ at[k] <= i
    BY <1>1, <1>2
  <1>4. lists[k][at[k]].doc <= lists[k][i].doc
    BY <1>3, JoinTypes
  <1> QED BY <1>1, <1>2, <1>3, <1>4 DEF AtEnd, Current

\* No cursor moves: no hit is passed.
LEMMA CursorsRest ==
    ASSUME IInv, pc \in Joining, InMemory, UNCHANGED <<at, results>>
    PROVE  NoHitIsPassed'
  <1>1. Hits(arrived)' = Hits(arrived) /\ Found' = Found
    BY SameHits DEF InMemory, tokenized, Found
  <1> QED BY <1>1 DEF IInv, NoHitIsPassed, Ahead, InMemory, Joining

\* A cursor leaves a document that is no hit, or one that has been added.
LEMMA CursorMoves ==
    ASSUME IInv, pc \in Joining, InMemory, Found \subseteq Found',
           NEW c \in 1..Len(lists), at' = [at EXCEPT ![c] = @ + 1], ~ AtEnd(c),
           \A hit \in Hits(arrived) \ Found' : Current(c).doc # hit
    PROVE  /\ at' \in [1..Len(lists') -> Nat \ {0}]
           /\ NoHitIsPassed'
  <1>1. Hits(arrived)' = Hits(arrived) /\ lists' = lists
    BY SameHits DEF InMemory, tokenized
  <1>2. at \in [1..Len(lists) -> Nat \ {0}]
    BY JoinTypes
  <1>3. ASSUME NEW hit \in Hits(arrived) \ Found', NEW k \in 1..Len(lists)
        PROVE  \E i \in at'[k]..Len(lists[k]) : lists[k][i].doc = hit
    <2>1. PICK i \in at[k]..Len(lists[k]) : lists[k][i].doc = hit
      BY <1>3 DEF IInv, NoHitIsPassed, Ahead, Joining
    <2>2. at[k] \in Nat \ {0} /\ Len(lists[k]) \in Nat
      BY JoinTypes
    <2>3. CASE k = c
      <3>1. i # at[k]
        BY <1>3, <2>1, <2>3 DEF Current
      <3>2. at'[k] = at[k] + 1
        BY <1>2, <2>3
      <3>3. i \in at'[k]..Len(lists[k])
        BY <2>1, <2>2, <3>1, <3>2
      <3> QED BY <2>1, <3>3
    <2>4. CASE k # c
      BY <1>2, <2>1, <2>4
    <2> QED BY <2>3, <2>4
  <1>4. NoHitIsPassed'
    BY <1>1, <1>3 DEF NoHitIsPassed, Ahead
  <1>5. at' \in [1..Len(lists') -> Nat \ {0}]
    BY <1>1, <1>2
  <1> QED BY <1>4, <1>5

-----------------------------------------------------------------------------
(***************************************************************************)
(* The steps of the join.                                                  *)
(***************************************************************************)
LEMMA BeginRoundStep ==
    ASSUME IInv, BeginRound
    PROVE  IInv'
  <1>1. pc \in Joining /\ pc' \in Joining /\ pc' = "compare" /\ InMemory
    BY DEF BeginRound, Joining
  <1>2. IndexInv' /\ QueryInv' /\ ListsInv' /\ ResultsInv' /\ NothingIsMissed' /\ ~ orQuery'
    BY <1>1, JoinStep DEF BeginRound
  <1>3. NoHitIsPassed'
    BY <1>1, CursorsRest DEF BeginRound
  <1>4. CursorsInv'
    <2>1. /\ at' = at /\ lists' = lists /\ nextId' = 0 /\ inner' = 2
          /\ docId' = Current(1).doc /\ ~ AtEnd(1)
      BY DEF BeginRound, InMemory
    <2>2. Len(lists) \in Nat \ {0} /\ at \in [1..Len(lists) -> Nat \ {0}]
      BY <1>1, JoinTypes
    <2> QED BY <1>1, <1>2, <2>1, <2>2 DEF CursorsInv, StandsAt, AtEnd, Current
  <1> QED BY <1>2, <1>3, <1>4 DEF IInv

LEMMA SkipOtherStep ==
    ASSUME IInv, SkipOther
    PROVE  IInv'
  <1>1. /\ pc \in Joining /\ pc' \in Joining /\ pc' = "compare" /\ pc = "compare"
        /\ InMemory /\ results' = results /\ Found' = Found
    BY DEF SkipOther, Comparing, Joining, Found
  <1>2. IndexInv' /\ QueryInv' /\ ListsInv' /\ ResultsInv' /\ NothingIsMissed' /\ ~ orQuery'
    BY <1>1, JoinStep
  <1>3. /\ inner \in 2..Len(lists) /\ Len(lists) \in Nat /\ 1 \in 1..Len(lists)
        /\ StandsAt(1, docId) /\ nextId = 0
        /\ \A k \in 2..(inner - 1) : StandsAt(k, docId)
    BY <1>1, JoinTypes DEF IInv, CursorsInv, SkipOther, Comparing
  <1>4. \A hit \in Hits(arrived) \ Found' : Current(inner).doc # hit
    <2>1. /\ Current(inner).doc < docId /\ docId = Current(1).doc
          /\ Current(inner).doc \in Nat /\ docId \in Nat
      BY <1>1, <1>3, JoinTypes DEF SkipOther, StandsAt
    <2>2. ASSUME NEW hit \in Hits(arrived) \ Found PROVE docId <= hit
      BY <1>1, <1>3, <2>1, HitIsAhead
    <2>3. \A hit \in Hits(arrived) : hit \in Nat
      BY DEF Hits
    <2> QED BY <1>1, <2>1, <2>2, <2>3
  <1>5. NoHitIsPassed' /\ at' \in [1..Len(lists') -> Nat \ {0}]
    <2>1. inner \in 1..Len(lists) /\ Found \subseteq Found'
      BY <1>1, <1>3
    <2>2. at' = [at EXCEPT ![inner] = @ + 1] /\ ~ AtEnd(inner)
      BY DEF SkipOther
    <2> QED BY <1>1, <1>4, <2>1, <2>2, CursorMoves
  <1>6. CursorsInv'
    <2>1. /\ lists' = lists /\ nextId' = nextId /\ inner' = inner /\ docId' = docId
          /\ at' = [at EXCEPT ![inner] = @ + 1]
      BY DEF SkipOther, InMemory
    <2>2. \A k \in 1..(inner - 1) : at'[k] = at[k]
      BY <1>1, <1>3, <2>1, JoinTypes
    <2> QED BY <1>1, <1>2, <1>3, <1>5, <2>1, <2>2 DEF CursorsInv, StandsAt, AtEnd, Current
  <1> QED BY <1>2, <1>5, <1>6 DEF IInv

LEMMA OtherAgreesStep ==
    ASSUME IInv, OtherAgrees
    PROVE  IInv'
  <1>1. /\ pc \in Joining /\ pc' \in Joining /\ pc' = "compare" /\ pc = "compare"
        /\ InMemory
    BY DEF OtherAgrees, Comparing, Joining
  <1>2. IndexInv' /\ QueryInv' /\ ListsInv' /\ ResultsInv' /\ NothingIsMissed' /\ ~ orQuery'
    BY <1>1, JoinStep DEF OtherAgrees
  <1>3. NoHitIsPassed'
    BY <1>1, CursorsRest DEF OtherAgrees
  <1>4. CursorsInv'
    <2>1. /\ at' = at /\ lists' = lists /\ nextId' = nextId /\ inner' = inner + 1
          /\ docId' = docId /\ inner <= Len(lists)
          /\ StandsAt(inner, docId)
      BY DEF OtherAgrees, Comparing, InMemory, StandsAt
    <2>2. Len(lists) \in Nat \ {0} /\ at \in [1..Len(lists) -> Nat \ {0}]
      BY <1>1, JoinTypes
    <2>3. /\ inner \in 2..(Len(lists) + 1) /\ StandsAt(1, docId) /\ nextId = 0
          /\ \A k \in 2..(inner - 1) : StandsAt(k, docId)
      BY <1>1 DEF IInv, CursorsInv
    <2>4. \A k \in 2..inner : StandsAt(k, docId)
      BY <2>1, <2>2, <2>3
    <2>5. inner' \in 2..(Len(lists) + 1) /\ inner' - 1 = inner
      BY <2>1, <2>2, <2>3
    <2> QED BY <1>1, <1>2, <2>1, <2>2, <2>3, <2>4, <2>5
            DEF CursorsInv, StandsAt, AtEnd, Current
  <1> QED BY <1>2, <1>3, <1>4 DEF IInv

LEMMA OtherIsAheadStep ==
    ASSUME IInv, OtherIsAhead
    PROVE  IInv'
  <1>1. /\ pc \in Joining /\ pc' \in Joining /\ pc' = "decide" /\ pc = "compare"
        /\ InMemory
    BY DEF OtherIsAhead, Comparing, Joining
  <1>2. IndexInv' /\ QueryInv' /\ ListsInv' /\ ResultsInv' /\ NothingIsMissed' /\ ~ orQuery'
    BY <1>1, JoinStep DEF OtherIsAhead
  <1>3. NoHitIsPassed'
    BY <1>1, CursorsRest DEF OtherIsAhead
  <1>4. CursorsInv'
    <2>1. /\ at' = at /\ lists' = lists /\ inner' = inner /\ docId' = docId
          /\ nextId' = Current(inner).doc /\ inner <= Len(lists)
          /\ ~ AtEnd(inner)
      BY DEF OtherIsAhead, Comparing, InMemory
    <2>2. Len(lists) \in Nat \ {0} /\ at \in [1..Len(lists) -> Nat \ {0}]
      BY <1>1, JoinTypes
    <2>3. inner \in 2..Len(lists) /\ StandsAt(1, docId)
      BY <1>1, <2>1, <2>2 DEF IInv, CursorsInv
    <2>4. Current(inner).doc \in Nat \ {0}
      BY <1>1, <2>1, <2>2, <2>3, JoinTypes
    <2>5. Marked'
      BY <2>1, <2>3, <2>4 DEF Marked, StandsAt, AtEnd, Current
    <2> QED BY <1>1, <1>2, <2>1, <2>2, <2>3, <2>5 DEF CursorsInv, StandsAt, AtEnd, Current
  <1> QED BY <1>2, <1>3, <1>4 DEF IInv

LEMMA AllComparedStep ==
    ASSUME IInv, AllCompared
    PROVE  IInv'
  <1>1. /\ pc \in Joining /\ pc' \in Joining /\ pc' = "decide" /\ pc = "compare"
        /\ InMemory
    BY DEF AllCompared, Joining
  <1>2. IndexInv' /\ QueryInv' /\ ListsInv' /\ ResultsInv' /\ NothingIsMissed' /\ ~ orQuery'
    BY <1>1, JoinStep DEF AllCompared
  <1>3. NoHitIsPassed'
    BY <1>1, CursorsRest DEF AllCompared
  <1>4. CursorsInv'
    <2>1. /\ at' = at /\ lists' = lists /\ nextId' = nextId /\ docId' = docId
          /\ inner > Len(lists)
      BY DEF AllCompared, InMemory
    <2>2. Len(lists) \in Nat \ {0} /\ at \in [1..Len(lists) -> Nat \ {0}]
      BY <1>1, JoinTypes
    <2>3. /\ inner \in 2..(Len(lists) + 1) /\ StandsAt(1, docId) /\ nextId = 0
          /\ \A k \in 2..(inner - 1) : StandsAt(k, docId)
      BY <1>1 DEF IInv, CursorsInv
    <2>4. \A k \in 1..Len(lists) : StandsAt(k, docId)
      BY <2>1, <2>2, <2>3
    <2> QED BY <1>1, <1>2, <2>1, <2>2, <2>3, <2>4 DEF CursorsInv, StandsAt, AtEnd, Current
  <1> QED BY <1>2, <1>3, <1>4 DEF IInv

LEMMA SkipBeginsStep ==
    ASSUME IInv, SkipBegins
    PROVE  IInv'
  <1>1. /\ pc \in Joining /\ pc' \in Joining /\ pc' = "skip" /\ pc = "decide"
        /\ InMemory
    BY DEF SkipBegins, Joining
  <1>2. IndexInv' /\ QueryInv' /\ ListsInv' /\ ResultsInv' /\ NothingIsMissed' /\ ~ orQuery'
    BY <1>1, JoinStep DEF SkipBegins
  <1>3. NoHitIsPassed'
    BY <1>1, CursorsRest DEF SkipBegins
  <1>4. CursorsInv'
    <2>1. UNCHANGED <<at, lists, nextId, inner, docId>> /\ nextId > 0
      BY DEF SkipBegins, InMemory
    <2>2. Marked
      BY <1>1, <2>1 DEF IInv, CursorsInv
    <2>3. at \in [1..Len(lists) -> Nat \ {0}]
      BY <1>1, JoinTypes
    <2> QED BY <1>1, <1>2, <2>1, <2>2, <2>3
            DEF CursorsInv, Marked, StandsAt, AtEnd, Current
  <1> QED BY <1>2, <1>3, <1>4 DEF IInv

LEMMA SkipFirstStep ==
    ASSUME IInv, SkipFirst
    PROVE  IInv'
  <1>1. /\ pc \in Joining /\ pc' \in Joining /\ pc' = "skip" /\ pc = "skip"
        /\ InMemory /\ results' = results /\ Found' = Found
    BY DEF SkipFirst, Joining, Found
  <1>2. IndexInv' /\ QueryInv' /\ ListsInv' /\ ResultsInv' /\ NothingIsMissed' /\ ~ orQuery'
    BY <1>1, JoinStep
  <1>3. /\ Marked /\ inner \in 2..Len(lists) /\ StandsAt(inner, nextId)
        /\ 1 \in 1..Len(lists) /\ Len(lists) \in Nat /\ inner \in 1..Len(lists)
    BY <1>1, JoinTypes DEF IInv, CursorsInv, Marked
  <1>4. \A hit \in Hits(arrived) \ Found' : Current(1).doc # hit
    <2>1. /\ Current(1).doc < nextId /\ nextId = Current(inner).doc
          /\ Current(1).doc \in Nat /\ nextId \in Nat
      BY <1>1, <1>3, JoinTypes DEF SkipFirst, FirstIsBehind, StandsAt
    <2>2. ASSUME NEW hit \in Hits(arrived) \ Found PROVE nextId <= hit
      BY <1>1, <1>3, <2>1, HitIsAhead
    <2>3. \A hit \in Hits(arrived) : hit \in Nat
      BY DEF Hits
    <2> QED BY <1>1, <2>1, <2>2, <2>3
  <1>5. NoHitIsPassed' /\ at' \in [1..Len(lists') -> Nat \ {0}]
    <2>1. Found \subseteq Found'
      BY <1>1
    <2>2. at' = [at EXCEPT ![1] = @ + 1] /\ ~ AtEnd(1)
      BY DEF SkipFirst, FirstIsBehind
    <2> QED BY <1>1, <1>3, <1>4, <2>1, <2>2, CursorMoves
  <1>6. CursorsInv'
    <2>1. UNCHANGED <<lists, nextId, inner, docId>> /\ at' = [at EXCEPT ![1] = @ + 1]
      BY DEF SkipFirst, InMemory
    <2>2. at'[inner] = at[inner]
      BY <1>1, <1>3, <2>1, JoinTypes
    <2> QED BY <1>1, <1>2, <1>3, <1>5, <2>1, <2>2
            DEF CursorsInv, Marked, StandsAt, AtEnd, Current
  <1> QED BY <1>2, <1>5, <1>6 DEF IInv

LEMMA SkipEndsStep ==
    ASSUME IInv, SkipEnds
    PROVE  IInv'
  <1>1. pc \in Joining /\ pc' \in Joining /\ pc' = "round" /\ InMemory
    BY DEF SkipEnds, Joining
  <1>2. IndexInv' /\ QueryInv' /\ ListsInv' /\ ResultsInv' /\ NothingIsMissed' /\ ~ orQuery'
    BY <1>1, JoinStep DEF SkipEnds
  <1>3. NoHitIsPassed'
    BY <1>1, CursorsRest DEF SkipEnds
  <1>4. CursorsInv'
    <2>1. at' = at /\ lists' = lists
      BY DEF SkipEnds, InMemory
    <2>2. at \in [1..Len(lists) -> Nat \ {0}]
      BY <1>1, JoinTypes
    <2> QED BY <1>1, <1>2, <2>1, <2>2 DEF CursorsInv
  <1> QED BY <1>2, <1>3, <1>4 DEF IInv

\* A list that has come to its end has no hit left that was not added.
LEMMA ExhaustedStep ==
    ASSUME IInv, NEW k \in 1..Len(lists), AtEnd(k), pc \in Joining,
           pc' = "done", UNCHANGED <<at, results>>, InMemory
    PROVE  IInv'
  <1>1. pc' \in Joining \cup {"done"} /\ pc' \notin Joining
    BY DEF Joining
  <1>2. IndexInv' /\ QueryInv' /\ ListsInv' /\ ResultsInv' /\ ~ orQuery'
    BY <1>1, JoinStep
  <1>3. Hits(arrived)' = Hits(arrived) /\ Found' = Found
    BY <1>1, JoinStep DEF Found
  <1>4. Hits(arrived) \ Found = {}
    BY HitIsAhead
  <1>5. NothingIsMissed'
    BY <1>3, <1>4 DEF NothingIsMissed
  <1>6. NoHitIsPassed' /\ CursorsInv'
    BY <1>1 DEF NoHitIsPassed, CursorsInv, Joining
  <1> QED BY <1>2, <1>5, <1>6 DEF IInv

LEMMA FirstExhaustedStep ==
    ASSUME IInv, FirstExhausted
    PROVE  IInv'
  <1>1. pc \in Joining /\ 1 \in 1..Len(lists)
    BY JoinTypes DEF FirstExhausted, Joining
  <1> QED BY <1>1, ExhaustedStep DEF FirstExhausted

LEMMA OtherExhaustedStep ==
    ASSUME IInv, OtherExhausted
    PROVE  IInv'
  <1>1. pc \in Joining
    BY DEF OtherExhausted, Comparing, Joining
  <1>2. inner \in 1..Len(lists)
    BY <1>1, JoinTypes DEF OtherExhausted, Comparing, IInv, CursorsInv
  <1> QED BY <1>1, <1>2, ExhaustedStep DEF OtherExhausted

\* The document all cursors stand at is added if it is a hit, and only then.
LEMMA DocumentFoundStep ==
    ASSUME IInv, DocumentFound
    PROVE  IInv'
  <1>1. /\ pc \in Joining /\ pc' \in Joining /\ pc' = "round" /\ pc = "decide"
        /\ InMemory /\ nextId = 0
    BY DEF DocumentFound, Joining
  <1>2. IndexInv' /\ QueryInv' /\ ListsInv' /\ NothingIsMissed' /\ ~ orQuery'
        /\ Hits(arrived)' = Hits(arrived)
    BY <1>1, JoinStep
  <1>3. \A k \in 1..Len(lists) : StandsAt(k, docId)
    BY <1>1 DEF IInv, CursorsInv, Marked
  <1>4. 1 \in 1..Len(lists) /\ StandsAt(1, docId)
    BY <1>1, <1>3, JoinTypes
  <1>5. /\ TermFrequencies = OwnFrequencies(docId)
        /\ (phraseSearch => PhraseOccurs) => docId \in Hits(corpus)
    BY <1>1, <1>3, AgreementIsHit
  <1>6. UNCHANGED <<options, database, query, order, lists>>
    BY DEF DocumentFound, InMemory, tokenized
  <1>7. /\ ResultsInv'
        /\ Found \subseteq Found'
        /\ \A hit \in Hits(arrived) \ Found' : Current(1).doc # hit
    <2>1. CASE phraseSearch /\ ~ PhraseOccurs
      <3>1. results' = results /\ Found' = Found
        BY <2>1 DEF DocumentFound, Found
      <3>2. ResultsInv'
        BY <1>1, <3>1, JoinStep
      <3>3. \A hit \in Hits(arrived) \ Found' : Current(1).doc # hit
        <4>1. docId \notin Hits(corpus)
          BY <1>1, <1>3, <2>1, HitHasPhrase
        <4>2. Hits(arrived) \subseteq Hits(corpus)
          BY HitsOfArrived DEF IInv
        <4> QED BY <1>4, <4>1, <4>2 DEF StandsAt
      <3> QED BY <3>1, <3>2, <3>3
    <2>2. CASE phraseSearch => PhraseOccurs
      <3>1. results' = WithResult(docId)
        BY <2>2 DEF DocumentFound
      <3>2. Found' = Found \cup {docId}
        BY <3>1 DEF Found, WithResult
      <3>3. docId \in Hits(corpus)
        BY <1>5, <2>2
      <3>4. NothingIsInvented'
        <4>1. Hits(corpus) \subseteq Hits(corpus)'
          BY <1>6, HitsStay DEF IInv, IndexInv, database
        <4> QED BY <3>2, <3>3, <4>1 DEF IInv, ResultsInv, NothingIsInvented
      <3>5. ASSUME NEW doc \in Found' PROVE results'[doc] = OwnFrequencies(doc)'
        <4>1. OwnFrequencies(doc)' = OwnFrequencies(doc)
          BY <1>6 DEF OwnFrequencies, Positions, database
        <4>2. results'[doc] = OwnFrequencies(doc)
          BY <1>5, <3>1, <3>2, <1>1 DEF WithResult, Found, IInv, ResultsInv, CursorsInv
        <4> QED BY <4>1, <4>2
      <3>6. ResultsInv'
        BY <1>1, <3>4, <3>5 DEF ResultsInv, Joining
      <3>7. \A hit \in Hits(arrived) \ Found' : Current(1).doc # hit
        BY <1>4, <3>2 DEF StandsAt
      <3> QED BY <3>2, <3>6, <3>7
    <2> QED BY <2>1, <2>2
  <1>8. NoHitIsPassed' /\ at' \in [1..Len(lists') -> Nat \ {0}]
    <2>1. at' = [at EXCEPT ![1] = @ + 1] /\ ~ AtEnd(1)
      BY <1>4 DEF DocumentFound, StandsAt
    <2> QED BY <1>1, <1>4, <1>7, <2>1, CursorMoves
  <1>9. CursorsInv'
    BY <1>1, <1>2, <1>8 DEF CursorsInv
  <1> QED BY <1>2, <1>7, <1>8, <1>9 DEF IInv

-----------------------------------------------------------------------------
(***************************************************************************)
(* The steps of the indexer.                                               *)
(***************************************************************************)
LEMMA AppendedDocument ==
    ASSUME IndexInv, NEW body \in Bodies, Publish(body)
    PROVE  /\ Len(corpus) \in Nat
           /\ corpus' \in Seq(Seq(Tokens))
           /\ Len(corpus') = Len(corpus) + 1
           /\ \A d \in 1..Len(corpus) : corpus'[d] = corpus[d]
           /\ corpus'[Len(corpus) + 1] = body
  <1>1. corpus' = Append(corpus, body)
    BY DEF Publish
  <1>2. body \in Seq(Tokens) /\ corpus \in Seq(Seq(Tokens))
    BY TextAssumption DEF IndexInv
  <1>3. Len(corpus) \in Nat
    BY <1>2
  <1>4. corpus' \in Seq(Seq(Tokens))
    BY <1>1, <1>2, AppendProperties
  <1>5. /\ Len(corpus') = Len(corpus) + 1
        /\ \A d \in 1..Len(corpus) : corpus'[d] = corpus[d]
        /\ corpus'[Len(corpus) + 1] = body
    BY <1>1, <1>2, AppendProperties
  <1> QED BY <1>3, <1>4, <1>5

LEMMA TrueStays ==
    ASSUME IndexInv, NEW body \in Bodies, Publish(body),
           NEW list, NEW token, TrueOf(list, token)
    PROVE  \A i \in 1..Len(list) :
               /\ list[i].doc \in 1..Len(corpus')
               /\ list[i].doc \in 1..Len(corpus)
               /\ Occurs(token, corpus'[list[i].doc])
               /\ list[i].pos = Positions(corpus'[list[i].doc], token)
  <1> SUFFICES ASSUME NEW i \in 1..Len(list)
               PROVE  /\ list[i].doc \in 1..Len(corpus')
                      /\ list[i].doc \in 1..Len(corpus)
                      /\ Occurs(token, corpus'[list[i].doc])
                      /\ list[i].pos = Positions(corpus'[list[i].doc], token)
    OBVIOUS
  <1>1. /\ list[i].doc \in 1..Len(corpus)
        /\ Occurs(token, corpus[list[i].doc])
        /\ list[i].pos = Positions(corpus[list[i].doc], token)
    BY DEF TrueOf
  <1>2. corpus'[list[i].doc] = corpus[list[i].doc]
    BY <1>1, AppendedDocument
  <1> QED BY <1>1, <1>2, AppendedDocument

LEMMA PositionsAreNat ==
    ASSUME NEW body, Len(body) \in Nat, NEW token
    PROVE  Positions(body, token) \subseteq Nat
  BY DEF Positions

LEMMA PublishIndex ==
    ASSUME IndexInv, NEW body \in Bodies, Publish(body)
    PROVE  IndexInv'
  <1> DEFINE n == Len(corpus) + 1
             posted(token) == [doc |-> n, pos |-> Positions(body, token)]
  <1>1. /\ Len(corpus) \in Nat /\ n \in Nat
        /\ corpus' \in Seq(Seq(Tokens))
        /\ Len(corpus') = n
        /\ \A d \in 1..Len(corpus) : corpus'[d] = corpus[d]
        /\ corpus'[n] = body
    BY AppendedDocument
  <1>2. arrived' = arrived /\ Len(arrived) <= Len(corpus)
        /\ \A d \in 1..Len(arrived) : arrived[d] = corpus[d]
        /\ arrived \in Seq(Seq(Tokens)) /\ Len(arrived) \in Nat
        /\ index \in [Tokens -> Seq(Posting)]
    BY DEF IndexInv, Publish
  <1>3. index' = [token \in Tokens |->
                     IF Occurs(token, body)
                     THEN Append(index[token], posted(token))
                     ELSE index[token]]
    BY DEF Publish
  <1>4. ASSUME NEW token \in Tokens
        PROVE  /\ index'[token] \in Seq(Posting)
               /\ TrueOf(index[token], token)'
               /\ Covers(index[token], token, corpus)'
    <2> DEFINE list == index[token]
    <2>1. TrueOf(list, token) /\ Covers(list, token, corpus)
      BY DEF IndexInv
    <2>2. list \in Seq(Posting) /\ Len(list) \in Nat /\ Ascending(list)
      BY <2>1 DEF TrueOf
    <2>3. \A i \in 1..Len(list) :
               /\ list[i].doc \in 1..Len(corpus')
               /\ list[i].doc \in 1..Len(corpus)
               /\ Occurs(token, corpus'[list[i].doc])
               /\ list[i].pos = Positions(corpus'[list[i].doc], token)
      BY <2>1, TrueStays
    <2>4. \A d \in 1..Len(corpus) :
              Occurs(token, corpus'[d]) => \E i \in 1..Len(list) : list[i].doc = d
      BY <1>1, <2>1 DEF Covers
    <2>5. CASE ~ Occurs(token, body)
      <3>1. index'[token] = list
        BY <1>3, <2>5
      <3>2. TrueOf(index[token], token)'
        BY <2>2, <2>3, <3>1 DEF TrueOf
      <3>3. Covers(index[token], token, corpus)'
        BY <1>1, <2>4, <2>5, <3>1 DEF Covers
      <3> QED BY <2>2, <3>1, <3>2, <3>3
    <2>6. CASE Occurs(token, body)
      <3>1. index'[token] = Append(list, posted(token))
        BY <1>3, <2>6
      <3>2. posted(token) \in Posting
        <4>1. body \in Seq(Tokens)
          BY TextAssumption
        <4>2. Len(body) \in Nat
          BY <4>1
        <4> QED BY <1>1, <4>2, PositionsAreNat DEF Posting
      <3> HIDE DEF list, posted
      <3> DEFINE list2 == Append(list, posted(token))
      <3>3. /\ list2 \in Seq(Posting)
            /\ Len(list2) = Len(list) + 1
            /\ \A i \in 1..Len(list) : list2[i] = list[i]
            /\ list2[Len(list) + 1] = posted(token)
        BY <2>2, <3>2, AppendProperties
      <3> HIDE DEF list2
      <3>4. ASSUME NEW i \in 1..Len(list2)
            PROVE  /\ list2[i].doc \in 1..Len(corpus')
                   /\ i <= Len(list) => list2[i].doc < n
                   /\ i = Len(list) + 1 => list2[i].doc = n
                   /\ Occurs(token, corpus'[list2[i].doc])
                   /\ list2[i].pos = Positions(corpus'[list2[i].doc], token)
        <4>1. CASE i \in 1..Len(list)
          BY <1>1, <2>3, <2>2, <3>3, <4>1
        <4>2. CASE i = Len(list) + 1
          <5>1. list2[i].doc = n /\ list2[i].pos = Positions(body, token)
            BY <3>3, <4>2 DEF posted
          <5> QED BY <1>1, <2>2, <2>6, <4>2, <5>1
        <4> QED BY <2>2, <3>3, <4>1, <4>2
      <3>5. Ascending(list2)
        <4> SUFFICES ASSUME NEW i \in 1..Len(list2), NEW j \in 1..Len(list2), i < j
                     PROVE  list2[i].doc < list2[j].doc
          BY DEF Ascending
        <4>1. i \in 1..Len(list)
          BY <2>2, <3>3
        <4>2. CASE j \in 1..Len(list)
          BY <2>2, <3>3, <4>1, <4>2 DEF Ascending
        <4>3. CASE j = Len(list) + 1
          BY <3>4, <4>1, <4>3, <2>2
        <4> QED BY <2>2, <3>3, <4>2, <4>3
      <3>6. ASSUME NEW d \in 1..Len(corpus'), Occurs(token, corpus'[d])
            PROVE  \E i \in 1..Len(list2) : list2[i].doc = d
        <4>1. CASE d = n
          BY <2>2, <3>3, <3>4, <4>1
        <4>2. CASE d \in 1..Len(corpus)
          <5>1. PICK i \in 1..Len(list) : list[i].doc = d
            BY <2>4, <3>6, <4>2 DEF list
          <5> QED BY <2>2, <3>3, <5>1
        <4> QED BY <1>1, <4>1, <4>2
      <3>7. index'[token] = list2
        BY <3>1 DEF list2
      <3> QED BY <3>3, <3>4, <3>5, <3>6, <3>7 DEF TrueOf, Covers
    <2> QED BY <2>5, <2>6
  <1>5. index' \in [Tokens -> Seq(Posting)]
    BY <1>3, <1>4
  <1>6. Len(arrived') <= Len(corpus') /\ \A d \in 1..Len(arrived') : arrived'[d] = corpus'[d]
    BY <1>1, <1>2
  <1> HIDE DEF n
  <1> QED BY <1>1, <1>2, <1>4, <1>5, <1>6 DEF IndexInv

LEMMA PublishStep ==
    ASSUME IInv, NEW body \in Bodies, Publish(body)
    PROVE  IInv'
  <1>1. UNCHANGED <<options, arrived, tokenized, cursors, results, printed, pc>>
    BY DEF Publish
  <1>2. UNCHANGED <<phraseSearch, orQuery, arrived, query, next, entries, order, lists,
                    at, inner, docId, nextId, results, pc>>
    BY <1>1 DEF options, tokenized, cursors
  <1>3. /\ Len(corpus) \in Nat /\ Len(corpus') \in Nat /\ Len(corpus) <= Len(corpus')
        /\ \A d \in 1..Len(corpus) : corpus'[d] = corpus[d]
    <2>1. IndexInv
      BY DEF IInv
    <2>2. /\ Len(corpus') = Len(corpus) + 1 /\ Len(corpus) \in Nat
          /\ \A d \in 1..Len(corpus) : corpus'[d] = corpus[d]
      BY <2>1, AppendedDocument
    <2>3. Len(corpus') \in Nat /\ Len(corpus) <= Len(corpus')
      BY <2>2
    <2> QED BY <2>2, <2>3
  <1>4. IndexInv'
    BY PublishIndex DEF IInv
  <1>5. QueryInv'
    BY <1>2, SameQuery DEF IInv
  <1>6. ListsInv'
    <2>1. HasLists' = HasLists
      BY <1>2 DEF HasLists, Found
    <2>2. ASSUME HasLists, NEW k \in 1..Len(lists)
          PROVE  TrueOf(lists[k], order[k])'
      <3>1. TrueOf(lists[k], order[k])
        BY <2>2 DEF IInv, ListsInv
      <3>2. \A i \in 1..Len(lists[k]) :
                /\ lists[k][i].doc \in 1..Len(corpus')
                /\ lists[k][i].doc \in 1..Len(corpus)
                /\ Occurs(order[k], corpus'[lists[k][i].doc])
                /\ lists[k][i].pos = Positions(corpus'[lists[k][i].doc], order[k])
        BY <3>1, TrueStays DEF IInv
      <3> QED BY <1>2, <3>1, <3>2 DEF TrueOf
    <2>3. ASSUME HasLists, NEW k \in 1..Len(lists)
          PROVE  Covers(lists[k], order[k], arrived)'
      BY <1>2, <2>3 DEF IInv, ListsInv, Covers
    <2> QED BY <1>2, <2>1, <2>2, <2>3 DEF IInv, ListsInv, QueryIds
  <1>7. CursorsInv'
    BY <1>2 DEF IInv, CursorsInv, Marked, StandsAt, AtEnd, Current
  <1>8. ResultsInv'
    <2>1. Found' = Found
      BY <1>2 DEF Found
    <2>2. Hits(corpus) \subseteq Hits(corpus)'
      BY <1>1, <1>2, <1>3, HitsStay
    <2>3. ASSUME NEW doc \in Found PROVE OwnFrequencies(doc)' = OwnFrequencies(doc)
      <3>1. corpus'[doc] = corpus[doc]
        BY <1>3, <2>3 DEF IInv, ResultsInv, NothingIsInvented, Hits
      <3> QED BY <1>2, <3>1 DEF OwnFrequencies, Positions
    <2> QED BY <1>2, <2>1, <2>2, <2>3 DEF IInv, ResultsInv, NothingIsInvented
  <1>9. Hits(arrived)' = Hits(arrived) /\ Found' = Found
    BY <1>1, <1>2, SameHits DEF Found
  <1>10. NoHitIsPassed' /\ NothingIsMissed'
    BY <1>2, <1>9 DEF IInv, NoHitIsPassed, NothingIsMissed, Ahead
  <1> QED BY <1>4, <1>5, <1>6, <1>7, <1>8, <1>10 DEF IInv

-----------------------------------------------------------------------------
(***************************************************************************)
(* The steps before the join.                                              *)
(***************************************************************************)

\* Outside of the join, and with nothing found, little is claimed.
LEMMA QuietStep ==
    ASSUME IndexInv', QueryInv', ListsInv', Found' = {}, pc' \notin Joining,
           pc' = "or" => orQuery',
           pc' = "done" /\ ~ orQuery' => Hits(arrived)' = {}
    PROVE  IInv'
  BY DEF IInv, CursorsInv, NoHitIsPassed, NothingIsMissed, ResultsInv,
         NothingIsInvented, Joining

LEMMA AskStep ==
    ASSUME IInv, NEW text \in Queries, Ask(text)
    PROVE  IInv'
  <1>1. /\ query' = text /\ arrived' = corpus /\ next' = 1 /\ entries' = NoEntries
        /\ results' = NoResults /\ pc' = "split" /\ UNCHANGED <<corpus, index>>
    BY DEF Ask, database
  <1>2. IndexInv'
    <2>1. Len(corpus) \in Nat /\ corpus \in Seq(Seq(Tokens))
      BY DEF IInv, IndexInv
    <2> QED BY <1>1, <2>1 DEF IInv, IndexInv, TrueOf, Covers
  <1>3. QueryInv'
    <2>1. text \in Seq(Tokens) /\ Len(text) \in Nat
      BY TextAssumption
    <2>2. entries' \in [TokenIds -> [count : Nat, bases : SUBSET Nat]]
      BY <1>1 DEF NoEntries, NoEntry
    <2>3. \A id \in TokenIds : entries'[id].bases = {}
      BY <1>1 DEF NoEntries, NoEntry
    <2>4. QueryIds' = {}
      BY <2>3 DEF QueryIds
    <2>5. \A i \in Terms' : ~ i < next'
      BY <1>1, <2>1 DEF Terms
    <2> QED BY <1>1, <2>1, <2>2, <2>3, <2>4, <2>5, FS_EmptySet DEF QueryInv
  <1>4. Found' = {}
    BY <1>1 DEF Found, NoResults
  <1>5. ListsInv'
    BY <1>1, <1>4 DEF ListsInv, HasLists, Joining
  <1> QED BY <1>1, <1>2, <1>3, <1>4, <1>5, QuietStep DEF Joining

LEMMA PartialMatchStep ==
    ASSUME IInv, PartialMatch
    PROVE  IInv'
  <1>1. /\ UNCHANGED <<options, database, arrived, tokenized, cursors, results>>
        /\ pc = "split" /\ pc' = "done" /\ IsTooShort
    BY DEF PartialMatch
  <1>2. IndexInv' /\ QueryInv'
    BY <1>1, SameIndex, SameQuery DEF IInv, tokenized
  <1>3. Found' = {}
    BY <1>1 DEF Found, IInv, ResultsInv
  <1>4. ListsInv'
    BY <1>1, <1>3 DEF ListsInv, HasLists, Joining
  <1>5. Terms = {}
    BY <1>1 DEF IsTooShort, Terms
  <1>6. Hits(arrived)' = {}
    <2>1. Hits(arrived) = {}
      BY <1>5 DEF Hits, Matches
    <2> QED BY <1>1, <2>1, SameHits DEF tokenized
  <1> QED BY <1>1, <1>2, <1>3, <1>4, <1>6, QuietStep DEF Joining

\* A token without a row is in no document published when the query arrived.
LEMMA TokenIdMeans ==
    ASSUME IndexInv, NEW token \in Tokens
    PROVE  /\ TokenId(token) \in {token, NoToken}
           /\ TokenId(token) = NoToken => NewToArrived(token)
  <1>1. ASSUME TokenId(token) = NoToken PROVE NewToArrived(token)
    <2>1. index[token] = <<>>
      BY <1>1, TokensAssumption DEF TokenId
    <2>2. Covers(index[token], token, corpus) /\ Len(index[token]) = 0
      BY <2>1 DEF IndexInv
    <2>3. \A d \in 1..Len(corpus) : ~ Occurs(token, corpus[d])
      BY <2>2 DEF Covers
    <2>4. /\ Len(arrived) \in Nat /\ Len(corpus) \in Nat /\ Len(arrived) <= Len(corpus)
          /\ \A d \in 1..Len(arrived) : arrived[d] = corpus[d]
      BY DEF IndexInv
    <2> QED BY <2>3, <2>4 DEF NewToArrived
  <1> QED BY <1>1 DEF TokenId

LEMMA SplitTokenStep ==
    ASSUME IInv, SplitToken
    PROVE  IInv'
  <1> DEFINE token == query[next]
             id == TokenId(token)
  <1>1. /\ UNCHANGED <<options, database, arrived, query, order, cursors, results, pc>>
        /\ pc = "split" /\ next <= Len(query) /\ next' = next + 1
        /\ entries' = IF token \in ShortTokens THEN entries ELSE Entered(id, next)
    BY DEF SplitToken
  <1>2. IndexInv'
    BY <1>1, SameIndex DEF IInv
  <1>3. Found' = {}
    BY <1>1 DEF Found, IInv, ResultsInv
  <1>4. ListsInv'
    BY <1>1, <1>3 DEF ListsInv, HasLists, Joining
  <1>5. /\ query \in Seq(Tokens) /\ Len(query) \in Nat /\ next \in 1..Len(query)
        /\ token \in Tokens
        /\ entries \in [TokenIds -> [count : Nat, bases : SUBSET Nat]]
        /\ IsFiniteSet(QueryIds)
    <2>1. query \in Seq(Tokens) /\ Len(query) \in Nat /\ next \in 1..Len(query)
      BY <1>1 DEF IInv, QueryInv
    <2> QED BY <2>1, ElementOfSeq DEF IInv, QueryInv
  <1>6. /\ id \in TokenIds /\ id \in {token, NoToken}
        /\ id = NoToken => NewToArrived(token)
    BY <1>5, TokenIdMeans DEF IInv, TokenIds
  <1>7. Terms' = Terms /\ query' = query /\ arrived' = arrived
    BY <1>1, SameTerms
  <1> HIDE DEF token, id
  <1>8. QueryInv'
    <2>1. CASE token \in ShortTokens
      <3>1. entries' = entries
        BY <1>1, <2>1
      <3>2. next \notin Terms
        BY <2>1 DEF Terms, token
      <3>3. \A i \in Terms : i \in Int /\ (i < next' => i < next)
        BY <1>1, <1>5, <3>2 DEF Terms
      <3>4. next' \in 1..(Len(query) + 1)
        BY <1>1, <1>5
      <3>5. QueryIds' = QueryIds
        BY <3>1 DEF QueryIds
      <3> QED BY <1>5, <1>7, <3>1, <3>3, <3>4, <3>5 DEF IInv, QueryInv, NewToArrived
    <2>2. CASE token \notin ShortTokens
      <3> DEFINE entry == entries'[id]
      <3>1. next \in Terms
        BY <1>5, <2>2 DEF Terms, token
      <3>2. DocsCount(id) \in Nat
        <4>1. id # NoToken => index[id] \in Seq(Posting)
          BY <1>5, <1>6 DEF IInv, IndexInv
        <4> QED BY <4>1 DEF DocsCount
      <3>3. entries' = [entries EXCEPT ![id] =
                [count |-> IF entries[id].bases = {} THEN DocsCount(id) ELSE entries[id].count,
                 bases |-> entries[id].bases \cup {next - 1}]]
        BY <1>1, <2>2 DEF Entered
      <3>4. /\ entries' \in [TokenIds -> [count : Nat, bases : SUBSET Nat]]
            /\ entries'[id].bases = entries[id].bases \cup {next - 1}
            /\ \A other \in TokenIds : other # id => entries'[other] = entries[other]
        BY <1>5, <1>6, <3>2, <3>3
      <3>5. IsFiniteSet(QueryIds')
        <4>1. QueryIds' \subseteq QueryIds \cup {id}
          BY <3>4 DEF QueryIds
        <4> QED BY <1>5, <4>1, FS_AddElement, FS_Subset
      <3>6. ASSUME NEW other \in TokenIds, NEW base \in entries'[other].bases
            PROVE  /\ base + 1 \in Terms
                   /\ other \in Tokens => query[base + 1] = other
                   /\ other = NoToken => NewToArrived(query[base + 1])
        <4>1. CASE base \in entries[other].bases
          BY <4>1 DEF IInv, QueryInv
        <4>2. CASE base \notin entries[other].bases
          <5>1. other = id /\ base = next - 1 /\ base + 1 = next
            BY <1>5, <3>4, <3>6, <4>2
          <5> QED BY <1>6, <3>1, <5>1, TokensAssumption DEF token
        <4> QED BY <4>1, <4>2
      <3>7. ASSUME NEW i \in Terms, i < next'
            PROVE  i - 1 \in entries'[query[i]].bases \cup entries'[NoToken].bases
        <4>1. query[i] \in TokenIds /\ NoToken \in TokenIds /\ i \in Int
          BY <1>5, ElementOfSeq DEF Terms, TokenIds
        <4>2. CASE i < next
          <5>1. i - 1 \in entries[query[i]].bases \cup entries[NoToken].bases
            BY <4>2 DEF IInv, QueryInv
          <5>2. \A other \in TokenIds : entries[other].bases \subseteq entries'[other].bases
            BY <3>4
          <5> QED BY <4>1, <5>1, <5>2
        <4>3. CASE i = next
          BY <1>6, <3>4, <4>3 DEF token
        <4> QED BY <1>1, <1>5, <3>7, <4>1, <4>2, <4>3
      <3>8. next' \in 1..(Len(query) + 1)
        BY <1>1, <1>5
      <3> QED BY <1>5, <1>7, <3>4, <3>5, <3>6, <3>7, <3>8 DEF QueryInv, NewToArrived
    <2> QED BY <2>1, <2>2
  <1> QED BY <1>1, <1>2, <1>3, <1>4, <1>8, QuietStep DEF Joining

\* order holds every number of a query token once.
LEMMA SortedIdsAreAll ==
    ASSUME IsFiniteSet(QueryIds), NEW ids \in SortedIds
    PROVE  /\ ids \in Seq(QueryIds)
           /\ \A id \in QueryIds : \E k \in 1..Len(ids) : ids[k] = id
  <1> DEFINE n == Cardinality(QueryIds)
  <1>1. n \in Nat
    BY FS_CardinalityType
  <1>2. /\ ids \in [1..n -> QueryIds]
        /\ \A i, j \in 1..n : i < j => ids[i] # ids[j]
    BY DEF SortedIds
  <1> HIDE DEF n
  <1>3. ids \in Seq(QueryIds) /\ Len(ids) = n
    BY <1>1, <1>2, FunctionIsSeq
  <1>4. ids \in Injection(1..n, QueryIds)
    <2>1. ASSUME NEW i \in 1..n, NEW j \in 1..n, ids[i] = ids[j]
          PROVE  i = j
      <3>1. i < j \/ j < i \/ i = j
        BY <1>1
      <3> QED BY <1>2, <2>1, <3>1
    <2> QED BY <1>2, <2>1 DEF Injection, IsInjective
  <1>5. Cardinality(1..n) = Cardinality(QueryIds)
    BY <1>1, IntervalCardinality DEF n
  <1>6. ids \in Surjection(1..n, QueryIds)
    BY <1>4, <1>5, FS_Injection
  <1>7. \A id \in QueryIds : \E k \in 1..n : ids[k] = id
    BY <1>6 DEF Surjection
  <1> QED BY <1>3, <1>7

LEMMA SplitEndsStep ==
    ASSUME IInv, SplitEnds
    PROVE  IInv'
  <1>1. /\ UNCHANGED <<options, database, arrived, query, next, entries, results>>
        /\ pc = "split" /\ next > Len(query) /\ order' \in SortedIds /\ lists' = <<>>
        /\ pc' = IF QueryIds = {} THEN "done" ELSE "fetch"
    BY DEF SplitEnds
  <1>2. IndexInv' /\ QueryInv'
    BY <1>1, SameIndex, SameQuery DEF IInv
  <1>3. Found' = {}
    BY <1>1 DEF Found, IInv, ResultsInv
  <1>4. QueryIds' = QueryIds
    BY <1>1 DEF QueryIds
  <1>5. CASE QueryIds = {}
    <2>1. pc' = "done"
      BY <1>1, <1>5
    <2>2. ListsInv'
      BY <2>1, <1>3 DEF ListsInv, HasLists, Joining
    <2>3. Terms = {}
      <3> SUFFICES ASSUME NEW i \in Terms PROVE FALSE
        OBVIOUS
      <3>1. query \in Seq(Tokens) /\ Len(query) \in Nat /\ i \in 1..Len(query)
        BY DEF IInv, QueryInv, Terms
      <3>2. query[i] \in TokenIds /\ NoToken \in TokenIds
        BY <3>1, ElementOfSeq DEF TokenIds
      <3>3. i < next
        BY <1>1, <3>1 DEF IInv, QueryInv
      <3>4. i - 1 \in entries[query[i]].bases \cup entries[NoToken].bases
        BY <3>3 DEF IInv, QueryInv
      <3> QED BY <1>5, <3>2, <3>4 DEF QueryIds
    <2>4. Hits(arrived)' = {}
      <3>1. Hits(arrived) = {}
        BY <2>3 DEF Hits, Matches
      <3> QED BY <1>1, <3>1, SameHits
    <2> QED BY <1>2, <1>3, <2>1, <2>2, <2>4, QuietStep DEF Joining
  <1>6. CASE QueryIds # {}
    <2>1. pc' = "fetch"
      BY <1>1, <1>6
    <2>2. /\ order' \in Seq(QueryIds)
          /\ \A id \in QueryIds : \E k \in 1..Len(order') : order'[k] = id
      BY <1>1, SortedIdsAreAll DEF IInv, QueryInv
    <2>3. lists' \in Seq(Seq(Posting)) /\ Len(lists') = 0
      BY <1>1
    <2>4. ListsInv'
      <3>1. Len(order') \in Nat
        BY <2>2
      <3> QED BY <1>1, <1>4, <1>6, <2>1, <2>2, <2>3, <3>1 DEF ListsInv
    <2> QED BY <1>2, <1>3, <2>1, <2>4, QuietStep DEF Joining
  <1> QED BY <1>5, <1>6

LEMMA FetchStep ==
    ASSUME IInv, Fetch
    PROVE  IInv'
  <1>1. /\ UNCHANGED <<options, database, arrived, tokenized, results, pc>>
        /\ pc = "fetch" /\ Len(lists) < Len(order) /\ Fetching # NoToken
        /\ lists' = Append(lists, index[Fetching])
    BY DEF Fetch
  <1>2. IndexInv' /\ QueryInv'
    BY <1>1, SameIndex, SameQuery DEF IInv, tokenized
  <1>3. Found' = {}
    BY <1>1 DEF Found, IInv, ResultsInv
  <1>4. /\ next > Len(query) /\ QueryIds # {} /\ order \in Seq(QueryIds)
        /\ \A id \in QueryIds : \E k \in 1..Len(order) : order[k] = id
        /\ lists \in Seq(Seq(Posting))
        /\ \A k \in 1..Len(lists) :
               /\ order[k] \in Tokens
               /\ TrueOf(lists[k], order[k])
               /\ Covers(lists[k], order[k], arrived)
    BY <1>1 DEF IInv, ListsInv, HasLists
  <1>5. Len(order) \in Nat /\ Len(lists) \in Nat
    BY <1>4
  <1>6. Fetching = order[Len(lists) + 1] /\ Fetching \in Tokens
    BY <1>1, <1>4, <1>5, ElementOfSeq DEF Fetching, QueryIds, TokenIds
  <1>7. /\ index[Fetching] \in Seq(Posting)
        /\ TrueOf(index[Fetching], Fetching)
        /\ Covers(index[Fetching], Fetching, arrived)
    <2>1. /\ index[Fetching] \in Seq(Posting)
          /\ TrueOf(index[Fetching], Fetching)
          /\ Covers(index[Fetching], Fetching, corpus)
          /\ \A d \in 1..Len(arrived) : arrived[d] = corpus[d]
          /\ Len(arrived) \in Nat /\ Len(corpus) \in Nat /\ Len(arrived) <= Len(corpus)
      BY <1>6 DEF IInv, IndexInv
    <2> QED BY <2>1 DEF Covers
  <1>8. /\ lists' \in Seq(Seq(Posting))
        /\ Len(lists') = Len(lists) + 1
        /\ \A k \in 1..Len(lists) : lists'[k] = lists[k]
        /\ lists'[Len(lists) + 1] = index[Fetching]
    BY <1>1, <1>4, <1>7, AppendProperties
  <1>9. ASSUME NEW k \in 1..Len(lists')
        PROVE  /\ order[k] \in Tokens
               /\ TrueOf(lists'[k], order[k])
               /\ Covers(lists'[k], order[k], arrived)
    <2>1. k \in 1..Len(lists) \/ k = Len(lists) + 1
      BY <1>5, <1>8
    <2> QED BY <1>4, <1>6, <1>7, <1>8, <2>1
  <1>10. UNCHANGED <<order, next, query, entries, arrived, corpus>>
    BY <1>1 DEF tokenized, database
  <1>11. ListsInv'
    <2>1. ASSUME NEW k \in 1..Len(lists')
          PROVE  TrueOf(lists[k], order[k])' /\ Covers(lists[k], order[k], arrived)'
      BY <1>9, <1>10 DEF TrueOf, Covers
    <2>2. QueryIds' = QueryIds
      BY <1>10 DEF QueryIds
    <2> QED BY <1>1, <1>4, <1>5, <1>8, <1>9, <1>10, <2>1, <2>2 DEF ListsInv
  <1> QED BY <1>1, <1>2, <1>3, <1>11, QuietStep DEF Joining

\* A term of the query is new to the index: no document has all of them.
LEMMA FetchFindsNothingStep ==
    ASSUME IInv, FetchFindsNothing
    PROVE  IInv'
  <1>1. /\ UNCHANGED <<options, database, arrived, tokenized, results>>
        /\ pc = "fetch" /\ Len(lists) < Len(order) /\ Fetching = NoToken
        /\ pc' = "done"
    BY DEF FetchFindsNothing
  <1>2. IndexInv' /\ QueryInv'
    BY <1>1, SameIndex, SameQuery DEF IInv, tokenized
  <1>3. Found' = {}
    BY <1>1 DEF Found, IInv, ResultsInv
  <1>4. ListsInv'
    BY <1>1, <1>3 DEF ListsInv, HasLists, Joining
  <1>5. NoToken \in QueryIds
    <2>1. order \in Seq(QueryIds) /\ lists \in Seq(Seq(Posting))
      BY <1>1 DEF IInv, ListsInv, HasLists
    <2>2. Len(lists) + 1 \in 1..Len(order)
      BY <1>1, <2>1
    <2> QED BY <1>1, <2>1, <2>2, ElementOfSeq DEF Fetching
  <1>6. PICK base \in entries[NoToken].bases : TRUE
    BY <1>5 DEF QueryIds
  <1>7. base + 1 \in Terms /\ NewToArrived(query[base + 1])
    BY <1>6 DEF IInv, QueryInv, TokenIds
  <1>8. ~ orQuery => Hits(arrived) = {}
    BY <1>7 DEF Hits, Matches, MatchesAll, NewToArrived
  <1>9. ~ orQuery' => Hits(arrived)' = {}
    BY <1>1, <1>8, SameHits DEF tokenized, options
  <1> QED BY <1>1, <1>2, <1>3, <1>4, <1>9, QuietStep DEF Joining

LEMMA FetchEndsStep ==
    ASSUME IInv, FetchEnds
    PROVE  IInv'
  <1>1. /\ UNCHANGED <<options, database, arrived, tokenized, lists, results>>
        /\ pc = "fetch" /\ Len(lists) = Len(order)
        /\ at' = [k \in 1..Len(lists) |-> 1]
        /\ pc' = IF orQuery THEN "or" ELSE "round"
    BY DEF FetchEnds
  <1>2. IndexInv' /\ QueryInv'
    BY <1>1, SameIndex, SameQuery DEF IInv, tokenized
  <1>3. Found' = {}
    BY <1>1 DEF Found, IInv, ResultsInv
  <1>4. HasLists
    BY <1>1 DEF HasLists
  <1>5. ListsInv'
    <2>1. UNCHANGED <<query, next, entries, order, lists, arrived, corpus>>
      BY <1>1 DEF tokenized, database
    <2>2. QueryIds' = QueryIds
      BY <2>1 DEF QueryIds
    <2>3. ASSUME NEW k \in 1..Len(lists)
          PROVE  /\ order[k] \in Tokens
                 /\ TrueOf(lists[k], order[k])'
                 /\ Covers(lists[k], order[k], arrived)'
      <3>1. /\ order[k] \in Tokens
            /\ TrueOf(lists[k], order[k])
            /\ Covers(lists[k], order[k], arrived)
        BY <1>4 DEF IInv, ListsInv
      <3>2. TrueOf(lists[k], order[k])'
        BY <2>1, <3>1 DEF TrueOf
      <3>3. Covers(lists[k], order[k], arrived)'
        BY <2>1, <3>1 DEF Covers
      <3> QED BY <3>1, <3>2, <3>3
    <2> QED BY <1>1, <1>4, <2>1, <2>2, <2>3 DEF IInv, ListsInv
  <1>6. CASE orQuery
    BY <1>1, <1>2, <1>3, <1>5, <1>6, QuietStep DEF Joining, options
  <1>7. CASE ~ orQuery
    <2>1. pc' = "round" /\ ~ orQuery'
      BY <1>1, <1>7 DEF options
    <2>2. CursorsInv'
      BY <1>1, <2>1 DEF CursorsInv
    <2>3. ASSUME NEW doc \in Hits(arrived), NEW k \in 1..Len(lists)
          PROVE  \E i \in 1..Len(lists[k]) : lists[k][i].doc = doc
      <3>1. PICK base \in Bases(k) : TRUE
        BY <1>1, <1>4, ListsOfTerms DEF IInv
      <3>2. /\ base + 1 \in Terms /\ query[base + 1] = order[k]
            /\ Covers(lists[k], order[k], arrived)
        BY <1>1, <1>4, ListsOfTerms DEF IInv
      <3>3. doc \in 1..Len(arrived) /\ Occurs(query[base + 1], arrived[doc])
        BY <1>7, <3>2 DEF Hits, Matches, MatchesAll
      <3> QED BY <3>2, <3>3 DEF Covers
    <2>4. NoHitIsPassed'
      <3>1. Hits(arrived)' = Hits(arrived) /\ lists' = lists
        BY <1>1, SameHits DEF tokenized
      <3>2. \A k \in 1..Len(lists) : at'[k] = 1
        BY <1>1
      <3> QED BY <2>3, <3>1, <3>2 DEF NoHitIsPassed, Ahead
    <2>5. ResultsInv' /\ NothingIsMissed'
      BY <1>3, <2>1 DEF ResultsInv, NothingIsInvented, NothingIsMissed
    <2> QED BY <1>2, <1>5, <2>2, <2>4, <2>5 DEF IInv
  <1> QED BY <1>6, <1>7

-----------------------------------------------------------------------------
(***************************************************************************)
(* The steps after it, and the one that joins the lists of an OR query.    *)
(***************************************************************************)
LEMMA OrSearchStep ==
    ASSUME IInv, OrSearch
    PROVE  IInv'
  <1>1. /\ UNCHANGED <<options, database, arrived, tokenized, lists>>
        /\ pc = "or" /\ pc' = "done"
        /\ results' = [doc \in Collected |-> TermFrequencies]
    BY DEF OrSearch, InMemory
  <1>2. HasLists /\ pc # "fetch" /\ orQuery
    BY <1>1 DEF HasLists, IInv, ResultsInv
  <1>3. IndexInv' /\ QueryInv' /\ ListsInv'
    BY <1>1, <1>2, SameIndex, SameQuery, SameLists DEF IInv, tokenized, database
  <1>4. Found' = DocsIn(lists[1])
    BY <1>1 DEF Found, Collected
  <1>5. ASSUME NEW doc \in DocsIn(lists[1])
        PROVE  doc \in Hits(corpus)
    <2>1. 1 \in 1..Len(lists) /\ Terms # {}
      <3>1. Len(lists) \in Nat \ {0} /\ Terms # {}
        BY <1>2, TermsHaveLists DEF IInv
      <3> QED BY <3>1
    <2>2. PICK base \in Bases(1) : TRUE
      BY <1>2, <2>1, TermsHaveLists DEF IInv
    <2>3. base + 1 \in Terms /\ query[base + 1] = order[1] /\ TrueOf(lists[1], order[1])
      BY <1>2, <2>1, <2>2, TermsHaveLists DEF IInv
    <2>4. PICK i \in 1..Len(lists[1]) : lists[1][i].doc = doc
      BY <1>5 DEF DocsIn
    <2>5. doc \in 1..Len(corpus) /\ Occurs(query[base + 1], corpus[doc])
      BY <2>3, <2>4 DEF TrueOf
    <2> QED BY <1>2, <2>1, <2>3, <2>5 DEF Hits, Matches, MatchesAny
  <1>6. NothingIsInvented'
    <2>1. Hits(corpus) \subseteq Hits(corpus)'
      BY <1>1, HitsStay DEF IInv, IndexInv, tokenized, database
    <2> QED BY <1>4, <1>5, <2>1 DEF NothingIsInvented
  <1>7. orQuery'
    BY <1>1, <1>2 DEF options
  <1>8. ResultsInv' /\ NothingIsMissed' /\ CursorsInv' /\ NoHitIsPassed'
    BY <1>1, <1>6, <1>7
    DEF ResultsInv, NothingIsMissed, CursorsInv, NoHitIsPassed, Joining
  <1> QED BY <1>3, <1>8 DEF IInv

LEMMA ReplyStep ==
    ASSUME IInv, Reply
    PROVE  IInv'
  <1>1. UNCHANGED <<options, database, arrived, tokenized, cursors, results>>
        /\ pc = "done" /\ pc' = "idle"
    BY DEF Reply
  <1>2. IndexInv' /\ QueryInv'
    BY <1>1, SameIndex, SameQuery DEF IInv, tokenized
  <1>3. Found' = Found /\ UNCHANGED <<query, order, lists>>
    BY <1>1 DEF Found, tokenized, cursors
  <1>4. ListsInv'
    <2>1. CASE HasLists
      BY <1>1, <1>3, <2>1, SameLists DEF IInv, tokenized, database
    <2>2. CASE ~ HasLists
      BY <1>1, <1>3, <2>2 DEF ListsInv, HasLists, Joining
    <2> QED BY <2>1, <2>2
  <1>5. ResultsInv'
    BY <1>1, <1>3, SameResults DEF IInv
  <1>6. NothingIsMissed' /\ CursorsInv' /\ NoHitIsPassed'
    BY <1>1 DEF NothingIsMissed, CursorsInv, NoHitIsPassed, Joining
  <1> QED BY <1>2, <1>4, <1>5, <1>6 DEF IInv

LEMMA Stutter ==
    ASSUME IInv, UNCHANGED vars
    PROVE  IInv'
  <1>1. UNCHANGED <<options, database, arrived, tokenized, cursors, results, pc>>
    BY DEF vars
  <1>2. IndexInv' /\ QueryInv'
    BY <1>1, SameIndex, SameQuery DEF IInv, tokenized
  <1>3. Found' = Found /\ UNCHANGED <<query, order, lists, at, inner, docId, nextId>>
    BY <1>1 DEF Found, tokenized, cursors
  <1>4. ListsInv'
    BY <1>1, <1>3
    DEF IInv, ListsInv, HasLists, QueryIds, TrueOf, Covers, tokenized, database
  <1>5. ResultsInv'
    BY <1>1, <1>3, SameResults DEF IInv, ResultsInv
  <1>6. CursorsInv'
    BY <1>1, <1>3 DEF IInv, CursorsInv, Marked, StandsAt, AtEnd, Current, options
  <1>7. Hits(arrived)' = Hits(arrived)
    BY <1>1, SameHits DEF tokenized
  <1>8. NoHitIsPassed' /\ NothingIsMissed'
    BY <1>1, <1>3, <1>7 DEF IInv, NoHitIsPassed, NothingIsMissed, Ahead, options
  <1> QED BY <1>2, <1>4, <1>5, <1>6, <1>8 DEF IInv

-----------------------------------------------------------------------------
LEMMA InitIsQuiet ==
    ASSUME Init
    PROVE  IInv
  <1>1. /\ corpus = <<>> /\ arrived = <<>> /\ index = [token \in Tokens |-> <<>>]
        /\ query = <<>> /\ next = 1 /\ entries = NoEntries /\ results = NoResults
        /\ pc = "idle"
    BY DEF Init
  <1>2. IndexInv
    BY <1>1 DEF IndexInv, TrueOf, Covers, Ascending
  <1>3. QueryInv
    <2>1. entries \in [TokenIds -> [count : Nat, bases : SUBSET Nat]]
      BY <1>1 DEF NoEntries, NoEntry
    <2>2. \A id \in TokenIds : entries[id].bases = {}
      BY <1>1 DEF NoEntries, NoEntry
    <2>3. QueryIds = {} /\ Terms = {}
      BY <1>1, <2>2 DEF QueryIds, Terms
    <2> QED BY <1>1, <2>1, <2>2, <2>3, FS_EmptySet DEF QueryInv
  <1>4. Found = {}
    BY <1>1 DEF Found, NoResults
  <1> QED BY <1>1, <1>2, <1>3, <1>4
          DEF IInv, ListsInv, HasLists, CursorsInv, ResultsInv, NoHitIsPassed,
              NothingIsMissed, NothingIsInvented, Joining

LEMMA EveryStep ==
    ASSUME IInv, [Next]_vars
    PROVE  IInv'
  <1>1. ASSUME NEW body \in Bodies, Publish(body) PROVE IInv'
    BY <1>1, PublishStep
  <1>2. ASSUME NEW text \in Queries, Ask(text) PROVE IInv'
    BY <1>2, AskStep
  <1>3. ASSUME Join PROVE IInv'
    BY <1>3, BeginRoundStep, FirstExhaustedStep, SkipOtherStep, OtherExhaustedStep,
       OtherAgreesStep, OtherIsAheadStep, AllComparedStep, DocumentFoundStep,
       SkipBeginsStep, SkipFirstStep, SkipEndsStep
    DEF Join
  <1>4. ASSUME Searcher PROVE IInv'
    BY <1>3, <1>4, PartialMatchStep, SplitTokenStep, SplitEndsStep, FetchStep,
       FetchFindsNothingStep, FetchEndsStep, OrSearchStep, ReplyStep
    DEF Searcher
  <1>5. ASSUME UNCHANGED vars PROVE IInv'
    BY <1>5, Stutter
  <1> QED BY <1>1, <1>2, <1>4, <1>5 DEF Next, Indexer

(* IInv holds in every state: whatever is published between two steps of a
   query, what the search has split, fetched, skipped and found so far is what
   the properties below need.                                               *)
THEOREM Invariance == Spec => []IInv
  <1>1. Init => IInv
    BY InitIsQuiet
  <1>2. IInv /\ [Next]_vars => IInv'
    BY EveryStep
  <1> QED BY <1>1, <1>2, PTL DEF Spec

(***************************************************************************)
(* A document that was published before the query arrived, and matches it, *)
(* is found.                                                               *)
(***************************************************************************)
THEOREM NothingMissed == Spec => []NothingIsMissed
  <1>1. IInv => NothingIsMissed
    BY DEF IInv
  <1> QED BY <1>1, Invariance, PTL

(***************************************************************************)
(* A document that is found is published and matches the query.            *)
(***************************************************************************)
THEOREM NothingInvented == Spec => []NothingIsInvented
  <1>1. IInv => NothingIsInvented
    BY DEF IInv, ResultsInv
  <1> QED BY <1>1, Invariance, PTL

(***************************************************************************)
(* No cursor of the join walks past a hit that was not added.              *)
(***************************************************************************)
THEOREM NoHitPassed == Spec => []NoHitIsPassed
  <1>1. IInv => NoHitIsPassed
    BY DEF IInv
  <1> QED BY <1>1, Invariance, PTL

(***************************************************************************)
(* The score of a result is computed from its own postings.                *)
(***************************************************************************)
THEOREM OwnScores == Spec => []ScoresAreOwn
  <1>1. IInv => ScoresAreOwn
    BY DEF IInv, ResultsInv, ScoresAreOwn
  <1> QED BY <1>1, Invariance, PTL

-----------------------------------------------------------------------------
(***************************************************************************)
(* The ranking.  Products of n factors, and powers.                        *)
(***************************************************************************)
IsProduct(w, n, F) == w = [k \in 0..n |-> IF k = 0 THEN 1 ELSE w[k - 1] * F[k]]

LEMMA ProductSteps ==
    ASSUME NEW n \in Nat, NEW F \in [1..n -> Nat], NEW w, IsProduct(w, n, F)
    PROVE  /\ w[0] = 1
           /\ \A k \in 1..n : w[k] = w[k - 1] * F[k]
           /\ \A k \in 0..n : w[k] \in Nat
  <1>1. w[0] = 1 /\ \A k \in 1..n : w[k] = w[k - 1] * F[k]
    BY DEF IsProduct
  <1> DEFINE S == {k \in 0..n : w[k] \in Nat}
  <1>2. 0 \in S
    BY <1>1
  <1>3. ASSUME NEW k \in 1..n, k - 1 \in S PROVE k \in S
    <2>1. w[k] = w[k - 1] * F[k] /\ w[k - 1] \in Nat /\ F[k] \in Nat
      BY <1>1, <1>3
    <2> QED BY <2>1
  <1> HIDE DEF S
  <1>4. 0..n \subseteq S
    BY <1>2, <1>3, Induction
  <1> QED BY <1>1, <1>4 DEF S

LEMMA ProductExists ==
    ASSUME NEW n \in Nat, NEW F \in [1..n -> Nat]
    PROVE  \E w : IsProduct(w, n, F)
  <1> DEFINE G == [k \in Nat \ {0} |-> IF k \in 1..n THEN F[k] ELSE 0]
             step == [k \in Nat \ {0} |-> [x \in Nat |-> x * G[k]]]
  <1>1. \A k \in Nat \ {0} : G[k] \in Nat
    OBVIOUS
  <1>2. \A k \in 1..n : G[k] = F[k]
    OBVIOUS
  <1> HIDE DEF G
  <1>3. step \in [Nat \ {0} -> [Nat -> Nat]]
    BY <1>1
  <1>4. \A k \in Nat \ {0}, x \in Nat : step[k][x] = x * G[k]
    OBVIOUS
  <1> HIDE DEF step
  <1>5. PICK f \in [0..n -> Nat] : Recursive(f, n, 1, step)
    BY <1>3, RecursionUpTo
  <1>6. ASSUME NEW k \in 1..n PROVE f[k] = f[k - 1] * F[k]
    <2>1. k - 1 \in 0..n /\ k \in Nat \ {0}
      OBVIOUS
    <2>2. f[k] = step[k][f[k - 1]] /\ f[k - 1] \in Nat
      BY <1>5, <2>1 DEF Recursive
    <2> QED BY <1>2, <1>4, <2>1, <2>2
  <1>7. f[0] = 1 /\ f = [k \in 0..n |-> f[k]]
    BY <1>5 DEF Recursive
  <1>8. \A k \in 0..n : f[k] = IF k = 0 THEN 1 ELSE f[k - 1] * F[k]
    <2> TAKE k \in 0..n
    <2>1. k = 0 \/ k \in 1..n
      OBVIOUS
    <2>2. CASE k = 0
      BY <1>7, <2>2
    <2>3. CASE k \in 1..n
      BY <1>6, <2>3
    <2> QED BY <2>1, <2>2, <2>3
  <1>9. IsProduct(f, n, F)
    BY <1>7, <1>8 DEF IsProduct
  <1> QED BY <1>9

BeginsAs(F, G, n, m) ==
    /\ n \in Nat /\ m \in 0..n /\ F \in [1..n -> Nat] /\ G \in [1..m -> Nat]
    /\ \A k \in 1..m : F[k] = G[k]

LEMMA ProductsAgree ==
    ASSUME NEW n, NEW F, NEW w, IsProduct(w, n, F), NEW m, NEW G, NEW v, IsProduct(v, m, G),
           BeginsAs(F, G, n, m)
    PROVE  w[m] = v[m]
  <1>0. /\ n \in Nat /\ m \in Nat /\ m <= n
        /\ F \in [1..n -> Nat] /\ G \in [1..m -> Nat]
    BY DEF BeginsAs
  <1>1. w[0] = 1 /\ \A k \in 1..n : w[k] = w[k - 1] * F[k]
    BY <1>0, ProductSteps
  <1>2. v[0] = 1 /\ \A k \in 1..m : v[k] = v[k - 1] * G[k]
    BY <1>0, ProductSteps
  <1>3. ASSUME NEW k \in 1..m, w[k - 1] = v[k - 1] PROVE w[k] = v[k]
    <2>1. k \in 1..n
      BY <1>0
    <2>2. w[k] = w[k - 1] * F[k] /\ v[k] = v[k - 1] * G[k] /\ F[k] = G[k]
      BY <1>1, <1>2, <2>1 DEF BeginsAs
    <2> QED BY <1>3, <2>2
  <1>4. w[0] = v[0]
    BY <1>1, <1>2
  <1>5. GoAlike(w, v, m)
    BY <1>3, <1>4 DEF GoAlike
  <1> QED BY <1>0, <1>5, EndAlike

LEMMA PowerIs ==
    ASSUME NEW n \in Nat, NEW e \in Nat
    PROVE  \E w : IsProduct(w, e, [k \in 1..e |-> n]) /\ ToThe(n, e) = w[e]
  <1> DEFINE F == [k \in 1..e |-> n]
             IsPower(p) == p = [i \in 0..e |-> IF i = 0 THEN 1 ELSE p[i - 1] * n]
             q == CHOOSE p : IsPower(p)
  <1>1. F \in [1..e -> Nat] /\ \A k \in 1..e : F[k] = n
    OBVIOUS
  <1>2. ToThe(n, e) = q[e]
    BY DEF ToThe
  <1> HIDE DEF F, q
  <1>3. PICK p : IsProduct(p, e, F)
    BY <1>1, ProductExists
  <1>4. IsPower(p)
    <2>1. \A i \in 0..e : (IF i = 0 THEN 1 ELSE p[i - 1] * F[i])
                              = IF i = 0 THEN 1 ELSE p[i - 1] * n
      BY <1>1
    <2> QED BY <1>3, <2>1 DEF IsProduct
  <1>5. IsPower(q)
    BY <1>4 DEF q
  <1>6. IsProduct(q, e, F)
    <2>1. \A i \in 0..e : (IF i = 0 THEN 1 ELSE q[i - 1] * F[i])
                              = IF i = 0 THEN 1 ELSE q[i - 1] * n
      BY <1>1
    <2> QED BY <1>5, <2>1 DEF IsProduct
  <1> QED BY <1>2, <1>6 DEF F

LEMMA PowerSteps ==
    ASSUME NEW n \in Nat
    PROVE  /\ ToThe(n, 0) = 1
           /\ \A e \in Nat : ToThe(n, e) \in Nat /\ ToThe(n, e + 1) = ToThe(n, e) * n
  <1>1. ASSUME NEW e \in Nat PROVE ToThe(n, e) \in Nat /\ (e = 0 => ToThe(n, e) = 1)
    <2> DEFINE F == [k \in 1..e |-> n]
    <2>1. F \in [1..e -> Nat]
      OBVIOUS
    <2>2. PICK w : IsProduct(w, e, F) /\ ToThe(n, e) = w[e]
      BY PowerIs
    <2> HIDE DEF F
    <2> QED BY <2>1, <2>2, ProductSteps
  <1>2. ASSUME NEW e \in Nat PROVE ToThe(n, e + 1) = ToThe(n, e) * n
    <2> DEFINE F == [k \in 1..e |-> n]
               z == e + 1
               G == [k \in 1..z |-> n]
    <2>1. /\ F \in [1..e -> Nat] /\ G \in [1..z -> Nat] /\ z \in Nat
          /\ \A k \in 1..e : G[k] = F[k]
          /\ G[z] = n /\ e \in 0..z /\ z \in 1..z /\ z - 1 = e
      OBVIOUS
    <2>2. PICK v : IsProduct(v, e, F) /\ ToThe(n, e) = v[e]
      BY PowerIs
    <2> HIDE DEF z
    <2>3. PICK w : IsProduct(w, z, G) /\ ToThe(n, z) = w[z]
      BY <2>1, PowerIs
    <2> HIDE DEF F, G
    <2>4. w[e] = v[e]
      <3>1. IsProduct(w, z, G) /\ IsProduct(v, e, F) /\ BeginsAs(G, F, z, e)
        BY <2>1, <2>2, <2>3 DEF BeginsAs
      <3> QED BY <3>1, ProductsAgree
    <2>5. w[z] = w[z - 1] * G[z]
      BY <2>1, <2>3, ProductSteps
    <2>6. ToThe(n, z) = ToThe(n, e) * n
      BY <2>1, <2>2, <2>3, <2>4, <2>5
    <2> QED BY <2>6 DEF z
  <1> QED BY <1>1, <1>2

LEMMA PowerIsPositive ==
    ASSUME NEW n \in Nat \ {0} PROVE \A e \in Nat : ToThe(n, e) \in Nat \ {0}
  <1> DEFINE S == {e \in Nat : ToThe(n, e) \in Nat \ {0}}
  <1>1. 0 \in S
    BY PowerSteps
  <1>2. ASSUME NEW e \in Nat \ {0}, e - 1 \in S PROVE e \in S
    <2>1. e - 1 \in Nat /\ (e - 1) + 1 = e
      OBVIOUS
    <2>2. ToThe(n, e) = ToThe(n, e - 1) * n /\ ToThe(n, e - 1) \in Nat \ {0}
      BY <1>2, <2>1, PowerSteps
    <2>3. \A x, y \in Nat \ {0} : x * y \in Nat \ {0}
      OBVIOUS
    <2> QED BY <2>2, <2>3
  <1> HIDE DEF S
  <1>3. Nat \subseteq S
    BY <1>1, <1>2, InductionOverAll
  <1> QED BY <1>3 DEF S

LEMMA LargerProduct ==
    ASSUME NEW a \in Nat, NEW b \in Nat, NEW x \in Nat, NEW y \in Nat, a > b, x >= y, x > 0
    PROVE  a * x > b * y
  <1>1. b * x >= b * y
    <2>1. PICK d \in Nat : x = y + d
      <3>1. x - y \in Nat /\ x = y + (x - y)
        OBVIOUS
      <3> QED BY <3>1
    <2>2. b * x = b * y + b * d /\ b * d \in Nat /\ b * y \in Nat
      BY <2>1
    <2> QED BY <2>2
  <1>2. a * x > b * x
    <2>1. PICK d \in Nat \ {0} : a = b + d
      <3>1. a - b \in Nat \ {0} /\ a = b + (a - b)
        OBVIOUS
      <3> QED BY <3>1
    <2>2. a * x = b * x + d * x /\ d * x \in Nat \ {0} /\ b * x \in Nat
      BY <2>1
    <2> QED BY <2>2
  <1>3. a * x \in Nat /\ b * x \in Nat /\ b * y \in Nat
    OBVIOUS
  <1> QED BY <1>1, <1>2, <1>3

\* The part of one token in the two weights that are compared.
LEMMA MoreOftenWeighsMore ==
    ASSUME NEW n \in Nat, NEW c \in Nat \ {0}, n > c, NEW a \in Nat, NEW b \in Nat, a >= b
    PROVE  LET x == ToThe(n, a) * ToThe(c, b)
               y == ToThe(n, b) * ToThe(c, a)
           IN  x \in Nat \ {0} /\ y \in Nat \ {0} /\ x >= y /\ (a > b => x > y)
  <1> DEFINE X(d) == ToThe(n, b + d) * ToThe(c, b)
             Y(d) == ToThe(n, b) * ToThe(c, b + d)
             S == {d \in Nat : X(d) \in Nat \ {0} /\ Y(d) \in Nat \ {0}
                               /\ X(d) >= Y(d) /\ (d > 0 => X(d) > Y(d))}
  <1>0. n \in Nat \ {0}
    OBVIOUS
  <1>1. ASSUME NEW d \in Nat PROVE X(d) \in Nat \ {0} /\ Y(d) \in Nat \ {0}
    <2>1. /\ ToThe(n, b + d) \in Nat \ {0} /\ ToThe(c, b) \in Nat \ {0}
          /\ ToThe(n, b) \in Nat \ {0} /\ ToThe(c, b + d) \in Nat \ {0}
      BY <1>0, PowerIsPositive
    <2>2. \A x, y \in Nat \ {0} : x * y \in Nat \ {0}
      OBVIOUS
    <2> QED BY <2>1, <2>2
  <1>2. 0 \in S
    <2>1. b + 0 = b
      OBVIOUS
    <2>2. X(0) = Y(0)
      BY <2>1
    <2>3. X(0) \in Nat /\ Y(0) \in Nat
      BY <1>1
    <2> HIDE DEF X, Y
    <2> QED BY <1>1, <2>2, <2>3
  <1>3. ASSUME NEW d \in Nat \ {0}, d - 1 \in S PROVE d \in S
    <2>1. d - 1 \in Nat /\ (b + (d - 1)) + 1 = b + d /\ b + (d - 1) \in Nat
      OBVIOUS
    <2>2. /\ ToThe(n, b + d) = ToThe(n, b + (d - 1)) * n
          /\ ToThe(c, b + d) = ToThe(c, b + (d - 1)) * c
      BY <2>1, PowerSteps
    <2>3. /\ ToThe(n, b + (d - 1)) \in Nat /\ ToThe(c, b + (d - 1)) \in Nat
          /\ ToThe(n, b) \in Nat /\ ToThe(c, b) \in Nat
      BY <2>1, PowerSteps
    <2>4. \A x, y, z \in Nat : (x * y) * z = y * (x * z)
      OBVIOUS
    <2>5. \A x, y, z \in Nat : x * (y * z) = z * (x * y)
      OBVIOUS
    <2>6. X(d) = n * X(d - 1)
      BY <2>2, <2>3, <2>4
    <2>7. Y(d) = c * Y(d - 1)
      BY <2>2, <2>3, <2>5
    <2>8. X(d - 1) \in Nat \ {0} /\ Y(d - 1) \in Nat \ {0} /\ X(d - 1) >= Y(d - 1)
      BY <1>3
    <2>9. X(d) \in Nat \ {0} /\ Y(d) \in Nat \ {0}
      BY <1>1
    <2> HIDE DEF X, Y
    <2>10. X(d) > Y(d)
      BY <2>6, <2>7, <2>8, LargerProduct
    <2> QED BY <2>9, <2>10
  <1> HIDE DEF S
  <1>4. a - b \in S
    <2>1. Nat \subseteq S
      BY <1>2, <1>3, InductionOverAll
    <2> QED BY <2>1
  <1>5. b + (a - b) = a /\ (a > b => a - b > 0)
    OBVIOUS
  <1> QED BY <1>4, <1>5 DEF S

LEMMA LargerProducts ==
    ASSUME NEW a \in Nat, NEW b \in Nat \ {0}, NEW x \in Nat, NEW y \in Nat \ {0},
           a >= b, x >= y
    PROVE  /\ b * y > 0 /\ a * x >= b * y
           /\ a > b \/ x > y => a * x > b * y
  <1>1. a * x \in Nat /\ b * y \in Nat \ {0}
    OBVIOUS
  <1>2. a > b => a * x > b * y
    BY LargerProduct
  <1>3. x > y => a * x > b * y
    <2>1. x > y => x * a > y * b
      BY LargerProduct
    <2>2. x * a = a * x /\ y * b = b * y
      OBVIOUS
    <2> QED BY <2>1, <2>2
  <1>4. a = b /\ x = y => a * x = b * y
    OBVIOUS
  <1> QED BY <1>1, <1>2, <1>3, <1>4

Dominates(F, G, n) ==
    /\ F \in [1..n -> Nat \ {0}] /\ G \in [1..n -> Nat \ {0}]
    /\ \A k \in 1..n : F[k] >= G[k]
    /\ \E k \in 1..n : F[k] > G[k]

LEMMA ProductsCompare ==
    ASSUME NEW n \in Nat, NEW F, NEW G, Dominates(F, G, n),
           NEW w, IsProduct(w, n, F), NEW v, IsProduct(v, n, G)
    PROVE  w[n] \in Nat /\ v[n] \in Nat /\ w[n] > v[n]
  <1>0. F \in [1..n -> Nat] /\ G \in [1..n -> Nat]
    BY DEF Dominates
  <1>1. /\ w[0] = 1 /\ \A k \in 1..n : w[k] = w[k - 1] * F[k]
        /\ \A k \in 0..n : w[k] \in Nat
    BY <1>0, ProductSteps
  <1>2. /\ v[0] = 1 /\ \A k \in 1..n : v[k] = v[k - 1] * G[k]
        /\ \A k \in 0..n : v[k] \in Nat
    BY <1>0, ProductSteps
  <1> DEFINE Ahead1(k) == \E j \in 1..k : F[j] > G[j]
             S == {k \in 0..n : v[k] > 0 /\ w[k] >= v[k] /\ (Ahead1(k) => w[k] > v[k])}
  <1>3. 0 \in S
    BY <1>1, <1>2
  <1>4. ASSUME NEW k \in 1..n, k - 1 \in S PROVE k \in S
    <2>1. k - 1 \in 0..n /\ k \in 0..n
      OBVIOUS
    <2>2. /\ w[k] = w[k - 1] * F[k] /\ v[k] = v[k - 1] * G[k]
          /\ w[k - 1] \in Nat /\ v[k - 1] \in Nat
          /\ F[k] \in Nat \ {0} /\ G[k] \in Nat \ {0} /\ F[k] >= G[k]
      BY <1>1, <1>2, <2>1 DEF Dominates
    <2>3. v[k - 1] > 0 /\ w[k - 1] >= v[k - 1] /\ (Ahead1(k - 1) => w[k - 1] > v[k - 1])
      BY <1>4
    <2>4. Ahead1(k) => Ahead1(k - 1) \/ F[k] > G[k]
      <3>1. \A j \in 1..k : j = k \/ j \in 1..(k - 1)
        OBVIOUS
      <3> QED BY <3>1
    <2> HIDE DEF Ahead1
    <2> DEFINE a == w[k - 1]
               b == v[k - 1]
               x == F[k]
               y == G[k]
    <2>5. /\ a \in Nat /\ b \in Nat \ {0} /\ x \in Nat /\ y \in Nat \ {0}
          /\ a >= b /\ x >= y
      BY <2>2, <2>3
    <2>6. w[k] = a * x /\ v[k] = b * y
      BY <2>2
    <2>7. Ahead1(k) => a > b \/ x > y
      BY <2>3, <2>4
    <2> HIDE DEF a, b, x, y
    <2>8. b * y > 0 /\ a * x >= b * y /\ (a > b \/ x > y => a * x > b * y)
      BY <2>5, LargerProducts
    <2> QED BY <2>1, <2>6, <2>7, <2>8
  <1>5. Ahead1(n) /\ n \in 0..n
    BY DEF Dominates
  <1> HIDE DEF S, Ahead1
  <1>6. 0..n \subseteq S
    BY <1>3, <1>4, Induction
  <1> QED BY <1>1, <1>2, <1>5, <1>6 DEF S

Factors(n, tf, others, m) ==
    [k \in 1..m |-> ToThe(n, tf[k]) * ToThe(entries[order[k]].count, others[k])]

LEMMA WeightIs ==
    ASSUME NEW n \in Nat, NEW m \in Nat,
           NEW tf \in [1..m -> Nat], NEW others \in [1..m -> Nat],
           \A k \in 1..m : entries[order[k]].count \in Nat
    PROVE  \E w : /\ IsProduct(w, m, Factors(n, tf, others, m))
                  /\ Weight(n, tf, others) = w[m]
  <1> DEFINE F == Factors(n, tf, others, m)
             Part(k) == ToThe(n, tf[k]) * ToThe(entries[order[k]].count, others[k])
             IsWeight(w) == w = [k \in 0..m |-> IF k = 0 THEN 1 ELSE w[k - 1] * Part(k)]
             q == CHOOSE w : IsWeight(w)
  <1>1. ASSUME NEW k \in 1..m PROVE F[k] = Part(k) /\ Part(k) \in Nat
    <2>1. F[k] = Part(k)
      BY DEF Factors
    <2>2. ToThe(n, tf[k]) \in Nat /\ ToThe(entries[order[k]].count, others[k]) \in Nat
      BY PowerSteps
    <2>3. \A x, y \in Nat : x * y \in Nat
      OBVIOUS
    <2> QED BY <2>1, <2>2, <2>3
  <1>2. Len(tf) = m
    BY FunctionIsSeq
  <1>3. Weight(n, tf, others) = q[m]
    BY <1>2 DEF Weight
  <1>4. F = [k \in 1..m |-> F[k]]
    BY DEF Factors
  <1> HIDE DEF F, q, Part
  <1>5. F \in [1..m -> Nat]
    BY <1>1, <1>4
  <1>6. PICK p : IsProduct(p, m, F)
    BY <1>5, ProductExists
  <1>7. ASSUME NEW w
        PROVE  IsWeight(w) <=> IsProduct(w, m, F)
    <2>1. \A k \in 0..m : (IF k = 0 THEN 1 ELSE w[k - 1] * F[k])
                              = IF k = 0 THEN 1 ELSE w[k - 1] * Part(k)
      BY <1>1
    <2> QED BY <2>1 DEF IsProduct
  <1>8. IsWeight(q)
    BY <1>6, <1>7 DEF q
  <1> QED BY <1>3, <1>7, <1>8 DEF F

Exceeds(tf, others, m) ==
    /\ tf \in [1..m -> Nat] /\ others \in [1..m -> Nat]
    /\ \A k \in 1..m : tf[k] >= others[k]
    /\ tf # others

\* If fewer documents contain each token than are counted, what occurs more
\* often has the higher score.
LEMMA ExceedingIsHigher ==
    ASSUME NEW n \in Nat, NEW m \in Nat, NEW tf, NEW others, Exceeds(tf, others, m),
           \A k \in 1..m : entries[order[k]].count \in Nat \ {0}
                           /\ entries[order[k]].count < n
    PROVE  /\ Weight(n, tf, others) \in Nat /\ Weight(n, others, tf) \in Nat
           /\ Weight(n, tf, others) > Weight(n, others, tf)
  <1> DEFINE F == Factors(n, tf, others, m)
             G == Factors(n, others, tf, m)
  <1>0. tf \in [1..m -> Nat] /\ others \in [1..m -> Nat]
    BY DEF Exceeds
  <1>1. PICK w : IsProduct(w, m, F) /\ Weight(n, tf, others) = w[m]
    BY <1>0, WeightIs
  <1>2. PICK v : IsProduct(v, m, G) /\ Weight(n, others, tf) = v[m]
    BY <1>0, WeightIs
  <1>3. ASSUME NEW k \in 1..m
        PROVE  /\ F[k] \in Nat \ {0} /\ G[k] \in Nat \ {0} /\ F[k] >= G[k]
               /\ tf[k] > others[k] => F[k] > G[k]
    <2> DEFINE c == entries[order[k]].count
               a == tf[k]
               b == others[k]
    <2>1. c \in Nat \ {0} /\ n > c
      <3>1. c \in Nat \ {0} /\ c < n
        OBVIOUS
      <3> QED BY <3>1
    <2>2. a \in Nat /\ b \in Nat /\ a >= b
      BY DEF Exceeds
    <2>3. F[k] = ToThe(n, a) * ToThe(c, b) /\ G[k] = ToThe(n, b) * ToThe(c, a)
      BY DEF Factors
    <2> HIDE DEF a, b, c, F, G
    <2>4. LET x == ToThe(n, a) * ToThe(c, b)
              y == ToThe(n, b) * ToThe(c, a)
          IN  x \in Nat \ {0} /\ y \in Nat \ {0} /\ x >= y /\ (a > b => x > y)
      BY <2>1, <2>2, MoreOftenWeighsMore
    <2>5. /\ F[k] \in Nat \ {0} /\ G[k] \in Nat \ {0} /\ F[k] >= G[k]
          /\ a > b => F[k] > G[k]
      BY <2>3, <2>4
    <2> QED BY <2>5 DEF a, b
  <1>4. PICK k \in 1..m : tf[k] > others[k]
    <2>1. PICK k \in 1..m : tf[k] # others[k]
      BY DEF Exceeds
    <2>2. tf[k] >= others[k] /\ tf[k] \in Nat /\ others[k] \in Nat
      BY DEF Exceeds
    <2> QED BY <2>1, <2>2
  <1>5. F = [i \in 1..m |-> F[i]] /\ G = [i \in 1..m |-> G[i]]
    BY DEF Factors
  <1> HIDE DEF F, G
  <1>6. F \in [1..m -> Nat \ {0}] /\ G \in [1..m -> Nat \ {0}]
    BY <1>3, <1>5
  <1>7. Dominates(F, G, m)
    BY <1>3, <1>4, <1>6 DEF Dominates
  <1> QED BY <1>1, <1>2, <1>7, ProductsCompare

-----------------------------------------------------------------------------
(***************************************************************************)
(* What the scores are computed from while a query is answered.            *)
(***************************************************************************)
RankInv ==
    /\ \A id \in Tokens :
           entries[id].bases # {} => entries[id].count # 0 /\ index[id] # <<>>
    /\ \A k \in 1..Len(lists) : lists[k] # <<>>
    /\ pc = "or" => at = [k \in 1..Len(lists) |-> 1]
    /\ \A doc \in Found : results[doc] \in [1..Len(lists) -> Nat]
    /\ MoreOftenIsFirst

\* What RankInv speaks of stays, unless a query begins or ends.
Quiet ==
    /\ UNCHANGED <<options, tokenized, lists, results, printed>>
    /\ pc' \in {"idle", "or"} => pc' = pc /\ at' = at

LEMMA QuietRanks ==
    ASSUME RankInv, Quiet, UNCHANGED index
    PROVE  RankInv'
  <1>1. UNCHANGED <<entries, order, index, lists, results, printed>>
    BY DEF Quiet, tokenized
  <1>2. Found' = Found
    BY <1>1 DEF Found
  <1>3. MoreOftenIsFirst'
    BY <1>1, <1>2
    DEF RankInv, Quiet, MoreOftenIsFirst, CountIsAhead, AsOften, PrintedBefore
  <1> QED BY <1>1, <1>2, <1>3 DEF RankInv, Quiet

LEMMA QuietSteps ==
    ASSUME IInv
    PROVE  /\ PartialMatch \/ FetchFindsNothing \/ UNCHANGED vars
                  => Quiet /\ UNCHANGED index
           /\ BeginRound \/ FirstExhausted \/ SkipOther \/ OtherExhausted \/ OtherAgrees
                  \/ OtherIsAhead \/ AllCompared \/ SkipBegins \/ SkipFirst \/ SkipEnds
                  => Quiet /\ UNCHANGED index
  <1>1. PartialMatch => Quiet /\ UNCHANGED index
    BY DEF PartialMatch, Quiet, cursors, database
  <1>2. FetchFindsNothing => Quiet /\ UNCHANGED index
    BY DEF FetchFindsNothing, Quiet, cursors, database
  <1>3. UNCHANGED vars => Quiet /\ UNCHANGED index
    BY DEF vars, Quiet, cursors, database
  <1>4. BeginRound \/ FirstExhausted => Quiet /\ UNCHANGED index
    BY DEF BeginRound, FirstExhausted, Quiet, InMemory, database
  <1>5. SkipOther \/ OtherExhausted \/ OtherAgrees => Quiet /\ UNCHANGED index
    BY DEF SkipOther, OtherExhausted, OtherAgrees, Comparing, Quiet, InMemory, database
  <1>6. OtherIsAhead \/ AllCompared => Quiet /\ UNCHANGED index
    BY DEF OtherIsAhead, AllCompared, Comparing, Quiet, InMemory, database
  <1>7. SkipBegins \/ SkipFirst \/ SkipEnds => Quiet /\ UNCHANGED index
    BY DEF SkipBegins, SkipFirst, SkipEnds, Quiet, InMemory, database
  <1> QED BY <1>1, <1>2, <1>3, <1>4, <1>5, <1>6, <1>7

LEMMA AppendIsFilled ==
    ASSUME NEW S, NEW list \in Seq(S), NEW x
    PROVE  Append(list, x) # <<>>
  <1>1. Len(list) \in Nat /\ Append(list, x)[Len(list) + 1] = x
    OBVIOUS
  <1>2. Len(Append(list, x)) = Len(list) + 1
    OBVIOUS
  <1>3. Len(<<>>) = 0
    OBVIOUS
  <1> QED BY <1>1, <1>2, <1>3

LEMMA PublishRanks ==
    ASSUME IInv, RankInv, NEW body \in Bodies, Publish(body)
    PROVE  RankInv'
  <1>1. Quiet
    BY DEF Publish, Quiet, cursors
  <1>2. UNCHANGED <<entries, order, lists, results, printed>>
    BY <1>1 DEF Quiet, tokenized
  <1>3. Found' = Found
    BY <1>2 DEF Found
  <1>4. ASSUME NEW id \in Tokens, index[id] # <<>> PROVE index'[id] # <<>>
    <2> DEFINE posted == [doc |-> Len(corpus) + 1, pos |-> Positions(body, id)]
    <2>1. index'[id] = IF Occurs(id, body) THEN Append(index[id], posted) ELSE index[id]
      BY DEF Publish
    <2>2. index[id] \in Seq(Posting)
      BY DEF IInv, IndexInv
    <2> HIDE DEF posted
    <2>3. Append(index[id], posted) # <<>>
      BY <2>2, AppendIsFilled
    <2> QED BY <1>4, <2>1, <2>3
  <1>5. MoreOftenIsFirst'
    BY <1>1, <1>2, <1>3
    DEF RankInv, Quiet, MoreOftenIsFirst, CountIsAhead, AsOften, PrintedBefore
  <1> QED BY <1>1, <1>2, <1>3, <1>4, <1>5 DEF RankInv, Quiet

LEMMA AskRanks ==
    ASSUME RankInv, NEW text \in Queries, Ask(text)
    PROVE  RankInv'
  <1>1. entries' = NoEntries /\ results' = NoResults /\ pc' = "split" /\ lists' = lists
    BY DEF Ask, cursors
  <1>2. \A id \in Tokens : entries'[id].bases = {}
    BY <1>1 DEF NoEntries, NoEntry, TokenIds
  <1>3. Found' = {}
    BY <1>1 DEF Found, NoResults
  <1> QED BY <1>1, <1>2, <1>3 DEF RankInv, MoreOftenIsFirst

\* A token is entered under its number only if a document contains it.
LEMMA SplitTokenRanks ==
    ASSUME IInv, RankInv, SplitToken
    PROVE  RankInv'
  <1>1. /\ UNCHANGED <<index, lists, results>> /\ pc' = "split"
        /\ next <= Len(query)
        /\ entries' = IF query[next] \in ShortTokens
                      THEN entries
                      ELSE Entered(TokenId(query[next]), next)
    BY DEF SplitToken, database, cursors
  <1>2. Found' = Found
    BY <1>1 DEF Found
  <1>3. query[next] \in Tokens
    <2>1. next \in 1..Len(query) /\ query \in Seq(Tokens)
      BY <1>1 DEF IInv, QueryInv
    <2> QED BY <2>1, ElementOfSeq
  <1>4. ASSUME NEW id \in Tokens, entries'[id].bases # {}
        PROVE  entries'[id].count # 0 /\ index[id] # <<>>
    <2>1. CASE entries'[id] = entries[id]
      BY <1>4, <2>1 DEF RankInv
    <2>2. CASE entries'[id] # entries[id]
      <3>1. entries \in [TokenIds -> [count : Nat, bases : SUBSET Nat]]
        BY DEF IInv, QueryInv
      <3>2. id = TokenId(query[next]) /\ id \in TokenIds
        BY <1>1, <2>2, <3>1 DEF Entered, TokenIds
      <3>3. index[id] # <<>> /\ id # NoToken
        BY <3>2, TokensAssumption DEF TokenId
      <3>4. index[id] \in Seq(Posting) /\ Len(index[id]) # 0
        BY <3>3 DEF IInv, IndexInv
      <3>5. entries' = Entered(id, next)
        BY <1>1, <2>2, <3>2
      <3>6. entries'[id].count = IF entries[id].bases = {}
                                 THEN DocsCount(id) ELSE entries[id].count
        BY <3>1, <3>2, <3>5 DEF Entered
      <3>7. DocsCount(id) = Len(index[id])
        BY <3>3 DEF DocsCount
      <3> QED BY <3>3, <3>4, <3>6, <3>7 DEF RankInv
    <2> QED BY <2>1, <2>2
  <1>5. MoreOftenIsFirst'
    BY <1>1 DEF MoreOftenIsFirst
  <1> QED BY <1>1, <1>2, <1>4, <1>5 DEF RankInv

LEMMA SplitEndsRanks ==
    ASSUME IInv, RankInv, SplitEnds
    PROVE  RankInv'
  <1>1. /\ UNCHANGED <<index, entries, results>> /\ pc = "split" /\ lists' = <<>>
        /\ pc' \in {"done", "fetch"}
    BY DEF SplitEnds, database
  <1>2. Found' = {}
    BY <1>1 DEF Found, IInv, ResultsInv
  <1> QED BY <1>1, <1>2 DEF RankInv, MoreOftenIsFirst

LEMMA FetchRanks ==
    ASSUME IInv, RankInv, Fetch
    PROVE  RankInv'
  <1>1. /\ UNCHANGED <<index, entries, results>> /\ pc = "fetch" /\ pc' = "fetch"
        /\ Len(lists) < Len(order) /\ Fetching # NoToken
        /\ lists' = Append(lists, index[Fetching])
    BY DEF Fetch, database, tokenized
  <1>2. Found' = {}
    BY <1>1 DEF Found, IInv, ResultsInv
  <1>3. order \in Seq(QueryIds) /\ lists \in Seq(Seq(Posting))
    BY <1>1 DEF IInv, ListsInv, HasLists
  <1>4. Fetching \in QueryIds
    <2>1. Len(lists) + 1 \in 1..Len(order)
      BY <1>1, <1>3
    <2> QED BY <1>3, <2>1, ElementOfSeq DEF Fetching
  <1>5. index[Fetching] # <<>>
    BY <1>1, <1>4 DEF QueryIds, TokenIds, RankInv
  <1>6. ASSUME NEW k \in 1..Len(lists') PROVE lists'[k] # <<>>
    <2>1. Fetching \in Tokens
      BY <1>1, <1>4 DEF QueryIds, TokenIds
    <2>2. index[Fetching] \in Seq(Posting)
      BY <2>1 DEF IInv, IndexInv
    <2> DEFINE x == index[Fetching]
    <2> HIDE DEF x
    <2>3. /\ Len(Append(lists, x)) = Len(lists) + 1
          /\ Append(lists, x)[Len(lists) + 1] = x
          /\ \A i \in 1..Len(lists) : Append(lists, x)[i] = lists[i]
      BY <1>3
    <2>4. k = Len(lists) + 1 \/ k \in 1..Len(lists)
      BY <1>1, <1>3, <2>3 DEF x
    <2> QED BY <1>1, <1>5, <2>3, <2>4 DEF x, RankInv
  <1> QED BY <1>1, <1>2, <1>6 DEF RankInv, MoreOftenIsFirst

LEMMA FetchEndsRanks ==
    ASSUME IInv, RankInv, FetchEnds
    PROVE  RankInv'
  <1>1. /\ UNCHANGED <<index, entries, lists, results>>
        /\ pc' \in {"or", "round"}
        /\ at' = [k \in 1..Len(lists) |-> 1]
    BY DEF FetchEnds, database, tokenized
  <1>2. Found' = Found
    BY <1>1 DEF Found
  <1> QED BY <1>1, <1>2 DEF RankInv, MoreOftenIsFirst

LEMMA PositionsAreFinite ==
    ASSUME NEW body, Len(body) \in Nat, NEW token
    PROVE  Cardinality(Positions(body, token)) \in Nat
  <1>1. Positions(body, token) \in SUBSET (0..Len(body))
    BY DEF Positions
  <1>2. IsFiniteSet(0..Len(body))
    BY FS_Interval
  <1>3. IsFiniteSet(Positions(body, token))
    BY <1>1, <1>2, FS_Subset
  <1> QED BY <1>3, FS_CardinalityType

\* Without an OR query the scores are computed from the documents' own postings.
LEMMA OwnAreNumbers ==
    ASSUME IInv, ~ orQuery
    PROVE  \A doc \in Found : results[doc] \in [1..Len(lists) -> Nat]
  <1> TAKE doc \in Found
  <1>1. doc \in 1..Len(corpus) /\ corpus \in Seq(Seq(Tokens))
    BY DEF IInv, IndexInv, ResultsInv, NothingIsInvented, Hits
  <1>2. Len(corpus[doc]) \in Nat
    BY <1>1, ElementOfSeq
  <1>3. results[doc] = OwnFrequencies(doc)
    BY DEF IInv, ResultsInv
  <1>4. \A k \in 1..Len(lists) : Cardinality(Positions(corpus[doc], order[k])) \in Nat
    BY <1>2, PositionsAreFinite
  <1> QED BY <1>3, <1>4 DEF OwnFrequencies

LEMMA DocumentFoundRanks ==
    ASSUME IInv, IInv', RankInv, DocumentFound
    PROVE  RankInv'
  <1>1. UNCHANGED <<options, index, entries, lists>> /\ pc = "decide" /\ pc' = "round"
    BY DEF DocumentFound, InMemory, database, tokenized
  <1>2. ~ orQuery
    BY <1>1 DEF IInv, CursorsInv, Joining
  <1>3. ~ orQuery'
    BY <1>1, <1>2 DEF options
  <1>4. IInv' => (~ orQuery' => (\A doc \in Found : results[doc] \in [1..Len(lists) -> Nat])')
    BY OwnAreNumbers, PTL
  <1>5. \A doc \in Found' : results'[doc] \in [1..Len(lists') -> Nat]
    BY <1>3, <1>4
  <1> QED BY <1>1, <1>5 DEF RankInv, MoreOftenIsFirst

\* With one they are computed from the first postings of the lists.
LEMMA OrSearchRanks ==
    ASSUME IInv, RankInv, OrSearch
    PROVE  RankInv'
  <1>1. /\ UNCHANGED <<index, entries, lists>> /\ pc = "or" /\ pc' = "done"
        /\ results' = [doc \in Collected |-> TermFrequencies]
    BY DEF OrSearch, InMemory, database, tokenized
  <1>2. at = [k \in 1..Len(lists) |-> 1]
    BY <1>1 DEF RankInv
  <1>3. ASSUME NEW k \in 1..Len(lists)
        PROVE  Cardinality(Current(k).pos) \in Nat
    <2>1. Current(k) = lists[k][1]
      BY <1>2 DEF Current
    <2>2. TrueOf(lists[k], order[k])
      BY <1>1, TermsHaveLists DEF IInv, HasLists
    <2>3. lists[k] \in Seq(Posting) /\ lists[k] # <<>>
      BY <2>2 DEF TrueOf, RankInv
    <2>4. 1 \in 1..Len(lists[k])
      BY <2>3
    <2>5. /\ lists[k][1].doc \in 1..Len(corpus)
          /\ lists[k][1].pos = Positions(corpus[lists[k][1].doc], order[k])
      BY <2>2, <2>4 DEF TrueOf
    <2>6. corpus \in Seq(Seq(Tokens))
      BY DEF IInv, IndexInv
    <2>7. Len(corpus[lists[k][1].doc]) \in Nat
      BY <2>5, <2>6, ElementOfSeq
    <2> QED BY <2>1, <2>5, <2>7, PositionsAreFinite
  <1>4. TermFrequencies \in [1..Len(lists) -> Nat]
    BY <1>3 DEF TermFrequencies
  <1>5. \A doc \in Found' : results'[doc] \in [1..Len(lists') -> Nat]
    BY <1>1, <1>4 DEF Found
  <1> QED BY <1>1, <1>5 DEF RankInv, MoreOftenIsFirst

-----------------------------------------------------------------------------
\* The number of results that are printed.
LEMMA PrintedLength ==
    ASSUME NEW c \in Nat
    PROVE  LET m == Min({K - 1, c}) IN m \in Nat /\ m <= c
  <1>1. K - 1 \in Nat
    BY BoundAssumption
  <1>2. \E x \in {K - 1, c} : \A y \in {K - 1, c} : x =< y
    BY <1>1
  <1>3. Min({K - 1, c}) \in {K - 1, c} /\ \A y \in {K - 1, c} : Min({K - 1, c}) =< y
    BY <1>2 DEF Min
  <1> QED BY <1>1, <1>3

LEMMA FoundIsFinite ==
    ASSUME IInv
    PROVE  Cardinality(Found) \in Nat
  <1>1. Found \in SUBSET (1..Len(corpus)) /\ Len(corpus) \in Nat
    BY DEF IInv, IndexInv, ResultsInv, NothingIsInvented, Hits
  <1>2. IsFiniteSet(1..Len(corpus))
    BY <1>1, FS_Interval
  <1>3. IsFiniteSet(Found)
    BY <1>1, <1>2, FS_Subset
  <1> QED BY <1>3, FS_CardinalityType

\* What contains the tokens more often has the higher score.
LEMMA MoreOftenIsHigher ==
    ASSUME IInv, RankInv, pc = "done", NEW n \in Nat,
           \A k \in 1..Len(order) : entries[order[k]].count < n,
           NEW doc \in Found, NEW other \in Found,
           AsOften(doc, other), results[doc] # results[other]
    PROVE  IsBefore(n, doc, other) /\ ~ IsBefore(n, other, doc)
  <1>1. HasLists /\ pc # "fetch"
    BY DEF HasLists
  <1>2. Len(lists) \in Nat /\ \A k \in 1..Len(lists) : order[k] \in Tokens /\ Bases(k) # {}
    BY <1>1, TermsHaveLists DEF IInv
  <1>3. Len(lists) = Len(order)
    BY <1>1 DEF IInv, ListsInv
  <1>4. ASSUME NEW k \in 1..Len(lists)
        PROVE  entries[order[k]].count \in Nat \ {0} /\ entries[order[k]].count < n
    <2>1. order[k] \in Tokens /\ entries[order[k]].bases # {}
      BY <1>2 DEF Bases
    <2>2. entries[order[k]].count # 0
      BY <2>1 DEF RankInv
    <2>3. entries[order[k]].count \in Nat
      BY <2>1 DEF IInv, QueryInv, TokenIds
    <2> QED BY <1>3, <2>2, <2>3
  <1>5. Exceeds(results[doc], results[other], Len(lists))
    <2>1. results[doc] \in [1..Len(lists) -> Nat] /\ results[other] \in [1..Len(lists) -> Nat]
      BY DEF RankInv
    <2> QED BY <2>1 DEF AsOften, Exceeds
  <1>6. /\ Weight(n, results[doc], results[other]) \in Nat
        /\ Weight(n, results[other], results[doc]) \in Nat
        /\ Weight(n, results[doc], results[other]) > Weight(n, results[other], results[doc])
    BY <1>2, <1>4, <1>5, ExceedingIsHigher
  <1>7. HasHigherScore(n, doc, other) /\ ~ HasHigherScore(n, other, doc)
    BY <1>6 DEF HasHigherScore
  <1> QED BY <1>7 DEF IsBefore

LEMMA ReplyRanks ==
    ASSUME IInv, RankInv, Reply
    PROVE  RankInv'
  <1>1. UNCHANGED <<index, entries, order, lists, results>> /\ pc = "done" /\ pc' = "idle"
    BY DEF Reply, database, tokenized, cursors
  <1>2. Found' = Found
    BY <1>1 DEF Found
  <1> DEFINE c == Cardinality(Found)
             m == Min({K - 1, c})
  <1>a. PICK n \in 0..Len(arrived) :
            \E docs \in Sorted(n) :
                printed' = [counted |-> n, docs |-> SubSeq(docs, 1, m)]
    BY DEF Reply, Found
  <1>3. PICK docs \in Sorted(n) :
            printed' = [counted |-> n, docs |-> SubSeq(docs, 1, m)]
    BY <1>a
  <1>4. n \in Nat
    BY DEF IInv, IndexInv
  <1>5. c \in Nat
    BY FoundIsFinite
  <1>6. /\ docs \in [1..c -> Found]
        /\ \A doc \in Found : \E i \in 1..c : docs[i] = doc
        /\ \A i, j \in 1..c : i < j => IsBefore(n, docs[i], docs[j])
    BY <1>3 DEF Sorted, Found
  <1> HIDE DEF c
  <1>7. m \in Nat /\ m <= c
    BY <1>5, PrintedLength
  <1> HIDE DEF m
  <1>8. /\ Len(printed'.docs) = m
        /\ \A i \in 1..m : printed'.docs[i] = docs[i]
    <2>1. \A i \in 1..m : docs[i] \in Found
      BY <1>5, <1>6, <1>7
    <2>2. /\ Len(SubSeq(docs, 1, m)) = IF 1 <= m THEN m - 1 + 1 ELSE 0
          /\ \A i \in 1..m - 1 + 1 : SubSeq(docs, 1, m)[i] = docs[1 + i - 1]
      BY <1>7, <2>1, SubSeqProperties
    <2>3. m - 1 + 1 = m /\ \A i \in 1..m : 1 + i - 1 = i
      BY <1>7
    <2>4. Len(SubSeq(docs, 1, m)) = m
      BY <1>7, <2>2
    <2>5. \A i \in 1..m : SubSeq(docs, 1, m)[i] = docs[i]
      BY <2>2, <2>3
    <2> QED BY <1>3, <2>4, <2>5
  <1>9. ASSUME CountIsAhead', NEW doc \in Found, NEW other \in Found,
               AsOften(doc, other), results[doc] # results[other]
        PROVE  PrintedBefore(doc, other)'
    <2>1. \A k \in 1..Len(order) : entries[order[k]].count < n
      BY <1>1, <1>3, <1>9 DEF CountIsAhead
    <2>2. ~ IsBefore(n, other, doc)
      BY <1>1, <1>4, <1>9, <2>1, MoreOftenIsHigher
    <2>3. ASSUME NEW i \in 1..m, docs[i] = other
          PROVE  \E j \in 1..i - 1 : docs[j] = doc
      <3>1. PICK j \in 1..c : docs[j] = doc
        BY <1>6
      <3>2. i \in 1..c
        BY <1>5, <1>7
      <3>3. ~ (i < j)
        BY <1>6, <2>2, <2>3, <3>1, <3>2
      <3>4. i # j
        BY <1>9, <2>3, <3>1
      <3>5. j \in 1..i - 1
        BY <1>5, <3>2, <3>3, <3>4
      <3> QED BY <3>1, <3>5
    <2>4. ASSUME NEW i \in 1..m, printed'.docs[i] = other
          PROVE  \E j \in 1..i - 1 : printed'.docs[j] = doc
      <3>1. PICK j \in 1..i - 1 : docs[j] = doc
        BY <1>8, <2>3, <2>4
      <3>2. j \in 1..m
        BY <1>7
      <3> QED BY <1>8, <3>1, <3>2
    <2> QED BY <1>8, <2>4 DEF PrintedBefore
  <1>10. MoreOftenIsFirst'
    BY <1>1, <1>2, <1>9 DEF MoreOftenIsFirst, AsOften
  <1> QED BY <1>1, <1>2, <1>10 DEF RankInv

-----------------------------------------------------------------------------
LEMMA InitRanks ==
    ASSUME Init
    PROVE  RankInv
  <1>1. entries = NoEntries /\ results = NoResults /\ lists = <<>> /\ pc = "idle"
        /\ printed = NothingPrinted
    BY DEF Init
  <1>2. \A id \in Tokens : entries[id].bases = {}
    BY <1>1 DEF NoEntries, NoEntry, TokenIds
  <1>3. Found = {}
    BY <1>1 DEF Found, NoResults
  <1> QED BY <1>1, <1>2, <1>3 DEF RankInv, MoreOftenIsFirst

LEMMA EveryStepRanks ==
    ASSUME IInv, IInv', RankInv, [Next]_vars
    PROVE  RankInv'
  <1>1. ASSUME NEW body \in Bodies, Publish(body) PROVE RankInv'
    BY <1>1, PublishRanks
  <1>2. ASSUME NEW text \in Queries, Ask(text) PROVE RankInv'
    BY <1>2, AskRanks
  <1>3. ASSUME Join PROVE RankInv'
    BY <1>3, QuietSteps, QuietRanks, DocumentFoundRanks DEF Join
  <1>4. ASSUME Searcher PROVE RankInv'
    BY <1>3, <1>4, QuietSteps, QuietRanks, SplitTokenRanks, SplitEndsRanks, FetchRanks,
       FetchEndsRanks, OrSearchRanks, ReplyRanks
    DEF Searcher
  <1>5. ASSUME UNCHANGED vars PROVE RankInv'
    BY <1>5, QuietSteps, QuietRanks
  <1> QED BY <1>1, <1>2, <1>4, <1>5 DEF Next, Indexer

(***************************************************************************)
(* A document that contains every token of the query as often as another   *)
(* one, and one of them more often, is printed before it, for all numbers  *)
(* of documents and tokens, as long as more documents were counted when    *)
(* the server started than contain any of the tokens (calc_tf_idf,         *)
(* search_results_score_desc_sort; search.c:238, searchengine.c:266).      *)
(***************************************************************************)
THEOREM MoreOftenFirst == Spec => []MoreOftenIsFirst
  <1>1. Init => RankInv
    BY InitRanks
  <1>2. IInv /\ IInv' /\ RankInv /\ [Next]_vars => RankInv'
    BY EveryStepRanks
  <1>3. RankInv => MoreOftenIsFirst
    BY DEF RankInv
  <1> QED BY <1>1, <1>2, <1>3, Invariance, PTL DEF Spec

=============================================================================
