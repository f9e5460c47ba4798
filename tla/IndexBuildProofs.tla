-------------------------- MODULE IndexBuildProofs --------------------------
(***************************************************************************)
(* Proofs about IndexBuild.  On the input it is built for the index is     *)
(* exact, the encoder stays in its domain, and the database implements     *)
(* SearchIndex.  The second half is about every input: repeated titles,    *)
(* refused documents, refused updates and lists too long to be read.       *)
(***************************************************************************)
EXTENDS IndexBuild, PostingsProofs

\* The input the indexer is built for: every document of every dump has a
\* title of its own, the server refuses no document and no update, and a list
\* of all documents can be read back.
CleanInput ==
    /\ RepeatedTitles = {}
    /\ RefusedTokens = {}
    /\ RejectedTitles = {}
    /\ Cardinality(Titles) <= LongestRead

-----------------------------------------------------------------------------
(***************************************************************************)
(* The tables and the buffer.                                              *)
(***************************************************************************)

UniqueNumbers(table) ==
    \A t1, t2 \in Stored(table) :
        /\ table[t1].id < nextId
        /\ table[t1].id = table[t2].id => t1 = t2

InFlight(token) == tokens[token].list \o buffer[token].list

\* Every posting of a list that reflects a table names one of its documents.
LEMMA ReflectedNumbers ==
    ASSUME NEW table \in Documents, NEW token \in Tokens,
           NEW list \in Seq(Posting), Reflects(list, token, table),
           NEW i \in 1..Len(list)
    PROVE  \E title \in Stored(table) : table[title].id = list[i].doc
BY DEF Reflects, Backed

\* Adding a document with a larger number extends the index of the table by
\* the document's own posting, if it has one for the token.
LEMMA ReflectsInsert ==
    ASSUME NEW table \in Documents, NEW token \in Tokens,
           NEW list \in Seq(Posting), Reflects(list, token, table),
           NEW title \in Titles, table[title].id = 0,
           NEW body \in Seq(Tokens), NEW number \in Nat \ {0},
           \A x \in Stored(table) : table[x].id < number,
           NEW added \in Seq(Posting),
           added = IF Occurs(token, body)
                   THEN <<[doc |-> number, pos |-> Positions(body, token)]>>
                   ELSE <<>>
    PROVE  Reflects(list \o added, token,
               [table EXCEPT ![title] = [id |-> number, body |-> body]])
<1>. DEFINE table2 == [table EXCEPT ![title] = [id |-> number, body |-> body]]
            list2 == list \o added
<1>1. /\ \A x \in Stored(table) : x # title /\ table2[x] = table[x]
      /\ table2[title].id = number /\ table2[title].body = body
      /\ Stored(table2) = Stored(table) \cup {title}
  BY DEF Stored, Documents
<1>2. /\ Len(list) \in Nat /\ Len(added) \in Nat
      /\ \A i \in 1..Len(list) : list[i].doc \in Nat
      /\ Len(list2) = Len(list) + Len(added)
      /\ \A k \in 1..Len(list) : list2[k] = list[k]
      /\ \A k \in 1..Len(added) : list2[Len(list) + k] = added[k]
  BY ListElements, ConcatProperties
<1>3. ASSUME NEW i \in 1..Len(list) PROVE list[i].doc < number
  BY ReflectedNumbers
<1>4. ASSUME NEW i \in 1..Len(list) PROVE Backed(list[i], token, table2)
  <2>1. PICK x \in Stored(table) :
          /\ table[x].id = list[i].doc
          /\ Occurs(token, table[x].body)
          /\ list[i].pos = Positions(table[x].body, token)
    BY DEF Reflects, Backed
  <2>. QED BY <1>1, <2>1 DEF Backed
<1>5. CASE ~ Occurs(token, body)
  <2>1. list2 = list
    BY <1>5, ConcatEmptySeq
  <2>2. \A x \in Stored(table2) : Occurs(token, table2[x].body) =>
            table2[x].id \in DocsIn(list)
    BY <1>1, <1>5 DEF Reflects
  <2>. QED BY <1>4, <2>1, <2>2 DEF Reflects
<1>6. CASE Occurs(token, body)
  <2>. DEFINE last == [doc |-> number, pos |-> Positions(body, token)]
  <2>1. Len(added) = 1 /\ added[1] = last
    BY <1>6
  <2>2. Len(list2) = Len(list) + 1 /\ list2[Len(list) + 1] = last
    BY <1>2, <2>1
  <2>3. Ascending(list2)
    <3>1. \A i, j \in 1..Len(list) : i < j => list[i].doc < list[j].doc
      BY DEF Reflects, Ascending
    <3>2. \A i \in 1..Len(list) : list2[i].doc < list2[Len(list) + 1].doc
      BY <1>2, <1>3, <2>2
    <3>. QED BY <1>2, <2>2, <3>1, <3>2 DEF Ascending
  <2>4. Backed(last, token, table2)
    BY <1>1, <1>6 DEF Backed
  <2>5. \A i \in 1..Len(list2) : Backed(list2[i], token, table2)
    <3>1. \A i \in 1..Len(list2) : i \in 1..Len(list) \/ i = Len(list) + 1
      BY <1>2, <2>2
    <3>. QED BY <1>2, <1>4, <2>2, <2>4, <3>1
  <2>6. DocsIn(list) \subseteq DocsIn(list2) /\ number \in DocsIn(list2)
    BY <1>2, <2>2 DEF DocsIn
  <2>7. \A x \in Stored(table2) : Occurs(token, table2[x].body) =>
            table2[x].id \in DocsIn(list2)
    BY <1>1, <2>6 DEF Reflects
  <2>. QED BY <2>3, <2>5, <2>7 DEF Reflects
<1>. QED BY <1>5, <1>6

-----------------------------------------------------------------------------
(***************************************************************************)
(* The inductive invariant.  IndexReflectsDocuments alone is not           *)
(* inductive: a commit publishes what the flushes have put together, so    *)
(* the tables and the buffer of the open transaction must reflect its      *)
(* documents at every step, with ids that only grow and counts that agree. *)
(***************************************************************************)
Counted(token) ==
    /\ tokens[token].count = Len(tokens[token].list)
    /\ buffer[token].count = Len(buffer[token].list)

IInv ==
    /\ TypeOK
    /\ UniqueNumbers(documents)
    /\ UniqueNumbers(committed.documents)
    /\ \A token \in Tokens : /\ Reflects(InFlight(token), token, documents)
                             /\ Counted(token)
    /\ buffer[NoToken] = NoEntry
    /\ pc = "committing" => Pending = {}
    /\ EncoderStaysInDomain
    /\ IndexReflectsDocuments

\* The lists of the table and of the buffer, and their concatenation.
LEMMA InFlightType ==
    ASSUME TypeOK, NEW token \in Tokens
    PROVE  /\ tokens[token].list \in Seq(Posting)
           /\ buffer[token].list \in Seq(Posting)
           /\ InFlight(token) \in Seq(Posting)
           /\ Len(InFlight(token)) =
                  Len(tokens[token].list) + Len(buffer[token].list)
<1>1. tokens[token].list \in Seq(Posting) /\ buffer[token].list \in Seq(Posting)
  BY DEF TypeOK, Rows, TokenRow, TokenIds
<1>. QED BY <1>1, ConcatProperties DEF InFlight

\* The postings of a token name different documents, so there are no more of
\* them than documents: the quotient the encoder divides by is never zero.
LEMMA ReflectedLength ==
    ASSUME NEW table \in Documents, NEW token \in Tokens,
           NEW list \in Seq(Posting), Reflects(list, token, table)
    PROVE  Len(list) <= Cardinality(Stored(table))
<1>. DEFINE n == Len(list)
            S == Stored(table)
            f == [i \in 1..n |-> CHOOSE x \in S : table[x].id = list[i].doc]
<1>1. n \in Nat /\ \A i \in 1..n : list[i].doc \in Nat
  BY ListElements
<1>2. \A i \in 1..n : f[i] \in S /\ table[f[i]].id = list[i].doc
  BY ReflectedNumbers
<1>3. f \in Injection(1..n, S)
  <2>1. f \in [1..n -> S]
    BY <1>2
  <2>2. ASSUME NEW i \in 1..n, NEW j \in 1..n, f[i] = f[j] PROVE i = j
    <3>1. list[i].doc = list[j].doc
      BY <1>2, <2>2
    <3>2. ~ (i < j) /\ ~ (j < i)
      BY <1>1, <3>1 DEF Reflects, Ascending
    <3>. QED BY <1>1, <3>2
  <2>. QED BY <2>1, <2>2 DEF Injection, IsInjective
<1>4. IsFiniteSet(S)
  BY TitlesAssumption, FS_Subset DEF Stored
<1>5. Cardinality(1..n) <= Cardinality(S)
  BY <1>3, <1>4, FS_Injection
<1>6. Cardinality(1..n) = n
  BY <1>1, IntervalCardinality, Zenon
<1>. QED BY <1>5, <1>6

\* On clean input no flush takes a list for empty.
LEMMA ListsAreShort ==
    ASSUME CleanInput, IInv, NEW id \in Tokens
    PROVE  ~ IsTooLong(tokens[id])
<1>1. /\ InFlight(id) \in Seq(Posting)
      /\ Len(InFlight(id)) = Len(tokens[id].list) + Len(buffer[id].list)
      /\ tokens[id].list \in Seq(Posting) /\ buffer[id].list \in Seq(Posting)
      /\ documents \in Documents
      /\ Reflects(InFlight(id), id, documents)
  BY InFlightType DEF IInv, TypeOK
<1>2. Len(InFlight(id)) <= Cardinality(Stored(documents))
  BY <1>1, ReflectedLength
<1>3. /\ Cardinality(Stored(documents)) <= Cardinality(Titles)
      /\ Cardinality(Stored(documents)) \in Nat
      /\ Cardinality(Titles) \in Nat
  BY TitlesAssumption, FS_Subset, FS_CardinalityType DEF Stored
<1>4. Len(tokens[id].list) \in Nat /\ Len(buffer[id].list) \in Nat
  BY <1>1
<1>5. \A l, m, s, t, r \in Nat : l + m <= s /\ s <= t /\ t <= r => ~ (l > r)
  OBVIOUS
<1>6. LongestRead \in Nat /\ Cardinality(Titles) <= LongestRead
  BY OptionsAssumption DEF CleanInput
<1>. QED BY <1>1, <1>2, <1>3, <1>4, <1>5, <1>6, Zenon DEF IsTooLong

\* On clean input a flush finds the row as it is.
LEMMA RowIsFetched ==
    ASSUME CleanInput, IInv, NEW id \in Tokens
    PROVE  Fetched(id) = {tokens[id]} /\ ~ tokens[id].garbled
<1>1. ~ tokens[id].garbled /\ ~ IsTooLong(tokens[id]) /\ id # NoToken
  BY ListsAreShort, TokensAssumption DEF IInv, EncoderStaysInDomain
<1>. QED BY <1>1 DEF Fetched

\* The postings in the buffer all come after those in the table, so a flush
\* appends them: it moves postings and leaves what is in flight as it is.
MergedOwnRow(id) == MergedRow(tokens[id], buffer[id])

LEMMA MergedRowIsInFlight ==
    ASSUME CleanInput, IInv, NEW id \in Tokens
    PROVE  MergedOwnRow(id) = [tokens[id] EXCEPT !.count = Len(InFlight(id)),
                                                 !.list = InFlight(id)]
<1>. DEFINE L == tokens[id].list
            B == buffer[id].list
<1>1. L \in Seq(Posting) /\ B \in Seq(Posting)
  BY InFlightType DEF IInv
<1>2. Ascending(L \o B)
  BY DEF IInv, Reflects, InFlight
<1>. HIDE DEF L, B
<1>3. /\ Len(L) \in Nat /\ Len(B) \in Nat /\ Len(L \o B) = Len(L) + Len(B)
      /\ \A k \in 1..Len(L) : (L \o B)[k] = L[k]
      /\ \A k \in 1..Len(B) : (L \o B)[Len(L) + k] = B[k]
  BY <1>1, ConcatProperties, ListElements
<1>4. ASSUME NEW i \in 1..Len(L), NEW j \in 1..Len(B)
      PROVE  L[i].doc < B[j].doc
  <2>1. i \in 1..Len(L \o B) /\ Len(L) + j \in 1..Len(L \o B) /\ i < Len(L) + j
    BY <1>3
  <2>2. (L \o B)[i].doc < (L \o B)[Len(L) + j].doc
    BY <1>2, <2>1 DEF Ascending
  <2>. QED BY <1>3, <2>2
<1>5. Merge(L, B) = L \o B
  BY <1>1, <1>4, MergeAppend
<1>6. buffer[id].count = Len(B)
  BY DEF IInv, Counted, B
<1>7. MergedOwnRow(id) = [tokens[id] EXCEPT !.count = buffer[id].count + Len(L),
                                            !.list = Merge(L, B)]
  BY <1>1, RowIsFetched DEF MergedOwnRow, MergedRow, L, B
<1>8. InFlight(id) = L \o B
  BY DEF InFlight, L, B
<1>9. buffer[id].count + Len(L) = Len(InFlight(id))
  BY <1>3, <1>6, <1>8
<1>. QED BY <1>5, <1>7, <1>8, <1>9, Zenon

\* What is in flight can always be encoded.
LEMMA InFlightIsEncodable ==
    ASSUME CleanInput, IInv, NEW id \in Tokens, id \in Pending
    PROVE  ~ GolombAsserts(MergedOwnRow(id)) /\ ~ GolombGarbles(MergedOwnRow(id))
<1>. DEFINE list == InFlight(id)
            row == MergedOwnRow(id)
<1>1. row.list = list /\ row.count = Len(list) /\ ~ row.garbled
  <2>. HIDE DEF list
  <2>1. tokens[id] \in TokenRow
    BY DEF IInv, TypeOK, Rows, TokenRow
  <2>2. row = [tokens[id] EXCEPT !.count = Len(list), !.list = list]
    BY MergedRowIsInFlight DEF list
  <2>. QED BY <2>1, <2>2, RowIsFetched
<1>2. /\ list \in Seq(Posting)
      /\ documents \in Documents
      /\ Reflects(list, id, documents)
      /\ Len(list) = Len(tokens[id].list) + Len(buffer[id].list)
      /\ tokens[id].list \in Seq(Posting) /\ buffer[id].list \in Seq(Posting)
  BY InFlightType DEF IInv, TypeOK
<1>3. Len(list) \in Nat \ {0}
  <2>1. Len(buffer[id].list) \in Nat \ {0}
    BY <1>2, EmptySeq DEF Pending
  <2>2. Len(tokens[id].list) \in Nat
    BY <1>2
  <2>3. Len(list) = Len(tokens[id].list) + Len(buffer[id].list)
    BY <1>2
  <2>4. \A l, m \in Nat : m # 0 => l + m \in Nat /\ l + m # 0
    OBVIOUS
  <2>. QED BY <2>1, <2>2, <2>3, <2>4, Zenon
<1>4. Len(list) <= Cardinality(Stored(documents))
  BY <1>2, ReflectedLength
<1>5. IsFiniteSet(Stored(documents))
  BY TitlesAssumption, FS_Subset DEF Stored
<1>6. Cardinality(Stored(documents)) \in Nat
  BY <1>5, FS_CardinalityType
<1>7. list[1].doc # 0
  <2>1. 1 \in 1..Len(list)
    BY <1>3
  <2>. HIDE DEF list
  <2>2. PICK title \in Stored(documents) : documents[title].id = list[1].doc
    BY <1>2, <2>1, ReflectedNumbers
  <2>. QED BY <2>2 DEF Stored
<1>8. Ascending(list)
  BY <1>2 DEF Reflects
<1>. HIDE DEF list, row
<1>9. ~ (row.count > DocumentCount)
  BY <1>1, <1>3, <1>4, <1>6 DEF DocumentCount
<1>. QED BY <1>1, <1>7, <1>8, <1>9 DEF GolombAsserts, GolombGarbles, row

-----------------------------------------------------------------------------
(***************************************************************************)
(* The invariant holds initially, and the start of a run as well as its    *)
(* loss establish it anew from the committed tables.                       *)
(***************************************************************************)
Published(database) ==
    \A token \in Tokens :
        /\ ~ database.tokens[token].garbled
        /\ Reflects(database.tokens[token].list, token, database.documents)
        /\ database.tokens[token].count = Len(database.tokens[token].list)

LEMMA EmptyDatabase ==
    /\ NoDocuments \in Documents
    /\ NoRows \in Rows
    /\ Stored(NoDocuments) = {}
    /\ \A token \in Tokens : /\ Reflects(<<>>, token, NoDocuments)
                             /\ NoRows[token].list = <<>>
                             /\ NoRows[token].count = Len(<<>>)
                             /\ ~ NoRows[token].garbled
<1>1. <<>> \in Seq(Tokens) /\ <<>> \in Seq(Posting) /\ Len(<<>>) = 0
  BY EmptySeq
<1>2. NoDocuments \in Documents /\ Stored(NoDocuments) = {}
  BY <1>1 DEF NoDocuments, NoDocument, Documents, Stored
<1>3. NoRows \in Rows
  BY <1>1 DEF NoRows, NoRow, Rows, TokenRow
<1>4. ASSUME NEW token \in Tokens
      PROVE  /\ Reflects(<<>>, token, NoDocuments)
             /\ NoRows[token].list = <<>>
             /\ NoRows[token].count = Len(<<>>)
             /\ ~ NoRows[token].garbled
  <2>1. Ascending(<<>>) /\ 1..Len(<<>>) = {}
    BY <1>1 DEF Ascending
  <2>. QED BY <1>1, <1>2, <2>1 DEF Reflects, NoRows, NoRow
<1>. QED BY <1>2, <1>3, <1>4

LEMMA EmptyBufferFacts ==
    /\ EmptyBuffer \in [TokenIds -> [count : Nat, list : Seq(Posting)]]
    /\ EmptyBuffer[NoToken] = NoEntry
    /\ \A token \in Tokens : /\ EmptyBuffer[token].list = <<>>
                             /\ EmptyBuffer[token].count = Len(<<>>)
<1>1. <<>> \in Seq(Posting) /\ Len(<<>>) = 0
  BY EmptySeq
<1>. QED BY <1>1 DEF EmptyBuffer, NoEntry, TokenIds

LEMMA InitInvariant == Init => IInv
<1>. SUFFICES ASSUME Init PROVE IInv
  OBVIOUS
<1>. USE DEF Init
<1>1. TypeOK
  BY EmptyDatabase, EmptyBufferFacts DEF TypeOK, Modes
<1>2. UniqueNumbers(documents) /\ UniqueNumbers(committed.documents)
  BY EmptyDatabase DEF UniqueNumbers
<1>3. ASSUME NEW token \in Tokens
      PROVE  Reflects(InFlight(token), token, documents) /\ Counted(token)
  <2>1. tokens[token].list = <<>> /\ buffer[token].list = <<>>
    BY EmptyDatabase, EmptyBufferFacts
  <2>2. InFlight(token) = <<>>
    BY <2>1, EmptySeq, ConcatEmptySeq DEF InFlight
  <2>. QED BY <2>1, <2>2, EmptyDatabase, EmptyBufferFacts DEF Counted
<1>4. IndexReflectsDocuments
  BY EmptyDatabase DEF IndexReflectsDocuments
<1>. QED
  BY <1>1, <1>2, <1>3, <1>4, EmptyBufferFacts, EmptyDatabase
  DEF IInv, EncoderStaysInDomain

\* An indexer without any memory, on top of a published index.
LEMMA FreshIndexer ==
    ASSUME NEW database \in [documents : Documents, tokens : Rows],
           Published(database),
           compress' \in {"none", "golomb"},
           nextId' \in Nat \ {0},
           UniqueNumbers(database.documents)',
           committed' = database,
           documents' = database.documents,
           tokens' = database.tokens,
           buffer' = EmptyBuffer,
           buffered' \in Nat, loaded' \in Nat, runs' \in Nat,
           pc' \in {"idle", "loading"}
    PROVE  IInv'
<1>1. TypeOK'
  BY EmptyBufferFacts DEF TypeOK, Modes
<1>2. ASSUME NEW token \in Tokens
      PROVE  Reflects(InFlight(token), token, documents)' /\ Counted(token)'
  <2>1. buffer'[token].list = <<>> /\ buffer'[token].count = Len(<<>>)
    BY EmptyBufferFacts
  <2>2. tokens'[token].list \in Seq(Posting)
    BY DEF Rows, TokenRow
  <2>3. InFlight(token)' = tokens'[token].list
    BY <2>1, <2>2, ConcatEmptySeq DEF InFlight
  <2>. QED BY <2>1, <2>3 DEF Published, Counted
<1>3. UniqueNumbers(documents)' /\ UniqueNumbers(committed.documents)'
  BY DEF UniqueNumbers
<1>4. IndexReflectsDocuments'
  BY DEF Published, IndexReflectsDocuments
<1>. QED
  BY <1>1, <1>2, <1>3, <1>4, EmptyBufferFacts DEF IInv, EncoderStaysInDomain, Published

LEMMA FreshAgain ==
    ASSUME committed \in [documents : Documents, tokens : Rows],
           Published(committed),
           compress' \in {"none", "golomb"},
           nextId' \in Nat \ {0},
           UniqueNumbers(committed.documents)',
           committed' = committed,
           documents' = committed.documents,
           tokens' = committed.tokens,
           buffer' = EmptyBuffer,
           buffered' \in Nat, loaded' \in Nat, runs' \in Nat,
           pc' \in {"idle", "loading"}
    PROVE  IInv'
<1>1. PICK database \in [documents : Documents, tokens : Rows] :
        database = committed
  OBVIOUS
<1>2. Published(database)
  BY <1>1
<1>3. UniqueNumbers(database.documents)'
  BY <1>1 DEF UniqueNumbers
<1>. QED BY <1>1, <1>2, <1>3, FreshIndexer

LEMMA BeginRunStep == IInv /\ BeginRun => IInv'
<1>. SUFFICES ASSUME IInv, BeginRun PROVE IInv'
  OBVIOUS
<1>. USE DEF BeginRun, StartRun
<1>1. committed \in [documents : Documents, tokens : Rows] /\ Published(committed)
  BY DEF IInv, TypeOK, IndexReflectsDocuments, Published
<1>2. UniqueNumbers(committed.documents)' /\ nextId' \in Nat \ {0}
  BY DEF IInv, TypeOK, UniqueNumbers
<1>3. /\ committed' = committed
      /\ documents' = committed.documents
      /\ tokens' = committed.tokens
      /\ buffer' = EmptyBuffer
      /\ buffered' \in Nat /\ loaded' \in Nat /\ runs' \in Nat
      /\ pc' \in {"idle", "loading"}
      /\ compress' \in {"none", "golomb"}
  BY DEF IInv, TypeOK
<1>. QED BY <1>1, <1>2, <1>3, FreshAgain

LEMMA RecreateDatabaseStep == IInv /\ RecreateDatabase => IInv'
<1>. SUFFICES ASSUME IInv, RecreateDatabase PROVE IInv'
  OBVIOUS
<1>. DEFINE database == [documents |-> NoDocuments, tokens |-> NoRows]
<1>1. database \in [documents : Documents, tokens : Rows] /\ Published(database)
  BY EmptyDatabase DEF Published
<1>2. UniqueNumbers(database.documents)'
  BY EmptyDatabase DEF UniqueNumbers
<1>3. /\ nextId' \in Nat \ {0}
      /\ committed' = database
      /\ documents' = database.documents
      /\ tokens' = database.tokens
      /\ buffer' = EmptyBuffer
      /\ buffered' \in Nat /\ loaded' \in Nat /\ runs' \in Nat
      /\ pc' \in {"idle", "loading"}
      /\ compress' \in {"none", "golomb"}
  BY DEF RecreateDatabase, StartRun, IInv, TypeOK
<1>. HIDE DEF database
<1>. QED BY <1>1, <1>2, <1>3, FreshIndexer

LEMMA EndWithoutCommitStep == IInv /\ EndWithoutCommit => IInv'
<1>. SUFFICES ASSUME IInv, EndWithoutCommit PROVE IInv'
  OBVIOUS
<1>1. committed \in [documents : Documents, tokens : Rows] /\ Published(committed)
  BY DEF IInv, TypeOK, IndexReflectsDocuments, Published
<1>2. UniqueNumbers(committed.documents)' /\ nextId' \in Nat \ {0}
  BY DEF EndWithoutCommit, IInv, TypeOK, UniqueNumbers
<1>3. /\ committed' = committed
      /\ documents' = committed.documents
      /\ tokens' = committed.tokens
      /\ buffer' = EmptyBuffer
      /\ buffered' \in Nat /\ loaded' \in Nat /\ runs' \in Nat
      /\ pc' \in {"idle", "loading"}
      /\ compress' \in {"none", "golomb"}
  BY DEF EndWithoutCommit, IInv, TypeOK
<1>. QED BY <1>1, <1>2, <1>3, FreshAgain

-----------------------------------------------------------------------------
(***************************************************************************)
(* The steps of a run.                                                     *)
(***************************************************************************)

\* What text_to_postings_lists yields for a stored document.
LEMMA TextOfDocument ==
    ASSUME NEW number \in Nat \ {0}, NEW body \in Seq(Tokens)
    PROVE  /\ TextToPostings(number, body)[NoToken] = NoEntry
           /\ \A token \in Tokens :
                 TextToPostings(number, body)[token] =
                     IF Occurs(token, body)
                     THEN [count |-> 1,
                           list |-> <<[doc |-> number,
                                       pos |-> Positions(body, token)]>>]
                     ELSE NoEntry
<1>1. \A j \in 1..Len(body) : body[j] \in Tokens
  BY ElementOfSeq
<1>2. ASSUME NEW id \in TokenIds
      PROVE  TokenPositions(number, body, id) = Positions(body, id)
  BY DEF TokenPositions, TokenId, Positions
<1>3. \A id \in TokenIds : Positions(body, id) = {} <=> ~ Occurs(id, body)
  BY DEF Positions, Occurs
<1>4. ~ Occurs(NoToken, body)
  BY <1>1, TokensAssumption DEF Occurs
<1>5. TextToPostings(number, body)[NoToken] = NoEntry
  BY <1>2, <1>3, <1>4 DEF TextToPostings, TokenIds
<1>6. ASSUME NEW token \in Tokens
      PROVE  TextToPostings(number, body)[token] =
                 IF Occurs(token, body)
                 THEN [count |-> 1,
                       list |-> <<[doc |-> number,
                                   pos |-> Positions(body, token)]>>]
                 ELSE NoEntry
  BY <1>2, <1>3 DEF TextToPostings, TokenIds, EntryCount
<1>. QED BY <1>5, <1>6

LEMMA PositionsType ==
    ASSUME NEW body \in Seq(Tokens), NEW token
    PROVE  Positions(body, token) \in SUBSET Nat
<1>1. Len(body) \in Nat
  OBVIOUS
<1>. QED BY <1>1 DEF Positions

\* A new document's postings go behind those in the buffer.
LEMMA BufferedEntry ==
    ASSUME IInv, NEW token \in Tokens, NEW body \in Seq(Tokens),
           NEW added,
           added = IF Occurs(token, body)
                   THEN <<[doc |-> nextId, pos |-> Positions(body, token)]>>
                   ELSE <<>>
    PROVE  LET entry == MergeInvertedIndex(buffer, TextToPostings(nextId, body))[token]
           IN  /\ added \in Seq(Posting)
               /\ entry.list = buffer[token].list \o added
               /\ entry.list \in Seq(Posting)
               /\ entry.count = Len(entry.list)
<1>. DEFINE B == buffer[token].list
            L == tokens[token].list
            text == TextToPostings(nextId, body)[token]
            entry == MergeInvertedIndex(buffer, TextToPostings(nextId, body))[token]
<1>1. nextId \in Nat \ {0}
  BY DEF IInv, TypeOK
<1>2. /\ added \in Seq(Posting)
      /\ text.list = added
      /\ text.count = Len(added)
  <2>1. text = IF Occurs(token, body)
               THEN [count |-> 1,
                     list |-> <<[doc |-> nextId, pos |-> Positions(body, token)]>>]
               ELSE NoEntry
    BY <1>1, TextOfDocument
  <2>. HIDE DEF text
  <2>2. CASE Occurs(token, body)
    <3>. DEFINE posting == [doc |-> nextId, pos |-> Positions(body, token)]
    <3>1. posting \in Posting
      BY <1>1, PositionsType DEF Posting
    <3>2. text = [count |-> 1, list |-> <<posting>>] /\ added = <<posting>>
      BY <2>1, <2>2
    <3>. HIDE DEF posting
    <3>3. <<posting>> \in Seq(Posting) /\ Len(<<posting>>) = 1
      BY <3>1
    <3>. QED BY <3>2, <3>3
  <2>3. CASE ~ Occurs(token, body)
    BY <2>1, <2>3, EmptySeq DEF NoEntry
  <2>. QED BY <2>2, <2>3
<1>4. \A j \in 1..Len(added) : added[j].doc = nextId
  OBVIOUS
<1>5. /\ L \in Seq(Posting) /\ B \in Seq(Posting)
      /\ documents \in Documents
      /\ L \o B \in Seq(Posting)
      /\ Reflects(L \o B, token, documents)
      /\ buffer[token].count = Len(B)
  BY InFlightType DEF IInv, TypeOK, InFlight, Counted
<1>6. ASSUME NEW i \in 1..Len(B) PROVE B[i].doc < nextId
  <2>. HIDE DEF L, B
  <2>1. /\ Len(L) + i \in 1..Len(L \o B)
        /\ (L \o B)[Len(L) + i] = B[i]
    BY <1>5, ConcatProperties, ListElements
  <2>2. PICK title \in Stored(documents) :
            documents[title].id = (L \o B)[Len(L) + i].doc
    BY <1>5, <2>1, ReflectedNumbers
  <2>. QED BY <2>1, <2>2 DEF IInv, UniqueNumbers
<1>7. Merge(B, added) = B \o added
  <2>. HIDE DEF B
  <2>. QED BY <1>2, <1>4, <1>5, <1>6, MergeAppend
<1>8. /\ entry.list = Merge(B, added)
      /\ entry.count = Len(B) + Len(added)
  BY <1>2, <1>5 DEF MergeInvertedIndex, TokenIds
<1>9. B \o added \in Seq(Posting) /\ Len(B \o added) = Len(B) + Len(added)
  BY <1>2, <1>5, ConcatProperties
<1>. HIDE DEF B, entry
<1>10. /\ entry.list = B \o added
       /\ entry.list \in Seq(Posting)
       /\ entry.count = Len(entry.list)
  BY <1>7, <1>8, <1>9
<1>. QED BY <1>2, <1>10 DEF B, entry

LEMMA BufferedNoToken ==
    ASSUME IInv, NEW body \in Seq(Tokens)
    PROVE  MergeInvertedIndex(buffer, TextToPostings(nextId, body))[NoToken] = NoEntry
<1>1. <<>> \in Seq(Posting) /\ Len(<<>>) = 0 /\ <<>> \o <<>> = <<>>
  BY EmptySeq, ConcatEmptySeq
<1>2. ASSUME NEW none \in Seq(Posting), Len(none) = 0
      PROVE  Merge(none, none) = none \o none
  <2>1. 1..Len(none) = {}
    BY <1>2
  <2>. QED BY <2>1, MergeAppend, Zenon
<1>3. /\ buffer[NoToken] = NoEntry
      /\ TextToPostings(nextId, body)[NoToken] = NoEntry
      /\ NoToken \in TokenIds
  BY TextOfDocument DEF IInv, TypeOK, TokenIds
<1>4. Merge(<<>>, <<>>) = <<>>
  BY <1>1, <1>2
<1>. QED BY <1>3, <1>4 DEF MergeInvertedIndex, NoEntry

LEMMA InsertDocumentStep ==
    ASSUME IInv, NEW title \in Titles, NEW body \in Bodies,
           InsertDocument(title, body)
    PROVE  IInv'
<1>. DEFINE added(token) ==
        IF Occurs(token, body)
        THEN <<[doc |-> nextId, pos |-> Positions(body, token)]>>
        ELSE <<>>
<1>1. /\ body \in Seq(Tokens)
      /\ nextId \in Nat \ {0}
      /\ nextId' = nextId + 1
      /\ documents \in Documents
      /\ documents[title].id = 0
      /\ documents' = [documents EXCEPT ![title] = [id |-> nextId, body |-> body]]
      /\ committed' = committed
      /\ buffer' = MergeInvertedIndex(buffer, TextToPostings(nextId, body))
      /\ tokens' = StoreTokens(nextId, body)
  BY BodiesAssumption DEF InsertDocument, BufferText, IInv, TypeOK
<1>2. ASSUME NEW token \in Tokens
      PROVE  /\ added(token) \in Seq(Posting)
             /\ buffer'[token].list = buffer[token].list \o added(token)
             /\ buffer'[token].list \in Seq(Posting)
             /\ buffer'[token].count = Len(buffer'[token].list)
             /\ tokens'[token].list = tokens[token].list
             /\ tokens'[token].count = tokens[token].count
             /\ tokens'[token].garbled = tokens[token].garbled
             /\ tokens[token].list \in Seq(Posting)
             /\ buffer[token].list \in Seq(Posting)
  <2>1. tokens \in Rows
    BY DEF IInv, TypeOK
  <2>2. /\ tokens'[token].list = tokens[token].list
        /\ tokens'[token].count = tokens[token].count
        /\ tokens'[token].garbled = tokens[token].garbled
    BY <1>1, <2>1 DEF StoreTokens, Rows, TokenRow
  <2>3. /\ added(token) \in Seq(Posting)
        /\ buffer'[token].list = buffer[token].list \o added(token)
        /\ buffer'[token].list \in Seq(Posting)
        /\ buffer'[token].count = Len(buffer'[token].list)
    BY <1>1, BufferedEntry
  <2>. QED BY <2>2, <2>3, InFlightType DEF IInv
<1>3. buffer'[NoToken] = NoEntry
  BY <1>1, BufferedNoToken
<1>4. TypeOK'
  <2>1. documents' \in Documents
    BY <1>1 DEF Documents
  <2>2. tokens' \in Rows
    BY <1>1 DEF StoreTokens, IInv, TypeOK, Rows, TokenRow
  <2>3. buffer' \in [TokenIds -> [count : Nat, list : Seq(Posting)]]
    <3>. DEFINE entry(id) == [count |-> buffer[id].count + TextToPostings(nextId, body)[id].count,
                              list |-> Merge(buffer[id].list, TextToPostings(nextId, body)[id].list)]
    <3>1. buffer' = [id \in TokenIds |-> entry(id)]
      BY <1>1 DEF MergeInvertedIndex
    <3>2. ASSUME NEW id \in TokenIds
          PROVE  entry(id) \in [count : Nat, list : Seq(Posting)]
      <4>1. buffer'[id] = entry(id)
        BY <3>1
      <4>2. buffer'[id].count \in Nat /\ buffer'[id].list \in Seq(Posting)
        <5>1. NoEntry.count \in Nat /\ NoEntry.list \in Seq(Posting)
          BY EmptySeq DEF NoEntry
        <5>2. ASSUME NEW token \in Tokens
              PROVE  buffer'[token].count \in Nat /\ buffer'[token].list \in Seq(Posting)
          BY <1>2, ListElements
        <5>. QED BY <1>3, <5>1, <5>2 DEF TokenIds
      <4>. QED BY <4>1, <4>2
    <3>. HIDE DEF entry
    <3>. QED BY <3>1, <3>2
  <2>4. /\ compress' \in {"none", "golomb"}
        /\ committed' \in [documents : Documents, tokens : Rows]
        /\ nextId' \in Nat \ {0}
        /\ buffered' \in Nat /\ loaded' \in Nat /\ runs' \in Nat
        /\ pc' \in Modes
    BY <1>1 DEF InsertDocument, BufferText, IInv, TypeOK, Modes
  <2>. QED BY <2>1, <2>2, <2>3, <2>4 DEF TypeOK
<1>5. UniqueNumbers(documents)' /\ UniqueNumbers(committed.documents)'
  <2>1. \A x \in Stored(documents) : documents[x].id < nextId /\ documents[x].id \in Nat
    BY <1>1 DEF IInv, UniqueNumbers, Documents, Stored
  <2>2. \A x \in Titles : documents'[x].id = IF x = title THEN nextId ELSE documents[x].id
    BY <1>1 DEF Documents
  <2>3. ASSUME NEW t1 \in Stored(documents)', NEW t2 \in Stored(documents)'
        PROVE  /\ documents'[t1].id < nextId'
               /\ documents'[t1].id = documents'[t2].id => t1 = t2
    <3>1. /\ t1 \in Titles /\ t2 \in Titles
          /\ t1 = title \/ t1 \in Stored(documents)
          /\ t2 = title \/ t2 \in Stored(documents)
      BY <2>2 DEF Stored
    <3>. QED BY <1>1, <2>1, <2>2, <3>1 DEF IInv, UniqueNumbers
  <2>4. UniqueNumbers(documents)'
    BY <2>3 DEF UniqueNumbers
  <2>5. \A x \in Stored(committed.documents) : committed.documents[x].id \in Nat
    BY DEF IInv, TypeOK, Documents, Stored
  <2>6. UniqueNumbers(committed.documents)'
    BY <1>1, <2>5 DEF IInv, UniqueNumbers
  <2>. QED BY <2>4, <2>6
<1>6. ASSUME NEW token \in Tokens
      PROVE  Reflects(InFlight(token), token, documents)' /\ Counted(token)'
  <2>1. \A x \in Stored(documents) : documents[x].id < nextId
    BY DEF IInv, UniqueNumbers
  <2>2. InFlight(token) \in Seq(Posting) /\ Reflects(InFlight(token), token, documents)
    BY InFlightType DEF IInv
  <2>3. InFlight(token)' = InFlight(token) \o added(token)
    <3>1. InFlight(token)' = tokens[token].list \o (buffer[token].list \o added(token))
      BY <1>2 DEF InFlight
    <3>2. /\ tokens[token].list \in Seq(Posting)
          /\ buffer[token].list \in Seq(Posting)
          /\ added(token) \in Seq(Posting)
      BY <1>2
    <3>. HIDE DEF added
    <3>3. \A x, y, z \in Seq(Posting) : (x \o y) \o z = x \o (y \o z)
      BY ConcatAssociative
    <3>4. tokens[token].list \o (buffer[token].list \o added(token))
              = InFlight(token) \o added(token)
      BY <3>2, <3>3, Zenon DEF InFlight
    <3>. QED BY <3>1, <3>4, Zenon
  <2>4. Reflects(InFlight(token) \o added(token), token, documents')
    BY <1>1, <1>2, <2>1, <2>2, ReflectsInsert
  <2>5. Reflects(InFlight(token), token, documents)'
    BY <2>3, <2>4
  <2>6. Counted(token)'
    BY <1>2 DEF IInv, Counted
  <2>. QED BY <2>5, <2>6
<1>7. /\ pc' # "committing" /\ EncoderStaysInDomain'
      /\ IndexReflectsDocuments'
  BY <1>1, <1>2 DEF InsertDocument, BufferText, EncoderStaysInDomain, IInv,
                    IndexReflectsDocuments
<1>. QED BY <1>3, <1>4, <1>5, <1>6, <1>7 DEF IInv

\* Only stored tokens have postings in the buffer, and their lists are fetchable.
LEMMA PendingIsFetchable ==
    ASSUME CleanInput, IInv, NEW id \in Pending
    PROVE  id \in Tokens /\ id # NoToken /\ Fetchable(tokens[id])
<1>1. id \in TokenIds /\ id # NoToken
  BY DEF Pending, IInv, NoEntry
<1>2. id \in Tokens
  BY <1>1 DEF TokenIds
<1>. QED BY <1>1, <1>2 DEF IInv, Counted, Fetchable

\* A flush moves the postings of one token from the buffer to the table.
LEMMA UpdatePostingsStep ==
    ASSUME CleanInput, IInv, NEW id \in TokenIds, UpdatePostings(id)
    PROVE  IInv'
<1>1. /\ id \in Tokens
      /\ tokens' = [tokens EXCEPT ![id] = MergedOwnRow(id)]
      /\ buffer' = [buffer EXCEPT ![id] = NoEntry]
      /\ UNCHANGED <<compress, committed, documents, nextId, buffered, loaded, runs, pc>>
      /\ pc \in {"flushing", "final"}
  <2>1. id \in Pending /\ id \in Tokens
    BY PendingIsFetchable DEF UpdatePostings, Flushing
  <2>2. tokens' = [tokens EXCEPT ![id] = Encoded(MergedOwnRow(id))]
    BY <2>1, RowIsFetched DEF UpdatePostings, MergedOwnRow
  <2>3. Encoded(MergedOwnRow(id)) = MergedOwnRow(id)
    BY <2>1, InFlightIsEncodable DEF Encoded
  <2>. QED BY <2>1, <2>2, <2>3 DEF UpdatePostings, Flushing
<1>2. /\ MergedOwnRow(id) = [tokens[id] EXCEPT !.count = Len(InFlight(id)),
                                               !.list = InFlight(id)]
      /\ InFlight(id) \in Seq(Posting)
  BY <1>1, MergedRowIsInFlight, InFlightType DEF IInv
<1>3. /\ tokens \in Rows
      /\ buffer \in [TokenIds -> [count : Nat, list : Seq(Posting)]]
      /\ id # NoToken
  BY <1>1, TokensAssumption DEF IInv, TypeOK
<1>4. NoEntry \in [count : Nat, list : Seq(Posting)] /\ NoEntry.list = <<>>
      /\ NoEntry.count = Len(<<>>)
  BY EmptySeq DEF NoEntry
<1>5. MergedOwnRow(id) \in TokenRow /\ ~ MergedOwnRow(id).garbled
  <2>1. tokens[id] \in TokenRow
    BY <1>1, <1>3 DEF Rows, TokenRow
  <2>2. Len(InFlight(id)) \in Nat
    BY <1>2, ListElements
  <2>3. ~ tokens[id].garbled
    BY <1>1, RowIsFetched
  <2>. QED BY <1>2, <2>1, <2>2, <2>3 DEF TokenRow
<1>6. TypeOK'
  <2>1. tokens' \in Rows /\ buffer' \in [TokenIds -> [count : Nat, list : Seq(Posting)]]
    BY <1>1, <1>3, <1>4, <1>5 DEF Rows, TokenRow
  <2>. QED BY <1>1, <2>1 DEF IInv, TypeOK
<1>7. ASSUME NEW token \in Tokens
      PROVE  Reflects(InFlight(token), token, documents)' /\ Counted(token)'
  <2>1. CASE token = id
    <3>1. /\ tokens'[token].list = InFlight(token)
          /\ tokens'[token].count = Len(InFlight(token))
          /\ buffer'[token] = NoEntry
      BY <1>1, <1>2, <1>3, <2>1 DEF Rows, TokenRow, TokenIds
    <3>2. InFlight(token)' = InFlight(token) \o <<>>
      BY <1>4, <3>1 DEF InFlight
    <3>3. InFlight(token)' = InFlight(token)
      BY <1>2, <2>1, <3>2, ConcatEmptySeq
    <3>4. Reflects(InFlight(token)', token, documents')
      BY <1>1, <3>3 DEF IInv
    <3>5. Counted(token)'
      BY <1>4, <3>1 DEF Counted
    <3>. QED BY <3>4, <3>5
  <2>2. CASE token # id
    <3>1. tokens'[token] = tokens[token] /\ buffer'[token] = buffer[token]
      BY <1>1, <1>3, <2>2 DEF Rows, TokenRow, TokenIds
    <3>2. InFlight(token)' = InFlight(token)
      BY <3>1 DEF InFlight
    <3>3. Reflects(InFlight(token)', token, documents')
      BY <1>1, <3>2 DEF IInv
    <3>4. Counted(token)'
      BY <3>1 DEF IInv, Counted
    <3>. QED BY <3>3, <3>4
  <2>. QED BY <2>1, <2>2
<1>8. buffer'[NoToken] = NoEntry
  BY <1>1, <1>3 DEF IInv, TokenIds
<1>9. UniqueNumbers(documents)' /\ UniqueNumbers(committed.documents)'
  BY <1>1 DEF IInv, UniqueNumbers, Stored
<1>10. /\ pc' # "committing" /\ EncoderStaysInDomain'
       /\ IndexReflectsDocuments'
  BY <1>1, <1>3, <1>5 DEF IInv, EncoderStaysInDomain, IndexReflectsDocuments, Rows
<1>. QED BY <1>6, <1>7, <1>8, <1>9, <1>10 DEF IInv

\* On clean input the flush loop takes no other step.
LEMMA FlushOnlyUpdates ==
    ASSUME CleanInput, IInv, NEW id \in TokenIds
    PROVE  ~ DropPostings(id) /\ ~ UpdateFails(id) /\ ~ EncodingFails(id)
<1>1. CASE id \notin Pending
  BY <1>1 DEF DropPostings, UpdateFails, EncodingFails, Flushing
<1>2. CASE id \in Pending
  <2>1. /\ id \in Tokens /\ id # NoToken /\ Fetchable(tokens[id])
        /\ Fetched(id) = {tokens[id]} /\ ~ tokens[id].garbled
        /\ ~ GolombAsserts(MergedRow(tokens[id], buffer[id]))
        /\ ~ GolombGarbles(MergedRow(tokens[id], buffer[id]))
    BY <1>2, PendingIsFetchable, RowIsFetched, InFlightIsEncodable DEF MergedOwnRow
  <2>2. ~ DropPostings(id)
    BY <2>1 DEF DropPostings
  <2>3. ~ UpdateFails(id)
    BY <2>1 DEF CleanInput, UpdateFails
  <2>4. ~ EncodingFails(id)
    BY <2>1 DEF EncodingFails
  <2>. QED BY <2>2, <2>3, <2>4
<1>. QED BY <1>1, <1>2

LEMMA FlushEndsStep == IInv /\ FlushEnds => IInv'
<1>. SUFFICES ASSUME IInv, FlushEnds PROVE IInv'
  OBVIOUS
<1>. USE DEF FlushEnds
<1>1. TypeOK'
  BY DEF IInv, TypeOK, Modes
<1>2. UniqueNumbers(documents)' /\ UniqueNumbers(committed.documents)'
  BY DEF IInv, UniqueNumbers, Stored
<1>3. \A token \in Tokens : Reflects(InFlight(token), token, documents)' /\ Counted(token)'
  BY DEF IInv, InFlight, Counted
<1>4. buffer'[NoToken] = NoEntry /\ (Pending = {})'
  BY DEF IInv, Pending
<1>5. EncoderStaysInDomain' /\ IndexReflectsDocuments'
  BY DEF IInv, EncoderStaysInDomain, IndexReflectsDocuments
<1>. QED BY <1>1, <1>2, <1>3, <1>4, <1>5 DEF IInv

LEMMA LoadEndsStep == IInv /\ LoadEnds => IInv'
<1>. SUFFICES ASSUME IInv, LoadEnds PROVE IInv'
  OBVIOUS
<1>. USE DEF LoadEnds
<1>1. TypeOK'
  BY DEF IInv, TypeOK, Modes
<1>2. UniqueNumbers(documents)' /\ UniqueNumbers(committed.documents)'
  BY DEF IInv, UniqueNumbers, Stored
<1>3. \A token \in Tokens : Reflects(InFlight(token), token, documents)' /\ Counted(token)'
  BY DEF IInv, InFlight, Counted
<1>4. buffer'[NoToken] = NoEntry /\ (pc' = "committing" => (Pending = {})')
  BY DEF IInv, Pending
<1>5. EncoderStaysInDomain' /\ IndexReflectsDocuments'
  BY DEF IInv, EncoderStaysInDomain, IndexReflectsDocuments
<1>. QED BY <1>1, <1>2, <1>3, <1>4, <1>5 DEF IInv

\* With nothing left in the buffer the tables alone reflect the documents.
LEMMA CommitStep == IInv /\ Commit => IInv'
<1>. SUFFICES ASSUME IInv, Commit PROVE IInv'
  OBVIOUS
<1>1. /\ pc = "committing" /\ pc' = "idle"
      /\ committed' = [documents |-> documents, tokens |-> tokens]
      /\ UNCHANGED <<compress, documents, tokens, nextId, buffer, buffered, loaded,
                     runs>>
  BY DEF Commit
<1>2. TypeOK'
  BY <1>1 DEF IInv, TypeOK, Modes
<1>3. UniqueNumbers(documents)' /\ UniqueNumbers(committed.documents)'
  BY <1>1 DEF IInv, UniqueNumbers, Stored
<1>4. ASSUME NEW token \in Tokens
      PROVE  /\ Reflects(InFlight(token), token, documents)' /\ Counted(token)'
             /\ Reflects(tokens[token].list, token, documents)
             /\ tokens[token].count = Len(tokens[token].list)
             /\ ~ tokens[token].garbled
  <2>1. buffer[token].list = <<>> /\ tokens[token].list \in Seq(Posting)
    BY <1>1, InFlightType DEF IInv, Pending, TokenIds
  <2>2. InFlight(token) = tokens[token].list
    BY <2>1, ConcatEmptySeq DEF InFlight
  <2>. QED BY <1>1, <2>2 DEF IInv, InFlight, Counted, EncoderStaysInDomain
<1>5. IndexReflectsDocuments'
  BY <1>1, <1>4 DEF IndexReflectsDocuments
<1>6. buffer'[NoToken] = NoEntry /\ EncoderStaysInDomain'
  BY <1>1 DEF IInv, EncoderStaysInDomain
<1>. QED BY <1>1, <1>2, <1>3, <1>4, <1>5, <1>6 DEF IInv

LEMMA StutterStep == IInv /\ UNCHANGED vars => IInv'
<1>. SUFFICES ASSUME IInv, UNCHANGED vars PROVE IInv'
  OBVIOUS
<1>. USE DEF vars
<1>1. TypeOK'
  BY DEF IInv, TypeOK
<1>2. UniqueNumbers(documents)' /\ UniqueNumbers(committed.documents)'
  BY DEF IInv, UniqueNumbers, Stored
<1>3. \A token \in Tokens : Reflects(InFlight(token), token, documents)' /\ Counted(token)'
  BY DEF IInv, InFlight, Counted
<1>4. buffer'[NoToken] = NoEntry /\ (pc' = "committing" => (Pending = {})')
  BY DEF IInv, Pending
<1>5. EncoderStaysInDomain' /\ IndexReflectsDocuments'
  BY DEF IInv, EncoderStaysInDomain, IndexReflectsDocuments
<1>. QED BY <1>1, <1>2, <1>3, <1>4, <1>5 DEF IInv

LEMMA NextInvariant ==
    ASSUME CleanInput, IInv, [Next]_vars
    PROVE  IInv'
<1>1. CASE BeginRun
  BY <1>1, BeginRunStep
<1>2. CASE RecreateDatabase
  BY <1>2, RecreateDatabaseStep
<1>3. ASSUME AddDocument PROVE IInv'
  <2>1. PICK title \in Titles, body \in Bodies :
            \/ InsertDocument(title, body)
            \/ UpdateDocument(title, body)
            \/ RejectDocument(title, body)
    BY <1>3 DEF AddDocument
  <2>2. ~ UpdateDocument(title, body) /\ ~ RejectDocument(title, body)
    BY DEF CleanInput, UpdateDocument, RejectDocument
  <2>. QED BY <2>1, <2>2, InsertDocumentStep
<1>4. ASSUME Flush PROVE IInv'
  <2>1. CASE FlushEnds
    BY <2>1, FlushEndsStep
  <2>2. CASE \E id \in TokenIds : UpdatePostings(id)
    BY <2>2, UpdatePostingsStep
  <2>. QED BY <1>4, <2>1, <2>2, FlushOnlyUpdates DEF Flush
<1>5. CASE LoadEnds
  BY <1>5, LoadEndsStep
<1>6. CASE LoadFails \/ Crash
  BY <1>6, EndWithoutCommitStep DEF LoadFails, Crash
<1>7. CASE Commit
  BY <1>7, CommitStep
<1>8. CASE UNCHANGED vars
  BY <1>8, StutterStep
<1>. QED
  BY <1>1, <1>2, <1>3, <1>4, <1>5, <1>6, <1>7, <1>8 DEF Next, Indexer

-----------------------------------------------------------------------------
(***************************************************************************)
(* The theorems.                                                           *)
(***************************************************************************)

\* On clean input IInv holds in every reachable state.
THEOREM Invariant ==
    ASSUME CleanInput
    PROVE  Spec => []IInv
<1>1. Init => IInv
  BY InitInvariant
<1>2. IInv /\ [Next]_vars => IInv'
  BY NextInvariant
<1>. QED BY <1>1, <1>2, PTL DEF Spec

\* On clean input every variable keeps its type.
THEOREM TypeCorrect ==
    ASSUME CleanInput
    PROVE  Spec => []TypeOK
<1>1. IInv => TypeOK
  BY DEF IInv
<1>. QED BY <1>1, Invariant, PTL

\* On clean input other connections always read the exact index of the
\* documents they read, with the right docs_count: add_document,
\* update_postings and the end of the transaction lose, duplicate and misplace
\* nothing, however many documents, tokens, runs, losses and batches there are.
THEOREM IndexIsExact ==
    ASSUME CleanInput
    PROVE  Spec => []IndexReflectsDocuments
<1>1. IInv => IndexReflectsDocuments
  BY DEF IInv
<1>. QED BY <1>1, Invariant, PTL

\* On clean input the tokens table and the buffer together always hold the
\* index of the documents added so far (wiser.c:53-79).
THEOREM BufferIsExact ==
    ASSUME CleanInput
    PROVE  Spec => []NothingLostInFlight
<1>1. IInv => NothingLostInFlight
  BY DEF IInv, NothingLostInFlight, InFlight
<1>. QED BY <1>1, Invariant, PTL

\* On clean input calc_golomb_params never meets its assertion
\* (postings.c:117) and encode_postings_golomb never a negative gap.
THEOREM EncoderIsSafe ==
    ASSUME CleanInput
    PROVE  Spec => []EncoderStaysInDomain
<1>1. IInv => EncoderStaysInDomain
  BY DEF IInv
<1>. QED BY <1>1, Invariant, PTL

-----------------------------------------------------------------------------
(***************************************************************************)
(* On clean input the committed tables implement SearchIndex.              *)
(***************************************************************************)

\* An insertion-only transaction: what is published stays part of it.
KeepsDocuments ==
    \A title \in Stored(committed.documents) :
        documents[title] = committed.documents[title]

RInv == IInv /\ KeepsDocuments

LEMMA RInvInit == Init => RInv
<1>1. Init => KeepsDocuments
  BY DEF Init, KeepsDocuments
<1>. QED BY <1>1, InitInvariant DEF RInv

\* A step of clean input publishes the transaction, recreates the database, or
\* leaves the published documents as they are.
LEMMA KeepsDocumentsStep ==
    ASSUME CleanInput, RInv, [Next]_vars
    PROVE  KeepsDocuments'
<1>1. CASE BeginRun
  BY <1>1 DEF BeginRun, StartRun, KeepsDocuments
<1>2. CASE RecreateDatabase
  BY <1>2 DEF RecreateDatabase, StartRun, KeepsDocuments
<1>3. ASSUME AddDocument PROVE KeepsDocuments'
  <2>1. PICK title \in Titles, body \in Bodies :
            \/ InsertDocument(title, body)
            \/ UpdateDocument(title, body)
            \/ RejectDocument(title, body)
    BY <1>3 DEF AddDocument
  <2>2. InsertDocument(title, body)
    BY <2>1 DEF CleanInput, UpdateDocument, RejectDocument
  <2>3. /\ documents' = [documents EXCEPT ![title] = [id |-> nextId, body |-> body]]
        /\ documents[title].id = 0
        /\ committed' = committed
        /\ documents \in Documents
    BY <2>2 DEF InsertDocument, BufferText, RInv, IInv, TypeOK
  <2>4. ASSUME NEW x \in Stored(committed.documents)
        PROVE  x \in Titles /\ x # title
    BY <2>3 DEF RInv, KeepsDocuments, Stored
  <2>. QED BY <2>3, <2>4 DEF RInv, KeepsDocuments, Stored, Documents
<1>4. CASE Flush
  <2>1. UNCHANGED <<committed, documents>>
    BY <1>4 DEF Flush, UpdatePostings, DropPostings, UpdateFails,
                EncodingFails, Flushing, FlushEnds
  <2>. QED BY <2>1 DEF RInv, KeepsDocuments, Stored
<1>5. CASE LoadEnds
  BY <1>5 DEF LoadEnds, RInv, KeepsDocuments, Stored
<1>6. CASE LoadFails \/ Crash
  BY <1>6 DEF LoadFails, Crash, EndWithoutCommit, KeepsDocuments
<1>7. CASE Commit
  BY <1>7 DEF Commit, KeepsDocuments
<1>8. CASE UNCHANGED vars
  BY <1>8 DEF vars, RInv, KeepsDocuments, Stored
<1>. QED
  BY <1>1, <1>2, <1>3, <1>4, <1>5, <1>6, <1>7, <1>8 DEF Next, Indexer

LEMMA RInvariant ==
    ASSUME CleanInput
    PROVE  Spec => []RInv
<1>1. RInv /\ [Next]_vars => RInv'
  BY NextInvariant, KeepsDocumentsStep DEF RInv
<1>. QED BY <1>1, RInvInit, PTL DEF Spec

\* How a step changes what is published.
LEMMA PublishedStep ==
    ASSUME CleanInput, RInv, [Next]_vars, ~ RecreateDatabase
    PROVE  /\ \A title \in Stored(committed.documents) :
                  committed'.documents[title] = committed.documents[title]
           /\ Stored(committed.documents) \subseteq Stored(committed'.documents)
<1>1. committed' = committed \/ committed'.documents = documents
  BY DEF Next, vars, BeginRun, StartRun, Indexer, AddDocument, InsertDocument,
         UpdateDocument, RejectDocument, BufferText, Flush, UpdatePostings,
         DropPostings, UpdateFails, EncodingFails, Flushing, FlushEnds,
         LoadEnds, LoadFails, Crash, EndWithoutCommit, Commit
<1>. QED BY <1>1 DEF RInv, KeepsDocuments, Stored

-----------------------------------------------------------------------------
\* What the committed lists answer is what SearchIndex defines.
LEMMA FoundIsAnswer ==
    IInv => FoundTitles = Abstract!Answer(PublishedCorpus)
<1>. SUFFICES ASSUME IInv, NEW token \in Tokens, NEW title \in Titles
              PROVE  (/\ committed.documents[title].id # 0
                      /\ committed.documents[title].id
                             \in DocsIn(committed.tokens[token].list))
                     <=> \E document \in PublishedCorpus :
                             /\ document.title = title
                             /\ Abstract!Occurs(token, document.body)
  BY DEF FoundTitles, Abstract!Answer
<1>. DEFINE table == committed.documents
            list == committed.tokens[token].list
<1>1. /\ Reflects(list, token, table)
      /\ \A x, y \in Stored(table) : table[x].id = table[y].id => x = y
  BY DEF IInv, IndexReflectsDocuments, UniqueNumbers
<1>2. (\E document \in PublishedCorpus : /\ document.title = title
                                         /\ Abstract!Occurs(token, document.body))
          <=> title \in Stored(table) /\ Occurs(token, table[title].body)
  <2>1. \A body : Abstract!Occurs(token, body) <=> Occurs(token, body)
    BY DEF Occurs, Abstract!Occurs
  <2>2. ASSUME NEW document \in PublishedCorpus, document.title = title
        PROVE  title \in Stored(table) /\ document.body = table[title].body
    <3>1. PICK x \in Stored(table) : document = [title |-> x, body |-> table[x].body]
      BY DEF PublishedCorpus
    <3>. QED BY <2>2, <3>1
  <2>3. ASSUME title \in Stored(table)
        PROVE  \E document \in PublishedCorpus :
                   document.title = title /\ document.body = table[title].body
    <3>1. [title |-> title, body |-> table[title].body] \in PublishedCorpus
      BY <2>3 DEF PublishedCorpus
    <3>. QED BY <3>1
  <2>. QED BY <2>1, <2>2, <2>3
<1>3. title \in Stored(table) <=> table[title].id # 0
  BY DEF Stored
<1>4. ASSUME title \in Stored(table), table[title].id \in DocsIn(list)
      PROVE  Occurs(token, table[title].body)
  <2>1. PICK i \in 1..Len(list) : list[i].doc = table[title].id
    BY <1>4 DEF DocsIn
  <2>2. PICK x \in Stored(table) : table[x].id = list[i].doc /\ Occurs(token, table[x].body)
    BY <1>1 DEF Reflects, Backed
  <2>. QED BY <1>1, <1>4, <2>1, <2>2
<1>5. ASSUME title \in Stored(table), Occurs(token, table[title].body)
      PROVE  table[title].id \in DocsIn(list)
  BY <1>1, <1>5 DEF Reflects
<1>. QED BY <1>2, <1>3, <1>4, <1>5

LEMMA CorpusHasOneBodyPerTitle == Abstract!OneBodyPerTitle(PublishedCorpus)
<1>. SUFFICES ASSUME NEW x \in PublishedCorpus, NEW y \in PublishedCorpus,
                     x.title = y.title
              PROVE  x = y
  BY DEF Abstract!OneBodyPerTitle
<1>1. PICK t \in Stored(committed.documents) :
        x = [title |-> t, body |-> committed.documents[t].body]
  BY DEF PublishedCorpus
<1>2. PICK u \in Stored(committed.documents) :
        y = [title |-> u, body |-> committed.documents[u].body]
  BY DEF PublishedCorpus
<1>. QED BY <1>1, <1>2

LEMMA AbstractInit == Init => Abstract!Init
<1>. SUFFICES ASSUME Init PROVE Abstract!Init
  OBVIOUS
<1>1. PublishedCorpus = {}
  BY EmptyDatabase DEF Init, PublishedCorpus
<1>2. FoundTitles = Abstract!Answer(PublishedCorpus)
  BY InitInvariant, FoundIsAnswer
<1>. QED BY <1>1, <1>2 DEF Abstract!Init

\* Every step of the indexer publishes, recreates the database, or stutters.
LEMMA AbstractStep ==
    ASSUME CleanInput, RInv, RInv', [Next]_vars
    PROVE  [Abstract!Next]_<<PublishedCorpus, FoundTitles>>
<1>1. FoundTitles' = Abstract!Answer(PublishedCorpus)'
  <2>1. (IInv => FoundTitles = Abstract!Answer(PublishedCorpus))'
    BY FoundIsAnswer, PTL
  <2>. QED BY <2>1 DEF RInv
<1>2. CASE RecreateDatabase
  <2>1. PublishedCorpus' = {}
    BY <1>2, EmptyDatabase DEF RecreateDatabase, StartRun, PublishedCorpus
  <2>. QED BY <1>1, <2>1 DEF Abstract!Next, Abstract!Reset
<1>3. CASE ~ RecreateDatabase
  <2>1. PublishedCorpus \subseteq PublishedCorpus'
    BY <1>3, PublishedStep DEF PublishedCorpus
  <2>2. Abstract!OneBodyPerTitle(PublishedCorpus)'
    BY CorpusHasOneBodyPerTitle, PTL
  <2>. QED BY <1>1, <2>1, <2>2 DEF Abstract!Next, Abstract!Publish
<1>. QED BY <1>2, <1>3

\* On clean input the database implements SearchIndex: the documents of a run
\* become visible all at once, together with exactly the answers that belong
\* to them, and never before (begin1, commit1, rollback1).
THEOREM DatabaseImplementsSearchIndex ==
    ASSUME CleanInput
    PROVE  Spec => ImplementsSearchIndex
<1>1. Init => Abstract!Init
  BY AbstractInit
<1>2. RInv /\ RInv' /\ [Next]_vars =>
          [Abstract!Next]_<<PublishedCorpus, FoundTitles>>
  BY AbstractStep
<1>. QED
  BY <1>1, <1>2, RInvariant, PTL DEF Spec, ImplementsSearchIndex, Abstract!Spec

-----------------------------------------------------------------------------
(***************************************************************************)
(* Document numbers.  The postings play no part in them.                   *)
(***************************************************************************)

NumbersIn(table) ==
    /\ table \in Documents
    /\ \A t1, t2 \in Stored(table) :
           /\ table[t1].id < nextId
           /\ table[t1].id = table[t2].id => t1 = t2

\* The open transaction has every published document under its number.
SameNumbers ==
    \A title \in Stored(committed.documents) :
        documents[title].id = committed.documents[title].id

\* That a commit keeps the published numbers needs that the open transaction
\* has kept them so far.
NInv ==
    /\ nextId \in Nat \ {0}
    /\ NumbersIn(documents)
    /\ NumbersIn(committed.documents)
    /\ SameNumbers

LEMMA NoDocumentsNumbers ==
    NoDocuments \in Documents /\ Stored(NoDocuments) = {}
BY DEF NoDocuments, NoDocument, Stored, Documents

LEMMA NInvInit == Init => NInv
BY NoDocumentsNumbers DEF Init, NInv, NumbersIn, SameNumbers

\* A step that leaves both tables and the counter alone, publishes the
\* transaction or goes back to the published tables.
LEMMA TablesMove ==
    ASSUME NInv, nextId' = nextId,
           documents' \in {documents, committed.documents},
           committed'.documents \in {documents, committed.documents},
           committed'.documents = documents => documents' = documents
    PROVE  NInv'
BY DEF NInv, NumbersIn, SameNumbers, Stored

LEMMA RecreateNumbers == NInv /\ RecreateDatabase => NInv'
<1>. SUFFICES ASSUME NInv, RecreateDatabase PROVE NInv'
  OBVIOUS
<1>1. /\ committed'.documents = NoDocuments
      /\ documents' = NoDocuments
      /\ nextId' = 1
  BY DEF RecreateDatabase, StartRun
<1>. QED BY <1>1, NoDocumentsNumbers DEF NInv, NumbersIn, SameNumbers, Stored

LEMMA InsertNumbers ==
    ASSUME NInv, NEW title \in Titles, NEW body \in Bodies,
           InsertDocument(title, body)
    PROVE  NInv'
<1>1. /\ documents' = [documents EXCEPT ![title] = [id |-> nextId, body |-> body]]
      /\ documents[title].id = 0
      /\ documents \in Documents
      /\ nextId \in Nat \ {0} /\ nextId' = nextId + 1
      /\ committed' = committed
      /\ body \in Seq(Tokens)
  BY BodiesAssumption DEF InsertDocument, BufferText, NInv, NumbersIn
<1>2. \A x \in Titles : documents'[x].id = IF x = title THEN nextId ELSE documents[x].id
  BY <1>1 DEF Documents
<1>3. /\ \A x \in Stored(documents)' : x \in Titles /\ (x = title \/ x \in Stored(documents))
      /\ \A x \in Stored(documents) : documents[x].id \in Nat /\ documents[x].id < nextId
  BY <1>1, <1>2 DEF Stored, NInv, NumbersIn, Documents
<1>4. documents' \in Documents
  BY <1>1 DEF Documents
<1>5. NumbersIn(documents)'
  <2>1. ASSUME NEW t1 \in Stored(documents)', NEW t2 \in Stored(documents)'
        PROVE  /\ documents'[t1].id < nextId'
               /\ documents'[t1].id = documents'[t2].id => t1 = t2
    <3>1. t1 \in Titles /\ t2 \in Titles
      BY <1>3
    <3>2. /\ t1 # title => /\ t1 \in Stored(documents)
                           /\ documents[t1].id \in Nat
                           /\ documents[t1].id < nextId
          /\ t2 # title => /\ t2 \in Stored(documents)
                           /\ documents[t2].id \in Nat
                           /\ documents[t2].id < nextId
      BY <1>3
    <3>3. documents'[t1].id < nextId'
      BY <1>1, <1>2, <3>1, <3>2
    <3>4. ASSUME documents'[t1].id = documents'[t2].id PROVE t1 = t2
      <4>1. CASE t1 = title \/ t2 = title
        BY <1>1, <1>2, <3>1, <3>2, <3>4, <4>1
      <4>2. CASE t1 # title /\ t2 # title
        BY <1>2, <3>1, <3>2, <3>4, <4>2 DEF NInv, NumbersIn
      <4>. QED BY <4>1, <4>2
    <3>. QED BY <3>3, <3>4
  <2>. QED BY <1>4, <2>1 DEF NumbersIn
<1>6. NumbersIn(committed.documents)'
  <2>1. \A x \in Stored(committed.documents) :
            committed.documents[x].id \in Nat
    BY DEF NInv, NumbersIn, Stored, Documents
  <2>. QED BY <1>1, <2>1 DEF NInv, NumbersIn, Stored
<1>7. SameNumbers'
  <2>1. ASSUME NEW x \in Stored(committed.documents) PROVE x \in Titles /\ x # title
    BY <1>1 DEF NInv, SameNumbers, Stored
  <2>. QED BY <1>1, <1>2, <2>1 DEF NInv, SameNumbers, Stored
<1>. QED BY <1>1, <1>5, <1>6, <1>7 DEF NInv

LEMMA UpdateNumbers ==
    ASSUME NInv, NEW title \in Titles, NEW body \in Bodies,
           UpdateDocument(title, body)
    PROVE  NInv'
<1>1. /\ documents' = [documents EXCEPT ![title].body = body]
      /\ documents \in Documents
      /\ nextId' = nextId /\ committed' = committed
      /\ body \in Seq(Tokens)
  BY BodiesAssumption DEF UpdateDocument, BufferText, NInv, NumbersIn
<1>2. documents' \in Documents /\ \A x \in Titles : documents'[x].id = documents[x].id
  BY <1>1 DEF Documents
<1>. QED BY <1>1, <1>2 DEF NInv, NumbersIn, SameNumbers, Stored

LEMMA NInvNext == NInv /\ [Next]_vars => NInv'
<1>. SUFFICES ASSUME NInv, [Next]_vars PROVE NInv'
  OBVIOUS
<1>1. CASE BeginRun
  BY <1>1, TablesMove DEF BeginRun, StartRun
<1>2. CASE RecreateDatabase
  BY <1>2, RecreateNumbers
<1>3. ASSUME AddDocument PROVE NInv'
  <2>1. PICK title \in Titles, body \in Bodies :
            \/ InsertDocument(title, body)
            \/ UpdateDocument(title, body)
            \/ RejectDocument(title, body)
    BY <1>3 DEF AddDocument
  <2>2. CASE RejectDocument(title, body)
    BY <2>2, TablesMove DEF RejectDocument, BufferText
  <2>. QED BY <2>1, <2>2, InsertNumbers, UpdateNumbers
<1>4. CASE Flush
  <2>1. UNCHANGED <<committed, documents, nextId>>
    BY <1>4 DEF Flush, UpdatePostings, DropPostings, UpdateFails,
                EncodingFails, Flushing, FlushEnds
  <2>. QED BY <2>1, TablesMove
<1>5. CASE LoadEnds
  BY <1>5, TablesMove DEF LoadEnds
<1>6. CASE LoadFails \/ Crash
  BY <1>6, TablesMove DEF LoadFails, Crash, EndWithoutCommit
<1>7. CASE Commit
  BY <1>7, TablesMove DEF Commit
<1>8. CASE UNCHANGED vars
  BY <1>8, TablesMove DEF vars
<1>. QED
  BY <1>1, <1>2, <1>3, <1>4, <1>5, <1>6, <1>7, <1>8 DEF Next, Indexer

LEMMA NumbersInvariant == Spec => []NInv
BY NInvInit, NInvNext, PTL DEF Spec

\* A published document keeps its number, repeated titles, lost runs and
\* crashes included, until the database is recreated: the postings that name
\* it stay meaningful (db_add_document1 updates the row it finds).
THEOREM PublishedNumbersStay == Spec => NumbersStay
<1>1. NInv /\ [Next]_vars => [RecreateDatabase \/ KeepsNumbers]_vars
  <2>. SUFFICES ASSUME NInv, Next, ~ RecreateDatabase PROVE KeepsNumbers
    BY DEF vars
  <2>1. CASE Commit
    BY <2>1 DEF Commit, KeepsNumbers, NInv, SameNumbers
  <2>2. CASE BeginRun
    BY <2>2 DEF BeginRun, StartRun, KeepsNumbers
  <2>3. CASE AddDocument
    <3>1. committed' = committed
      BY <2>3 DEF AddDocument, InsertDocument, UpdateDocument, RejectDocument,
                  BufferText
    <3>. QED BY <3>1 DEF KeepsNumbers
  <2>4. CASE Flush
    <3>1. committed' = committed
      BY <2>4 DEF Flush, UpdatePostings, DropPostings, UpdateFails,
                  EncodingFails, Flushing, FlushEnds
    <3>. QED BY <3>1 DEF KeepsNumbers
  <2>5. CASE LoadEnds \/ LoadFails \/ Crash
    <3>1. committed' = committed
      BY <2>5 DEF LoadEnds, LoadFails, Crash, EndWithoutCommit
    <3>. QED BY <3>1 DEF KeepsNumbers
  <2>. QED BY <2>1, <2>2, <2>3, <2>4, <2>5 DEF Next, Indexer
<1>. QED BY <1>1, NumbersInvariant, PTL DEF Spec, NumbersStay

-----------------------------------------------------------------------------
(***************************************************************************)
(* Postings.  A posting is in the table or in the buffer of the open       *)
(* transaction until the transaction ends, or its row is cut or garbled.   *)
(***************************************************************************)
PostingsInFlight(token) ==
    PostingsIn(tokens[token].list) \cup PostingsIn(buffer[token].list)

TrueOf(postings, token, table) ==
    \A posting \in postings :
        posting.doc # 0 =>
            \/ Backed(posting, token, table)
            \/ BelongsToRepeated(posting, table)

\* The posting that indexing document yields for token.
OwnPosting(document, token) ==
    [doc |-> document.id, pos |-> Positions(document.body, token)]

Findable(postings, token, table) ==
    \A title \in Stored(table) :
        Occurs(token, table[title].body) =>
            OwnPosting(table[title], token) \in postings

\* The row can be written over, and has never lost a posting.
Sound(row) == /\ Fetchable(row)
              /\ ~ row.cut
              /\ compress = "none" \/ ~ row.suspect

ListsInOrder ==
    /\ \A token \in Tokens : /\ InOrder(tokens[token].list)
                             /\ InOrder(committed.tokens[token].list)
    /\ \A id \in TokenIds : InOrder(buffer[id].list)

\* What is published is still in the table, what the table has lost was cut or
\* garbled.
StillThere ==
    \A token \in Tokens :
        \/ tokens[token].cut \/ tokens[token].garbled
        \/ PostingsIn(committed.tokens[token].list) \subseteq PostingsIn(tokens[token].list)

InFlightIsTrue ==
    \A token \in Tokens : TrueOf(PostingsInFlight(token), token, documents)

InFlightIsComplete ==
    pc \notin {"aborted", "stuck"} =>
        \A token \in Tokens \ RefusedTokens :
            Sound(tokens[token]) => Findable(PostingsInFlight(token), token, documents)

\* The two properties of the published tables, of any tables.
TablesAreTrue(database) ==
    \A token \in Tokens :
        TrueOf(PostingsIn(database.tokens[token].list), token, database.documents)

TablesAreComplete(database) ==
    \A token \in Tokens \ RefusedTokens :
        Sound(database.tokens[token]) =>
            Findable(PostingsIn(database.tokens[token].list), token, database.documents)

(***************************************************************************)
(* The inductive invariant.  What is published was put together in a       *)
(* transaction: the properties of the published tables need the same ones  *)
(* of the tables and the buffer of the transaction, and these need lists   *)
(* in order, without which merging them may lose postings.  That a list    *)
(* which is not suspect is not garbled is the second invariant, SInv.      *)
(***************************************************************************)
FInv ==
    /\ TypeOK
    /\ NInv
    /\ ListsInOrder
    /\ StillThere
    /\ InFlightIsTrue
    /\ InFlightIsComplete
    /\ pc = "committing" => Pending = {}
    /\ TablesAreTrue(committed)
    /\ TablesAreComplete(committed)

\* The numbers of a list that was only ever extended by new documents.
Numbered(list) ==
    /\ Ascending(list)
    /\ \A i \in 1..Len(list) : list[i].doc \in 1..(nextId - 1)

\* A row that is garbled is suspect, one that is not suspect can be encoded
\* together with the entry that will be merged into it.
Clear(row, entry) ==
    /\ row.garbled => compress = "golomb" /\ row.suspect
    /\ ~ row.suspect =>
           /\ row.count = Len(row.list)
           /\ entry.count = Len(entry.list)
           /\ Numbered(row.list \o entry.list)

SInv ==
    \A token \in Tokens : /\ Clear(tokens[token], buffer[token])
                          /\ Clear(committed.tokens[token], NoEntry)

LEMMA PublishedTables ==
    /\ TablesAreTrue(committed) => PublishedPostingsAreTrue
    /\ TablesAreComplete(committed) => StoredDocumentsAreFindable
<1>1. TablesAreTrue(committed) => PublishedPostingsAreTrue
  BY DEF PublishedPostingsAreTrue, TablesAreTrue, TrueOf, PostingsIn
<1>2. TablesAreComplete(committed) => StoredDocumentsAreFindable
  BY DEF StoredDocumentsAreFindable, TablesAreComplete, Sound, Findable, OwnPosting,
         PostingsIn
<1>. QED BY <1>1, <1>2

\* Nothing is in an empty list.
LEMMA EmptyList ==
    /\ <<>> \in Seq(Posting)
    /\ InOrder(<<>>)
    /\ PostingsIn(<<>>) = {}
BY DEF InOrder, PostingsIn

LEMMA EmptyTables ==
    /\ NoDocuments \in Documents /\ Stored(NoDocuments) = {}
    /\ NoRows \in Rows
    /\ \A token \in Tokens : NoRows[token].list = <<>>
    /\ EmptyBuffer \in [TokenIds -> [count : Nat, list : Seq(Posting)]]
    /\ \A id \in TokenIds : EmptyBuffer[id].list = <<>>
<1>1. NoDocuments \in Documents /\ Stored(NoDocuments) = {}
  BY NoDocumentsNumbers
<1>2. NoRows \in Rows /\ \A token \in Tokens : NoRows[token].list = <<>>
  BY EmptyList DEF NoRows, NoRow, Rows, TokenRow
<1>3. /\ EmptyBuffer \in [TokenIds -> [count : Nat, list : Seq(Posting)]]
      /\ \A id \in TokenIds : EmptyBuffer[id].list = <<>>
  BY EmptyList DEF EmptyBuffer, NoEntry
<1>. QED BY <1>1, <1>2, <1>3

-----------------------------------------------------------------------------
(***************************************************************************)
(* A transaction that begins.                                              *)
(***************************************************************************)
LEMMA FreshTransaction ==
    ASSUME NEW database \in [documents : Documents, tokens : Rows],
           TablesAreTrue(database), TablesAreComplete(database),
           \A token \in Tokens : InOrder(database.tokens[token].list),
           NInv', compress' = compress, compress \in {"none", "golomb"},
           committed' = database,
           documents' = database.documents,
           tokens' = database.tokens,
           buffer' = EmptyBuffer,
           buffered' \in Nat, loaded' \in Nat, runs' \in Nat,
           pc' \in {"idle", "loading"}
    PROVE  FInv'
<1>1. TypeOK'
  BY EmptyTables DEF TypeOK, Modes, NInv
<1>2. \A id \in TokenIds : buffer'[id].list = <<>>
  BY EmptyTables
<1>3. ListsInOrder'
  BY <1>2, EmptyList DEF ListsInOrder
<1>4. StillThere'
  BY DEF StillThere
<1>5. ASSUME NEW token \in Tokens
      PROVE  PostingsInFlight(token)' = PostingsIn(database.tokens[token].list)
  BY <1>2, EmptyList DEF PostingsInFlight, TokenIds
<1>6. InFlightIsTrue'
  BY <1>5 DEF InFlightIsTrue, TablesAreTrue
<1>7. InFlightIsComplete'
  BY <1>5 DEF InFlightIsComplete, TablesAreComplete, Sound, Fetchable, Findable
<1>8. TablesAreTrue(committed)' /\ TablesAreComplete(committed)'
  BY DEF TablesAreTrue, TablesAreComplete, TrueOf, Sound, Fetchable, Findable
<1>. QED BY <1>1, <1>3, <1>4, <1>6, <1>7, <1>8 DEF FInv

LEMMA PublishedAgain ==
    ASSUME FInv, NInv', compress' = compress,
           committed' = committed,
           documents' = committed.documents,
           tokens' = committed.tokens,
           buffer' = EmptyBuffer,
           buffered' \in Nat, loaded' \in Nat, runs' \in Nat,
           pc' \in {"idle", "loading"}
    PROVE  FInv'
<1>1. /\ committed \in [documents : Documents, tokens : Rows]
      /\ TablesAreTrue(committed) /\ TablesAreComplete(committed)
      /\ \A token \in Tokens : InOrder(committed.tokens[token].list)
  BY DEF FInv, TypeOK, ListsInOrder
<1>2. PICK database \in [documents : Documents, tokens : Rows] : database = committed
  BY <1>1
<1>3. /\ TablesAreTrue(database) /\ TablesAreComplete(database)
      /\ \A token \in Tokens : InOrder(database.tokens[token].list)
  BY <1>1, <1>2
<1>. QED BY <1>2, <1>3, FreshTransaction DEF FInv, TypeOK

LEMMA EmptyDatabaseIsSound ==
    LET database == [documents |-> NoDocuments, tokens |-> NoRows]
    IN  /\ database \in [documents : Documents, tokens : Rows]
        /\ TablesAreTrue(database) /\ TablesAreComplete(database)
        /\ \A token \in Tokens : InOrder(database.tokens[token].list)
<1>. DEFINE database == [documents |-> NoDocuments, tokens |-> NoRows]
<1>1. \A token \in Tokens : database.tokens[token].list = <<>>
  BY EmptyTables
<1>2. Stored(database.documents) = {}
  BY EmptyTables
<1>. QED
  BY <1>1, <1>2, EmptyTables, EmptyList
  DEF TablesAreTrue, TablesAreComplete, TrueOf, Findable

LEMMA FInvInit == Init => FInv
<1>. SUFFICES ASSUME Init PROVE FInv
  OBVIOUS
<1>1. NInv
  BY NInvInit
<1>2. /\ committed = [documents |-> NoDocuments, tokens |-> NoRows]
      /\ documents = NoDocuments /\ tokens = NoRows /\ buffer = EmptyBuffer
      /\ compress \in {"none", "golomb"} /\ nextId = 1
      /\ buffered = 0 /\ loaded = 0 /\ runs = 0 /\ pc = "idle"
  BY DEF Init
<1>3. TypeOK
  BY <1>2, EmptyTables DEF TypeOK, Modes
<1>4. /\ \A token \in Tokens : tokens[token].list = <<>> /\ committed.tokens[token].list = <<>>
      /\ \A id \in TokenIds : buffer[id].list = <<>>
  BY <1>2, EmptyTables
<1>5. ListsInOrder /\ StillThere
  BY <1>4, EmptyList DEF ListsInOrder, StillThere
<1>6. \A token \in Tokens : PostingsInFlight(token) = {}
  BY <1>4, EmptyList DEF PostingsInFlight, TokenIds
<1>7. InFlightIsTrue /\ InFlightIsComplete
  BY <1>2, <1>6, EmptyTables DEF InFlightIsTrue, InFlightIsComplete, TrueOf, Findable
<1>8. TablesAreTrue(committed) /\ TablesAreComplete(committed)
  BY <1>2, EmptyDatabaseIsSound
<1>. QED BY <1>1, <1>2, <1>3, <1>5, <1>7, <1>8 DEF FInv

LEMMA BeginRunKeeps == FInv /\ NInv' /\ BeginRun => FInv'
<1>. SUFFICES ASSUME FInv, NInv', BeginRun PROVE FInv'
  OBVIOUS
<1>. QED BY PublishedAgain DEF BeginRun, StartRun, FInv, TypeOK

LEMMA RecreateKeeps == FInv /\ NInv' /\ RecreateDatabase => FInv'
<1>. SUFFICES ASSUME FInv, NInv', RecreateDatabase PROVE FInv'
  OBVIOUS
<1>. DEFINE database == [documents |-> NoDocuments, tokens |-> NoRows]
<1>1. /\ committed' = database /\ documents' = database.documents
      /\ tokens' = database.tokens /\ buffer' = EmptyBuffer
      /\ buffered' = 0 /\ loaded' = 0 /\ runs' \in Nat /\ pc' = "loading"
      /\ compress' = compress /\ compress \in {"none", "golomb"}
  BY DEF RecreateDatabase, StartRun, FInv, TypeOK
<1>2. /\ database \in [documents : Documents, tokens : Rows]
      /\ TablesAreTrue(database) /\ TablesAreComplete(database)
      /\ \A token \in Tokens : InOrder(database.tokens[token].list)
  BY EmptyDatabaseIsSound
<1>. HIDE DEF database
<1>. QED BY <1>1, <1>2, FreshTransaction

LEMMA RunIsLost == FInv /\ NInv' /\ EndWithoutCommit => FInv'
<1>. SUFFICES ASSUME FInv, NInv', EndWithoutCommit PROVE FInv'
  OBVIOUS
<1>. QED BY PublishedAgain DEF EndWithoutCommit, FInv, TypeOK

-----------------------------------------------------------------------------
(***************************************************************************)
(* A document is added.                                                    *)
(***************************************************************************)

\* What one text adds to the buffer.
LEMMA TextEntry ==
    ASSUME TypeOK, NEW docId \in Nat, NEW body \in Seq(Tokens), NEW id \in TokenIds
    PROVE  LET entry == TextToPostings(docId, body)[id]
           IN  /\ entry.count \in Nat
               /\ entry.list \in Seq(Posting)
               /\ InOrder(entry.list)
               /\ \A posting \in PostingsIn(entry.list) : posting.doc = docId
               /\ docId # 0 /\ id \in Tokens =>
                      PostingsIn(entry.list) =
                          IF Occurs(id, body)
                          THEN {[doc |-> docId, pos |-> Positions(body, id)]} ELSE {}
<1>. DEFINE pos == TokenPositions(docId, body, id)
            entry == TextToPostings(docId, body)[id]
            posting == [doc |-> docId, pos |-> pos]
<1>1. entry = IF pos = {} THEN NoEntry
              ELSE [count |-> EntryCount(docId, id), list |-> <<posting>>]
  BY DEF TextToPostings
<1>2. pos \subseteq Nat
  <2>1. Len(body) \in Nat
    OBVIOUS
  <2>. QED BY <2>1 DEF TokenPositions
<1>3. EntryCount(docId, id) \in Nat
  BY DEF EntryCount, TypeOK, Rows, TokenRow, TokenIds
<1>4. docId # 0 /\ id \in Tokens => pos = Positions(body, id)
  BY DEF TokenPositions, TokenId, Positions
<1>5. Positions(body, id) = {} <=> ~ Occurs(id, body)
  BY DEF Positions, Occurs
<1>. HIDE DEF pos, entry
<1>6. CASE pos = {}
  <2>1. entry.count = 0 /\ entry.list = <<>>
    BY <1>1, <1>6 DEF NoEntry
  <2>. QED BY <1>4, <1>5, <1>6, <2>1, EmptyList DEF entry
<1>7. CASE pos # {}
  <2>1. entry.count \in Nat /\ entry.list = <<posting>>
    BY <1>1, <1>3, <1>7
  <2>2. posting \in Posting
    BY <1>2 DEF Posting
  <2>. HIDE DEF posting
  <2>3. /\ entry.list \in Seq(Posting) /\ Len(entry.list) = 1 /\ entry.list[1] = posting
    BY <2>1, <2>2
  <2>4. PostingsIn(entry.list) = {posting}
    BY <2>3 DEF PostingsIn
  <2>5. InOrder(entry.list)
    BY <2>3 DEF InOrder
  <2>6. posting.doc = docId /\ posting = [doc |-> docId, pos |-> pos]
    BY DEF posting
  <2>. QED BY <1>4, <1>5, <1>7, <2>1, <2>3, <2>4, <2>5, <2>6 DEF entry
<1>. QED BY <1>6, <1>7

\* The buffer afterwards: it has its postings and those of the text.
LEMMA BufferTextEffect ==
    ASSUME TypeOK, ListsInOrder, NEW docId \in Nat, NEW body \in Seq(Tokens),
           BufferText(docId, body)
    PROVE  /\ buffer' \in [TokenIds -> [count : Nat, list : Seq(Posting)]]
           /\ \A id \in TokenIds :
                  /\ InOrder(buffer'[id].list)
                  /\ PostingsIn(buffer'[id].list) =
                         PostingsIn(buffer[id].list)
                             \cup PostingsIn(TextToPostings(docId, body)[id].list)
<1>. DEFINE added == TextToPostings(docId, body)
<1>1. buffer' = [id \in TokenIds |->
                    [count |-> buffer[id].count + added[id].count,
                     list |-> Merge(buffer[id].list, added[id].list)]]
  BY DEF BufferText, MergeInvertedIndex
<1>2. ASSUME NEW id \in TokenIds
      PROVE  /\ buffer[id].count \in Nat /\ buffer[id].list \in Seq(Posting)
             /\ InOrder(buffer[id].list)
             /\ added[id].count \in Nat /\ added[id].list \in Seq(Posting)
             /\ InOrder(added[id].list)
  BY TextEntry DEF TypeOK, ListsInOrder
<1>. HIDE DEF added
<1>3. ASSUME NEW id \in TokenIds
      PROVE  /\ buffer'[id].count \in Nat
             /\ buffer'[id].count = buffer[id].count + added[id].count
             /\ buffer'[id].list = Merge(buffer[id].list, added[id].list)
             /\ buffer'[id].list \in Seq(Posting)
             /\ InOrder(buffer'[id].list)
             /\ PostingsIn(buffer'[id].list) =
                    PostingsIn(buffer[id].list) \cup PostingsIn(added[id].list)
  <2>1. /\ buffer'[id].count = buffer[id].count + added[id].count
        /\ buffer'[id].list = Merge(buffer[id].list, added[id].list)
    BY <1>1
  <2>2. buffer'[id].count \in Nat
    BY <1>2, <2>1
  <2>. QED BY <1>2, <2>1, <2>2, MergeKeeps
<1>4. buffer' \in [TokenIds -> [count : Nat, list : Seq(Posting)]]
  <2>1. \A id \in TokenIds :
            [count |-> buffer[id].count + added[id].count,
             list |-> Merge(buffer[id].list, added[id].list)]
                \in [count : Nat, list : Seq(Posting)]
    BY <1>3
  <2>. QED BY <1>1, <2>1
<1>. QED BY <1>3, <1>4 DEF added

\* A row is made for a token or marked, and nothing else is changed in the table.
LEMMA StoreTokensEffect ==
    ASSUME TypeOK, NEW docId, NEW body, BufferText(docId, body)
    PROVE  /\ tokens' \in Rows
           /\ \A token \in Tokens :
                  /\ tokens'[token].list = tokens[token].list
                  /\ tokens'[token].count = tokens[token].count
                  /\ tokens'[token].cut = tokens[token].cut
                  /\ tokens'[token].garbled = tokens[token].garbled
                  /\ tokens'[token].suspect <=>
                         tokens[token].suspect \/ (docId # nextId /\ Occurs(token, body))
<1>. DEFINE known(token) == tokens[token].known \/ (docId # 0 /\ Occurs(token, body))
            suspect(token) ==
                tokens[token].suspect \/ (docId # nextId /\ Occurs(token, body))
<1>1. tokens' = [token \in Tokens |->
                    [tokens[token] EXCEPT !.known = known(token), !.suspect = suspect(token)]]
  BY DEF BufferText, StoreTokens
<1>2. \A token \in Tokens : tokens[token] \in TokenRow
  BY DEF TypeOK, Rows
<1>3. \A token \in Tokens : known(token) \in BOOLEAN /\ suspect(token) \in BOOLEAN
  BY DEF Occurs
<1>. HIDE DEF known, suspect
<1>4. ASSUME NEW token \in Tokens
      PROVE  /\ tokens'[token] \in TokenRow
             /\ tokens'[token].list = tokens[token].list
             /\ tokens'[token].count = tokens[token].count
             /\ tokens'[token].cut = tokens[token].cut
             /\ tokens'[token].garbled = tokens[token].garbled
             /\ tokens'[token].suspect = suspect(token)
  BY <1>1, <1>2, <1>3 DEF TokenRow
<1>5. tokens' \in Rows
  BY <1>1, <1>4 DEF Rows
<1>. QED BY <1>4, <1>5 DEF suspect

\* A step that changes no published table keeps what is claimed of them.
LEMMA SamePublished ==
    ASSUME TablesAreTrue(committed), TablesAreComplete(committed),
           committed' = committed, compress' = compress
    PROVE  TablesAreTrue(committed)' /\ TablesAreComplete(committed)'
BY DEF TablesAreTrue, TablesAreComplete, Sound

LEMMA TextIsBuffered ==
    ASSUME FInv, NInv', pc = "loading",
           NEW docId \in Nat, NEW body \in Seq(Tokens), BufferText(docId, body),
           \A token \in Tokens : \A posting :
               Backed(posting, token, documents) \/ BelongsToRepeated(posting, documents) =>
                   \/ Backed(posting, token, documents')
                   \/ BelongsToRepeated(posting, documents'),
           docId = 0 => documents' = documents,
           docId # 0 => \E title \in Titles :
               /\ documents'[title] = [id |-> docId, body |-> body]
               /\ \A other \in Stored(documents') :
                      other # title => /\ other \in Stored(documents)
                                       /\ documents'[other] = documents[other]
    PROVE  FInv'
<1>. DEFINE added(id) == PostingsIn(TextToPostings(docId, body)[id].list)
<1>1. /\ TypeOK /\ ListsInOrder
      /\ UNCHANGED <<compress, committed, runs>>
      /\ buffered' = buffered + 1 /\ loaded' = loaded + 1
      /\ pc' \in {"flushing", "loading"}
  BY DEF FInv, BufferText
<1>2. /\ tokens' \in Rows
      /\ \A token \in Tokens :
             /\ tokens'[token].list = tokens[token].list
             /\ tokens'[token].count = tokens[token].count
             /\ tokens'[token].cut = tokens[token].cut
             /\ tokens'[token].garbled = tokens[token].garbled
             /\ tokens[token].suspect => tokens'[token].suspect
  BY <1>1, StoreTokensEffect
<1>3. /\ buffer' \in [TokenIds -> [count : Nat, list : Seq(Posting)]]
      /\ \A id \in TokenIds :
             /\ InOrder(buffer'[id].list)
             /\ PostingsIn(buffer'[id].list) = PostingsIn(buffer[id].list) \cup added(id)
  BY <1>1, BufferTextEffect
<1>4. ASSUME NEW token \in Tokens
      PROVE  /\ \A posting \in added(token) : posting.doc = docId
             /\ docId # 0 =>
                    added(token) = IF Occurs(token, body)
                                   THEN {[doc |-> docId, pos |-> Positions(body, token)]}
                                   ELSE {}
  BY <1>1, TextEntry DEF TokenIds
<1>. HIDE DEF added
<1>5. ASSUME NEW token \in Tokens PROVE PostingsInFlight(token)' = PostingsInFlight(token) \cup added(token)
  BY <1>2, <1>3 DEF PostingsInFlight, TokenIds
<1>6. TypeOK'
  <2>1. documents' \in Documents /\ nextId' \in Nat \ {0}
    BY DEF NInv, NumbersIn
  <2>2. buffered' \in Nat /\ loaded' \in Nat
    BY <1>1 DEF TypeOK
  <2>. QED BY <1>1, <1>2, <1>3, <2>1, <2>2 DEF TypeOK, Modes
<1>7. ListsInOrder' /\ StillThere'
  BY <1>1, <1>2, <1>3 DEF ListsInOrder, StillThere, FInv
<1>8. InFlightIsTrue'
  <2>1. ASSUME NEW token \in Tokens, NEW posting \in PostingsInFlight(token), posting.doc # 0
        PROVE  \/ Backed(posting, token, documents')
               \/ BelongsToRepeated(posting, documents')
    BY <2>1 DEF FInv, InFlightIsTrue, TrueOf
  <2>2. ASSUME NEW token \in Tokens, NEW posting \in added(token), posting.doc # 0
        PROVE  Backed(posting, token, documents')
    <3>1. /\ docId # 0 /\ Occurs(token, body)
          /\ posting = [doc |-> docId, pos |-> Positions(body, token)]
      BY <1>4, <2>2
    <3>2. PICK title \in Titles : documents'[title] = [id |-> docId, body |-> body]
      BY <3>1
    <3>. QED BY <3>1, <3>2 DEF Backed, Stored
  <2>. QED BY <1>5, <2>1, <2>2 DEF InFlightIsTrue, TrueOf
<1>9. InFlightIsComplete'
  <2>. SUFFICES ASSUME NEW token \in Tokens \ RefusedTokens, Sound(tokens[token])',
                       NEW title \in Stored(documents'),
                       Occurs(token, documents'[title].body)
                PROVE  OwnPosting(documents'[title], token) \in PostingsInFlight(token)'
    BY DEF InFlightIsComplete, Findable
  <2>1. Sound(tokens[token])
    BY <1>1, <1>2 DEF Sound, Fetchable
  <2>2. Findable(PostingsInFlight(token), token, documents)
    BY <2>1 DEF FInv, InFlightIsComplete
  <2>3. CASE title \in Stored(documents) /\ documents'[title] = documents[title]
    BY <1>5, <2>2, <2>3 DEF Findable
  <2>4. CASE docId # 0 /\ documents'[title] = [id |-> docId, body |-> body]
    BY <1>4, <1>5, <2>4 DEF OwnPosting
  <2>. QED BY <2>3, <2>4
<1>10. TablesAreTrue(committed)' /\ TablesAreComplete(committed)'
  BY <1>1, SamePublished DEF FInv
<1>. QED BY <1>1, <1>6, <1>7, <1>8, <1>9, <1>10 DEF FInv

LEMMA InsertKeeps ==
    ASSUME FInv, NInv', NEW title \in Titles, NEW body \in Bodies,
           InsertDocument(title, body)
    PROVE  FInv'
<1>1. /\ pc = "loading" /\ BufferText(nextId, body) /\ documents[title].id = 0
      /\ documents' = [documents EXCEPT ![title] = [id |-> nextId, body |-> body]]
      /\ nextId \in Nat /\ nextId # 0 /\ documents \in Documents /\ body \in Seq(Tokens)
  BY BodiesAssumption DEF InsertDocument, MayAdd, FInv, TypeOK
<1>2. documents'[title] = [id |-> nextId, body |-> body]
  BY <1>1 DEF Documents
<1>3. \A other \in Titles : other # title => documents'[other] = documents[other]
  BY <1>1 DEF Documents
<1>4. \A other \in Stored(documents') :
          other # title => other \in Stored(documents) /\ documents'[other] = documents[other]
  BY <1>3 DEF Stored
<1>5. \A other \in Stored(documents) :
          other \in Stored(documents') /\ documents'[other] = documents[other]
  BY <1>1, <1>3 DEF Stored
<1>6. \A token \in Tokens : \A posting :
          Backed(posting, token, documents) \/ BelongsToRepeated(posting, documents) =>
              \/ Backed(posting, token, documents')
              \/ BelongsToRepeated(posting, documents')
  BY <1>5 DEF Backed, BelongsToRepeated
<1>. QED BY <1>1, <1>2, <1>4, <1>6, TextIsBuffered

LEMMA UpdateKeeps ==
    ASSUME FInv, NInv', NEW title \in Titles, NEW body \in Bodies,
           UpdateDocument(title, body)
    PROVE  FInv'
<1>. DEFINE number == documents[title].id
<1>1. /\ pc = "loading" /\ BufferText(number, body) /\ number # 0
      /\ title \in RepeatedTitles
      /\ documents' = [documents EXCEPT ![title].body = body]
      /\ documents \in Documents /\ body \in Seq(Tokens) /\ number \in Nat
  BY BodiesAssumption DEF UpdateDocument, MayAdd, FInv, TypeOK, Documents
<1>2. documents'[title] = [id |-> number, body |-> body]
  BY <1>1 DEF Documents
<1>3. \A other \in Titles : other # title => documents'[other] = documents[other]
  BY <1>1 DEF Documents
<1>4. \A other \in Stored(documents') :
          other # title => other \in Stored(documents) /\ documents'[other] = documents[other]
  BY <1>3 DEF Stored
<1>5. \A other \in Stored(documents) :
          /\ other \in Stored(documents')
          /\ documents'[other].id = documents[other].id
          /\ other # title => documents'[other] = documents[other]
  BY <1>1, <1>2, <1>3 DEF Stored
<1>6. \A token \in Tokens : \A posting :
          Backed(posting, token, documents) \/ BelongsToRepeated(posting, documents) =>
              \/ Backed(posting, token, documents')
              \/ BelongsToRepeated(posting, documents')
  BY <1>1, <1>5 DEF Backed, BelongsToRepeated
<1>. HIDE DEF number
<1>. QED BY <1>1, <1>2, <1>4, <1>6, TextIsBuffered

LEMMA RejectKeeps ==
    ASSUME FInv, NInv', NEW title \in Titles, NEW body \in Bodies,
           RejectDocument(title, body)
    PROVE  FInv'
<1>1. /\ pc = "loading" /\ BufferText(0, body) /\ documents' = documents
      /\ body \in Seq(Tokens)
  BY BodiesAssumption DEF RejectDocument, MayAdd
<1>. QED BY <1>1, TextIsBuffered

-----------------------------------------------------------------------------
(***************************************************************************)
(* An entry of the buffer is merged into its row, or lost.                 *)
(***************************************************************************)
LEMMA EntryIsFlushed ==
    ASSUME FInv, NInv', NEW id \in TokenIds, Flushing(id),
           tokens' \in Rows,
           \A token \in Tokens : token # id => tokens'[token] = tokens[token],
           id \in Tokens =>
               /\ InOrder(tokens'[id].list)
               /\ PostingsIn(tokens'[id].list) \subseteq PostingsInFlight(id)
               /\ tokens[id].cut => tokens'[id].cut
               /\ tokens[id].garbled => tokens'[id].cut \/ tokens'[id].garbled
               /\ \/ tokens'[id].cut \/ tokens'[id].garbled
                  \/ PostingsIn(tokens[id].list) \subseteq PostingsIn(tokens'[id].list),
           pc' \in {pc, "aborted", "stuck"},
           pc' = pc /\ id \in Tokens \ RefusedTokens /\ Sound(tokens'[id]) =>
               /\ Sound(tokens[id])
               /\ PostingsInFlight(id) \subseteq PostingsIn(tokens'[id].list)
    PROVE  FInv'
<1>1. /\ UNCHANGED <<compress, committed, documents, nextId, buffered, loaded, runs>>
      /\ buffer' = [buffer EXCEPT ![id] = NoEntry]
      /\ pc \in {"flushing", "final"}
      /\ buffer \in [TokenIds -> [count : Nat, list : Seq(Posting)]]
  BY DEF Flushing, FInv, TypeOK
<1>2. /\ buffer' \in [TokenIds -> [count : Nat, list : Seq(Posting)]]
      /\ buffer'[id].list = <<>>
      /\ \A other \in TokenIds : other # id => buffer'[other] = buffer[other]
  BY <1>1, EmptyList DEF NoEntry
<1>3. TypeOK'
  BY <1>1, <1>2 DEF TypeOK, Modes, FInv
<1>4. ListsInOrder'
  BY <1>1, <1>2, EmptyList DEF ListsInOrder, FInv
<1>5. StillThere'
  <2>. SUFFICES ASSUME NEW token \in Tokens, ~ tokens'[token].cut, ~ tokens'[token].garbled
                PROVE  PostingsIn(committed.tokens[token].list)
                           \subseteq PostingsIn(tokens'[token].list)
    BY <1>1 DEF StillThere
  <2>. QED BY DEF FInv, StillThere
<1>6. ASSUME NEW token \in Tokens
      PROVE  /\ PostingsInFlight(token)' \subseteq PostingsInFlight(token)
             /\ token # id => PostingsInFlight(token)' = PostingsInFlight(token)
             /\ PostingsIn(tokens'[token].list) \subseteq PostingsInFlight(token)'
  <2>1. CASE token = id
    BY <1>2, <2>1, EmptyList DEF PostingsInFlight
  <2>2. CASE token # id
    BY <1>2, <2>2 DEF PostingsInFlight, TokenIds
  <2>. QED BY <2>1, <2>2
<1>7. InFlightIsTrue'
  BY <1>1, <1>6 DEF FInv, InFlightIsTrue, TrueOf
<1>8. InFlightIsComplete'
  <2>. SUFFICES ASSUME pc' = pc, NEW token \in Tokens \ RefusedTokens,
                       Sound(tokens[token])'
                PROVE  Findable(PostingsInFlight(token)', token, documents')
    BY DEF InFlightIsComplete
  <2>1. Sound(tokens[token]) /\ PostingsInFlight(token) \subseteq PostingsInFlight(token)'
    BY <1>1, <1>6 DEF Sound
  <2>2. Findable(PostingsInFlight(token), token, documents)
    BY <1>1, <2>1 DEF FInv, InFlightIsComplete
  <2>. QED BY <1>1, <2>1, <2>2 DEF Findable
<1>9. TablesAreTrue(committed)' /\ TablesAreComplete(committed)'
  BY <1>1, SamePublished DEF FInv
<1>10. pc' # "committing"
  BY <1>1
<1>. QED BY <1>3, <1>4, <1>5, <1>7, <1>8, <1>9, <1>10 DEF FInv

\* What a flush finds of a row.
LEMMA FetchedRow ==
    ASSUME TypeOK, ListsInOrder, NEW id \in Tokens, NEW old \in Fetched(id)
    PROVE  /\ old \in TokenRow
           /\ InOrder(old.list)
           /\ old.suspect = tokens[id].suspect
           /\ \/ old = tokens[id]
              \/ old.cut /\ old.list = <<>> /\ old.count = 0 /\ ~ old.garbled
<1>1. /\ id # NoToken /\ tokens[id] \in TokenRow /\ InOrder(tokens[id].list)
  BY TokensAssumption DEF TypeOK, Rows, ListsInOrder
<1>2. old = tokens[id] \/ old = Restarted(tokens[id])
  BY <1>1 DEF Fetched
<1>3. /\ Restarted(tokens[id]) \in TokenRow
      /\ Restarted(tokens[id]).suspect = tokens[id].suspect
      /\ Restarted(tokens[id]).list = <<>> /\ Restarted(tokens[id]).count = 0
      /\ Restarted(tokens[id]).cut /\ ~ Restarted(tokens[id]).garbled
  BY <1>1, EmptyList DEF Restarted, TokenRow
<1>. QED BY <1>1, <1>2, <1>3, EmptyList

\* The row that is written over the one that was found.
LEMMA MergedRowKeeps ==
    ASSUME TypeOK, ListsInOrder, NEW id \in Tokens, NEW old \in Fetched(id)
    PROVE  LET row == MergedRow(old, buffer[id])
           IN  /\ row \in TokenRow
               /\ row.list = Merge(old.list, buffer[id].list)
               /\ InOrder(row.list)
               /\ PostingsIn(row.list) =
                      PostingsIn(old.list) \cup PostingsIn(buffer[id].list)
               /\ row.cut = old.cut /\ row.garbled = old.garbled
               /\ row.suspect = old.suspect
               /\ ~ old.garbled => row.count = buffer[id].count + Len(old.list)
<1>. DEFINE entry == buffer[id]
            merged == Merge(old.list, entry.list)
            number == entry.count + (IF old.garbled THEN old.count ELSE Len(old.list))
<1>1. /\ entry \in [count : Nat, list : Seq(Posting)] /\ InOrder(entry.list)
      /\ old \in TokenRow /\ InOrder(old.list)
  BY FetchedRow DEF TypeOK, ListsInOrder, TokenIds
<1>2. MergedRow(old, entry) = [old EXCEPT !.count = number, !.list = merged]
  BY DEF MergedRow
<1>. HIDE DEF entry
<1>3. /\ merged \in Seq(Posting) /\ InOrder(merged)
      /\ PostingsIn(merged) = PostingsIn(old.list) \cup PostingsIn(entry.list)
  BY <1>1, MergeKeeps DEF TokenRow
<1>4. number \in Nat /\ (~ old.garbled => number = entry.count + Len(old.list))
  BY <1>1 DEF TokenRow
<1>. HIDE DEF merged, number
<1>5. /\ MergedRow(old, entry) \in TokenRow
      /\ MergedRow(old, entry).list = merged
      /\ MergedRow(old, entry).cut = old.cut
      /\ MergedRow(old, entry).garbled = old.garbled
      /\ MergedRow(old, entry).suspect = old.suspect
      /\ MergedRow(old, entry).count = number
  BY <1>1, <1>2, <1>3, <1>4 DEF TokenRow
<1>. QED BY <1>3, <1>4, <1>5 DEF entry, merged

\* The parts of a list that is numbered are.
LEMMA NumberedParts ==
    ASSUME NEW L \in Seq(Posting), NEW B \in Seq(Posting), Numbered(L \o B)
    PROVE  /\ Numbered(L) /\ Numbered(B)
           /\ \A i \in 1..Len(L), j \in 1..Len(B) : L[i].doc < B[j].doc
<1>1. /\ Len(L) \in Nat /\ Len(B) \in Nat /\ Len(L \o B) = Len(L) + Len(B)
      /\ \A k \in 1..Len(L) : (L \o B)[k] = L[k]
      /\ \A k \in 1..Len(B) : (L \o B)[Len(L) + k] = B[k]
  BY ConcatProperties, ListElements
<1>. DEFINE list == L \o B
<1>2. /\ \A i, j \in 1..Len(list) : i < j => list[i].doc < list[j].doc
      /\ \A i \in 1..Len(list) : list[i].doc \in 1..(nextId - 1)
  BY DEF Numbered, Ascending
<1>. HIDE DEF list
<1>3. /\ Len(list) = Len(L) + Len(B)
      /\ \A k \in 1..Len(L) : k \in 1..Len(list) /\ list[k] = L[k]
      /\ \A k \in 1..Len(B) : Len(L) + k \in 1..Len(list) /\ list[Len(L) + k] = B[k]
  BY <1>1 DEF list
<1>4. Numbered(L)
  BY <1>2, <1>3 DEF Numbered, Ascending
<1>5. Numbered(B)
  <2>1. ASSUME NEW i \in 1..Len(B), NEW j \in 1..Len(B), i < j PROVE B[i].doc < B[j].doc
    <3>1. Len(L) + i < Len(L) + j
      BY <1>1, <2>1
    <3>. QED BY <1>2, <1>3, <3>1
  <2>2. \A i \in 1..Len(B) : B[i].doc \in 1..(nextId - 1)
    BY <1>2, <1>3
  <2>. QED BY <2>1, <2>2 DEF Numbered, Ascending
<1>6. ASSUME NEW i \in 1..Len(L), NEW j \in 1..Len(B) PROVE L[i].doc < B[j].doc
  <2>1. i < Len(L) + j
    BY <1>1
  <2>. QED BY <1>2, <1>3, <2>1
<1>. QED BY <1>4, <1>5, <1>6

\* A list that is not suspect is never garbled: its postings and those that
\* are merged into it have numbers of their own, in order.
LEMMA ClearIsEncodable ==
    ASSUME FInv, SInv, NEW id \in Tokens, id \in Pending, ~ tokens[id].suspect,
           NEW old \in Fetched(id)
    PROVE  LET row == MergedRow(old, buffer[id])
           IN  /\ row.count = Len(row.list)
               /\ row.list \in Seq(Posting)
               /\ Numbered(row.list)
               /\ ~ GolombGarbles(row)
               /\ ~ row.garbled
<1>. DEFINE L == old.list
            B == buffer[id].list
            row == MergedRow(old, buffer[id])
<1>1. /\ TypeOK /\ ListsInOrder
      /\ tokens[id].list \in Seq(Posting) /\ B \in Seq(Posting) /\ B # <<>>
      /\ ~ tokens[id].garbled
      /\ tokens[id].count = Len(tokens[id].list)
      /\ buffer[id].count = Len(B)
      /\ Numbered(tokens[id].list \o B)
  BY DEF FInv, SInv, Clear, TypeOK, Rows, TokenRow, TokenIds, Pending
<1>2. /\ old \in TokenRow /\ ~ old.garbled
      /\ old = tokens[id] \/ L = <<>>
  BY <1>1, FetchedRow
<1>3. L \in Seq(Posting)
  BY <1>2 DEF TokenRow
<1>. HIDE DEF B
<1>4. Numbered(L \o B)
  <2>1. CASE L = <<>>
    <3>1. L \o B = B
      BY <1>1, <2>1, ConcatEmptySeq
    <3>. QED BY <1>1, <3>1, NumberedParts
  <2>2. CASE old = tokens[id]
    BY <1>1, <2>2
  <2>. QED BY <1>2, <2>1, <2>2
<1>5. Merge(L, B) = L \o B
  <2>. HIDE DEF L
  <2>1. \A i \in 1..Len(L), j \in 1..Len(B) : L[i].doc < B[j].doc
    BY <1>1, <1>3, <1>4, NumberedParts
  <2>. QED BY <1>1, <1>3, <2>1, MergeAppend
<1>6. /\ row.list = L \o B /\ row.count = Len(B) + Len(L) /\ ~ row.garbled
  BY <1>1, <1>2, <1>5, MergedRowKeeps DEF B
<1>. HIDE DEF L, row
<1>7. /\ L \o B \in Seq(Posting) /\ Len(L \o B) = Len(L) + Len(B)
      /\ Len(L) \in Nat /\ Len(B) \in Nat /\ Len(B) # 0
  BY <1>1, <1>3, ConcatProperties, ListElements, EmptySeq
<1>8. row.count = Len(row.list) /\ Len(row.list) \in Nat /\ Len(row.list) # 0
  BY <1>6, <1>7
<1>9. nextId \in Nat \ {0}
  BY DEF FInv, TypeOK
<1>10. row.list[1].doc # 0 /\ Ascending(row.list)
  <2>1. 1 \in 1..Len(row.list) /\ Numbered(row.list)
    BY <1>4, <1>6, <1>8
  <2>. QED BY <1>9, <2>1 DEF Numbered
<1>11. ~ GolombGarbles(row)
  BY <1>6, <1>8, <1>10 DEF GolombGarbles
<1>. QED BY <1>4, <1>6, <1>7, <1>8, <1>11 DEF row

\* What encoding makes of a row.
LEMMA EncodedRow ==
    ASSUME NEW row \in TokenRow, InOrder(row.list)
    PROVE  /\ Encoded(row) \in TokenRow
           /\ InOrder(Encoded(row).list)
           /\ PostingsIn(Encoded(row).list) \subseteq PostingsIn(row.list)
           /\ Encoded(row).cut = row.cut /\ Encoded(row).suspect = row.suspect
           /\ row.garbled => Encoded(row).garbled
           /\ Encoded(row).garbled => row.garbled \/ compress = "golomb"
           /\ Encoded(row).garbled \/ Encoded(row) = row
<1>1. CASE GolombGarbles(row)
  <2>1. Encoded(row) = [row EXCEPT !.list = <<>>, !.garbled = TRUE]
    BY <1>1 DEF Encoded
  <2>2. /\ Encoded(row) \in TokenRow /\ Encoded(row).list = <<>>
        /\ Encoded(row).garbled
        /\ Encoded(row).cut = row.cut /\ Encoded(row).suspect = row.suspect
    BY <2>1, EmptyList DEF TokenRow
  <2>. QED BY <1>1, <2>2, EmptyList DEF GolombGarbles
<1>2. CASE ~ GolombGarbles(row)
  BY <1>2 DEF Encoded
<1>. QED BY <1>1, <1>2

LEMMA UpdatePostingsKeeps ==
    ASSUME FInv, SInv, NInv', NEW id \in TokenIds, UpdatePostings(id)
    PROVE  FInv'
<1>1. PICK old \in Fetched(id) :
        /\ Fetchable(old)
        /\ tokens' = [tokens EXCEPT ![id] = Encoded(MergedRow(old, buffer[id]))]
  BY DEF UpdatePostings
<1>. DEFINE merged == MergedRow(old, buffer[id])
            row == Encoded(merged)
<1>2. /\ Flushing(id) /\ id \in Tokens /\ id \in Pending /\ pc' = pc
      /\ tokens \in Rows /\ TypeOK /\ ListsInOrder
      /\ compress \in {"none", "golomb"}
  BY DEF UpdatePostings, TokenIds, FInv, TypeOK, Flushing
<1>3. /\ merged \in TokenRow /\ InOrder(merged.list)
      /\ PostingsIn(merged.list) = PostingsIn(old.list) \cup PostingsIn(buffer[id].list)
      /\ merged.cut = old.cut /\ merged.garbled = old.garbled
      /\ merged.suspect = old.suspect
  BY <1>2, MergedRowKeeps
<1>4. /\ old.suspect = tokens[id].suspect
      /\ \/ old = tokens[id]
         \/ old.cut /\ old.list = <<>> /\ ~ old.garbled
  BY <1>2, FetchedRow
<1>5. ~ tokens[id].suspect => ~ merged.garbled /\ ~ GolombGarbles(merged)
  BY <1>2, ClearIsEncodable
<1>6. tokens[id].garbled => compress = "golomb" /\ tokens[id].suspect
  BY <1>2 DEF SInv, Clear
<1>. HIDE DEF merged
<1>7. /\ row \in TokenRow /\ InOrder(row.list)
      /\ PostingsIn(row.list) \subseteq PostingsIn(merged.list)
      /\ row.cut = merged.cut /\ row.suspect = merged.suspect
      /\ merged.garbled => row.garbled
      /\ row.garbled => merged.garbled \/ compress = "golomb"
      /\ row.garbled \/ row = merged
  BY <1>3, EncodedRow
<1>8. row.garbled => tokens[id].suspect /\ compress = "golomb"
  <2>1. ASSUME row.garbled, ~ merged.garbled PROVE GolombGarbles(merged)
    BY <2>1 DEF Encoded
  <2>. QED BY <1>3, <1>4, <1>5, <1>6, <1>7, <2>1
<1>. HIDE DEF row
<1>9. /\ tokens' \in Rows /\ tokens'[id] = row
      /\ \A token \in Tokens : token # id => tokens'[token] = tokens[token]
  BY <1>1, <1>2, <1>7 DEF Rows, row, merged
<1>10. PostingsIn(row.list) \subseteq PostingsInFlight(id)
  BY <1>3, <1>4, <1>7, EmptyList DEF PostingsInFlight
<1>11. /\ tokens[id].cut => row.cut
       /\ tokens[id].garbled => row.cut \/ row.garbled
       /\ \/ row.cut \/ row.garbled
          \/ PostingsIn(tokens[id].list) \subseteq PostingsIn(row.list)
  BY <1>3, <1>4, <1>7
<1>12. ASSUME Sound(row)
       PROVE  Sound(tokens[id]) /\ PostingsInFlight(id) \subseteq PostingsIn(row.list)
  <2>1. ~ row.cut /\ ~ row.garbled /\ (compress = "none" \/ ~ row.suspect)
    BY <1>3, <1>4, <1>7, <1>8, <1>12 DEF Sound
  <2>2. old = tokens[id] /\ row = merged /\ row.suspect = tokens[id].suspect
    BY <1>3, <1>4, <1>7, <2>1
  <2>3. Sound(tokens[id])
    BY <1>1, <1>3, <2>1, <2>2 DEF Sound
  <2>. QED BY <1>3, <2>2, <2>3 DEF PostingsInFlight
<1>. QED BY <1>2, <1>7, <1>9, <1>10, <1>11, <1>12, EntryIsFlushed

\* A row that is left as it is.
LEMMA RowIsLeft ==
    ASSUME FInv, NInv', NEW id \in TokenIds, Flushing(id), tokens' = tokens,
           pc' \in {pc, "aborted", "stuck"},
           pc' = pc => id \notin Tokens \ RefusedTokens \/ ~ Sound(tokens[id])
    PROVE  FInv'
<1>1. /\ tokens' \in Rows
      /\ id \in Tokens => /\ InOrder(tokens'[id].list)
                          /\ PostingsIn(tokens'[id].list) \subseteq PostingsInFlight(id)
  BY DEF FInv, TypeOK, ListsInOrder, PostingsInFlight
<1>. QED BY <1>1, EntryIsFlushed

LEMMA FlushKeeps == FInv /\ SInv /\ NInv' /\ Flush => FInv'
<1>. SUFFICES ASSUME FInv, SInv, NInv', Flush PROVE FInv'
  OBVIOUS
<1>1. ASSUME NEW id \in TokenIds, UpdatePostings(id) PROVE FInv'
  BY <1>1, UpdatePostingsKeeps
<1>2. ASSUME NEW id \in TokenIds, DropPostings(id) PROVE FInv'
  <2>1. Flushing(id) /\ tokens' = tokens /\ pc' = pc
    BY <1>2 DEF DropPostings
  <2>2. id \in Tokens => ~ Fetchable(tokens[id])
    <3>1. ASSUME id \in Tokens PROVE ~ Fetchable(tokens[id])
      <4>1. PICK old \in Fetched(id) : ~ Fetchable(old)
        BY <1>2, <3>1, TokensAssumption DEF DropPostings
      <4>2. old = tokens[id]
        BY <3>1, <4>1, FetchedRow DEF FInv, Fetchable
      <4>. QED BY <4>1, <4>2
    <3>. QED BY <3>1
  <2>. QED BY <2>1, <2>2, RowIsLeft DEF Sound
<1>3. ASSUME NEW id \in TokenIds, UpdateFails(id) PROVE FInv'
  <2>1. /\ Flushing(id) /\ id \in Pending /\ id \in Tokens /\ tokens' = tokens /\ pc' = pc
    BY <1>3 DEF UpdateFails, Flushing, TokenIds
  <2>2. PICK old \in Fetched(id) :
          id \in RefusedTokens \/ GolombGarbles(MergedRow(old, buffer[id]))
    BY <1>3 DEF UpdateFails
  <2>3. CASE id \in RefusedTokens
    BY <2>1, <2>3, RowIsLeft
  <2>4. CASE GolombGarbles(MergedRow(old, buffer[id]))
    <3>1. compress = "golomb"
      BY <2>4 DEF GolombGarbles
    <3>2. tokens[id].suspect
      BY <2>1, <2>4, ClearIsEncodable
    <3>3. ~ Sound(tokens[id])
      BY <3>1, <3>2 DEF Sound
    <3>. QED BY <2>1, <3>3, RowIsLeft
  <2>. QED BY <2>2, <2>3, <2>4
<1>4. ASSUME NEW id \in TokenIds, EncodingFails(id) PROVE FInv'
  <2>1. Flushing(id) /\ tokens' = tokens /\ pc' \in {"aborted", "stuck"}
    BY <1>4 DEF EncodingFails
  <2>2. pc' # pc
    BY <2>1 DEF Flushing
  <2>. QED BY <2>1, <2>2, RowIsLeft
<1>5. CASE FlushEnds
  <2>1. /\ UNCHANGED <<compress, committed, documents, tokens, nextId, buffer, loaded, runs>>
        /\ buffered' = 0 /\ Pending = {} /\ pc \in {"flushing", "final"}
        /\ pc' \in {"loading", "committing"}
    BY <1>5 DEF FlushEnds
  <2>2. TypeOK'
    BY <2>1 DEF FInv, TypeOK, Modes
  <2>3. /\ ListsInOrder' /\ StillThere' /\ InFlightIsTrue' /\ InFlightIsComplete'
        /\ Pending' = {}
    BY <2>1 DEF FInv, ListsInOrder, StillThere, InFlightIsTrue, InFlightIsComplete,
                PostingsInFlight, Pending, Sound
  <2>4. TablesAreTrue(committed)' /\ TablesAreComplete(committed)'
    BY <2>1, SamePublished DEF FInv
  <2>. QED BY <2>2, <2>3, <2>4 DEF FInv
<1>. QED BY <1>1, <1>2, <1>3, <1>4, <1>5 DEF Flush

-----------------------------------------------------------------------------
(***************************************************************************)
(* The transaction ends.                                                   *)
(***************************************************************************)

\* With an empty buffer, what is in flight is in the table.
LEMMA CommitKeeps == FInv /\ NInv' /\ Commit => FInv'
<1>. SUFFICES ASSUME FInv, NInv', Commit PROVE FInv'
  OBVIOUS
<1>1. /\ UNCHANGED <<compress, documents, tokens, nextId, buffer, buffered, loaded, runs>>
      /\ committed' = [documents |-> documents, tokens |-> tokens]
      /\ pc = "committing" /\ pc' = "idle" /\ Pending = {}
  BY DEF Commit, FInv
<1>2. TypeOK'
  BY <1>1 DEF FInv, TypeOK, Modes
<1>3. /\ committed'.documents = documents /\ committed'.tokens = tokens
      /\ InFlightIsTrue /\ InFlightIsComplete /\ ListsInOrder
  BY <1>1 DEF FInv
<1>4. ASSUME NEW token \in Tokens
      PROVE  PostingsInFlight(token) = PostingsIn(tokens[token].list)
  <2>1. buffer[token].list = <<>>
    BY <1>1 DEF Pending, TokenIds
  <2>. QED BY <2>1, EmptyList DEF PostingsInFlight
<1>5. ListsInOrder' /\ StillThere' /\ InFlightIsTrue' /\ InFlightIsComplete'
  BY <1>1, <1>3
  DEF ListsInOrder, StillThere, InFlightIsTrue, InFlightIsComplete, PostingsInFlight,
      Sound, Findable
<1>6. TablesAreTrue(committed)'
  BY <1>3, <1>4 DEF InFlightIsTrue, TablesAreTrue, TrueOf
<1>7. TablesAreComplete(committed)'
  <2>1. \A token \in Tokens \ RefusedTokens :
            Sound(tokens[token]) =>
                Findable(PostingsIn(tokens[token].list), token, documents)
    BY <1>1, <1>3, <1>4 DEF InFlightIsComplete
  <2>. QED BY <1>1, <1>3, <2>1 DEF TablesAreComplete, Sound, Findable
<1>. QED BY <1>1, <1>2, <1>5, <1>6, <1>7 DEF FInv

LEMMA LoadEndsKeeps == FInv /\ NInv' /\ LoadEnds => FInv'
<1>. SUFFICES ASSUME FInv, NInv', LoadEnds PROVE FInv'
  OBVIOUS
<1>1. /\ UNCHANGED <<compress, committed, documents, tokens, nextId, buffer, buffered,
                     loaded, runs>>
      /\ pc = "loading" /\ pc' = IF Pending = {} THEN "committing" ELSE "final"
  BY DEF LoadEnds
<1>2. TypeOK' /\ (pc' = "committing" => Pending' = {})
  BY <1>1 DEF FInv, TypeOK, Modes, Pending
<1>3. ListsInOrder' /\ StillThere' /\ InFlightIsTrue' /\ InFlightIsComplete'
  BY <1>1 DEF FInv, ListsInOrder, StillThere, InFlightIsTrue, InFlightIsComplete,
              PostingsInFlight, Sound
<1>4. TablesAreTrue(committed)' /\ TablesAreComplete(committed)'
  BY <1>1, SamePublished DEF FInv
<1>. QED BY <1>2, <1>3, <1>4 DEF FInv

LEMMA NothingHappens == FInv /\ NInv' /\ UNCHANGED vars => FInv'
<1>. SUFFICES ASSUME FInv, NInv', UNCHANGED vars PROVE FInv'
  OBVIOUS
<1>1. UNCHANGED <<compress, committed, documents, tokens, nextId, buffer, buffered,
                  loaded, runs, pc>>
  BY DEF vars
<1>2. TypeOK' /\ (pc' = "committing" => Pending' = {})
  BY <1>1 DEF FInv, TypeOK, Modes, Pending
<1>3. ListsInOrder' /\ StillThere' /\ InFlightIsTrue' /\ InFlightIsComplete'
  BY <1>1 DEF FInv, ListsInOrder, StillThere, InFlightIsTrue, InFlightIsComplete,
              PostingsInFlight, Sound
<1>4. TablesAreTrue(committed)' /\ TablesAreComplete(committed)'
  BY <1>1, SamePublished DEF FInv
<1>. QED BY <1>2, <1>3, <1>4 DEF FInv

-----------------------------------------------------------------------------
(***************************************************************************)
(* Which lists can be garbled.                                             *)
(***************************************************************************)
LEMMA NothingIsNumbered == Numbered(<<>>) /\ <<>> \o <<>> = <<>>
<1>1. <<>> \in Seq(Posting) /\ Len(<<>>) = 0
  BY EmptySeq
<1>2. 1..Len(<<>>) = {}
  BY <1>1
<1>. QED BY <1>1, <1>2, ConcatEmptySeq DEF Numbered, Ascending

LEMMA NoRowIsClear == Clear(NoRow, NoEntry)
BY NothingIsNumbered, EmptySeq DEF Clear, NoRow, NoEntry

\* Numbers stay in range when the counter grows.
LEMMA NumbersLater ==
    ASSUME NEW n \in Nat, NEW m \in Nat, n <= m
    PROVE  \A x : x \in 1..(n - 1) => x \in 1..(m - 1)
OBVIOUS

LEMMA ClearLater ==
    ASSUME nextId \in Nat, nextId' \in Nat, nextId <= nextId', compress' = compress,
           NEW row, NEW entry, Clear(row, entry)
    PROVE  (row.garbled => compress' = "golomb" /\ row.suspect) /\
           (~ row.suspect =>
               /\ row.count = Len(row.list)
               /\ entry.count = Len(entry.list)
               /\ Ascending(row.list \o entry.list)
               /\ \A i \in 1..Len(row.list \o entry.list) :
                      (row.list \o entry.list)[i].doc \in 1..(nextId' - 1))
<1>1. \A x : x \in 1..(nextId - 1) => x \in 1..(nextId' - 1)
  BY NumbersLater, Zenon
<1>. QED BY <1>1, Zenon DEF Clear, Numbered

\* The published rows stay clear when they stay.
LEMMA PublishedStayClear ==
    ASSUME FInv, SInv, nextId' \in Nat, nextId <= nextId', compress' = compress,
           committed' = committed, NEW token \in Tokens
    PROVE  Clear(committed.tokens[token], NoEntry)'
<1>1. Clear(committed.tokens[token], NoEntry) /\ nextId \in Nat
  BY DEF SInv, FInv, TypeOK
<1>. QED BY <1>1, ClearLater DEF Clear, Numbered, NoEntry

\* A row without the entry that was to be merged into it.
LEMMA ClearAlone ==
    ASSUME FInv, SInv, NEW token \in Tokens
    PROVE  Clear(tokens[token], NoEntry)
<1>1. /\ tokens[token].list \in Seq(Posting) /\ buffer[token].list \in Seq(Posting)
      /\ Clear(tokens[token], buffer[token])
  BY DEF FInv, TypeOK, Rows, TokenRow, TokenIds, SInv
<1>2. NoEntry.list = <<>> /\ NoEntry.count = Len(<<>>)
  BY EmptySeq DEF NoEntry
<1>3. tokens[token].list \o <<>> = tokens[token].list
  BY <1>1, ConcatEmptySeq
<1>4. Numbered(tokens[token].list \o buffer[token].list) => Numbered(tokens[token].list)
  BY <1>1, NumberedParts
<1>. QED BY <1>1, <1>2, <1>3, <1>4 DEF Clear

LEMMA SInvInit == Init => SInv
<1>. SUFFICES ASSUME Init, NEW token \in Tokens
              PROVE  /\ Clear(tokens[token], buffer[token])
                     /\ Clear(committed.tokens[token], NoEntry)
  BY DEF SInv
<1>1. /\ tokens[token] = NoRow /\ committed.tokens[token] = NoRow
      /\ buffer[token] = NoEntry
  BY DEF Init, NoRows, EmptyBuffer, TokenIds
<1>. QED BY <1>1, NoRowIsClear

\* A new document extends the list of a token by a number of its own; any other
\* makes the rows of its tokens suspect and leaves the rest alone.
LEMMA TextStaysClear ==
    ASSUME FInv, SInv, NEW docId \in Nat, NEW body \in Seq(Tokens),
           BufferText(docId, body),
           \/ docId = nextId /\ nextId' = nextId + 1
           \/ docId # nextId /\ nextId' = nextId,
           NEW token \in Tokens
    PROVE  Clear(tokens[token], buffer[token])'
<1>. DEFINE B == buffer[token].list
            L == tokens[token].list
            text == TextToPostings(docId, body)[token]
<1>1. /\ TypeOK /\ nextId \in Nat \ {0} /\ nextId' \in Nat /\ compress' = compress
      /\ L \in Seq(Posting) /\ B \in Seq(Posting) /\ L \o B \in Seq(Posting)
      /\ buffer[token].count \in Nat
      /\ Clear(tokens[token], buffer[token])
  BY ConcatProperties DEF FInv, SInv, TypeOK, Rows, TokenRow, TokenIds, BufferText
<1>2. /\ tokens'[token].list = L
      /\ tokens'[token].count = tokens[token].count
      /\ tokens'[token].garbled = tokens[token].garbled
      /\ tokens'[token].suspect <=>
             tokens[token].suspect \/ (docId # nextId /\ Occurs(token, body))
  BY <1>1, StoreTokensEffect
<1>3. /\ buffer'[token].count = buffer[token].count + text.count
      /\ buffer'[token].list = Merge(B, text.list)
  BY DEF BufferText, MergeInvertedIndex, TokenIds
<1>4. /\ text.count \in Nat /\ text.list \in Seq(Posting)
      /\ \A posting \in PostingsIn(text.list) : posting.doc = docId
  BY <1>1, TextEntry DEF TokenIds
<1>5. \/ text.list = <<>> /\ text.count = 0
      \/ Occurs(token, body) /\ (docId # 0 => text.count = 1 /\ Len(text.list) = 1)
  <2>1. CASE Occurs(token, body)
    <3>1. docId # 0 => TokenPositions(docId, body, token) # {}
      BY <2>1 DEF Occurs, TokenPositions, TokenId
    <3>2. docId # 0 => text = [count |-> 1,
              list |-> <<[doc |-> docId, pos |-> TokenPositions(docId, body, token)]>>]
      BY <3>1 DEF TextToPostings, EntryCount, TokenIds
    <3>. HIDE DEF text
    <3>3. docId # 0 => text.count = 1 /\ Len(text.list) = 1
      BY <3>2
    <3>. QED BY <2>1, <3>3 DEF text
  <2>2. CASE ~ Occurs(token, body)
    <3>1. TokenPositions(docId, body, token) = {}
      <4>1. \A j \in 1..Len(body) : body[j] # token /\ token # NoToken
        BY <2>2, TokensAssumption DEF Occurs
      <4>. QED BY <4>1 DEF TokenPositions, TokenId
    <3>2. text = NoEntry
      BY <3>1 DEF TextToPostings, TokenIds
    <3>. QED BY <3>2 DEF NoEntry
  <2>. QED BY <2>1, <2>2
<1>. HIDE DEF B, L, text
<1>6. CASE tokens'[token].suspect
  BY <1>1, <1>2, <1>6 DEF Clear
<1>7. CASE ~ tokens'[token].suspect
  <2>1. /\ ~ tokens[token].suspect /\ ~ tokens[token].garbled
        /\ tokens[token].count = Len(L) /\ buffer[token].count = Len(B)
        /\ Numbered(L \o B)
    BY <1>1, <1>2, <1>7 DEF Clear, B, L
  <2>2. /\ Len(text.list) = text.count
        /\ text.list # <<>> => docId = nextId /\ Len(text.list) = 1
    BY <1>1, <1>2, <1>5, <1>7, EmptySeq
  <2>3. \A i \in 1..Len(text.list) : text.list[i].doc = docId
    BY <1>4 DEF PostingsIn
  <2>4. /\ Len(L) \in Nat /\ Len(B) \in Nat /\ Len(text.list) \in {0, 1}
        /\ \A i \in 1..Len(text.list) : text.list[i].doc = nextId /\ docId = nextId
        /\ \A i \in 1..Len(B) : B[i].doc \in 1..(nextId - 1)
    <3>1. Len(text.list) \in {0, 1} /\ (Len(text.list) # 0 => docId = nextId)
      BY <1>4, <2>2, EmptySeq
    <3>2. \A i \in 1..Len(text.list) : Len(text.list) # 0
      BY <3>1
    <3>3. \A i \in 1..Len(B) : B[i].doc \in 1..(nextId - 1)
      BY <1>1, <2>1, NumberedParts DEF Numbered
    <3>. QED BY <1>1, <2>3, <3>1, <3>2, <3>3
  <2>5. Merge(B, text.list) = B \o text.list
    <3>1. \A i \in 1..Len(B), j \in 1..Len(text.list) : B[i].doc < text.list[j].doc
      BY <1>1, <2>4
    <3>. QED BY <1>1, <1>4, <3>1, MergeAppend
  <2>6. /\ buffer'[token].list = B \o text.list
        /\ buffer'[token].count = Len(B \o text.list)
    <3>1. Len(B \o text.list) = Len(B) + Len(text.list)
      BY <1>1, <1>4, ConcatProperties
    <3>. QED BY <1>3, <2>1, <2>2, <2>5, <3>1
  <2>7. L \o (B \o text.list) = (L \o B) \o text.list
    <3>1. \A x, y, z \in Seq(Posting) : (x \o y) \o z = x \o (y \o z)
      BY ConcatAssociative
    <3>. QED BY <1>1, <1>4, <3>1, Zenon
  <2>. DEFINE M == L \o B
              N == M \o text.list
  <2>8. Ascending(N) /\ \A i \in 1..Len(N) : N[i].doc \in 1..(nextId' - 1)
    <3>1. M \in Seq(Posting) /\ Numbered(M)
      BY <1>1, <2>1
    <3>. HIDE DEF M
    <3>2. /\ Len(M) \in Nat /\ Len(N) = Len(M) + Len(text.list)
          /\ \A k \in 1..Len(M) : N[k] = M[k]
          /\ \A k \in 1..Len(text.list) : N[Len(M) + k] = text.list[k]
      BY <1>4, <3>1, ConcatProperties, ListElements
    <3>. HIDE DEF N
    <3>3. /\ \A i, j \in 1..Len(M) : i < j => M[i].doc < M[j].doc
          /\ \A i \in 1..Len(M) : M[i].doc \in 1..(nextId - 1)
      BY <3>1 DEF Numbered, Ascending
    <3>4. CASE Len(text.list) = 0
      <4>1. Len(N) = Len(M)
        BY <3>2, <3>4
      <4>2. nextId <= nextId'
        BY <1>1
      <4>3. \A x : x \in 1..(nextId - 1) => x \in 1..(nextId' - 1)
        <5>1. nextId \in Nat /\ nextId' \in Nat
          BY <1>1
        <5>. QED BY <4>2, <5>1, NumbersLater, Zenon
      <4>4. \A i \in 1..Len(N) : N[i] = M[i]
        BY <3>2, <4>1
      <4>. QED BY <3>3, <4>1, <4>3, <4>4, Zenon DEF Ascending
    <3>5. CASE Len(text.list) = 1
      <4>1. /\ Len(N) = Len(M) + 1 /\ N[Len(M) + 1] = text.list[1]
            /\ text.list[1].doc = nextId /\ nextId' = nextId + 1
        BY <1>1, <2>4, <3>2, <3>5
      <4>2. \A i \in 1..Len(N) : i \in 1..Len(M) \/ i = Len(M) + 1
        BY <3>2, <4>1
      <4>3. \A i \in 1..Len(N) : N[i].doc \in 1..(nextId' - 1)
        <5>1. \A x : x \in 1..(nextId - 1) \/ x = nextId => x \in 1..(nextId' - 1)
          BY <1>1, <4>1
        <5>2. \A i \in 1..Len(N) : N[i].doc \in 1..(nextId - 1) \/ N[i].doc = nextId
          <6>1. \A i \in 1..Len(M) : N[i].doc \in 1..(nextId - 1)
            BY <3>2, <3>3, Zenon
          <6>2. N[Len(M) + 1].doc = nextId
            BY <4>1, Zenon
          <6>. QED BY <4>2, <6>1, <6>2, Zenon
        <5>. QED BY <5>1, <5>2, Zenon
      <4>4. ASSUME NEW i \in 1..Len(N), NEW j \in 1..Len(N), i < j
            PROVE  N[i].doc < N[j].doc
        <5>1. i \in 1..Len(M)
          BY <3>2, <4>1, <4>4
        <5>2. CASE j \in 1..Len(M)
          BY <3>2, <3>3, <4>4, <5>1, <5>2
        <5>3. CASE j = Len(M) + 1
          BY <1>1, <3>2, <3>3, <4>1, <5>1, <5>3
        <5>. QED BY <4>2, <5>2, <5>3
      <4>. QED BY <4>3, <4>4 DEF Ascending
    <3>. QED BY <2>4, <3>4, <3>5
  <2>9. tokens'[token].list \o buffer'[token].list = N
    BY <1>2, <2>6, <2>7
  <2>. HIDE DEF N
  <2>. QED BY <1>2, <2>1, <2>6, <2>8, <2>9 DEF Clear, Numbered, B, L
<1>. QED BY <1>6, <1>7

LEMMA AddDocumentStaysClear == FInv /\ SInv /\ AddDocument => SInv'
<1>. SUFFICES ASSUME FInv, SInv, AddDocument PROVE SInv'
  OBVIOUS
<1>1. PICK title \in Titles, body \in Bodies :
        \/ InsertDocument(title, body)
        \/ UpdateDocument(title, body)
        \/ RejectDocument(title, body)
  BY DEF AddDocument
<1>2. PICK docId \in Nat :
        /\ BufferText(docId, body)
        /\ \/ docId = nextId /\ nextId' = nextId + 1
           \/ docId # nextId /\ nextId' = nextId
  <2>1. nextId \in Nat \ {0} /\ documents \in Documents
    BY DEF FInv, TypeOK
  <2>2. CASE InsertDocument(title, body)
    BY <2>1, <2>2 DEF InsertDocument
  <2>3. CASE UpdateDocument(title, body)
    <3>1. documents[title].id \in Nat /\ documents[title].id < nextId
      BY <2>1, <2>3 DEF FInv, NInv, NumbersIn, UpdateDocument, Stored, Documents
    <3>2. documents[title].id # nextId
      BY <2>1, <3>1
    <3>. QED BY <2>3, <3>1, <3>2 DEF UpdateDocument
  <2>4. CASE RejectDocument(title, body)
    BY <2>1, <2>4 DEF RejectDocument
  <2>. QED BY <1>1, <2>2, <2>3, <2>4
<1>3. /\ body \in Seq(Tokens) /\ committed' = committed /\ compress' = compress
      /\ nextId' \in Nat /\ nextId <= nextId'
  BY <1>2, BodiesAssumption DEF BufferText, FInv, TypeOK
<1>. QED BY <1>2, <1>3, TextStaysClear, PublishedStayClear DEF SInv

LEMMA FlushStaysClear == FInv /\ SInv /\ Flush => SInv'
<1>. SUFFICES ASSUME FInv, SInv, Flush PROVE SInv'
  OBVIOUS
<1>1. /\ committed' = committed /\ compress' = compress /\ nextId' = nextId
      /\ nextId \in Nat
  BY DEF Flush, UpdatePostings, DropPostings, UpdateFails, EncodingFails, Flushing,
         FlushEnds, FInv, TypeOK
<1>2. ASSUME NEW token \in Tokens PROVE Clear(committed.tokens[token], NoEntry)'
  BY <1>1, PublishedStayClear
<1>3. ASSUME NEW token \in Tokens PROVE Clear(tokens[token], buffer[token])'
  <2>1. CASE tokens'[token] = tokens[token] /\ buffer'[token] = buffer[token]
    BY <1>1, <2>1 DEF SInv, Clear, Numbered
  <2>2. CASE tokens'[token] = tokens[token] /\ buffer'[token] = NoEntry
    <3>1. Clear(tokens[token], NoEntry)
      BY ClearAlone
    <3>. QED BY <1>1, <2>2, <3>1 DEF Clear, Numbered, NoEntry
  <2>3. ASSUME token \in Pending, UpdatePostings(token)
        PROVE  Clear(tokens[token], buffer[token])'
    <3>1. PICK old \in Fetched(token) :
            tokens' = [tokens EXCEPT ![token] = Encoded(MergedRow(old, buffer[token]))]
      BY <2>3 DEF UpdatePostings
    <3>. DEFINE merged == MergedRow(old, buffer[token])
    <3>2. tokens'[token] = Encoded(merged) /\ buffer'[token] = NoEntry
      BY <2>3, <3>1 DEF UpdatePostings, Flushing, FInv, TypeOK, Rows, TokenIds
    <3>3. /\ merged \in TokenRow /\ InOrder(merged.list)
          /\ merged.suspect = old.suspect /\ merged.garbled = old.garbled
          /\ old.suspect = tokens[token].suspect
          /\ old.garbled => tokens[token].garbled
      BY MergedRowKeeps, FetchedRow DEF FInv
    <3>4. ~ tokens[token].suspect =>
              /\ merged.count = Len(merged.list) /\ Numbered(merged.list)
              /\ ~ GolombGarbles(merged) /\ ~ merged.garbled
              /\ merged.list \in Seq(Posting)
      BY <2>3, ClearIsEncodable
    <3>5. tokens[token].garbled => compress = "golomb" /\ tokens[token].suspect
      BY DEF SInv, Clear
    <3>. HIDE DEF merged
    <3>6. /\ Encoded(merged).suspect = tokens[token].suspect
          /\ Encoded(merged).garbled => merged.garbled \/ compress = "golomb"
          /\ ~ tokens[token].suspect => Encoded(merged) = merged
      BY <3>3, <3>4, EncodedRow DEF Encoded
    <3>7. CASE tokens[token].suspect
      BY <1>1, <3>2, <3>3, <3>5, <3>6, <3>7 DEF Clear
    <3>8. CASE ~ tokens[token].suspect
      <4>1. /\ tokens'[token] = merged /\ merged.list \o <<>> = merged.list
            /\ NoEntry.list = <<>> /\ NoEntry.count = Len(<<>>)
        BY <3>2, <3>4, <3>6, <3>8, ConcatEmptySeq, EmptySeq DEF NoEntry
      <4>. QED BY <1>1, <3>2, <3>4, <3>8, <4>1 DEF Clear, Numbered
    <3>. QED BY <3>7, <3>8
  <2>4. CASE \E id \in TokenIds : Flushing(id) /\ tokens' = tokens
    BY <2>1, <2>2, <2>4 DEF Flushing, FInv, TypeOK
  <2>5. CASE \E id \in TokenIds : UpdatePostings(id)
    <3>1. PICK id \in TokenIds : UpdatePostings(id)
      BY <2>5
    <3>2. CASE id = token
      BY <2>3, <3>1, <3>2 DEF UpdatePostings, Flushing
    <3>3. CASE id # token
      BY <2>1, <3>1, <3>3 DEF UpdatePostings, Flushing, FInv, TypeOK, Rows, TokenIds
    <3>. QED BY <3>2, <3>3
  <2>6. CASE FlushEnds
    BY <2>1, <2>6 DEF FlushEnds
  <2>. QED BY <2>4, <2>5, <2>6 DEF Flush, DropPostings, UpdateFails, EncodingFails
<1>. QED BY <1>2, <1>3 DEF SInv

LEMMA SInvNext == FInv /\ SInv /\ [Next]_vars => SInv'
<1>. SUFFICES ASSUME FInv, SInv, [Next]_vars PROVE SInv'
  OBVIOUS
<1>1. ASSUME committed' = committed, compress' = compress, nextId' = nextId,
             tokens' = committed.tokens, buffer' = EmptyBuffer
      PROVE  SInv'
  <2>. SUFFICES ASSUME NEW token \in Tokens
                PROVE  /\ Clear(tokens[token], buffer[token])'
                       /\ Clear(committed.tokens[token], NoEntry)'
    BY DEF SInv
  <2>1. Clear(committed.tokens[token], NoEntry)
    BY DEF SInv
  <2>2. tokens'[token] = committed.tokens[token] /\ buffer'[token] = NoEntry
    BY <1>1 DEF EmptyBuffer, TokenIds
  <2>. QED BY <1>1, <2>1, <2>2 DEF Clear, Numbered, NoEntry
<1>2. CASE BeginRun
  BY <1>1, <1>2 DEF BeginRun, StartRun
<1>3. CASE RecreateDatabase
  <2>. SUFFICES ASSUME NEW token \in Tokens
                PROVE  /\ Clear(tokens[token], buffer[token])'
                       /\ Clear(committed.tokens[token], NoEntry)'
    BY DEF SInv
  <2>1. /\ tokens'[token] = NoRow /\ committed'.tokens[token] = NoRow
        /\ buffer'[token] = NoEntry
    BY <1>3 DEF RecreateDatabase, StartRun, NoRows, EmptyBuffer, TokenIds
  <2>2. 1..Len(<<>>) = {} /\ <<>> \o <<>> = <<>> /\ Len(<<>>) = 0
    BY NothingIsNumbered, EmptySeq
  <2>. QED BY <2>1, <2>2 DEF Clear, Numbered, Ascending, NoRow, NoEntry
<1>4. CASE AddDocument
  BY <1>4, AddDocumentStaysClear
<1>5. CASE Flush
  BY <1>5, FlushStaysClear
<1>6. CASE LoadFails \/ Crash
  BY <1>1, <1>6 DEF LoadFails, Crash, EndWithoutCommit
<1>7. CASE LoadEnds \/ UNCHANGED vars
  BY <1>7 DEF LoadEnds, vars, SInv, Clear, Numbered, NoEntry
<1>8. CASE Commit
  <2>. SUFFICES ASSUME NEW token \in Tokens
                PROVE  /\ Clear(tokens[token], buffer[token])'
                       /\ Clear(committed.tokens[token], NoEntry)'
    BY DEF SInv
  <2>1. /\ committed'.tokens = tokens /\ tokens' = tokens /\ buffer' = buffer
        /\ nextId' = nextId /\ compress' = compress
    BY <1>8 DEF Commit
  <2>2. Clear(tokens[token], buffer[token]) /\ Clear(tokens[token], NoEntry)
    BY ClearAlone DEF SInv
  <2>. QED BY <2>1, <2>2 DEF Clear, Numbered, NoEntry
<1>. QED BY <1>2, <1>3, <1>4, <1>5, <1>6, <1>7, <1>8 DEF Next, Indexer

-----------------------------------------------------------------------------
LEMMA FInvNext == FInv /\ SInv /\ [Next]_vars => FInv'
<1>. SUFFICES ASSUME FInv, SInv, [Next]_vars PROVE FInv'
  OBVIOUS
<1>1. NInv'
  BY NInvNext DEF FInv
<1>2. CASE AddDocument
  <2>1. PICK title \in Titles, body \in Bodies :
            \/ InsertDocument(title, body)
            \/ UpdateDocument(title, body)
            \/ RejectDocument(title, body)
    BY <1>2 DEF AddDocument
  <2>. QED BY <1>1, <2>1, InsertKeeps, UpdateKeeps, RejectKeeps
<1>3. CASE BeginRun \/ RecreateDatabase
  BY <1>1, <1>3, BeginRunKeeps, RecreateKeeps
<1>4. CASE Flush
  BY <1>1, <1>4, FlushKeeps
<1>5. CASE LoadEnds \/ Commit
  BY <1>1, <1>5, LoadEndsKeeps, CommitKeeps
<1>6. CASE LoadFails \/ Crash
  BY <1>1, <1>6, RunIsLost DEF LoadFails, Crash
<1>7. CASE UNCHANGED vars
  BY <1>1, <1>7, NothingHappens
<1>. QED BY <1>2, <1>3, <1>4, <1>5, <1>6, <1>7 DEF Next, Indexer

LEMMA PostingsInvariant == Spec => [](FInv /\ SInv)
<1>1. Init => FInv /\ SInv
  BY FInvInit, SInvInit
<1>2. FInv /\ SInv /\ [Next]_vars => FInv' /\ SInv'
  BY FInvNext, SInvNext
<1>. QED BY <1>1, <1>2, PTL DEF Spec

\* Every variable keeps its type, whatever the dumps carry and whatever the
\* server refuses: in particular, merging two lists yields a list
\* (merge_postings, merge_inverted_index).
THEOREM TypesOnEveryInput == Spec => []TypeOK
<1>1. FInv => TypeOK
  BY DEF FInv
<1>. QED BY <1>1, PostingsInvariant, PTL

\* Only Golomb coding garbles lists, and only those of tokens that a document
\* added again or refused carried: after any number of runs, flushes and losses
\* every other list is stored as it was merged (postings.c:325, 470, 540).
THEOREM GarblingIsContained == Spec => []OnlySuspectsAreGarbled
<1>1. SInv => OnlySuspectsAreGarbled
  BY DEF SInv, Clear, OnlySuspectsAreGarbled
<1>. QED BY <1>1, PostingsInvariant, PTL

\* What a list that is not garbled says of a numbered document is true, refused
\* documents and updates, lost runs and lists that were cut included
\* (wiser.c:49-50, mysqldatabase.c:873-910).
THEOREM PublishedPostingsAlwaysTrue == Spec => []PublishedPostingsAreTrue
<1>1. FInv => PublishedPostingsAreTrue
  BY PublishedTables DEF FInv
<1>. QED BY <1>1, PostingsInvariant, PTL

\* A stored document is indexed under each token of its current body, as long
\* as the row can be fetched and was never cut, and, with Golomb coding, no
\* document added again or refused has carried the token (token.c:257,
\* postings.c:435, mysqldatabase.c:830).
THEOREM StoredDocumentsAlwaysFindable == Spec => []StoredDocumentsAreFindable
<1>1. FInv => StoredDocumentsAreFindable
  BY PublishedTables DEF FInv
<1>. QED BY <1>1, PostingsInvariant, PTL

\* A published posting stays published until the database is recreated, unless
\* its list became too long to be read or was garbled, whatever the input
\* (merge_postings, init_database1, mysqldatabase.c:830, postings.c:540).
THEOREM PublishedPostingsStay == Spec => PostingsStay
<1>1. FInv /\ [Next]_vars => [RecreateDatabase \/ KeepsPostings]_vars
  <2>. SUFFICES ASSUME FInv, Next, ~ RecreateDatabase PROVE KeepsPostings
    BY DEF vars
  <2>1. CASE Commit
    BY <2>1 DEF Commit, KeepsPostings, FInv, StillThere
  <2>2. CASE BeginRun
    BY <2>2 DEF BeginRun, StartRun, KeepsPostings
  <2>3. CASE AddDocument
    <3>1. committed' = committed
      BY <2>3 DEF AddDocument, InsertDocument, UpdateDocument, RejectDocument,
                  BufferText
    <3>. QED BY <3>1 DEF KeepsPostings
  <2>4. CASE Flush
    <3>1. committed' = committed
      BY <2>4 DEF Flush, UpdatePostings, DropPostings, UpdateFails,
                  EncodingFails, Flushing, FlushEnds
    <3>. QED BY <3>1 DEF KeepsPostings
  <2>5. CASE LoadEnds \/ LoadFails \/ Crash
    <3>1. committed' = committed
      BY <2>5 DEF LoadEnds, LoadFails, Crash, EndWithoutCommit
    <3>. QED BY <3>1 DEF KeepsPostings
  <2>. QED BY <2>1, <2>2, <2>3, <2>4, <2>5 DEF Next, Indexer
<1>. QED BY <1>1, PostingsInvariant, PTL DEF Spec, PostingsStay

=============================================================================
