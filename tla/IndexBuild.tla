----------------------------- MODULE IndexBuild -----------------------------
(***************************************************************************)
(* The indexer: one run of indexengine after another over one database.    *)
(*                                                                         *)
(* A run opens a transaction, hands the documents of a dump to             *)
(* add_document one by one, collects their postings in the in-memory       *)
(* buffer (ii_buffer), merges the buffer into the tokens table whenever    *)
(* BatchThreshold documents are in it and once more at the end, and        *)
(* commits.  A load error rolls the run back; a crash loses the memory and *)
(* lets the server roll the transaction back.                              *)
(***************************************************************************)
EXTENDS Postings

CONSTANTS
    Titles,          \* titles, up to the collation of documents.title
    Tokens,          \* tokens, up to the hash they are stored under
    Bodies,          \* the bodies a dump may carry: sequences of tokens
    ShortTokens,     \* tokens shorter than the N of the N-grams
    RejectedTitles,  \* titles whose INSERT the server refuses
    BatchThreshold,  \* ii_buffer_update_threshold (option -t)
    RepeatedTitles,  \* titles a dump may carry though they are stored already
    RefusedTokens,   \* tokens whose UPDATE the server may refuse
    LongestRead,     \* postings of the longest list that can be read back
    MaxRunDocs,      \* bound on the documents of one run (option -m)
    MaxRuns,         \* bound on the number of runs
    NoToken          \* token number 0

ASSUME BodiesAssumption ==
    \A body \in Bodies : body \in Seq(Tokens)

ASSUME TokensAssumption ==
    /\ ShortTokens \subseteq Tokens
    /\ RefusedTokens \subseteq Tokens
    /\ NoToken \notin Tokens

ASSUME TitlesAssumption ==
    /\ IsFiniteSet(Titles)
    /\ RejectedTitles \subseteq Titles
    /\ RepeatedTitles \subseteq Titles

ASSUME OptionsAssumption ==
    /\ BatchThreshold \in Int
    /\ LongestRead \in Nat
    /\ MaxRunDocs \in Nat
    /\ MaxRuns \in Nat

VARIABLES
    compress,   \* env->compress: every run is given the same option -c
    committed,  \* what other connections read: [documents, tokens]
    documents,  \* the documents table as the indexer's transaction sees it
    tokens,     \* the tokens table as the indexer's transaction sees it
    nextId,     \* AUTO_INCREMENT counter of documents, not transactional
    buffer,     \* env->ii_buffer: token number -> [count, list]
    buffered,   \* env->ii_buffer_count
    loaded,     \* documents delivered by the dump in this run
    runs,       \* runs started so far
    pc          \* where the indexer is; "idle" when no run is active

vars == <<compress, committed, documents, tokens, nextId, buffer, buffered,
          loaded, runs, pc>>

TokenIds == Tokens \cup {NoToken}

\* No row: db_get_document_id1 returns 0.
NoDocument == [id |-> 0, body |-> <<>>]
NoDocuments == [title \in Titles |-> NoDocument]

\* garbled: the stored bytes do not decode to what was encoded.  What they
\* decode to is not modelled; list is then empty.
\* cut: has a flush taken the list for empty?  suspect: did a document without
\* a number of its own carry the token?  (Both are history.)
NoRow == [known |-> FALSE, count |-> 0, list |-> <<>>, garbled |-> FALSE,
          cut |-> FALSE, suspect |-> FALSE]
NoRows == [token \in Tokens |-> NoRow]

\* No entry under this token number in the hash table.
NoEntry == [count |-> 0, list |-> <<>>]
EmptyBuffer == [id \in TokenIds |-> NoEntry]

Pending == {id \in TokenIds : buffer[id].list # <<>>}

Stored(table) == {title \in Titles : table[title].id # 0}

\* db_get_document_count1, inside the indexer's transaction.
DocumentCount == Cardinality(Stored(documents))

Init ==
    /\ compress \in {"none", "golomb"}
    /\ committed = [documents |-> NoDocuments, tokens |-> NoRows]
    /\ documents = NoDocuments
    /\ tokens = NoRows
    /\ nextId = 1
    /\ buffer = EmptyBuffer
    /\ buffered = 0
    /\ loaded = 0
    /\ runs = 0
    /\ pc = "idle"

-----------------------------------------------------------------------------
(***************************************************************************)
(* Starting a run.  Given the database name "none", init_database1 drops   *)
(* and recreates the database before anything else: not transactional.     *)
(***************************************************************************)
StartRun(database) ==
    /\ pc = "idle"
    /\ runs < MaxRuns
    /\ committed' = database
    /\ documents' = database.documents
    /\ tokens' = database.tokens
    /\ buffer' = EmptyBuffer
    /\ buffered' = 0
    /\ loaded' = 0
    /\ runs' = runs + 1
    /\ pc' = "loading"
    /\ UNCHANGED compress

BeginRun ==
    /\ StartRun(committed)
    /\ UNCHANGED nextId

RecreateDatabase ==
    /\ StartRun([documents |-> NoDocuments, tokens |-> NoRows])
    /\ nextId' = 1

-----------------------------------------------------------------------------
(***************************************************************************)
(* add_document.  docId 0 is what a refused INSERT leaves: the body is     *)
(* then split like a query, i.e. short tokens are skipped, tokens unknown  *)
(* to the tokens table get number 0, and the entry of a known token starts *)
(* from the stored docs_count instead of 1 (token.c:216-217, 268).         *)
(***************************************************************************)
TokenId(docId, token) ==
    IF docId # 0 \/ tokens[token].known THEN token ELSE NoToken

\* Slip: the position is decremented before it is recorded.
TokenPositionsOneLess(docId, body, id) ==
    {i - 2 : i \in {j \in 1..Len(body) : TokenId(docId, body[j]) = id}}

TokenPositions(docId, body, id) ==
    {i - 1 : i \in {j \in 1..Len(body) :
                        /\ docId # 0 \/ body[j] \notin ShortTokens
                        /\ TokenId(docId, body[j]) = id}}

EntryCount(docId, id) ==
    IF docId # 0 THEN 1 ELSE IF id = NoToken THEN 0 ELSE tokens[id].count

TextToPostings(docId, body) ==
    [id \in TokenIds |->
        LET pos == TokenPositions(docId, body, id)
        IN  IF pos = {} THEN NoEntry
            ELSE [count |-> EntryCount(docId, id),
                  list |-> <<[doc |-> docId, pos |-> pos]>>]]

MergeInvertedIndex(base, added) ==
    [id \in TokenIds |->
        [count |-> base[id].count + added[id].count,
         list |-> Merge(base[id].list, added[id].list)]]

\* db_get_token_id1 with insert # 0 creates the missing rows.  A document that
\* is added for the first time has the number nextId.
StoreTokens(docId, body) ==
    [token \in Tokens |->
        [tokens[token] EXCEPT
            !.known = @ \/ (docId # 0 /\ Occurs(token, body)),
            !.suspect = @ \/ (docId # nextId /\ Occurs(token, body))]]

MustFlush(count, entries) ==
    /\ \E id \in TokenIds : entries[id].list # <<>>
    /\ count >= BatchThreshold

BufferText(docId, body) ==
    /\ buffer' = MergeInvertedIndex(buffer, TextToPostings(docId, body))
    /\ tokens' = StoreTokens(docId, body)
    /\ buffered' = buffered + 1
    /\ loaded' = loaded + 1
    /\ pc' = IF MustFlush(buffered', buffer') THEN "flushing" ELSE "loading"
    /\ UNCHANGED <<compress, committed, runs>>

MayAdd == pc = "loading" /\ loaded < MaxRunDocs

InsertDocument(title, body) ==
    /\ MayAdd
    /\ documents[title].id = 0
    /\ title \notin RejectedTitles
    /\ documents' = [documents EXCEPT ![title] = [id |-> nextId, body |-> body]]
    /\ nextId' = nextId + 1
    /\ BufferText(nextId, body)

\* Slip: REPLACE in place of UPDATE gives the row a new number.
ReplaceDocument(title, body) ==
    /\ MayAdd
    /\ title \in RepeatedTitles
    /\ documents[title].id # 0
    /\ documents' = [documents EXCEPT ![title] = [id |-> nextId, body |-> body]]
    /\ nextId' = nextId + 1
    /\ BufferText(nextId, body)

\* Slip: a stored title is taken for indexed already.
UpdateWithoutIndexing(title, body) ==
    /\ MayAdd
    /\ title \in RepeatedTitles
    /\ documents[title].id # 0
    /\ documents' = [documents EXCEPT ![title].body = body]
    /\ loaded' = loaded + 1
    /\ UNCHANGED <<compress, committed, tokens, nextId, buffer, buffered, runs, pc>>

UpdateDocument(title, body) ==
    /\ MayAdd
    /\ title \in RepeatedTitles
    /\ documents[title].id # 0
    /\ documents' = [documents EXCEPT ![title].body = body]
    /\ UNCHANGED nextId
    /\ BufferText(documents[title].id, body)

\* Slip: the next number is used although the INSERT was refused.
RejectWithNumber(title, body) ==
    /\ MayAdd
    /\ title \in RejectedTitles
    /\ UNCHANGED <<documents, nextId>>
    /\ BufferText(nextId, body)

\* The return code of db_add_document1 is ignored (wiser.c:49).
RejectDocument(title, body) ==
    /\ MayAdd
    /\ title \in RejectedTitles
    /\ UNCHANGED <<documents, nextId>>
    /\ BufferText(0, body)

-----------------------------------------------------------------------------
(***************************************************************************)
(* The flush loop of add_document calls update_postings for each entry of  *)
(* the buffer.  "flushing" is the flush at the threshold, "final" the one  *)
(* of add_document(NULL).                                                  *)
(***************************************************************************)
Flushing(id) ==
    /\ pc \in {"flushing", "final"}
    /\ id \in Pending
    /\ buffer' = [buffer EXCEPT ![id] = NoEntry]
    /\ UNCHANGED <<compress, committed, documents, nextId, buffered, loaded, runs>>

\* fetch_postings refuses a list whose length is not the stored docs_count.
\* A garbled list decodes to as many postings as its first word says.
Fetchable(row) == row.list = <<>> \/ row.count = Len(row.list)

\* The buffer of db_get_postings1 does not hold the list.
IsTooLong(row) == Len(row.list) > LongestRead

\* A list that is too long is taken for a missing one.
Restarted(row) ==
    [row EXCEPT !.count = 0, !.list = <<>>, !.garbled = FALSE, !.cut = TRUE]

\* What db_get_postings1 may find.  AUTO_INCREMENT starts at 1: no row has
\* number 0.  How many bytes a garbled list takes is not known.
Fetched(id) ==
    IF id = NoToken THEN {NoRow}
    ELSE {row \in {tokens[id], Restarted(tokens[id])} :
              tokens[id].garbled \/ (IsTooLong(tokens[id]) <=> row # tokens[id])}

\* Slip: the list in the buffer replaces the stored one.
OverwrittenRow(old, entry) ==
    [old EXCEPT !.count = entry.count, !.list = entry.list]

\* Slip: the list in the buffer is linked in front of the stored one.
RowMergedInFront(old, entry) ==
    [old EXCEPT !.count = entry.count + Len(old.list), !.list = entry.list \o old.list]

MergedRow(old, entry) ==
    [old EXCEPT !.count = entry.count + (IF old.garbled THEN @ ELSE Len(old.list)),
                !.list = Merge(old.list, entry.list)]

\* calc_golomb_params asserts that documents_count / docs_count is positive.
GolombAsserts(row) ==
    compress = "golomb" /\ row.count > DocumentCount

\* The Golomb code is defined for gaps of at least zero, and its header tells
\* the decoder how many there are.
GolombGarbles(row) ==
    /\ compress = "golomb"
    /\ \/ row.garbled
       \/ row.count # Len(row.list)
       \/ ~ Ascending(row.list)
       \/ row.list[1].doc = 0

\* encode_postings does not notice, and its result is stored all the same,
\* unless one of the failures below comes first.  Which of them happens depends
\* on the quotient m; as its tables are too small for a large m, the model
\* allows each of them at every m.
Encoded(row) ==
    IF GolombGarbles(row) THEN [row EXCEPT !.list = <<>>, !.garbled = TRUE] ELSE row

UpdatePostings(id) ==
    /\ Flushing(id)
    /\ id # NoToken
    /\ \E old \in Fetched(id) :
           LET row == MergedRow(old, buffer[id])
           IN  /\ Fetchable(old)
               /\ ~ GolombAsserts(row)
               /\ tokens' = [tokens EXCEPT ![id] = Encoded(row)]
    /\ UNCHANGED pc

\* The UPDATE for number 0 matches no row; a list that cannot be fetched is not updated.
DropPostings(id) ==
    /\ Flushing(id)
    /\ id = NoToken \/ \E old \in Fetched(id) : ~ Fetchable(old)
    /\ UNCHANGED <<tokens, pc>>

\* db_update_postings1 prints the error and returns 0.  With m = 1 the quotient
\* of a gap of -1 takes 2^32 bits: the statement is too long for the server.
UpdateFails(id) ==
    /\ Flushing(id)
    /\ id # NoToken
    /\ \E old \in Fetched(id) :
           LET row == MergedRow(old, buffer[id])
           IN  /\ Fetchable(old)
               /\ ~ GolombAsserts(row)
               /\ id \in RefusedTokens \/ GolombGarbles(row)
    /\ UNCHANGED <<tokens, pc>>

\* The process stops in the assertion, which the parameters read from a garbled
\* list may violate too, or it makes no more progress: with m = 2 the encoder
\* shifts by -1 and never leaves its loop, and a garbled list may have the
\* decoder read any number of postings and bytes.
EncodingFails(id) ==
    /\ Flushing(id)
    /\ id # NoToken
    /\ \E old \in Fetched(id) :
           LET row == MergedRow(old, buffer[id])
           IN  /\ Fetchable(old)
               /\ \/ (GolombAsserts(row) \/ old.garbled) /\ pc' = "aborted"
                  \/ GolombGarbles(row) /\ pc' = "stuck"
    /\ UNCHANGED tokens

\* Slip: the buffer is thrown away after the first entry.
FlushEndsEarly ==
    /\ pc \in {"flushing", "final"}
    /\ buffer' = EmptyBuffer
    /\ buffered' = 0
    /\ pc' = IF pc = "flushing" THEN "loading" ELSE "committing"
    /\ UNCHANGED <<compress, committed, documents, tokens, nextId, loaded, runs>>

\* Slip: the last flush does not lead to the commit.
FlushEndsWaiting ==
    /\ pc \in {"flushing", "final"}
    /\ Pending = {}
    /\ buffered' = 0
    /\ pc' = IF pc = "flushing" THEN "loading" ELSE "final"
    /\ UNCHANGED <<compress, committed, documents, tokens, nextId, buffer, loaded,
                   runs>>

FlushEnds ==
    /\ pc \in {"flushing", "final"}
    /\ Pending = {}
    /\ buffered' = 0
    /\ pc' = IF pc = "flushing" THEN "loading" ELSE "committing"
    /\ UNCHANGED <<compress, committed, documents, tokens, nextId, buffer, loaded,
                   runs>>

-----------------------------------------------------------------------------
(***************************************************************************)
(* The end of a run (indexengine.c:107-120).                               *)
(***************************************************************************)
LoadEnds ==
    /\ pc = "loading"
    /\ pc' = IF Pending = {} THEN "committing" ELSE "final"
    /\ UNCHANGED <<compress, committed, documents, tokens, nextId, buffer,
                   buffered, loaded, runs>>

Commit ==
    /\ pc = "committing"
    /\ committed' = [documents |-> documents, tokens |-> tokens]
    /\ pc' = "idle"
    /\ UNCHANGED <<compress, documents, tokens, nextId, buffer, buffered, loaded,
                   runs>>

\* Slip: the tables are of an engine without transactions.
EndWithoutRollback ==
    /\ committed' = [documents |-> documents, tokens |-> tokens]
    /\ buffer' = EmptyBuffer
    /\ buffered' = 0
    /\ pc' = "idle"
    /\ UNCHANGED <<compress, documents, tokens, nextId, loaded, runs>>

\* The transaction is undone and the process, with its buffer, is gone.
EndWithoutCommit ==
    /\ documents' = committed.documents
    /\ tokens' = committed.tokens
    /\ buffer' = EmptyBuffer
    /\ buffered' = 0
    /\ pc' = "idle"
    /\ UNCHANGED <<compress, committed, nextId, loaded, runs>>

LoadFails == pc = "loading" /\ EndWithoutCommit

\* An aborted process is gone, one that is stuck is killed in the end.
Crash == pc # "idle" /\ EndWithoutCommit

AddDocument ==
    \E title \in Titles, body \in Bodies :
        \/ InsertDocument(title, body)
        \/ UpdateDocument(title, body)
        \/ RejectDocument(title, body)

Flush ==
    \/ \E id \in TokenIds :
           \/ UpdatePostings(id)
           \/ DropPostings(id)
           \/ UpdateFails(id)
           \/ EncodingFails(id)
    \/ FlushEnds

Indexer == AddDocument \/ Flush \/ LoadEnds \/ LoadFails \/ Commit

Next == BeginRun \/ RecreateDatabase \/ Indexer \/ Crash

Spec == Init /\ [][Next]_vars

\* The dump is finite and the indexer is a sequential program: once started
\* it keeps taking steps.  Nothing makes anyone start a run, or crash.
FairSpec == Spec /\ WF_vars(Indexer)

-----------------------------------------------------------------------------
(***************************************************************************)
(* What the index is for.                                                  *)
(***************************************************************************)
TokenRow == [known : BOOLEAN, count : Nat, list : Seq(Posting), garbled : BOOLEAN,
             cut : BOOLEAN, suspect : BOOLEAN]
Rows == [Tokens -> TokenRow]
Documents == [Titles -> [id : Nat, body : Seq(Tokens)]]
Modes == {"idle", "loading", "flushing", "final", "committing", "aborted", "stuck"}

\* Every variable has its type.
TypeOK ==
    /\ compress \in {"none", "golomb"}
    /\ committed \in [documents : Documents, tokens : Rows]
    /\ documents \in Documents
    /\ tokens \in Rows
    /\ nextId \in Nat \ {0}
    /\ buffer \in [TokenIds -> [count : Nat, list : Seq(Posting)]]
    /\ buffered \in Nat
    /\ loaded \in Nat
    /\ runs \in Nat
    /\ pc \in Modes

\* posting is what indexing some stored document yields for token.
Backed(posting, token, table) ==
    \E title \in Stored(table) :
        /\ table[title].id = posting.doc
        /\ Occurs(token, table[title].body)
        /\ posting.pos = Positions(table[title].body, token)

\* list indexes token over table: one posting per document that contains the
\* token, in document order, and nothing else.
Reflects(list, token, table) ==
    /\ Ascending(list)
    /\ \A i \in 1..Len(list) : Backed(list[i], token, table)
    /\ \A title \in Stored(table) :
           Occurs(token, table[title].body) =>
               table[title].id \in DocsIn(list)

(***************************************************************************)
(* Whatever a searcher can read is the exact index of the documents it can *)
(* read, with the right docs_count: buffering, batch-wise merging, commits *)
(* and lost runs neither lose, duplicate, reorder nor misplace a posting   *)
(* (add_document, update_postings, commit1, rollback1).                    *)
(***************************************************************************)
IndexReflectsDocuments ==
    \A token \in Tokens :
        LET row == committed.tokens[token]
        IN  /\ ~ row.garbled
            /\ Reflects(row.list, token, committed.documents)
            /\ row.count = Len(row.list)

(***************************************************************************)
(* Between two flushes the tokens table and the buffer together hold the   *)
(* index of the documents added so far, the table's part before the        *)
(* buffer's: a posting is never in both and never in neither               *)
(* (wiser.c:65-79, postings.c:514-552).                                    *)
(***************************************************************************)
NothingLostInFlight ==
    pc \in {"loading", "flushing", "final", "committing"} =>
        \A token \in Tokens :
            Reflects(tokens[token].list \o buffer[token].list, token, documents)

(***************************************************************************)
(* The Golomb encoder is only given what it can encode: no assertion in    *)
(* calc_golomb_params (postings.c:117), no negative gap (postings.c:325),  *)
(* and so no list that decodes to something else.                          *)
(***************************************************************************)
EncoderStaysInDomain ==
    /\ pc \notin {"aborted", "stuck"}
    /\ \A token \in Tokens : ~ tokens[token].garbled

(***************************************************************************)
(* A searcher never loses what it could find: a published posting stays    *)
(* published until the database is recreated, whatever is added, merged,   *)
(* rolled back or lost in between (merge_postings, init_database1).  Two   *)
(* kinds of lists are lost: one that does not fit into the buffer it is    *)
(* read into is taken for empty and written over (mysqldatabase.c:830),    *)
(* and one that the Golomb encoder has garbled replaces the good one that  *)
(* was stored (postings.c:325, 540).                                       *)
(***************************************************************************)
KeepsPostings ==
    \A token \in Tokens :
        LET row == committed'.tokens[token]
        IN  row.cut \/ row.garbled \/ PostingsIn(committed.tokens[token].list)
                                          \subseteq PostingsIn(row.list)

PostingsStay == [][RecreateDatabase \/ KeepsPostings]_vars

(***************************************************************************)
(* A garbled list stays the damage of its own token: only Golomb coding    *)
(* garbles lists, and only those of tokens that a document without a       *)
(* number of its own carried, i.e. one added again or one the server       *)
(* refused.  No number of flushes, batches and runs over other documents   *)
(* garbles a list (postings.c:325, 470; token.c:257).                      *)
(***************************************************************************)
OnlySuspectsAreGarbled ==
    \A table \in {tokens, committed.tokens} : \A token \in Tokens :
        table[token].garbled => compress = "golomb" /\ table[token].suspect

(***************************************************************************)
(* Postings refer to documents by number, so a published document keeps    *)
(* its number, re-added or not, until the database is recreated            *)
(* (db_add_document1 updates the row it finds).                            *)
(***************************************************************************)
KeepsNumbers ==
    \A title \in Stored(committed.documents) :
        committed'.documents[title].id = committed.documents[title].id

NumbersStay == [][RecreateDatabase \/ KeepsNumbers]_vars

(***************************************************************************)
(* Every stored document is indexed under each token of its current body,  *)
(* at the right positions.  Without compression that holds for titles that *)
(* are added again, too: they leave stale postings behind and hide nothing *)
(* (FIXME token.c:257).  With Golomb coding it holds for the tokens that   *)
(* no such document and no refused one carried; the lists of the others    *)
(* may be garbled, or not be updated.  Besides, a refused UPDATE loses     *)
(* postings, a refused document makes a row that can never be fetched      *)
(* again (postings.c:435), and a list can be too long to be read           *)
(* (mysqldatabase.c:830).                                                  *)
(***************************************************************************)
StoredDocumentsAreFindable ==
    \A title \in Stored(committed.documents), token \in Tokens \ RefusedTokens :
        LET document == committed.documents[title]
            row == committed.tokens[token]
        IN  /\ Occurs(token, document.body)
            /\ Fetchable(row)
            /\ ~ row.cut
            /\ compress = "none" \/ ~ row.suspect
            => \E i \in 1..Len(row.list) :
                   row.list[i] = [doc |-> document.id,
                                  pos |-> Positions(document.body, token)]

(***************************************************************************)
(* Even when the server refuses documents and updates, what can be read    *)
(* from a list that is not garbled is true: a posting of a numbered        *)
(* document belongs to a stored document that contains the token at these  *)
(* positions, or, if the title is one that may have been added again,      *)
(* contained it (wiser.c:49-50, mysqldatabase.c:873-910).                  *)
(***************************************************************************)
BelongsToRepeated(posting, table) ==
    \E title \in Stored(table) \cap RepeatedTitles : table[title].id = posting.doc

PublishedPostingsAreTrue ==
    \A token \in Tokens :
        LET row == committed.tokens[token]
        IN  ~ row.garbled =>
                \A i \in 1..Len(row.list) :
                    row.list[i].doc # 0 =>
                        \/ Backed(row.list[i], token, committed.documents)
                        \/ BelongsToRepeated(row.list[i], committed.documents)

\* A started run comes to an end (indexengine.c:107-135).
RunsEnd == pc = "loading" ~> pc = "idle"

-----------------------------------------------------------------------------
(***************************************************************************)
(* What other connections read, seen as the abstract index: titles stand   *)
(* for document numbers, and the postings of a token for the titles they   *)
(* name.                                                                   *)
(***************************************************************************)
PublishedCorpus ==
    {[title |-> title, body |-> committed.documents[title].body] :
        title \in Stored(committed.documents)}

FoundTitles ==
    [token \in Tokens |->
        {title \in Titles :
            /\ committed.documents[title].id # 0
            /\ committed.documents[title].id
                   \in DocsIn(committed.tokens[token].list)}]

Abstract == INSTANCE SearchIndex WITH corpus <- PublishedCorpus,
                                      found  <- FoundTitles

\* The committed tables only ever step as SearchIndex does: whole runs become
\* visible at once, together with exactly the answers that belong to them.
ImplementsSearchIndex == Abstract!Spec

-----------------------------------------------------------------------------
(***************************************************************************)
(* What comments and assertions of the code say, and the code does not do. *)
(***************************************************************************)

\* assert(m > 0) in calc_golomb_params (postings.c:117).
GolombModulusIsPositive == pc # "aborted"

\* update_postings "merges the postings list in memory with the one in
\* storage and stores the result in the database" (postings.c:510).
StoresFlushed ==
    \A token \in Tokens :
        buffer'[token] # buffer[token] =>
            PostingsIn(buffer[token].list)
                \subseteq PostingsIn(tokens[token].list)'

FlushStep == pc \in {"flushing", "final"} /\ pc' = pc

FlushStoresPostings == [][FlushStep => StoresFlushed]_vars

=============================================================================
