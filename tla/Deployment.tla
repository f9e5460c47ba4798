----------------------------- MODULE Deployment -----------------------------
(***************************************************************************)
(* Indexers and servers that share one database.                           *)
(*                                                                         *)
(* They share nothing else: the encoding of the lists is agreed on by a    *)
(* row of the settings table, which indexers write before their            *)
(* transaction begins and every server writes back when it starts.  An     *)
(* indexer given the database name "none" drops and recreates the tables   *)
(* under whoever is using them.                                            *)
(*                                                                         *)
(* Of what a run adds the model follows one document, new or stored        *)
(* already, and of the index one list, which all documents are in.  InnoDB *)
(* is modelled as far as this code depends on it: reads of a transaction   *)
(* see the state of its first read, writes lock the row they change until  *)
(* the transaction ends, a table cannot be dropped while an open           *)
(* transaction has used it, and of two transactions that wait for rows of  *)
(* each other one is undone.  The rows that they wait for may be those of  *)
(* other documents and tokens, so that any two open transactions can come  *)
(* to that.  The run whose transaction is undone ignores the error and     *)
(* goes on: it is called lost, and each of its statements is committed by  *)
(* itself.                                                                 *)
(***************************************************************************)
EXTENDS Naturals, Sequences

CONSTANTS
    Indexers,      \* processes running indexengine
    Servers,       \* processes running searchengine
    Options,       \* the command lines of indexengine in use
    Titles,        \* the titles of the documents in the dumps
    MaxRuns        \* bound on the number of runs of the indexers

ASSUME ProcessesAssumption == Indexers \cap Servers = {}

ASSUME OptionsAssumption ==
    \A option \in Options :
        /\ option.method \in {"none", "golomb"}           \* -c
        /\ option.recreate \in BOOLEAN                    \* the database is "none"
        /\ option.query \in BOOLEAN                       \* -q

ASSUME TitlesAssumption == Titles \subseteq Nat

ASSUME RunsAssumption == MaxRuns \in Nat

VARIABLES
    tables,     \* the tables and indexes that exist
    setting,    \* the row of settings: a method, or "absent"
    documents,  \* the published documents
    row,        \* the published row of tokens: [known, coding, garbled, postings]
    nextId,     \* AUTO_INCREMENT counter of documents
    runs,       \* runs started so far
    env,        \* the memory of each process
    faults,     \* what has gone wrong so far (history)
    pulled,     \* searches whose database was dropped under them (history)
    orphans     \* documents that are gone and may still be written about (history)

database == <<tables, setting, documents, row, nextId>>
history == <<faults, pulled, orphans>>
vars == <<database, runs, env, history>>

Processes == Indexers \cup Servers

Docs == [id : Nat, title : Nat]

\* The stored bytes of a garbled list do not decode to what was encoded, and the
\* model keeps nothing of them.
NoRow == [known |-> FALSE, coding |-> "golomb", garbled |-> FALSE, postings |-> {}]

\* The number 0, of a document that could not be inserted.
NoDoc == [id |-> 0, title |-> 0]

\* In the order init_database1 creates them.
Schema == <<"documents", "tokens", "settings", "doccount", "token_index",
            "title_index">>

Base(table) ==
    CASE table = "token_index" -> "tokens"
      [] table = "title_index" -> "documents"
      [] OTHER -> "database"

Tables == {"documents", "tokens", "settings", "doccount"}

AllCreated == {Schema[n] : n \in 1..Len(Schema)}

\* A process that is not running.  A field that will not be read again has the
\* value it has here, so that states that behave alike are one state.
Down ==
    [pc       |-> "down",
     method   |-> "golomb",  \* option -c of an indexer
     query    |-> FALSE,     \* has it the option -q?
     step     |-> 0,         \* statements of Schema that are done
     cm       |-> "absent",  \* cm: the setting as it was read
     compress |-> "golomb",  \* env->compress
     open     |-> FALSE,     \* has it an open transaction?
     snapshot |-> NoRow,     \* what the transaction reads, or a lost run has read, as row
     doc      |-> NoDoc,     \* the document that it adds
     inserted |-> FALSE,     \* has the transaction inserted row?
     updated  |-> FALSE,     \* has the transaction updated row?
     list     |-> NoRow,     \* what it has changed row to
     hits     |-> {}]        \* the results of the search

\* There is no database yet, or a run that died has left it without a setting.
Empty ==
    /\ tables \in {{}, AllCreated}
    /\ setting = "absent"
    /\ documents = {}
    /\ row = NoRow
    /\ nextId = 1

\* An earlier run has stored a document.
Filled(next) ==
    /\ tables = AllCreated
    /\ setting \in {"none", "golomb"}
    /\ documents = {[id |-> 1, title |-> 0]}
    /\ row = [known |-> TRUE, coding |-> setting, garbled |-> FALSE, postings |-> documents]
    /\ nextId = next

Idle ==
    /\ Empty \/ Filled(2)
    /\ runs = 0
    /\ env = [p \in Processes |-> Down]
    /\ faults = {}

\* Two runs came to a deadlock, before one of them was rolled back.  The other one
\* goes on without its transaction.  Only this one counts for MaxRuns.
Deadlocked ==
    /\ Filled(3)
    /\ runs = 1
    /\ \E i \in Indexers :
           env = [p \in Processes |->
                     IF p = i THEN [Down EXCEPT !.pc = "alone", !.compress = setting]
                              ELSE Down]
    /\ faults = {"overlap"}

Init ==
    /\ Idle \/ Deadlocked
    /\ pulled = {}
    /\ orphans = {}

Up(p) == env[p].pc # "down"

Goto(p, label) == env' = [env EXCEPT ![p].pc = label]

Quit(p) == env' = [env EXCEPT ![p] = Down]

\* The statement of a missing table fails and the process exits.
Exit(p) ==
    /\ Quit(p)
    /\ pulled' = pulled \ {p}
    /\ UNCHANGED <<database, runs, faults, orphans>>

OthersInTransaction(p) == \E q \in Processes \ {p} : env[q].open

\* It works on a document, and its transaction was undone.
Lost(p) ==
    /\ env[p].pc \in {"storing", "flushing", "writing", "committing"}
    /\ ~ env[p].open

-----------------------------------------------------------------------------
(***************************************************************************)
(* init_database1.  A connection that cannot be made is reported as        *)
(* success, and the first statement crashes the process: nothing happens   *)
(* to the database, so the process is simply not started.                  *)
(***************************************************************************)
StartIndexer(i, option) ==
    /\ ~ Up(i)
    /\ runs < MaxRuns
    /\ runs' = runs + 1
    /\ env' = [env EXCEPT ![i].pc = IF option.recreate THEN "dropping" ELSE "preparing",
                          ![i].method = option.method,
                          ![i].query = option.query]
    /\ faults' = IF \E j \in Indexers : Up(j) THEN faults \cup {"overlap"} ELSE faults
    /\ UNCHANGED <<database, pulled, orphans>>

StartServer(s) ==
    /\ ~ Up(s)
    /\ Goto(s, "preparing")
    /\ UNCHANGED <<database, runs, history>>

Naming == {p \in Processes : env[p].pc = "naming"}

\* A lost run may have read the list whose documents are gone.
Dropped(kept) ==
    /\ tables' = tables \cap kept
    /\ setting' = "absent"
    /\ documents' = {}
    /\ row' = NoRow
    /\ nextId' = 1
    /\ pulled' = pulled \cup Naming
    /\ orphans' = IF \E j \in Indexers : Lost(j) THEN orphans \cup documents ELSE orphans
    /\ UNCHANGED <<runs, faults>>

\* DROP DATABASE, CREATE DATABASE, USE.
DropDatabase(i) ==
    /\ env[i].pc = "dropping"
    /\ ~ OthersInTransaction(i)
    /\ Goto(i, "clearing")
    /\ Dropped({})

\* The three DROP TABLE IF EXISTS: another run may have created them meanwhile.
DropTables(i) ==
    /\ env[i].pc = "clearing"
    /\ ~ OthersInTransaction(i)
    /\ Goto(i, "creating")
    /\ Dropped({"doccount"})

Creating(i) == Schema[env[i].step + 1]

Creatable(table) ==
    /\ table \notin tables
    /\ Base(table) \in tables \cup {"database"}

CreateNext(i) ==
    /\ env[i].pc = "creating"
    /\ env[i].step < Len(Schema)
    /\ Creatable(Creating(i))
    /\ tables' = tables \cup {Creating(i)}
    /\ env' = [env EXCEPT ![i].step = @ + 1]
    /\ UNCHANGED <<setting, documents, row, nextId, runs, history>>

\* init_database1 returns -1.
CreateFails(i) ==
    /\ env[i].pc = "creating"
    /\ env[i].step < Len(Schema)
    /\ ~ Creatable(Creating(i))
    /\ Exit(i)

CreateEnds(i) ==
    /\ env[i].pc = "creating"
    /\ env[i].step = Len(Schema)
    /\ env' = [env EXCEPT ![i].pc = "preparing", ![i].step = 0]
    /\ UNCHANGED <<database, runs, history>>

\* The statements are prepared in an order in which those on doccount are the
\* last; a server ignores that a statement was not prepared until it uses it.
Needed(p) == IF p \in Indexers THEN Tables ELSE Tables \ {"doccount"}

Prepare(p) ==
    /\ env[p].pc = "preparing"
    /\ Needed(p) \subseteq tables
    /\ Goto(p, IF p \in Indexers THEN "setting" ELSE "reading")
    /\ UNCHANGED <<database, runs, history>>

PrepareFails(p) ==
    /\ env[p].pc = "preparing"
    /\ ~ Needed(p) \subseteq tables
    /\ Exit(p)

-----------------------------------------------------------------------------
(***************************************************************************)
(* An indexer's run: parse_compress_method with the option -c, under       *)
(* autocommit; then begin1, add_document, the flush, and the end.          *)
(***************************************************************************)
\* db_replace_settings1; that it may fail is ignored.
Replaced(method) == IF "settings" \in tables THEN method ELSE setting

\* Has anything been written to the list?
IsStored(list) == list.garbled \/ list.postings # {}

Settled(p) == env[p].pc \in {"counting", "serving", "naming"}

\* Slip: the setting is only written where none is.
WriteSettingOnce(i) ==
    /\ env[i].pc = "setting"
    /\ setting' = IF setting = "absent" THEN Replaced(env[i].method) ELSE setting
    /\ env' = [env EXCEPT ![i].pc = "adding", ![i].compress = env[i].method,
                          ![i].method = "golomb"]
    /\ UNCHANGED <<tables, documents, row, nextId, runs, history>>

WriteSetting(i) ==
    LET method == env[i].method
        mixed == IsStored(row) /\ row.coding # method
        changed == \E p \in Processes : Settled(p) /\ env[p].compress # method
    IN  /\ env[i].pc = "setting"
        /\ setting' = Replaced(method)
        /\ env' = [env EXCEPT ![i].pc = "adding", ![i].compress = method,
                              ![i].method = "golomb"]
        /\ faults' = faults \cup (IF mixed THEN {"mixed"} ELSE {})
                            \cup (IF changed THEN {"changed"} ELSE {})
        /\ UNCHANGED <<tables, documents, row, nextId, runs, pulled, orphans>>

Titled(title) == {d \in documents : d.title = title}

OtherAdds(i, title) ==
    \E j \in Indexers \ {i} :
        env[j].open /\ env[j].doc # NoDoc /\ env[j].doc.title = title

\* db_add_document1 and db_get_document_id1: the number of a stored title stays.
\* The INSERT of a title that an open transaction has inserted waits, and is
\* refused when that one is committed or takes too long.
Numbered(i, title) ==
    IF Titled(title) # {} THEN Titled(title)
    ELSE IF OtherAdds(i, title) THEN {NoDoc}
    ELSE {[id |-> nextId, title |-> title]}

NumbersUsed(title) == IF Titled(title) = {} THEN 1 ELSE 0

\* begin1, the SELECT that fixes what the transaction reads, and the INSERT of
\* the document, or the UPDATE of its body.
AddDocument(i, title) ==
    /\ env[i].pc = "adding"
    /\ {"documents", "tokens"} \subseteq tables
    /\ \E doc \in Numbered(i, title) :
           /\ env' = [env EXCEPT ![i].pc = "storing",
                                 ![i].open = TRUE,
                                 ![i].snapshot = row,
                                 ![i].doc = doc]
           /\ faults' = faults \cup (IF doc \in documents /\ env[i].compress = "golomb"
                                     THEN {"repeated"} ELSE {})
    /\ nextId' = nextId + NumbersUsed(title)
    /\ UNCHANGED <<tables, setting, documents, row, runs, pulled, orphans>>

\* The transaction is undone before: by a deadlock over what the run added first.
LoseEarlier(i) ==
    /\ env[i].pc = "adding"
    /\ OthersInTransaction(i)
    /\ Goto(i, "alone")
    /\ UNCHANGED <<database, runs, history>>

AddDocumentLost(i, title) ==
    /\ env[i].pc = "alone"
    /\ {"documents", "tokens"} \subseteq tables
    /\ \E doc \in Numbered(i, title) :
           /\ env' = [env EXCEPT ![i].pc = "storing", ![i].doc = doc]
           /\ documents' = documents \cup ({doc} \ {NoDoc})
    /\ nextId' = nextId + NumbersUsed(title)
    /\ UNCHANGED <<tables, setting, row, runs, history>>

AddDocumentFails(i) ==
    /\ env[i].pc \in {"adding", "alone"}
    /\ ~ {"documents", "tokens"} \subseteq tables
    /\ Exit(i)

OtherInserts(i) == \E j \in Indexers \ {i} : env[j].inserted

OtherHoldsRow(i) == OtherInserts(i) \/ \E j \in Indexers \ {i} : env[j].updated

\* INSERT IGNORE INTO tokens, which waits for another run that inserts the row,
\* but for a document without a number nothing is inserted.  The SELECT after it
\* does not see a row that is newer than the snapshot: the token gets number 0,
\* and its postings are dropped by the flush.
StoreToken(i) ==
    LET inserts == env[i].doc # NoDoc /\ ~ row.known
        found == inserts \/ env[i].snapshot.known
    IN  /\ env[i].pc = "storing"
        /\ env[i].open
        /\ env[i].doc # NoDoc => ~ OtherInserts(i)
        /\ env' = [env EXCEPT ![i].pc = IF found THEN "flushing" ELSE "committing",
                              ![i].inserted = inserts,
                              ![i].snapshot = IF found THEN @ ELSE NoRow]
        /\ UNCHANGED <<database, runs, history>>

\* A refused INSERT returns 1, which is taken for the number of the token.
StoreTokenRefused(i) ==
    /\ env[i].pc = "storing"
    /\ env[i].doc # NoDoc
    /\ OtherInserts(i) \/ "tokens" \notin tables
    /\ env' = [env EXCEPT ![i].pc = IF env[i].open THEN "mistaken" ELSE "flushing",
                          ![i].snapshot = NoRow]
    /\ UNCHANGED <<database, runs, history>>

Readable(i, old) ==
    ~ old.garbled /\ (old.postings # {} => old.coding = env[i].compress)

\* Slip: the stored list is not merged into the new one.
OwnList(i, old) ==
    [known    |-> TRUE,
     coding   |-> env[i].compress,
     garbled  |-> FALSE,
     postings |-> {env[i].doc} \ {NoDoc}]

\* The stored list, merged with the document and encoded.  A list in the other
\* encoding decodes to something else, if it is not refused; a list with the
\* number 0 is stored with a wrong docs_count; and the gap of a document that is
\* in the list already cannot be encoded by golomb.
Merged(i, old) ==
    LET garbled == \/ ~ Readable(i, old)
                   \/ env[i].doc = NoDoc
                   \/ env[i].doc \in old.postings /\ env[i].compress = "golomb"
    IN  [known    |-> TRUE,
         coding   |-> env[i].compress,
         garbled  |-> garbled,
         postings |-> IF garbled THEN {} ELSE old.postings \cup {env[i].doc}]

\* Slip: the list is written outside the transaction.
FlushListAtOnce(i) ==
    /\ env[i].pc = "flushing"
    /\ env[i].open
    /\ ~ OtherHoldsRow(i)
    /\ row' = Merged(i, env[i].snapshot)
    /\ env' = [env EXCEPT ![i].pc = "committing",
                          ![i].updated = TRUE,
                          ![i].list = row',
                          ![i].snapshot = NoRow]
    /\ UNCHANGED <<tables, setting, documents, nextId, runs, history>>

\* update_postings: the list is read from the snapshot, merged, and written
\* once no other run holds the row.
FlushList(i) ==
    /\ env[i].pc = "flushing"
    /\ env[i].open
    /\ ~ OtherHoldsRow(i)
    /\ env' = [env EXCEPT ![i].pc = "committing",
                          ![i].updated = TRUE,
                          ![i].list = Merged(i, env[i].snapshot),
                          ![i].snapshot = NoRow]
    /\ UNCHANGED <<database, runs, history>>

\* The list is found not to be one, or the row is not unlocked in time.  A refused
\* UPDATE is printed, and the run goes on without these postings.
FlushRefused(i) ==
    /\ env[i].pc = "flushing"
    /\ env[i].open
    /\ ~ Readable(i, env[i].snapshot) \/ OtherHoldsRow(i)
    /\ env' = [env EXCEPT ![i].pc = "committing", ![i].snapshot = NoRow]
    /\ UNCHANGED <<database, runs, history>>

\* The flush under the number 1.  It may be that of the row, which the other
\* run has inserted: the snapshot does not have the row, so that its list is
\* taken for empty and written over.  Or no row has it, or the row is locked.
FlushMistaken(i) ==
    /\ env[i].pc = "mistaken"
    /\ \/ /\ row.known
          /\ ~ OtherHoldsRow(i)
          /\ env' = [env EXCEPT ![i].pc = "committing",
                                ![i].updated = TRUE,
                                ![i].list = Merged(i, NoRow)]
       \/ Goto(i, "committing")
    /\ UNCHANGED <<database, runs, history>>

\* Where a run goes on whose statement has failed: it was that of this document
\* and token, or of others of the run.
GoesOn(i) ==
    CASE env[i].pc = "storing" ->
             IF env[i].doc = NoDoc THEN {"storing"} ELSE {"storing", "flushing"}
      [] env[i].pc = "committing" -> {"committing"}
      [] OTHER -> {"flushing", "committing"}

\* Its transaction is undone, and the run goes on.
GoOnLost(i, label, doc) ==
    /\ env' = [env EXCEPT ![i].pc = label,
                          ![i].open = FALSE,
                          ![i].snapshot = NoRow,
                          ![i].doc = doc,
                          ![i].inserted = FALSE,
                          ![i].updated = FALSE,
                          ![i].list = NoRow]
    /\ orphans' = orphans \cup ({doc} \ (documents \cup {NoDoc}))
    /\ UNCHANGED <<database, runs, faults, pulled>>

\* InnoDB undoes this transaction to let another one go on.  When it was the
\* INSERT of the document that failed, the document has the number 0.
Deadlock(i) ==
    /\ env[i].open
    /\ OthersInTransaction(i)
    /\ \E label \in GoesOn(i) :
           \/ GoOnLost(i, label, env[i].doc)
           \/ /\ label = "storing"
              /\ env[i].doc \notin documents
              /\ GoOnLost(i, label, NoDoc)

StoreTokenLost(i) ==
    /\ env[i].pc = "storing"
    /\ ~ env[i].open
    /\ "tokens" \in tables
    /\ env[i].doc # NoDoc => ~ OtherInserts(i)
    /\ row' = [row EXCEPT !.known = @ \/ env[i].doc # NoDoc]
    /\ Goto(i, IF row'.known THEN "flushing" ELSE "committing")
    /\ UNCHANGED <<tables, setting, documents, nextId, runs, history>>

FetchLost(i) ==
    /\ env[i].pc = "flushing"
    /\ ~ env[i].open
    /\ "tokens" \in tables
    /\ env' = [env EXCEPT ![i].pc = "writing", ![i].snapshot = row]
    /\ UNCHANGED <<database, runs, history>>

\* Others may have written the row since it was read.  Nothing is written when the
\* list was not read, or the row is locked, or has another number than the one
\* that the undone transaction or a dropped table gave it.
WriteLost(i) ==
    /\ env[i].pc = "writing"
    /\ \/ /\ row.known
          /\ ~ OtherHoldsRow(i)
          /\ row' = Merged(i, env[i].snapshot)
       \/ row' = row
    /\ env' = [env EXCEPT ![i].pc = "committing", ![i].snapshot = NoRow]
    /\ UNCHANGED <<tables, setting, documents, nextId, runs, history>>

\* The statement of a table that was dropped.
LostFails(i) ==
    /\ Lost(i)
    /\ "tokens" \notin tables
    /\ \/ env[i].pc = "storing" /\ env[i].doc = NoDoc
       \/ env[i].pc = "flushing"
    /\ Exit(i)

Published(i) ==
    IF env[i].updated THEN env[i].list
    ELSE IF env[i].inserted THEN [NoRow EXCEPT !.known = TRUE]
    ELSE row

\* With option -q the run ends with a search.
RunEnds(i) ==
    env' = [env EXCEPT ![i] = IF env[i].query THEN [Down EXCEPT !.pc = "reading"]
                                             ELSE Down]

\* Slip: the postings are published, the document is not.
CommitList(i) ==
    /\ env[i].pc = "committing"
    /\ row' = Published(i)
    /\ RunEnds(i)
    /\ UNCHANGED <<tables, documents, setting, nextId, runs, history>>

\* A lost run has nothing to commit.
Commit(i) ==
    /\ env[i].pc = "committing"
    /\ documents' = documents \cup (IF env[i].open THEN {env[i].doc} \ {NoDoc} ELSE {})
    /\ row' = Published(i)
    /\ RunEnds(i)
    /\ UNCHANGED <<tables, setting, nextId, runs, history>>

\* load_wikipedia_dump fails: rollback1.
Rollback(i) ==
    /\ env[i].pc \in {"storing", "flushing", "mistaken", "writing"}
    /\ RunEnds(i)
    /\ UNCHANGED <<database, runs, history>>

-----------------------------------------------------------------------------
(***************************************************************************)
(* A server's start, and the end of a run with -q: db_get_settings1,       *)
(* parse_compress_method with what it returned, db_get_document_count1.    *)
(***************************************************************************)
ReadSetting(p) ==
    /\ env[p].pc = "reading"
    /\ "settings" \in tables
    /\ env' = [env EXCEPT ![p].pc = "parsing", ![p].cm = setting]
    /\ UNCHANGED <<database, runs, history>>

ReadSettingFails(p) ==
    /\ env[p].pc = "reading"
    /\ "settings" \notin tables
    /\ Exit(p)

\* cm points into the buffer of a function that has returned, or nowhere when
\* there was no row: what is found there is the value, or no method, for which
\* golomb is used instead.
Parsed(cm) == IF cm = "absent" THEN {"golomb"} ELSE {cm, "golomb"}

\* Slip: the method is written back but not noted.
WriteBackUnnoted(p) ==
    LET cm == env[p].cm
    IN  /\ env[p].pc = "parsing"
        /\ \E method \in Parsed(cm) :
               /\ setting' = Replaced(method)
               /\ env' = [env EXCEPT ![p].pc = "counting", ![p].cm = "absent"]
               /\ faults' = faults \cup (IF cm # setting THEN {"crossed"} ELSE {})
                                   \cup (IF cm \notin {method, "absent"}
                                         THEN {"garbage"} ELSE {})
        /\ UNCHANGED <<tables, documents, row, nextId, runs, pulled, orphans>>

WriteBack(p) ==
    LET cm == env[p].cm
    IN  /\ env[p].pc = "parsing"
        /\ \E method \in Parsed(cm) :
               /\ setting' = Replaced(method)
               /\ env' = [env EXCEPT ![p].pc = "counting", ![p].cm = "absent",
                                     ![p].compress = method]
               /\ faults' = faults \cup (IF cm # setting THEN {"crossed"} ELSE {})
                                   \cup (IF cm \notin {method, "absent"}
                                         THEN {"garbage"} ELSE {})
        /\ UNCHANGED <<tables, documents, row, nextId, runs, pulled, orphans>>

CountDocuments(p) ==
    /\ env[p].pc = "counting"
    /\ "documents" \in tables
    /\ Goto(p, "serving")
    /\ UNCHANGED <<database, runs, history>>

CountFails(p) ==
    /\ env[p].pc = "counting"
    /\ "documents" \notin tables
    /\ Exit(p)

-----------------------------------------------------------------------------
(***************************************************************************)
(* A search: the list is read and decoded, then each hit is looked up by   *)
(* its number.  Of a list that is garbled, or that is not in the encoding  *)
(* it is decoded by, the model keeps nothing.  A request without a term is *)
(* answered with nothing, one whose query lacks the term crashes the       *)
(* server.                                                                 *)
(***************************************************************************)
Ask(p) ==
    /\ env[p].pc = "serving"
    /\ "tokens" \in tables
    /\ env' = [env EXCEPT ![p].pc = "naming",
                          ![p].hits = IF row.coding = env[p].compress THEN row.postings
                                                                      ELSE {}]
    /\ UNCHANGED <<database, runs, history>>

AskFails(p) ==
    /\ env[p].pc = "serving"
    /\ "tokens" \notin tables
    /\ Exit(p)

\* The server waits for the next request; a run with -q is over.
Reply(p) ==
    /\ env[p].pc = "naming"
    /\ "documents" \in tables
    /\ IF p \in Servers
       THEN env' = [env EXCEPT ![p].pc = "serving", ![p].hits = {}]
       ELSE Quit(p)
    /\ pulled' = pulled \ {p}
    /\ UNCHANGED <<database, runs, faults, orphans>>

ReplyFails(p) ==
    /\ env[p].pc = "naming"
    /\ "documents" \notin tables
    /\ Exit(p)

\* SIGTERM ends the event loop between two requests.
Terminate(s) == env[s].pc = "serving" /\ Exit(s)

\* A crash, an exit of a failing statement, or a port that is in use.  The
\* server of the database undoes what was not committed.
Die(p) == Up(p) /\ Exit(p)

-----------------------------------------------------------------------------
Initialize(i) ==
    \/ DropDatabase(i) \/ DropTables(i)
    \/ CreateNext(i) \/ CreateFails(i) \/ CreateEnds(i)

Run(i) ==
    \/ WriteSetting(i)
    \/ \E title \in Titles : AddDocument(i, title) \/ AddDocumentLost(i, title)
    \/ LoseEarlier(i) \/ AddDocumentFails(i)
    \/ StoreToken(i) \/ StoreTokenRefused(i)
    \/ FlushList(i) \/ FlushRefused(i) \/ FlushMistaken(i)
    \/ Deadlock(i)
    \/ StoreTokenLost(i) \/ FetchLost(i) \/ WriteLost(i) \/ LostFails(i)
    \/ Commit(i)

StartUp(p) ==
    \/ Prepare(p) \/ PrepareFails(p)
    \/ ReadSetting(p) \/ ReadSettingFails(p)
    \/ WriteBack(p)
    \/ CountDocuments(p) \/ CountFails(p)

Serve(p) == Ask(p) \/ AskFails(p) \/ Reply(p) \/ ReplyFails(p)

Start ==
    \/ \E i \in Indexers, option \in Options : StartIndexer(i, option)
    \/ \E s \in Servers : StartServer(s)

IndexerStep(i) == Initialize(i) \/ Run(i) \/ StartUp(i) \/ Serve(i)

ServerStep(s) == StartUp(s) \/ Serve(s)

Next ==
    \/ Start
    \/ \E i \in Indexers : IndexerStep(i) \/ Rollback(i)
    \/ \E s \in Servers : ServerStep(s) \/ Terminate(s)
    \/ \E p \in Processes : Die(p)

Spec == Init /\ [][Next]_vars

-----------------------------------------------------------------------------
Labels == {"down", "dropping", "clearing", "creating", "preparing", "setting",
           "adding", "alone", "storing", "flushing", "mistaken", "writing", "committing",
           "reading", "parsing", "counting", "serving", "naming"}

Row == [known : BOOLEAN, coding : {"none", "golomb"}, garbled : BOOLEAN,
        postings : SUBSET Docs]

Memory ==
    [pc : Labels, method : {"none", "golomb"}, query : BOOLEAN,
     step : 0..Len(Schema),
     cm : {"absent", "none", "golomb"}, compress : {"none", "golomb"},
     open : BOOLEAN, snapshot : Row, doc : Docs, inserted : BOOLEAN,
     updated : BOOLEAN, list : Row, hits : SUBSET Docs]

\* Every variable has its type.
TypeOK ==
    /\ tables \subseteq AllCreated
    /\ setting \in {"absent", "none", "golomb"}
    /\ documents \subseteq Docs
    /\ row \in Row
    /\ nextId \in Nat \ {0}
    /\ runs \in Nat
    /\ env \in [Processes -> Memory]
    /\ faults \subseteq {"overlap", "repeated", "mixed", "changed", "crossed", "garbage"}
    /\ pulled \subseteq Processes
    /\ orphans \subseteq Docs

Free(kinds) == faults \cap kinds = {}

(***************************************************************************)
(* The index loses a document only when two runs overlap, or when a run is *)
(* given another method than the list is stored in: crashes, rollbacks,    *)
(* recreations and servers that come and go are harmless                   *)
(* (indexengine.c:98-120).  The whole list is garbled only when golomb was *)
(* given a title that was stored already (token.c:257).                    *)
(***************************************************************************)
NothingIsLost ==
    Free({"overlap", "mixed"}) =>
        IF row.garbled THEN "repeated" \in faults ELSE row.postings = documents

(***************************************************************************)
(* Whatever overlaps, the index names only documents that are published,   *)
(* or that a lost run had added to the transaction that was undone, or had *)
(* read about in tables that were dropped (mysqldatabase.c:902, commit1).  *)
(* Of a garbled list this says nothing.                                    *)
(***************************************************************************)
IndexNamesDocuments == row.postings \subseteq documents \cup orphans

(***************************************************************************)
(* The setting tells the encoding of the stored list, unless runs overlap  *)
(* or change the method of a stored list, or a server writes back what it  *)
(* read before somebody else's write, or what it found in a dead buffer    *)
(* (searchengine.c:264-265, indexengine.c:109).                            *)
(***************************************************************************)
SettingIsCoding ==
    Free({"overlap", "mixed", "crossed", "garbage"}) /\ IsStored(row)
        => setting = row.coding

(***************************************************************************)
(* Who searches decodes the list by the method it was encoded with, under  *)
(* the same conditions, and if no run changes the method while it is up:   *)
(* it never looks at the setting again (searchengine.c:264).               *)
(***************************************************************************)
SearchesDecode ==
    Free({"overlap", "mixed", "crossed", "garbage", "changed"}) /\ IsStored(row)
        => \A p \in Processes : Settled(p) => env[p].compress = row.coding

(***************************************************************************)
(* When a hit is looked up by its number, the document is there and is the *)
(* one that was found, but for the documents of lost runs, and for         *)
(* searches under which the database was dropped since they read the list  *)
(* (search.c:555, mysqldatabase.c:497).                                    *)
(***************************************************************************)
HitsAreStored ==
    \A p \in Naming \ pulled : env[p].hits \subseteq documents \cup orphans

=============================================================================
