-------------------------- MODULE DeploymentProofs --------------------------
(***************************************************************************)
(* Proofs about Deployment, for any number of indexers, servers, command   *)
(* lines and runs.                                                         *)
(***************************************************************************)
EXTENDS Deployment, TLAPS

Transacting == {"storing", "flushing", "mistaken", "writing", "committing"}

\* What a process knows that is not at work on a document.
Cleared(m) ==
    /\ m.doc = NoDoc
    /\ m.snapshot = NoRow
    /\ m.list = NoRow
    /\ ~ m.open
    /\ ~ m.inserted
    /\ ~ m.updated

\* The documents that the index may name.
Nameable == documents \cup orphans

Own(p) == {env[p].doc} \ {NoDoc}

\* What an indexer knows that is.  Of a lost one the document may be named already.
Consistent(p) ==
    /\ env[p].snapshot.postings \subseteq Nameable
    /\ env[p].list.postings \subseteq Nameable \cup Own(p)
    /\ env[p].pc = "mistaken" => env[p].open
    /\ env[p].pc = "writing" => ~ env[p].open
    /\ ~ env[p].open =>
           /\ Own(p) \subseteq Nameable
           /\ ~ env[p].inserted
           /\ ~ env[p].updated

DInv ==
    /\ TypeOK
    /\ \A p \in Processes :
           IF env[p].pc \in Transacting THEN p \in Indexers /\ Consistent(p)
                                        ELSE Cleared(env[p])
    /\ IndexNamesDocuments

-----------------------------------------------------------------------------
LEMMA DownIsMemory == Down \in Memory
  BY DEF Down, Memory, Labels, NoRow, NoDoc, Row, Docs, Schema

LEMMA InitType == Init => TypeOK
  <1>1. ASSUME Empty PROVE row \in Row /\ documents \subseteq Docs
    BY <1>1 DEF Empty, NoRow, Row
  <1>2. ASSUME NEW next \in {2, 3}, Filled(next) PROVE row \in Row /\ documents \subseteq Docs
    BY <1>2 DEF Filled, Row, Docs
  <1>3. CASE Idle
    BY <1>1, <1>2, <1>3, DownIsMemory DEF Init, Idle, Empty, Filled, TypeOK, AllCreated
  <1>4. ASSUME Init, Deadlocked PROVE TypeOK
    <2>1. PICK i \in Indexers :
              env = [p \in Processes |->
                        IF p = i THEN [Down EXCEPT !.pc = "alone", !.compress = setting]
                                 ELSE Down]
      BY <1>4 DEF Deadlocked
    <2>2. [Down EXCEPT !.pc = "alone", !.compress = setting] \in Memory
      BY <1>4, DownIsMemory DEF Deadlocked, Filled, Memory, Labels
    <2>3. env \in [Processes -> Memory]
      BY <2>1, <2>2, DownIsMemory
    <2> QED BY <1>2, <1>4, <2>3 DEF Init, Deadlocked, Filled, TypeOK, AllCreated
  <1> QED BY <1>3, <1>4 DEF Init

(***************************************************************************)
(* Types.  Each action gives one process a new memory.                     *)
(***************************************************************************)
LEMMA StartIndexerType ==
    ASSUME TypeOK, NEW p \in Processes, NEW option \in Options, StartIndexer(p, option)
    PROVE  env' \in [Processes -> Memory]
  <1> DEFINE m == [env[p] EXCEPT !.pc = IF option.recreate THEN "dropping" ELSE "preparing",
                            !.method = option.method,
                            !.query = option.query]
  <1>1. env[p] \in Memory BY DEF TypeOK
  <1>2. option.method \in {"none", "golomb"} /\ option.query \in BOOLEAN
    BY OptionsAssumption
  <1>3. m \in Memory
    BY <1>1, <1>2 DEF Memory, Labels
  <1>4. env' = [env EXCEPT ![p] = m]
    BY DEF StartIndexer
  <1> QED BY <1>3, <1>4 DEF TypeOK

LEMMA CreateNextType ==
    ASSUME TypeOK, NEW p \in Processes, CreateNext(p)
    PROVE  env' \in [Processes -> Memory]
  <1> DEFINE m == [env[p] EXCEPT !.step = @ + 1]
  <1>1. env[p] \in Memory BY DEF TypeOK
  <1>2. env[p].step + 1 \in 0..Len(Schema)
    BY <1>1 DEF CreateNext, Memory, Schema
  <1>3. m \in Memory
    BY <1>1, <1>2 DEF Memory, Labels
  <1>4. env' = [env EXCEPT ![p] = m]
    BY DEF CreateNext
  <1> QED BY <1>3, <1>4 DEF TypeOK

LEMMA CreateEndsType ==
    ASSUME TypeOK, NEW p \in Processes, CreateEnds(p)
    PROVE  env' \in [Processes -> Memory]
  <1> DEFINE m == [env[p] EXCEPT !.pc = "preparing", !.step = 0]
  <1>1. env[p] \in Memory BY DEF TypeOK
  <1>2. 0 \in 0..Len(Schema)
    BY DEF Schema
  <1>3. m \in Memory
    BY <1>1, <1>2 DEF Memory, Labels
  <1>4. env' = [env EXCEPT ![p] = m]
    BY DEF CreateEnds
  <1> QED BY <1>3, <1>4 DEF TypeOK

LEMMA WriteSettingType ==
    ASSUME TypeOK, NEW p \in Processes, WriteSetting(p)
    PROVE  env' \in [Processes -> Memory]
  <1> DEFINE m == [env[p] EXCEPT !.pc = "adding", !.compress = env[p].method,
                            !.method = "golomb"]
  <1>1. env[p] \in Memory BY DEF TypeOK
  <1>2. m \in Memory
    BY <1>1 DEF Memory, Labels
  <1>3. env' = [env EXCEPT ![p] = m]
    BY DEF WriteSetting
  <1> QED BY <1>2, <1>3 DEF TypeOK

\* What a document is given for a number.
LEMMA NumberedType ==
    ASSUME TypeOK, NEW i \in Indexers, NEW title \in Titles,
           NEW doc \in Numbered(i, title)
    PROVE  doc \in Docs /\ nextId + NumbersUsed(title) \in Nat \ {0}
  <1>1. title \in Nat /\ nextId \in Nat \ {0}
    BY TitlesAssumption DEF TypeOK
  <1>2. nextId + NumbersUsed(title) \in Nat \ {0}
    BY <1>1 DEF NumbersUsed
  <1>3. NoDoc \in Docs /\ [id |-> nextId, title |-> title] \in Docs
    BY <1>1 DEF NoDoc, Docs
  <1>4. Titled(title) \subseteq Docs
    BY DEF Titled, TypeOK
  <1> QED BY <1>2, <1>3, <1>4 DEF Numbered

LEMMA AddDocumentType ==
    ASSUME TypeOK, NEW p \in Indexers, NEW title \in Titles, AddDocument(p, title)
    PROVE  TypeOK'
  <1>1. PICK doc \in Numbered(p, title) :
            /\ env' = [env EXCEPT ![p].pc = "storing", ![p].open = TRUE,
                                  ![p].snapshot = row, ![p].doc = doc]
            /\ faults' \subseteq faults \cup {"repeated"}
    BY DEF AddDocument
  <1> DEFINE m == [env[p] EXCEPT !.pc = "storing", !.open = TRUE, !.snapshot = row,
                            !.doc = doc]
  <1>2. env[p] \in Memory /\ row \in Row
    BY DEF TypeOK, Processes
  <1>3. doc \in Docs /\ nextId + NumbersUsed(title) \in Nat \ {0}
    BY NumberedType
  <1>4. m \in Memory
    BY <1>2, <1>3 DEF Memory, Labels
  <1>5. env' = [env EXCEPT ![p] = m]
    BY <1>1
  <1>6. env' \in [Processes -> Memory]
    BY <1>4, <1>5 DEF TypeOK
  <1> QED BY <1>1, <1>3, <1>6 DEF AddDocument, TypeOK

LEMMA AddDocumentLostType ==
    ASSUME TypeOK, NEW p \in Indexers, NEW title \in Titles, AddDocumentLost(p, title)
    PROVE  TypeOK'
  <1>1. PICK doc \in Numbered(p, title) :
            /\ env' = [env EXCEPT ![p].pc = "storing", ![p].doc = doc]
            /\ documents' = documents \cup ({doc} \ {NoDoc})
    BY DEF AddDocumentLost
  <1> DEFINE m == [env[p] EXCEPT !.pc = "storing", !.doc = doc]
  <1>2. env[p] \in Memory
    BY DEF TypeOK, Processes
  <1>3. doc \in Docs /\ nextId + NumbersUsed(title) \in Nat \ {0}
    BY NumberedType
  <1>4. m \in Memory
    BY <1>2, <1>3 DEF Memory, Labels
  <1>5. env' = [env EXCEPT ![p] = m]
    BY <1>1
  <1>6. env' \in [Processes -> Memory]
    BY <1>4, <1>5 DEF TypeOK
  <1> QED BY <1>1, <1>3, <1>6 DEF AddDocumentLost, history, TypeOK

LEMMA StoreTokenType ==
    ASSUME TypeOK, NEW p \in Processes, StoreToken(p)
    PROVE  env' \in [Processes -> Memory]
  <1> DEFINE inserts == env[p].doc # NoDoc /\ ~ row.known
             found == inserts \/ env[p].snapshot.known
             label == IF found THEN "flushing" ELSE "committing"
             seen == IF found THEN env[p].snapshot ELSE NoRow
             m == [env[p] EXCEPT !.pc = label, !.inserted = inserts, !.snapshot = seen]
  <1>1. env[p] \in Memory BY DEF TypeOK
  <1>2. seen \in Row
    BY <1>1 DEF Row, NoRow, Memory
  <1>3. label \in Labels /\ inserts \in BOOLEAN
    BY DEF Labels
  <1>4. env' = [env EXCEPT ![p] = m]
    BY DEF StoreToken
  <1> HIDE DEF inserts, found, label, seen
  <1>5. m \in Memory
    BY <1>1, <1>2, <1>3 DEF Memory
  <1> QED BY <1>4, <1>5 DEF TypeOK

LEMMA StoreTokenRefusedType ==
    ASSUME TypeOK, NEW p \in Processes, StoreTokenRefused(p)
    PROVE  env' \in [Processes -> Memory]
  <1> DEFINE label == IF env[p].open THEN "mistaken" ELSE "flushing"
             m == [env[p] EXCEPT !.pc = label, !.snapshot = NoRow]
  <1>1. env[p] \in Memory BY DEF TypeOK
  <1>2. NoRow \in Row
    BY DEF Row, NoRow
  <1>3. label \in Labels
    BY DEF Labels
  <1>4. env' = [env EXCEPT ![p] = m]
    BY DEF StoreTokenRefused
  <1> HIDE DEF label
  <1>5. m \in Memory
    BY <1>1, <1>2, <1>3 DEF Memory
  <1> QED BY <1>4, <1>5 DEF TypeOK

LEMMA MergedType ==
    ASSUME TypeOK, NEW p \in Processes, NEW old \in Row
    PROVE  /\ Merged(p, old) \in Row
           /\ Merged(p, old).postings \subseteq old.postings \cup Own(p)
  <1>1. env[p] \in Memory BY DEF TypeOK
  <1>2. old.postings \subseteq Docs /\ old.garbled \in BOOLEAN
    BY DEF Row
  <1>3. env[p].compress \in {"none", "golomb"} /\ env[p].doc \in Docs
    BY <1>1 DEF Memory
  <1>4. Merged(p, old) \in Row
    BY <1>2, <1>3 DEF Merged, Row, Readable
  <1>5. Merged(p, old).postings \subseteq old.postings \cup Own(p)
    BY DEF Merged, Own
  <1> QED BY <1>4, <1>5

LEMMA FlushListType ==
    ASSUME TypeOK, NEW p \in Processes, FlushList(p)
    PROVE  env' \in [Processes -> Memory]
  <1> DEFINE list == Merged(p, env[p].snapshot)
             m == [env[p] EXCEPT !.pc = "committing", !.updated = TRUE, !.list = list,
                            !.snapshot = NoRow]
  <1>1. env[p] \in Memory BY DEF TypeOK
  <1>2. NoRow \in Row
    BY DEF Row, NoRow
  <1>3. env[p].snapshot \in Row
    BY <1>1 DEF Memory
  <1>4. list \in Row
    BY <1>3, MergedType
  <1>5. env' = [env EXCEPT ![p] = m]
    BY DEF FlushList
  <1> HIDE DEF list
  <1>6. m \in Memory
    BY <1>1, <1>2, <1>4 DEF Memory, Labels
  <1> QED BY <1>5, <1>6 DEF TypeOK

LEMMA FlushRefusedType ==
    ASSUME TypeOK, NEW p \in Processes, FlushRefused(p)
    PROVE  env' \in [Processes -> Memory]
  <1> DEFINE m == [env[p] EXCEPT !.pc = "committing", !.snapshot = NoRow]
  <1>1. env[p] \in Memory BY DEF TypeOK
  <1>2. NoRow \in Row
    BY DEF Row, NoRow
  <1>3. m \in Memory
    BY <1>1, <1>2 DEF Memory, Labels
  <1>4. env' = [env EXCEPT ![p] = m]
    BY DEF FlushRefused
  <1> QED BY <1>3, <1>4 DEF TypeOK

LEMMA FlushMistakenType ==
    ASSUME TypeOK, NEW p \in Processes, FlushMistaken(p)
    PROVE  env' \in [Processes -> Memory]
  <1> DEFINE list == Merged(p, NoRow)
             stored == [env[p] EXCEPT !.pc = "committing", !.updated = TRUE, !.list = list]
             unstored == [env[p] EXCEPT !.pc = "committing"]
  <1>1. env[p] \in Memory BY DEF TypeOK
  <1>2. NoRow \in Row
    BY DEF Row, NoRow
  <1>3. list \in Row
    BY <1>2, MergedType
  <1>4. env' = [env EXCEPT ![p] = stored] \/ env' = [env EXCEPT ![p] = unstored]
    BY DEF FlushMistaken, Goto
  <1> HIDE DEF list
  <1>5. stored \in Memory
    BY <1>1, <1>3 DEF Memory, Labels
  <1>6. unstored \in Memory
    BY <1>1 DEF Memory, Labels
  <1> QED BY <1>4, <1>5, <1>6 DEF TypeOK

\* A deadlock, taken apart.
LEMMA DeadlockIs ==
    ASSUME TypeOK, NEW p \in Indexers, Deadlock(p)
    PROVE  \E label \in {"storing", "flushing", "committing"} :
               \E doc \in {env[p].doc, NoDoc} : GoOnLost(p, label, doc)
  <1>1. GoesOn(p) \subseteq {"storing", "flushing", "committing"}
    BY DEF GoesOn
  <1> QED BY <1>1 DEF Deadlock

LEMMA DeadlockType ==
    ASSUME TypeOK, NEW p \in Indexers, Deadlock(p)
    PROVE  TypeOK'
  <1>1. PICK label \in {"storing", "flushing", "committing"} :
            \E doc \in {env[p].doc, NoDoc} : GoOnLost(p, label, doc)
    BY DeadlockIs
  <1>2. PICK doc \in {env[p].doc, NoDoc} : GoOnLost(p, label, doc)
    BY <1>1
  <1> DEFINE m == [env[p] EXCEPT !.pc = label, !.open = FALSE, !.snapshot = NoRow,
                            !.doc = doc, !.inserted = FALSE, !.updated = FALSE,
                            !.list = NoRow]
  <1>3. env[p] \in Memory
    BY DEF TypeOK, Processes
  <1>4. NoRow \in Row /\ NoDoc \in Docs
    BY DEF Row, NoRow, NoDoc, Docs
  <1>5. doc \in Docs /\ label \in Labels
    BY <1>3, <1>4 DEF Memory, Labels
  <1>6. m \in Memory
    BY <1>3, <1>4, <1>5 DEF Memory
  <1>7. env' = [env EXCEPT ![p] = m]
    BY <1>2 DEF GoOnLost
  <1>8. env' \in [Processes -> Memory]
    BY <1>6, <1>7 DEF TypeOK
  <1> QED BY <1>2, <1>5, <1>8 DEF GoOnLost, TypeOK, database

LEMMA FetchLostType ==
    ASSUME TypeOK, NEW p \in Processes, FetchLost(p)
    PROVE  env' \in [Processes -> Memory]
  <1> DEFINE m == [env[p] EXCEPT !.pc = "writing", !.snapshot = row]
  <1>1. env[p] \in Memory /\ row \in Row BY DEF TypeOK
  <1>2. m \in Memory
    BY <1>1 DEF Memory, Labels
  <1>3. env' = [env EXCEPT ![p] = m]
    BY DEF FetchLost
  <1> QED BY <1>2, <1>3 DEF TypeOK

LEMMA WriteLostType ==
    ASSUME TypeOK, NEW p \in Processes, WriteLost(p)
    PROVE  /\ env' \in [Processes -> Memory]
           /\ row' \in Row
           /\ row'.postings \subseteq row.postings \cup env[p].snapshot.postings \cup Own(p)
  <1> DEFINE m == [env[p] EXCEPT !.pc = "committing", !.snapshot = NoRow]
  <1>1. env[p] \in Memory BY DEF TypeOK
  <1>2. NoRow \in Row
    BY DEF Row, NoRow
  <1>3. m \in Memory
    BY <1>1, <1>2 DEF Memory, Labels
  <1>4. env' = [env EXCEPT ![p] = m]
    BY DEF WriteLost
  <1>5. env[p].snapshot \in Row /\ row \in Row
    BY <1>1 DEF Memory, TypeOK
  <1>6. row' = row \/ row' = Merged(p, env[p].snapshot)
    BY DEF WriteLost
  <1> QED BY <1>3, <1>4, <1>5, <1>6, MergedType DEF TypeOK

LEMMA RunEndsType ==
    ASSUME TypeOK, NEW p \in Processes, RunEnds(p)
    PROVE  env' \in [Processes -> Memory]
  <1>1. [Down EXCEPT !.pc = "reading"] \in Memory
    BY DownIsMemory DEF Memory, Labels
  <1> QED BY <1>1, DownIsMemory DEF RunEnds, TypeOK

LEMMA GotoType ==
    ASSUME TypeOK, NEW p \in Processes, NEW label \in Labels, Goto(p, label)
    PROVE  env' \in [Processes -> Memory]
  <1> DEFINE m == [env[p] EXCEPT !.pc = label]
  <1>1. m \in Memory
    BY DEF TypeOK, Memory
  <1>2. env' = [env EXCEPT ![p] = m]
    BY DEF Goto
  <1> QED BY <1>1, <1>2 DEF TypeOK

LEMMA StoreTokenLostType ==
    ASSUME TypeOK, NEW p \in Processes, StoreTokenLost(p)
    PROVE  /\ \E label \in {"flushing", "committing"} : env' = [env EXCEPT ![p].pc = label]
           /\ env' \in [Processes -> Memory]
           /\ row' \in Row
           /\ row'.postings = row.postings
  <1>1. row' = [row EXCEPT !.known = @ \/ env[p].doc # NoDoc]
    BY DEF StoreTokenLost
  <1>2. row' \in Row /\ row'.postings = row.postings
    BY <1>1 DEF TypeOK, Row
  <1>3. PICK label \in {"flushing", "committing"} : env' = [env EXCEPT ![p].pc = label]
    BY DEF StoreTokenLost, Goto
  <1>4. label \in Labels /\ Goto(p, label)
    BY <1>3 DEF Labels, Goto
  <1>5. env' \in [Processes -> Memory]
    BY <1>4, GotoType
  <1> QED BY <1>2, <1>3, <1>5

LEMMA QuitType ==
    ASSUME TypeOK, NEW p \in Processes, Quit(p)
    PROVE  env' \in [Processes -> Memory]
  BY DownIsMemory DEF Quit, TypeOK

LEMMA ReadSettingType ==
    ASSUME TypeOK, NEW p \in Processes, ReadSetting(p)
    PROVE  env' \in [Processes -> Memory]
  <1> DEFINE m == [env[p] EXCEPT !.pc = "parsing", !.cm = setting]
  <1>1. env[p] \in Memory BY DEF TypeOK
  <1>2. setting \in {"absent", "none", "golomb"}
    BY DEF TypeOK
  <1>3. m \in Memory
    BY <1>1, <1>2 DEF Memory, Labels
  <1>4. env' = [env EXCEPT ![p] = m]
    BY DEF ReadSetting
  <1> QED BY <1>3, <1>4 DEF TypeOK

LEMMA WriteBackType ==
    ASSUME TypeOK, NEW p \in Processes, WriteBack(p)
    PROVE  /\ env' \in [Processes -> Memory]
           /\ setting' \in {"absent", "none", "golomb"}
           /\ faults' \subseteq {"overlap", "repeated", "mixed", "changed", "crossed",
                                "garbage"}
  <1>1. PICK method \in Parsed(env[p].cm) :
            /\ setting' = Replaced(method)
            /\ env' = [env EXCEPT ![p].pc = "counting", ![p].cm = "absent",
                                  ![p].compress = method]
            /\ faults' \subseteq faults \cup {"crossed", "garbage"}
    BY DEF WriteBack
  <1> DEFINE m == [env[p] EXCEPT !.pc = "counting", !.cm = "absent",
                            !.compress = method]
  <1>2. method \in {"none", "golomb"}
    BY DEF Parsed, TypeOK, Memory
  <1>3. env[p] \in Memory BY DEF TypeOK
  <1>4. m \in Memory
    BY <1>2, <1>3 DEF Memory, Labels
  <1>5. env' = [env EXCEPT ![p] = m]
    BY <1>1
  <1>6. env' \in [Processes -> Memory]
    BY <1>4, <1>5 DEF TypeOK
  <1> QED BY <1>1, <1>2, <1>6 DEF TypeOK, Replaced

LEMMA AskType ==
    ASSUME TypeOK, NEW p \in Processes, Ask(p)
    PROVE  env' \in [Processes -> Memory]
  <1> DEFINE found == IF row.coding = env[p].compress THEN row.postings ELSE {}
             m == [env[p] EXCEPT !.pc = "naming", !.hits = found]
  <1>1. env[p] \in Memory BY DEF TypeOK
  <1>2. found \in SUBSET Docs
    BY DEF TypeOK, Row
  <1>3. m \in Memory
    BY <1>1, <1>2 DEF Memory, Labels
  <1>4. env' = [env EXCEPT ![p] = m]
    BY DEF Ask
  <1> QED BY <1>3, <1>4 DEF TypeOK

LEMMA ReplyType ==
    ASSUME TypeOK, NEW p \in Processes, Reply(p)
    PROVE  env' \in [Processes -> Memory]
  <1> DEFINE m == [env[p] EXCEPT !.pc = "serving", !.hits = {}]
  <1>1. env[p] \in Memory BY DEF TypeOK
  <1>2. m \in Memory
    BY <1>1 DEF Memory, Labels
  <1>3. env' = [env EXCEPT ![p] = m] \/ Quit(p)
    BY DEF Reply
  <1> QED BY <1>2, <1>3, QuitType DEF TypeOK

\* The actions of a process that is not at work on a document after the step.
IdleStep(p) ==
    \/ p \in Indexers /\ \E option \in Options : StartIndexer(p, option)
    \/ p \in Servers /\ StartServer(p)
    \/ CreateNext(p) \/ CreateFails(p) \/ CreateEnds(p)
    \/ Prepare(p) \/ PrepareFails(p)
    \/ p \in Indexers /\ (WriteSetting(p) \/ LoseEarlier(p))
    \/ AddDocumentFails(p) \/ LostFails(p) \/ Rollback(p)
    \/ ReadSetting(p) \/ ReadSettingFails(p) \/ WriteBack(p)
    \/ CountDocuments(p) \/ CountFails(p)
    \/ Ask(p) \/ AskFails(p) \/ Reply(p) \/ ReplyFails(p)
    \/ Terminate(p) \/ Die(p)

AddStep(i) ==
    \E title \in Titles : AddDocument(i, title) \/ AddDocumentLost(i, title)

\* The steps inside of a transaction, and the refused statement of any run.
InnerStep(i) ==
    \/ StoreToken(i) \/ StoreTokenRefused(i)
    \/ FlushList(i) \/ FlushRefused(i) \/ FlushMistaken(i)

LostStep(i) == StoreTokenLost(i) \/ FetchLost(i) \/ WriteLost(i)

DropStep(i) == DropDatabase(i) \/ DropTables(i)

\* The steps of an indexer that are not idle ones.
WorkStep(i) ==
    \/ DropStep(i) \/ AddStep(i) \/ InnerStep(i) \/ Deadlock(i) \/ LostStep(i)
    \/ Commit(i)

LEMMA NextCases ==
    ASSUME Next
    PROVE  \/ \E p \in Processes : IdleStep(p)
           \/ \E i \in Indexers : WorkStep(i)
  BY DEF Next, Start, IndexerStep, ServerStep, Initialize, Run, StartUp, Serve,
         Processes, IdleStep, InnerStep, DropStep, AddStep, LostStep, WorkStep

LEMMA IdleType ==
    ASSUME TypeOK, NEW p \in Processes, IdleStep(p)
    PROVE  TypeOK'
  <1>1. CASE \E option \in Options : StartIndexer(p, option)
    <2>1. env' \in [Processes -> Memory]
      BY <1>1, StartIndexerType
    <2> QED BY <1>1, <2>1 DEF StartIndexer, TypeOK, database
  <1>2. CASE StartServer(p)
    <2>1. env' \in [Processes -> Memory]
      BY <1>2, GotoType DEF StartServer, Labels
    <2> QED BY <1>2, <2>1 DEF StartServer, TypeOK, database, history
  <1>3. CASE CreateNext(p)
    <2>1. env' \in [Processes -> Memory]
      BY <1>3, CreateNextType
    <2>2. Creating(p) \in AllCreated
      BY <1>3 DEF CreateNext, Creating, AllCreated, TypeOK, Memory, Schema
    <2> QED BY <1>3, <2>1, <2>2 DEF CreateNext, TypeOK, history
  <1>4. CASE CreateEnds(p)
    <2>1. env' \in [Processes -> Memory]
      BY <1>4, CreateEndsType
    <2> QED BY <1>4, <2>1 DEF CreateEnds, TypeOK, database, history
  <1>5. CASE Prepare(p)
    <2>1. env' \in [Processes -> Memory]
      BY <1>5, GotoType DEF Prepare, Labels
    <2> QED BY <1>5, <2>1 DEF Prepare, TypeOK, database, history
  <1>6. CASE WriteSetting(p)
    <2>1. env' \in [Processes -> Memory]
      BY <1>6, WriteSettingType
    <2>2. env[p].method \in {"none", "golomb"}
      BY DEF TypeOK, Memory
    <2> QED BY <1>6, <2>1, <2>2 DEF WriteSetting, Replaced, TypeOK
  <1>7. CASE Rollback(p)
    <2>1. env' \in [Processes -> Memory]
      BY <1>7, RunEndsType DEF Rollback
    <2> QED BY <1>7, <2>1 DEF Rollback, TypeOK, database, history
  <1>8. CASE ReadSetting(p)
    <2>1. env' \in [Processes -> Memory]
      BY <1>8, ReadSettingType
    <2> QED BY <1>8, <2>1 DEF ReadSetting, TypeOK, database, history
  <1>9. CASE WriteBack(p)
    BY <1>9, WriteBackType DEF WriteBack, TypeOK
  <1>10. CASE CountDocuments(p)
    <2>1. env' \in [Processes -> Memory]
      BY <1>10, GotoType DEF CountDocuments, Labels
    <2> QED BY <1>10, <2>1 DEF CountDocuments, TypeOK, database, history
  <1>11. CASE Ask(p)
    <2>1. env' \in [Processes -> Memory]
      BY <1>11, AskType
    <2> QED BY <1>11, <2>1 DEF Ask, TypeOK, database, history
  <1>12. CASE Reply(p)
    <2>1. env' \in [Processes -> Memory]
      BY <1>12, ReplyType
    <2> QED BY <1>12, <2>1 DEF Reply, TypeOK, database
  <1>13. CASE Exit(p)
    <2>1. env' \in [Processes -> Memory]
      BY <1>13, QuitType DEF Exit
    <2> QED BY <1>13, <2>1 DEF Exit, TypeOK, database
  <1>14. CASE LoseEarlier(p)
    <2>1. env' \in [Processes -> Memory]
      BY <1>14, GotoType DEF LoseEarlier, Labels
    <2> QED BY <1>14, <2>1 DEF LoseEarlier, TypeOK, database, history
  <1> QED
    BY <1>1, <1>2, <1>3, <1>4, <1>5, <1>6, <1>7, <1>8, <1>9, <1>10, <1>11, <1>12,
       <1>13, <1>14
    DEF IdleStep, CreateFails, PrepareFails, AddDocumentFails, LostFails,
        ReadSettingFails, CountFails, AskFails, ReplyFails, Terminate, Die

LEMMA WorkType ==
    ASSUME TypeOK, NEW i \in Indexers, WorkStep(i)
    PROVE  TypeOK'
  <1>1. i \in Processes
    BY DEF Processes
  <1>2. NoRow \in Row
    BY DEF NoRow, Row
  <1>3. CASE DropStep(i)
    <2>1. env' \in [Processes -> Memory]
      BY <1>1, <1>3, GotoType DEF DropStep, DropDatabase, DropTables, Labels
    <2>2. PICK kept : Dropped(kept)
      BY <1>3 DEF DropStep, DropDatabase, DropTables
    <2> QED BY <1>2, <2>1, <2>2 DEF Dropped, Naming, TypeOK
  <1>4. CASE AddStep(i)
    BY <1>4, AddDocumentType, AddDocumentLostType DEF AddStep
  <1>5. CASE InnerStep(i)
    <2>1. env' \in [Processes -> Memory]
      BY <1>1, <1>5, StoreTokenType, StoreTokenRefusedType, FlushListType,
         FlushRefusedType, FlushMistakenType
      DEF InnerStep
    <2> QED
      BY <1>5, <2>1
      DEF InnerStep, StoreToken, StoreTokenRefused, FlushList, FlushRefused,
          FlushMistaken, TypeOK, database, history
  <1>6. CASE LostStep(i)
    <2>1. env' \in [Processes -> Memory] /\ row' \in Row
      BY <1>1, <1>6, StoreTokenLostType, FetchLostType, WriteLostType
      DEF LostStep, FetchLost, TypeOK, database
    <2> QED
      BY <1>6, <2>1
      DEF LostStep, StoreTokenLost, FetchLost, WriteLost, TypeOK, database, history
  <1>7. CASE Commit(i)
    <2>1. env' \in [Processes -> Memory]
      BY <1>1, <1>7, RunEndsType DEF Commit
    <2>2. env[i].doc \in Docs /\ env[i].list \in Row
      BY <1>1 DEF TypeOK, Memory
    <2>3. [NoRow EXCEPT !.known = TRUE] \in Row
      BY DEF NoRow, Row
    <2>4. Published(i) \in Row
      BY <2>2, <2>3 DEF Published, TypeOK
    <2> QED BY <1>7, <2>1, <2>2, <2>4 DEF Commit, TypeOK, history
  <1> QED BY <1>3, <1>4, <1>5, <1>6, <1>7, DeadlockType DEF WorkStep

-----------------------------------------------------------------------------
(***************************************************************************)
(* What the index may name.                                                *)
(***************************************************************************)

\* What a step looks like that leaves process p at work on no document.
Quiet(p) ==
    /\ UNCHANGED <<documents, row, nextId, orphans>>
    /\ \A q \in Processes \ {p} : env'[q] = env[q]
    /\ env'[p].pc \notin Transacting
    /\ Cleared(env'[p])

LEMMA DownIsCleared == Cleared(Down) /\ Down.pc = "down"
  BY DEF Cleared, Down

LEMMA IdleIsQuiet ==
    ASSUME DInv, NEW p \in Processes, IdleStep(p)
    PROVE  Quiet(p)
  <1>0. env \in [Processes -> Memory]
    BY DEF DInv, TypeOK
  <1>1. env[p].pc \notin Transacting => Cleared(env[p])
    BY DEF DInv
  <1>2. CASE Exit(p)
    BY <1>0, <1>2, DownIsCleared DEF Exit, Quit, Quiet, database, Transacting
  <1>3. CASE Rollback(p)
    <2>1. env'[p] = Down \/ env'[p] = [Down EXCEPT !.pc = "reading"]
      BY <1>0, <1>3 DEF Rollback, RunEnds
    <2>2. env'[p].pc \notin Transacting /\ Cleared(env'[p])
      BY <2>1 DEF Down, Cleared, Transacting
    <2> QED BY <1>0, <1>3, <2>2 DEF Rollback, RunEnds, Quiet, database, history
  <1>4. CASE Reply(p)
    <2>1. CASE env' = [env EXCEPT ![p].pc = "serving", ![p].hits = {}]
      BY <1>0, <1>1, <1>4, <2>1
      DEF Reply, Quiet, database, Cleared, Memory, Transacting
    <2>2. CASE Quit(p)
      BY <1>0, <1>4, <2>2, DownIsCleared DEF Reply, Quit, Quiet, database, Transacting
    <2> QED BY <1>4, <2>1, <2>2 DEF Reply
  <1>5. CASE \E option \in Options : StartIndexer(p, option)
    <2>1. env[p].pc = "down"
      BY <1>5 DEF StartIndexer, Up
    <2>2. PICK option \in Options : StartIndexer(p, option)
      BY <1>5
    <2> DEFINE label == IF option.recreate THEN "dropping" ELSE "preparing"
    <2>3. env' = [env EXCEPT ![p].pc = label, ![p].method = option.method,
                             ![p].query = option.query]
      BY <2>2 DEF StartIndexer
    <2>4. label \notin Transacting
      BY DEF Transacting
    <2> HIDE DEF label
    <2>5. /\ \A q \in Processes \ {p} : env'[q] = env[q]
          /\ env'[p].pc \notin Transacting
          /\ Cleared(env'[p])
      BY <1>0, <1>1, <2>1, <2>3, <2>4 DEF Cleared, Memory, Transacting
    <2> QED BY <2>2, <2>5 DEF StartIndexer, Quiet, database
  <1>6. CASE StartServer(p) \/ Prepare(p) \/ LoseEarlier(p) \/ CountDocuments(p)
    <2>1. env[p].pc \notin Transacting
      BY <1>6 DEF StartServer, Prepare, LoseEarlier, CountDocuments, Up, Transacting
    <2>2. PICK label \in {"preparing", "setting", "reading", "alone", "serving"} :
              env' = [env EXCEPT ![p].pc = label]
      BY <1>6 DEF StartServer, Prepare, LoseEarlier, CountDocuments, Goto
    <2>3. label \notin Transacting
      BY DEF Transacting
    <2>4. /\ \A q \in Processes \ {p} : env'[q] = env[q]
          /\ env'[p].pc \notin Transacting
          /\ Cleared(env'[p])
      BY <1>0, <1>1, <2>1, <2>2, <2>3 DEF Cleared, Memory
    <2> QED
      BY <1>6, <2>4
      DEF StartServer, Prepare, LoseEarlier, CountDocuments, Quiet, database, history
  <1>9. CASE CreateNext(p)
    BY <1>0, <1>1, <1>9 DEF CreateNext, Quiet, Cleared, Memory, Transacting, history
  <1>10. CASE CreateEnds(p)
    BY <1>0, <1>1, <1>10
    DEF CreateEnds, Quiet, database, history, Cleared, Memory, Transacting
  <1>11. CASE WriteSetting(p)
    BY <1>0, <1>1, <1>11 DEF WriteSetting, Quiet, Cleared, Memory, Transacting
  <1>7. CASE ReadSetting(p)
    BY <1>0, <1>1, <1>7
    DEF ReadSetting, Quiet, database, history, Cleared, Memory, Transacting
  <1>12. CASE Ask(p)
    <2>1. PICK found : env' = [env EXCEPT ![p].pc = "naming", ![p].hits = found]
      BY <1>12 DEF Ask
    <2> QED
      BY <1>0, <1>1, <1>12, <2>1
      DEF Ask, Quiet, database, history, Cleared, Memory, Transacting
  <1>8. CASE WriteBack(p)
    <2>1. PICK method : env' = [env EXCEPT ![p].pc = "counting", ![p].cm = "absent",
                                           ![p].compress = method]
      BY <1>8 DEF WriteBack
    <2> QED
      BY <1>0, <1>1, <1>8, <2>1 DEF WriteBack, Quiet, Cleared, Memory, Transacting
  <1> QED
    BY <1>2, <1>3, <1>4, <1>5, <1>6, <1>7, <1>8, <1>9, <1>10, <1>11, <1>12
    DEF IdleStep, CreateFails, PrepareFails, AddDocumentFails, LostFails,
        ReadSettingFails, CountFails, AskFails, ReplyFails, Terminate, Die

LEMMA QuietKeeps ==
    ASSUME DInv, NEW p \in Processes, Quiet(p), TypeOK'
    PROVE  DInv'
  <1>1. Nameable' = Nameable
    BY DEF Quiet, Nameable
  <1>2. \A q \in Processes \ {p} : Consistent(q)' <=> Consistent(q)
    BY <1>1 DEF Quiet, Consistent, Own
  <1>3. \A q \in Processes :
            IF env'[q].pc \in Transacting THEN q \in Indexers /\ Consistent(q)'
                                          ELSE Cleared(env'[q])
    BY <1>2 DEF DInv, Quiet
  <1>4. IndexNamesDocuments'
    BY DEF DInv, IndexNamesDocuments, Quiet
  <1> QED BY <1>3, <1>4 DEF DInv

\* A step of one indexer, when no document ceases to be nameable.
LEMMA WorkKeeps ==
    ASSUME DInv, NEW i \in Indexers, TypeOK',
           Nameable \subseteq Nameable',
           \A q \in Processes \ {i} : env'[q] = env[q],
           IF env'[i].pc \in Transacting THEN Consistent(i)' ELSE Cleared(env'[i]),
           row'.postings \subseteq Nameable'
    PROVE  DInv'
  <1>1. ASSUME NEW q \in Processes \ {i}, Consistent(q) PROVE Consistent(q)'
    BY <1>1 DEF Consistent, Own
  <1>2. \A q \in Processes :
            IF env'[q].pc \in Transacting THEN q \in Indexers /\ Consistent(q)'
                                          ELSE Cleared(env'[q])
    BY <1>1 DEF DInv
  <1> QED BY <1>2 DEF DInv, IndexNamesDocuments, Nameable

\* What is known of an indexer, and where the list names nothing else.
LEMMA IndexerKnows ==
    ASSUME DInv, NEW i \in Indexers
    PROVE  /\ i \in Processes
           /\ env \in [Processes -> Memory]
           /\ env[i] \in Memory
           /\ row \in Row
           /\ env[i].pc \in Transacting => Consistent(i)
           /\ env[i].pc \notin Transacting => Cleared(env[i])
           /\ row.postings \subseteq Nameable
           /\ NoRow.postings = {}
  BY DEF DInv, TypeOK, Processes, IndexNamesDocuments, Nameable, NoRow

LEMMA DropKeeps ==
    ASSUME DInv, NEW i \in Indexers, DropStep(i)
    PROVE  DInv'
  <1>1. TypeOK'
    BY WorkType DEF DInv, WorkStep
  <1>2. PICK label \in {"clearing", "creating"} : env' = [env EXCEPT ![i].pc = label]
    BY DEF DropStep, DropDatabase, DropTables, Goto
  <1>3. /\ documents' = {}
        /\ row' = NoRow
        /\ orphans' = IF \E j \in Indexers : Lost(j) THEN orphans \cup documents ELSE orphans
    BY DEF DropStep, DropDatabase, DropTables, Dropped
  <1>4. \A q \in Processes \ {i} : env'[q] = env[q] /\ ~ env[q].open
    BY <1>2, IndexerKnows
    DEF DropStep, DropDatabase, DropTables, OthersInTransaction
  <1>5. env'[i].pc \notin Transacting /\ Cleared(env'[i])
    BY <1>2, IndexerKnows
    DEF DropStep, DropDatabase, DropTables, Transacting, Cleared, Memory
  <1>6. ASSUME NEW q \in Processes \ {i}, env[q].pc \in Transacting
        PROVE  q \in Indexers /\ Consistent(q)'
    <2>1. q \in Indexers /\ Consistent(q)
      BY <1>6 DEF DInv
    <2>2. Lost(q)
      BY <1>4, <1>6, <2>1 DEF Lost, Transacting, Consistent
    <2>3. Nameable \subseteq Nameable'
      BY <1>3, <2>1, <2>2 DEF Nameable
    <2> QED BY <1>4, <2>1, <2>3 DEF Consistent, Own
  <1>7. \A q \in Processes :
            IF env'[q].pc \in Transacting THEN q \in Indexers /\ Consistent(q)'
                                          ELSE Cleared(env'[q])
    BY <1>4, <1>5, <1>6 DEF DInv
  <1>8. IndexNamesDocuments'
    BY <1>3 DEF IndexNamesDocuments, NoRow
  <1> QED BY <1>1, <1>7, <1>8 DEF DInv

LEMMA AddKeeps ==
    ASSUME DInv, NEW i \in Indexers, AddStep(i)
    PROVE  DInv'
  <1>1. TypeOK'
    BY WorkType DEF DInv, WorkStep
  <1>2. PICK title \in Titles : AddDocument(i, title) \/ AddDocumentLost(i, title)
    BY DEF AddStep
  <1>3. Cleared(env[i])
    BY <1>2, IndexerKnows DEF AddDocument, AddDocumentLost, Transacting
  <1>4. CASE AddDocument(i, title)
    <2>1. PICK doc : env' = [env EXCEPT ![i].pc = "storing", ![i].open = TRUE,
                                        ![i].snapshot = row, ![i].doc = doc]
      BY <1>4 DEF AddDocument
    <2>2. /\ \A q \in Processes \ {i} : env'[q] = env[q]
          /\ env'[i].pc = "storing"
          /\ env'[i].open
          /\ env'[i].snapshot = row
          /\ env'[i].list = NoRow
      BY <1>3, <2>1, IndexerKnows DEF Memory, Cleared
    <2>3. UNCHANGED <<documents, orphans, row>>
      BY <1>4 DEF AddDocument
    <2>4. Consistent(i)'
      BY <2>2, <2>3, IndexerKnows DEF Consistent, Nameable
    <2> QED
      BY <1>1, <2>2, <2>3, <2>4, IndexerKnows, WorkKeeps DEF Nameable, Transacting
  <1>5. CASE AddDocumentLost(i, title)
    <2>1. PICK doc : /\ env' = [env EXCEPT ![i].pc = "storing", ![i].doc = doc]
                     /\ documents' = documents \cup ({doc} \ {NoDoc})
      BY <1>5 DEF AddDocumentLost
    <2>2. /\ \A q \in Processes \ {i} : env'[q] = env[q]
          /\ env'[i].pc = "storing"
          /\ env'[i].snapshot = NoRow
          /\ env'[i].list = NoRow
          /\ env'[i].doc = doc
          /\ ~ env'[i].open
          /\ ~ env'[i].inserted
          /\ ~ env'[i].updated
      BY <1>3, <2>1, IndexerKnows DEF Memory, Cleared
    <2>3. orphans' = orphans /\ row' = row
      BY <1>5 DEF AddDocumentLost, history
    <2>4. Nameable \subseteq Nameable' /\ Own(i)' \subseteq Nameable'
      BY <2>1, <2>2, <2>3 DEF Nameable, Own
    <2>5. Consistent(i)'
      BY <2>2, <2>4, IndexerKnows DEF Consistent
    <2> QED BY <1>1, <2>2, <2>3, <2>4, <2>5, IndexerKnows, WorkKeeps DEF Transacting
  <1> QED BY <1>2, <1>4, <1>5

LEMMA InnerKeeps ==
    ASSUME DInv, NEW i \in Indexers, InnerStep(i)
    PROVE  DInv'
  <1>1. TypeOK'
    BY WorkType DEF DInv, WorkStep
  <1>2. Consistent(i) /\ env[i].pc \in Transacting
    BY IndexerKnows
    DEF InnerStep, StoreToken, StoreTokenRefused, FlushList, FlushRefused,
        FlushMistaken, Transacting
  <1>3. UNCHANGED <<documents, row, orphans>>
    BY DEF InnerStep, StoreToken, StoreTokenRefused, FlushList, FlushRefused,
           FlushMistaken, database, history
  <1>4. env[i].snapshot \in Row /\ NoRow \in Row
    BY IndexerKnows DEF Memory, NoRow, Row
  <1>5. /\ Merged(i, env[i].snapshot).postings \subseteq Nameable \cup Own(i)
        /\ Merged(i, NoRow).postings \subseteq Nameable \cup Own(i)
    <2>1. /\ Merged(i, env[i].snapshot).postings \subseteq env[i].snapshot.postings \cup Own(i)
          /\ Merged(i, NoRow).postings \subseteq NoRow.postings \cup Own(i)
      BY <1>4, IndexerKnows, MergedType DEF DInv
    <2> QED BY <1>2, <2>1, IndexerKnows DEF Consistent
  <1>6. /\ env'[i].pc \in Transacting
        /\ env'[i].doc = env[i].doc
        /\ env'[i].open = env[i].open
        /\ env'[i].snapshot \in {env[i].snapshot, NoRow}
        /\ env'[i].list \in {env[i].list, Merged(i, env[i].snapshot), Merged(i, NoRow)}
        /\ env'[i].pc = "mistaken" => env[i].open
        /\ env'[i].pc # "writing"
        /\ ~ env[i].open => ~ env'[i].inserted /\ ~ env'[i].updated
        /\ \A q \in Processes \ {i} : env'[q] = env[q]
    <2>1. CASE StoreToken(i)
      <3> DEFINE inserts == env[i].doc # NoDoc /\ ~ row.known
                 found == inserts \/ env[i].snapshot.known
                 label == IF found THEN "flushing" ELSE "committing"
                 seen == IF found THEN env[i].snapshot ELSE NoRow
      <3>1. env' = [env EXCEPT ![i].pc = label, ![i].inserted = inserts, ![i].snapshot = seen]
        BY <2>1, IndexerKnows DEF StoreToken
      <3>2. label \in {"flushing", "committing"} /\ seen \in {env[i].snapshot, NoRow}
        OBVIOUS
      <3>3. env[i].open
        BY <2>1 DEF StoreToken
      <3> HIDE DEF inserts, found, label, seen
      <3> QED BY <3>1, <3>2, <3>3, IndexerKnows DEF Memory, Transacting
    <2>2. CASE StoreTokenRefused(i)
      BY <1>2, <2>2, IndexerKnows DEF StoreTokenRefused, Consistent, Memory, Transacting
    <2>3. CASE FlushList(i)
      BY <2>3, IndexerKnows DEF FlushList, Memory, Transacting
    <2>4. CASE FlushRefused(i)
      BY <2>4, IndexerKnows DEF FlushRefused, Memory, Transacting
    <2>5. CASE FlushMistaken(i)
      BY <1>2, <2>5, IndexerKnows DEF FlushMistaken, Goto, Consistent, Memory, Transacting
    <2> QED BY <2>1, <2>2, <2>3, <2>4, <2>5 DEF InnerStep
  <1>7. Consistent(i)'
    <2>1. Nameable' = Nameable /\ Own(i)' = Own(i)
      BY <1>3, <1>6 DEF Nameable, Own
    <2>2. env'[i].list.postings \subseteq Nameable \cup Own(i)
      BY <1>2, <1>5, <1>6 DEF Consistent
    <2>3. env'[i].snapshot.postings \subseteq Nameable
      BY <1>2, <1>6, IndexerKnows DEF Consistent
    <2> QED BY <1>2, <1>6, <2>1, <2>2, <2>3 DEF Consistent
  <1> QED BY <1>1, <1>3, <1>6, <1>7, IndexerKnows, WorkKeeps DEF Nameable

LEMMA DeadlockKeeps ==
    ASSUME DInv, NEW i \in Indexers, Deadlock(i)
    PROVE  DInv'
  <1>1. TypeOK'
    BY WorkType DEF DInv, WorkStep
  <1>9. PICK label \in {"storing", "flushing", "committing"} :
            \E doc \in {env[i].doc, NoDoc} : GoOnLost(i, label, doc)
    BY DeadlockIs DEF DInv
  <1>2. PICK doc \in {env[i].doc, NoDoc} : GoOnLost(i, label, doc)
    BY <1>9
  <1>3. /\ \A q \in Processes \ {i} : env'[q] = env[q]
        /\ env'[i].pc = label
        /\ env'[i].doc = doc
        /\ ~ env'[i].open
        /\ env'[i].snapshot = NoRow
        /\ env'[i].list = NoRow
        /\ ~ env'[i].inserted
        /\ ~ env'[i].updated
    BY <1>2, IndexerKnows DEF Memory, GoOnLost
  <1>4. documents' = documents /\ row' = row
    BY <1>2 DEF GoOnLost, database
  <1>5. Nameable \subseteq Nameable' /\ Own(i)' \subseteq Nameable'
    BY <1>2, <1>3, <1>4 DEF GoOnLost, Nameable, Own
  <1>6. Consistent(i)'
    BY <1>2, <1>3, <1>5, IndexerKnows DEF Consistent
  <1>7. env'[i].pc \in Transacting
    BY <1>2, <1>3 DEF Transacting
  <1>8. row'.postings \subseteq Nameable'
    BY <1>4, <1>5, IndexerKnows
  <1> QED BY <1>1, <1>3, <1>5, <1>6, <1>7, <1>8, WorkKeeps

LEMMA LostKeeps ==
    ASSUME DInv, NEW i \in Indexers, LostStep(i)
    PROVE  DInv'
  <1>1. TypeOK'
    BY WorkType DEF DInv, WorkStep
  <1>2. Consistent(i)
    BY IndexerKnows DEF LostStep, StoreTokenLost, FetchLost, WriteLost, Transacting
  <1>3. UNCHANGED <<documents, orphans>>
    BY DEF LostStep, StoreTokenLost, FetchLost, WriteLost, database, history
  <1>4. CASE StoreTokenLost(i)
    <2>1. PICK label \in {"flushing", "committing"} : env' = [env EXCEPT ![i].pc = label]
      BY <1>4, IndexerKnows, StoreTokenLostType DEF DInv
    <2>2. row'.postings = row.postings
      BY <1>4, IndexerKnows, StoreTokenLostType DEF DInv
    <2>3. /\ \A q \in Processes \ {i} : env'[q] = env[q]
          /\ env'[i] = [env[i] EXCEPT !.pc = label]
      BY <2>1, IndexerKnows
    <2>4. Consistent(i)' /\ env'[i].pc \in Transacting
      BY <1>2, <1>3, <2>3, IndexerKnows DEF Consistent, Nameable, Own, Memory, Transacting
    <2> QED BY <1>1, <1>3, <2>2, <2>3, <2>4, IndexerKnows, WorkKeeps DEF Nameable
  <1>5. CASE FetchLost(i)
    <2>1. /\ \A q \in Processes \ {i} : env'[q] = env[q]
          /\ env'[i] = [env[i] EXCEPT !.pc = "writing", !.snapshot = row]
          /\ ~ env[i].open
      BY <1>5, IndexerKnows DEF FetchLost
    <2>2. Consistent(i)' /\ env'[i].pc \in Transacting
      BY <1>2, <1>3, <2>1, IndexerKnows DEF Consistent, Nameable, Own, Memory, Transacting
    <2>3. row' = row
      BY <1>5 DEF FetchLost, database
    <2> QED BY <1>1, <1>3, <2>1, <2>2, <2>3, IndexerKnows, WorkKeeps DEF Nameable
  <1>6. CASE WriteLost(i)
    <2>1. /\ \A q \in Processes \ {i} : env'[q] = env[q]
          /\ env'[i] = [env[i] EXCEPT !.pc = "committing", !.snapshot = NoRow]
      BY <1>6, IndexerKnows DEF WriteLost
    <2>2. Consistent(i)' /\ env'[i].pc \in Transacting
      BY <1>2, <1>3, <2>1, IndexerKnows DEF Consistent, Nameable, Own, Memory, Transacting
    <2>3. row'.postings \subseteq row.postings \cup env[i].snapshot.postings \cup Own(i)
      BY <1>6, IndexerKnows, WriteLostType DEF DInv
    <2>4. Own(i) \subseteq Nameable
      <3>1. ~ env[i].open
        BY <1>2, <1>6 DEF WriteLost, Consistent
      <3> QED BY <1>2, <3>1 DEF Consistent
    <2>5. row'.postings \subseteq Nameable'
      BY <1>2, <1>3, <2>3, <2>4, IndexerKnows DEF Consistent, Nameable
    <2> QED BY <1>1, <1>3, <2>1, <2>2, <2>5, IndexerKnows, WorkKeeps DEF Nameable
  <1> QED BY <1>4, <1>5, <1>6 DEF LostStep

LEMMA CommitKeeps ==
    ASSUME DInv, NEW i \in Indexers, Commit(i)
    PROVE  DInv'
  <1>1. TypeOK'
    BY WorkType DEF DInv, WorkStep
  <1>2. Consistent(i)
    BY IndexerKnows DEF Commit, Transacting
  <1>3. /\ documents' = documents \cup (IF env[i].open THEN Own(i) ELSE {})
        /\ orphans' = orphans
        /\ row' = Published(i)
    BY DEF Commit, history, Own
  <1>4. /\ env'[i].pc \notin Transacting
        /\ Cleared(env'[i])
        /\ \A q \in Processes \ {i} : env'[q] = env[q]
    <2>1. env'[i] = Down \/ env'[i] = [Down EXCEPT !.pc = "reading"]
      BY IndexerKnows DEF Commit, RunEnds
    <2>2. env'[i].pc \notin Transacting /\ Cleared(env'[i])
      BY <2>1 DEF Down, Cleared, Transacting
    <2> QED BY <2>2, IndexerKnows DEF Commit, RunEnds
  <1>5. Nameable \subseteq Nameable'
    BY <1>3 DEF Nameable
  <1>6. Published(i).postings \subseteq Nameable'
    <2>1. CASE env[i].updated
      BY <1>2, <1>3, <2>1 DEF Published, Consistent, Nameable
    <2>2. CASE ~ env[i].updated
      BY <1>5, <2>2, IndexerKnows DEF Published, NoRow
    <2> QED BY <2>1, <2>2
  <1> QED BY <1>1, <1>3, <1>4, <1>5, <1>6, WorkKeeps

LEMMA InitInvariant == Init => DInv
  <1> SUFFICES ASSUME Init PROVE DInv
    OBVIOUS
  <1>1. \A p \in Processes : env[p].pc \notin Transacting /\ Cleared(env[p])
    <2>1. CASE Idle
      BY <2>1, DownIsCleared DEF Idle, Transacting
    <2>2. Cleared([Down EXCEPT !.pc = "alone", !.compress = setting])
      BY DEF Cleared, Down
    <2>3. CASE Deadlocked
      BY <2>2, <2>3, DownIsCleared DEF Deadlocked, Transacting, Down
    <2> QED BY <2>1, <2>3 DEF Init
  <1>2. row.postings \subseteq documents
    BY DEF Init, Idle, Deadlocked, Empty, Filled, NoRow
  <1> QED BY <1>1, <1>2, InitType DEF DInv, IndexNamesDocuments

LEMMA NextInvariant ==
    ASSUME DInv, [Next]_vars
    PROVE  DInv'
  <1>1. CASE UNCHANGED vars
    BY <1>1
    DEF vars, database, history, DInv, TypeOK, Consistent, IndexNamesDocuments,
        Nameable, Own
  <1>2. ASSUME NEW p \in Processes, IdleStep(p) PROVE DInv'
    BY <1>2, IdleType, IdleIsQuiet, QuietKeeps DEF DInv
  <1>3. ASSUME NEW i \in Indexers, WorkStep(i) PROVE DInv'
    BY <1>3, DropKeeps, AddKeeps, InnerKeeps, DeadlockKeeps, LostKeeps, CommitKeeps
    DEF WorkStep
  <1> QED BY <1>1, <1>2, <1>3, NextCases

\* DInv is an invariant.
THEOREM InvariantHolds == Spec => []DInv
  BY InitInvariant, NextInvariant, PTL DEF Spec

\* Every variable keeps its type, whatever processes come together.
THEOREM DeploymentTypes == Spec => []TypeOK
  BY InvariantHolds, PTL DEF DInv

(***************************************************************************)
(* However many indexers, servers, crashes, deadlocks and recreations come *)
(* together, the published index names only documents that are published,  *)
(* that were undone under a run which went on, or that were dropped under  *)
(* such a run.                                                             *)
(***************************************************************************)
THEOREM IndexAlwaysNamesDocuments == Spec => []IndexNamesDocuments
  BY InvariantHolds, PTL DEF DInv

-----------------------------------------------------------------------------
(***************************************************************************)
(* Searches.                                                               *)
(***************************************************************************)
LEMMA FaultsStay == ASSUME Next PROVE faults \subseteq faults'
  <1>1. ASSUME NEW p \in Processes, IdleStep(p) PROVE faults \subseteq faults'
    <2>1. CASE \E option \in Options : StartIndexer(p, option)
      BY <2>1 DEF StartIndexer
    <2>2. CASE WriteSetting(p) \/ WriteBack(p)
      BY <2>2 DEF WriteSetting, WriteBack
    <2>3. CASE Exit(p) \/ Reply(p)
      BY <2>3 DEF Exit, Reply
    <2>4. CASE \/ StartServer(p) \/ CreateNext(p) \/ CreateEnds(p) \/ Prepare(p)
               \/ LoseEarlier(p) \/ Rollback(p) \/ ReadSetting(p) \/ CountDocuments(p)
               \/ Ask(p)
      BY <2>4
      DEF StartServer, CreateNext, CreateEnds, Prepare, LoseEarlier, Rollback,
          ReadSetting, CountDocuments, Ask, history
    <2> QED
      BY <1>1, <2>1, <2>2, <2>3, <2>4
      DEF IdleStep, CreateFails, PrepareFails, AddDocumentFails, LostFails,
          ReadSettingFails, CountFails, AskFails, ReplyFails, Terminate, Die
  <1>2. ASSUME NEW i \in Indexers, WorkStep(i) PROVE faults \subseteq faults'
    <2>1. CASE DropStep(i)
      BY <2>1 DEF DropStep, DropDatabase, DropTables, Dropped
    <2>2. CASE AddStep(i)
      BY <2>2 DEF AddStep, AddDocument, AddDocumentLost, history
    <2>3. CASE Deadlock(i)
      BY <2>3 DEF Deadlock, GoOnLost
    <2>4. CASE InnerStep(i) \/ LostStep(i) \/ Commit(i)
      BY <2>4
      DEF InnerStep, StoreToken, StoreTokenRefused, FlushList, FlushRefused,
          FlushMistaken, LostStep, StoreTokenLost, FetchLost, WriteLost, Commit, history
    <2> QED BY <1>2, <2>1, <2>2, <2>3, <2>4 DEF WorkStep
  <1> QED BY <1>1, <1>2, NextCases

\* Where a process is after a step that leaves it at work on no document.
LEMMA IdleLabels ==
    ASSUME TypeOK, NEW p \in Processes, IdleStep(p)
    PROVE  \/ /\ p \in Indexers
              /\ \E option \in Options : StartIndexer(p, option)
              /\ env'[p].pc \in {"dropping", "preparing"}
           \/ p \in Servers /\ StartServer(p) /\ env'[p].pc = "preparing"
           \/ /\ Up(p)
              /\ env'[p].pc \in {"down", "creating", "preparing", "reading", "parsing"}
           \/ Up(p) /\ Prepare(p) /\ env'[p].pc \in {"setting", "reading"}
           \/ Up(p) /\ p \in Indexers /\ WriteSetting(p) /\ env'[p].pc = "adding"
           \/ Up(p) /\ p \in Indexers /\ LoseEarlier(p) /\ env'[p].pc = "alone"
           \/ Up(p) /\ WriteBack(p) /\ env'[p].pc = "counting"
           \/ Up(p) /\ CountDocuments(p) /\ env'[p].pc = "serving"
           \/ Up(p) /\ Ask(p) /\ env'[p].pc = "naming"
           \/ /\ Up(p)
              /\ Reply(p)
              /\ env'[p].pc = "serving"
              /\ env'[p] = [env[p] EXCEPT !.pc = "serving", !.hits = {}]
  <1>1. env \in [Processes -> Memory]
    BY DEF TypeOK
  <1>2. CASE p \in Indexers /\ \E option \in Options : StartIndexer(p, option)
    <2>1. PICK option \in Options : StartIndexer(p, option)
      BY <1>2
    <2> DEFINE label == IF option.recreate THEN "dropping" ELSE "preparing"
    <2>2. env' = [env EXCEPT ![p].pc = label, ![p].method = option.method,
                             ![p].query = option.query]
      BY <2>1 DEF StartIndexer
    <2>3. env'[p].pc = label
      BY <1>1, <2>2 DEF Memory
    <2> QED BY <1>2, <2>3
  <1>3. CASE p \in Servers /\ StartServer(p)
    BY <1>1, <1>3 DEF StartServer, Goto, Memory
  <1>4. CASE Up(p) /\ Exit(p)
    BY <1>1, <1>4, DownIsCleared DEF Exit, Quit
  <1>5. CASE Rollback(p)
    <2>1. env'[p] = Down \/ env'[p] = [Down EXCEPT !.pc = "reading"]
      BY <1>1, <1>5 DEF Rollback, RunEnds
    <2> QED BY <1>5, <2>1 DEF Rollback, Up, Down
  <1>6. CASE CreateNext(p)
    BY <1>1, <1>6 DEF CreateNext, Up, Memory
  <1>7. CASE CreateEnds(p)
    BY <1>1, <1>7 DEF CreateEnds, Up, Memory
  <1>8. CASE Prepare(p)
    <2>1. PICK label \in {"setting", "reading"} : env' = [env EXCEPT ![p].pc = label]
      BY <1>8 DEF Prepare, Goto
    <2>2. env'[p].pc = label
      BY <1>1, <2>1 DEF Memory
    <2> QED BY <1>8, <2>2 DEF Prepare, Up
  <1>9. CASE p \in Indexers /\ WriteSetting(p)
    BY <1>1, <1>9 DEF WriteSetting, Up, Memory
  <1>16. CASE p \in Indexers /\ LoseEarlier(p)
    BY <1>1, <1>16 DEF LoseEarlier, Goto, Up, Memory
  <1>10. CASE ReadSetting(p)
    BY <1>1, <1>10 DEF ReadSetting, Up, Memory
  <1>11. CASE WriteBack(p)
    <2>1. PICK method : env' = [env EXCEPT ![p].pc = "counting", ![p].cm = "absent",
                                           ![p].compress = method]
      BY <1>11 DEF WriteBack
    <2>2. env'[p].pc = "counting"
      BY <1>1, <2>1 DEF Memory
    <2> QED BY <1>11, <2>2 DEF WriteBack, Up
  <1>12. CASE CountDocuments(p)
    BY <1>1, <1>12 DEF CountDocuments, Goto, Up, Memory
  <1>13. CASE Ask(p)
    <2>1. PICK found : env' = [env EXCEPT ![p].pc = "naming", ![p].hits = found]
      BY <1>13 DEF Ask
    <2>2. env'[p].pc = "naming"
      BY <1>1, <2>1 DEF Memory
    <2> QED BY <1>13, <2>2 DEF Ask, Up
  <1>14. CASE Reply(p)
    <2>1. Up(p)
      BY <1>14 DEF Reply, Up
    <2>2. CASE Quit(p)
      BY <1>1, <2>1, <2>2, DownIsCleared DEF Quit
    <2>3. CASE env' = [env EXCEPT ![p].pc = "serving", ![p].hits = {}]
      BY <1>1, <1>14, <2>1, <2>3 DEF Memory
    <2> QED BY <1>14, <2>2, <2>3 DEF Reply
  <1>15. CASE \/ CreateFails(p) \/ PrepareFails(p) \/ AddDocumentFails(p) \/ LostFails(p)
              \/ ReadSettingFails(p) \/ CountFails(p) \/ AskFails(p) \/ ReplyFails(p)
              \/ Terminate(p) \/ Die(p)
    <2>1. Up(p) /\ Exit(p)
      BY <1>15
      DEF CreateFails, PrepareFails, AddDocumentFails, LostFails, Lost,
          ReadSettingFails, CountFails, AskFails, ReplyFails, Terminate, Die, Up
    <2> QED BY <1>4, <2>1
  <1> QED
    BY <1>2, <1>3, <1>5, <1>6, <1>7, <1>8, <1>9, <1>10, <1>11, <1>12, <1>13, <1>14,
       <1>15, <1>16
    DEF IdleStep

\* How a process comes to be settled, or stays it.
LEMMA SettledBy ==
    ASSUME TypeOK, NEW p \in Processes, IdleStep(p), Settled(p)'
    PROVE  \/ WriteBack(p) /\ env'[p].pc = "counting"
           \/ CountDocuments(p) /\ env'[p].pc = "serving"
           \/ Ask(p) /\ env'[p].pc = "naming"
           \/ /\ Reply(p)
              /\ env'[p].pc = "serving"
              /\ env'[p] = [env[p] EXCEPT !.pc = "serving", !.hits = {}]
  <1>1. env'[p].pc \in {"counting", "serving", "naming"}
    BY DEF Settled
  <1> QED BY <1>1, IdleLabels

\* A step of an indexer leaves those alone who search.
LEMMA SearchersStay ==
    ASSUME DInv, NEW i \in Indexers, WorkStep(i)
    PROVE  /\ ~ Settled(i) /\ ~ Settled(i)'
           /\ \A q \in Processes \ {i} : env'[q] = env[q]
  <1>1. i \in Processes /\ env \in [Processes -> Memory]
    BY DEF DInv, TypeOK, Processes
  <1>2. CASE DropStep(i)
    <2>1. PICK label \in {"clearing", "creating"} : env' = [env EXCEPT ![i].pc = label]
      BY <1>2 DEF DropStep, DropDatabase, DropTables, Goto
    <2> QED
      BY <1>1, <1>2, <2>1 DEF DropStep, DropDatabase, DropTables, Memory, Settled
  <1>3. CASE AddStep(i)
    <2>1. PICK title \in Titles : AddDocument(i, title) \/ AddDocumentLost(i, title)
      BY <1>3 DEF AddStep
    <2> QED BY <1>1, <2>1 DEF AddDocument, AddDocumentLost, Memory, Settled
  <1>4. CASE StoreToken(i)
    <2>1. PICK label \in {"flushing", "committing"}, inserted \in BOOLEAN,
                 seen \in {env[i].snapshot, NoRow} :
              env' = [env EXCEPT ![i].pc = label, ![i].inserted = inserted,
                                 ![i].snapshot = seen]
      BY <1>4 DEF StoreToken
    <2> QED BY <1>1, <1>4, <2>1 DEF StoreToken, Memory, Settled
  <1>5. CASE StoreTokenRefused(i)
    BY <1>1, <1>5 DEF StoreTokenRefused, Memory, Settled
  <1>6. CASE FlushList(i)
    BY <1>1, <1>6 DEF FlushList, Memory, Settled
  <1>7. CASE FlushRefused(i)
    BY <1>1, <1>7 DEF FlushRefused, Memory, Settled
  <1>8. CASE FlushMistaken(i)
    BY <1>1, <1>8 DEF FlushMistaken, Goto, Memory, Settled
  <1>9. CASE Deadlock(i)
    <2>1. PICK label \in {"storing", "flushing", "committing"} :
              \E doc \in {env[i].doc, NoDoc} : GoOnLost(i, label, doc)
      BY <1>9, DeadlockIs DEF DInv
    <2>2. /\ \A q \in Processes \ {i} : env'[q] = env[q]
          /\ env'[i].pc = label
      BY <1>1, <2>1 DEF GoOnLost, Memory
    <2>3. ~ Settled(i)
      <3>1. env[i].pc \in Transacting
        BY <1>1, <1>9 DEF Deadlock, DInv, Cleared
      <3> QED BY <3>1 DEF Settled, Transacting
    <2> QED BY <2>2, <2>3 DEF Settled
  <1>10. CASE LostStep(i)
    <2>1. CASE StoreTokenLost(i)
      BY <1>1, <2>1 DEF StoreTokenLost, Goto, Memory, Settled
    <2>2. CASE FetchLost(i) \/ WriteLost(i)
      BY <1>1, <2>2 DEF FetchLost, WriteLost, Memory, Settled
    <2> QED BY <1>10, <2>1, <2>2 DEF LostStep
  <1>11. CASE Commit(i)
    <2>1. env'[i] = Down \/ env'[i] = [Down EXCEPT !.pc = "reading"]
      BY <1>1, <1>11 DEF Commit, RunEnds
    <2> QED BY <1>1, <1>11, <2>1 DEF Commit, RunEnds, Down, Settled
  <1> QED
    BY <1>2, <1>3, <1>4, <1>5, <1>6, <1>7, <1>8, <1>9, <1>10, <1>11
    DEF WorkStep, InnerStep

LEMMA IdlePulled ==
    ASSUME NEW p \in Processes, IdleStep(p)
    PROVE  pulled \ {p} \subseteq pulled'
  <1>1. CASE Exit(p) \/ Reply(p)
    BY <1>1 DEF Exit, Reply
  <1>2. CASE \/ \E option \in Options : StartIndexer(p, option)
             \/ StartServer(p) \/ CreateNext(p) \/ CreateEnds(p) \/ Prepare(p)
             \/ WriteSetting(p) \/ LoseEarlier(p) \/ Rollback(p) \/ ReadSetting(p)
             \/ WriteBack(p) \/ CountDocuments(p) \/ Ask(p)
    BY <1>2
    DEF StartIndexer, StartServer, CreateNext, CreateEnds, Prepare, WriteSetting,
        LoseEarlier, Rollback, ReadSetting, WriteBack, CountDocuments, Ask, history
  <1> QED
    BY <1>1, <1>2
    DEF IdleStep, CreateFails, PrepareFails, AddDocumentFails, LostFails,
        ReadSettingFails, CountFails, AskFails, ReplyFails, Terminate, Die

\* Only dropping the tables takes documents from what may be named.
LEMMA WorkNames ==
    ASSUME NEW i \in Indexers, WorkStep(i), ~ DropStep(i)
    PROVE  Nameable \subseteq Nameable' /\ pulled' = pulled
  <1>1. CASE AddStep(i)
    BY <1>1 DEF AddStep, AddDocument, AddDocumentLost, Nameable, history
  <1>2. CASE InnerStep(i)
    BY <1>2
    DEF InnerStep, StoreToken, StoreTokenRefused, FlushList, FlushRefused,
        FlushMistaken, Nameable, database, history
  <1>3. CASE Deadlock(i)
    BY <1>3 DEF Deadlock, GoOnLost, Nameable, database
  <1>4. CASE LostStep(i)
    BY <1>4 DEF LostStep, StoreTokenLost, FetchLost, WriteLost, Nameable, database, history
  <1>5. CASE Commit(i)
    BY <1>5 DEF Commit, Nameable, history
  <1> QED BY <1>1, <1>2, <1>3, <1>4, <1>5 DEF WorkStep

LEMMA HitsKept ==
    ASSUME DInv, HitsAreStored, Next
    PROVE  HitsAreStored'
  <1> SUFFICES ASSUME NEW p \in Processes, env'[p].pc = "naming", p \notin pulled'
               PROVE  env'[p].hits \subseteq Nameable'
    BY DEF HitsAreStored, Naming, Nameable
  <1>1. ASSUME env[p].pc = "naming", p \notin pulled PROVE env[p].hits \subseteq Nameable
    BY <1>1 DEF HitsAreStored, Naming, Nameable
  <1>2. Settled(p)'
    BY DEF Settled
  <1>3. ASSUME NEW q \in Processes, IdleStep(q) PROVE env'[p].hits \subseteq Nameable'
    <2>1. Quiet(q)
      BY <1>3, IdleIsQuiet
    <2>2. Nameable' = Nameable
      BY <2>1 DEF Quiet, Nameable
    <2>3. CASE q = p
      <3>1. Ask(p)
        BY <1>2, <1>3, <2>3, SettledBy DEF DInv
      <3>2. env'[p].hits \in {row.postings, {}}
        BY <3>1 DEF Ask, DInv, TypeOK, Memory
      <3>3. row.postings \subseteq Nameable
        BY DEF DInv, IndexNamesDocuments, Nameable
      <3> QED BY <2>2, <3>2, <3>3
    <2>4. CASE q # p
      <3>1. env'[p] = env[p]
        BY <2>1, <2>4 DEF Quiet
      <3>2. p \notin pulled
        BY <1>3, <2>4, IdlePulled
      <3> QED BY <1>1, <2>2, <3>1, <3>2
    <2> QED BY <2>3, <2>4
  <1>4. ASSUME NEW i \in Indexers, WorkStep(i) PROVE env'[p].hits \subseteq Nameable'
    <2>1. p # i /\ env'[p] = env[p]
      BY <1>2, <1>4, SearchersStay
    <2>2. ~ DropStep(i)
      BY <2>1 DEF DropStep, DropDatabase, DropTables, Dropped, Naming
    <2> QED BY <1>1, <1>4, <2>1, <2>2, WorkNames
  <1> QED BY <1>3, <1>4, NextCases

(***************************************************************************)
(* A hit that is looked up is a stored document, or one that a lost run    *)
(* has published without it, unless the database was dropped since the     *)
(* search has read the list.                                               *)
(***************************************************************************)
THEOREM HitsAreAlwaysStored == Spec => []HitsAreStored
  <1>1. ASSUME Init PROVE HitsAreStored
    <2>1. CASE Idle
      BY <2>1, DownIsCleared DEF Idle, HitsAreStored, Naming
    <2>2. [Down EXCEPT !.pc = "alone", !.compress = setting].pc = "alone"
      BY DEF Down
    <2>3. CASE Deadlocked
      BY <2>2, <2>3, DownIsCleared DEF Deadlocked, HitsAreStored, Naming
    <2> QED BY <1>1, <2>1, <2>3 DEF Init
  <1>2. DInv /\ HitsAreStored /\ [Next]_vars => HitsAreStored'
    BY HitsKept DEF vars, database, history, HitsAreStored, Naming
  <1> QED BY <1>1, <1>2, InvariantHolds, PTL DEF Spec

-----------------------------------------------------------------------------
(***************************************************************************)
(* What is not lost, and who decodes what, while the runs of the indexers  *)
(* do not overlap.                                                         *)
(***************************************************************************)

Working == {"adding", "storing", "flushing", "committing"}

\* Without overlap one indexer is up at most, nobody drops its tables, and its
\* transaction is not undone.
Solo ==
    Free({"overlap"}) =>
        /\ \A i, j \in Indexers : Up(i) /\ Up(j) => i = j
        /\ \A i \in Indexers :
               /\ env[i].pc \in Working \cup {"setting"} => Tables \subseteq tables
               /\ env[i].pc \notin {"alone", "mistaken", "writing"}
               /\ ~ Lost(i)

\* The number 0 is never published.
Proper == NoDoc \notin documents

\* Golomb was given a title that was stored already.
Repeated == "repeated" \in faults

\* How far a run is that is given the method of the stored list.
Going(i) ==
    LET m == env[i]
    IN  /\ m.pc \in {"adding", "storing", "flushing"} =>
               ~ IsStored(row) \/ row.coding = m.compress
        /\ m.pc \in {"storing", "flushing"} =>
               /\ m.snapshot = row
               /\ m.doc # NoDoc
               /\ ~ m.updated
               /\ m.doc \in documents /\ m.compress = "golomb" => Repeated
        /\ m.pc = "flushing" /\ m.inserted => ~ IsStored(row)
        /\ m.pc = "committing" =>
               /\ m.doc # NoDoc
               /\ IF m.updated
                  THEN /\ m.list.known
                       /\ m.list.coding = m.compress
                       /\ IF m.list.garbled THEN Repeated
                          ELSE m.list.postings = documents \cup {m.doc}
                  ELSE row.garbled /\ ~ m.inserted

\* The stored list names every document.
Whole ==
    /\ IF row.garbled THEN Repeated ELSE row.postings = documents
    /\ IsStored(row) => row.known

Complete == Free({"overlap", "mixed"}) => Whole /\ \A i \in Indexers : Going(i)

\* The setting is that of the stored list, and that of the run.
Agreed ==
    Free({"overlap", "mixed", "crossed", "garbage"}) =>
        /\ IsStored(row) => setting = row.coding
        /\ \A i \in Indexers : env[i].pc \in Working => setting = env[i].compress

\* From the time a run has written the setting, whoever searches knows it.
Anchored == IsStored(row) \/ \E i \in Indexers : env[i].pc \in Working

Known ==
    Free({"overlap", "mixed", "crossed", "garbage", "changed"}) /\ Anchored =>
        \A p \in Processes : Settled(p) => env[p].compress = setting

SInv == DInv /\ Proper /\ Solo /\ Complete /\ Agreed /\ Known

-----------------------------------------------------------------------------
LEMMA FreeBefore ==
    ASSUME Next, NEW kinds, Free(kinds)'
    PROVE  Free(kinds)
  BY FaultsStay DEF Free

LEMMA IdleFrame ==
    ASSUME DInv, NEW p \in Processes, IdleStep(p)
    PROVE  /\ tables \subseteq tables'
           /\ WriteSetting(p) \/ WriteBack(p) \/ setting' = setting
  <1>1. CASE CreateNext(p)
    BY <1>1 DEF CreateNext
  <1>2. CASE WriteSetting(p) \/ WriteBack(p)
    BY <1>2 DEF WriteSetting, WriteBack
  <1>3. CASE UNCHANGED database
    BY <1>3 DEF database
  <1> QED
    BY <1>1, <1>2, <1>3
    DEF IdleStep, StartIndexer, StartServer, CreateFails, CreateEnds, Prepare,
        PrepareFails, LoseEarlier, AddDocumentFails, LostFails, Rollback, ReadSetting,
        ReadSettingFails, CountDocuments, CountFails, Ask, AskFails, Reply, ReplyFails,
        Terminate, Die, Exit

LEMMA WorkerIsUp ==
    ASSUME DInv, NEW i \in Indexers, WorkStep(i)
    PROVE  Up(i)
  <1>1. CASE DropStep(i)
    BY <1>1 DEF Up, DropStep, DropDatabase, DropTables
  <1>2. CASE AddStep(i)
    BY <1>2 DEF Up, AddStep, AddDocument, AddDocumentLost
  <1>3. CASE InnerStep(i) \/ LostStep(i) \/ Commit(i)
    BY <1>3
    DEF Up, InnerStep, StoreToken, StoreTokenRefused, FlushList, FlushRefused,
        FlushMistaken, LostStep, StoreTokenLost, FetchLost, WriteLost, Commit
  <1>4. CASE Deadlock(i)
    <2>1. env[i].pc \in Transacting
      BY <1>4, IndexerKnows DEF Deadlock, Cleared
    <2> QED BY <2>1 DEF Up, Transacting
  <1> QED BY <1>1, <1>2, <1>3, <1>4 DEF WorkStep

\* Nobody stands in the way of a run that is alone.
LEMMA AloneIsFree ==
    ASSUME DInv, NEW i \in Indexers, \A j \in Indexers : Up(j) => i = j
    PROVE  /\ ~ OthersInTransaction(i)
           /\ ~ OtherHoldsRow(i)
           /\ \A title \in Titles : ~ OtherAdds(i, title)
           /\ ~ Deadlock(i)
           /\ ~ LoseEarlier(i)
  <1>1. \A q \in Processes \ {i} : env[q].pc \notin Transacting
    BY DEF DInv, Up, Transacting
  <1>2. \A q \in Processes \ {i} : Cleared(env[q])
    BY <1>1 DEF DInv
  <1>3. \A q \in Processes \ {i} : ~ env[q].open /\ ~ env[q].inserted /\ ~ env[q].updated
    BY <1>2 DEF Cleared
  <1>4. ~ OthersInTransaction(i)
    BY <1>3 DEF OthersInTransaction
  <1> QED
    BY <1>3, <1>4
    DEF OtherHoldsRow, OtherInserts, OtherAdds, Deadlock, LoseEarlier, Processes

\* What is left to do for an indexer that is alone.
LEMMA SoloWork ==
    ASSUME DInv, Solo, Free({"overlap"}), NEW i \in Indexers, WorkStep(i)
    PROVE  /\ \A j \in Indexers : Up(j) => i = j
           /\ \/ DropStep(i)
              \/ \E title \in Titles : AddDocument(i, title)
              \/ StoreToken(i) \/ FlushList(i) \/ FlushRefused(i)
              \/ Commit(i) /\ env[i].open
  <1>1. \A j \in Indexers : Up(j) => i = j
    BY WorkerIsUp DEF Solo
  <1>2. env[i].pc \notin {"alone", "mistaken", "writing"} /\ ~ Lost(i)
    BY DEF Solo
  <1>3. ~ Deadlock(i)
    BY <1>1, AloneIsFree
  <1>4. \A title \in Titles : ~ AddDocumentLost(i, title)
    BY <1>2 DEF AddDocumentLost
  <1>5. ~ FlushMistaken(i)
    BY <1>2 DEF FlushMistaken
  <1>6. ~ LostStep(i)
    BY <1>2 DEF LostStep, Lost, StoreTokenLost, FetchLost, WriteLost
  <1>7. ~ StoreTokenRefused(i)
    <2>1. env[i].pc = "storing" => "tokens" \in tables
      BY DEF Solo, Working, Tables
    <2>2. ~ OtherInserts(i)
      BY <1>1, AloneIsFree DEF OtherHoldsRow
    <2> QED BY <2>1, <2>2 DEF StoreTokenRefused
  <1>8. Commit(i) => env[i].open
    BY <1>2 DEF Commit, Lost
  <1> QED
    BY <1>1, <1>3, <1>4, <1>5, <1>6, <1>7, <1>8 DEF WorkStep, AddStep, InnerStep

\* What the steps of a run do to its own memory.
LEMMA AddMemory ==
    ASSUME DInv, NEW i \in Indexers, NEW title \in Titles, AddDocument(i, title)
    PROVE  /\ env[i].pc = "adding"
           /\ UNCHANGED <<tables, setting, documents, row>>
           /\ env'[i].pc = "storing"
           /\ env'[i].open
           /\ env'[i].snapshot = row
           /\ env'[i].updated = env[i].updated
           /\ env'[i].compress = env[i].compress
           /\ env'[i].doc \in Numbered(i, title)
           /\ env'[i].doc \in documents /\ env[i].compress = "golomb" => Repeated'
  <1>1. PICK doc \in Numbered(i, title) :
            /\ env' = [env EXCEPT ![i].pc = "storing", ![i].open = TRUE,
                                  ![i].snapshot = row, ![i].doc = doc]
            /\ doc \in documents /\ env[i].compress = "golomb" => "repeated" \in faults'
    BY DEF AddDocument
  <1> QED BY <1>1, IndexerKnows DEF AddDocument, Memory, Repeated

LEMMA StoreMemory ==
    ASSUME DInv, NEW i \in Indexers, StoreToken(i), env[i].snapshot = row,
           env[i].doc # NoDoc
    PROVE  /\ env[i].pc = "storing"
           /\ UNCHANGED <<database, history>>
           /\ env'[i].pc = "flushing"
           /\ env'[i].inserted => ~ row.known
           /\ \A field \in {"open", "snapshot", "doc", "updated", "compress"} :
                  env'[i][field] = env[i][field]
  <1>1. env' = [env EXCEPT ![i].pc = "flushing", ![i].inserted = ~ row.known]
    <2>1. env[i].doc # NoDoc /\ env[i].snapshot.known = row.known
      OBVIOUS
    <2>2. row.known \in BOOLEAN
      BY IndexerKnows DEF Row
    <2>3. ((env[i].doc # NoDoc /\ ~ row.known) \/ env[i].snapshot.known) = TRUE
      BY <2>1, <2>2
    <2>4. (env[i].doc # NoDoc /\ ~ row.known) = ~ row.known
      BY <2>1, <2>2
    <2> QED BY <2>3, <2>4 DEF StoreToken
  <1> QED BY <1>1, IndexerKnows DEF StoreToken, Memory

LEMMA FlushMemory ==
    ASSUME DInv, NEW i \in Indexers, FlushList(i)
    PROVE  /\ env[i].pc = "flushing"
           /\ UNCHANGED <<database, history>>
           /\ env'[i].pc = "committing"
           /\ env'[i].open
           /\ env'[i].updated
           /\ env'[i].list = Merged(i, env[i].snapshot)
           /\ env'[i].doc = env[i].doc
           /\ env'[i].compress = env[i].compress
  BY IndexerKnows DEF FlushList, Memory

LEMMA RefusedMemory ==
    ASSUME DInv, NEW i \in Indexers, FlushRefused(i)
    PROVE  /\ env[i].pc = "flushing"
           /\ ~ Readable(i, env[i].snapshot) \/ OtherHoldsRow(i)
           /\ UNCHANGED <<database, history>>
           /\ env'[i].pc = "committing"
           /\ \A field \in {"open", "doc", "inserted", "updated", "compress"} :
                  env'[i][field] = env[i][field]
  BY IndexerKnows DEF FlushRefused, Memory

LEMMA EndMemory ==
    ASSUME DInv, NEW i \in Indexers
    PROVE  /\ Commit(i) => env'[i].pc \in {"down", "reading"}
           /\ DropStep(i) => env'[i].pc \in {"clearing", "creating"}
  <1>1. ASSUME Commit(i) PROVE env'[i].pc \in {"down", "reading"}
    <2>1. env'[i] = Down \/ env'[i] = [Down EXCEPT !.pc = "reading"]
      BY <1>1, IndexerKnows DEF Commit, RunEnds
    <2> QED BY <2>1 DEF Down
  <1>2. ASSUME DropStep(i) PROVE env'[i].pc \in {"clearing", "creating"}
    <2>1. PICK label \in {"clearing", "creating"} : env' = [env EXCEPT ![i].pc = label]
      BY <1>2 DEF DropStep, DropDatabase, DropTables, Goto
    <2> QED BY <2>1, IndexerKnows DEF Memory
  <1> QED BY <1>1, <1>2

-----------------------------------------------------------------------------
LEMMA ProperKept ==
    ASSUME DInv, Proper, Next
    PROVE  Proper'
  <1>1. ASSUME NEW p \in Processes, IdleStep(p) PROVE Proper'
    BY <1>1, IdleIsQuiet DEF Quiet, Proper
  <1>2. ASSUME NEW i \in Indexers, WorkStep(i) PROVE Proper'
    <2>1. CASE DropStep(i)
      BY <2>1 DEF DropStep, DropDatabase, DropTables, Dropped, Proper
    <2>2. CASE AddStep(i)
      BY <2>2 DEF AddStep, AddDocument, AddDocumentLost, Proper
    <2>3. CASE Deadlock(i)
      BY <2>3 DEF Deadlock, GoOnLost, database, Proper
    <2>4. CASE Commit(i)
      BY <2>4 DEF Commit, Proper
    <2>5. CASE InnerStep(i) \/ LostStep(i)
      BY <2>5
      DEF InnerStep, StoreToken, StoreTokenRefused, FlushList, FlushRefused,
          FlushMistaken, LostStep, StoreTokenLost, FetchLost, WriteLost, database, Proper
    <2> QED BY <1>2, <2>1, <2>2, <2>3, <2>4, <2>5 DEF WorkStep
  <1> QED BY <1>1, <1>2, NextCases

LEMMA SoloKept ==
    ASSUME DInv, Solo, Next
    PROVE  Solo'
  <1> DEFINE Fine(i) ==
                 /\ env[i].pc \in Working \cup {"setting"} => Tables \subseteq tables
                 /\ env[i].pc \notin {"alone", "mistaken", "writing"}
                 /\ ~ Lost(i)
  <1> SUFFICES ASSUME Free({"overlap"})'
               PROVE  /\ \A i, j \in Indexers : Up(i)' /\ Up(j)' => i = j
                      /\ \A i \in Indexers : Fine(i)'
    BY DEF Solo
  <1>0. Free({"overlap"})
    BY FreeBefore
  <1>1. /\ \A i, j \in Indexers : Up(i) /\ Up(j) => i = j
        /\ \A i \in Indexers : Fine(i)
    BY <1>0 DEF Solo
  <1>2. ASSUME NEW p \in Processes, IdleStep(p)
        PROVE  /\ \A i, j \in Indexers : Up(i)' /\ Up(j)' => i = j
               /\ \A i \in Indexers : Fine(i)'
    <2>1. /\ \A q \in Processes \ {p} : env'[q] = env[q]
          /\ env'[p].pc \notin Transacting
      BY <1>2, IdleIsQuiet DEF Quiet
    <2>2. TypeOK
      BY DEF DInv
    <2>3. ASSUME p \in Indexers, Up(p)', ~ Up(p)
          PROVE  \A j \in Indexers \ {p} : ~ Up(j)
      <3>1. PICK option \in Options : StartIndexer(p, option)
        BY <1>2, <2>2, <2>3, IdleLabels, ProcessesAssumption
      <3> QED BY <2>3, <3>1 DEF StartIndexer, Free
    <2>4. \A i, j \in Indexers : Up(i)' /\ Up(j)' => i = j
      BY <1>1, <2>1, <2>3 DEF Up, Processes
    <2>5. tables \subseteq tables'
      BY <1>2, IdleFrame
    <2>6. ASSUME NEW i \in Indexers \ {p} PROVE Fine(i)'
      <3>1. env'[i] = env[i] /\ Fine(i)
        BY <1>1, <2>1 DEF Processes
      <3> QED BY <2>5, <3>1 DEF Lost
    <2>7. ASSUME p \in Indexers PROVE Fine(p)'
      <3>1. env'[p].pc \notin {"mistaken", "writing"} /\ ~ Lost(p)'
        BY <2>1 DEF Lost, Transacting
      <3>2. env'[p].pc # "alone"
        <4>1. ~ LoseEarlier(p)
          <5>1. SUFFICES ASSUME LoseEarlier(p) PROVE FALSE
            OBVIOUS
          <5>2. Up(p)
            BY <5>1 DEF LoseEarlier, Up
          <5> QED BY <1>1, <2>7, <5>1, <5>2, AloneIsFree
        <4> QED BY <1>2, <2>2, <4>1, IdleLabels
      <3>3. ASSUME env'[p].pc \in Working \cup {"setting"} PROVE Tables \subseteq tables
        <4>1. WriteSetting(p) \/ Prepare(p)
          BY <1>2, <2>2, <3>3, IdleLabels DEF Working
        <4>2. CASE WriteSetting(p)
          BY <1>1, <2>7, <4>2 DEF WriteSetting
        <4>3. CASE Prepare(p)
          BY <2>7, <4>3 DEF Prepare, Needed
        <4> QED BY <4>1, <4>2, <4>3
      <3> QED BY <2>5, <3>1, <3>2, <3>3
    <2> QED BY <2>4, <2>6, <2>7
  <1>3. ASSUME NEW i \in Indexers, WorkStep(i)
        PROVE  /\ \A k, j \in Indexers : Up(k)' /\ Up(j)' => k = j
               /\ \A k \in Indexers : Fine(k)'
    <2>0. \A k \in Indexers \ {i} : env'[k] = env[k] /\ env[k].pc = "down"
      BY <1>0, <1>3, SoloWork, SearchersStay DEF Up, Processes
    <2>1. \A k, j \in Indexers : Up(k)' /\ Up(j)' => k = j
      BY <2>0 DEF Up
    <2>2. \A k \in Indexers \ {i} : Fine(k)'
      BY <2>0 DEF Working, Lost
    <2>3. Fine(i)
      BY <1>1
    <2>4. CASE DropStep(i)
      <3>1. env'[i].pc \in {"clearing", "creating"}
        BY <2>4, EndMemory
      <3>2. Fine(i)'
        BY <3>1 DEF Lost, Working
      <3> QED BY <2>1, <2>2, <3>2
    <2>5. CASE Commit(i)
      <3>1. env'[i].pc \in {"down", "reading"}
        BY <2>5, EndMemory
      <3>2. Fine(i)'
        BY <3>1 DEF Lost, Working
      <3> QED BY <2>1, <2>2, <3>2
    <2>6. CASE \E title \in Titles : AddDocument(i, title)
      <3>1. /\ env[i].pc = "adding"
            /\ tables' = tables
            /\ env'[i].pc = "storing"
            /\ env'[i].open
        BY <2>6, AddMemory
      <3>2. Fine(i)'
        BY <2>3, <3>1 DEF Lost, Working
      <3> QED BY <2>1, <2>2, <3>2
    <2>7. CASE StoreToken(i) \/ FlushList(i) \/ FlushRefused(i)
      <3>1. /\ env[i].pc \in Working
            /\ env'[i].pc \in {"flushing", "committing"}
            /\ env'[i].open = env[i].open
            /\ env[i].open
            /\ tables' = tables
        <4>1. CASE StoreToken(i)
          <5>1. PICK label \in {"flushing", "committing"}, inserted \in BOOLEAN,
                 seen \in {env[i].snapshot, NoRow} :
                    env' = [env EXCEPT ![i].pc = label, ![i].inserted = inserted,
                                       ![i].snapshot = seen]
            BY <4>1 DEF StoreToken
          <5>2. env'[i].pc = label /\ env'[i].open = env[i].open
            BY <5>1, IndexerKnows DEF Memory
          <5>3. env[i].pc = "storing" /\ env[i].open /\ tables' = tables
            BY <4>1 DEF StoreToken, database
          <5> QED BY <5>2, <5>3 DEF Working
        <4>2. CASE FlushList(i)
          BY <4>2, IndexerKnows DEF FlushList, Memory, Working, database
        <4>3. CASE FlushRefused(i)
          BY <4>3, IndexerKnows DEF FlushRefused, Memory, Working, database
        <4> QED BY <2>7, <4>1, <4>2, <4>3
      <3>2. Fine(i)'
        BY <2>3, <3>1 DEF Lost, Working
      <3> QED BY <2>1, <2>2, <3>2
    <2> QED BY <1>0, <1>3, <2>4, <2>5, <2>6, <2>7, SoloWork
  <1> HIDE DEF Fine
  <1> QED BY <1>2, <1>3, NextCases

\* What the run has written, when it has written the setting.
LEMMA SettingWritten ==
    ASSUME DInv, NEW i \in Indexers, WriteSetting(i)
    PROVE  /\ env'[i].pc = "adding"
           /\ env'[i].compress = env[i].method
           /\ env[i].method \in {"none", "golomb"}
           /\ setting' = Replaced(env[i].method)
           /\ IsStored(row) /\ row.coding # env[i].method => "mixed" \in faults'
           /\ \A p \in Processes : Settled(p) /\ env[p].compress # env[i].method
                  => "changed" \in faults'
  <1>1. env'[i].pc = "adding" /\ env'[i].compress = env[i].method
    BY IndexerKnows DEF WriteSetting, Memory
  <1>2. env[i].method \in {"none", "golomb"}
    BY IndexerKnows DEF Memory
  <1> QED BY <1>1, <1>2 DEF WriteSetting

\* What the flush of a run that is alone makes of the list.
LEMMA FlushIsWhole ==
    ASSUME DInv, Whole, NEW i \in Indexers, Going(i), env[i].pc = "flushing"
    PROVE  LET list == Merged(i, env[i].snapshot)
           IN  /\ list.known
               /\ list.coding = env[i].compress
               /\ IF list.garbled THEN Repeated
                  ELSE list.postings = documents \cup {env[i].doc}
  <1> DEFINE list == Merged(i, env[i].snapshot)
  <1>1. /\ env[i].snapshot = row
        /\ env[i].doc # NoDoc
        /\ env[i].doc \in documents /\ env[i].compress = "golomb" => Repeated
        /\ ~ IsStored(row) \/ row.coding = env[i].compress
    BY DEF Going
  <1>2. row \in Row
    BY IndexerKnows
  <1>3. list = Merged(i, row)
    BY <1>1
  <1>4. CASE row.garbled
    <2>1. list.garbled /\ list.known /\ list.coding = env[i].compress
      BY <1>3, <1>4 DEF Merged, Readable
    <2>2. Repeated
      BY <1>4 DEF Whole
    <2> QED BY <2>1, <2>2
  <1>5. CASE ~ row.garbled
    <2>1. row.postings = documents
      BY <1>5 DEF Whole
    <2>2. Readable(i, row)
      BY <1>1, <1>5 DEF Readable, IsStored
    <2>3. CASE env[i].doc \in documents /\ env[i].compress = "golomb"
      <3>1. list.garbled /\ list.known /\ list.coding = env[i].compress
        BY <1>3, <2>1, <2>3 DEF Merged
      <3> QED BY <1>1, <2>3, <3>1
    <2>4. CASE ~ (env[i].doc \in documents /\ env[i].compress = "golomb")
      <3>1. /\ ~ list.garbled /\ list.known
            /\ list.coding = env[i].compress
            /\ list.postings = row.postings \cup {env[i].doc}
        BY <1>1, <1>3, <2>1, <2>2, <2>4 DEF Merged
      <3> QED BY <2>1, <3>1
    <2> QED BY <2>3, <2>4
  <1> QED BY <1>4, <1>5

LEMMA CompleteKept ==
    ASSUME DInv, Proper, Solo, Complete, Next
    PROVE  Complete'
  <1> SUFFICES ASSUME Free({"overlap", "mixed"})'
               PROVE  Whole' /\ \A i \in Indexers : Going(i)'
    BY DEF Complete
  <1>1. Whole /\ \A i \in Indexers : Going(i)
    BY FreeBefore DEF Complete
  <1>2. Free({"overlap"})
    BY FreeBefore DEF Free
  <1>3. Repeated => Repeated'
    BY FaultsStay DEF Repeated
  <1>4. ASSUME NEW p \in Processes, IdleStep(p)
        PROVE  Whole' /\ \A i \in Indexers : Going(i)'
    <2>1. /\ UNCHANGED <<documents, row>>
          /\ \A q \in Processes \ {p} : env'[q] = env[q]
          /\ env'[p].pc \notin Transacting
      BY <1>4, IdleIsQuiet DEF Quiet
    <2>2. Whole'
      BY <1>1, <1>3, <2>1 DEF Whole, IsStored
    <2>3. ASSUME NEW i \in Indexers \ {p} PROVE Going(i)'
      <3>1. env'[i] = env[i] /\ Going(i)
        BY <1>1, <2>1 DEF Processes
      <3> QED BY <1>3, <2>1, <3>1 DEF Going, IsStored
    <2>4. CASE env'[p].pc = "adding"
      <3>1. p \in Indexers /\ WriteSetting(p)
        BY <1>4, <2>4, IdleLabels DEF DInv
      <3>2. ~ IsStored(row) \/ row.coding = env'[p].compress
        BY <3>1, SettingWritten DEF Free
      <3>3. Going(p)'
        BY <2>1, <2>4, <3>2 DEF Going, IsStored
      <3> QED BY <2>2, <2>3, <3>3
    <2>5. CASE env'[p].pc # "adding"
      <3>1. Going(p)'
        BY <2>1, <2>5 DEF Going, Transacting
      <3> QED BY <2>2, <2>3, <3>1
    <2> QED BY <2>4, <2>5
  <1>5. ASSUME NEW i \in Indexers, WorkStep(i)
        PROVE  Whole' /\ \A k \in Indexers : Going(k)'
    <2>1. \A k \in Indexers \ {i} : env'[k].pc = "down"
      BY <1>2, <1>5, SoloWork, SearchersStay DEF Up, Processes
    <2>2. \A k \in Indexers \ {i} : Going(k)'
      BY <2>1 DEF Going
    <2>3. Going(i)
      BY <1>1
    <2>4. CASE DropStep(i)
      <3>1. row' = NoRow /\ documents' = {}
        BY <2>4 DEF DropStep, DropDatabase, DropTables, Dropped
      <3>2. env'[i].pc \in {"clearing", "creating"}
        BY <2>4, EndMemory
      <3> QED BY <2>2, <3>1, <3>2 DEF Going, Whole, NoRow, IsStored
    <2>5. CASE \E title \in Titles : AddDocument(i, title)
      <3>1. PICK title \in Titles : AddDocument(i, title)
        BY <2>5
      <3>2. /\ env[i].pc = "adding"
            /\ UNCHANGED <<tables, setting, documents, row>>
            /\ env'[i].pc = "storing"
            /\ env'[i].snapshot = row
            /\ env'[i].updated = env[i].updated
            /\ env'[i].compress = env[i].compress
            /\ env'[i].doc \in Numbered(i, title)
            /\ env'[i].doc \in documents /\ env[i].compress = "golomb" => Repeated'
        BY <3>1, AddMemory
      <3>3. env'[i].doc # NoDoc
        <4>1. ~ OtherAdds(i, title)
          BY <1>2, <1>5, SoloWork, AloneIsFree
        <4>2. [id |-> nextId, title |-> title] # NoDoc
          BY DEF DInv, TypeOK, NoDoc
        <4> QED BY <3>2, <4>1, <4>2 DEF Numbered, Titled, Proper
      <3>4. ~ env[i].updated
        BY <3>2, IndexerKnows DEF Cleared, Transacting
      <3>5. ~ IsStored(row) \/ row.coding = env[i].compress
        BY <2>3, <3>2 DEF Going
      <3>6. Going(i)'
        BY <3>2, <3>3, <3>4, <3>5 DEF Going, IsStored
      <3>7. Whole'
        BY <1>1, <1>3, <3>2 DEF Whole, IsStored
      <3> QED BY <2>2, <3>6, <3>7
    <2>6. CASE StoreToken(i)
      <3>1. env[i].snapshot = row /\ env[i].doc # NoDoc
        BY <2>3, <2>6 DEF Going, StoreToken
      <3>2. /\ env[i].pc = "storing"
            /\ UNCHANGED <<database, history>>
            /\ env'[i].pc = "flushing"
            /\ env'[i].inserted => ~ row.known
            /\ env'[i].snapshot = env[i].snapshot
            /\ env'[i].doc = env[i].doc
            /\ env'[i].updated = env[i].updated
            /\ env'[i].compress = env[i].compress
        BY <2>6, <3>1, StoreMemory
      <3>3. UNCHANGED <<documents, row, faults>>
        BY <3>2 DEF database, history
      <3>4. env'[i].inserted => ~ IsStored(row)
        BY <1>1, <3>2 DEF Whole
      <3>5. Going(i)'
        BY <2>3, <3>2, <3>3, <3>4 DEF Going, IsStored, Repeated
      <3>6. Whole'
        BY <1>1, <3>3 DEF Whole, IsStored, Repeated
      <3> QED BY <2>2, <3>5, <3>6
    <2>7. CASE FlushList(i)
      <3>1. /\ env[i].pc = "flushing"
            /\ UNCHANGED <<database, history>>
            /\ env'[i].pc = "committing"
            /\ env'[i].updated
            /\ env'[i].list = Merged(i, env[i].snapshot)
            /\ env'[i].doc = env[i].doc
            /\ env'[i].compress = env[i].compress
        BY <2>7, FlushMemory
      <3>2. UNCHANGED <<documents, row, faults>>
        BY <3>1 DEF database, history
      <3>3. /\ env'[i].list.known
            /\ env'[i].list.coding = env'[i].compress
            /\ IF env'[i].list.garbled THEN Repeated
               ELSE env'[i].list.postings = documents \cup {env'[i].doc}
        BY <1>1, <2>3, <3>1, FlushIsWhole
      <3>4. env'[i].doc # NoDoc
        BY <2>3, <3>1 DEF Going
      <3>5. Going(i)'
        BY <3>1, <3>2, <3>3, <3>4 DEF Going, Repeated
      <3>6. Whole'
        BY <1>1, <3>2 DEF Whole, IsStored, Repeated
      <3> QED BY <2>2, <3>5, <3>6
    <2>8. CASE FlushRefused(i)
      <3>1. /\ env[i].pc = "flushing"
            /\ ~ Readable(i, env[i].snapshot) \/ OtherHoldsRow(i)
            /\ UNCHANGED <<database, history>>
            /\ env'[i].pc = "committing"
            /\ env'[i].doc = env[i].doc
            /\ env'[i].inserted = env[i].inserted
            /\ env'[i].updated = env[i].updated
        BY <2>8, RefusedMemory
      <3>2. UNCHANGED <<documents, row, faults>>
        BY <3>1 DEF database, history
      <3>3. ~ OtherHoldsRow(i)
        BY <1>2, <1>5, SoloWork, AloneIsFree
      <3>4. /\ env[i].snapshot = row
            /\ env[i].doc # NoDoc
            /\ ~ env[i].updated
            /\ env[i].inserted => ~ IsStored(row)
            /\ ~ IsStored(row) \/ row.coding = env[i].compress
        BY <2>3, <3>1 DEF Going
      <3>5. row.garbled
        BY <3>1, <3>3, <3>4 DEF Readable, IsStored
      <3>6. Going(i)'
        BY <3>1, <3>2, <3>4, <3>5 DEF Going, IsStored
      <3>7. Whole'
        BY <1>1, <3>2 DEF Whole, IsStored, Repeated
      <3> QED BY <2>2, <3>6, <3>7
    <2>9. CASE Commit(i) /\ env[i].open
      <3>1. /\ row' = Published(i)
            /\ documents' = documents \cup ({env[i].doc} \ {NoDoc})
            /\ env[i].pc = "committing"
            /\ faults' = faults
        BY <2>9 DEF Commit, history
      <3>2. documents' = documents \cup {env[i].doc}
        BY <2>3, <3>1 DEF Going
      <3>3. Whole'
        <4>1. CASE env[i].updated
          BY <2>3, <3>1, <3>2, <4>1 DEF Published, Going, Whole, Repeated
        <4>2. CASE ~ env[i].updated
          <5>1. row' = row /\ row.garbled
            BY <2>3, <3>1, <4>2 DEF Published, Going
          <5> QED BY <1>1, <3>1, <5>1 DEF Whole, IsStored, Repeated
        <4> QED BY <4>1, <4>2
      <3>4. Going(i)'
        BY <2>9, EndMemory DEF Going
      <3> QED BY <2>2, <3>3, <3>4
    <2> QED BY <1>2, <1>5, <2>4, <2>5, <2>6, <2>7, <2>8, <2>9, SoloWork
  <1> QED BY <1>4, <1>5, NextCases

LEMMA AgreedKept ==
    ASSUME DInv, Solo, Complete, Agreed, Next
    PROVE  Agreed'
  <1> DEFINE kinds == {"overlap", "mixed", "crossed", "garbage"}
  <1> SUFFICES ASSUME Free(kinds)'
               PROVE  /\ IsStored(row)' => setting' = row'.coding
                      /\ \A i \in Indexers : env'[i].pc \in Working => setting' = env'[i].compress
    BY DEF Agreed, IsStored
  <1>0. Free({"overlap"})
    BY FreeBefore DEF Free
  <1>1. /\ IsStored(row) => setting = row.coding
        /\ \A i \in Indexers : env[i].pc \in Working => setting = env[i].compress
    BY FreeBefore DEF Agreed
  <1>2. \A i, j \in Indexers : Up(i) /\ Up(j) => i = j
    BY <1>0 DEF Solo
  <1>3. \A i \in Indexers : env[i].pc = "setting" => Tables \subseteq tables
    BY <1>0 DEF Solo
  <1>4. \A i \in Indexers : Going(i)
    BY FreeBefore DEF Complete, Free
  <1>5. env \in [Processes -> Memory] /\ row \in Row
    BY DEF DInv, TypeOK
  <1>6. ASSUME NEW p \in Processes, IdleStep(p)
        PROVE  /\ IsStored(row)' => setting' = row'.coding
               /\ \A i \in Indexers : env'[i].pc \in Working => setting' = env'[i].compress
    <2>1. /\ row' = row
          /\ \A q \in Processes \ {p} : env'[q] = env[q]
      BY <1>6, IdleIsQuiet DEF Quiet
    <2>0. IsStored(row)' <=> IsStored(row)
      BY <2>1 DEF IsStored
    <2>2. CASE p \in Indexers /\ WriteSetting(p)
      <3>1. setting' = env[p].method
        BY <1>3, <2>2, SettingWritten DEF Replaced, WriteSetting, Tables
      <3>2. \A i \in Indexers \ {p} : env'[i].pc = "down"
        BY <1>2, <2>1, <2>2 DEF WriteSetting, Up, Processes
      <3>3. IsStored(row) => row.coding = env[p].method
        BY <2>2, SettingWritten DEF Free
      <3> QED BY <2>0, <2>1, <2>2, <3>1, <3>2, <3>3, SettingWritten DEF Working
    <2>3. CASE WriteBack(p)
      <3>1. PICK method \in Parsed(env[p].cm) :
                /\ setting' = Replaced(method)
                /\ faults' = faults \cup (IF env[p].cm # setting THEN {"crossed"} ELSE {})
                                    \cup (IF env[p].cm \notin {method, "absent"}
                                          THEN {"garbage"} ELSE {})
        BY <2>3 DEF WriteBack
      <3>2. env[p].cm = setting /\ env[p].cm \in {method, "absent"}
        BY <3>1 DEF Free
      <3>3. setting # "absent" => setting' = setting
        BY <3>1, <3>2 DEF Replaced
      <3>4. env'[p].pc \notin Working
        <4>1. PICK m : env' = [env EXCEPT ![p].pc = "counting", ![p].cm = "absent",
                                          ![p].compress = m]
          BY <2>3 DEF WriteBack
        <4>2. env'[p].pc = "counting"
          BY <1>5, <4>1 DEF Memory
        <4> QED BY <4>2 DEF Working
      <3>5. \A i \in Indexers : env[i].compress # "absent"
        BY <1>5 DEF Memory, Processes
      <3>6. row.coding # "absent"
        BY <1>5 DEF Row
      <3> QED BY <1>1, <2>0, <2>1, <3>3, <3>4, <3>5, <3>6 DEF Processes
    <2>4. CASE ~ (p \in Indexers /\ WriteSetting(p)) /\ ~ WriteBack(p)
      <3>1. setting' = setting
        <4>1. ~ WriteSetting(p) \/ p \in Indexers
          <5>1. SUFFICES ASSUME WriteSetting(p) PROVE p \in Indexers
            OBVIOUS
          <5>2. env'[p].pc = "adding"
            BY <1>5, <5>1 DEF WriteSetting, Memory
          <5> QED BY <1>6, <5>2, IdleLabels DEF DInv
        <4> QED BY <1>6, <2>4, <4>1, IdleFrame
      <3>2. p \in Indexers => env'[p].pc \notin Working
        BY <1>6, <2>4, IdleLabels DEF DInv, Working
      <3> QED BY <1>1, <2>0, <2>1, <3>1, <3>2 DEF Processes
    <2> QED BY <2>2, <2>3, <2>4
  <1>7. ASSUME NEW i \in Indexers, WorkStep(i)
        PROVE  /\ IsStored(row)' => setting' = row'.coding
               /\ \A k \in Indexers : env'[k].pc \in Working => setting' = env'[k].compress
    <2>1. \A k \in Indexers \ {i} : env'[k].pc \notin Working
      BY <1>0, <1>7, SoloWork, SearchersStay DEF Up, Processes, Working
    <2>2. CASE DropStep(i)
      <3>1. row' = NoRow
        BY <2>2 DEF DropStep, DropDatabase, DropTables, Dropped
      <3> QED BY <2>1, <2>2, <3>1, EndMemory DEF NoRow, Working, IsStored
    <2>3. CASE \E title \in Titles : AddDocument(i, title)
      <3>1. /\ env[i].pc = "adding"
            /\ UNCHANGED <<setting, row>>
            /\ env'[i].compress = env[i].compress
        BY <2>3, AddMemory
      <3> QED BY <1>1, <2>1, <3>1 DEF Working, IsStored
    <2>4. CASE StoreToken(i) \/ FlushList(i) \/ FlushRefused(i)
      <3>1. env[i].pc \in {"storing", "flushing"}
        BY <2>4 DEF StoreToken, FlushList, FlushRefused
      <3>2. UNCHANGED <<setting, row>>
        BY <2>4 DEF StoreToken, FlushList, FlushRefused, database
      <3>3. env'[i].compress = env[i].compress
        <4>1. CASE StoreToken(i)
          <5>1. env[i].snapshot = row /\ env[i].doc # NoDoc
            BY <1>4, <3>1 DEF Going
          <5>2. env'[i]["compress"] = env[i]["compress"]
            BY <4>1, <5>1, StoreMemory
          <5> QED BY <5>2
        <4>2. CASE FlushList(i)
          BY <4>2, FlushMemory
        <4>3. CASE FlushRefused(i)
          <5>1. env'[i]["compress"] = env[i]["compress"]
            BY <4>3, RefusedMemory
          <5> QED BY <5>1
        <4> QED BY <2>4, <4>1, <4>2, <4>3
      <3> QED BY <1>1, <2>1, <3>1, <3>2, <3>3 DEF Working, IsStored
    <2>5. CASE Commit(i) /\ env[i].open
      <3>1. setting' = setting /\ env[i].pc = "committing" /\ row' = Published(i)
        BY <2>5 DEF Commit
      <3>2. setting = env[i].compress
        BY <1>1, <3>1 DEF Working
      <3>3. IsStored(row)' => setting' = row'.coding
        <4>1. CASE env[i].updated
          <5>1. row'.coding = env[i].compress
            BY <1>4, <3>1, <4>1 DEF Published, Going
          <5> QED BY <3>1, <3>2, <5>1
        <4>2. CASE ~ env[i].updated
          <5>1. row' = row
            BY <1>4, <3>1, <4>2 DEF Published, Going
          <5> QED BY <1>1, <3>1, <5>1 DEF IsStored
        <4> QED BY <4>1, <4>2
      <3> QED BY <2>1, <2>5, <3>3, EndMemory DEF Working
    <2> QED BY <1>0, <1>7, <2>2, <2>3, <2>4, <2>5, SoloWork
  <1> QED BY <1>6, <1>7, NextCases

LEMMA KnownKept ==
    ASSUME SInv, Next
    PROVE  Known'
  <1> DEFINE kinds == {"overlap", "mixed", "crossed", "garbage", "changed"}
  <1> SUFFICES ASSUME Free(kinds)', Anchored', NEW q \in Processes, Settled(q)'
               PROVE  env'[q].compress = setting'
    BY DEF Known
  <1>0. DInv /\ Solo /\ Free({"overlap"})
    BY FreeBefore DEF SInv, Free
  <1>1. Anchored /\ Settled(q) => env[q].compress = setting
    BY FreeBefore DEF SInv, Known
  <1>2. /\ IsStored(row) => setting = row.coding
        /\ \A i \in Indexers : env[i].pc \in Working => setting = env[i].compress
    <2>1. Free(kinds)
      BY FreeBefore
    <2> QED BY <2>1 DEF SInv, Agreed, Free
  <1>3. env \in [Processes -> Memory] /\ row \in Row
    BY <1>0 DEF DInv, TypeOK
  <1>5. Anchored => setting # "absent"
    <2>1. \A i \in Indexers : env[i].compress # "absent"
      BY <1>3 DEF Memory, Processes
    <2>2. row.coding # "absent"
      BY <1>3 DEF Row
    <2> QED BY <1>2, <2>1, <2>2 DEF Anchored
  <1>6. ASSUME NEW p \in Processes, IdleStep(p)
        PROVE  env'[q].compress = setting'
    <2>1. /\ row' = row
          /\ \A k \in Processes \ {p} : env'[k] = env[k]
      BY <1>0, <1>6, IdleIsQuiet DEF Quiet
    <2>0. IsStored(row)' <=> IsStored(row)
      BY <2>1 DEF IsStored
    <2>2. CASE WriteSetting(p)
      <3>1. p \in Indexers /\ env'[p].pc = "adding"
        <4>1. env'[p].pc = "adding"
          BY <1>3, <2>2 DEF WriteSetting, Memory
        <4> QED BY <1>0, <1>6, <4>1, IdleLabels DEF DInv
      <3>2. q # p
        BY <3>1 DEF Settled
      <3>3. env[q].compress = env[p].method
        BY <1>0, <2>1, <2>2, <3>1, <3>2, SettingWritten DEF Settled, Free
      <3>4. env[p].pc = "setting" => Tables \subseteq tables
        BY <1>0, <3>1 DEF Solo
      <3>5. setting' = env[p].method
        BY <1>0, <2>2, <3>1, <3>4, SettingWritten DEF Replaced, WriteSetting, Tables
      <3> QED BY <2>1, <3>2, <3>3, <3>5
    <2>3. CASE WriteBack(p)
      <3>1. PICK method \in Parsed(env[p].cm) :
                /\ setting' = Replaced(method)
                /\ env' = [env EXCEPT ![p].pc = "counting", ![p].cm = "absent",
                                      ![p].compress = method]
                /\ faults' = faults \cup (IF env[p].cm # setting THEN {"crossed"} ELSE {})
                                    \cup (IF env[p].cm \notin {method, "absent"}
                                          THEN {"garbage"} ELSE {})
        BY <2>3 DEF WriteBack
      <3>2. env[p].cm = setting /\ env[p].cm \in {method, "absent"}
        BY <3>1 DEF Free
      <3>3. env'[p].pc = "counting" /\ env'[p].compress = method
        BY <1>3, <3>1 DEF Memory
      <3>4. Anchored
        BY <2>0, <2>1, <3>3 DEF Anchored, Working, Processes
      <3>5. setting' = setting /\ method = setting
        BY <1>5, <3>1, <3>2, <3>4 DEF Replaced
      <3> QED BY <1>1, <2>1, <3>3, <3>4, <3>5 DEF Settled
    <2>4. CASE ~ WriteSetting(p) /\ ~ WriteBack(p)
      <3>1. setting' = setting
        BY <1>0, <1>6, <2>4, IdleFrame
      <3>2. Anchored
        <4>1. env'[p].pc \notin Working
          BY <1>0, <1>6, <2>4, IdleLabels DEF DInv, Working
        <4> QED BY <2>0, <2>1, <4>1 DEF Anchored, Processes
      <3>3. q = p => Settled(p) /\ env'[p].compress = env[p].compress
        <4>1. SUFFICES ASSUME q = p PROVE Settled(p) /\ env'[p].compress = env[p].compress
          OBVIOUS
        <4>2. CASE CountDocuments(p)
          BY <1>3, <4>2 DEF CountDocuments, Goto, Memory, Settled
        <4>3. CASE Ask(p)
          <5>1. PICK found : env' = [env EXCEPT ![p].pc = "naming", ![p].hits = found]
            BY <4>3 DEF Ask
          <5> QED BY <1>3, <4>3, <5>1 DEF Ask, Memory, Settled
        <4>4. CASE Reply(p) /\ env'[p] = [env[p] EXCEPT !.pc = "serving", !.hits = {}]
          BY <1>3, <4>4 DEF Reply, Memory, Settled
        <4> QED BY <1>0, <1>6, <2>4, <4>1, <4>2, <4>3, <4>4, SettledBy DEF DInv
      <3> QED BY <1>1, <2>1, <3>1, <3>2, <3>3 DEF Settled
    <2> QED BY <2>2, <2>3, <2>4
  <1>7. ASSUME NEW i \in Indexers, WorkStep(i)
        PROVE  env'[q].compress = setting'
    <2>1. Settled(q) /\ env'[q] = env[q]
      BY <1>0, <1>7, SearchersStay DEF Settled
    <2>2. CASE DropStep(i)
      <3>1. ~ IsStored(row)'
        BY <2>2 DEF DropStep, DropDatabase, DropTables, Dropped, NoRow, IsStored
      <3>2. \A k \in Indexers \ {i} : env'[k].pc = "down"
        BY <1>0, <1>7, SoloWork, SearchersStay DEF Up, Processes
      <3>3. env'[i].pc \in {"clearing", "creating"}
        BY <1>0, <2>2, EndMemory
      <3>4. ~ Anchored'
        BY <3>1, <3>2, <3>3 DEF Anchored, Working
      <3> QED BY <3>4
    <2>3. CASE ~ DropStep(i)
      <3>1. setting' = setting /\ env[i].pc \in Working
        <4>1. CASE \E title \in Titles : AddDocument(i, title)
          BY <1>0, <4>1, AddMemory DEF Working
        <4>2. CASE StoreToken(i) \/ FlushList(i) \/ FlushRefused(i) \/ Commit(i)
          BY <4>2 DEF StoreToken, FlushList, FlushRefused, Commit, database, Working
        <4> QED BY <1>0, <1>7, <2>3, <4>1, <4>2, SoloWork
      <3> QED BY <1>1, <2>1, <3>1 DEF Anchored
    <2> QED BY <2>2, <2>3
  <1> QED BY <1>6, <1>7, NextCases

-----------------------------------------------------------------------------
LEMMA InitShared == Init => SInv
  <1> SUFFICES ASSUME Init PROVE SInv
    OBVIOUS
  <1>1. Idle => \A p \in Processes : env[p].pc = "down"
    BY DownIsCleared DEF Idle
  <1>2. /\ row.postings = documents
        /\ ~ row.garbled
        /\ IsStored(row) => setting = row.coding /\ row.known
        /\ NoDoc \notin documents
    BY DEF Init, Idle, Deadlocked, Empty, Filled, NoRow, NoDoc, IsStored
  <1>3. CASE Idle
    <2>1. \A i \in Indexers : env[i].pc = "down"
      BY <1>1, <1>3 DEF Processes
    <2> QED
      BY <1>1, <1>2, <1>3, <2>1, InitInvariant
      DEF SInv, Proper, Solo, Lost, Complete, Whole, Going, Agreed, Known, Up, Working,
          Settled
  <1>4. CASE Deadlocked
    BY <1>2, <1>4, InitInvariant
    DEF Deadlocked, SInv, Proper, Solo, Complete, Agreed, Known, Free
  <1> QED BY <1>3, <1>4 DEF Init

LEMMA NextShared ==
    ASSUME SInv, [Next]_vars
    PROVE  SInv'
  <1>1. CASE UNCHANGED vars
    <2>1. DInv'
      BY <1>1, NextInvariant DEF SInv
    <2> QED
      BY <1>1, <2>1
      DEF vars, database, history, SInv, Proper, Solo, Lost, Complete, Whole, Going,
          Repeated, Agreed, Known, Anchored, IsStored, Up, Settled, Free
  <1>2. CASE Next
    BY <1>2, NextInvariant, ProperKept, SoloKept, CompleteKept, AgreedKept, KnownKept
    DEF SInv
  <1> QED BY <1>1, <1>2

\* SInv is an invariant.
THEOREM SharedInvariantHolds == Spec => []SInv
  BY InitShared, NextShared, PTL DEF Spec

(***************************************************************************)
(* A document is lost from the index only by runs that overlap or that     *)
(* change the method of a stored list, and with the whole list when golomb *)
(* is given a title that was stored already.                               *)
(***************************************************************************)
THEOREM NothingIsEverLost == Spec => []NothingIsLost
  <1>1. SInv => NothingIsLost
    BY DEF SInv, Complete, Whole, Repeated, NothingIsLost
  <1> QED BY <1>1, SharedInvariantHolds, PTL

(***************************************************************************)
(* The setting names the encoding of the stored list, but for the crossed  *)
(* and damaged writes of starting servers.                                 *)
(***************************************************************************)
THEOREM SettingIsAlwaysCoding == Spec => []SettingIsCoding
  <1>1. SInv => SettingIsCoding
    BY DEF SInv, Agreed, SettingIsCoding
  <1> QED BY <1>1, SharedInvariantHolds, PTL

(***************************************************************************)
(* Whoever searches decodes the list by the method that it was encoded     *)
(* with, as long as nobody changes the method meanwhile.                   *)
(***************************************************************************)
THEOREM SearchesAlwaysDecode == Spec => []SearchesDecode
  <1>1. SInv => SearchesDecode
    BY DEF SInv, Agreed, Known, Anchored, SearchesDecode, Free
  <1> QED BY <1>1, SharedInvariantHolds, PTL

=============================================================================
