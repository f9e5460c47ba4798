------------------------------ MODULE WikiLoad ------------------------------
(***************************************************************************)
(* How the pages of a Wikipedia dump become documents (wikiload.c).        *)
(*                                                                         *)
(* The parser calls back at every start tag, at every end tag and with     *)
(* every piece of text: it may hand out the text of one element in several *)
(* pieces.  The callbacks know an element by its name alone, and a dump    *)
(* uses a name in more than one place: a page, its revision and its        *)
(* contributor all have an id.  What they remember of the place is status. *)
(*                                                                         *)
(* The dump is the environment.  Its pages have the elements of Parts, in  *)
(* that order, and one revision each, as the dumps of articles have.       *)
(***************************************************************************)
EXTENDS Integers, Sequences, SequencesExt

CONSTANTS
    Pieces,      \* pieces of text
    NULL,        \* no buffer
    Limits,      \* the values of max_article_count, -1 for none
    MaxPages,    \* bound on the pages of the dump
    MaxPieces    \* bound on the pieces of text of a page

ASSUME LimitsAssumption == Limits \subseteq Nat \cup {-1}
ASSUME NullAssumption == NULL \notin Seq(Pieces)

VARIABLES
    open,               \* the open elements of a page: [name, parts read]
    pages,              \* the pages whose text has been read
    content,            \* what the page being read has said so far
    status,             \* p->status
    title, body, timestamp,  \* the buffers of the parser
    article_count,      \* p->article_count
    max_article_count,  \* p->max_article_count
    given,              \* the documents given to the callback
    rc                  \* what load_wikipedia_dump returned, -1 while it runs

file == <<open, pages, content>>
parser == <<status, title, body, timestamp, article_count, max_article_count>>
vars == <<file, parser, given, rc>>

Parts == [page        |-> <<"title", "id", "revision">>,
          revision    |-> <<"id", "timestamp", "contributor", "text">>,
          contributor |-> <<"id">>]

Empty == [title |-> <<>>, body |-> <<>>, timestamp |-> <<>>]

Init ==
    /\ open = <<>>
    /\ pages = <<>>
    /\ content = Empty
    /\ status = "IN_DOCUMENT"
    /\ title = NULL /\ body = NULL /\ timestamp = NULL
    /\ article_count = 0
    /\ max_article_count \in Limits
    /\ given = <<>>
    /\ rc = -1

-----------------------------------------------------------------------------
(***************************************************************************)
(* The dump.                                                               *)
(***************************************************************************)
Path == [i \in 1..Len(open) |-> open[i].name]

\* Each place whose text makes a document.
Field == [path \in {<<"page", "title">>, <<"page", "revision", "text">>,
                    <<"page", "revision", "timestamp">>} |->
              IF Last(path) = "text" THEN "body" ELSE Last(path)]

PartsLeft(frame) ==
    IF frame.name \in DOMAIN Parts
    THEN SubSeq(Parts[frame.name], frame.read + 1, Len(Parts[frame.name]))
    ELSE <<>>

BeginsElement(el) ==
    /\ \/ /\ open = <<>>
          /\ Len(pages) < MaxPages
          /\ el = "page"
          /\ open' = <<[name |-> el, read |-> 0]>>
          /\ content' = Empty
       \/ /\ open /= <<>>
          /\ PartsLeft(Last(open)) /= <<>>
          /\ el = Head(PartsLeft(Last(open)))
          /\ open' = Append(Front(open) \o
                            <<[Last(open) EXCEPT !.read = @ + 1]>>,
                            [name |-> el, read |-> 0])
          /\ UNCHANGED content
    /\ UNCHANGED pages

EndsElement(el) ==
    /\ open /= <<>>
    /\ PartsLeft(Last(open)) = <<>>
    /\ el = Last(open).name
    /\ open' = Front(open)
    /\ pages' = IF Path = <<"page", "revision", "text">>
                THEN Append(pages, content)
                ELSE pages
    /\ UNCHANGED content

SaysText(piece) ==
    /\ open /= <<>>
    /\ Last(open).name \notin DOMAIN Parts
    /\ Len(content.title) + Len(content.body) + Len(content.timestamp)
           < MaxPieces
    /\ content' = IF Path \in DOMAIN Field
                  THEN [content EXCEPT ![Field[Path]] = Append(@, piece)]
                  ELSE content
    /\ UNCHANGED <<open, pages>>

-----------------------------------------------------------------------------
(***************************************************************************)
(* The callbacks: start, end and element_data.                             *)
(***************************************************************************)
\* Slip: every id is taken for the id of the page.
StatusAfterStartAnyId(el) ==
    CASE status = "IN_DOCUMENT" /\ el = "page" -> "IN_PAGE"
      [] status = "IN_PAGE" /\ el = "title" -> "IN_PAGE_TITLE"
      [] status \in {"IN_PAGE", "IN_PAGE_REVISION"} /\ el = "id"
             -> "IN_PAGE_ID"
      [] status = "IN_PAGE" /\ el = "revision" -> "IN_PAGE_REVISION"
      [] status = "IN_PAGE_REVISION" /\ el = "timestamp"
             -> "IN_PAGE_REVISION_TIMESTAMP"
      [] status = "IN_PAGE_REVISION" /\ el = "text"
             -> "IN_PAGE_REVISION_TEXT"
      [] OTHER -> status

StatusAfterStart(el) ==
    CASE status = "IN_DOCUMENT" /\ el = "page" -> "IN_PAGE"
      [] status = "IN_PAGE" /\ el = "title" -> "IN_PAGE_TITLE"
      [] status = "IN_PAGE" /\ el = "id" -> "IN_PAGE_ID"
      [] status = "IN_PAGE" /\ el = "revision" -> "IN_PAGE_REVISION"
      [] status = "IN_PAGE_REVISION" /\ el = "timestamp"
             -> "IN_PAGE_REVISION_TIMESTAMP"
      [] status = "IN_PAGE_REVISION" /\ el = "text"
             -> "IN_PAGE_REVISION_TEXT"
      [] OTHER -> status

\* start: the buffer of an element is made when the element begins.
StartTag(el) ==
    /\ rc = -1
    /\ BeginsElement(el)
    /\ status' = StatusAfterStart(el)
    /\ title' = IF status = "IN_PAGE" /\ el = "title" THEN <<>> ELSE title
    /\ timestamp' = IF status = "IN_PAGE_REVISION" /\ el = "timestamp"
                    THEN <<>> ELSE timestamp
    /\ body' = IF status = "IN_PAGE_REVISION" /\ el = "text"
               THEN <<>> ELSE body
    /\ UNCHANGED <<article_count, max_article_count, given, rc>>

\* An end tag in the state of the timestamp goes on to the tests of the text.
TextHasEnded(el) ==
    /\ status \in {"IN_PAGE_REVISION_TIMESTAMP", "IN_PAGE_REVISION_TEXT"}
    /\ el = "text"

StatusAfterEnd(el) ==
    CASE status = "IN_PAGE" /\ el = "page" -> "IN_DOCUMENT"
      [] status = "IN_PAGE_TITLE" /\ el = "title" -> "IN_PAGE"
      [] status = "IN_PAGE_ID" /\ el = "id" -> "IN_PAGE"
      [] status = "IN_PAGE_REVISION" /\ el = "revision" -> "IN_PAGE"
      [] status = "IN_PAGE_REVISION_TIMESTAMP" /\ el = "timestamp"
             -> "IN_PAGE_REVISION"
      [] TextHasEnded(el) -> "IN_PAGE_REVISION"
      [] OTHER -> status

IsWanted == max_article_count < 0 \/ article_count < max_article_count

EndTagInside(el) ==
    /\ rc = -1
    /\ ~ TextHasEnded(el)
    /\ EndsElement(el)
    /\ status' = StatusAfterEnd(el)
    /\ UNCHANGED <<title, body, timestamp, article_count, max_article_count>>
    /\ UNCHANGED <<given, rc>>

EndTagOfText(el) ==
    /\ rc = -1
    /\ TextHasEnded(el)
    /\ EndsElement(el)
    /\ status' = StatusAfterEnd(el)
    /\ given' = IF IsWanted
                THEN Append(given, [title |-> title, body |-> body,
                                    timestamp |-> timestamp])
                ELSE given
    /\ title' = NULL /\ body' = NULL /\ timestamp' = NULL
    /\ article_count' = article_count + 1
    /\ UNCHANGED <<max_article_count, rc>>

\* Slip: a piece of text replaces the pieces before it.
ElementDataReplacing(piece) ==
    /\ rc = -1
    /\ SaysText(piece)
    /\ title' = IF status = "IN_PAGE_TITLE" THEN <<piece>> ELSE title
    /\ timestamp' = IF status = "IN_PAGE_REVISION_TIMESTAMP"
                    THEN <<piece>> ELSE timestamp
    /\ body' = IF status = "IN_PAGE_REVISION_TEXT" THEN <<piece>> ELSE body
    /\ UNCHANGED <<status, article_count, max_article_count, given, rc>>

\* element_data: utstring_bincpy appends.
ElementData(piece) ==
    /\ rc = -1
    /\ SaysText(piece)
    /\ title' = IF status = "IN_PAGE_TITLE" THEN Append(title, piece)
                ELSE title
    /\ timestamp' = IF status = "IN_PAGE_REVISION_TIMESTAMP"
                    THEN Append(timestamp, piece) ELSE timestamp
    /\ body' = IF status = "IN_PAGE_REVISION_TEXT" THEN Append(body, piece)
               ELSE body
    /\ UNCHANGED <<status, article_count, max_article_count, given, rc>>

-----------------------------------------------------------------------------
(***************************************************************************)
(* The loop of load_wikipedia_dump reads the file in buffers of a fixed    *)
(* size; a buffer may end anywhere.                                        *)
(***************************************************************************)
\* Slip: the loop ends when one article is still wanted.
EnoughReadOneEarly ==
    max_article_count >= 0 /\ max_article_count <= article_count + 1

EnoughRead == max_article_count >= 0 /\ max_article_count <= article_count

Returns(value) ==
    /\ rc' = value
    /\ UNCHANGED <<file, parser, given>>

BufferEnds == rc = -1 /\ EnoughRead /\ Returns(0)

FileEnds == rc = -1 /\ open = <<>> /\ Returns(0)

ReadFails == rc = -1 /\ Returns(3)

ParseFails == rc = -1 /\ Returns(4)

Next ==
    \/ \E el \in {"page", "title", "id", "revision", "timestamp",
                  "contributor", "text"} :
           StartTag(el) \/ EndTagInside(el) \/ EndTagOfText(el)
    \/ \E piece \in Pieces : ElementData(piece)
    \/ BufferEnds
    \/ FileEnds
    \/ ReadFails
    \/ ParseFails

Spec == Init /\ [][Next]_vars

-----------------------------------------------------------------------------
Wanted(read) ==
    IF max_article_count >= 0 /\ max_article_count < Len(read)
    THEN SubSeq(read, 1, max_article_count)
    ELSE read

(***************************************************************************)
(* Every document given to the callback is a page of the dump, with the    *)
(* whole text of its own title, timestamp and text; no page is left out    *)
(* before the limit or given twice, wherever loading stops (start, end,    *)
(* element_data).                                                          *)
(***************************************************************************)
PagesAreGivenWhole == given = Wanted(pages)

(***************************************************************************)
(* Loading succeeds only when the dump has no more pages or as many        *)
(* documents were given as were asked for (wikiload.c:251).                *)
(***************************************************************************)
SuccessIsComplete ==
    rc = 0 => open = <<>> \/ Len(given) = max_article_count

Within(name) == name \in Range(Path)

HasBegun(name) ==
    \E i \in DOMAIN open :
        /\ open[i].name \in DOMAIN Parts
        /\ \E k \in 1..open[i].read : Parts[open[i].name][k] = name

\* Of the page being read.
TextHasBeenRead ==
    \/ HasBegun("text") /\ ~ Within("text")
    \/ HasBegun("revision") /\ ~ Within("revision")

(***************************************************************************)
(* A buffer exists exactly from the start tag of its element to the end of *)
(* the page's text: none is leaked, and none is used before it is made     *)
(* (utstring_new, utstring_free).                                          *)
(***************************************************************************)
BuffersFollowThePage ==
    /\ title /= NULL <=> HasBegun("title") /\ ~ TextHasBeenRead
    /\ timestamp /= NULL <=> HasBegun("timestamp") /\ ~ TextHasBeenRead
    /\ body /= NULL <=> Within("text")

=============================================================================
