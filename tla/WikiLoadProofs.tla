--------------------------- MODULE WikiLoadProofs ---------------------------
(***************************************************************************)
(* Proofs about WikiLoad, for any dump: any number of pages, with any      *)
(* text in any number of pieces, and any limit.                            *)
(***************************************************************************)
EXTENDS WikiLoad, SequenceTheorems, TLAPS

Text == Seq(Pieces)

Contents == [title : Text, body : Text, timestamp : Text]

Frame(name, read) == [name |-> name, read |-> read]

\* A place of the dump: the open elements, what the parser takes the place for,
\* and the buffers it has made for it.
Place(frames, state, made) ==
    /\ open = frames
    /\ status = state
    /\ title = (IF "title" \in made THEN content.title ELSE NULL)
    /\ timestamp = (IF "timestamp" \in made THEN content.timestamp ELSE NULL)
    /\ body = (IF "body" \in made THEN content.body ELSE NULL)

Page(read) == Frame("page", read)
Revision(read) == Frame("revision", read)
Contributor(read) == Frame("contributor", read)

\* The open elements at each place: behind n parts of an element, or inside one.
AtPage(n) == Append(<<>>, Page(n))
AtRevision(n) == Append(AtPage(3), Revision(n))
AtContributor(n) == Append(AtRevision(3), Contributor(n))
Inside(el, place) == Append(place, Frame(el, 0))

\* A place where the text of the page is still to be read to its end.
Reading(frames, state, made) ==
    /\ Place(frames, state, made)
    /\ "title" \in made \/ content.title = <<>>
    /\ "timestamp" \in made \/ content.timestamp = <<>>
    /\ "body" \in made \/ content.body = <<>>

\* The places of a page before its revision and behind it.
InPage ==
    \/ Place(<<>>, "IN_DOCUMENT", {})
    \/ Reading(AtPage(0), "IN_PAGE", {})
    \/ Reading(Inside("title", AtPage(1)), "IN_PAGE_TITLE", {"title"})
    \/ Reading(AtPage(1), "IN_PAGE", {"title"})
    \/ Reading(Inside("id", AtPage(2)), "IN_PAGE_ID", {"title"})
    \/ Reading(AtPage(2), "IN_PAGE", {"title"})
    \/ Place(AtPage(3), "IN_PAGE", {})

\* The places of a revision: its id and its contributor have no state of their
\* own.
InRevision ==
    \/ Reading(AtRevision(0), "IN_PAGE_REVISION", {"title"})
    \/ Reading(Inside("id", AtRevision(1)), "IN_PAGE_REVISION", {"title"})
    \/ Reading(AtRevision(1), "IN_PAGE_REVISION", {"title"})
    \/ Reading(Inside("timestamp", AtRevision(2)),
               "IN_PAGE_REVISION_TIMESTAMP", {"title", "timestamp"})
    \/ Reading(AtRevision(2), "IN_PAGE_REVISION", {"title", "timestamp"})
    \/ Reading(AtContributor(0), "IN_PAGE_REVISION", {"title", "timestamp"})
    \/ Reading(Inside("id", AtContributor(1)),
               "IN_PAGE_REVISION", {"title", "timestamp"})
    \/ Reading(AtContributor(1), "IN_PAGE_REVISION", {"title", "timestamp"})
    \/ Reading(AtRevision(3), "IN_PAGE_REVISION", {"title", "timestamp"})
    \/ Reading(Inside("text", AtRevision(4)),
               "IN_PAGE_REVISION_TEXT", {"title", "timestamp", "body"})
    \/ Place(AtRevision(4), "IN_PAGE_REVISION", {})

WInv ==
    /\ content \in Contents
    /\ pages \in Seq(Contents)
    /\ max_article_count \in Limits
    /\ article_count = Len(pages)
    /\ given = Wanted(pages)
    /\ InPage \/ InRevision
    /\ rc \in {-1, 0, 3, 4}
    /\ rc = 0 => open = <<>> \/ EnoughRead

-----------------------------------------------------------------------------
(***************************************************************************)
(* The walk through the elements of a page.                                *)
(***************************************************************************)

\* The stack of open elements, as its top and the rest.
LEMMA Stack ==
    ASSUME NEW S, NEW rest \in Seq(S), NEW top \in S
    PROVE  /\ Append(rest, top) # <<>>
           /\ Last(Append(rest, top)) = top
           /\ Front(Append(rest, top)) = rest
           /\ \A x \in S : rest \o <<x>> = Append(rest, x)
BY DEF Last, Front

\* What is left of a sequence behind its first n elements.
LEMMA Remainder ==
    ASSUME NEW S, NEW s \in Seq(S), NEW n \in 0..Len(s)
    PROVE  /\ SubSeq(s, n + 1, Len(s)) = <<>> <=> n = Len(s)
           /\ n < Len(s) => Head(SubSeq(s, n + 1, Len(s))) = s[n + 1]
<1>. DEFINE left == SubSeq(s, n + 1, Len(s))
<1>1. /\ left \in Seq(S)
      /\ Len(left) = Len(s) - n
      /\ \A i \in 1..Len(s) - n : left[i] = s[n + i]
  BY SubSeqProperties
<1>2. left = <<>> <=> Len(left) = 0
  BY <1>1, EmptySeq
<1>3. n < Len(s) => Head(left) = left[1]
  BY <1>1
<1>. QED BY <1>1, <1>2, <1>3

ElementNames == {"page", "title", "id", "revision", "timestamp",
                 "contributor", "text"}

Frames == [name : ElementNames, read : Nat]

LEMMA PartsAre ==
    /\ DOMAIN Parts = {"page", "revision", "contributor"}
    /\ Parts["page"] = <<"title", "id", "revision">>
    /\ Parts["revision"] = <<"id", "timestamp", "contributor", "text">>
    /\ Parts["contributor"] = <<"id">>
BY DEF Parts

Follows(el, frame) == PartsLeft(frame) # <<>> /\ Head(PartsLeft(frame)) = el

LEMMA PartsOf ==
    ASSUME NEW name \in DOMAIN Parts, NEW S, NEW s \in Seq(S), Parts[name] = s,
           NEW n \in 0..Len(s)
    PROVE  /\ n < Len(s) => Follows(s[n + 1], Frame(name, n))
           /\ n = Len(s) => PartsLeft(Frame(name, n)) = <<>>
<1>1. /\ SubSeq(s, n + 1, Len(s)) = <<>> <=> n = Len(s)
      /\ n < Len(s) => Head(SubSeq(s, n + 1, Len(s))) = s[n + 1]
  BY Remainder
<1>2. n < Len(s) => n # Len(s)
  OBVIOUS
<1>3. PartsLeft(Frame(name, n)) = SubSeq(s, n + 1, Len(s))
  BY DEF PartsLeft, Frame
<1>. QED BY <1>1, <1>2, <1>3, Zenon DEF Follows

LEMMA PageParts ==
    /\ Follows("title", Page(0))
    /\ Follows("id", Page(1))
    /\ Follows("revision", Page(2))
    /\ PartsLeft(Page(3)) = <<>>
<1>. DEFINE s == <<"title", "id", "revision">>
<1>1. s \in Seq(ElementNames) /\ Len(s) = 3
  BY DEF ElementNames
<1>2. s[1] = "title" /\ s[2] = "id" /\ s[3] = "revision"
  OBVIOUS
<1>3. "page" \in DOMAIN Parts /\ Parts["page"] = s
  BY PartsAre
<1>. HIDE DEF s
<1>4. \A n \in 0..Len(s) :
        /\ n < Len(s) => Follows(s[n + 1], Page(n))
        /\ n = Len(s) => PartsLeft(Page(n)) = <<>>
  BY <1>1, <1>3, PartsOf, Zenon DEF Page
<1>. QED BY <1>1, <1>2, <1>4

LEMMA RevisionParts ==
    /\ Follows("id", Revision(0))
    /\ Follows("timestamp", Revision(1))
    /\ Follows("contributor", Revision(2))
    /\ Follows("text", Revision(3))
    /\ PartsLeft(Revision(4)) = <<>>
<1>. DEFINE s == <<"id", "timestamp", "contributor", "text">>
<1>1. s \in Seq(ElementNames) /\ Len(s) = 4
  BY DEF ElementNames
<1>2. s[1] = "id" /\ s[2] = "timestamp" /\ s[3] = "contributor" /\ s[4] = "text"
  OBVIOUS
<1>3. "revision" \in DOMAIN Parts /\ Parts["revision"] = s
  BY PartsAre
<1>. HIDE DEF s
<1>4. \A n \in 0..Len(s) :
        /\ n < Len(s) => Follows(s[n + 1], Revision(n))
        /\ n = Len(s) => PartsLeft(Revision(n)) = <<>>
  BY <1>1, <1>3, PartsOf, Zenon DEF Revision
<1>. QED BY <1>1, <1>2, <1>4

LEMMA ContributorParts ==
    /\ Follows("id", Contributor(0))
    /\ PartsLeft(Contributor(1)) = <<>>
<1>. DEFINE s == <<"id">>
<1>1. s \in Seq(ElementNames) /\ Len(s) = 1
  BY DEF ElementNames
<1>2. s[1] = "id"
  OBVIOUS
<1>3. "contributor" \in DOMAIN Parts /\ Parts["contributor"] = s
  BY PartsAre
<1>. HIDE DEF s
<1>4. \A n \in 0..Len(s) :
        /\ n < Len(s) => Follows(s[n + 1], Contributor(n))
        /\ n = Len(s) => PartsLeft(Contributor(n)) = <<>>
  BY <1>1, <1>3, PartsOf, Zenon DEF Contributor
<1>. QED BY <1>1, <1>2, <1>4

LEMMA LeafParts ==
    ASSUME NEW name \in {"title", "id", "timestamp", "text"}
    PROVE  PartsLeft(Frame(name, 0)) = <<>>
BY PartsAre DEF PartsLeft, Frame

LEMMA NamesAre ==
    "page" \in ElementNames /\ "revision" \in ElementNames
        /\ "contributor" \in ElementNames
BY DEF ElementNames

LEMMA FramesAre ==
    ASSUME NEW name \in ElementNames, NEW n \in Nat
    PROVE  /\ Frame(name, n) \in Frames
           /\ Frame(name, n + 1) \in Frames
           /\ Frame(name, n).name = name
           /\ [Frame(name, n) EXCEPT !.read = @ + 1] = Frame(name, n + 1)
BY DEF Frame, Frames

LEMMA PlacesAreStacks ==
    /\ <<>> \in Seq(Frames)
    /\ AtPage(3) \in Seq(Frames) /\ AtRevision(3) \in Seq(Frames)
    /\ \A n \in Nat : /\ AtPage(n) \in Seq(Frames)
                      /\ AtRevision(n) \in Seq(Frames)
                      /\ AtContributor(n) \in Seq(Frames)
<1>1. \A n \in Nat : {Page(n), Revision(n), Contributor(n)} \subseteq Frames
  BY FramesAre, NamesAre DEF Page, Revision, Contributor
<1>. QED BY <1>1 DEF AtPage, AtRevision, AtContributor

\* The places where text is.
Leaves ==
    {Inside("title", AtPage(1)), Inside("id", AtPage(2)),
     Inside("id", AtRevision(1)), Inside("timestamp", AtRevision(2)),
     Inside("id", AtContributor(1)), Inside("text", AtRevision(4))}

LEMMA LeavesAre ==
    ASSUME NEW leaf \in Leaves
    PROVE  \E el \in {"title", "id", "timestamp", "text"} :
               \E place \in Seq(Frames) : leaf = Inside(el, place)
BY PlacesAreStacks DEF Leaves

\* A start tag inside an element is that of the part that follows.
LEMMA Begins ==
    ASSUME NEW rest \in Seq(Frames), NEW name \in ElementNames, NEW n \in Nat,
           open = Append(rest, Frame(name, n)),
           NEW el, BeginsElement(el)
    PROVE  /\ Follows(el, Frame(name, n))
           /\ open' = Append(Append(rest, Frame(name, n + 1)), Frame(el, 0))
<1>1. Frame(name, n) \in Frames /\ Frame(name, n + 1) \in Frames
  BY FramesAre
<1>2. open # <<>> /\ Last(open) = Frame(name, n) /\ Front(open) = rest
  BY <1>1, Stack
<1>3. rest \o <<Frame(name, n + 1)>> = Append(rest, Frame(name, n + 1))
  BY <1>1, Stack
<1>. QED BY <1>2, <1>3, FramesAre DEF BeginsElement, Follows, Frame

\* An end tag is that of the innermost element, and all its parts are read.
LEMMA Ends ==
    ASSUME NEW rest \in Seq(Frames), NEW name \in ElementNames, NEW n \in Nat,
           open = Append(rest, Frame(name, n)),
           NEW el, EndsElement(el)
    PROVE  /\ PartsLeft(Frame(name, n)) = <<>>
           /\ el = name
           /\ open' = rest
<1>1. open # <<>> /\ Last(open) = Frame(name, n) /\ Front(open) = rest
  BY FramesAre, Stack
<1>. QED BY <1>1, FramesAre DEF EndsElement

LEMMA BeginsPart ==
    ASSUME NEW el, BeginsElement(el)
    PROVE  /\ \A n \in Nat : open = AtPage(n) =>
                  Follows(el, Page(n)) /\ open' = Inside(el, AtPage(n + 1))
           /\ \A n \in Nat : open = AtRevision(n) =>
                  /\ Follows(el, Revision(n))
                  /\ open' = Inside(el, AtRevision(n + 1))
           /\ \A n \in Nat : open = AtContributor(n) =>
                  /\ Follows(el, Contributor(n))
                  /\ open' = Inside(el, AtContributor(n + 1))
           /\ \A name \in ElementNames, place \in Seq(Frames) :
                  open = Inside(name, place) => Follows(el, Frame(name, 0))
<1>1. ASSUME NEW n \in Nat, open = AtPage(n)
      PROVE  Follows(el, Page(n)) /\ open' = Inside(el, AtPage(n + 1))
  BY <1>1, Begins, NamesAre, PlacesAreStacks, Zenon
     DEF AtPage, Page, Inside
<1>2. ASSUME NEW n \in Nat, open = AtRevision(n)
      PROVE  Follows(el, Revision(n)) /\ open' = Inside(el, AtRevision(n + 1))
  BY <1>2, Begins, NamesAre, PlacesAreStacks, Zenon
     DEF AtRevision, Revision, Inside
<1>3. ASSUME NEW n \in Nat, open = AtContributor(n)
      PROVE  Follows(el, Contributor(n)) /\ open' = Inside(el, AtContributor(n + 1))
  BY <1>3, Begins, NamesAre, PlacesAreStacks, Zenon
     DEF AtContributor, Contributor, Inside
<1>4. ASSUME NEW name \in ElementNames, NEW place \in Seq(Frames),
             open = Inside(name, place)
      PROVE  Follows(el, Frame(name, 0))
  BY <1>4, Begins DEF Inside
<1>. QED BY <1>1, <1>2, <1>3, <1>4

LEMMA EndsPart ==
    ASSUME NEW el, EndsElement(el)
    PROVE  /\ \A n \in Nat : open = AtPage(n) =>
                  PartsLeft(Page(n)) = <<>> /\ el = "page" /\ open' = <<>>
           /\ \A n \in Nat : open = AtRevision(n) =>
                  /\ PartsLeft(Revision(n)) = <<>>
                  /\ el = "revision"
                  /\ open' = AtPage(3)
           /\ \A n \in Nat : open = AtContributor(n) =>
                  /\ PartsLeft(Contributor(n)) = <<>>
                  /\ el = "contributor"
                  /\ open' = AtRevision(3)
           /\ \A name \in ElementNames, place \in Seq(Frames) :
                  open = Inside(name, place) => el = name /\ open' = place
<1>1. ASSUME NEW n \in Nat, open = AtPage(n)
      PROVE  PartsLeft(Page(n)) = <<>> /\ el = "page" /\ open' = <<>>
  BY <1>1, Ends, NamesAre, PlacesAreStacks, Zenon
     DEF AtPage, Page
<1>2. ASSUME NEW n \in Nat, open = AtRevision(n)
      PROVE  PartsLeft(Revision(n)) = <<>> /\ el = "revision" /\ open' = AtPage(3)
  BY <1>2, Ends, NamesAre, PlacesAreStacks, Zenon
     DEF AtRevision, Revision
<1>3. ASSUME NEW n \in Nat, open = AtContributor(n)
      PROVE  PartsLeft(Contributor(n)) = <<>> /\ el = "contributor" /\ open' = AtRevision(3)
  BY <1>3, Ends, NamesAre, PlacesAreStacks, Zenon
     DEF AtContributor, Contributor
<1>4. ASSUME NEW name \in ElementNames, NEW place \in Seq(Frames),
             open = Inside(name, place)
      PROVE  el = name /\ open' = place
  BY <1>4, Ends DEF Inside
<1>. QED BY <1>1, <1>2, <1>3, <1>4

\* The start tags, in the order of the walk.
LEMMA WalkBegins ==
    ASSUME NEW el, BeginsElement(el)
    PROVE  /\ open = <<>> => el = "page" /\ open' = AtPage(0)
           /\ open = AtPage(0) => el = "title" /\ open' = Inside("title", AtPage(1))
           /\ open = AtPage(1) => el = "id" /\ open' = Inside("id", AtPage(2))
           /\ open = AtPage(2) => el = "revision" /\ open' = AtRevision(0)
           /\ open = AtRevision(0) =>
                  el = "id" /\ open' = Inside("id", AtRevision(1))
           /\ open = AtRevision(1) =>
                  el = "timestamp" /\ open' = Inside("timestamp", AtRevision(2))
           /\ open = AtRevision(2) => el = "contributor" /\ open' = AtContributor(0)
           /\ open = AtRevision(3) =>
                  el = "text" /\ open' = Inside("text", AtRevision(4))
           /\ open = AtContributor(0) =>
                  el = "id" /\ open' = Inside("id", AtContributor(1))
           /\ open \notin {AtPage(3), AtRevision(4), AtContributor(1)} \cup Leaves
<1>1. \A frame : /\ PartsLeft(frame) = <<>> => ~ Follows(el, frame)
                 /\ \A next : Follows(next, frame) /\ Follows(el, frame)
                                  => el = next
  BY DEF Follows
<1>2. open = <<>> => el = "page" /\ open' = AtPage(0)
  BY DEF BeginsElement, AtPage, Page, Frame
<1>3. 0 + 1 = 1 /\ 1 + 1 = 2 /\ 2 + 1 = 3 /\ 3 + 1 = 4
  OBVIOUS
<1>4. Inside("revision", AtPage(3)) = AtRevision(0)
  BY DEF Inside, AtRevision, Revision
<1>5. Inside("contributor", AtRevision(3)) = AtContributor(0)
  BY DEF Inside, AtContributor, Contributor
<1>6. /\ open = AtPage(0) => el = "title" /\ open' = Inside("title", AtPage(1))
      /\ open = AtPage(1) => el = "id" /\ open' = Inside("id", AtPage(2))
      /\ open = AtPage(2) => el = "revision" /\ open' = AtRevision(0)
      /\ open # AtPage(3)
  BY <1>1, <1>3, <1>4, BeginsPart, PageParts
<1>7. /\ open = AtRevision(0) =>
             el = "id" /\ open' = Inside("id", AtRevision(1))
      /\ open = AtRevision(1) =>
             el = "timestamp" /\ open' = Inside("timestamp", AtRevision(2))
      /\ open = AtRevision(2) => el = "contributor" /\ open' = AtContributor(0)
      /\ open = AtRevision(3) =>
             el = "text" /\ open' = Inside("text", AtRevision(4))
      /\ open # AtRevision(4)
  BY <1>1, <1>3, <1>5, BeginsPart, RevisionParts
<1>8. /\ open = AtContributor(0) =>
             el = "id" /\ open' = Inside("id", AtContributor(1))
      /\ open # AtContributor(1)
  BY <1>1, <1>3, BeginsPart, ContributorParts
<1>9. \A name \in {"title", "id", "timestamp", "text"} :
          \A place \in Seq(Frames) : open # Inside(name, place)
  BY <1>1, BeginsPart, LeafParts DEF ElementNames
<1>10. open \notin Leaves
  BY <1>9, LeavesAre
<1>. QED BY <1>2, <1>6, <1>7, <1>8, <1>10

\* The end tags.
LEMMA WalkEnds ==
    ASSUME NEW el, EndsElement(el)
    PROVE  /\ open # <<>>
           /\ open \notin {AtPage(0), AtPage(1), AtPage(2)}
           /\ open = AtPage(3) => el = "page" /\ open' = <<>>
           /\ open \notin {AtRevision(0), AtRevision(1), AtRevision(2), AtRevision(3)}
           /\ open = AtRevision(4) => el = "revision" /\ open' = AtPage(3)
           /\ open # AtContributor(0)
           /\ open = AtContributor(1) => el = "contributor" /\ open' = AtRevision(3)
           /\ \A name \in {"title", "id", "timestamp", "text"} :
                  \A place \in Seq(Frames) :
                      open = Inside(name, place) => el = name /\ open' = place
<1>1. \A frame, next : Follows(next, frame) => PartsLeft(frame) # <<>>
  BY DEF Follows
<1>2. open # <<>>
  BY DEF EndsElement
<1>3. /\ open \notin {AtPage(0), AtPage(1), AtPage(2)}
      /\ open = AtPage(3) => el = "page" /\ open' = <<>>
  BY <1>1, EndsPart, PageParts
<1>4. /\ open \notin {AtRevision(0), AtRevision(1), AtRevision(2), AtRevision(3)}
      /\ open = AtRevision(4) => el = "revision" /\ open' = AtPage(3)
  BY <1>1, EndsPart, RevisionParts
<1>5. /\ open # AtContributor(0)
      /\ open = AtContributor(1) => el = "contributor" /\ open' = AtRevision(3)
  BY <1>1, EndsPart, ContributorParts
<1>6. \A name \in {"title", "id", "timestamp", "text"} :
          \A place \in Seq(Frames) :
              open = Inside(name, place) => el = name /\ open' = place
  BY EndsPart DEF ElementNames
<1>. QED BY <1>2, <1>3, <1>4, <1>5, <1>6

LEMMA StartTagWalks ==
    ASSUME WInv, NEW el, StartTag(el)
    PROVE  (InPage \/ InRevision)'
<1>1. /\ BeginsElement(el)
      /\ el # "page" => content' = content
      /\ open = <<>> => content' = Empty
  BY DEF StartTag, BeginsElement
<1>2. CASE Place(<<>>, "IN_DOCUMENT", {})
  <2>1. el = "page" /\ open' = AtPage(0)
    BY <1>1, <1>2, WalkBegins DEF Reading, Place
  <2>2. status' = "IN_PAGE"
    BY <1>2, <2>1 DEF StartTag, StatusAfterStart, Reading, Place
  <2>3. Reading(AtPage(0), "IN_PAGE", {})'
    BY <1>1, <1>2, <2>1, <2>2 DEF StartTag, Reading, Place, Empty
  <2>. QED BY <2>3 DEF InPage
<1>3. CASE Reading(AtPage(0), "IN_PAGE", {})
  <2>1. el = "title" /\ open' = Inside("title", AtPage(1))
    BY <1>1, <1>3, WalkBegins DEF Reading, Place
  <2>2. status' = "IN_PAGE_TITLE"
    BY <1>3, <2>1 DEF StartTag, StatusAfterStart, Reading, Place
  <2>3. Reading(Inside("title", AtPage(1)), "IN_PAGE_TITLE", {"title"})'
    BY <1>1, <1>3, <2>1, <2>2 DEF StartTag, Reading, Place
  <2>. QED BY <2>3 DEF InPage
<1>4. CASE Reading(AtPage(1), "IN_PAGE", {"title"})
  <2>1. el = "id" /\ open' = Inside("id", AtPage(2))
    BY <1>1, <1>4, WalkBegins DEF Reading, Place
  <2>2. status' = "IN_PAGE_ID"
    BY <1>4, <2>1 DEF StartTag, StatusAfterStart, Reading, Place
  <2>3. Reading(Inside("id", AtPage(2)), "IN_PAGE_ID", {"title"})'
    BY <1>1, <1>4, <2>1, <2>2 DEF StartTag, Reading, Place
  <2>. QED BY <2>3 DEF InPage
<1>5. CASE Reading(AtPage(2), "IN_PAGE", {"title"})
  <2>1. el = "revision" /\ open' = AtRevision(0)
    BY <1>1, <1>5, WalkBegins DEF Reading, Place
  <2>2. status' = "IN_PAGE_REVISION"
    BY <1>5, <2>1 DEF StartTag, StatusAfterStart, Reading, Place
  <2>3. Reading(AtRevision(0), "IN_PAGE_REVISION", {"title"})'
    BY <1>1, <1>5, <2>1, <2>2 DEF StartTag, Reading, Place
  <2>. QED BY <2>3 DEF InRevision
<1>6. CASE Reading(AtRevision(0), "IN_PAGE_REVISION", {"title"})
  <2>1. el = "id" /\ open' = Inside("id", AtRevision(1))
    BY <1>1, <1>6, WalkBegins DEF Reading, Place
  <2>2. status' = "IN_PAGE_REVISION"
    BY <1>6, <2>1 DEF StartTag, StatusAfterStart, Reading, Place
  <2>3. Reading(Inside("id", AtRevision(1)), "IN_PAGE_REVISION", {"title"})'
    BY <1>1, <1>6, <2>1, <2>2 DEF StartTag, Reading, Place
  <2>. QED BY <2>3 DEF InRevision
<1>7. CASE Reading(AtRevision(1), "IN_PAGE_REVISION", {"title"})
  <2>1. el = "timestamp" /\ open' = Inside("timestamp", AtRevision(2))
    BY <1>1, <1>7, WalkBegins DEF Reading, Place
  <2>2. status' = "IN_PAGE_REVISION_TIMESTAMP"
    BY <1>7, <2>1 DEF StartTag, StatusAfterStart, Reading, Place
  <2>3. Reading(Inside("timestamp", AtRevision(2)),
              "IN_PAGE_REVISION_TIMESTAMP", {"title", "timestamp"})'
    BY <1>1, <1>7, <2>1, <2>2 DEF StartTag, Reading, Place
  <2>. QED BY <2>3 DEF InRevision
<1>8. CASE Reading(AtRevision(2), "IN_PAGE_REVISION", {"title", "timestamp"})
  <2>1. el = "contributor" /\ open' = AtContributor(0)
    BY <1>1, <1>8, WalkBegins DEF Reading, Place
  <2>2. status' = "IN_PAGE_REVISION"
    BY <1>8, <2>1 DEF StartTag, StatusAfterStart, Reading, Place
  <2>3. Reading(AtContributor(0), "IN_PAGE_REVISION", {"title", "timestamp"})'
    BY <1>1, <1>8, <2>1, <2>2 DEF StartTag, Reading, Place
  <2>. QED BY <2>3 DEF InRevision
<1>9. CASE Reading(AtContributor(0),
                   "IN_PAGE_REVISION", {"title", "timestamp"})
  <2>1. el = "id" /\ open' = Inside("id", AtContributor(1))
    BY <1>1, <1>9, WalkBegins DEF Reading, Place
  <2>2. status' = "IN_PAGE_REVISION"
    BY <1>9, <2>1 DEF StartTag, StatusAfterStart, Reading, Place
  <2>3. Reading(Inside("id", AtContributor(1)),
              "IN_PAGE_REVISION", {"title", "timestamp"})'
    BY <1>1, <1>9, <2>1, <2>2 DEF StartTag, Reading, Place
  <2>. QED BY <2>3 DEF InRevision
<1>10. CASE Reading(AtRevision(3), "IN_PAGE_REVISION", {"title", "timestamp"})
  <2>1. el = "text" /\ open' = Inside("text", AtRevision(4))
    BY <1>1, <1>10, WalkBegins DEF Reading, Place
  <2>2. status' = "IN_PAGE_REVISION_TEXT"
    BY <1>10, <2>1 DEF StartTag, StatusAfterStart, Reading, Place
  <2>3. Reading(Inside("text", AtRevision(4)),
              "IN_PAGE_REVISION_TEXT", {"title", "timestamp", "body"})'
    BY <1>1, <1>10, <2>1, <2>2 DEF StartTag, Reading, Place
  <2>. QED BY <2>3 DEF InRevision
<1>11. open \notin {AtPage(3), AtRevision(4), AtContributor(1)} \cup Leaves
  BY <1>1, WalkBegins
<1>. QED
  BY <1>2, <1>3, <1>4, <1>5, <1>6, <1>7, <1>8, <1>9, <1>10, <1>11
     DEF WInv, InPage, InRevision, Reading, Place, Leaves

LEMMA EndTagWalks ==
    ASSUME WInv, NEW el, EndTagInside(el)
    PROVE  (InPage \/ InRevision)' /\ el # "text"
<1>1. EndsElement(el) /\ content' = content
  BY DEF EndTagInside, EndsElement
<1>2. CASE Reading(Inside("title", AtPage(1)), "IN_PAGE_TITLE", {"title"})
  <2>1. el = "title" /\ open' = AtPage(1)
    BY <1>1, <1>2, WalkEnds, PlacesAreStacks DEF Reading, Place
  <2>2. status' = "IN_PAGE"
    BY <1>2, <2>1 DEF EndTagInside, StatusAfterEnd, TextHasEnded, Reading, Place
  <2>3. Reading(AtPage(1), "IN_PAGE", {"title"})'
    BY <1>1, <1>2, <2>1, <2>2 DEF EndTagInside, Reading, Place
  <2>. QED BY <2>1, <2>3 DEF InPage
<1>3. CASE Reading(Inside("id", AtPage(2)), "IN_PAGE_ID", {"title"})
  <2>1. el = "id" /\ open' = AtPage(2)
    BY <1>1, <1>3, WalkEnds, PlacesAreStacks DEF Reading, Place
  <2>2. status' = "IN_PAGE"
    BY <1>3, <2>1 DEF EndTagInside, StatusAfterEnd, TextHasEnded, Reading, Place
  <2>3. Reading(AtPage(2), "IN_PAGE", {"title"})'
    BY <1>1, <1>3, <2>1, <2>2 DEF EndTagInside, Reading, Place
  <2>. QED BY <2>1, <2>3 DEF InPage
<1>4. CASE Place(AtPage(3), "IN_PAGE", {})
  <2>1. el = "page" /\ open' = <<>>
    BY <1>1, <1>4, WalkEnds DEF Reading, Place
  <2>2. status' = "IN_DOCUMENT"
    BY <1>4, <2>1 DEF EndTagInside, StatusAfterEnd, TextHasEnded, Reading, Place
  <2>3. Place(<<>>, "IN_DOCUMENT", {})'
    BY <1>1, <1>4, <2>1, <2>2 DEF EndTagInside, Reading, Place
  <2>. QED BY <2>1, <2>3 DEF InPage
<1>5. CASE Reading(Inside("id", AtRevision(1)), "IN_PAGE_REVISION", {"title"})
  <2>1. el = "id" /\ open' = AtRevision(1)
    BY <1>1, <1>5, WalkEnds, PlacesAreStacks DEF Reading, Place
  <2>2. status' = "IN_PAGE_REVISION"
    BY <1>5, <2>1 DEF EndTagInside, StatusAfterEnd, TextHasEnded, Reading, Place
  <2>3. Reading(AtRevision(1), "IN_PAGE_REVISION", {"title"})'
    BY <1>1, <1>5, <2>1, <2>2 DEF EndTagInside, Reading, Place
  <2>. QED BY <2>1, <2>3 DEF InRevision
<1>6. CASE Reading(Inside("timestamp", AtRevision(2)),
                   "IN_PAGE_REVISION_TIMESTAMP", {"title", "timestamp"})
  <2>1. el = "timestamp" /\ open' = AtRevision(2)
    BY <1>1, <1>6, WalkEnds, PlacesAreStacks DEF Reading, Place
  <2>2. status' = "IN_PAGE_REVISION"
    BY <1>6, <2>1 DEF EndTagInside, StatusAfterEnd, TextHasEnded, Reading, Place
  <2>3. Reading(AtRevision(2), "IN_PAGE_REVISION", {"title", "timestamp"})'
    BY <1>1, <1>6, <2>1, <2>2 DEF EndTagInside, Reading, Place
  <2>. QED BY <2>1, <2>3 DEF InRevision
<1>7. CASE Reading(Inside("id", AtContributor(1)),
                   "IN_PAGE_REVISION", {"title", "timestamp"})
  <2>1. el = "id" /\ open' = AtContributor(1)
    BY <1>1, <1>7, WalkEnds, PlacesAreStacks DEF Reading, Place
  <2>2. status' = "IN_PAGE_REVISION"
    BY <1>7, <2>1 DEF EndTagInside, StatusAfterEnd, TextHasEnded, Reading, Place
  <2>3. Reading(AtContributor(1), "IN_PAGE_REVISION", {"title", "timestamp"})'
    BY <1>1, <1>7, <2>1, <2>2 DEF EndTagInside, Reading, Place
  <2>. QED BY <2>1, <2>3 DEF InRevision
<1>8. CASE Reading(AtContributor(1),
                   "IN_PAGE_REVISION", {"title", "timestamp"})
  <2>1. el = "contributor" /\ open' = AtRevision(3)
    BY <1>1, <1>8, WalkEnds DEF Reading, Place
  <2>2. status' = "IN_PAGE_REVISION"
    BY <1>8, <2>1 DEF EndTagInside, StatusAfterEnd, TextHasEnded, Reading, Place
  <2>3. Reading(AtRevision(3), "IN_PAGE_REVISION", {"title", "timestamp"})'
    BY <1>1, <1>8, <2>1, <2>2 DEF EndTagInside, Reading, Place
  <2>. QED BY <2>1, <2>3 DEF InRevision
<1>9. CASE Place(AtRevision(4), "IN_PAGE_REVISION", {})
  <2>1. el = "revision" /\ open' = AtPage(3)
    BY <1>1, <1>9, WalkEnds DEF Reading, Place
  <2>2. status' = "IN_PAGE"
    BY <1>9, <2>1 DEF EndTagInside, StatusAfterEnd, TextHasEnded, Reading, Place
  <2>3. Place(AtPage(3), "IN_PAGE", {})'
    BY <1>1, <1>9, <2>1, <2>2 DEF EndTagInside, Reading, Place
  <2>. QED BY <2>1, <2>3 DEF InPage
<1>10. CASE Reading(Inside("text", AtRevision(4)),
                   "IN_PAGE_REVISION_TEXT", {"title", "timestamp", "body"})
  <2>1. el = "text"
    BY <1>1, <1>10, WalkEnds, PlacesAreStacks DEF Reading, Place
  <2>. QED BY <1>10, <2>1 DEF EndTagInside, TextHasEnded, Reading, Place
<1>11. open \notin {<<>>, AtPage(0), AtPage(1), AtPage(2), AtContributor(0)}
  BY <1>1, WalkEnds
<1>12. open \notin {AtRevision(0), AtRevision(1), AtRevision(2), AtRevision(3)}
  BY <1>1, WalkEnds
<1>. QED
  BY <1>2, <1>3, <1>4, <1>5, <1>6, <1>7, <1>8, <1>9, <1>10, <1>11, <1>12
     DEF WInv, InPage, InRevision, Reading, Place

-----------------------------------------------------------------------------
(***************************************************************************)
(* The text of the places.                                                 *)
(***************************************************************************)

Names(stack) == [i \in 1..Len(stack) |-> stack[i].name]

LEMMA NamesGrow ==
    ASSUME NEW rest \in Seq(Frames), NEW name \in ElementNames, NEW n \in Nat
    PROVE  /\ Names(Append(rest, Frame(name, n))) = Append(Names(rest), name)
           /\ Names(rest) \in Seq(ElementNames)
<1>1. /\ Frame(name, n) \in Frames /\ Frame(name, n).name = name
      /\ \A f \in Frames : f.name \in ElementNames
  BY FramesAre DEF Frames
<1>2. Append(rest, Frame(name, n)) \in Seq(Frames)
  BY <1>1
<1>3. /\ Names(rest) \in Seq(ElementNames) /\ Len(Names(rest)) = Len(rest)
      /\ \A i \in 1..Len(rest) : Names(rest)[i] = rest[i].name
  BY <1>1 DEF Names
<1>. QED BY <1>1, <1>2, <1>3 DEF Names

LEMMA Literals ==
    /\ <<"page">> = Append(<<>>, "page")
    /\ <<"page", "revision">> = Append(<<"page">>, "revision")
    /\ <<"page", "revision", "contributor">>
           = Append(<<"page", "revision">>, "contributor")
    /\ \A x : <<"page", x>> = Append(<<"page">>, x)
    /\ \A x : <<"page", "revision", x>> = Append(<<"page", "revision">>, x)
    /\ \A x : <<"page", "revision", "contributor", x>>
                  = Append(<<"page", "revision", "contributor">>, x)
<1>1. <<"page">> = Append(<<>>, "page")
  OBVIOUS
<1>2. <<"page", "revision">> = Append(<<"page">>, "revision")
  OBVIOUS
<1>3. <<"page", "revision", "contributor">>
           = Append(<<"page", "revision">>, "contributor")
  OBVIOUS
<1>4. \A x : <<"page", x>> = Append(<<"page">>, x)
  OBVIOUS
<1>5. \A x : <<"page", "revision", x>> = Append(<<"page", "revision">>, x)
  OBVIOUS
<1>6. \A x : <<"page", "revision", "contributor", x>>
                  = Append(<<"page", "revision", "contributor">>, x)
  OBVIOUS
<1>. QED BY <1>1, <1>2, <1>3, <1>4, <1>5, <1>6, Zenon

LEMMA PathsAre ==
    /\ <<"page", "title">> = Names(Inside("title", AtPage(1)))
    /\ <<"page", "id">> = Names(Inside("id", AtPage(2)))
    /\ <<"page", "revision", "id">> = Names(Inside("id", AtRevision(1)))
    /\ <<"page", "revision", "timestamp">>
           = Names(Inside("timestamp", AtRevision(2)))
    /\ <<"page", "revision", "contributor", "id">>
           = Names(Inside("id", AtContributor(1)))
    /\ <<"page", "revision", "text">> = Names(Inside("text", AtRevision(4)))
<1>1. ASSUME NEW place \in Seq(Frames), NEW el \in ElementNames
      PROVE  Names(Inside(el, place)) = Append(Names(place), el)
  BY <1>1, NamesGrow DEF Inside
<1>2. Names(<<>>) = <<>>
  BY DEF Names
<1>3. ASSUME NEW n \in Nat
      PROVE  <<"page">> = Names(AtPage(n))
  <2>1. Names(AtPage(n)) = Append(Names(<<>>), "page")
    BY NamesGrow, NamesAre, PlacesAreStacks, Zenon DEF AtPage, Page
  <2>. QED BY <1>2, <2>1, Literals
<1>4. ASSUME NEW n \in Nat
      PROVE  <<"page", "revision">> = Names(AtRevision(n))
  <2>1. Names(AtRevision(n)) = Append(Names(AtPage(3)), "revision")
    BY NamesGrow, NamesAre, PlacesAreStacks, Zenon DEF AtRevision, Revision
  <2>2. Names(AtPage(3)) = <<"page">>
    BY <1>3
  <2>. QED BY <2>1, <2>2, Literals
<1>5. ASSUME NEW n \in Nat
      PROVE  <<"page", "revision", "contributor">> = Names(AtContributor(n))
  <2>1. Names(AtContributor(n)) = Append(Names(AtRevision(3)), "contributor")
    BY NamesGrow, NamesAre, PlacesAreStacks, Zenon DEF AtContributor, Contributor
  <2>2. Names(AtRevision(3)) = <<"page", "revision">>
    BY <1>4
  <2>. QED BY <2>1, <2>2, Literals
<1>6. ASSUME NEW el \in {"title", "id", "timestamp", "text"}, NEW n \in Nat
      PROVE  /\ Names(Inside(el, AtPage(n))) = Append(Names(AtPage(n)), el)
             /\ Names(Inside(el, AtRevision(n))) = Append(Names(AtRevision(n)), el)
             /\ Names(Inside(el, AtContributor(n)))
                    = Append(Names(AtContributor(n)), el)
  BY <1>1, PlacesAreStacks DEF ElementNames
<1>7. ASSUME NEW el \in {"title", "id", "timestamp", "text"}, NEW n \in Nat
      PROVE  /\ <<"page", el>> = Names(Inside(el, AtPage(n)))
             /\ <<"page", "revision", el>> = Names(Inside(el, AtRevision(n)))
             /\ <<"page", "revision", "contributor", el>>
                    = Names(Inside(el, AtContributor(n)))
  <2>1. /\ Names(AtPage(n)) = <<"page">>
        /\ Names(AtRevision(n)) = <<"page", "revision">>
        /\ Names(AtContributor(n)) = <<"page", "revision", "contributor">>
    BY <1>3, <1>4, <1>5
  <2>2. <<"page", el>> = Append(<<"page">>, el)
    BY Literals
  <2>3. <<"page", "revision", el>> = Append(<<"page", "revision">>, el)
    BY Literals
  <2>4. <<"page", "revision", "contributor", el>>
            = Append(<<"page", "revision", "contributor">>, el)
    BY Literals
  <2>. QED BY <1>6, <2>1, <2>2, <2>3, <2>4
<1>. QED BY <1>7

LEMMA FieldsAre ==
    /\ DOMAIN Field = {<<"page", "title">>, <<"page", "revision", "text">>,
                       <<"page", "revision", "timestamp">>}
    /\ Field[<<"page", "title">>] = "title"
    /\ Field[<<"page", "revision", "text">>] = "body"
    /\ Field[<<"page", "revision", "timestamp">>] = "timestamp"
<1>1. /\ Last(<<"page", "title">>) = "title"
      /\ Last(<<"page", "revision", "text">>) = "text"
      /\ Last(<<"page", "revision", "timestamp">>) = "timestamp"
  BY DEF Last
<1>. QED BY <1>1 DEF Field

LEMMA OpenType == WInv => open \in Seq(Frames)
<1>1. Leaves \subseteq Seq(Frames)
  <2>1. \A el \in {"title", "id", "timestamp", "text"} : Frame(el, 0) \in Frames
    BY FramesAre DEF ElementNames
  <2>2. ASSUME NEW leaf \in Leaves PROVE leaf \in Seq(Frames)
    <3>1. PICK el \in {"title", "id", "timestamp", "text"} :
              \E place \in Seq(Frames) : leaf = Inside(el, place)
      BY LeavesAre
    <3>2. PICK place \in Seq(Frames) : leaf = Append(place, Frame(el, 0))
      BY <3>1 DEF Inside
    <3>3. Frame(el, 0) \in Frames
      BY <2>1
    <3>. HIDE DEF Frames
    <3>. QED BY <3>2, <3>3, AppendProperties
  <2>. QED BY <2>2
<1>2. WInv => \/ open \in Leaves \/ open = <<>>
              \/ \E n \in Nat : open \in {AtPage(n), AtRevision(n), AtContributor(n)}
  BY DEF WInv, InPage, InRevision, Reading, Place, Leaves
<1>. QED BY <1>1, <1>2, PlacesAreStacks

LEMMA PagesStay ==
    ASSUME WInv, NEW el, EndsElement(el), el # "text"
    PROVE  pages' = pages
<1>1. open \in Seq(Frames) /\ open # <<>> /\ el = Last(open).name
  BY OpenType DEF EndsElement
<1>2. Path[Len(open)] = el /\ Len(Path) = Len(open)
  BY <1>1 DEF Path, Last
<1>3. Path # <<"page", "revision", "text">>
  BY <1>2
<1>. QED BY <1>3 DEF EndsElement

\* The end of the text: the buffers hold the page that has been read.
LEMMA TextEnds ==
    ASSUME WInv, NEW el, EndTagOfText(el)
    PROVE  /\ pages' = Append(pages, content)
           /\ content' = content
           /\ [title |-> title, body |-> body, timestamp |-> timestamp] = content
           /\ (InPage \/ InRevision)'
<1>1. EndsElement(el) /\ TextHasEnded(el)
  BY DEF EndTagOfText
<1>2. Reading(Inside("text", AtRevision(4)), "IN_PAGE_REVISION_TEXT",
              {"title", "timestamp", "body"})
  <2>1. open # Inside("timestamp", AtRevision(2))
    BY <1>1, WalkEnds, PlacesAreStacks DEF TextHasEnded
  <2>. QED BY <1>1, <2>1 DEF TextHasEnded, WInv, InPage, InRevision, Reading, Place
<1>3. open' = AtRevision(4)
  BY <1>1, <1>2, WalkEnds, PlacesAreStacks DEF Reading, Place
<1>4. Path = <<"page", "revision", "text">>
  BY <1>2, PathsAre DEF Path, Names, Reading, Place
<1>5. pages' = Append(pages, content) /\ content' = content
  BY <1>1, <1>4 DEF EndsElement
<1>6. [title |-> title, body |-> body, timestamp |-> timestamp] = content
  BY <1>2 DEF WInv, Contents, Reading, Place
<1>7. Place(AtRevision(4), "IN_PAGE_REVISION", {})'
  BY <1>1, <1>3 DEF EndTagOfText, StatusAfterEnd, TextHasEnded, Place
<1>. QED BY <1>5, <1>6, <1>7 DEF InRevision

\* Text is in the leaves alone, and a piece of it is said at the path of the leaf.
LEMMA SaysAtLeaf ==
    ASSUME WInv, NEW piece, SaysText(piece)
    PROVE  /\ open # <<>>
           /\ \A n \in Nat :
                  open \notin {AtPage(n), AtRevision(n), AtContributor(n)}
           /\ content' = IF Names(open) \in DOMAIN Field
                         THEN [content EXCEPT ![Field[Names(open)]] = Append(@, piece)]
                         ELSE content
<1>1. open # <<>> /\ Last(open).name \notin DOMAIN Parts
  BY DEF SaysText
<1>2. ASSUME NEW rest \in Seq(Frames), NEW name \in {"page", "revision", "contributor"},
             NEW n \in Nat, open = Append(rest, Frame(name, n))
      PROVE  FALSE
  <2>1. name \in ElementNames /\ name \in DOMAIN Parts
    BY NamesAre, PartsAre
  <2>2. Last(open) = Frame(name, n)
    BY <1>2, <2>1, FramesAre, Stack
  <2>. QED BY <1>1, <2>1, <2>2, FramesAre
<1>3. ASSUME NEW n \in Nat
      PROVE  open \notin {AtPage(n), AtRevision(n), AtContributor(n)}
  BY <1>2, PlacesAreStacks DEF AtPage, AtRevision, AtContributor, Page, Revision,
                              Contributor
<1>4. Path = Names(open)
  BY DEF Path, Names
<1>. QED BY <1>1, <1>3, <1>4 DEF SaysText

LEMMA PieceFits ==
    /\ Empty \in Contents
    /\ \A said \in Contents, piece \in Pieces :
           /\ [said EXCEPT !.title = Append(@, piece)] \in Contents
           /\ [said EXCEPT !.body = Append(@, piece)] \in Contents
           /\ [said EXCEPT !.timestamp = Append(@, piece)] \in Contents
<1>1. <<>> \in Text /\ \A text \in Text, piece \in Pieces : Append(text, piece) \in Text
  BY DEF Text
<1>. QED BY <1>1 DEF Contents, Empty

LEMMA TextIsBuffered ==
    ASSUME WInv, NEW piece \in Pieces, ElementData(piece)
    PROVE  (InPage \/ InRevision)' /\ content' \in Contents
<1>1. SaysText(piece) /\ open' = open /\ content \in Contents
  BY DEF ElementData, SaysText, WInv
<1>2. CASE Reading(Inside("title", AtPage(1)), "IN_PAGE_TITLE", {"title"})
  <2>1. Names(open) = <<"page", "title">>
    BY <1>2, PathsAre DEF Reading, Place
  <2>2. content' = [content EXCEPT !.title = Append(@, piece)]
    BY <1>1, <2>1, SaysAtLeaf, FieldsAre
  <2>3. Reading(Inside("title", AtPage(1)), "IN_PAGE_TITLE", {"title"})'
    BY <1>1, <1>2, <2>2 DEF ElementData, Reading, Place, Contents
  <2>4. content' \in Contents
    BY <1>1, <2>2, PieceFits
  <2>. QED BY <2>3, <2>4 DEF InPage
<1>3. CASE Reading(Inside("id", AtPage(2)), "IN_PAGE_ID", {"title"})
  <2>1. Names(open) = <<"page", "id">>
    BY <1>3, PathsAre DEF Reading, Place
  <2>2. content' = content
    BY <1>1, <2>1, SaysAtLeaf, FieldsAre
  <2>3. Reading(Inside("id", AtPage(2)), "IN_PAGE_ID", {"title"})'
    BY <1>1, <1>3, <2>2 DEF ElementData, Reading, Place, Contents
  <2>4. content' \in Contents
    BY <1>1, <2>2, PieceFits
  <2>. QED BY <2>3, <2>4 DEF InPage
<1>4. CASE Reading(Inside("id", AtRevision(1)), "IN_PAGE_REVISION", {"title"})
  <2>1. Names(open) = <<"page", "revision", "id">>
    BY <1>4, PathsAre DEF Reading, Place
  <2>2. content' = content
    BY <1>1, <2>1, SaysAtLeaf, FieldsAre
  <2>3. Reading(Inside("id", AtRevision(1)), "IN_PAGE_REVISION", {"title"})'
    BY <1>1, <1>4, <2>2 DEF ElementData, Reading, Place, Contents
  <2>4. content' \in Contents
    BY <1>1, <2>2, PieceFits
  <2>. QED BY <2>3, <2>4 DEF InRevision
<1>5. CASE Reading(Inside("timestamp", AtRevision(2)),
                   "IN_PAGE_REVISION_TIMESTAMP", {"title", "timestamp"})
  <2>1. Names(open) = <<"page", "revision", "timestamp">>
    BY <1>5, PathsAre DEF Reading, Place
  <2>2. content' = [content EXCEPT !.timestamp = Append(@, piece)]
    BY <1>1, <2>1, SaysAtLeaf, FieldsAre
  <2>3. Reading(Inside("timestamp", AtRevision(2)),
              "IN_PAGE_REVISION_TIMESTAMP", {"title", "timestamp"})'
    BY <1>1, <1>5, <2>2 DEF ElementData, Reading, Place, Contents
  <2>4. content' \in Contents
    BY <1>1, <2>2, PieceFits
  <2>. QED BY <2>3, <2>4 DEF InRevision
<1>6. CASE Reading(Inside("id", AtContributor(1)),
                   "IN_PAGE_REVISION", {"title", "timestamp"})
  <2>1. Names(open) = <<"page", "revision", "contributor", "id">>
    BY <1>6, PathsAre DEF Reading, Place
  <2>2. content' = content
    BY <1>1, <2>1, SaysAtLeaf, FieldsAre
  <2>3. Reading(Inside("id", AtContributor(1)),
              "IN_PAGE_REVISION", {"title", "timestamp"})'
    BY <1>1, <1>6, <2>2 DEF ElementData, Reading, Place, Contents
  <2>4. content' \in Contents
    BY <1>1, <2>2, PieceFits
  <2>. QED BY <2>3, <2>4 DEF InRevision
<1>7. CASE Reading(Inside("text", AtRevision(4)),
                   "IN_PAGE_REVISION_TEXT", {"title", "timestamp", "body"})
  <2>1. Names(open) = <<"page", "revision", "text">>
    BY <1>7, PathsAre DEF Reading, Place
  <2>2. content' = [content EXCEPT !.body = Append(@, piece)]
    BY <1>1, <2>1, SaysAtLeaf, FieldsAre
  <2>3. Reading(Inside("text", AtRevision(4)),
              "IN_PAGE_REVISION_TEXT", {"title", "timestamp", "body"})'
    BY <1>1, <1>7, <2>2 DEF ElementData, Reading, Place, Contents
  <2>4. content' \in Contents
    BY <1>1, <2>2, PieceFits
  <2>. QED BY <2>3, <2>4 DEF InRevision
<1>8. open # <<>> /\ \A n \in Nat :
           open \notin {AtPage(n), AtRevision(n), AtContributor(n)}
  BY <1>1, SaysAtLeaf
<1>. QED
  BY <1>2, <1>3, <1>4, <1>5, <1>6, <1>7, <1>8
     DEF WInv, InPage, InRevision, Reading, Place

-----------------------------------------------------------------------------
(***************************************************************************)
(* The invariant.                                                          *)
(***************************************************************************)

\* What is wanted of one page more.
LEMMA WantedGrows ==
    ASSUME NEW read \in Seq(Contents), NEW page \in Contents,
           max_article_count \in Limits
    PROVE  Wanted(Append(read, page)) =
               IF max_article_count < 0 \/ Len(read) < max_article_count
               THEN Append(read, page)
               ELSE Wanted(read)
<1>1. max_article_count \in Int
  BY LimitsAssumption
<1>2. CASE max_article_count < 0 \/ Len(read) < max_article_count
  BY <1>1, <1>2 DEF Wanted
<1>3. CASE max_article_count >= 0 /\ max_article_count <= Len(read)
  <2>1. Wanted(Append(read, page)) = SubSeq(Append(read, page), 1, max_article_count)
    BY <1>1, <1>3 DEF Wanted
  <2>2. SubSeq(Append(read, page), 1, max_article_count)
            = SubSeq(read, 1, max_article_count)
    BY <1>1, <1>3
  <2>3. max_article_count = Len(read) => SubSeq(read, 1, max_article_count) = read
    BY <1>1, <1>3
  <2>4. Wanted(read) = SubSeq(read, 1, max_article_count)
    BY <1>1, <1>3, <2>3 DEF Wanted
  <2>5. ~ (max_article_count < 0 \/ Len(read) < max_article_count)
    BY <1>1, <1>3
  <2>. QED BY <2>1, <2>2, <2>4, <2>5
<1>. QED BY <1>1, <1>2, <1>3

LEMMA InitInvariant == Init => WInv
<1>. SUFFICES ASSUME Init PROVE WInv
  OBVIOUS
<1>1. content \in Contents
  BY PieceFits DEF Init
<1>2. pages = <<>> /\ Len(pages) = 0 /\ pages \in Seq(Contents)
  BY DEF Init
<1>3. given = Wanted(pages)
  BY <1>2, LimitsAssumption DEF Init, Wanted
<1>4. InPage
  BY DEF Init, InPage, Place
<1>. QED BY <1>1, <1>2, <1>3, <1>4 DEF Init, WInv

LEMMA NextInvariant == WInv /\ [Next]_vars => WInv'
<1>. SUFFICES ASSUME WInv, [Next]_vars PROVE WInv'
  OBVIOUS
<1>1. ASSUME NEW el, StartTag(el) PROVE WInv'
  <2>1. (InPage \/ InRevision)'
    BY <1>1, StartTagWalks
  <2>2. UNCHANGED <<pages, article_count, max_article_count, given, rc>> /\ rc = -1
    BY <1>1 DEF StartTag, BeginsElement
  <2>3. content' \in Contents
    BY <1>1, PieceFits DEF StartTag, BeginsElement, WInv
  <2>. QED BY <2>1, <2>2, <2>3 DEF WInv, Wanted
<1>2. ASSUME NEW el, EndTagInside(el) PROVE WInv'
  <2>1. (InPage \/ InRevision)' /\ el # "text"
    BY <1>2, EndTagWalks, Zenon
  <2>2. pages' = pages
    BY <1>2, <2>1, PagesStay DEF EndTagInside
  <2>3. UNCHANGED <<content, article_count, max_article_count, given, rc>> /\ rc = -1
    BY <1>2 DEF EndTagInside, EndsElement
  <2>. QED BY <2>1, <2>2, <2>3 DEF WInv, Wanted
<1>3. ASSUME NEW el, EndTagOfText(el) PROVE WInv'
  <2>1. /\ pages' = Append(pages, content)
        /\ content' = content
        /\ [title |-> title, body |-> body, timestamp |-> timestamp] = content
        /\ (InPage \/ InRevision)'
    BY <1>3, TextEnds
  <2>2. /\ given' = IF IsWanted THEN Append(given, content) ELSE given
        /\ article_count' = article_count + 1
        /\ UNCHANGED <<max_article_count, rc>> /\ rc = -1
    BY <1>3, <2>1 DEF EndTagOfText
  <2>3. Wanted(Append(pages, content)) =
            IF IsWanted THEN Append(pages, content) ELSE Wanted(pages)
    BY WantedGrows DEF WInv, IsWanted
  <2>4. IsWanted => Wanted(pages) = pages
    BY LimitsAssumption DEF IsWanted, Wanted, WInv
  <2>5. given' = Wanted(pages)'
    BY <2>1, <2>2, <2>3, <2>4 DEF WInv, Wanted
  <2>. QED BY <2>1, <2>2, <2>5 DEF WInv
<1>4. ASSUME NEW piece \in Pieces, ElementData(piece) PROVE WInv'
  <2>1. (InPage \/ InRevision)' /\ content' \in Contents
    BY <1>4, TextIsBuffered
  <2>2. UNCHANGED <<pages, article_count, max_article_count, given, rc>> /\ rc = -1
    BY <1>4 DEF ElementData, SaysText
  <2>. QED BY <2>1, <2>2 DEF WInv, Wanted
<1>5. ASSUME BufferEnds \/ FileEnds \/ ReadFails \/ ParseFails PROVE WInv'
  <2>1. UNCHANGED <<file, parser, given>>
    BY <1>5 DEF BufferEnds, FileEnds, ReadFails, ParseFails, Returns
  <2>2. rc' \in {0, 3, 4} /\ (rc' = 0 => open = <<>> \/ EnoughRead)
    BY <1>5 DEF BufferEnds, FileEnds, ReadFails, ParseFails, Returns
  <2>3. (InPage \/ InRevision)'
    BY <2>1 DEF WInv, InPage, InRevision, Reading, Place, file, parser
  <2>. QED BY <2>1, <2>2, <2>3 DEF WInv, Wanted, EnoughRead, file, parser
<1>6. CASE UNCHANGED vars
  <2>1. (InPage \/ InRevision)'
    BY <1>6 DEF WInv, InPage, InRevision, Reading, Place, vars, file, parser
  <2>. QED BY <1>6, <2>1 DEF WInv, Wanted, EnoughRead, vars, file, parser
<1>. QED BY <1>1, <1>2, <1>3, <1>4, <1>5, <1>6 DEF Next

\* The parser is at one of the places of the walk, takes it for what WInv says
\* it does, and has in its buffers what the page has said (start, end,
\* element_data).
THEOREM Invariance == Spec => []WInv
BY InitInvariant, NextInvariant, PTL DEF Spec

-----------------------------------------------------------------------------
(***************************************************************************)
(* Which elements have begun at each place, and which it is in.            *)
(***************************************************************************)

BegunIn(stack, name) ==
    \E i \in DOMAIN stack :
        /\ stack[i].name \in DOMAIN Parts
        /\ \E k \in 1..stack[i].read : Parts[stack[i].name][k] = name

LEMMA BegunGrows ==
    ASSUME NEW rest \in Seq(Frames), NEW el \in ElementNames, NEW n \in Nat, NEW name
    PROVE  BegunIn(Append(rest, Frame(el, n)), name) <=>
               \/ BegunIn(rest, name)
               \/ /\ el \in DOMAIN Parts
                  /\ \E k \in 1..n : Parts[el][k] = name
<1>. DEFINE top == Frame(el, n)
            stack == Append(rest, top)
<1>1. top \in Frames /\ top.name = el /\ top.read = n
  BY FramesAre DEF Frame
<1>2. /\ DOMAIN stack = DOMAIN rest \cup {Len(rest) + 1}
      /\ \A i \in DOMAIN rest : stack[i] = rest[i]
      /\ stack[Len(rest) + 1] = top
  BY <1>1
<1>. HIDE DEF stack, top
<1>. QED BY <1>1, <1>2 DEF BegunIn, stack, top

LEMMA BegunAtPage ==
    ASSUME NEW n \in 0..3
    PROVE  /\ BegunIn(AtPage(n), "title") <=> n >= 1
           /\ BegunIn(AtPage(n), "revision") <=> n = 3
           /\ ~ BegunIn(AtPage(n), "timestamp")
           /\ ~ BegunIn(AtPage(n), "text")
<1>1. ~ BegunIn(<<>>, "title") /\ ~ BegunIn(<<>>, "revision")
      /\ ~ BegunIn(<<>>, "timestamp") /\ ~ BegunIn(<<>>, "text")
  BY DEF BegunIn
<1>2. \A name : BegunIn(AtPage(n), name) <=>
          BegunIn(<<>>, name) \/ \E k \in 1..n : Parts["page"][k] = name
  <2>1. n \in Nat /\ "page" \in DOMAIN Parts
    BY PartsAre
  <2>2. <<>> \in Seq(Frames) /\ "page" \in ElementNames
    BY NamesAre, PlacesAreStacks
  <2>3. \A name : BegunIn(Append(<<>>, Frame("page", n)), name) <=>
            \/ BegunIn(<<>>, name)
            \/ /\ "page" \in DOMAIN Parts
               /\ \E k \in 1..n : Parts["page"][k] = name
    BY <2>1, <2>2, BegunGrows
  <2>. QED BY <2>1, <2>3 DEF AtPage, Page
<1>3. /\ Parts["page"][1] = "title" /\ Parts["page"][2] = "id"
      /\ Parts["page"][3] = "revision"
  BY PartsAre
<1>. QED BY <1>1, <1>2, <1>3

LEMMA BegunAtRevision ==
    ASSUME NEW n \in 0..4
    PROVE  /\ BegunIn(AtRevision(n), "title")
           /\ BegunIn(AtRevision(n), "revision")
           /\ BegunIn(AtRevision(n), "timestamp") <=> n >= 2
           /\ BegunIn(AtRevision(n), "text") <=> n = 4
<1>1. \A name : BegunIn(AtRevision(n), name) <=>
          BegunIn(AtPage(3), name) \/ \E k \in 1..n : Parts["revision"][k] = name
  <2>1. n \in Nat /\ "revision" \in DOMAIN Parts
    BY PartsAre
  <2>2. AtPage(3) \in Seq(Frames) /\ "revision" \in ElementNames
    BY NamesAre, PlacesAreStacks
  <2>3. \A name : BegunIn(Append(AtPage(3), Frame("revision", n)), name) <=>
            \/ BegunIn(AtPage(3), name)
            \/ /\ "revision" \in DOMAIN Parts
               /\ \E k \in 1..n : Parts["revision"][k] = name
    BY <2>1, <2>2, BegunGrows
  <2>. QED BY <2>1, <2>3 DEF AtRevision, Revision
<1>2. /\ Parts["revision"][1] = "id" /\ Parts["revision"][2] = "timestamp"
      /\ Parts["revision"][3] = "contributor" /\ Parts["revision"][4] = "text"
  BY PartsAre
<1>. QED BY <1>1, <1>2, BegunAtPage

LEMMA BegunAtContributor ==
    ASSUME NEW n \in 0..1
    PROVE  /\ BegunIn(AtContributor(n), "title")
           /\ BegunIn(AtContributor(n), "revision")
           /\ BegunIn(AtContributor(n), "timestamp")
           /\ ~ BegunIn(AtContributor(n), "text")
<1>1. \A name : BegunIn(AtContributor(n), name) <=>
          \/ BegunIn(AtRevision(3), name)
          \/ \E k \in 1..n : Parts["contributor"][k] = name
  <2>1. n \in Nat /\ "contributor" \in DOMAIN Parts
    BY PartsAre
  <2>2. AtRevision(3) \in Seq(Frames) /\ "contributor" \in ElementNames
    BY NamesAre, PlacesAreStacks
  <2>3. \A name : BegunIn(Append(AtRevision(3), Frame("contributor", n)), name) <=>
            \/ BegunIn(AtRevision(3), name)
            \/ /\ "contributor" \in DOMAIN Parts
               /\ \E k \in 1..n : Parts["contributor"][k] = name
    BY <2>1, <2>2, BegunGrows
  <2>. QED BY <2>1, <2>3 DEF AtContributor, Contributor
<1>2. Parts["contributor"][1] = "id"
  BY PartsAre
<1>. QED BY <1>1, <1>2, BegunAtRevision

LEMMA BegunInside ==
    ASSUME NEW place \in Seq(Frames), NEW name,
           NEW el \in {"title", "id", "timestamp", "text"}
    PROVE  BegunIn(Inside(el, place), name) <=> BegunIn(place, name)
BY BegunGrows, PartsAre DEF Inside, ElementNames

\* Inside an element without parts the same elements have begun.
LEMMA BegunInsidePlaces ==
    ASSUME NEW el \in {"title", "id", "timestamp", "text"}, NEW name
    PROVE  /\ \A n \in 0..3 :
                  BegunIn(Inside(el, AtPage(n)), name) <=> BegunIn(AtPage(n), name)
           /\ \A n \in 0..4 : BegunIn(Inside(el, AtRevision(n)), name)
                                   <=> BegunIn(AtRevision(n), name)
           /\ \A n \in 0..1 : BegunIn(Inside(el, AtContributor(n)), name)
                                   <=> BegunIn(AtContributor(n), name)
<1>1. \A n \in Nat : /\ AtPage(n) \in Seq(Frames)
                    /\ AtRevision(n) \in Seq(Frames)
                    /\ AtContributor(n) \in Seq(Frames)
  BY PlacesAreStacks
<1>2. \A place \in Seq(Frames) :
          BegunIn(Inside(el, place), name) <=> BegunIn(place, name)
  BY BegunInside
<1>3. \A n \in 0..4 : n \in Nat
  OBVIOUS
<1>4. \A n \in 0..3 : n \in Nat
  OBVIOUS
<1>5. \A n \in 0..1 : n \in Nat
  OBVIOUS
<1>. QED BY <1>1, <1>2, <1>3, <1>4, <1>5

\* The elements that are open.
LEMMA Opened ==
    ASSUME NEW rest \in Seq(Frames), NEW el \in ElementNames, NEW n \in Nat
    PROVE  Range(Names(Append(rest, Frame(el, n)))) = Range(Names(rest)) \cup {el}
<1>1. Names(Append(rest, Frame(el, n))) = Append(Names(rest), el)
  BY NamesGrow
<1>2. Names(rest) \in Seq(ElementNames)
  BY NamesGrow
<1>. QED BY <1>1, <1>2 DEF Range

LEMMA OpenAt ==
    /\ Range(Names(<<>>)) = {}
    /\ \A n \in Nat :
           /\ Range(Names(AtPage(n))) = {"page"}
           /\ Range(Names(AtRevision(n))) = {"page", "revision"}
           /\ Range(Names(AtContributor(n))) = {"page", "revision", "contributor"}
    /\ \A place \in Seq(Frames) : \A el \in {"title", "id", "timestamp", "text"} :
           Range(Names(Inside(el, place))) = Range(Names(place)) \cup {el}
<1>1. Range(Names(<<>>)) = {}
  BY DEF Names, Range
<1>2. ASSUME NEW n \in Nat
      PROVE  Range(Names(AtPage(n))) = {"page"}
  <2>1. Range(Names(AtPage(n))) = Range(Names(<<>>)) \cup {"page"}
    BY Opened, NamesAre, PlacesAreStacks, Zenon DEF AtPage, Page
  <2>. QED BY <1>1, <2>1
<1>3. ASSUME NEW n \in Nat
      PROVE  Range(Names(AtRevision(n))) = {"page", "revision"}
  <2>1. Range(Names(AtRevision(n))) = Range(Names(AtPage(3))) \cup {"revision"}
    BY Opened, NamesAre, PlacesAreStacks, Zenon DEF AtRevision, Revision
  <2>. QED BY <1>2, <2>1
<1>4. ASSUME NEW n \in Nat
      PROVE  Range(Names(AtContributor(n))) = {"page", "revision", "contributor"}
  <2>1. Range(Names(AtContributor(n))) = Range(Names(AtRevision(3))) \cup {"contributor"}
    BY Opened, NamesAre, PlacesAreStacks, Zenon DEF AtContributor, Contributor
  <2>. QED BY <1>3, <2>1
<1>5. ASSUME NEW place \in Seq(Frames), NEW el \in {"title", "id", "timestamp", "text"}
      PROVE  Range(Names(Inside(el, place))) = Range(Names(place)) \cup {el}
  BY Opened DEF Inside, ElementNames
<1>. QED BY <1>1, <1>2, <1>3, <1>4, <1>5

LEMMA OpenInside ==
    ASSUME NEW n \in Nat, NEW el \in {"title", "id", "timestamp", "text"}
    PROVE  /\ Range(Names(Inside(el, AtPage(n)))) = {"page", el}
           /\ Range(Names(Inside(el, AtRevision(n)))) = {"page", "revision", el}
           /\ Range(Names(Inside(el, AtContributor(n))))
                  = {"page", "revision", "contributor", el}
<1>1. /\ AtPage(n) \in Seq(Frames) /\ AtRevision(n) \in Seq(Frames)
      /\ AtContributor(n) \in Seq(Frames)
  BY PlacesAreStacks
<1>2. /\ Range(Names(Inside(el, AtPage(n)))) = {"page"} \cup {el}
      /\ Range(Names(Inside(el, AtRevision(n)))) = {"page", "revision"} \cup {el}
      /\ Range(Names(Inside(el, AtContributor(n))))
             = {"page", "revision", "contributor"} \cup {el}
  BY <1>1, OpenAt, Zenon
<1>. QED BY <1>2

LEMMA BuffersFollow == WInv => BuffersFollowThePage
<1>. SUFFICES ASSUME WInv PROVE BuffersFollowThePage
  OBVIOUS
<1>1. content.title # NULL /\ content.timestamp # NULL /\ content.body # NULL
  BY NullAssumption DEF WInv, Contents, Text
<1>2. \A name : /\ HasBegun(name) <=> BegunIn(open, name)
                /\ Within(name) <=> name \in Range(Names(open))
  BY DEF HasBegun, BegunIn, Within, Path, Names
<1>3. CASE Place(<<>>, "IN_DOCUMENT", {})
  <2>0. open = <<>>
    BY <1>3 DEF Reading, Place
  <2>1. /\ ~ HasBegun("title") /\ ~ HasBegun("timestamp")
        /\ ~ HasBegun("revision") /\ ~ HasBegun("text")
    BY <1>2, <1>3 DEF Reading, Place, BegunIn
  <2>2. ~ Within("revision") /\ ~ Within("text")
    BY <1>2, <2>0, OpenAt
  <2>. QED
    BY <1>1, <1>3, <2>1, <2>2 DEF BuffersFollowThePage, TextHasBeenRead, Reading, Place
<1>4. CASE Reading(AtPage(0), "IN_PAGE", {})
  <2>0. open = AtPage(0)
    BY <1>4 DEF Reading, Place
  <2>1. /\ ~ HasBegun("title") /\ ~ HasBegun("timestamp")
        /\ ~ HasBegun("revision") /\ ~ HasBegun("text")
    BY <1>2, <2>0, BegunAtPage
  <2>2. ~ Within("revision") /\ ~ Within("text")
    BY <1>2, <2>0, OpenAt
  <2>. QED
    BY <1>1, <1>4, <2>1, <2>2 DEF BuffersFollowThePage, TextHasBeenRead, Reading, Place
<1>5. CASE Reading(Inside("title", AtPage(1)), "IN_PAGE_TITLE", {"title"})
  <2>0. open = Inside("title", AtPage(1))
    BY <1>5 DEF Reading, Place
  <2>3. \A name : HasBegun(name) <=> BegunIn(AtPage(1), name)
    BY <1>2, <2>0, BegunInsidePlaces
  <2>1. /\ HasBegun("title") /\ ~ HasBegun("timestamp")
        /\ ~ HasBegun("revision") /\ ~ HasBegun("text")
    BY <2>3, BegunAtPage
  <2>2. ~ Within("revision") /\ ~ Within("text")
    BY <1>2, <2>0, OpenInside
  <2>. QED
    BY <1>1, <1>5, <2>1, <2>2 DEF BuffersFollowThePage, TextHasBeenRead, Reading, Place
<1>6. CASE Reading(AtPage(1), "IN_PAGE", {"title"})
  <2>0. open = AtPage(1)
    BY <1>6 DEF Reading, Place
  <2>1. /\ HasBegun("title") /\ ~ HasBegun("timestamp")
        /\ ~ HasBegun("revision") /\ ~ HasBegun("text")
    BY <1>2, <2>0, BegunAtPage
  <2>2. ~ Within("revision") /\ ~ Within("text")
    BY <1>2, <2>0, OpenAt
  <2>. QED
    BY <1>1, <1>6, <2>1, <2>2 DEF BuffersFollowThePage, TextHasBeenRead, Reading, Place
<1>7. CASE Reading(Inside("id", AtPage(2)), "IN_PAGE_ID", {"title"})
  <2>0. open = Inside("id", AtPage(2))
    BY <1>7 DEF Reading, Place
  <2>3. \A name : HasBegun(name) <=> BegunIn(AtPage(2), name)
    BY <1>2, <2>0, BegunInsidePlaces
  <2>1. /\ HasBegun("title") /\ ~ HasBegun("timestamp")
        /\ ~ HasBegun("revision") /\ ~ HasBegun("text")
    BY <2>3, BegunAtPage
  <2>2. ~ Within("revision") /\ ~ Within("text")
    BY <1>2, <2>0, OpenInside
  <2>. QED
    BY <1>1, <1>7, <2>1, <2>2 DEF BuffersFollowThePage, TextHasBeenRead, Reading, Place
<1>8. CASE Reading(AtPage(2), "IN_PAGE", {"title"})
  <2>0. open = AtPage(2)
    BY <1>8 DEF Reading, Place
  <2>1. /\ HasBegun("title") /\ ~ HasBegun("timestamp")
        /\ ~ HasBegun("revision") /\ ~ HasBegun("text")
    BY <1>2, <2>0, BegunAtPage
  <2>2. ~ Within("revision") /\ ~ Within("text")
    BY <1>2, <2>0, OpenAt
  <2>. QED
    BY <1>1, <1>8, <2>1, <2>2 DEF BuffersFollowThePage, TextHasBeenRead, Reading, Place
<1>9. CASE Place(AtPage(3), "IN_PAGE", {})
  <2>0. open = AtPage(3)
    BY <1>9 DEF Reading, Place
  <2>1. /\ HasBegun("title") /\ ~ HasBegun("timestamp")
        /\ HasBegun("revision") /\ ~ HasBegun("text")
    BY <1>2, <2>0, BegunAtPage
  <2>2. ~ Within("revision") /\ ~ Within("text")
    BY <1>2, <2>0, OpenAt
  <2>. QED
    BY <1>1, <1>9, <2>1, <2>2 DEF BuffersFollowThePage, TextHasBeenRead, Reading, Place
<1>10. CASE Reading(AtRevision(0), "IN_PAGE_REVISION", {"title"})
  <2>0. open = AtRevision(0)
    BY <1>10 DEF Reading, Place
  <2>1. /\ HasBegun("title") /\ ~ HasBegun("timestamp")
        /\ HasBegun("revision") /\ ~ HasBegun("text")
    BY <1>2, <2>0, BegunAtRevision
  <2>2. Within("revision") /\ ~ Within("text")
    BY <1>2, <2>0, OpenAt
  <2>. QED
    BY <1>1, <1>10, <2>1, <2>2 DEF BuffersFollowThePage, TextHasBeenRead, Reading, Place
<1>11. CASE Reading(Inside("id", AtRevision(1)), "IN_PAGE_REVISION", {"title"})
  <2>0. open = Inside("id", AtRevision(1))
    BY <1>11 DEF Reading, Place
  <2>3. \A name : HasBegun(name) <=> BegunIn(AtRevision(1), name)
    BY <1>2, <2>0, BegunInsidePlaces
  <2>1. /\ HasBegun("title") /\ ~ HasBegun("timestamp")
        /\ HasBegun("revision") /\ ~ HasBegun("text")
    BY <2>3, BegunAtRevision
  <2>2. Within("revision") /\ ~ Within("text")
    BY <1>2, <2>0, OpenInside
  <2>. QED
    BY <1>1, <1>11, <2>1, <2>2 DEF BuffersFollowThePage, TextHasBeenRead, Reading, Place
<1>12. CASE Reading(AtRevision(1), "IN_PAGE_REVISION", {"title"})
  <2>0. open = AtRevision(1)
    BY <1>12 DEF Reading, Place
  <2>1. /\ HasBegun("title") /\ ~ HasBegun("timestamp")
        /\ HasBegun("revision") /\ ~ HasBegun("text")
    BY <1>2, <2>0, BegunAtRevision
  <2>2. Within("revision") /\ ~ Within("text")
    BY <1>2, <2>0, OpenAt
  <2>. QED
    BY <1>1, <1>12, <2>1, <2>2 DEF BuffersFollowThePage, TextHasBeenRead, Reading, Place
<1>13. CASE Reading(Inside("timestamp", AtRevision(2)),
                   "IN_PAGE_REVISION_TIMESTAMP", {"title", "timestamp"})
  <2>0. open = Inside("timestamp", AtRevision(2))
    BY <1>13 DEF Reading, Place
  <2>3. \A name : HasBegun(name) <=> BegunIn(AtRevision(2), name)
    BY <1>2, <2>0, BegunInsidePlaces
  <2>1. /\ HasBegun("title") /\ HasBegun("timestamp")
        /\ HasBegun("revision") /\ ~ HasBegun("text")
    BY <2>3, BegunAtRevision
  <2>2. Within("revision") /\ ~ Within("text")
    BY <1>2, <2>0, OpenInside
  <2>. QED
    BY <1>1, <1>13, <2>1, <2>2 DEF BuffersFollowThePage, TextHasBeenRead, Reading, Place
<1>14. CASE Reading(AtRevision(2), "IN_PAGE_REVISION", {"title", "timestamp"})
  <2>0. open = AtRevision(2)
    BY <1>14 DEF Reading, Place
  <2>1. /\ HasBegun("title") /\ HasBegun("timestamp")
        /\ HasBegun("revision") /\ ~ HasBegun("text")
    BY <1>2, <2>0, BegunAtRevision
  <2>2. Within("revision") /\ ~ Within("text")
    BY <1>2, <2>0, OpenAt
  <2>. QED
    BY <1>1, <1>14, <2>1, <2>2 DEF BuffersFollowThePage, TextHasBeenRead, Reading, Place
<1>15. CASE Reading(AtContributor(0),
                   "IN_PAGE_REVISION", {"title", "timestamp"})
  <2>0. open = AtContributor(0)
    BY <1>15 DEF Reading, Place
  <2>1. /\ HasBegun("title") /\ HasBegun("timestamp")
        /\ HasBegun("revision") /\ ~ HasBegun("text")
    BY <1>2, <2>0, BegunAtContributor
  <2>2. Within("revision") /\ ~ Within("text")
    BY <1>2, <2>0, OpenAt
  <2>. QED
    BY <1>1, <1>15, <2>1, <2>2 DEF BuffersFollowThePage, TextHasBeenRead, Reading, Place
<1>16. CASE Reading(Inside("id", AtContributor(1)),
                   "IN_PAGE_REVISION", {"title", "timestamp"})
  <2>0. open = Inside("id", AtContributor(1))
    BY <1>16 DEF Reading, Place
  <2>3. \A name : HasBegun(name) <=> BegunIn(AtContributor(1), name)
    BY <1>2, <2>0, BegunInsidePlaces
  <2>1. /\ HasBegun("title") /\ HasBegun("timestamp")
        /\ HasBegun("revision") /\ ~ HasBegun("text")
    BY <2>3, BegunAtContributor
  <2>2. Within("revision") /\ ~ Within("text")
    BY <1>2, <2>0, OpenInside
  <2>. QED
    BY <1>1, <1>16, <2>1, <2>2 DEF BuffersFollowThePage, TextHasBeenRead, Reading, Place
<1>17. CASE Reading(AtContributor(1),
                   "IN_PAGE_REVISION", {"title", "timestamp"})
  <2>0. open = AtContributor(1)
    BY <1>17 DEF Reading, Place
  <2>1. /\ HasBegun("title") /\ HasBegun("timestamp")
        /\ HasBegun("revision") /\ ~ HasBegun("text")
    BY <1>2, <2>0, BegunAtContributor
  <2>2. Within("revision") /\ ~ Within("text")
    BY <1>2, <2>0, OpenAt
  <2>. QED
    BY <1>1, <1>17, <2>1, <2>2 DEF BuffersFollowThePage, TextHasBeenRead, Reading, Place
<1>18. CASE Reading(AtRevision(3), "IN_PAGE_REVISION", {"title", "timestamp"})
  <2>0. open = AtRevision(3)
    BY <1>18 DEF Reading, Place
  <2>1. /\ HasBegun("title") /\ HasBegun("timestamp")
        /\ HasBegun("revision") /\ ~ HasBegun("text")
    BY <1>2, <2>0, BegunAtRevision
  <2>2. Within("revision") /\ ~ Within("text")
    BY <1>2, <2>0, OpenAt
  <2>. QED
    BY <1>1, <1>18, <2>1, <2>2 DEF BuffersFollowThePage, TextHasBeenRead, Reading, Place
<1>19. CASE Reading(Inside("text", AtRevision(4)),
                   "IN_PAGE_REVISION_TEXT", {"title", "timestamp", "body"})
  <2>0. open = Inside("text", AtRevision(4))
    BY <1>19 DEF Reading, Place
  <2>3. \A name : HasBegun(name) <=> BegunIn(AtRevision(4), name)
    BY <1>2, <2>0, BegunInsidePlaces
  <2>1. /\ HasBegun("title") /\ HasBegun("timestamp")
        /\ HasBegun("revision") /\ HasBegun("text")
    BY <2>3, BegunAtRevision
  <2>2. Within("revision") /\ Within("text")
    BY <1>2, <2>0, OpenInside
  <2>. QED
    BY <1>1, <1>19, <2>1, <2>2 DEF BuffersFollowThePage, TextHasBeenRead, Reading, Place
<1>20. CASE Place(AtRevision(4), "IN_PAGE_REVISION", {})
  <2>0. open = AtRevision(4)
    BY <1>20 DEF Reading, Place
  <2>1. /\ HasBegun("title") /\ HasBegun("timestamp")
        /\ HasBegun("revision") /\ HasBegun("text")
    BY <1>2, <2>0, BegunAtRevision
  <2>2. Within("revision") /\ ~ Within("text")
    BY <1>2, <2>0, OpenAt
  <2>. QED
    BY <1>1, <1>20, <2>1, <2>2 DEF BuffersFollowThePage, TextHasBeenRead, Reading, Place
<1>. QED
  BY <1>3, <1>4, <1>5, <1>6, <1>7, <1>8, <1>9, <1>10, <1>11,
     <1>12, <1>13, <1>14, <1>15, <1>16, <1>17, <1>18, <1>19, <1>20 DEF WInv, InPage, InRevision

-----------------------------------------------------------------------------
\* For any dump and any limit: every document given to the callback is a page
\* with the whole of its own title, timestamp and text, and no page before the
\* limit is left out or given twice (start, end, element_data).
THEOREM DocumentsArePages == Spec => []PagesAreGivenWhole
<1>1. WInv => PagesAreGivenWhole
  BY DEF WInv, PagesAreGivenWhole
<1>. QED BY <1>1, Invariance, PTL

\* For any dump and any limit: loading succeeds only between two pages of the
\* dump or with as many documents as were asked for (load_wikipedia_dump).
THEOREM SuccessIsEnough == Spec => []SuccessIsComplete
<1>1. WInv => SuccessIsComplete
  <2>. SUFFICES ASSUME WInv, rc = 0, open # <<>>
                PROVE  Len(given) = max_article_count
    BY DEF SuccessIsComplete
  <2>1. /\ max_article_count \in Nat
        /\ max_article_count <= Len(pages)
        /\ pages \in Seq(Contents)
    BY LimitsAssumption DEF WInv, EnoughRead
  <2>2. CASE max_article_count < Len(pages)
    <3>1. given = SubSeq(pages, 1, max_article_count)
      BY <2>1, <2>2 DEF WInv, Wanted
    <3>. QED BY <2>1, <2>2, <3>1
  <2>3. CASE max_article_count = Len(pages)
    BY <2>1, <2>3 DEF WInv, Wanted
  <2>. QED BY <2>1, <2>2, <2>3
<1>. QED BY <1>1, Invariance, PTL

\* For any dump: a buffer exists exactly from the start tag of its element to
\* the end of the text of the page (utstring_new, utstring_free).
THEOREM BuffersAlwaysFollowThePage == Spec => []BuffersFollowThePage
BY BuffersFollow, Invariance, PTL

=============================================================================
