------------------------------ MODULE Tokenizer ------------------------------
(***************************************************************************)
(* How a text is split into tokens (token.c:74-128, 252-293).              *)
(*                                                                         *)
(* A word of latin letters is one token; of the other characters every one *)
(* begins a token, which takes in up to N characters; some characters only *)
(* separate.  Tokens are counted as they are found, and the count is the   *)
(* position under which a token is stored.  A document keeps all of its    *)
(* tokens, a query only those with at least N characters.                  *)
(*                                                                         *)
(* The module splits a document and then a query that is an excerpt of it, *)
(* with the same loop.  Both arrive as UTF-8, are split as UTF-32, and     *)
(* their tokens are stored and looked up as UTF-8 again.                   *)
(*                                                                         *)
(* Its names leave room for those of PhraseSearch: PhraseProofs reasons    *)
(* about both.                                                             *)
(***************************************************************************)
EXTENDS Utf8, FiniteSets

CONSTANTS
    N,           \* env->token_len, N_GRAM
    Latin,       \* the letters of wiser_isalpha
    Ignored,     \* the characters of wiser_is_ignored_char
    Other,       \* all other characters
    Encoding,    \* the UTF-8 of each character
    Texts        \* the documents

Characters == Latin \cup Ignored \cup Other

(***************************************************************************)
(* UTF-8 by RFC 3629: the bits of a character are in the first byte, and   *)
(* six by six in the bytes behind it, and there are as few of them as can  *)
(* be.                                                                     *)
(***************************************************************************)
\* u is made of the bits of z and of six more.
Extended(u, z, six) == z \in Nat /\ six \in 0..63 /\ u = z * 64 + six

InOneByte(bytes, u) == u < 2^7 /\ bytes = <<u>>

InTwoBytes(bytes, u) ==
    /\ 2^7 <= u /\ u < 2^11
    /\ \E a \in 0..31, b \in 0..63 :
           Extended(u, a, b) /\ bytes = <<192 + a, 128 + b>>

InThreeBytes(bytes, u) ==
    /\ 2^11 <= u /\ u < 2^16
    /\ \E a \in 0..15, b, c \in 0..63 :
           /\ Extended(u, a * 64 + b, c)
           /\ bytes = <<224 + a, 128 + b, 128 + c>>

InFourBytes(bytes, u) ==
    /\ 2^16 <= u /\ u < 17 * 2^16
    /\ \E a \in 0..7, b, c, d \in 0..63 :
           /\ Extended(u, (a * 64 + b) * 64 + c, d)
           /\ bytes = <<240 + a, 128 + b, 128 + c, 128 + d>>

IsEncoding(bytes, u) ==
    /\ u \in Nat
    /\ \/ InOneByte(bytes, u) \/ InTwoBytes(bytes, u)
       \/ InThreeBytes(bytes, u) \/ InFourBytes(bytes, u)

ASSUME TokenLengthAssumption == N \in Nat \ {0}

ASSUME CharactersAssumption ==
    /\ Latin \cap Ignored = {}
    /\ (Latin \cup Ignored) \cap Other = {}
    /\ DOMAIN Encoding = Characters
    /\ \A u \in Characters : IsEncoding(Encoding[u], u)
    /\ \A s \in Texts : s \in Seq(Characters)

VARIABLES
    document,  \* the text of a document
    query,     \* the text of a query
    text,      \* what the scan is given, as UTF-32
    from,      \* where the query is taken from the document
    t,         \* the index the scan has reached
    position,  \* tokens found so far
    posted,    \* the tokens of the document: [position, token]
    asked,     \* the tokens of the query: [position, token]
    phase      \* "document", "query" or "done"

splitVars == <<document, query, text, from, t, position, posted, asked, phase>>

\* What the program is given for a text.
Bytes(characters) == Concatenated([i \in 1..Len(characters) |-> Encoding[characters[i]]])

SplitInit ==
    /\ document \in Texts
    /\ \E i, j \in 1..Len(document) :
           /\ i <= j
           /\ from = i
           /\ query = SubSeq(document, i, j)
    /\ text = utf8toutf32(Bytes(document))
    /\ t = 1
    /\ position = 0
    /\ posted = {}
    /\ asked = {}
    /\ phase = "document"

-----------------------------------------------------------------------------
(***************************************************************************)
(* ngram_next.  At the end of the text the code looks at one character     *)
(* past it; whatever it sees there, the token it returns is empty.         *)
(***************************************************************************)
FirstFrom(i, characters) ==
    CHOOSE j \in i..(Len(text) + 1) :
        /\ j = Len(text) + 1 \/ text[j] \in characters
        /\ \A k \in i..(j - 1) : text[k] \notin characters

Start == FirstFrom(t, Characters \ Ignored)

AtWord == text[Start] \in Latin

\* One past the last character of the token.
End ==
    IF AtWord THEN FirstFrom(Start, Characters \ Latin)
    ELSE LET run == FirstFrom(Start, Characters \ Other)
         IN  IF run < Start + N THEN run ELSE Start + N

\* Slip: the next token begins where this one ends.
FollowingDisjoint == End

Following == IF AtWord THEN End ELSE Start + 1

Token == SubSeq(text, Start, End - 1)

-----------------------------------------------------------------------------
\* t_8, of which t_8_size bytes are taken: without the 0, for which the buffer has
\* no room.
TokenBytes == SubSeq(utf32toutf8(Token), 1, uchar2utf8_size(Token))

Found == [position |-> position, token |-> TokenBytes]

IsKept == Len(Token) >= N \/ phase = "document"

\* Slip: only the tokens that are kept are counted.
NextTokenCountingKept ==
    /\ phase \in {"document", "query"}
    /\ Start <= Len(text)
    /\ posted' = IF phase = "document" THEN posted \cup {Found} ELSE posted
    /\ asked' = IF phase = "query" /\ IsKept THEN asked \cup {Found} ELSE asked
    /\ t' = Following
    /\ position' = IF IsKept THEN position + 1 ELSE position
    /\ UNCHANGED <<document, query, text, from, phase>>

NextToken ==
    /\ phase \in {"document", "query"}
    /\ Start <= Len(text)
    /\ posted' = IF phase = "document" THEN posted \cup {Found} ELSE posted
    /\ asked' = IF phase = "query" /\ IsKept THEN asked \cup {Found} ELSE asked
    /\ t' = Following
    /\ position' = position + 1
    /\ UNCHANGED <<document, query, text, from, phase>>

TextEnds ==
    /\ phase \in {"document", "query"}
    /\ Start > Len(text)
    /\ text' = utf8toutf32(Bytes(query))
    /\ t' = 1
    /\ position' = 0
    /\ phase' = IF phase = "document" THEN "query" ELSE "done"
    /\ UNCHANGED <<document, query, from, posted, asked>>

SplitNext == NextToken \/ TextEnds

SplitSpec == SplitInit /\ [][SplitNext]_splitVars

-----------------------------------------------------------------------------
\* The excerpt neither begins nor ends inside a word.
WordsAreWhole ==
    LET last == from + Len(query) - 1
        Joined(i) == /\ i \in 1..(Len(document) - 1)
                     /\ {document[i], document[i + 1]} \subseteq Latin
    IN  ~ Joined(from - 1) /\ ~ Joined(last)

(***************************************************************************)
(* A phrase search for an excerpt finds the text it was taken from: all    *)
(* tokens of the query are tokens of the document, and their positions     *)
(* differ by the same number, although the two texts are cut at different  *)
(* places and the query drops its short tokens (text_to_postings_lists,    *)
(* search_phrase).                                                         *)
(***************************************************************************)
ExcerptIsFound ==
    phase = "done" /\ WordsAreWhole =>
        \E shift \in 0..Len(document) : \A x \in asked :
            [position |-> x.position + shift, token |-> x.token] \in posted

(***************************************************************************)
(* Every character that does not only separate can be searched for: each   *)
(* pair of neighbours among the other characters is in one token, and each *)
(* word is a token (ngram_next).                                           *)
(***************************************************************************)
HasToken(characters) == \E x \in posted : x.token = Bytes(characters)

EverythingIsIndexed ==
    phase = "done" =>
        \A i, j \in 1..Len(document) :
            /\ i <= j
            /\ \/ /\ \A k \in i..j : document[k] \in Other
                  /\ j - i + 1 = N
               \/ /\ \A k \in i..j : document[k] \in Latin
                  /\ i = 1 \/ document[i - 1] \notin Latin
                  /\ j = Len(document) \/ document[j + 1] \notin Latin
            => HasToken(SubSeq(document, i, j))

(***************************************************************************)
(* Nothing else is indexed: a token is a piece of the text, byte by byte,  *)
(* never part of a character, whatever the number of bytes of its          *)
(* characters, and the buffer it is converted in is as long as the token,  *)
(* without the 0 behind it (util.c:130-206, 256-288, token.c:270).         *)
(***************************************************************************)
TokensArePieces ==
    phase = "done" =>
        \A x \in posted : \E i, j \in 1..Len(document) :
            /\ i <= j
            /\ x.token = Bytes(SubSeq(document, i, j))
            /\ Len(x.token) = uchar2utf8_size(SubSeq(document, i, j))

=============================================================================
