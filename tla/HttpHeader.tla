----------------------------- MODULE HttpHeader -----------------------------
(***************************************************************************)
(* The part of handle_read of http_load that reads the header of a         *)
(* response one character at a time, until the empty line.                 *)
(*                                                                         *)
(* Letters stand for both cases, "x" for every other character, " " also   *)
(* for a tab.  The fourteen states of the code that count the letters of   *)
(* "Content-Length:" are one state, NAME, and the number of them.          *)
(***************************************************************************)
EXTENDS Naturals, Integers, Sequences, SequencesExt

Name == <<"c", "o", "n", "t", "e", "n", "t", "-", "l", "e", "n", "g", "t", "h", ":">>

Digits == [d \in {"0", "1", "2"} |-> CASE d = "0" -> 0 [] d = "1" -> 1 [] d = "2" -> 2]

IsDigit(ch) == ch \in DOMAIN Digits

IsBreak(ch) == ch \in {"CR", "LF"}

\* The states behind an end of line, and where a further CR or LF leads.
Breaks ==
    [LF     |-> [LF |-> "END",  CR |-> "CR"],
     CR     |-> [LF |-> "CRLF", CR |-> "END"],
     CRLF   |-> [LF |-> "END",  CR |-> "CRLFCR"],
     CRLFCR |-> [LF |-> "END",  CR |-> "END"]]

\* conn_state is HEADERS until header_state is END here.
NoHeader ==
    [state |-> "PROTOCOL", matched |-> 0, status |-> -1, length |-> -1, bytes |-> 0]

To(p, state) == [p EXCEPT !.state = state, !.matched = 0]

\* A character that does not continue what was expected.
Otherwise(p, ch) == To(p, IF IsBreak(ch) THEN ch ELSE "TEXT")

FirstLine(p, ch) ==
    CASE p.state = "PROTOCOL" /\ ch = " " -> To(p, "WHITESPACE")
      [] p.state = "PROTOCOL" /\ ch # " " /\ ~ IsBreak(ch) -> p
      [] p.state = "WHITESPACE" /\ ch = " " -> p
      [] p.state = "WHITESPACE" /\ IsDigit(ch) ->
             [To(p, "STATUS") EXCEPT !.status = Digits[ch]]
      [] p.state = "STATUS" /\ IsDigit(ch) -> [p EXCEPT !.status = @ * 10 + Digits[ch]]
      [] OTHER -> Otherwise(p, ch)

\* Slip: a CR LF pair is taken for an empty line.
LineBeginPairs(p, ch) ==
    IF IsBreak(ch) THEN To(p, IF ch = "LF" THEN "END" ELSE Breaks[p.state][ch])
    ELSE IF ch = "c" THEN [To(p, "NAME") EXCEPT !.matched = 1]
    ELSE To(p, "TEXT")

LineBegin(p, ch) ==
    IF IsBreak(ch) THEN To(p, Breaks[p.state][ch])
    ELSE IF ch = "c" THEN [To(p, "NAME") EXCEPT !.matched = 1]
    ELSE To(p, "TEXT")

InName(p, ch) ==
    IF p.matched < Len(Name) /\ ch = Name[p.matched + 1]
    THEN [p EXCEPT !.matched = @ + 1]
    ELSE IF p.matched = Len(Name) /\ ch = " " THEN To(p, "VALUE")
    ELSE Otherwise(p, ch)

\* The blanks in front of the number, then its digits.
InValue(p, ch) ==
    CASE p.state = "VALUE" /\ ch = " " -> p
      [] IsDigit(ch) -> [To(p, "NUM") EXCEPT
             !.length = (IF p.state = "VALUE" THEN 0 ELSE @ * 10) + Digits[ch]]
      [] OTHER -> Otherwise(p, ch)

\* One round of the loop over the characters; what follows the empty line is
\* the body.
Character(p, ch) ==
    CASE p.state = "END" -> [p EXCEPT !.bytes = @ + 1]
      [] p.state \in {"PROTOCOL", "WHITESPACE", "STATUS"} -> FirstLine(p, ch)
      [] p.state = "TEXT" -> Otherwise(p, ch)
      [] p.state \in DOMAIN Breaks -> LineBegin(p, ch)
      [] p.state = "NAME" -> InName(p, ch)
      [] p.state \in {"VALUE", "NUM"} -> InValue(p, ch)

\* The loop over the characters that were read.
Header(p, text) ==
    LET after[n \in 0..Len(text)] == IF n = 0 THEN p ELSE Character(after[n - 1], text[n])
    IN  after[Len(text)]

-----------------------------------------------------------------------------
(***************************************************************************)
(* What a header says, by its lines: the reference for the above.  All     *)
(* lines of a text end in the same way.                                    *)
(***************************************************************************)
At(text, n, word) ==
    /\ n >= 1
    /\ n + Len(word) - 1 <= Len(text)
    /\ SubSeq(text, n, n + Len(word) - 1) = word

EmptyLines(text, ending) ==
    {n \in 1..Len(text) : At(text, n - Len(ending) + 1, ending)
                          /\ At(text, n - 2 * Len(ending) + 1, ending)}

HeaderEnds(text, ending) == EmptyLines(text, ending) # {}

HeaderLength(text, ending) == Min(EmptyLines(text, ending))

LineStarts(header, ending) ==
    {n \in 2..Len(header) : At(header, n - Len(ending), ending)}

\* The number that follows the position n, blanks skipped.
NumberFrom(header, n) ==
    LET first == Min({k \in n..Len(header) : header[k] # " "})
        end == Min({k \in first..Len(header) : ~ IsDigit(header[k])})
    IN  FoldLeft(LAMBDA v, d : v * 10 + Digits[d], 0, SubSeq(header, first, end - 1))

HasNumberFrom(header, n) ==
    \E k \in n + 1..Len(header) :
        /\ IsDigit(header[k])
        /\ \A j \in n..k - 1 : header[j] = " "

LengthLines(header, ending) ==
    {n \in LineStarts(header, ending) :
        At(header, n, Name) /\ HasNumberFrom(header, n + Len(Name))}

\* The last Content-Length with a blank and a number counts.
SaidLength(header, ending) ==
    LET lines == LengthLines(header, ending)
    IN  IF lines = {} THEN -1 ELSE NumberFrom(header, Max(lines) + Len(Name))

SaidStatus(header) ==
    LET blank == Min({n \in 1..Len(header) : header[n] \in {" ", "CR", "LF"}})
    IN  IF HasNumberFrom(header, blank) THEN NumberFrom(header, blank) ELSE -1

=============================================================================
