-------------------------------- MODULE Utf8 --------------------------------
(***************************************************************************)
(* The conversions of util.c between UTF-8 and UTF-32.  A character is a   *)
(* code point, a text a sequence of them, a string a sequence of bytes.    *)
(* Masks and shifts are remainders and quotients.                          *)
(***************************************************************************)
EXTENDS Integers, Sequences

\* uchar2utf8_size, of one character.
Size(u) ==
    IF u < \h800
    THEN IF u < \h80 THEN 1 ELSE 2
    ELSE IF u < \h10000 THEN 3 ELSE 4

\* The six bits that follow the first n of u, as a byte behind the first one.
Continuation(u, n) == 128 + ((u \div 64 ^ n) % 64)

\* utf32toutf8, of one character: the thresholds are written down once more.
ToUtf8(u) ==
    IF u < \h800
    THEN IF u < \h80 THEN <<u>>
         ELSE <<192 + ((u \div 64) % 32), Continuation(u, 0)>>
    ELSE IF u < \h10000
         THEN <<224 + ((u \div 64 ^ 2) % 16), Continuation(u, 1), Continuation(u, 0)>>
         ELSE <<240 + ((u \div 64 ^ 3) % 8), Continuation(u, 2), Continuation(u, 1),
                Continuation(u, 0)>>

Concatenated(parts) ==
    LET all[n \in 0..Len(parts)] == IF n = 0 THEN <<>> ELSE all[n - 1] \o parts[n]
    IN  all[Len(parts)]

\* With the 0 that it writes behind the last character.
utf32toutf8(text) == Append(Concatenated([i \in 1..Len(text) |-> ToUtf8(text[i])]), 0)

uchar2utf8_size(text) ==
    LET size[n \in 0..Len(text)] == IF n = 0 THEN 0 ELSE size[n - 1] + Size(text[n])
    IN  size[Len(text)]

\* utf8_skip_table; 0 for a byte that begins no character, which ends the program.
Skip(byte) ==
    IF byte < \h80 THEN 1
    ELSE IF byte < \hC0 THEN 0
    ELSE IF byte < \hE0 THEN 2
    ELSE IF byte < \hF0 THEN 3
    ELSE IF byte < \hF8 THEN 4
    ELSE IF byte < \hFC THEN 5
    ELSE IF byte < \hFE THEN 6
    ELSE 0

\* The last six bits of the bytes behind a first one, put behind its bits.
WithContinuations(first, bytes) ==
    LET u[n \in 0..Len(bytes)] == IF n = 0 THEN first ELSE u[n - 1] * 64 + (bytes[n] % 64)
    IN  u[Len(bytes)]

\* Slip: one bit too few is taken from the first byte.
CharacterAtNarrow(string, n) ==
    LET skip == Skip(string[n])
    IN  IF skip = 1 THEN string[n]
        ELSE WithContinuations(string[n] % 2 ^ (6 - skip),
                               SubSeq(string, n + 1, n + skip - 1))

\* The character whose first byte is the n-th: its last 7 - skip bits, and six
\* bits of each byte behind it.
CharacterAt(string, n) ==
    LET skip == Skip(string[n])
    IN  IF skip = 1 THEN string[n]
        ELSE WithContinuations(string[n] % 2 ^ (7 - skip),
                               SubSeq(string, n + 1, n + skip - 1))

\* One round of the loop of utf8toutf32, which reads the byte at scan.at.
OneMoreRead(string, scan) ==
    IF scan.at > Len(string) THEN scan
    ELSE [text |-> Append(scan.text, CharacterAt(string, scan.at)),
          at |-> scan.at + Skip(string[scan.at])]

utf8toutf32(string) ==
    LET scan[n \in 0..Len(string)] ==
            IF n = 0 THEN [text |-> <<>>, at |-> 1] ELSE OneMoreRead(string, scan[n - 1])
    IN  scan[Len(string)].text

=============================================================================
