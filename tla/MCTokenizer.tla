---------------------------- MODULE MCTokenizer ------------------------------
(***************************************************************************)
(* Texts of up to five characters over a latin letter, an ideographic      *)
(* space, and two characters that are encoded in two and in four bytes;    *)
(* and shorter ones over the first and last characters of each length of   *)
(* encoding; with all their excerpts.                                      *)
(***************************************************************************)
EXTENDS Tokenizer

MCLatin == {\h7A}
MCIgnored == {\h3000}
MCOther == {\h7F, \h80, \h7FF, \h800, \hFFFF, \h10000, \h10FFFF}

MCEncoding ==
    [u \in MCLatin \cup MCIgnored \cup MCOther |->
        CASE u = \h7A     -> <<\h7A>>
          [] u = \h7F     -> <<\h7F>>
          [] u = \h80     -> <<\hC2, \h80>>
          [] u = \h7FF    -> <<\hDF, \hBF>>
          [] u = \h800    -> <<\hE0, \hA0, \h80>>
          [] u = \h3000   -> <<\hE3, \h80, \h80>>
          [] u = \hFFFF   -> <<\hEF, \hBF, \hBF>>
          [] u = \h10000  -> <<\hF0, \h90, \h80, \h80>>
          [] u = \h10FFFF -> <<\hF4, \h8F, \hBF, \hBF>>]

TextsOver(characters, length) == UNION {[1..n -> characters] : n \in 0..length}

MCTexts ==
    TextsOver({\h7A, \h3000, \h7FF, \h10000}, 5) \cup TextsOver(MCOther, 3)

=============================================================================
