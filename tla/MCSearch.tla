------------------------------ MODULE MCSearch ------------------------------
(***************************************************************************)
(* A small instance of Search for TLC.  The bodies make the lists of a and *)
(* b end in, begin with and skip different documents; c is too short to be *)
(* searched for.  The queries have one token, a token that occurs twice, a *)
(* short token between two others, and nothing but a short token.          *)
(***************************************************************************)
EXTENDS Search

CONSTANTS a, b, c

MCTokens == {a, b, c}
MCShortTokens == {c}
MCBodies == {<<a>>, <<b>>, <<b, c, a>>, <<a, b, a>>}
MCQueries == {<<a>>, <<a, b, a>>, <<b, c, a>>, <<c>>}

=============================================================================
