---------------------------- MODULE MCIndexBuild ----------------------------
(***************************************************************************)
(* Small instances of IndexBuild for TLC.                                  *)
(***************************************************************************)
EXTENDS IndexBuild

CONSTANTS d1, d2, d3, a, b

MCTitles == {d1, d2, d3}
MCTwoTitles == {d1, d2}
MCTokens == {a, b}

\* No token, one token, two occurrences around another one.
MCBodies == {<<>>, <<a>>, <<b, a, b>>}
MCTwoBodies == {<<a>>, <<a, b>>}

MCNoTokens == {}
MCNoTitles == {}
MCRejectedTitles == {d2}

\* Of the tokens one is short and loses updates; of the titles one comes
\* again, one is refused, and one is neither.
MCFaultBodies == {<<>>, <<b>>, <<b, a, b>>}
MCRefusedTokens == {a}
MCRepeatedTitles == {d1}

=============================================================================
