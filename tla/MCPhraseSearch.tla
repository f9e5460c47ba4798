-------------------------- MODULE MCPhraseSearch ----------------------------
(***************************************************************************)
(* Phrases of up to three tokens over documents with four positions.  The  *)
(* query positions of a phrase come in any order: the tokens are sorted by *)
(* their docs_count.                                                       *)
(***************************************************************************)
EXTENDS PhraseSearch

MCBases == {<<0>>, <<0, 1>>, <<1, 0>>, <<1, 2, 0>>, <<0, 2, 1>>}

MCPositionLists ==
    {<<>>, <<0>>, <<2>>, <<0, 1>>, <<1, 3>>, <<0, 2, 3>>, <<0, 1, 2, 3>>}

=============================================================================
