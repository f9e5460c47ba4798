---------------------------- MODULE MCWikiLoad --------------------------------
(***************************************************************************)
(* Dumps of up to two pages with up to two pieces of text each, loaded     *)
(* with no limit and with limits below, at and above the number of pages.  *)
(***************************************************************************)
EXTENDS WikiLoad

CONSTANTS a, b

MCPieces == {a, b}
MCLimits == {-1, 0, 1, 2, 3}

=============================================================================
