--------------------------- MODULE MCPostingsCodec ---------------------------
(***************************************************************************)
(* Positions for which the Golomb parameter of a document is 1 (two ways), *)
(* 3 (two ways), 5 and 13, and whose codes fill a byte or end inside one;  *)
(* five documents give the parameter of the list the values 1 to 5.        *)
(* Integers have one byte, which holds all of them.                        *)
(***************************************************************************)
EXTENDS PostingsCodec

MCPositionSets == {{0}, {0, 2, 3}, {2}, {1, 6}, {4, 9}, {12}}

=============================================================================
