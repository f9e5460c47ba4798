------------------------------ MODULE Postings ------------------------------
(***************************************************************************)
(* Postings lists (postings.c, wiser.h:14-20).                             *)
(*                                                                         *)
(* A postings list is the sequence of postings the C code links together;  *)
(* a posting names a document and the positions at which one token occurs  *)
(* in it.  The positions array only ever grows by a larger position        *)
(* (token.c:268, 234), so it is the set of its members.                    *)
(***************************************************************************)
EXTENDS Integers, Sequences, FiniteSets

Posting == [doc : Nat, pos : SUBSET Nat]

\* The zero-based positions at which token occurs in body.
Positions(body, token) == {i - 1 : i \in {j \in 1..Len(body) : body[j] = token}}

Occurs(token, body) == \E i \in 1..Len(body) : body[i] = token

PostingsIn(list) == {list[i] : i \in 1..Len(list)}

DocsIn(list) == {list[i].doc : i \in 1..Len(list)}

\* The order that every reader of a list relies on.
Ascending(list) ==
    \A i, j \in 1..Len(list) : i < j => list[i].doc < list[j].doc

(***************************************************************************)
(* merge_postings: two ascending lists are linked into one ascending list; *)
(* on equal document numbers the postings of pa come first.  FromA(pa, pb, *)
(* i) is where the i-th posting of pa ends up: after its predecessors in   *)
(* pa and after the postings of pb with a smaller document number.         *)
(***************************************************************************)
FromA(pa, pb, i) ==
    i + Cardinality({j \in 1..Len(pb) : pb[j].doc < pa[i].doc})

FromB(pa, pb, j) ==
    j + Cardinality({i \in 1..Len(pa) : pa[i].doc <= pb[j].doc})

\* Slip: the added list is linked in front without comparing the numbers.
MergeInFront(pa, pb) == pb \o pa

Merge(pa, pb) ==
    [k \in 1..(Len(pa) + Len(pb)) |->
        IF \E i \in 1..Len(pa) : FromA(pa, pb, i) = k
        THEN pa[CHOOSE i \in 1..Len(pa) : FromA(pa, pb, i) = k]
        ELSE pb[CHOOSE j \in 1..Len(pb) : FromB(pa, pb, j) = k]]

=============================================================================
