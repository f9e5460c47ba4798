---------------------------- MODULE PhraseSearch ----------------------------
(***************************************************************************)
(* search_phrase: how often a phrase occurs in one document.               *)
(*                                                                         *)
(* There is one cursor for every position of the query.  A cursor knows    *)
(* the position base of its token in the query and walks over the          *)
(* positions of the token in the document.  The phrase starts at r where   *)
(* every cursor k has the position base[k] + r.                            *)
(***************************************************************************)
EXTENDS Integers, Sequences, FiniteSets

CONSTANTS
    Bases,          \* the sequences of query positions, one per cursor
    PositionLists   \* the ascending sequences of positions in a document

ASSUME BasesAssumption ==
    \A bases \in Bases : bases \in Seq(Nat) /\ Len(bases) > 0

ASSUME PositionListsAssumption ==
    \A list \in PositionLists :
        /\ list \in Seq(Nat)
        /\ \A i, j \in 1..Len(list) : i < j => list[i] < list[j]

VARIABLES
    base,       \* cur->base
    positions,  \* cur->positions
    at,         \* cur->current: an index, one past the end for NULL
    rel,        \* rel_position
    inner,      \* the cursor of the for loop
    next,       \* next_rel_position
    count,      \* phrase_count
    pc          \* "round", "compare", "decide", "skip" or "exit"

vars == <<base, positions, at, rel, inner, next, count, pc>>

Cursors == 1..Len(base)

AtEnd(k) == at[k] > Len(positions[k])

\* The offset of cursor k: where the phrase would start.
Offset(k) == positions[k][at[k]] - base[k]

IsBefore(k, r) == ~ AtEnd(k) /\ Offset(k) < r

Init ==
    /\ base \in Bases
    /\ positions \in [1..Len(base) -> PositionLists]
    /\ at = [k \in 1..Len(base) |-> 1]
    /\ rel = 0
    /\ inner = 1
    /\ next = 0
    /\ count = 0
    /\ pc = "round"

\* while (cursors[0].current)
BeginRound ==
    /\ pc = "round"
    /\ ~ AtEnd(1)
    /\ rel' = Offset(1)
    /\ next' = Offset(1)
    /\ inner' = 2
    /\ pc' = "compare"
    /\ UNCHANGED <<base, positions, at, count>>

FirstExhausted ==
    /\ pc = "round"
    /\ AtEnd(1)
    /\ pc' = "exit"
    /\ UNCHANGED <<base, positions, at, rel, inner, next, count>>

\* The other cursors move up to the offset of the first one.
SkipOther ==
    /\ pc = "compare"
    /\ inner \in Cursors
    /\ IsBefore(inner, rel)
    /\ at' = [at EXCEPT ![inner] = @ + 1]
    /\ UNCHANGED <<base, positions, rel, inner, next, count, pc>>

OtherExhausted ==
    /\ pc = "compare"
    /\ inner \in Cursors
    /\ AtEnd(inner)
    /\ pc' = "exit"
    /\ UNCHANGED <<base, positions, at, rel, inner, next, count>>

OtherAgrees ==
    /\ pc = "compare"
    /\ inner \in Cursors
    /\ ~ AtEnd(inner)
    /\ Offset(inner) = rel
    /\ inner' = inner + 1
    /\ UNCHANGED <<base, positions, at, rel, next, count, pc>>

OtherIsAhead ==
    /\ pc = "compare"
    /\ inner \in Cursors
    /\ ~ AtEnd(inner)
    /\ Offset(inner) > rel
    /\ next' = Offset(inner)
    /\ pc' = "decide"
    /\ UNCHANGED <<base, positions, at, rel, inner, count>>

AllCompared ==
    /\ pc = "compare"
    /\ inner \notin Cursors
    /\ pc' = "decide"
    /\ UNCHANGED <<base, positions, at, rel, inner, next, count>>

\* Slip: the first cursor is moved here and once more at the end of the loop.
PhraseFoundMovingTwice ==
    /\ pc = "decide"
    /\ next <= rel
    /\ count' = count + 1
    /\ at' = [at EXCEPT ![1] = @ + 2]
    /\ pc' = "round"
    /\ UNCHANGED <<base, positions, rel, inner, next>>

PhraseFound ==
    /\ pc = "decide"
    /\ next <= rel
    /\ count' = count + 1
    /\ at' = [at EXCEPT ![1] = @ + 1]
    /\ pc' = "round"
    /\ UNCHANGED <<base, positions, rel, inner, next>>

SkipBegins ==
    /\ pc = "decide"
    /\ next > rel
    /\ pc' = "skip"
    /\ UNCHANGED <<base, positions, at, rel, inner, next, count>>

\* Slip: the first cursor also skips the offset it should stop at.
SkipFirstTooFar ==
    /\ pc = "skip"
    /\ ~ AtEnd(1)
    /\ Offset(1) <= next
    /\ at' = [at EXCEPT ![1] = @ + 1]
    /\ UNCHANGED <<base, positions, rel, inner, next, count, pc>>

SkipFirst ==
    /\ pc = "skip"
    /\ IsBefore(1, next)
    /\ at' = [at EXCEPT ![1] = @ + 1]
    /\ UNCHANGED <<base, positions, rel, inner, next, count, pc>>

\* Slip: the round is not begun anew but compared with the old offset.
SkipEndsInRound ==
    /\ pc = "skip"
    /\ ~ IsBefore(1, next)
    /\ pc' = "decide"
    /\ UNCHANGED <<base, positions, at, rel, inner, next, count>>

SkipEnds ==
    /\ pc = "skip"
    /\ ~ IsBefore(1, next)
    /\ pc' = "round"
    /\ UNCHANGED <<base, positions, at, rel, inner, next, count>>

Next ==
    \/ BeginRound \/ FirstExhausted
    \/ SkipOther \/ OtherExhausted \/ OtherAgrees \/ OtherIsAhead \/ AllCompared
    \/ PhraseFound \/ SkipBegins \/ SkipFirst \/ SkipEnds

Spec == Init /\ [][Next]_vars

\* A loop of a sequential program keeps running.
FairSpec == Spec /\ WF_vars(Next)

-----------------------------------------------------------------------------
(***************************************************************************)
(* What the loop computes.                                                 *)
(***************************************************************************)
PositionsOf(k) == {positions[k][i] : i \in 1..Len(positions[k])}

\* The offsets at which the whole phrase occurs.
Starts ==
    {r \in {p - base[1] : p \in PositionsOf(1)} :
        \A k \in Cursors : base[k] + r \in PositionsOf(k)}

\* Every variable has its type.
TypeOK ==
    /\ base \in Seq(Nat) /\ Len(base) > 0
    /\ positions \in [Cursors -> Seq(Nat)]
    /\ at \in [Cursors -> Nat]
    /\ \A k \in Cursors : at[k] \in 1..(Len(positions[k]) + 1)
    /\ rel \in Int
    /\ inner \in Nat \ {0}
    /\ next \in Int
    /\ count \in Nat
    /\ pc \in {"round", "compare", "decide", "skip", "exit"}

\* Cursor k can still reach the offset r.
Ahead(k, r) ==
    \E i \in at[k]..Len(positions[k]) : positions[k][i] - base[k] = r

(***************************************************************************)
(* No cursor walks past an occurrence that has not been counted, although  *)
(* each one moves on by what another one has read: the occurrences that    *)
(* are not counted yet are ahead of all cursors (search.c:173-213).        *)
(***************************************************************************)
NoStartIsPassed ==
    /\ count = Cardinality({r \in Starts : ~ Ahead(1, r)})
    /\ \A r \in Starts, k \in Cursors : Ahead(1, r) => Ahead(k, r)

\* In the end every occurrence of the phrase has been counted, once.
CountsOccurrences == pc = "exit" => count = Cardinality(Starts)

\* The loop ends.
Ends == <>(pc = "exit")

=============================================================================
