------------------------------- MODULE Timers -------------------------------
(***************************************************************************)
(* The timer package of http_load: sorted lists of timers hashed by their  *)
(* trigger time, and a list of timers that can be used again.              *)
(*                                                                         *)
(* A Timer* is a number, 0 the null pointer; a freed timer keeps its       *)
(* number.  Times are relative to the present one: left is how long until  *)
(* a timer triggers, negative when it is overdue.  tmr_run calls back into *)
(* the program; it is in module HttpLoad.                                  *)
(***************************************************************************)
EXTENDS Naturals, Integers, Sequences, SequencesExt

CONSTANTS
    HashSize,     \* HASH_SIZE
    MaxTimers     \* bound on the timers that are ever allocated

ASSUME TimersAssumption == {HashSize, MaxTimers} \subseteq Nat \ {0}

Ids == 1..MaxTimers

Buckets == 0..HashSize - 1

NoTimer == [proc |-> "none", client |-> 0, secs |-> 0, periodic |-> FALSE,
            left |-> 0, hash |-> 0]

\* tmr_init.
NoTimers ==
    [lists |-> [h \in Buckets |-> <<>>],   \* timers
     free  |-> <<>>,                       \* free_timers
     made  |-> 0,                          \* timers that were allocated
     clock |-> 0,                          \* the present time, as far as hash sees it
     timer |-> [t \in Ids |-> NoTimer]]

\* hash: the same for the same trigger time.
Hash(w, t) == (w.clock + w.timer[t].left) % HashSize

\* l_add: in front of the first timer that is not earlier.
Added(w, t) ==
    LET list == w.lists[w.timer[t].hash]
        later == {n \in 1..Len(list) : w.timer[t].left <= w.timer[list[n]].left}
    IN  [w EXCEPT !.lists[w.timer[t].hash] =
            InsertAt(list, Min(later \cup {Len(list) + 1}), t)]

\* Where a timer is in its list.
Place(list, t) == CHOOSE n \in 1..Len(list) : list[n] = t

\* l_remove, from the list of the stored hash.
Removed(w, t) == [w EXCEPT !.lists[w.timer[t].hash] = RemoveAt(@, Place(@, t))]

Hashed(w, t) == [w EXCEPT !.timer[t].hash = Hash(w, t)]

\* l_resort.
Resorted(w, t) == Added(Hashed(Removed(w, t), t), t)

\* The timer that tmr_create uses next: a freed one, else a new one.
Unused(w) == IF w.free # <<>> THEN Head(w.free) ELSE w.made + 1

\* tmr_create; the timer is Unused(w).
Created(w, proc, client, secs, periodic) ==
    LET t == Unused(w)
        taken == IF w.free # <<>> THEN [w EXCEPT !.free = Tail(@)]
                 ELSE [w EXCEPT !.made = @ + 1]
        filled == [taken EXCEPT !.timer[t] =
                     [proc |-> proc, client |-> client, secs |-> secs,
                      periodic |-> periodic, left |-> secs, hash |-> 0]]
    IN  Added(Hashed(filled, t), t)

\* tmr_reset.
Reset(w, t) == Resorted([w EXCEPT !.timer[t].left = w.timer[t].secs], t)

\* What tmr_run does with a periodic timer after the call.
Rescheduled(w, t) == Resorted([w EXCEPT !.timer[t].left = @ + w.timer[t].secs], t)

\* tmr_cancel.
Cancelled(w, t) == [Removed(w, t) EXCEPT !.free = <<t>> \o @, !.timer[t] = NoTimer]

\* The timers in the lists.
Live(w) == UNION {ToSet(w.lists[h]) : h \in Buckets}

\* tmr_mstimeout: only the first timer of each list is looked at.
Heads(w) == {Head(w.lists[h]) : h \in {k \in Buckets : w.lists[k] # <<>>}}

Timeout(w) == Max({0, Min({w.timer[t].left : t \in Heads(w)})})

\* Time goes on.
Later(w, d) ==
    LET live == Live(w)
    IN  [w EXCEPT !.clock = (@ + d) % HashSize,
                  !.timer = [t \in Ids |-> IF t \in live
                                           THEN [w.timer[t] EXCEPT !.left = @ - d]
                                           ELSE w.timer[t]]]

-----------------------------------------------------------------------------
\* Every timer that was allocated is in one place once, and each list is sorted
\* and holds the timers of its hash.
Sound(w) ==
    /\ Live(w) \cup ToSet(w.free) = 1..w.made
    /\ Cardinality(Live(w)) + Len(w.free) = w.made
    /\ \A h \in Buckets :
           LET list == w.lists[h]
           IN  /\ IsInjective(list)
               /\ \A n \in 1..Len(list) : w.timer[list[n]].hash = h /\ Hash(w, list[n]) = h
               /\ \A n \in 2..Len(list) : w.timer[list[n - 1]].left <= w.timer[list[n]].left

=============================================================================
