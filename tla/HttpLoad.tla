------------------------------ MODULE HttpLoad ------------------------------
(***************************************************************************)
(* http_load: one process fetches URLs over several connections at once,   *)
(* with non-blocking sockets, select and the timers of module Timers.      *)
(*                                                                         *)
(* The program has one thread: between two turns of its main loop it calls *)
(* select, and what select returns, and what each system call returns, is  *)
(* the environment's choice.  A response is a sequence of pieces, of which *)
(* a read returns one or more.                                             *)
(***************************************************************************)
EXTENDS HttpHeader, Timers

CONSTANTS
    Modes,           \* the command lines and the system they run on:
                     \* [start, throttle, slots, fetches, failures]
    IdleSecs,        \* -timeout
    Intervals,       \* the intervals that -rate leads to, one of them without -jitter
    Responses,       \* a sequence of responses: [ending, pieces]
    StartsPerLoop,   \* 10
    MaxLate          \* bound on how late select returns

ASSUME LoadAssumption ==
    /\ \A m \in Modes : /\ m.start \in {"parallel", "rate", "jitter"}
                        /\ m.throttle \in BOOLEAN
                        /\ {m.slots, m.fetches} \subseteq Nat \ {0}
                        /\ m.failures \subseteq {"socket", "write"}
    /\ IdleSecs \in Nat /\ Intervals \subseteq Nat \ {0}
    /\ StartsPerLoop \in Nat \ {0} /\ MaxLate \in Nat

VARIABLES
    mode,       \* -parallel, -rate or -jitter; -throttle; max_connections, which
                \* -parallel sets; -fetches; what may fail at a start, in one fetch
    connections,
    timers,     \* the state of module Timers
    counts,     \* num_connections, fetches_started, fetches_completed
    pc,         \* where the main loop is
    started,    \* i of the loop that starts connections
    ready,      \* what select returned and is not yet serviced
    walk,       \* tmr_run: h, the timer it looks at next, where it returns to
    slips,      \* local failures so far (history)
    ranOut      \* did it end for want of a connection slot? (history)

vars == <<mode, connections, timers, counts, pc, started, ready, walk, slips, ranOut>>

Slots == 1..mode.slots

FreeSlot == [state |-> "FREE", idle |-> 0, wakeup |-> 0, response |-> 0, read |-> 0,
             header |-> NoHeader]

\* What the functions of the program change: they call one another.
load == [connections |-> connections, timers |-> timers, counts |-> counts,
         defined |-> TRUE]

NoWalk == [bucket |-> 0, next |-> 0, back |-> "top"]

\* As long as there are numbers for the timers that are made.
Becomes(s) ==
    /\ s.timers.made <= MaxTimers
    /\ connections' = s.connections
    /\ timers' = s.timers
    /\ counts' = s.counts

Init ==
    /\ mode \in Modes
    /\ connections = [c \in Slots |-> FreeSlot]
    /\ timers \in IF mode.start = "parallel" THEN {NoTimers}
                  ELSE {Created(NoTimers, "start", 0, n, mode.start = "rate") : n \in Intervals}
    /\ counts = [current |-> 0, started |-> 0, completed |-> 0]
    /\ pc = "top"
    /\ started = 0
    /\ ready = {}
    /\ walk = NoWalk
    /\ slips = {}
    /\ ranOut = FALSE

-----------------------------------------------------------------------------
\* tmr_cancel of a pointer that may be null; of a timer that was freed it is
\* undefined.
CancelledIn(s, t) ==
    IF t = 0 THEN s
    ELSE IF t \in Live(s.timers) THEN [s EXCEPT !.timers = Cancelled(@, t)]
    ELSE [s EXCEPT !.defined = FALSE]

\* tmr_reset; of a timer that was freed it is undefined.
ResetIn(s, t) ==
    IF t \in Live(s.timers) THEN [s EXCEPT !.timers = Reset(@, t)]
    ELSE [s EXCEPT !.defined = FALSE]

\* Slip: the idle timer is not cancelled.
CloseConnectionUntimed(s, c) ==
    LET slot == s.connections[c]
    IN  [CancelledIn(s, slot.wakeup) EXCEPT
            !.connections[c] = [FreeSlot EXCEPT !.idle = slot.idle, !.wakeup = slot.wakeup],
            !.counts.current = @ - 1,
            !.counts.completed = @ + 1]

\* The pointers to the timers are left as they are.  The statistics are left out.
CloseConnection(s, c) ==
    LET slot == s.connections[c]
    IN  [CancelledIn(CancelledIn(s, slot.idle), slot.wakeup) EXCEPT
            !.connections[c] = [FreeSlot EXCEPT !.idle = slot.idle, !.wakeup = slot.wakeup],
            !.counts.current = @ - 1,
            !.counts.completed = @ + 1]

\* The end of handle_connect: the request is written, or cannot be.
Requested(s, c) ==
    {[s EXCEPT !.connections[c].state = "HEADERS", !.connections[c].response = n] :
        n \in DOMAIN Responses}

\* The first part of start_socket.
Begun(s, c) ==
    [s EXCEPT !.connections[c] = [FreeSlot EXCEPT !.idle = Unused(s.timers)],
              !.timers = Created(@, "idle", c, IdleSecs, FALSE)]

Connecting(s, c) == [s EXCEPT !.connections[c].state = "CONNECTING"]

\* start_connection, after start_socket has returned in state s.
Counted(s, c) ==
    [s EXCEPT !.counts.started = @ + 1,
              !.counts.current = IF s.connections[c].state # "FREE" THEN @ + 1 ELSE @]

FreeSlots == {c \in Slots : connections[c].state = "FREE"}

\* What start_connection can come to in slot c.  The connection is under way, or
\* there at once; or a socket cannot be had, set up, bound or connected, and the
\* slot stays free; or the connection that is there at once is lost at once.
Starts(c) ==
    LET begun == Begun(load, c)
        good == {Connecting(begun, c)} \cup Requested(begun, c)
        bad == [socket |-> begun, write |-> CloseConnection(begun, c)]
    IN  {[load |-> Counted(s, c), slips |-> slips] : s \in good}
        \cup {[load |-> Counted(bad[f], c), slips |-> {f}] :
                  f \in IF slips = {} THEN mode.failures ELSE {}}

RunOut ==
    /\ FreeSlots = {}
    /\ pc' = "done"
    /\ ranOut' = TRUE
    /\ UNCHANGED <<mode, connections, timers, counts, started, ready, walk, slips>>

-----------------------------------------------------------------------------
(***************************************************************************)
(* The main loop.                                                          *)
(***************************************************************************)
Finish ==
    /\ pc = "top"
    /\ counts.completed >= mode.fetches
    /\ pc' = "done"
    /\ UNCHANGED <<mode, connections, timers, counts, started, ready, walk, slips, ranOut>>

BeginTurn ==
    /\ pc = "top"
    /\ counts.completed < mode.fetches
    /\ pc' = IF mode.start = "parallel" THEN "starting" ELSE "selecting"
    /\ UNCHANGED <<mode, connections, timers, counts, started, ready, walk, slips, ranOut>>

\* Slip: a fetch is started for each one that is wanted, also by those before.
MayStartAnother ==
    /\ started < StartsPerLoop
    /\ counts.current < mode.slots

MayStart ==
    /\ started < StartsPerLoop
    /\ counts.current < mode.slots
    /\ counts.started < mode.fetches

FirstOf(w, h) == IF w.lists[h] = <<>> THEN 0 ELSE Head(w.lists[h])

\* tmr_run is called.
FirstTimer(w, back) == [bucket |-> 0, next |-> FirstOf(w, 0), back |-> back]

\* The connections to keep up -parallel; the timers are run after each.
StartParallel ==
    /\ pc = "starting"
    /\ MayStart
    /\ FreeSlots # {}
    /\ \E start \in Starts(Min(FreeSlots)), d \in 0..MaxLate :
           /\ Becomes([start.load EXCEPT !.timers = Later(@, d)])
           /\ slips' = start.slips
    /\ started' = started + 1
    /\ pc' = "timing"
    /\ walk' = FirstTimer(timers', "starting")
    /\ UNCHANGED <<mode, ready, ranOut>>

StartParallelFails == pc = "starting" /\ MayStart /\ RunOut

StartsEnd ==
    /\ pc = "starting"
    /\ ~ MayStart
    /\ pc' = "selecting"
    /\ started' = 0
    /\ UNCHANGED <<mode, connections, timers, counts, ready, walk, slips, ranOut>>

\* The states a select for writing or reading waits in.
Polled == {c \in Slots : connections[c].state \in {"CONNECTING", "HEADERS", "READING"}}

\* select returns when something is ready or the first timer is due.
Select ==
    /\ pc = "selecting"
    /\ Live(timers) # {}
    /\ \E set \in SUBSET Polled, d \in 0..Timeout(timers) + MaxLate :
           /\ set = {} => d >= Timeout(timers)
           /\ ready' = set
           /\ timers' = Later(timers, d)
    /\ pc' = "serving"
    /\ UNCHANGED <<mode, connections, counts, started, walk, slips, ranOut>>

\* The slots are serviced in order.
Serves(c) == pc = "serving" /\ ready # {} /\ c = Min(ready)

ServingGoesOn(c, s) ==
    /\ ready' = ready \ {c}
    /\ pc' = IF s.defined THEN pc ELSE "undefined"
    /\ Becomes(s)
    /\ UNCHANGED <<mode, started, walk, slips, ranOut>>

ServingEnds ==
    /\ pc = "serving"
    /\ ready = {}
    /\ pc' = "timing"
    /\ walk' = FirstTimer(timers, "top")
    /\ UNCHANGED <<mode, connections, timers, counts, started, ready, slips, ranOut>>

\* handle_connect: the connect has failed, the request is written, or cannot be.
HandleConnect(c) ==
    /\ Serves(c)
    /\ connections[c].state = "CONNECTING"
    /\ \E s \in {CloseConnection(load, c)} \cup Requested(load, c) : ServingGoesOn(c, s)

IsReading(c) == Serves(c) /\ connections[c].state \in {"HEADERS", "READING"}

\* tmr_reset at the beginning of handle_read.
Touched(c) == ResetIn(load, connections[c].idle)

\* handle_read: the connection has ended, or failed.
ReadNothing(c) ==
    /\ IsReading(c)
    /\ ServingGoesOn(c, CloseConnection(Touched(c), c))

Pieces(r) == Len(Responses[r].pieces)

PiecesLeft(c) == Pieces(connections[c].response) - connections[c].read

\* The text of the pieces m to n of each response.
Texts == [r \in DOMAIN Responses |->
             [m \in 1..Pieces(r), n \in 0..Pieces(r) |-> FlattenSeq(SubSeq(Responses[r].pieces, m, n))]]

\* A wakeup timer is made when the connection is to be throttled.
Paused(s, c) ==
    [s EXCEPT !.connections[c].state = "PAUSING",
              !.connections[c].wakeup = Unused(s.timers),
              !.timers = Created(@, "wakeup", c, 1, FALSE)]

MaxPieces == Max({Pieces(r) : r \in DOMAIN Responses})

\* What was read of the header and of the body.
Taken(c, n) ==
    LET slot == connections[c]
        text == Texts[slot.response][slot.read + 1, slot.read + n]
        header == Header(slot.header, text)
    IN  [Touched(c) EXCEPT
            !.connections[c].read = @ + n,
            !.connections[c].header = header,
            !.connections[c].state = IF header.state = "END" THEN "READING" ELSE "HEADERS"]

IsWhole(s, c) ==
    LET header == s.connections[c].header
    IN  header.length # -1 /\ header.bytes >= header.length

\* handle_read: what follows the header is counted, may lead to a pause, and is
\* compared with the length.  A read that ends with the header does not get there.
Read(c, n) ==
    LET s == Taken(c, n)
        hasBody == s.connections[c].header.bytes > connections[c].header.bytes
        paces == IF hasBody /\ mode.throttle THEN {s, Paused(s, c)} ELSE {s}
    IN  /\ IsReading(c)
        /\ n \in 1..PiecesLeft(c)
        /\ \E t \in paces :
               ServingGoesOn(c, IF hasBody /\ IsWhole(t, c) THEN CloseConnection(t, c) ELSE t)

-----------------------------------------------------------------------------
(***************************************************************************)
(* tmr_run.  The timer behind the present one is noted before the call.    *)
(***************************************************************************)
IsDue(t) == timers.timer[t].left <= 0

NextIn(w, t) ==
    LET list == w.lists[w.timer[t].hash]
        n == Place(list, t)
    IN  IF n = Len(list) THEN 0 ELSE list[n + 1]

\* The list has ended, or its next timer is not due.
NextBucket ==
    /\ pc = "timing"
    /\ walk.next # 0 => walk.next \in Live(timers) /\ ~ IsDue(walk.next)
    /\ IF walk.bucket + 1 \in Buckets
       THEN /\ walk' = [walk EXCEPT !.bucket = @ + 1, !.next = FirstOf(timers, walk.bucket + 1)]
            /\ UNCHANGED pc
       ELSE walk' = NoWalk /\ pc' = walk.back
    /\ UNCHANGED <<mode, connections, timers, counts, started, ready, slips, ranOut>>

\* The timer that was noted has been freed by the call: what is done with it is
\* undefined.
WalkIsLost ==
    /\ pc = "timing"
    /\ walk.next \notin Live(timers) \cup {0}
    /\ pc' = "undefined"
    /\ UNCHANGED <<mode, connections, timers, counts, started, ready, walk, slips, ranOut>>

Calls(proc) ==
    /\ pc = "timing"
    /\ walk.next \in Live(timers)
    /\ IsDue(walk.next)
    /\ timers.timer[walk.next].proc = proc

\* What tmr_run does with the timer after the call, which has led to s.
Ended(s, t) ==
    IF s.timers.timer[t].periodic THEN [s EXCEPT !.timers = Rescheduled(@, t)]
    ELSE CancelledIn(s, t)

WalkGoesOn(s) ==
    LET after == Ended(s, walk.next)
    IN  /\ walk' = [walk EXCEPT !.next = NextIn(timers, @)]
        /\ pc' = IF after.defined THEN pc ELSE "undefined"
        /\ Becomes(after)
        /\ UNCHANGED <<mode, started, ready, ranOut>>

Client == timers.timer[walk.next].client

\* Slip: the pointer to the timer that has fired is kept.
IdleConnectionKeeping ==
    /\ Calls("idle")
    /\ WalkGoesOn(CloseConnection(load, Client))
    /\ UNCHANGED slips

\* Slip: a connection that is not there yet is given more time.
IdleConnectionPatient ==
    /\ Calls("idle")
    /\ LET forgotten == [load EXCEPT !.connections[Client].idle = 0]
       IN  IF connections[Client].state = "CONNECTING"
           THEN /\ timers' = Reset(timers, walk.next)
                /\ walk' = [walk EXCEPT !.next = NextIn(timers, @)]
                /\ UNCHANGED <<mode, connections, counts, pc, started, ready, ranOut>>
           ELSE WalkGoesOn(CloseConnection(forgotten, Client))
    /\ UNCHANGED slips

IdleConnection ==
    /\ Calls("idle")
    /\ LET forgotten == [load EXCEPT !.connections[Client].idle = 0]
       IN  WalkGoesOn(CloseConnection(forgotten, Client))
    /\ UNCHANGED slips

WakeupConnection ==
    /\ Calls("wakeup")
    /\ WalkGoesOn([load EXCEPT !.connections[Client].wakeup = 0,
                               !.connections[Client].state = "READING"])
    /\ UNCHANGED slips

\* start_timer; with -jitter, it makes the next one.
StartTimer ==
    /\ Calls("start")
    /\ FreeSlots # {}
    /\ \E start \in Starts(Min(FreeSlots)) :
           /\ slips' = start.slips
           /\ IF mode.start = "rate" THEN WalkGoesOn(start.load)
              ELSE \E n \in Intervals :
                  WalkGoesOn([start.load EXCEPT !.timers = Created(@, "start", 0, n, FALSE)])

StartTimerFails == Calls("start") /\ RunOut

-----------------------------------------------------------------------------
Turn ==
    \/ Finish \/ BeginTurn
    \/ StartParallel \/ StartParallelFails \/ StartsEnd
    \/ Select
    \/ ServingEnds

Serve ==
    \E c \in Slots :
        \/ HandleConnect(c)
        \/ ReadNothing(c)
        \/ \E n \in 1..MaxPieces : Read(c, n)

RunTimers ==
    \/ NextBucket \/ WalkIsLost
    \/ IdleConnection \/ WakeupConnection
    \/ StartTimer \/ StartTimerFails

\* Nothing has to become ready: a select without timers may wait for ever.
Hangs == pc = "selecting" /\ Live(timers) = {}

HasStopped == pc \in {"done", "undefined"} \/ Hangs

Stopped == HasStopped /\ UNCHANGED vars

Next == Turn \/ Serve \/ RunTimers \/ Stopped

\* The process goes on by itself until it has stopped.  That it can is what TLC
\* checks for deadlocks.
Progress == []<>HasStopped \/ []<><<Next>>_vars

Spec == Init /\ [][Next]_vars /\ Progress

-----------------------------------------------------------------------------
Busy == {c \in Slots : connections[c].state # "FREE"}

TimersOf(proc, clients) ==
    {t \in Live(timers) : timers.timer[t].proc = proc /\ timers.timer[t].client \in clients}

States == {"FREE", "CONNECTING", "HEADERS", "READING", "PAUSING"}

\* Every variable has its type.
TypeOK ==
    /\ mode \in Modes
    /\ \A c \in Slots :
           LET slot == connections[c]
           IN  /\ slot.state \in States
               /\ {slot.idle, slot.wakeup} \subseteq Ids \cup {0}
               /\ slot.response \in DOMAIN Responses \cup {0}
               /\ slot.read \in Nat
    /\ timers.made \in 0..MaxTimers
    /\ counts \in [current : Int, started : Nat, completed : Nat]
    /\ pc \in {"top", "starting", "selecting", "serving", "timing", "done", "undefined"}
    /\ started \in 0..StartsPerLoop
    /\ ready \subseteq Slots
    /\ walk \in [bucket : Buckets, next : Ids \cup {0}, back : {"top", "starting"}]
    /\ slips \subseteq mode.failures
    /\ ranOut \in BOOLEAN

\* An idle timer without a connection closes the next one in the slot by a
\* pointer to a wakeup timer that may be freed, or be another's by now.
Strays == mode.throttle /\ "socket" \in slips

(***************************************************************************)
(* No timer is freed twice or used after it was freed, also not by the     *)
(* walk of tmr_run whose callbacks free timers, and the lists stay sorted, *)
(* unless pauses and failing sockets come together (timers.c:246).         *)
(***************************************************************************)
TimersAreSound == ~ Strays => pc # "undefined" /\ Sound(timers)

(***************************************************************************)
(* A connection in use is watched by a timer of its own, and it alone; it  *)
(* has a timer to wake it up exactly when it pauses.  With failing sockets *)
(* there are idle timers without a connection, but no connection without   *)
(* one (http_load.c:837, 1502, 1529).                                      *)
(***************************************************************************)
SlotsAreTimed ==
    ~ Strays =>
        /\ \A c \in Busy : connections[c].idle \in TimersOf("idle", {c})
        /\ \A c \in Slots : TimersOf("wakeup", {c}) =
               IF connections[c].state = "PAUSING" THEN {connections[c].wakeup} ELSE {}
        /\ "socket" \notin slips =>
               TimersOf("idle", Slots) = {connections[c].idle : c \in Busy}

(***************************************************************************)
(* num_connections is the number of connections in use, unless starting    *)
(* one has failed on this side, and with -parallel no slot is ever missed. *)
(* Whatever fails, each fetch that was started and is not completed has an *)
(* idle timer that will complete it (http_load.c:448, 808).                *)
(***************************************************************************)
FetchesAreCounted ==
    /\ slips = {} => counts.current = Cardinality(Busy)
    /\ ~ Strays => counts.started = counts.completed + Cardinality(TimersOf("idle", Slots))
    /\ mode.start = "parallel" /\ ranOut => slips # {}

\* Nor are more fetches started with -parallel than wanted, and with nothing
\* left to wait for a request was not sent, or an idle timer without a connection
\* has led to the timer that starts fetches being cancelled (http_load.c:448, 1552).
CountsAgree ==
    /\ FetchesAreCounted
    /\ mode.start = "parallel" => counts.started <= mode.fetches
    /\ Hangs => "write" \in slips \/ Strays

\* What the first n pieces of each response say, by the reference.
Said == [r \in DOMAIN Responses |-> [n \in 0..Pieces(r) |->
    LET text == Texts[r][1, n]
        ending == Responses[r].ending
        lines == SubSeq(text, 1, HeaderLength(text, ending))
    IN  IF ~ HeaderEnds(text, ending) THEN [ends |-> FALSE]
        ELSE [ends |-> TRUE, bytes |-> Len(text) - Len(lines),
              length |-> SaidLength(lines, ending), status |-> SaidStatus(lines)]]]

(***************************************************************************)
(* However a response is cut by the reads, the header ends at its first    *)
(* empty line, every byte behind it is counted, the status and the length  *)
(* are those that the lines of the header say, and a connection whose body *)
(* has come as far as the length is not kept (http_load.c:1095, 1472).     *)
(***************************************************************************)
ResponsesAreRead ==
    \A c \in Busy :
        LET header == connections[c].header
            said == Said[connections[c].response][connections[c].read]
        IN  connections[c].state # "CONNECTING" =>
                /\ connections[c].state = "HEADERS" <=> ~ said.ends
                /\ said.ends =>
                       /\ header.bytes = said.bytes
                       /\ header.length = said.length
                       /\ header.status = said.status
                       /\ header.bytes > 0 /\ header.length # -1
                              => header.bytes < header.length

\* Every run comes to its end: servers that are silent are timed out, and fetches
\* that could not start are completed by the timer they left behind.
RunsEnd == <>(pc = "done" \/ "write" \in slips \/ Strays)

=============================================================================
