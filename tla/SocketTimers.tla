---------------------------- MODULE SocketTimers ----------------------------
(***************************************************************************)
(* The clocks of a socket (src/ws/conn.rs, the liveness rules of RPC-5):   *)
(* last_in and last_busy, the ticks at which they are read, the pings, and *)
(* what moves them: reading, which stops while answers are backed up,      *)
(* calls that begin and end between ticks, a peer that takes no bytes.     *)
(*                                                                         *)
(* Time is discrete.  A moment is held as how long ago it was, up to Long, *)
(* so that a run has no last moment.  The runtime polls a socket that was  *)
(* woken before time goes on; ConnLoop has the interleavings inside a      *)
(* poll, here poll_run is one step.                                        *)
(***************************************************************************)
EXTENDS Naturals, Sequences, FiniteSets, FiniteSetsExt

CONSTANTS
    PingEvery,      \* ping_interval
    PingTimeout,    \* ping_timeout
    IdleTimeout,    \* idle_timeout
    TickEvery,      \* the interval of ticks: an eighth of the shorter limit,
                    \* but 25 ms at least, which may be more than the limit
    OutHigh,        \* OUT_HIGH
    MaxInbox,       \* bound: messages of the peer that wait to be read
    MaxCalls        \* bound: calls open at once

\* An interval of no length is none; a limit may be 0.
ASSUME TimesAreNat ==
    /\ PingEvery \in Nat \ {0} /\ TickEvery \in Nat \ {0}
    /\ PingTimeout \in Nat /\ IdleTimeout \in Nat
ASSUME BoundsAreNat == OutHigh \in Nat \ {0} /\ MaxInbox \in Nat \ {0} /\ MaxCalls \in Nat

VARIABLES
    limits,         \* which limits the service set, and its write budget
    end,            \* "open", or how the loop ended
    woken,          \* the task is to be polled
    lastIn,         \* last_in, how long ago
    lastBusy,       \* last_busy, how long ago
    toTick, toPing, \* until the intervals' next ticks
    inbox,          \* whole messages that came and are not read
    pings, answers, \* out: the loop's own frames
    table,          \* answers of calls wait in the queue of the method table
    calls,          \* calls open
    blocked,        \* the peer takes no bytes
    came,           \* history: how long ago a whole message came
    quiet,          \* history: how long no call was open and none began
    stuck           \* history: how long ago the peer took bytes

timersVars == <<limits, end, woken, lastIn, lastBusy, toTick, toPing, inbox, pings, answers, table,
          calls, blocked, came, quiet, stuck>>

clocks == <<lastIn, lastBusy, toTick, toPing>>
queues == <<inbox, pings, answers, table>>
history == <<came, quiet, stuck>>

Long == Max({2 * PingTimeout + TickEvery, IdleTimeout}) + TickEvery + 1

\* A moment is longer ago, if it is one to be counted from.
Later(counts, age) == IF counts THEN Min({age + 1, Long}) ELSE 0

\* "call" opens a call that ends later, "sync" is answered by the loop as it
\* is read, "other" is a pong or a frame that asks nothing.
Kinds == {"call", "sync", "other"}

Ticks == limits.ping \/ limits.idle
Open == end = "open"

TimersInit ==
    /\ limits \in [ping : BOOLEAN, idle : BOOLEAN, budget : {0, 1}]
    /\ end = "open" /\ woken = FALSE
    /\ lastIn = 0 /\ lastBusy = 0 /\ toTick = TickEvery /\ toPing = PingEvery
    /\ inbox = <<>> /\ pings = 0 /\ answers = 0 /\ table = FALSE
    /\ calls = 0 /\ blocked = FALSE
    /\ came = 0 /\ quiet = 0 /\ stuck = 0
-----------------------------------------------------------------------------
(***************************************************************************)
(* Time, and the peer.                                                     *)
(***************************************************************************)

\* Time passes over a socket that has nothing to do.
Passes ==
    /\ Open /\ ~woken
    /\ lastIn' = Later(limits.ping, lastIn) /\ lastBusy' = Later(limits.idle, lastBusy)
    /\ toTick' = IF Ticks THEN toTick - 1 ELSE toTick
    /\ toPing' = IF limits.ping THEN toPing - 1 ELSE toPing
    /\ woken' = (toTick' = 0 \/ toPing' = 0)
    /\ came' = Later(limits.ping, came)
    /\ quiet' = Later(limits.idle /\ calls = 0, quiet)
    /\ stuck' = Later(limits.idle /\ blocked, stuck)
    /\ UNCHANGED <<limits, end, queues, calls, blocked>>

Count(kind, read) == Cardinality({i \in DOMAIN read : read[i] = kind})

\* A message is whole.
PeerSends(kind) ==
    /\ Open /\ Len(inbox) < MaxInbox
    /\ kind = "call" => calls + Count("call", inbox) < MaxCalls
    /\ inbox' = Append(inbox, kind)
    /\ woken' = TRUE /\ came' = 0
    /\ UNCHANGED <<limits, end, clocks, pings, answers, table, calls, blocked, quiet, stuck>>

\* The peer stops taking bytes, and takes them again.
PeerBlocks ==
    /\ Open
    /\ blocked' = ~blocked
    /\ woken' = (woken \/ blocked)
    /\ UNCHANGED <<limits, end, clocks, queues, calls, history>>

\* A call ends, its answer on the table.
CallEnds ==
    /\ Open /\ calls > 0
    /\ calls' = calls - 1 /\ table' = TRUE
    /\ quiet' = 0 /\ woken' = TRUE
    /\ UNCHANGED <<limits, end, clocks, inbox, pings, answers, blocked, came, stuck>>
-----------------------------------------------------------------------------
(***************************************************************************)
(* poll_run: the liveness rules if a tick is due, a ping if one is, the    *)
(* messages in while the answers are not backed up, everything out if the  *)
(* peer takes it and the budget lets anything be gathered.                 *)
(***************************************************************************)
\* Mutant of Busy: one call is none.
BusyPastOne == calls > 1
\* A call is open.
Busy == calls > 0

Silent == limits.ping /\ lastIn > PingTimeout

Idle == limits.idle /\ ~Busy /\ lastBusy >= IdleTimeout

PollTick ==
    IF ~Ticks \/ toTick > 0 THEN "open"
    ELSE IF Silent THEN "silent"
    ELSE IF Idle THEN "idle" ELSE "open"

PingDue == limits.ping /\ toPing = 0

\* Mutant of Takes: bytes go out only when a message came in.
TakesAfterRead == ~blocked /\ limits.budget > 0 /\ inbox # <<>>
Takes == ~blocked /\ limits.budget > 0

\* What is read: all of it if the answers go out as they are made, else what
\* comes before out is at OUT_HIGH.
Reads(out) ==
    LET full(k) == out + Count("sync", SubSeq(inbox, 1, k)) >= OutHigh IN
    IF Takes THEN inbox
    ELSE SubSeq(inbox, 1, Min({k \in 0..Len(inbox) : full(k)} \cup {Len(inbox)}))

Ends ==
    /\ Open /\ woken /\ PollTick # "open"
    /\ end' = PollTick /\ woken' = FALSE
    /\ UNCHANGED <<limits, clocks, queues, calls, blocked, history>>

\* Mutant of Polls: a ping that goes out counts for the peer.
PollsPinged ==
    /\ Open /\ woken /\ PollTick = "open"
    /\ LET out == pings + answers + (IF PingDue THEN 1 ELSE 0)
           read == Reads(out)
           begun == Count("call", read) + Count("sync", read)
       IN /\ inbox' = SubSeq(inbox, Len(read) + 1, Len(inbox))
          /\ pings' = IF Takes THEN 0 ELSE pings + (IF PingDue THEN 1 ELSE 0)
          /\ answers' = IF Takes THEN 0 ELSE answers + Count("sync", read)
          /\ calls' = calls + Count("call", read)
          /\ lastIn' = IF read # <<>> \/ PingDue THEN 0 ELSE lastIn
          /\ lastBusy' = IF begun > 0 \/ (toTick = 0 /\ limits.idle /\ Busy) THEN 0 ELSE lastBusy
          /\ quiet' = IF begun > 0 THEN 0 ELSE quiet
    /\ table' = (table /\ ~Takes)
    /\ toTick' = IF toTick = 0 THEN TickEvery ELSE toTick
    /\ toPing' = IF toPing = 0 THEN PingEvery ELSE toPing
    /\ woken' = FALSE
    /\ stuck' = IF blocked THEN stuck ELSE 0
    /\ UNCHANGED <<limits, end, blocked, came>>

Polls ==
    /\ Open /\ woken /\ PollTick = "open"
    /\ LET out == pings + answers + (IF PingDue THEN 1 ELSE 0)
           read == Reads(out)
           begun == Count("call", read) + Count("sync", read)
       IN /\ inbox' = SubSeq(inbox, Len(read) + 1, Len(inbox))
          /\ pings' = IF Takes THEN 0 ELSE pings + (IF PingDue THEN 1 ELSE 0)
          /\ answers' = IF Takes THEN 0 ELSE answers + Count("sync", read)
          /\ calls' = calls + Count("call", read)
          /\ lastIn' = IF read # <<>> THEN 0 ELSE lastIn
          /\ lastBusy' = IF begun > 0 \/ (toTick = 0 /\ limits.idle /\ Busy) THEN 0 ELSE lastBusy
          /\ quiet' = IF begun > 0 THEN 0 ELSE quiet
    /\ table' = (table /\ ~Takes)
    /\ toTick' = IF toTick = 0 THEN TickEvery ELSE toTick
    /\ toPing' = IF toPing = 0 THEN PingEvery ELSE toPing
    /\ woken' = FALSE
    /\ stuck' = IF blocked THEN stuck ELSE 0
    /\ UNCHANGED <<limits, end, blocked, came>>

TimersNext ==
    \/ Passes \/ PeerBlocks \/ CallEnds \/ Ends \/ Polls
    \/ \E kind \in Kinds : PeerSends(kind)

TimersSpec == TimersInit /\ [][TimersNext]_timersVars
-----------------------------------------------------------------------------
(***************************************************************************)
(* Properties.                                                             *)
(***************************************************************************)
Age == 0..Long
Backed == pings + answers >= OutHigh

\* The types; out stays within OUT_HIGH and the pings the timeout leaves time
\* for, since a socket that takes nothing is read from no more.
TimersTypeOK ==
    /\ limits \in [ping : BOOLEAN, idle : BOOLEAN, budget : {0, 1}]
    /\ end \in {"open", "silent", "idle"} /\ woken \in BOOLEAN
    /\ lastIn \in Age /\ lastBusy \in Age
    /\ toTick \in 0..TickEvery /\ toPing \in 0..PingEvery
    /\ inbox \in Seq(Kinds) /\ Len(inbox) <= MaxInbox
    /\ pings \in Nat /\ answers \in 0..OutHigh /\ table \in BOOLEAN
    /\ calls \in 0..MaxCalls /\ blocked \in BOOLEAN
    /\ came \in Age /\ quiet \in Age /\ stuck \in Age

\* Nobody is closed early (ws/mod.rs, ping_timeout and idle_timeout).  A socket
\* is closed as silent when no message came for ping_timeout (one that comes
\* with the tick is too late), or when what came waits unread behind answers
\* the peer does not take.  It is closed as idle with no call open,
\* and none open or begun for idle_timeout, but for the one tick that a call's
\* end may be later than the tick that saw it.  The types are right with it.
NotEarly ==
    /\ TimersTypeOK
    /\ end = "silent" => came > PingTimeout \/ (inbox # <<>> /\ (Backed \/ came = 0))
    /\ end = "idle" => calls = 0 /\ quiet + TickEvery >= IdleTimeout

\* Nobody is kept: a socket is closed within one tick of the time its idleness
\* has, and of its peer's silence in less than twice that time and a tick (the
\* last message may wait as long to be read as the next may take to come, and
\* a tick sees each up to a tick late), whatever the peer does not take and
\* the loop does not read (poll_run: ticks come first).
NotLate ==
    Open =>
        /\ limits.ping => came < 2 * (PingTimeout + TickEvery)
        /\ limits.idle => quiet <= IdleTimeout + TickEvery

\* A socket that is closed as idle loses an answer only to a peer that took no
\* bytes for as long, or took them again at that very moment, or to a write
\* budget of 0 (conn.rs, busy: an answer that waits is no open call).
IdleKeepsAnswers ==
    end = "idle" /\ (answers > 0 \/ table)
        => limits.budget = 0 \/ stuck + TickEvery >= IdleTimeout
=============================================================================
