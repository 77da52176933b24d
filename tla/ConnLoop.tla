----------------------------- MODULE ConnLoop ------------------------------
(***************************************************************************)
(* One socket's loop (src/ws/conn.rs): reader and writer in one task,      *)
(* polled when something it waits on wakes it, while the tasks of its      *)
(* calls put frames on its queues from other threads.                      *)
(*                                                                         *)
(* Each poll of a queue, of the socket and of the acceptances is a step of *)
(* its own, so the tasks run between any two of them.  A poll that is      *)
(* Pending leaves a waker (armed); what that waker waits for sets woken;   *)
(* a parked task runs again only once it is woken.  tokio's cooperative    *)
(* budget may be spent in a poll that has moved something: from then on    *)
(* poll_recv and the socket's read answer Pending, and wake the task       *)
(* (try_recv is not subject to it).                                        *)
(*                                                                         *)
(* A message is its kind: answered in place ("now": a sync method, an      *)
(* unsubscription, an error); run on a task of its own ("task": a plain    *)
(* async call or a batch); a subscription ("sub"); answered nothing        *)
(* ("quiet": a notification, an answer, an input, a pong, what the hook    *)
(* took); dropped by the guard ("big"); the peer's close ("bye").          *)
(***************************************************************************)
EXTENDS Integers, Sequences, FiniteSets, SequencesExt

CONSTANTS
    OutHigh,            \* OUT_HIGH
    ReadBudget,         \* READ_BUDGET
    Budget,             \* write_budget, a frame counted as one
    QueueCap,           \* SocketLimits::queue
    MaxSubs,            \* MAX_SUBSCRIPTIONS
    MaxMsgs,            \* bound: how many messages a script has at most
    Scripts             \* bound: what may happen around the loop, see ScriptsKnown

ASSUME LimitsArePositive ==
    /\ {OutHigh, ReadBudget, Budget, QueueCap} \subseteq Nat \ {0}
ASSUME BoundsAreNat == {MaxSubs, MaxMsgs} \subseteq Nat

\* A script bounds what may happen around one loop: the messages its peer
\* sends, the frames of a subscription, this side's own frames, the pings that
\* come due, and the times the peer stops taking bytes.
ASSUME ScriptsKnown ==
    \A s \in Scripts :
        /\ s.msgs \in Seq({"now", "task", "sub", "quiet", "big", "bye"})
        /\ Len(s.msgs) <= MaxMsgs
        /\ {s.frames, s.own, s.pings, s.blocks} \subseteq Nat

VARIABLES
    script,         \* the bounds of this behaviour
    asks,           \* the kinds of the messages the peer has sent
    taken,          \* how many of them the loop has read
    phase,          \* where the call of each message is
    made,           \* the frames each subscription has sent
    out, table, own, frames,    \* the loop's own answers, and the three queues
    fenced,         \* Some(a first frame), as a sequence of at most one
    turn,           \* the queue taken from first
    accepting,      \* the messages whose acceptance is awaited
    drops,          \* dropped.count() - answered_drops
    gathered, unflushed,
    sendable,       \* tungstenite takes a message without flushing first
    pc,             \* where in poll_run the task is
    slot,           \* the i of next_out's turns
    moved, reads,   \* poll_run's
    spent,          \* tokio's cooperative budget is spent for this poll
    armed,          \* what holds this task's waker
    woken,          \* the task is to be polled again
    asked,          \* the server's stop or the connection's close
    due,            \* a ping is due
    blocked,        \* the peer takes no bytes
    wire,           \* every frame handed to the socket
    pings, blocks,  \* how often each has happened
    passed,         \* history: the frames taken from the others while a queue waits
    ahead           \* history: those of them the table gave ahead of a first frame

peerVars == <<script, asks, blocked, blocks>>
callVars == <<phase, made>>
timeVars == <<asked, due, pings>>
queueVars == <<out, table, own, frames>>
writeVars == <<gathered, unflushed, sendable, wire>>
loopVars == <<pc, slot, moved, reads, spent>>
fenceVars == <<fenced, turn, passed, ahead>>
vars == <<peerVars, callVars, timeVars, queueVars, writeVars, loopVars, fenceVars,
          taken, accepting, drops, armed, woken>>

Queues == <<"own", "table", "frames">>
Sources == {"read", "write", "accept", "own", "table", "frames"}

Answer(id) == <<"answer", id>>
FrameOf(id, n) == <<"frame", id, n>>
TooBig == <<"toobig">>
Ping == <<"ping">>

Init ==
    /\ script \in Scripts
    /\ asks = << >> /\ taken = 0
    /\ phase = [id \in 1..MaxMsgs |-> "none"] /\ made = [id \in 1..MaxMsgs |-> 0]
    /\ out = << >> /\ table = << >> /\ own = << >> /\ frames = << >>
    /\ fenced = << >> /\ turn = 0
    /\ accepting = {} /\ drops = 0
    /\ gathered = 0 /\ unflushed = FALSE /\ sendable = TRUE
    /\ pc = "top" /\ slot = 0 /\ moved = FALSE /\ reads = 0 /\ spent = FALSE
    /\ armed = {} /\ woken = FALSE
    /\ asked = FALSE /\ due = FALSE /\ blocked = FALSE
    /\ wire = << >> /\ pings = 0 /\ blocks = 0
    /\ passed = [q \in {"own", "table", "frames"} |-> 0] /\ ahead = passed

\* Subscriptions whose permit is held.
SubsOpen == {id \in 1..MaxMsgs : phase[id] \in {"accepting", "accepted"}}

Running == pc \notin {"parked", "ended"}

\* A waker of src, if it is armed, wakes the task.
Wakes(src) ==
    /\ woken' = (woken \/ src \in armed)
    /\ armed' = armed \ {src}
-----------------------------------------------------------------------------
(***************************************************************************)
(* The peer, the timers, the host and the tasks of the calls.              *)
(***************************************************************************)
PeerSends ==
    /\ Len(asks) < Len(script.msgs)
    /\ asks' = Append(asks, script.msgs[Len(asks) + 1])
    /\ Wakes("read")
    /\ UNCHANGED <<script, blocked, blocks, callVars, timeVars, queueVars, writeVars, loopVars,
                   fenceVars, taken, accepting, drops>>

PeerBlocks ==
    /\ ~blocked /\ blocks < script.blocks
    /\ blocked' = TRUE /\ blocks' = blocks + 1
    /\ UNCHANGED <<script, asks, callVars, timeVars, queueVars, writeVars, loopVars,
                   fenceVars, taken, accepting, drops, armed, woken>>

PeerUnblocks ==
    /\ blocked
    /\ blocked' = FALSE
    /\ Wakes("write")
    /\ UNCHANGED <<script, asks, blocks, callVars, timeVars, queueVars, writeVars, loopVars,
                   fenceVars, taken, accepting, drops>>

\* The stop, the connection's close and the timers are polled in every poll,
\* so each of them finds a waker.
Ask ==
    /\ ~asked
    /\ asked' = TRUE /\ woken' = TRUE
    /\ UNCHANGED <<peerVars, callVars, due, pings, queueVars, writeVars, loopVars,
                   fenceVars, taken, accepting, drops, armed>>

PingDue ==
    /\ ~due /\ pings < script.pings
    /\ due' = TRUE /\ pings' = pings + 1 /\ woken' = TRUE
    /\ UNCHANGED <<peerVars, callVars, asked, queueVars, writeVars, loopVars,
                   fenceVars, taken, accepting, drops, armed>>

\* ConnectionWriter: this side's own frame.
OwnSends ==
    /\ Len(own) < QueueCap
    /\ LET all == wire \o own
           n == Cardinality({k \in DOMAIN all : all[k][1] = "own"}) IN
       /\ n < script.own
       /\ own' = Append(own, <<"own", n + 1>>)
    /\ Wakes("own")
    /\ UNCHANGED <<peerVars, callVars, timeVars, out, table, frames, writeVars, loopVars,
                   fenceVars, taken, accepting, drops>>

\* send_response: a task's answer, once the queue has room.
TaskAnswers(id) ==
    /\ phase[id] = "running" /\ Len(table) < QueueCap
    /\ table' = Append(table, Answer(id))
    /\ phase' = [phase EXCEPT ![id] = "over"]
    /\ Wakes("table")
    /\ UNCHANGED <<peerVars, made, timeVars, out, own, frames, writeVars, loopVars,
                   fenceVars, taken, accepting, drops>>

\* jsonrpsee's accept: the answer goes on the table's queue, then the
\* acceptance resolves.
SubAccepts(id) ==
    /\ phase[id] = "accepting" /\ Len(table) < QueueCap
    /\ table' = Append(table, Answer(id))
    /\ phase' = [phase EXCEPT ![id] = "accepted"]
    /\ woken' = (woken \/ armed \cap {"table", "accept"} # {})
    /\ armed' = armed \ {"table", "accept"}
    /\ UNCHANGED <<peerVars, made, timeVars, out, own, frames, writeVars, loopVars,
                   fenceVars, taken, accepting, drops>>

SubRefuses(id) ==
    /\ phase[id] = "accepting"
    /\ phase' = [phase EXCEPT ![id] = "refused"]
    /\ Wakes("accept")
    /\ UNCHANGED <<peerVars, made, timeVars, queueVars, writeVars, loopVars,
                   fenceVars, taken, accepting, drops>>

\* FrameSink: the first frame of a call is fenced.
SubSends(id) ==
    /\ phase[id] = "accepted"
    /\ made[id] < script.frames /\ Len(frames) < QueueCap
    /\ frames' = Append(frames, FrameOf(id, made[id] + 1))
    /\ made' = [made EXCEPT ![id] = @ + 1]
    /\ Wakes("frames")
    /\ UNCHANGED <<peerVars, phase, timeVars, out, table, own, writeVars, loopVars,
                   fenceVars, taken, accepting, drops>>

\* The subscription's task is over: its permit is given back.
SubEnds(id) ==
    /\ phase[id] = "accepted"
    /\ phase' = [phase EXCEPT ![id] = "over"]
    /\ UNCHANGED <<peerVars, made, timeVars, queueVars, writeVars, loopVars,
                   fenceVars, taken, accepting, drops, armed, woken>>

\* Nothing is followed past the loop's end.
Environment ==
    /\ pc # "ended"
    /\ \/ PeerSends \/ PeerBlocks \/ PeerUnblocks \/ Ask \/ PingDue \/ OwnSends
       \/ \E id \in 1..MaxMsgs :
             \/ TaskAnswers(id) \/ SubAccepts(id) \/ SubRefuses(id)
             \/ SubSends(id) \/ SubEnds(id)
-----------------------------------------------------------------------------
(***************************************************************************)
(* poll_run, up to its loop.                                               *)
(***************************************************************************)

\* The loop is over: the queues are closed and all that waits is dropped.
Ends ==
    /\ pc' = "ended"
    /\ out' = << >> /\ table' = << >> /\ own' = << >> /\ frames' = << >>
    /\ fenced' = << >> /\ accepting' = {} /\ drops' = 0
    /\ slot' = 0 /\ moved' = FALSE /\ reads' = 0 /\ spent' = FALSE
    /\ armed' = {} /\ woken' = FALSE
    /\ turn' = 0 /\ passed' = [q \in DOMAIN passed |-> 0]
    /\ ahead' = [q \in DOMAIN ahead |-> 0]
    /\ gathered' = 0 /\ unflushed' = FALSE /\ sendable' = TRUE
    /\ UNCHANGED <<peerVars, callVars, timeVars, wire>>

\* The runtime polls the task.
Poll ==
    /\ pc = "parked" /\ woken
    /\ pc' = "top" /\ woken' = FALSE
    /\ UNCHANGED <<peerVars, callVars, timeVars, queueVars, writeVars, slot, moved, reads, spent,
                   fenceVars, taken, accepting, drops, armed>>

\* The stop or the close; or a tick of the liveness rules finds the peer
\* silent, or the socket idle with no call open (busy).
Busy == SubsOpen # {} \/ accepting # {} \/ \E id \in 1..MaxMsgs : phase[id] = "running"

TopEnds(why) ==
    /\ pc = "top"
    /\ \/ why = "asked" /\ asked
       \/ why = "silent" /\ ~asked
       \/ why = "idle" /\ ~asked /\ ~Busy
    /\ Ends /\ UNCHANGED taken

\* A ping that is due goes ahead of anything queued.
Top ==
    /\ pc = "top" /\ ~asked
    /\ out' = IF due THEN <<Ping>> \o out ELSE out
    /\ due' = FALSE
    /\ pc' = "accept"
    /\ UNCHANGED <<peerVars, callVars, asked, pings, table, own, frames, writeVars,
                   slot, moved, reads, spent, fenceVars, taken, accepting, drops, armed, woken>>

\* The cooperative budget runs out, in a poll that has moved something.
CoopSpent ==
    /\ Running /\ ~spent /\ (moved \/ reads > 0)
    /\ spent' = TRUE
    /\ UNCHANGED <<peerVars, callVars, timeVars, queueVars, writeVars, pc, slot, moved, reads,
                   fenceVars, taken, accepting, drops, armed, woken>>
-----------------------------------------------------------------------------
(***************************************************************************)
(* A turn of the loop: acceptances, one frame in, every ready frame out.   *)
(***************************************************************************)

\* The messages whose acceptance a poll finds resolved: none, once the budget
\* is spent.
Resolved == {id \in accepting : ~spent /\ phase[id] # "accepting"}

\* Messages are numbered as they arrive.
InArrivalOrder(ids) == \A j, k \in DOMAIN ids : j < k => ids[j] < ids[k]

\* The acceptances that have resolved are taken; the others have the task's
\* waker, or have woken it.
TakeResolved ==
    /\ pc = "accept"
    /\ pc' = "read"
    /\ accepting' = accepting \ Resolved
    /\ moved' = (moved \/ Resolved # {})
    /\ armed' = IF accepting' # {} /\ ~spent THEN armed \cup {"accept"} ELSE armed
    /\ woken' = (woken \/ (accepting # {} /\ spent))
    /\ UNCHANGED <<peerVars, callVars, timeVars, table, own, frames, writeVars,
                   slot, reads, spent, fenceVars, taken, drops>>

\* Mutant of PollAccepting: an accepted subscription answered here as well.
AcceptingAnswersAll ==
    /\ TakeResolved
    /\ \E ids \in [1..Cardinality(Resolved) -> Resolved] :
          /\ InArrivalOrder(ids)
          /\ out' = out \o [k \in DOMAIN ids |-> Answer(ids[k])]

\* Mutant of PollAccepting: a refusal taken and not answered.
AcceptingDropsRefusal == TakeResolved /\ UNCHANGED out

\* poll_accepting: a resolved acceptance is taken, and a refusal answered.
PollAccepting ==
    LET refused == {id \in Resolved : phase[id] = "refused"} IN
    /\ TakeResolved
    /\ \E ids \in [1..Cardinality(refused) -> refused] :
          /\ InArrivalOrder(ids)
          /\ out' = out \o [k \in DOMAIN ids |-> Answer(ids[k])]

\* answer_drops, after what the read itself answered.
AnswerDrops(answers) == out' = out \o answers \o [k \in 1..drops |-> TooBig] /\ drops' = 0

MayRead == reads < ReadBudget /\ Len(out) < OutHigh

\* The answers are backed up, or the share for this wakeup is read.
ReadSkipped ==
    /\ pc = "read" /\ ~MayRead
    /\ pc' = "write"
    /\ UNCHANGED <<peerVars, callVars, timeVars, queueVars, writeVars, slot, moved, reads, spent,
                   fenceVars, taken, accepting, drops, armed, woken>>

ReadPending ==
    /\ pc = "read" /\ MayRead
    /\ spent \/ taken = Len(asks)
    /\ AnswerDrops(<< >>)
    /\ armed' = IF spent THEN armed ELSE armed \cup {"read"}
    /\ woken' = (woken \/ spent)
    /\ pc' = "write"
    /\ UNCHANGED <<peerVars, callVars, timeVars, table, own, frames, writeVars,
                   slot, moved, reads, spent, fenceVars, taken, accepting>>

Reading == pc = "read" /\ MayRead /\ taken < Len(asks)

\* The guard drops a message over the cap and reads on.
ReadDropped ==
    /\ Reading /\ asks[taken + 1] = "big"
    /\ taken' = taken + 1 /\ drops' = drops + 1
    /\ UNCHANGED <<peerVars, callVars, timeVars, queueVars, writeVars, loopVars,
                   fenceVars, accepting, armed, woken>>

\* message: the call is answered here, or begun.
ReadMessage ==
    LET id == taken + 1
        kind == asks[id]
        began == IF kind = "task" THEN "running"
                 ELSE IF kind = "sub" /\ Cardinality(SubsOpen) < MaxSubs THEN "accepting"
                 ELSE "over"
        here == kind \in {"now", "sub"} /\ began = "over" IN
    /\ Reading /\ kind \notin {"big", "bye"}
    /\ taken' = id
    /\ phase' = [phase EXCEPT ![id] = began]
    /\ accepting' = IF began = "accepting" THEN accepting \cup {id} ELSE accepting
    /\ AnswerDrops(IF here THEN <<Answer(id)>> ELSE << >>)
    /\ reads' = reads + 1 /\ moved' = TRUE
    /\ pc' = "write"
    /\ UNCHANGED <<peerVars, made, timeVars, table, own, frames, writeVars,
                   slot, spent, fenceVars, armed, woken>>

ReadClose ==
    /\ Reading /\ asks[taken + 1] = "bye"
    /\ taken' = taken + 1
    /\ Ends

\* The socket fails, or the peer breaks the protocol.
SocketLost ==
    /\ pc \in {"read", "write", "flush"}
    /\ Ends /\ UNCHANGED taken
-----------------------------------------------------------------------------
(***************************************************************************)
(* poll_write and next_out.                                                *)
(***************************************************************************)

\* start_send: handed to the socket.  While the peer takes nothing, it may
\* have filled tungstenite's buffer.
Send(m) ==
    /\ wire' = Append(wire, m)
    /\ gathered' = gathered + 1 /\ unflushed' = TRUE /\ moved' = TRUE
    /\ sendable' \in {TRUE, ~blocked}
    /\ pc' = "write"

Writable == pc = "write" /\ gathered < Budget /\ sendable

\* The budget is met, or the buffer is full and the socket takes no more.
WriteStops ==
    /\ pc = "write"
    /\ gathered >= Budget \/ (~sendable /\ blocked)
    /\ armed' = IF gathered < Budget THEN armed \cup {"write"} ELSE armed
    /\ pc' = "flush"
    /\ UNCHANGED <<peerVars, callVars, timeVars, queueVars, writeVars, slot, moved, reads, spent,
                   fenceVars, taken, accepting, drops, woken>>

\* poll_ready flushes the full buffer away.
WriteReady ==
    /\ pc = "write" /\ gathered < Budget /\ ~sendable /\ ~blocked
    /\ sendable' = TRUE
    /\ UNCHANGED <<peerVars, callVars, timeVars, queueVars, gathered, unflushed, wire, loopVars,
                   fenceVars, taken, accepting, drops, armed, woken>>

WriteOut ==
    /\ Writable /\ out # << >>
    /\ Send(Head(out)) /\ out' = Tail(out)
    /\ UNCHANGED <<peerVars, callVars, timeVars, table, own, frames, slot, reads, spent,
                   fenceVars, taken, accepting, drops, armed, woken>>

QueueAt == Queues[((turn + slot) % 3) + 1]
Content(q) == IF q = "own" THEN own ELSE IF q = "table" THEN table ELSE frames

\* A frame is taken from q: a queue that waits has seen n more taken from the
\* others; q, and a queue with nothing on it, has seen none.
Past(q, seen, n) ==
    [r \in DOMAIN seen |-> IF r = q \/ Content(r) = << >> THEN 0 ELSE seen[r] + n]

\* A first frame is waiting: the table is emptied before it, by try_recv.
WriteTableFirst ==
    /\ Writable /\ out = << >> /\ fenced # << >> /\ table # << >>
    /\ Send(Head(table)) /\ table' = Tail(table)
    /\ passed' = Past("table", passed, 1) /\ ahead' = Past("table", ahead, 1)
    /\ UNCHANGED <<peerVars, callVars, timeVars, out, own, frames, slot, reads, spent,
                   fenced, turn, taken, accepting, drops, armed, woken>>

\* Mutant of WriteFenced: poll_recv for try_recv, Pending once the budget is
\* spent though the table holds the answer.
WriteFencedPolls ==
    /\ Writable /\ out = << >> /\ fenced # << >> /\ (table = << >> \/ spent)
    /\ Send(Head(fenced)) /\ fenced' = << >>
    /\ UNCHANGED <<peerVars, callVars, timeVars, queueVars, slot, reads, spent,
                   turn, passed, ahead, taken, accepting, drops, armed, woken>>

\* The table holds nothing more: the first frame goes.
WriteFenced ==
    /\ Writable /\ out = << >> /\ fenced # << >> /\ table = << >>
    /\ Send(Head(fenced)) /\ fenced' = << >>
    /\ UNCHANGED <<peerVars, callVars, timeVars, queueVars, slot, reads, spent,
                   turn, passed, ahead, taken, accepting, drops, armed, woken>>

\* The queues, by turns.
WriteTurns ==
    /\ Writable /\ out = << >> /\ fenced = << >>
    /\ pc' = "take"
    /\ UNCHANGED <<peerVars, callVars, timeVars, queueVars, writeVars, slot, moved, reads, spent,
                   fenceVars, taken, accepting, drops, armed, woken>>

\* Mutant of TakeNothing: try_recv for poll_recv, which leaves no waker.
TakeUnarmed ==
    /\ pc = "take" /\ slot < 3
    /\ spent \/ Content(QueueAt) = << >>
    /\ slot' = slot + 1
    /\ UNCHANGED <<peerVars, callVars, timeVars, queueVars, writeVars, pc, moved, reads, spent,
                   fenceVars, taken, accepting, drops, armed, woken>>

\* poll_recv finds nothing, or the budget spent.
TakeNothing ==
    LET q == QueueAt IN
    /\ pc = "take" /\ slot < 3
    /\ spent \/ Content(q) = << >>
    /\ armed' = IF spent THEN armed ELSE armed \cup {q}
    /\ woken' = (woken \/ spent)
    /\ slot' = slot + 1
    /\ UNCHANGED <<peerVars, callVars, timeVars, queueVars, writeVars, pc, moved, reads, spent,
                   fenceVars, taken, accepting, drops>>

TakeNone ==
    /\ pc = "take" /\ slot = 3
    /\ pc' = "flush" /\ slot' = 0
    /\ UNCHANGED <<peerVars, callVars, timeVars, queueVars, writeVars, moved, reads, spent,
                   fenceVars, taken, accepting, drops, armed, woken>>

\* Mutant of TurnPast: the turn does not move.
TurnStays(q) ==
    /\ slot' = 0 /\ UNCHANGED turn
    /\ passed' = Past(q, passed, 1) /\ ahead' = Past(q, ahead, 0)

\* The next turn begins after q.
TurnPast(q) ==
    /\ turn' = (turn + slot + 1) % 3 /\ slot' = 0
    /\ passed' = Past(q, passed, 1) /\ ahead' = Past(q, ahead, 0)

Taking(q) == pc = "take" /\ slot < 3 /\ ~spent /\ QueueAt = q /\ Content(q) # << >>

\* A call's frame: its first one is fenced.
IsFirst(f) == f[3] = 1

Take(q) ==
    /\ Taking(q)
    /\ q = "frames" => ~IsFirst(Head(frames))
    /\ TurnPast(q)
    /\ Send(Head(Content(q)))
    /\ own' = IF q = "own" THEN Tail(own) ELSE own
    /\ table' = IF q = "table" THEN Tail(table) ELSE table
    /\ frames' = IF q = "frames" THEN Tail(frames) ELSE frames
    /\ UNCHANGED <<peerVars, callVars, timeVars, out, reads, spent,
                   fenced, taken, accepting, drops, armed, woken>>

TakeFirst ==
    /\ Taking("frames") /\ IsFirst(Head(frames))
    /\ TurnPast("frames")
    /\ fenced' = <<Head(frames)>> /\ frames' = Tail(frames)
    /\ pc' = "write"
    /\ UNCHANGED <<peerVars, callVars, timeVars, out, table, own, writeVars, moved, reads,
                   spent, taken, accepting, drops, armed, woken>>

Flush ==
    /\ pc = "flush"
    /\ pc' = "again"
    /\ IF unflushed /\ ~blocked
       THEN unflushed' = FALSE /\ gathered' = 0 /\ moved' = TRUE
       ELSE UNCHANGED <<unflushed, gathered, moved>>
    /\ armed' = IF unflushed /\ blocked THEN armed \cup {"write"} ELSE armed
    /\ UNCHANGED <<peerVars, callVars, timeVars, queueVars, sendable, wire, slot, reads, spent,
                   fenceVars, taken, accepting, drops, woken>>

\* Nothing moved: Pending.  Its share read: Pending, and woken.
Again ==
    /\ pc = "again"
    /\ IF moved /\ reads < ReadBudget
       THEN pc' = "accept" /\ UNCHANGED <<reads, spent>>
       ELSE pc' = "parked" /\ reads' = 0 /\ spent' = FALSE
    /\ woken' = (woken \/ (moved /\ reads >= ReadBudget))
    /\ moved' = FALSE
    /\ UNCHANGED <<peerVars, callVars, timeVars, queueVars, writeVars, slot,
                   fenceVars, taken, accepting, drops, armed>>

LoopStep ==
    \/ Poll \/ Top \/ TopEnds("asked")
    \/ PollAccepting
    \/ ReadSkipped \/ ReadPending \/ ReadDropped \/ ReadMessage \/ ReadClose
    \/ WriteStops \/ WriteReady \/ WriteOut \/ WriteTableFirst \/ WriteFenced \/ WriteTurns
    \/ TakeNothing \/ TakeNone \/ TakeFirst
    \/ \E q \in {"own", "table", "frames"} : Take(q)
    \/ Flush \/ Again

Next ==
    \/ LoopStep
    \/ \E why \in {"silent", "idle"} : TopEnds(why)
    \/ SocketLost
    \/ CoopSpent
    \/ Environment

\* The runtime runs a task that is woken and a task does not stop inside a
\* poll; a call's task comes to its answer; a peer that stops taking bytes
\* takes them again (or its pings go unanswered and the loop ends).
Fairness ==
    /\ WF_vars(LoopStep)
    /\ WF_vars(pc # "ended" /\ PeerUnblocks)
    /\ \A id \in 1..MaxMsgs :
          /\ WF_vars(pc # "ended" /\ TaskAnswers(id))
          /\ WF_vars(pc # "ended" /\ (SubAccepts(id) \/ SubRefuses(id)))

Spec == Init /\ [][Next]_vars

FairSpec == Spec /\ Fairness
-----------------------------------------------------------------------------
TypeOK ==
    /\ script \in Scripts /\ IsPrefix(asks, script.msgs) /\ taken \in 0..Len(asks)
    /\ phase \in [1..MaxMsgs -> {"none", "running", "accepting", "accepted", "refused", "over"}]
    /\ made \in [1..MaxMsgs -> 0..script.frames]
    /\ \A q \in {own, table, frames} : Len(q) <= QueueCap
    /\ Len(fenced) <= 1 /\ turn \in 0..2 /\ slot \in 0..3
    /\ gathered \in 0..Budget /\ reads \in 0..ReadBudget /\ drops \in 0..MaxMsgs
    /\ pc \in {"parked", "top", "accept", "read", "write", "take", "flush", "again", "ended"}
    /\ {unflushed, sendable, moved, spent, woken, asked, due, blocked} \subseteq BOOLEAN
    /\ armed \subseteq Sources /\ accepting \subseteq 1..MaxMsgs

Before(f, g) ==
    \A k \in DOMAIN wire : wire[k] = g => \E j \in 1..(k - 1) : wire[j] = f

\* The peer sees a subscription's answer before any of its frames and the
\* frames in the order they were sent, though answer and frames travel by two
\* queues filled and polled at different times.
AnswerBeforeFrames ==
    \A id \in 1..MaxMsgs : \A n \in 1..made[id] :
        Before(IF n = 1 THEN Answer(id) ELSE FrameOf(id, n - 1), FrameOf(id, n))

\* A message is answered at most once, wherever its answer is on its way, and
\* only if it was read; a message the guard dropped is counted once.
AnsweredOnce ==
    LET everywhere == wire \o out \o table
        count(f) == Cardinality({k \in DOMAIN everywhere : everywhere[k] = f}) IN
    /\ \A id \in 1..MaxMsgs :
          count(Answer(id)) <= IF id <= taken /\ asks[id] \in {"now", "task", "sub"} THEN 1 ELSE 0
    /\ pc # "ended" =>
          count(TooBig) + drops = Cardinality({id \in 1..taken : asks[id] = "big"})

\* A task parked and not woken has nothing it could do: no message to read, no
\* acceptance resolved and no frame on any queue, unless the peer takes no
\* bytes, and then it waits for that.  (A poll that returned Pending without
\* leaving a waker where work will come would stop the socket for good.)
NoLostWake ==
    pc = "parked" /\ ~woken =>
        /\ ~asked /\ ~due
        /\ \A id \in accepting : phase[id] = "accepting"
        /\ Len(out) < OutHigh => taken = Len(asks)
        /\ out \o fenced \o own \o table \o frames # << >> \/ unflushed
              => blocked /\ "write" \in armed

\* By turns (and the types): a frame that waits on a queue sees at most two
\* taken from the others, and what the table gives ahead of a first frame,
\* before its queue is next.
ByTurns == TypeOK /\ \A q \in DOMAIN passed : passed[q] <= 2 + ahead[q]

\* What the loop owes its peer: the answer of a message that asks for one, the
\* answer to one dropped over the cap, a frame a subscription has sent.
Owes ==
    \/ \E id \in DOMAIN asks :
          asks[id] \in {"now", "task", "sub"} /\ ~Contains(wire, Answer(id))
    \/ Contains(asks, "big") /\ ~Contains(wire, TooBig)
    \/ \E id \in 1..MaxMsgs : \E n \in 1..made[id] : ~Contains(wire, FrameOf(id, n))

\* The loop comes to owe nothing, unless the socket ends: neither a message
\* sent while it does not read, nor one whose task answers while it is parked
\* or the peer takes nothing, nor a first frame fenced behind a table that is
\* being refilled, is left for good.  (A script ends, so what is owed is not
\* forever something new.)
OwesNothing == []<>(pc = "ended" \/ ~Owes)
=============================================================================
