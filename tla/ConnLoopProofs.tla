--------------------------- MODULE ConnLoopProofs ---------------------------
(***************************************************************************)
(* For every script, every budget and every size of the queues: a parked   *)
(* loop has been left nothing to do, its three queues take turns, a        *)
(* subscription's answer is on the wire before its frames, and a message   *)
(* is answered once.                                                       *)
(***************************************************************************)
EXTENDS ConnLoop, FiniteSetTheorems, SequenceTheorems, TLAPS

Ids == 1..MaxMsgs
MsgKinds == {"now", "task", "sub", "quiet", "big", "bye"}
QueueNames == {"own", "table", "frames"}
PastAccept == {"read", "write", "take", "flush", "again", "parked"}
PastRead == PastAccept \ {"read"}

\* What each queue holds.
AnswerMsgs == {"answer"} \X Ids
FrameMsgs == {"frame"} \X Ids \X (Nat \ {0})
OwnMsgs == {"own"} \X Nat
LoopMsgs == AnswerMsgs \cup {TooBig, Ping}
Msgs == LoopMsgs \cup FrameMsgs \cup OwnMsgs
-----------------------------------------------------------------------------
(***************************************************************************)
(* The inductive invariant.                                                *)
(***************************************************************************)
PeerTypes ==
    /\ script \in Scripts /\ asks \in Seq(MsgKinds) /\ Len(asks) <= MaxMsgs
    /\ IsPrefix(asks, script.msgs) /\ taken \in 0..Len(asks)

CallTypes ==
    /\ phase \in [Ids -> {"none", "running", "accepting", "accepted", "refused", "over"}]
    /\ made \in [Ids -> Nat] /\ \A id \in Ids : made[id] <= script.frames
    /\ accepting \subseteq Ids

QueueTypes ==
    /\ wire \in Seq(Msgs) /\ out \in Seq(LoopMsgs)
    /\ own \in Seq(OwnMsgs) /\ table \in Seq(AnswerMsgs)
    /\ frames \in Seq(FrameMsgs) /\ fenced \in Seq(FrameMsgs)
    /\ Len(own) <= QueueCap /\ Len(table) <= QueueCap /\ Len(frames) <= QueueCap
    /\ Len(fenced) <= 1

CountTypes ==
    /\ turn \in 0..2 /\ slot \in 0..3
    /\ gathered \in 0..Budget /\ reads \in 0..ReadBudget /\ drops \in 0..taken
    /\ pc \in {"parked", "top", "accept", "read", "write", "take", "flush", "again", "ended"}
    /\ armed \subseteq Sources
    /\ passed \in [QueueNames -> Nat] /\ ahead \in [QueueNames -> Nat]

FlagTypes ==
    /\ unflushed \in BOOLEAN /\ sendable \in BOOLEAN /\ moved \in BOOLEAN /\ spent \in BOOLEAN
    /\ woken \in BOOLEAN /\ asked \in BOOLEAN /\ due \in BOOLEAN /\ blocked \in BOOLEAN

Types == PeerTypes /\ CallTypes /\ QueueTypes /\ CountTypes /\ FlagTypes

\* What holds at each place of poll_run: frames are taken only while there is
\* room in the write and nothing goes ahead of them, and a loop that has read
\* its share has moved.
LoopOK ==
    /\ pc # "take" => slot = 0
    /\ pc = "take" => gathered < Budget /\ sendable /\ out = <<>> /\ fenced = <<>>
    /\ pc \in {"parked", "top", "accept"} => ~moved
    /\ reads = ReadBudget => moved
    /\ gathered > 0 => unflushed

\* How many queues are polled before q.
Position(q) == IF q = "own" THEN 0 ELSE IF q = "table" THEN 1 ELSE 2
Offset(t, q) == IF Position(q) >= t THEN Position(q) - t ELSE Position(q) + 3 - t

\* A queue that was passed waits, and was passed no oftener than its turn is
\* near, but for what went ahead of a first frame; one found empty by this scan
\* was not passed.
TurnsOK ==
    \A q \in QueueNames :
        /\ Content(q) = <<>> => passed[q] = 0
        /\ passed[q] + Offset(turn, q) <= 2 + ahead[q]
        /\ pc = "take" /\ ~spent /\ Offset(turn, q) < slot => passed[q] = 0

\* What each poll that found nothing leaves behind: nothing, and a waker for
\* when there is something.
QueueWaits(q) == Content(q) = <<>> /\ q \in armed
AllWait == out = <<>> /\ fenced = <<>> /\ \A q \in QueueNames : QueueWaits(q)
AcceptWaits == \A id \in accepting : phase[id] = "accepting" /\ "accept" \in armed
ReadWaits == Len(out) >= OutHigh \/ (taken = Len(asks) /\ "read" \in armed)
WriteWaits == blocked /\ "write" \in armed

\* Unless the task is woken, or has moved and goes round again, every poll the
\* loop has made since its last move still waits.
WakeOK ==
    ~woken =>
        /\ pc \notin {"top", "ended"} => ~asked /\ ~due
        /\ pc = "take" => \A q \in QueueNames : Offset(turn, q) < slot => QueueWaits(q)
        /\ ~moved =>
              /\ pc \in PastAccept => AcceptWaits
              /\ pc \in PastRead => ReadWaits
              /\ pc = "flush" => AllWait \/ WriteWaits \/ gathered >= Budget
              /\ pc \in {"again", "parked"} => (AllWait /\ ~unflushed) \/ WriteWaits

\* What the peer sees before a frame.
Ahead(f) == IF f[3] = 1 THEN Answer(f[2]) ELSE FrameOf(f[2], f[3] - 1)

\* A frame on the wire, or on its queue, follows what is ahead of it.
WireFollows(w) ==
    \A k \in 1..Len(w) : w[k][1] = "frame" => \E j \in 1..(k - 1) : w[j] = Ahead(w[k])

FramesFollow(w, fe, fr) ==
    \A k \in 1..Len(fr) :
        fr[k][3] # 1 =>
            \/ Contains(w, Ahead(fr[k])) \/ Contains(fe, Ahead(fr[k]))
            \/ \E j \in 1..(k - 1) : fr[j] = Ahead(fr[k])

\* A frame that waits was sent; one that is fenced is a first one.
FramesSent(fr, m) == \A k \in 1..Len(fr) : fr[k][3] <= m[fr[k][2]]
FencedFirst(fe, m) == \A k \in 1..Len(fe) : fe[k][3] = 1 /\ m[fe[k][2]] >= 1

\* The last frame a subscription has sent is somewhere on its way, and its
\* answer is on the wire or on the table's queue.
LastOnItsWay(w, fe, fr, m) ==
    \A id \in Ids :
        m[id] > 0 =>
            \/ Contains(w, FrameOf(id, m[id])) \/ Contains(fe, FrameOf(id, m[id]))
            \/ Contains(fr, FrameOf(id, m[id]))

AnswerOnItsWay(w, tb, m, ph) ==
    \A id \in Ids :
        ph[id] = "accepted" \/ m[id] > 0 => Contains(w, Answer(id)) \/ Contains(tb, Answer(id))

OrderOK ==
    /\ WireFollows(wire)
    /\ FramesFollow(wire, fenced, frames)
    /\ FramesSent(frames, made) /\ FencedFirst(fenced, made)
    /\ pc # "ended" => LastOnItsWay(wire, fenced, frames, made) /\ AnswerOnItsWay(wire, table, made, phase)

\* How often f is in s, and on its way.
Occurs(s, f) == Cardinality({k \in DOMAIN s : s[k] = f})
Total(w, o, t, f) == Occurs(w, f) + Occurs(o, f) + Occurs(t, f)

Asking == {"now", "task", "sub"}
Unanswered(id) ==
    phase[id] \in {"none", "running", "accepting"} \/ (phase[id] = "refused" /\ id \in accepting)

\* The messages the guard has dropped, of the first n.
Bigs(a, n) == Cardinality({id \in 1..n : a[id] = "big"})

\* Which messages are in which phase.
PhaseOK ==
    \A id \in Ids :
        /\ id > taken => phase[id] = "none"
        /\ phase[id] = "running" => asks[id] = "task"
        /\ phase[id] \in {"accepting", "accepted", "refused"} => asks[id] = "sub"
        /\ id \in accepting => phase[id] \in {"accepting", "accepted", "refused", "over"}

\* An answer is owed or made, and one made is of a message that asked.
Counted(id) ==
    /\ Total(wire, out, table, Answer(id)) <= 1
    /\ Unanswered(id) => Total(wire, out, table, Answer(id)) = 0
    /\ id <= taken /\ asks[id] \notin Asking => Total(wire, out, table, Answer(id)) = 0
AnswersCounted == \A id \in Ids : Counted(id)

\* A message the guard dropped is answered, or still to be.
DropsCounted == pc # "ended" => Total(wire, out, table, TooBig) + drops = Bigs(asks, taken)

OnceOK == PhaseOK /\ AnswersCounted /\ DropsCounted

IInv == Types /\ LoopOK /\ TurnsOK /\ WakeOK /\ OrderOK /\ OnceOK
-----------------------------------------------------------------------------
(***************************************************************************)
(* The constants, and the queues by turns.                                 *)
(***************************************************************************)

\* The sizes and the bounds are numbers.
LEMMA Sizes ==
    /\ OutHigh \in Nat \ {0} /\ ReadBudget \in Nat \ {0} /\ Budget \in Nat \ {0}
    /\ QueueCap \in Nat \ {0} /\ MaxSubs \in Nat /\ MaxMsgs \in Nat
  BY LimitsArePositive, BoundsAreNat

\* What a script is.
LEMMA ScriptIs ==
    ASSUME NEW s \in Scripts
    PROVE  /\ s.msgs \in Seq(MsgKinds) /\ Len(s.msgs) <= MaxMsgs
           /\ s.frames \in Nat /\ s.own \in Nat /\ s.pings \in Nat /\ s.blocks \in Nat
  BY ScriptsKnown DEF MsgKinds

\* The queue polled in a slot of a turn, and the turn after it was taken from.
LEMMA QueueAtIs ==
    ASSUME turn \in 0..2, slot \in 0..2
    PROVE  /\ QueueAt \in QueueNames /\ Offset(turn, QueueAt) = slot
           /\ \A q \in QueueNames : Offset(turn, q) = slot => q = QueueAt
           /\ (turn + slot + 1) % 3 \in 0..2
           /\ \A q \in QueueNames :
                 Offset((turn + slot + 1) % 3, q) =
                    IF Offset(turn, q) > slot THEN Offset(turn, q) - slot - 1
                    ELSE Offset(turn, q) + 2 - slot
  <1> USE DEF QueueAt, Queues, Offset, Position, QueueNames
  <1>1. CASE turn = 0
    BY <1>1
  <1>2. CASE turn = 1
    BY <1>2
  <1>3. CASE turn = 2
    BY <1>3
  <1> QED
    BY <1>1, <1>2, <1>3

\* A queue is at most two places from its turn.
LEMMA OffsetIs ==
    ASSUME NEW t \in 0..2, NEW q \in QueueNames
    PROVE  Offset(t, q) \in 0..2
  BY DEF Offset, Position, QueueNames
-----------------------------------------------------------------------------
(***************************************************************************)
(* The steps.                                                              *)
(***************************************************************************)

\* However the loop ends, all that waits is dropped.
Stops == Ends /\ (taken' = taken \/ (Reading /\ taken' = taken + 1))

\* A step of the peer, a timer, the host or a task.
Outside ==
    \/ PeerSends \/ PeerBlocks \/ PeerUnblocks \/ Ask \/ PingDue \/ OwnSends
    \/ \E id \in Ids :
          TaskAnswers(id) \/ SubAccepts(id) \/ SubRefuses(id) \/ SubSends(id) \/ SubEnds(id)

\* A step of the loop up to its writing.
ReadSide ==
    \/ Poll \/ Top \/ PollAccepting \/ CoopSpent
    \/ ReadSkipped \/ ReadPending \/ ReadDropped \/ ReadMessage

\* A step of poll_write, and what follows it.
WriteSide ==
    \/ WriteStops \/ WriteReady \/ WriteOut \/ WriteTableFirst \/ WriteFenced \/ WriteTurns
    \/ TakeNothing \/ TakeNone \/ TakeFirst
    \/ \E q \in QueueNames : Take(q)
    \/ Flush \/ Again

\* A step of the loop or around it is one of these.
LEMMA NextIs ==
    ASSUME Next
    PROVE  Stops \/ (pc # "ended" /\ Outside) \/ ReadSide \/ WriteSide
  <1>1. ASSUME NEW why, TopEnds(why) PROVE Stops
    BY <1>1 DEF TopEnds, Stops
  <1>2. ASSUME ReadClose PROVE Stops
    BY <1>2 DEF ReadClose, Stops
  <1>3. ASSUME SocketLost PROVE Stops
    BY <1>3 DEF SocketLost, Stops
  <1>4. ASSUME Environment PROVE pc # "ended" /\ Outside
    BY <1>4 DEF Environment, Outside, Ids
  <1>5. ASSUME LoopStep PROVE Stops \/ ReadSide \/ WriteSide
    BY <1>1, <1>2, <1>5 DEF LoopStep, ReadSide, WriteSide, QueueNames
  <1> QED
    BY <1>1, <1>3, <1>4, <1>5 DEF Next, ReadSide

\* What the peer has sent is read at most once.
LEMMA PeerTyped ==
    ASSUME Types, Next
    PROVE  PeerTypes'
  <1>1. \/ UNCHANGED <<script, asks, taken>>
        \/ PeerSends
        \/ UNCHANGED <<script, asks>> /\ taken' = taken + 1 /\ taken < Len(asks)
    <2>1. CASE Stops
      BY <2>1 DEF Stops, Ends, Reading, peerVars
    <2>2. CASE Outside
      BY <2>2 DEF Outside, PeerBlocks, PeerUnblocks, Ask, PingDue, OwnSends, TaskAnswers, SubAccepts,
                  SubRefuses, SubSends, SubEnds, peerVars
    <2>3. CASE ReadSide
      BY <2>3 DEF ReadSide, Poll, Top, PollAccepting, TakeResolved, CoopSpent, ReadSkipped, ReadPending,
                  ReadDropped, ReadMessage, Reading, peerVars
    <2>4. CASE WriteSide
      BY <2>4 DEF WriteSide, WriteStops, WriteReady, WriteOut, WriteTableFirst, WriteFenced, WriteTurns,
                  TakeNothing, TakeNone, TakeFirst, Take, Flush, Again, peerVars
    <2> QED
      BY <2>1, <2>2, <2>3, <2>4, NextIs
  <1>2. /\ asks \in Seq(MsgKinds) /\ script \in Scripts /\ taken \in 0..Len(asks)
        /\ Len(asks) <= MaxMsgs /\ IsPrefix(asks, script.msgs)
    BY DEF Types, PeerTypes
  <1>3. CASE PeerSends
    <2>1. /\ Len(asks) < Len(script.msgs) /\ asks' = Append(asks, script.msgs[Len(asks) + 1])
          /\ script' = script /\ taken' = taken
      BY <1>3 DEF PeerSends
    <2>2. script.msgs \in Seq(MsgKinds) /\ Len(script.msgs) <= MaxMsgs
      BY <1>2, ScriptIs
    <2>3. /\ asks' \in Seq(MsgKinds) /\ Len(asks') = Len(asks) + 1
          /\ \A k \in 1..Len(asks) : asks'[k] = asks[k]
          /\ asks'[Len(asks) + 1] = script.msgs[Len(asks) + 1]
      BY <1>2, <2>1, <2>2
    <2>4. IsPrefix(asks', script.msgs)
      <3>1. \A k \in 1..Len(asks) : asks[k] = script.msgs[k]
        <4>1. SubSeq(asks, 1, Len(asks)) = SubSeq(script.msgs, 1, Len(asks))
          BY <1>2 DEF IsPrefix
        <4> QED
          BY <1>2, <2>1, <2>2, <4>1
      <3>2. \A k \in 1..Len(asks') : asks'[k] = script.msgs[k]
        BY <1>2, <2>1, <2>3, <3>1
      <3>3. SubSeq(asks', 1, Len(asks')) = SubSeq(script.msgs, 1, Len(asks'))
        BY <1>2, <2>1, <2>2, <2>3, <3>2
      <3> QED
        BY <2>1, <2>2, <2>3, <3>3 DEF IsPrefix
    <2> QED
      BY <1>2, <2>1, <2>2, <2>3, <2>4, Sizes DEF PeerTypes
  <1>4. CASE UNCHANGED <<script, asks>> /\ taken' \in {taken, taken + 1} /\ taken' <= Len(asks)
    BY <1>2, <1>4 DEF PeerTypes
  <1> QED
    BY <1>1, <1>2, <1>3, <1>4

\* The calls and the acceptances are of messages the peer may send.
LEMMA CallTyped ==
    ASSUME Types, Next
    PROVE  CallTypes'
  <1>0. /\ phase \in [Ids -> {"none", "running", "accepting", "accepted", "refused", "over"}]
        /\ made \in [Ids -> Nat] /\ \A id \in Ids : made[id] <= script.frames
        /\ accepting \subseteq Ids /\ script \in Scripts /\ taken \in 0..Len(asks)
        /\ asks \in Seq(MsgKinds) /\ Len(asks) <= MaxMsgs
    BY DEF Types, CallTypes, PeerTypes
  <1>1. CASE Stops
    BY <1>0, <1>1 DEF Stops, Ends, CallTypes, callVars, peerVars
  <1>2. CASE Outside
    <2>1. ASSUME NEW id \in Ids,
                 TaskAnswers(id) \/ SubAccepts(id) \/ SubRefuses(id) \/ SubSends(id) \/ SubEnds(id)
          PROVE  CallTypes'
      <3>1. UNCHANGED <<script, accepting>>
        BY <2>1 DEF TaskAnswers, SubAccepts, SubRefuses, SubSends, SubEnds, peerVars
      <3>2. phase' \in [Ids -> {"none", "running", "accepting", "accepted", "refused", "over"}]
        BY <1>0, <2>1 DEF TaskAnswers, SubAccepts, SubRefuses, SubSends, SubEnds
      <3>3. made' = made \/ (made[id] < script.frames /\ made' = [made EXCEPT ![id] = made[id] + 1])
        BY <2>1 DEF TaskAnswers, SubAccepts, SubRefuses, SubSends, SubEnds
      <3>4. made' \in [Ids -> Nat] /\ \A i \in Ids : made'[i] <= script.frames
        <4>1. script.frames \in Nat
          BY <1>0, ScriptIs
        <4> QED
          BY <1>0, <3>3, <4>1
      <3> QED
        BY <1>0, <3>1, <3>2, <3>4 DEF CallTypes
    <2>2. CASE UNCHANGED <<script, phase, made, accepting>>
      BY <1>0, <2>2 DEF CallTypes
    <2> QED
      BY <1>2, <2>1, <2>2
         DEF Outside, PeerSends, PeerBlocks, PeerUnblocks, Ask, PingDue, OwnSends, peerVars, callVars
  <1>3. CASE ReadSide
    <2>1. CASE PollAccepting
      BY <1>0, <2>1 DEF PollAccepting, TakeResolved, CallTypes, callVars, peerVars
    <2>2. CASE ReadMessage
      <3>1. taken + 1 \in Ids
        BY <1>0, <2>2, Sizes DEF ReadMessage, Reading, Ids
      <3>2. PICK began \in {"running", "accepting", "over"} :
               /\ phase' = [phase EXCEPT ![taken + 1] = began]
               /\ accepting' = IF began = "accepting" THEN accepting \cup {taken + 1} ELSE accepting
        BY <2>2 DEF ReadMessage
      <3>3. UNCHANGED <<script, made>>
        BY <2>2 DEF ReadMessage, peerVars
      <3> QED
        BY <1>0, <3>1, <3>2, <3>3 DEF CallTypes
    <2>3. CASE UNCHANGED <<script, phase, made, accepting>>
      BY <1>0, <2>3 DEF CallTypes
    <2> QED
      BY <1>3, <2>1, <2>2, <2>3
         DEF ReadSide, Poll, Top, CoopSpent, ReadSkipped, ReadPending, ReadDropped, peerVars, callVars
  <1>4. CASE WriteSide
    <2>1. UNCHANGED <<script, phase, made, accepting>>
      BY <1>4 DEF WriteSide, WriteStops, WriteReady, WriteOut, WriteTableFirst, WriteFenced, WriteTurns,
                  TakeNothing, TakeNone, TakeFirst, Take, Flush, Again, peerVars, callVars
    <2> QED
      BY <1>0, <2>1 DEF CallTypes
  <1> QED
    BY <1>1, <1>2, <1>3, <1>4, NextIs

\* The head of a queue is of its kind, and so is the rest.
LEMMA HeadTail ==
    ASSUME NEW S, NEW s \in Seq(S), s # <<>>
    PROVE  Head(s) \in S /\ Tail(s) \in Seq(S) /\ Len(Tail(s)) = Len(s) - 1 /\ Len(s) > 0
  BY HeadTailProperties

\* The number of this side's frames so far is a number.
LEMMA OwnCount ==
    ASSUME NEW all \in Seq(Msgs)
    PROVE  Cardinality({k \in DOMAIN all : all[k][1] = "own"}) \in Nat
  <1>1. DOMAIN all = 1..Len(all) /\ Len(all) \in Nat
    OBVIOUS
  <1>2. IsFiniteSet(1..Len(all))
    BY <1>1, FS_Interval
  <1>3. IsFiniteSet({k \in DOMAIN all : all[k][1] = "own"})
    BY <1>1, <1>2, FS_Subset
  <1> QED
    BY <1>3, FS_CardinalityType

\* Each queue holds what is put on it, and no more than its size.
LEMMA QueueTyped ==
    ASSUME Types, Next
    PROVE  QueueTypes'
  <1> DEFINE qvars == <<wire, out, own, table, frames, fenced>>
  <1>0. /\ wire \in Seq(Msgs) /\ out \in Seq(LoopMsgs)
        /\ own \in Seq(OwnMsgs) /\ table \in Seq(AnswerMsgs)
        /\ frames \in Seq(FrameMsgs) /\ fenced \in Seq(FrameMsgs)
        /\ Len(own) <= QueueCap /\ Len(table) <= QueueCap /\ Len(frames) <= QueueCap
        /\ Len(fenced) <= 1 /\ QueueCap \in Nat \ {0}
    BY Sizes DEF Types, QueueTypes
  <1>a. LoopMsgs \subseteq Msgs /\ FrameMsgs \subseteq Msgs /\ OwnMsgs \subseteq Msgs
                               /\ AnswerMsgs \subseteq Msgs /\ AnswerMsgs \subseteq LoopMsgs
    BY DEF Msgs, LoopMsgs
  <1>b. \A id \in Ids : Answer(id) \in AnswerMsgs
    BY DEF Answer, AnswerMsgs
  <1>c. Ping \in LoopMsgs /\ TooBig \in LoopMsgs
    BY DEF LoopMsgs
  <1>s. CASE UNCHANGED qvars
    BY <1>0, <1>s DEF QueueTypes
  <1>1. CASE Stops
    BY <1>0, <1>1 DEF Stops, Ends, QueueTypes
  <1>2. CASE Outside
    <2>1. CASE OwnSends
      <3> DEFINE n == Cardinality({k \in DOMAIN (wire \o own) : (wire \o own)[k][1] = "own"})
      <3>1. /\ Len(own) < QueueCap /\ own' = Append(own, <<"own", n + 1>>)
            /\ UNCHANGED <<wire, out, table, frames, fenced>>
        BY <2>1 DEF OwnSends, writeVars, fenceVars
      <3>2. wire \o own \in Seq(Msgs)
        <4>1. own \in Seq(Msgs)
          BY <1>0, <1>a
        <4> QED
          BY <1>0, <4>1
      <3>3. n \in Nat
        BY <3>2, OwnCount
      <3> HIDE DEF n
      <3>4. <<"own", n + 1>> \in OwnMsgs
        BY <3>3 DEF OwnMsgs
      <3> QED
        BY <1>0, <3>1, <3>4 DEF QueueTypes
    <2>2. ASSUME NEW id \in Ids, TaskAnswers(id) \/ SubAccepts(id) PROVE QueueTypes'
      <3>1. /\ Len(table) < QueueCap /\ table' = Append(table, Answer(id))
            /\ UNCHANGED <<wire, out, own, frames, fenced>>
        BY <2>2 DEF TaskAnswers, SubAccepts, writeVars, fenceVars
      <3> QED
        BY <1>0, <1>b, <3>1 DEF QueueTypes
    <2>3. ASSUME NEW id \in Ids, SubSends(id) PROVE QueueTypes'
      <3>1. /\ Len(frames) < QueueCap /\ frames' = Append(frames, FrameOf(id, made[id] + 1))
            /\ UNCHANGED <<wire, out, own, table, fenced>>
        BY <2>3 DEF SubSends, writeVars, fenceVars
      <3>2. FrameOf(id, made[id] + 1) \in FrameMsgs
        BY DEF FrameOf, FrameMsgs, Types, CallTypes
      <3> QED
        BY <1>0, <3>1, <3>2 DEF QueueTypes
    <2>4. ASSUME NEW id \in Ids, SubRefuses(id) \/ SubEnds(id) PROVE UNCHANGED qvars
      BY <2>4 DEF SubRefuses, SubEnds, queueVars, writeVars, fenceVars
    <2>5. ASSUME PeerSends \/ PeerBlocks \/ PeerUnblocks \/ Ask \/ PingDue PROVE UNCHANGED qvars
      BY <2>5 DEF PeerSends, PeerBlocks, PeerUnblocks, Ask, PingDue, queueVars, writeVars, fenceVars
    <2> HIDE DEF qvars
    <2> QED
      BY <1>2, <1>s, <2>1, <2>2, <2>3, <2>4, <2>5 DEF Outside
  <1>3. CASE ReadSide
    <2>1. CASE Top
      <3>1. out' = <<Ping>> \o out \/ out' = out
        BY <2>1 DEF Top
      <3>2. UNCHANGED <<wire, own, table, frames, fenced>>
        BY <2>1 DEF Top, writeVars, fenceVars
      <3>3. <<Ping>> \in Seq(LoopMsgs)
        BY <1>c
      <3>4. out' \in Seq(LoopMsgs)
        <4>1. <<Ping>> \o out \in Seq(LoopMsgs)
          BY <1>0, <3>3, ConcatProperties
        <4> QED
          BY <1>0, <3>1, <4>1, Zenon
      <3> QED
        BY <1>0, <3>2, <3>4 DEF QueueTypes
    <2>2. CASE PollAccepting
      <3> DEFINE refused == {id \in Resolved : phase[id] = "refused"}
      <3>1. UNCHANGED <<wire, own, table, frames, fenced>>
        BY <2>2 DEF PollAccepting, TakeResolved, writeVars, fenceVars
      <3>2. PICK ids \in [1..Cardinality(refused) -> refused] :
               out' = out \o [k \in DOMAIN ids |-> Answer(ids[k])]
        BY <2>2 DEF PollAccepting
      <3>3. refused \subseteq Ids /\ IsFiniteSet(Ids)
        <4>1. accepting \subseteq Ids
          BY DEF Types, CallTypes
        <4>2. IsFiniteSet(1..MaxMsgs)
          BY Sizes, FS_Interval
        <4> QED
          BY <4>1, <4>2 DEF Resolved, Ids
      <3>4. Cardinality(refused) \in Nat
        BY <3>3, FS_Subset, FS_CardinalityType
      <3> HIDE DEF refused
      <3>5. [k \in DOMAIN ids |-> Answer(ids[k])] \in Seq(LoopMsgs)
        BY <1>a, <1>b, <3>3, <3>4
      <3>6. out' \in Seq(LoopMsgs)
        BY <1>0, <3>2, <3>5, ConcatProperties
      <3> QED
        BY <1>0, <3>1, <3>6 DEF QueueTypes
    <2>3. ASSUME NEW s \in Seq(LoopMsgs), AnswerDrops(s), UNCHANGED <<wire, own, table, frames, fenced>>
          PROVE  QueueTypes'
      <3>1. drops \in Nat /\ out' = out \o s \o [k \in 1..drops |-> TooBig]
        BY <2>3 DEF AnswerDrops, Types, CountTypes, PeerTypes
      <3>2. [k \in 1..drops |-> TooBig] \in Seq(LoopMsgs)
        BY <1>c, <3>1
      <3> QED
        BY <1>0, <2>3, <3>1, <3>2 DEF QueueTypes
    <2>4. CASE ReadPending
      <3>1. AnswerDrops(<<>>) /\ UNCHANGED <<wire, own, table, frames, fenced>>
        BY <2>4 DEF ReadPending, writeVars, fenceVars
      <3>2. <<>> \in Seq(LoopMsgs)
        OBVIOUS
      <3> QED
        BY <2>3, <3>1, <3>2
    <2>5. CASE ReadMessage
      <3>1. UNCHANGED <<wire, own, table, frames, fenced>>
        BY <2>5 DEF ReadMessage, writeVars, fenceVars
      <3>2. taken + 1 \in Ids
        BY <2>5, Sizes DEF ReadMessage, Reading, Ids, Types, PeerTypes
      <3>3. <<Answer(taken + 1)>> \in Seq(LoopMsgs) /\ <<>> \in Seq(LoopMsgs)
        BY <1>a, <1>b, <3>2
      <3>4. AnswerDrops(<<Answer(taken + 1)>>) \/ AnswerDrops(<<>>)
        BY <2>5 DEF ReadMessage
      <3> QED
        BY <2>3, <3>1, <3>3, <3>4
    <2>6. ASSUME Poll \/ CoopSpent \/ ReadSkipped \/ ReadDropped PROVE UNCHANGED qvars
      BY <2>6 DEF Poll, CoopSpent, ReadSkipped, ReadDropped, queueVars, writeVars, fenceVars
    <2> HIDE DEF qvars
    <2> QED
      BY <1>3, <1>s, <2>1, <2>2, <2>4, <2>5, <2>6 DEF ReadSide
  <1>4. CASE WriteSide
    <2>1. CASE WriteOut
      BY <1>0, <1>a, <2>1, HeadTail DEF WriteOut, Send, fenceVars, QueueTypes
    <2>2. CASE WriteTableFirst
      BY <1>0, <1>a, <2>2, HeadTail DEF WriteTableFirst, Send, QueueTypes
    <2>3. CASE WriteFenced
      BY <1>0, <1>a, <2>3, HeadTail DEF WriteFenced, Send, queueVars, QueueTypes
    <2>4. CASE TakeFirst
      <3>1. frames # <<>>
        BY <2>4 DEF TakeFirst, Taking, Content
      <3>2. /\ fenced' = <<Head(frames)>> /\ frames' = Tail(frames)
            /\ UNCHANGED <<wire, out, own, table>>
        BY <2>4 DEF TakeFirst, writeVars
      <3> QED
        BY <1>0, <3>1, <3>2, HeadTail DEF QueueTypes
    <2>5. ASSUME NEW q \in QueueNames, Take(q) PROVE QueueTypes'
      <3>1. Content(q) # <<>> /\ wire' = Append(wire, Head(Content(q))) /\ UNCHANGED <<out, fenced>>
        BY <2>5 DEF Take, Taking, Send
      <3>2. /\ own' = (IF q = "own" THEN Tail(own) ELSE own)
            /\ table' = (IF q = "table" THEN Tail(table) ELSE table)
            /\ frames' = (IF q = "frames" THEN Tail(frames) ELSE frames)
        BY <2>5 DEF Take
      <3>3. CASE q = "own"
        BY <1>0, <1>a, <3>1, <3>2, <3>3, HeadTail DEF Content, QueueTypes
      <3>4. CASE q = "table"
        BY <1>0, <1>a, <3>1, <3>2, <3>4, HeadTail DEF Content, QueueTypes
      <3>5. CASE q = "frames"
        BY <1>0, <1>a, <3>1, <3>2, <3>5, HeadTail DEF Content, QueueTypes
      <3> QED
        BY <3>3, <3>4, <3>5 DEF QueueNames
    <2>6. ASSUME WriteStops \/ WriteReady \/ WriteTurns \/ TakeNothing \/ TakeNone \/ Flush \/ Again
          PROVE  UNCHANGED qvars
      BY <2>6 DEF WriteStops, WriteReady, WriteTurns, TakeNothing, TakeNone, Flush, Again,
                  queueVars, writeVars, fenceVars
    <2> HIDE DEF qvars
    <2> QED
      BY <1>4, <1>s, <2>1, <2>2, <2>3, <2>4, <2>5, <2>6 DEF WriteSide
  <1> QED
    BY <1>1, <1>2, <1>3, <1>4, NextIs

\* The counters stay within their bounds.
LEMMA CountTyped ==
    ASSUME Types, LoopOK, Next
    PROVE  CountTypes'
  <1>0. /\ turn \in 0..2 /\ slot \in 0..3 /\ taken \in Nat
        /\ gathered \in 0..Budget /\ reads \in 0..ReadBudget /\ drops \in 0..taken
        /\ pc \in {"parked", "top", "accept", "read", "write", "take", "flush", "again", "ended"}
        /\ armed \subseteq Sources /\ passed \in [QueueNames -> Nat] /\ ahead \in [QueueNames -> Nat]
        /\ Budget \in Nat \ {0} /\ ReadBudget \in Nat \ {0}
    BY Sizes DEF Types, CountTypes, PeerTypes
  <1>1. CASE Stops
    BY <1>0, <1>1 DEF Stops, Ends, CountTypes
  <1>2. CASE Outside
    <2>1. UNCHANGED <<turn, slot, gathered, reads, drops, taken, pc, passed, ahead>>
      BY <1>2 DEF Outside, PeerSends, PeerBlocks, PeerUnblocks, Ask, PingDue, OwnSends, TaskAnswers,
                  SubAccepts, SubRefuses, SubSends, SubEnds, loopVars, fenceVars, writeVars
    <2>2. armed' \subseteq armed
      BY <1>2 DEF Outside, PeerSends, PeerBlocks, PeerUnblocks, Ask, PingDue, OwnSends, TaskAnswers,
                  SubAccepts, SubRefuses, SubSends, SubEnds, Wakes
    <2> QED
      BY <1>0, <2>1, <2>2 DEF CountTypes
  <1>3. CASE ReadSide
    <2>1. UNCHANGED <<turn, slot, gathered, passed, ahead>>
      BY <1>3 DEF ReadSide, Poll, Top, PollAccepting, TakeResolved, CoopSpent, ReadSkipped, ReadPending,
                  ReadDropped, ReadMessage, loopVars, fenceVars, writeVars
    <2>2. armed' \subseteq armed \cup {"accept", "read"}
      BY <1>3 DEF ReadSide, Poll, Top, PollAccepting, TakeResolved, CoopSpent, ReadSkipped, ReadPending,
                  ReadDropped, ReadMessage
    <2>3. \/ UNCHANGED <<drops, taken>>
          \/ drops' = drops + 1 /\ taken' = taken + 1
          \/ drops' = 0 /\ taken' \in {taken, taken + 1}
      BY <1>3 DEF ReadSide, Poll, Top, PollAccepting, TakeResolved, CoopSpent, ReadSkipped, ReadPending,
                  ReadDropped, ReadMessage, AnswerDrops
    <2>4. reads' = reads \/ (reads < ReadBudget /\ reads' = reads + 1)
      BY <1>3 DEF ReadSide, Poll, Top, PollAccepting, TakeResolved, CoopSpent, ReadSkipped, ReadPending,
                  ReadDropped, ReadMessage, Reading, MayRead, loopVars
    <2>5. pc' \in {pc, "top", "accept", "read", "write"}
      BY <1>3 DEF ReadSide, Poll, Top, PollAccepting, TakeResolved, CoopSpent, ReadSkipped, ReadPending,
                  ReadDropped, ReadMessage, loopVars
    <2> QED
      BY <1>0, <2>1, <2>2, <2>3, <2>4, <2>5 DEF CountTypes, Sources
  <1>4. CASE WriteSide
    <2>1. UNCHANGED <<drops, taken>>
      BY <1>4 DEF WriteSide, WriteStops, WriteReady, WriteOut, WriteTableFirst, WriteFenced, WriteTurns,
                  TakeNothing, TakeNone, TakeFirst, Take, Flush, Again
    <2>2. gathered' = gathered \/ gathered' = 0 \/ (gathered < Budget /\ gathered' = gathered + 1)
      BY <1>4 DEF WriteSide, WriteStops, WriteReady, WriteOut, WriteTableFirst, WriteFenced, WriteTurns,
                  TakeNothing, TakeNone, TakeFirst, Take, Taking, Flush, Again, Send, Writable, writeVars,
                  LoopOK
    <2>3. reads' = reads \/ reads' = 0
      BY <1>4 DEF WriteSide, WriteStops, WriteReady, WriteOut, WriteTableFirst, WriteFenced, WriteTurns,
                  TakeNothing, TakeNone, TakeFirst, Take, Flush, Again, loopVars
    <2>4. pc' \in {pc, "write", "take", "flush", "again", "accept", "parked"}
      BY <1>4 DEF WriteSide, WriteStops, WriteReady, WriteOut, WriteTableFirst, WriteFenced, WriteTurns,
                  TakeNothing, TakeNone, TakeFirst, Take, Send, Flush, Again, loopVars
    <2>5. armed' \subseteq Sources
      <3>1. CASE TakeNothing
        <4>1. QueueAt \in QueueNames
          BY <1>0, <3>1, QueueAtIs DEF TakeNothing
        <4> QED
          BY <1>0, <3>1, <4>1 DEF TakeNothing, QueueNames, Sources
      <3>2. CASE WriteStops \/ Flush
        BY <1>0, <3>2 DEF WriteStops, Flush, Sources
      <3> QED
        BY <1>0, <1>4, <3>1, <3>2
           DEF WriteSide, WriteReady, WriteOut, WriteTableFirst, WriteFenced, WriteTurns, TakeNone,
               TakeFirst, Take, Again
    <2>6. turn' \in 0..2 /\ slot' \in 0..3
      <3>1. ASSUME NEW q, Taking(q), TurnPast(q) PROVE turn' \in 0..2 /\ slot' \in 0..3
        BY <1>0, <3>1, QueueAtIs DEF Taking, TurnPast
      <3>2. CASE TakeNothing \/ TakeNone
        BY <1>0, <3>2 DEF TakeNothing, TakeNone, fenceVars
      <3>3. CASE UNCHANGED <<turn, slot>>
        BY <1>0, <3>3
      <3> QED
        BY <1>4, <3>1, <3>2, <3>3
           DEF WriteSide, WriteStops, WriteReady, WriteOut, WriteTableFirst, WriteFenced, WriteTurns,
               TakeFirst, Take, Flush, Again, loopVars, fenceVars
    <2>7. passed' \in [QueueNames -> Nat] /\ ahead' \in [QueueNames -> Nat]
      <3>1. ASSUME NEW q, TurnPast(q)
            PROVE  passed' \in [QueueNames -> Nat] /\ ahead' \in [QueueNames -> Nat]
        BY <1>0, <3>1 DEF TurnPast, Past
      <3>2. CASE WriteTableFirst
        BY <1>0, <3>2 DEF WriteTableFirst, Past
      <3>3. CASE UNCHANGED <<passed, ahead>>
        BY <1>0, <3>3
      <3> QED
        BY <1>4, <3>1, <3>2, <3>3
           DEF WriteSide, WriteStops, WriteReady, WriteOut, WriteFenced, WriteTurns, TakeNothing,
               TakeNone, TakeFirst, Take, Flush, Again, fenceVars
    <2> QED
      BY <1>0, <2>1, <2>2, <2>3, <2>4, <2>5, <2>6, <2>7 DEF CountTypes
  <1> QED
    BY <1>1, <1>2, <1>3, <1>4, NextIs

\* The flags are flags.
LEMMA FlagTyped ==
    ASSUME Types, Next
    PROVE  FlagTypes'
  <1>0. /\ unflushed \in BOOLEAN /\ sendable \in BOOLEAN /\ moved \in BOOLEAN /\ spent \in BOOLEAN
        /\ woken \in BOOLEAN /\ asked \in BOOLEAN /\ due \in BOOLEAN /\ blocked \in BOOLEAN
    BY DEF Types, FlagTypes
  <1>1. CASE Stops
    BY <1>0, <1>1 DEF Stops, Ends, FlagTypes, peerVars, timeVars
  <1>2. CASE Outside
    <2>1. UNCHANGED <<unflushed, sendable, moved, spent>>
      BY <1>2
         DEF Outside, PeerSends, PeerBlocks, PeerUnblocks, Ask, PingDue, OwnSends, TaskAnswers,
             SubAccepts, SubRefuses, SubSends, SubEnds, loopVars, writeVars
    <2>2. asked' \in {asked, TRUE} /\ due' \in {due, TRUE} /\ blocked' \in {blocked, TRUE, FALSE}
      BY <1>2
         DEF Outside, PeerSends, PeerBlocks, PeerUnblocks, Ask, PingDue, OwnSends, TaskAnswers,
             SubAccepts, SubRefuses, SubSends, SubEnds, peerVars, timeVars
    <2>3. woken' \in BOOLEAN
      <3>1. ASSUME NEW src, Wakes(src) PROVE woken' \in BOOLEAN
        BY <3>1 DEF Wakes
      <3>2. ASSUME NEW id \in Ids, SubAccepts(id) PROVE woken' \in BOOLEAN
        BY <3>2 DEF SubAccepts
      <3> QED
        BY <1>0, <1>2, <3>1, <3>2
           DEF Outside, PeerSends, PeerBlocks, PeerUnblocks, Ask, PingDue, OwnSends, TaskAnswers,
               SubRefuses, SubSends, SubEnds
    <2>4. asked' \in BOOLEAN /\ due' \in BOOLEAN /\ blocked' \in BOOLEAN
      BY <1>0, <2>2
    <2> QED
      BY <1>0, <2>1, <2>3, <2>4 DEF FlagTypes
  <1>3. CASE ReadSide
    <2>1. /\ UNCHANGED <<unflushed, sendable, asked, blocked>>
          /\ due' \in {due, FALSE} /\ spent' \in {spent, TRUE}
      BY <1>3 DEF ReadSide, Poll, Top, PollAccepting, TakeResolved, CoopSpent, ReadSkipped, ReadPending,
                  ReadDropped, ReadMessage, peerVars, timeVars, loopVars, writeVars
    <2>2. moved' \in BOOLEAN
      <3>1. CASE PollAccepting
        BY <3>1 DEF PollAccepting, TakeResolved
      <3> QED
        BY <1>0, <1>3, <3>1 DEF ReadSide, Poll, Top, CoopSpent, ReadSkipped, ReadPending, ReadDropped,
                                ReadMessage, loopVars
    <2>3. woken' \in BOOLEAN
      <3>1. CASE PollAccepting \/ ReadPending
        BY <3>1 DEF PollAccepting, TakeResolved, ReadPending
      <3> QED
        BY <1>0, <1>3, <3>1 DEF ReadSide, Poll, Top, CoopSpent, ReadSkipped, ReadDropped, ReadMessage
    <2>4. due' \in BOOLEAN /\ spent' \in BOOLEAN
      BY <1>0, <2>1
    <2> QED
      BY <1>0, <2>1, <2>2, <2>3, <2>4 DEF FlagTypes
  <1>4. CASE WriteSide
    <2>1. UNCHANGED <<asked, due, blocked>>
      BY <1>4 DEF WriteSide, WriteStops, WriteReady, WriteOut, WriteTableFirst, WriteFenced, WriteTurns,
                  TakeNothing, TakeNone, TakeFirst, Take, Flush, Again, peerVars, timeVars
    <2>2. ASSUME NEW m, Send(m)
          PROVE  unflushed' \in BOOLEAN /\ sendable' \in BOOLEAN /\ moved' \in BOOLEAN
      BY <2>2 DEF Send
    <2>3. unflushed' \in BOOLEAN /\ sendable' \in BOOLEAN /\ moved' \in BOOLEAN
      BY <1>0, <1>4, <2>2
         DEF WriteSide, WriteStops, WriteReady, WriteOut, WriteTableFirst, WriteFenced, WriteTurns,
             TakeNothing, TakeNone, TakeFirst, Take, Flush, Again, loopVars, writeVars
    <2>4. spent' \in BOOLEAN
      BY <1>0, <1>4
         DEF WriteSide, WriteStops, WriteReady, WriteOut, WriteTableFirst, WriteFenced, WriteTurns,
             TakeNothing, TakeNone, TakeFirst, Take, Flush, Again, loopVars
    <2>5. woken' \in BOOLEAN
      <3>1. CASE TakeNothing \/ Again
        BY <3>1 DEF TakeNothing, Again
      <3> QED
        BY <1>0, <1>4, <3>1
           DEF WriteSide, WriteStops, WriteReady, WriteOut, WriteTableFirst, WriteFenced, WriteTurns,
               TakeNone, TakeFirst, Take, Flush
    <2> QED
      BY <1>0, <2>1, <2>3, <2>4, <2>5 DEF FlagTypes
  <1> QED
    BY <1>1, <1>2, <1>3, <1>4, NextIs

\* The places of poll_run are as they are described.
LEMMA LoopKept ==
    ASSUME Types, LoopOK, Next
    PROVE  LoopOK'
  <1>0. /\ gathered \in 0..Budget /\ reads \in 0..ReadBudget
        /\ Budget \in Nat \ {0} /\ ReadBudget \in Nat \ {0}
        /\ moved \in BOOLEAN /\ unflushed \in BOOLEAN /\ sendable \in BOOLEAN
    BY Sizes DEF Types, CountTypes, FlagTypes
  <1>1. CASE Stops
    BY <1>0, <1>1 DEF Stops, Ends, LoopOK
  <1>2. CASE Outside
    <2>1. UNCHANGED <<slot, gathered, sendable, unflushed, reads, moved, pc, out, fenced>>
      BY <1>2 DEF Outside, PeerSends, PeerBlocks, PeerUnblocks, Ask, PingDue, OwnSends, TaskAnswers,
                  SubAccepts, SubRefuses, SubSends, SubEnds, loopVars, fenceVars, writeVars, queueVars
    <2> QED
      BY <2>1 DEF LoopOK
  <1>3. CASE ReadSide
    <2>1. UNCHANGED <<slot, gathered, sendable, unflushed>>
      BY <1>3 DEF ReadSide, Poll, Top, PollAccepting, TakeResolved, CoopSpent, ReadSkipped, ReadPending,
                  ReadDropped, ReadMessage, loopVars, writeVars
    <2>2. CASE ReadMessage
      BY <1>0, <2>1, <2>2 DEF ReadMessage, Reading, LoopOK
    <2>3. CASE PollAccepting
      BY <1>0, <2>1, <2>3 DEF PollAccepting, TakeResolved, LoopOK
    <2>4. CASE CoopSpent \/ ReadDropped
      <3>1. UNCHANGED <<pc, reads, moved, out, fenced>>
        BY <2>4 DEF CoopSpent, ReadDropped, loopVars, queueVars, fenceVars
      <3> QED
        BY <2>1, <3>1 DEF LoopOK
    <2>5. CASE Poll \/ Top \/ ReadSkipped \/ ReadPending
      <3>1. /\ UNCHANGED <<reads, moved>>
            /\ \/ pc \in {"parked", "top", "accept"} /\ pc' \in {"top", "accept"}
               \/ pc = "read" /\ pc' = "write"
        BY <2>5 DEF Poll, Top, ReadSkipped, ReadPending
      <3> QED
        BY <1>0, <2>1, <3>1 DEF LoopOK
    <2> QED
      BY <1>3, <2>2, <2>3, <2>4, <2>5 DEF ReadSide
  <1>4. CASE WriteSide
    <2>1. CASE WriteStops \/ WriteTurns \/ TakeNone
      <3>1. UNCHANGED <<gathered, sendable, unflushed, reads, moved, out, fenced>>
        BY <2>1 DEF WriteStops, WriteTurns, TakeNone, writeVars, queueVars, fenceVars
      <3>2. \/ pc = "write" /\ pc' = "flush" /\ slot' = slot
            \/ pc = "take" /\ pc' = "flush" /\ slot' = 0
            \/ /\ pc = "write" /\ pc' = "take" /\ slot' = slot
               /\ gathered < Budget /\ sendable /\ out = <<>> /\ fenced = <<>>
        BY <2>1 DEF WriteStops, WriteTurns, TakeNone, Writable
      <3> QED
        BY <1>0, <3>1, <3>2 DEF LoopOK
    <2>2. CASE WriteReady
      BY <1>0, <2>2 DEF WriteReady, LoopOK, loopVars
    <2>3. ASSUME NEW m, Send(m), slot' = 0, reads' = reads PROVE LoopOK'
      BY <1>0, <2>3 DEF Send, LoopOK
    <2>4. CASE WriteOut \/ WriteTableFirst \/ WriteFenced
      BY <2>3, <2>4 DEF WriteOut, WriteTableFirst, WriteFenced, Writable, LoopOK
    <2>5. ASSUME NEW q, Take(q) PROVE LoopOK'
      BY <2>3, <2>5 DEF Take, TurnPast
    <2>6. CASE TakeNothing
      BY <1>0, <2>6 DEF TakeNothing, LoopOK, queueVars, writeVars, fenceVars
    <2>7. CASE TakeFirst
      BY <1>0, <2>7 DEF TakeFirst, Taking, TurnPast, LoopOK, writeVars
    <2>8. CASE Flush
      BY <1>0, <2>8 DEF Flush, LoopOK
    <2>9. CASE Again
      BY <1>0, <2>9 DEF Again, LoopOK, writeVars
    <2> QED
      BY <1>4, <2>1, <2>2, <2>4, <2>5, <2>6, <2>7, <2>8, <2>9 DEF WriteSide
  <1> QED
    BY <1>1, <1>2, <1>3, <1>4, NextIs

\* The types are kept.
LEMMA TypesKept ==
    ASSUME Types, LoopOK, Next
    PROVE  Types'
  BY PeerTyped, CallTyped, QueueTyped, CountTyped, FlagTyped DEF Types

\* The loop takes the frames by turns.
LEMMA TurnsKept ==
    ASSUME Types, LoopOK, TurnsOK, Next
    PROVE  TurnsOK'
  <1>0. /\ turn \in 0..2 /\ slot \in 0..3 /\ spent \in BOOLEAN
        /\ passed \in [QueueNames -> Nat] /\ ahead \in [QueueNames -> Nat]
    BY DEF Types, CountTypes, FlagTypes
  <1>1. CASE Stops
    <2>1. /\ passed' = [q \in QueueNames |-> 0] /\ ahead' = [q \in QueueNames |-> 0]
          /\ turn' = 0 /\ pc' = "ended"
      BY <1>0, <1>1 DEF Stops, Ends
    <2> QED
      BY <2>1, OffsetIs DEF TurnsOK
  <1>2. ASSUME UNCHANGED <<turn, passed, ahead>>,
               \A q \in QueueNames : Content(q)' = <<>> => Content(q) = <<>>,
               pc' = "take" /\ ~spent' => slot' = 0 \/ (pc = "take" /\ ~spent /\ slot' = slot)
        PROVE  TurnsOK'
    <2> SUFFICES ASSUME NEW q \in QueueNames
                 PROVE  /\ Content(q)' = <<>> => passed[q] = 0
                        /\ passed[q] + Offset(turn, q) <= 2 + ahead[q]
                        /\ pc' = "take" /\ ~spent' /\ Offset(turn, q) < slot' => passed[q] = 0
      BY <1>2 DEF TurnsOK
    <2>1. Offset(turn, q) \in 0..2
      BY <1>0, OffsetIs
    <2> QED
      BY <1>2, <2>1 DEF TurnsOK
  <1>3. CASE Outside
    <2>1. UNCHANGED <<turn, passed, ahead, pc, spent, slot>>
      BY <1>3 DEF Outside, PeerSends, PeerBlocks, PeerUnblocks, Ask, PingDue, OwnSends, TaskAnswers,
                  SubAccepts, SubRefuses, SubSends, SubEnds, loopVars, fenceVars
    <2>2. \A q \in QueueNames : Content(q)' = <<>> => Content(q) = <<>>
      <3>1. /\ own \in Seq(OwnMsgs) /\ table \in Seq(AnswerMsgs) /\ frames \in Seq(FrameMsgs)
        BY DEF Types, QueueTypes
      <3>2. /\ own' = own \/ \E x : own' = Append(own, x)
            /\ table' = table \/ \E x : table' = Append(table, x)
            /\ frames' = frames \/ \E x : frames' = Append(frames, x)
        BY <1>3 DEF Outside, PeerSends, PeerBlocks, PeerUnblocks, Ask, PingDue, OwnSends, TaskAnswers,
                    SubAccepts, SubRefuses, SubSends, SubEnds, queueVars
      <3>3. ASSUME NEW S, NEW s \in Seq(S), NEW x PROVE Append(s, x) # <<>>
        <4>1. s \in Seq(S \cup {x}) /\ x \in S \cup {x}
          OBVIOUS
        <4> QED
          BY <4>1, AppendProperties
      <3> QED
        BY <3>1, <3>2, <3>3 DEF Content
    <2> QED
      BY <1>2, <2>1, <2>2
  <1>4. CASE ReadSide
    <2>1. UNCHANGED <<turn, passed, ahead, own, table, frames>>
      BY <1>4 DEF ReadSide, Poll, Top, PollAccepting, TakeResolved, CoopSpent, ReadSkipped, ReadPending,
                  ReadDropped, ReadMessage, queueVars, fenceVars
    <2>2. pc' = "take" /\ ~spent' => pc = "take" /\ ~spent /\ slot' = slot
      BY <1>0, <1>4
         DEF ReadSide, Poll, Top, PollAccepting, TakeResolved, CoopSpent, ReadSkipped, ReadPending,
             ReadDropped, ReadMessage, Reading, loopVars
    <2>3. \A q \in QueueNames : Content(q)' = Content(q)
      BY <2>1 DEF Content
    <2> QED
      BY <1>2, <2>1, <2>2, <2>3
  <1>5. CASE WriteSide
    <2>1. CASE \/ WriteStops \/ WriteReady \/ WriteOut \/ WriteFenced \/ WriteTurns
               \/ TakeNone \/ Flush \/ Again
      <3>1. UNCHANGED <<turn, passed, ahead, own, table, frames>>
        BY <2>1 DEF WriteStops, WriteReady, WriteOut, WriteFenced, WriteTurns, TakeNone, Flush, Again,
                    queueVars, fenceVars
      <3>2. pc' = "take" => slot' = 0
        BY <2>1 DEF WriteStops, WriteReady, WriteOut, WriteFenced, WriteTurns, TakeNone, Flush, Again,
                    Writable, Send, loopVars, LoopOK
      <3>3. \A q \in QueueNames : Content(q)' = Content(q)
        BY <3>1 DEF Content
      <3> QED
        BY <1>2, <3>1, <3>2, <3>3
    <2>2. CASE WriteTableFirst
      <3>1. /\ passed' = Past("table", passed, 1) /\ ahead' = Past("table", ahead, 1)
            /\ pc' = "write" /\ UNCHANGED <<turn, own, frames>>
        BY <2>2 DEF WriteTableFirst, Send
      <3> SUFFICES ASSUME NEW q \in QueueNames
                   PROVE  /\ Content(q)' = <<>> => passed'[q] = 0
                          /\ passed'[q] + Offset(turn, q) <= 2 + ahead'[q]
        BY <3>1 DEF TurnsOK
      <3>2. Offset(turn, q) \in 0..2
        BY <1>0, OffsetIs
      <3>3. LET none == q = "table" \/ Content(q) = <<>> IN
               /\ passed'[q] = (IF none THEN 0 ELSE passed[q] + 1)
               /\ ahead'[q] = (IF none THEN 0 ELSE ahead[q] + 1)
        BY <1>0, <3>1 DEF Past
      <3>4. q # "table" => Content(q)' = Content(q)
        BY <3>1 DEF Content, QueueNames
      <3> QED
        BY <1>0, <3>2, <3>3, <3>4 DEF TurnsOK
    <2>3. CASE TakeNothing
      <3>1. /\ slot \in 0..2 /\ pc = "take" /\ slot' = slot + 1 /\ spent' = spent
            /\ spent \/ Content(QueueAt) = <<>>
            /\ UNCHANGED <<turn, passed, ahead, own, table, frames>>
        BY <1>0, <2>3 DEF TakeNothing, queueVars, fenceVars
      <3> SUFFICES ASSUME NEW q \in QueueNames
                   PROVE  /\ Content(q) = <<>> => passed[q] = 0
                          /\ passed[q] + Offset(turn, q) <= 2 + ahead[q]
                          /\ ~spent /\ Offset(turn, q) < slot + 1 => passed[q] = 0
        BY <3>1 DEF TurnsOK, Content
      <3>2. Offset(turn, q) \in 0..2
        BY <1>0, OffsetIs
      <3>3. Offset(turn, q) = slot => q = QueueAt
        BY <1>0, <3>1, QueueAtIs
      <3> QED
        BY <1>0, <3>1, <3>2, <3>3 DEF TurnsOK
    <2>4. ASSUME NEW p \in QueueNames, Taking(p), TurnPast(p), pc' = "write",
                 \A q \in QueueNames : q # p => Content(q)' = Content(q)
          PROVE  TurnsOK'
      <3>1. /\ slot \in 0..2 /\ ~spent /\ QueueAt = p /\ pc = "take"
            /\ turn' = (turn + slot + 1) % 3
            /\ passed' = [r \in QueueNames |->
                             IF r = p \/ Content(r) = <<>> THEN 0 ELSE passed[r] + 1]
            /\ ahead' = [r \in QueueNames |->
                            IF r = p \/ Content(r) = <<>> THEN 0 ELSE ahead[r] + 0]
        BY <1>0, <2>4 DEF Taking, TurnPast, Past
      <3> SUFFICES ASSUME NEW q \in QueueNames
                   PROVE  /\ Content(q)' = <<>> => passed'[q] = 0
                          /\ passed'[q] + Offset(turn', q) <= 2 + ahead'[q]
        BY <2>4 DEF TurnsOK
      <3>2. Offset(turn, q) \in 0..2 /\ passed[q] \in Nat /\ ahead[q] \in Nat
        BY <1>0, OffsetIs
      <3>3. Offset(turn', q) = IF Offset(turn, q) > slot THEN Offset(turn, q) - slot - 1
                               ELSE Offset(turn, q) + 2 - slot
        BY <1>0, <3>1, QueueAtIs
      <3>4. Offset(turn, q) = slot => q = p
        BY <1>0, <3>1, QueueAtIs
      <3>5. passed[q] + Offset(turn, q) <= 2 + ahead[q] /\ (Offset(turn, q) < slot => passed[q] = 0)
        BY <3>1 DEF TurnsOK
      <3>6. /\ passed'[q] = IF q = p \/ Content(q) = <<>> THEN 0 ELSE passed[q] + 1
            /\ ahead'[q] = IF q = p \/ Content(q) = <<>> THEN 0 ELSE ahead[q]
        BY <3>1, <3>2
      <3>7. passed'[q] + Offset(turn', q) <= 2 + ahead'[q]
        <4>1. Offset(turn', q) \in 0..2
          BY <3>1, <3>2, <3>3
        <4>2. CASE q = p \/ Content(q) = <<>>
          BY <3>6, <4>1, <4>2
        <4>3. CASE q # p /\ Content(q) # <<>>
          <5>1. passed'[q] = passed[q] + 1 /\ ahead'[q] = ahead[q]
            BY <3>6, <4>3
          <5>2. CASE Offset(turn, q) > slot
            BY <3>1, <3>2, <3>3, <3>5, <5>1, <5>2
          <5>3. CASE Offset(turn, q) < slot
            BY <3>1, <3>2, <3>3, <3>5, <5>1, <5>3
          <5> QED
            BY <3>1, <3>2, <3>4, <4>3, <5>2, <5>3
        <4> QED
          BY <4>2, <4>3
      <3>8. Content(q)' = <<>> => q = p \/ Content(q) = <<>>
        BY <2>4
      <3>9. Content(q)' = <<>> => passed'[q] = 0
        BY <3>6, <3>8
      <3> QED
        BY <3>7, <3>9
    <2>5. CASE TakeFirst
      BY <2>4, <2>5 DEF TakeFirst, QueueNames, Content
    <2>6. ASSUME NEW p \in QueueNames, Take(p) PROVE TurnsOK'
      <3>1. \A q \in QueueNames : q # p => Content(q)' = Content(q)
        BY <2>6 DEF Take, QueueNames, Content
      <3> QED
        BY <2>4, <2>6, <3>1 DEF Take, Send
    <2> QED
      BY <1>5, <2>1, <2>2, <2>3, <2>5, <2>6 DEF WriteSide
  <1> QED
    BY <1>1, <1>3, <1>4, <1>5, NextIs

-----------------------------------------------------------------------------
\* What a step from outside does to a loop it does not wake: nothing that the
\* loop has a waker for.
LEMMA OutsideWakes ==
    ASSUME Types, Outside, ~woken'
    PROVE  /\ ~woken /\ armed' = armed /\ asked' = asked /\ due' = due
           /\ "own" \in armed => own' = own
           /\ "table" \in armed => table' = table
           /\ "frames" \in armed => frames' = frames
           /\ "read" \in armed => asks' = asks
           /\ "write" \in armed => (blocked => blocked')
           /\ "accept" \in armed =>
                 \A id \in Ids : phase[id] = "accepting" => phase'[id] = "accepting"
  <1>0. woken \in BOOLEAN /\ blocked \in BOOLEAN
        /\ phase \in [Ids -> {"none", "running", "accepting", "accepted", "refused", "over"}]
    BY DEF Types, FlagTypes, CallTypes
  <1>1. ASSUME NEW src, Wakes(src) PROVE ~woken /\ src \notin armed /\ armed' = armed
    BY <1>0, <1>1 DEF Wakes
  <1>2. CASE PeerSends
    BY <1>1, <1>2 DEF PeerSends, queueVars, callVars, timeVars
  <1>3. CASE PeerUnblocks
    BY <1>1, <1>3 DEF PeerUnblocks, queueVars, callVars, timeVars
  <1>4. CASE PeerBlocks
    BY <1>4 DEF PeerBlocks, queueVars, callVars, timeVars
  <1>5. CASE Ask \/ PingDue
    BY <1>5 DEF Ask, PingDue
  <1>6. CASE OwnSends
    BY <1>1, <1>6 DEF OwnSends, peerVars, callVars, timeVars
  <1>7. CASE \E i \in Ids : TaskAnswers(i)
    <2>1. PICK i \in Ids : TaskAnswers(i)
      BY <1>7
    <2>2. ~woken /\ "table" \notin armed /\ armed' = armed
      BY <1>1, <2>1 DEF TaskAnswers
    <2>3. \A id \in Ids : phase[id] = "accepting" => phase'[id] = "accepting"
      BY <1>0, <2>1 DEF TaskAnswers
    <2> QED
      BY <2>1, <2>2, <2>3 DEF TaskAnswers, peerVars, timeVars
  <1>8. CASE \E i \in Ids : SubAccepts(i)
    <2>1. PICK i \in Ids : SubAccepts(i)
      BY <1>8
    <2>2. ~woken /\ "table" \notin armed /\ "accept" \notin armed /\ armed' = armed
      <3>1. woken' = (woken \/ armed \cap {"table", "accept"} # {}) /\ armed' = armed \ {"table", "accept"}
        BY <2>1 DEF SubAccepts
      <3>2. ~woken /\ armed \cap {"table", "accept"} = {}
        BY <1>0, <3>1
      <3> QED
        BY <3>1, <3>2
    <2> QED
      BY <2>1, <2>2 DEF SubAccepts, peerVars, timeVars
  <1>9. CASE \E i \in Ids : SubRefuses(i)
    <2>1. PICK i \in Ids : SubRefuses(i)
      BY <1>9
    <2>2. ~woken /\ "accept" \notin armed /\ armed' = armed
      BY <1>1, <2>1 DEF SubRefuses
    <2> QED
      BY <2>1, <2>2 DEF SubRefuses, peerVars, timeVars, queueVars
  <1>10. CASE \E i \in Ids : SubSends(i)
    <2>1. PICK i \in Ids : SubSends(i)
      BY <1>10
    <2>2. ~woken /\ "frames" \notin armed /\ armed' = armed
      BY <1>1, <2>1 DEF SubSends
    <2> QED
      BY <2>1, <2>2 DEF SubSends, peerVars, timeVars
  <1>11. CASE \E i \in Ids : SubEnds(i)
    <2>1. PICK i \in Ids : SubEnds(i)
      BY <1>11
    <2>2. \A id \in Ids : phase[id] = "accepting" => phase'[id] = "accepting"
      BY <1>0, <2>1 DEF SubEnds
    <2> QED
      BY <2>1, <2>2 DEF SubEnds, peerVars, timeVars, queueVars
  <1> QED
    BY <1>2, <1>3, <1>4, <1>5, <1>6, <1>7, <1>8, <1>9, <1>10, <1>11 DEF Outside

\* A loop that is not woken still waits on all it has polled.
LEMMA WakeKept ==
    ASSUME Types, LoopOK, WakeOK, Next
    PROVE  WakeOK'
  <1>0. /\ turn \in 0..2 /\ slot \in 0..3 /\ gathered \in 0..Budget /\ reads \in 0..ReadBudget
        /\ ReadBudget \in Nat \ {0} /\ Budget \in Nat \ {0} /\ OutHigh \in Nat \ {0}
        /\ woken \in BOOLEAN /\ moved \in BOOLEAN /\ unflushed \in BOOLEAN /\ blocked \in BOOLEAN
        /\ spent \in BOOLEAN /\ asked \in BOOLEAN /\ due \in BOOLEAN
        /\ accepting \subseteq Ids /\ out \in Seq(LoopMsgs) /\ Len(out) \in Nat
    BY Sizes DEF Types, CountTypes, FlagTypes, CallTypes, QueueTypes
  <1>1. CASE Stops
    BY <1>1 DEF Stops, Ends, WakeOK, PastAccept, PastRead
  <1>2. CASE Outside
    <2> SUFFICES ASSUME ~woken' PROVE WakeOK'
      BY DEF WakeOK
    <2>1. UNCHANGED <<turn, slot, gathered, taken, pc, moved, unflushed, out, fenced, accepting>>
      BY <1>2 DEF Outside, PeerSends, PeerBlocks, PeerUnblocks, Ask, PingDue, OwnSends, TaskAnswers,
                  SubAccepts, SubRefuses, SubSends, SubEnds, loopVars, fenceVars, writeVars, queueVars
    <2>2. /\ ~woken /\ armed' = armed /\ asked' = asked /\ due' = due
          /\ "own" \in armed => own' = own
          /\ "table" \in armed => table' = table
          /\ "frames" \in armed => frames' = frames
          /\ "read" \in armed => asks' = asks
          /\ "write" \in armed => (blocked => blocked')
          /\ "accept" \in armed =>
                \A id \in Ids : phase[id] = "accepting" => phase'[id] = "accepting"
      BY <1>2, OutsideWakes
    <2>3. \A q \in QueueNames : QueueWaits(q) => QueueWaits(q)'
      BY <2>2 DEF QueueWaits, Content, QueueNames
    <2>4. (AcceptWaits => AcceptWaits') /\ (ReadWaits => ReadWaits') /\ (WriteWaits => WriteWaits')
      BY <1>0, <2>1, <2>2 DEF AcceptWaits, ReadWaits, WriteWaits
    <2>5. AllWait => AllWait'
      BY <2>1, <2>3 DEF AllWait
    <2>6. pc = "take" => \A q \in QueueNames : Offset(turn, q) < slot => QueueWaits(q)'
      BY <2>2, <2>3 DEF WakeOK
    <2> QED
      BY <2>1, <2>2, <2>4, <2>5, <2>6 DEF WakeOK
  <1>3. CASE ReadSide
    <2>1. CASE Poll \/ Top
      <3>1. \/ pc' = "top"
            \/ pc' = "accept" /\ ~asked /\ asked' = asked /\ due' = FALSE
        BY <2>1 DEF Poll, Top
      <3> QED
        BY <3>1 DEF WakeOK, PastAccept, PastRead
    <2>2. CASE CoopSpent
      <3>1. UNCHANGED <<turn, slot, gathered, taken, pc, moved, unflushed, out, fenced, accepting,
                        woken, armed, asked, due, own, table, frames, asks, blocked, phase>>
        BY <2>2 DEF CoopSpent, peerVars, callVars, timeVars, queueVars, writeVars, fenceVars
      <3> QED
        BY <3>1 DEF WakeOK, AllWait, AcceptWaits, ReadWaits, WriteWaits, QueueWaits, Content
    <2>3. CASE PollAccepting
      <3>1. /\ pc = "accept" /\ pc' = "read" /\ accepting' = accepting \ Resolved
            /\ armed' = (IF accepting' # {} /\ ~spent THEN armed \cup {"accept"} ELSE armed)
            /\ woken' = (woken \/ (accepting # {} /\ spent))
            /\ UNCHANGED <<asked, due, phase>>
        BY <2>3 DEF PollAccepting, TakeResolved, callVars, timeVars
      <3> SUFFICES ASSUME ~woken' PROVE ~woken /\ AcceptWaits'
        BY <3>1 DEF WakeOK, PastRead
      <3>2. ~woken /\ (accepting = {} \/ ~spent)
        BY <1>0, <3>1
      <3> QED
        BY <3>1, <3>2 DEF AcceptWaits, Resolved
    <2>4. CASE ReadSkipped
      <3>1. /\ pc = "read" /\ pc' = "write" /\ ~MayRead
            /\ UNCHANGED <<woken, moved, asked, due, armed, accepting, phase, out, taken, asks>>
        BY <2>4 DEF ReadSkipped, peerVars, callVars, timeVars, queueVars
      <3>2. ~moved => Len(out) >= OutHigh
        BY <1>0, <3>1 DEF MayRead, LoopOK
      <3> QED
        BY <3>1, <3>2 DEF WakeOK, AcceptWaits, ReadWaits, PastAccept, PastRead
    <2>5. CASE ReadPending
      <3>1. /\ pc = "read" /\ pc' = "write" /\ (spent \/ taken = Len(asks))
            /\ armed' = (IF spent THEN armed ELSE armed \cup {"read"})
            /\ woken' = (woken \/ spent)
            /\ UNCHANGED <<moved, asked, due, accepting, phase, taken, asks>>
        BY <2>5 DEF ReadPending, peerVars, callVars, timeVars
      <3> SUFFICES ASSUME ~woken' PROVE WakeOK'
        BY DEF WakeOK
      <3>2. ~woken /\ ~spent
        BY <1>0, <3>1
      <3> QED
        BY <3>1, <3>2 DEF WakeOK, AcceptWaits, ReadWaits, PastAccept, PastRead
    <2>6. CASE ReadDropped
      <3>1. pc = "read" /\ UNCHANGED <<pc, woken, moved, asked, due, armed, accepting, phase>>
        BY <2>6 DEF ReadDropped, Reading, loopVars, timeVars, callVars
      <3> QED
        BY <3>1 DEF WakeOK, AcceptWaits, PastAccept, PastRead
    <2>7. CASE ReadMessage
      <3>1. pc = "read" /\ pc' = "write" /\ moved' /\ UNCHANGED <<woken, asked, due>>
        BY <2>7 DEF ReadMessage, Reading, timeVars
      <3> QED
        BY <3>1 DEF WakeOK
    <2> QED
      BY <1>3, <2>1, <2>2, <2>3, <2>4, <2>5, <2>6, <2>7 DEF ReadSide
  <1>4. CASE WriteSide
    <2>1. CASE WriteStops
      <3>1. /\ pc = "write" /\ pc' = "flush" /\ (gathered >= Budget \/ (~sendable /\ blocked))
            /\ armed' = (IF gathered < Budget THEN armed \cup {"write"} ELSE armed)
            /\ UNCHANGED <<woken, moved, asked, due, accepting, phase, out, taken, asks, gathered, blocked>>
        BY <2>1 DEF WriteStops, peerVars, callVars, timeVars, queueVars, writeVars
      <3> QED
        BY <1>0, <3>1 DEF WakeOK, AcceptWaits, ReadWaits, WriteWaits, PastAccept, PastRead
    <2>2. CASE WriteReady \/ WriteTurns \/ TakeFirst
      <3>1. /\ UNCHANGED <<woken, moved, asked, due, armed, accepting, phase, out, taken, asks>>
            /\ pc \in {"write", "take"}
            /\ pc' = "write" \/ (pc' = "take" /\ slot' = slot /\ turn' = turn /\ pc = "write")
        BY <2>2 DEF WriteReady, WriteTurns, TakeFirst, Taking, Writable, peerVars, callVars, timeVars,
                    queueVars, writeVars, loopVars, fenceVars
      <3>2. pc' = "take" => slot' = 0 /\ turn' = turn
        BY <3>1 DEF LoopOK
      <3>3. \A q \in QueueNames : Offset(turn, q) \in 0..2
        BY <1>0, OffsetIs
      <3>4. (AcceptWaits => AcceptWaits') /\ (ReadWaits => ReadWaits')
        BY <3>1 DEF AcceptWaits, ReadWaits
      <3> QED
        BY <3>1, <3>2, <3>3, <3>4 DEF WakeOK, PastAccept, PastRead
    <2>3. ASSUME NEW m, Send(m), UNCHANGED <<woken, asked, due>>, pc \in {"write", "take"}
          PROVE  WakeOK'
      BY <2>3 DEF Send, WakeOK
    <2>4. CASE WriteOut \/ WriteTableFirst \/ WriteFenced
      BY <2>3, <2>4 DEF WriteOut, WriteTableFirst, WriteFenced, Writable, timeVars
    <2>5. ASSUME NEW q \in QueueNames, Take(q) PROVE WakeOK'
      BY <2>3, <2>5 DEF Take, Taking, timeVars
    <2>6. CASE TakeNothing
      <3>1. /\ pc = "take" /\ pc' = "take" /\ slot \in 0..2 /\ slot' = slot + 1
            /\ spent \/ Content(QueueAt) = <<>>
            /\ armed' = (IF spent THEN armed ELSE armed \cup {QueueAt})
            /\ woken' = (woken \/ spent)
            /\ UNCHANGED <<moved, asked, due, accepting, phase, out, taken, asks, turn, own, table, frames>>
        BY <1>0, <2>6 DEF TakeNothing, peerVars, callVars, timeVars, queueVars, fenceVars
      <3> SUFFICES ASSUME ~woken' PROVE WakeOK'
        BY DEF WakeOK
      <3>2. ~woken /\ ~spent
        BY <1>0, <3>1
      <3>3. ASSUME NEW q \in QueueNames, Offset(turn, q) < slot + 1 PROVE QueueWaits(q)'
        <4>1. Offset(turn, q) \in 0..2 /\ (Offset(turn, q) = slot => q = QueueAt)
          BY <1>0, <3>1, OffsetIs, QueueAtIs
        <4>2. CASE Offset(turn, q) = slot
          BY <3>1, <3>2, <4>1, <4>2 DEF QueueWaits, Content
        <4>3. CASE Offset(turn, q) < slot
          BY <3>1, <3>2, <4>3 DEF WakeOK, QueueWaits, Content
        <4> QED
          BY <3>1, <3>3, <4>1, <4>2, <4>3
      <3>4. (AcceptWaits => AcceptWaits') /\ (ReadWaits => ReadWaits')
        BY <3>1, <3>2 DEF AcceptWaits, ReadWaits
      <3>5. /\ ~asked /\ ~due
            /\ ~moved => AcceptWaits /\ ReadWaits
        BY <3>1, <3>2 DEF WakeOK, PastAccept, PastRead
      <3> QED
        BY <3>1, <3>3, <3>4, <3>5 DEF WakeOK
    <2>7. CASE TakeNone
      <3>1. /\ pc = "take" /\ pc' = "flush" /\ slot = 3
            /\ UNCHANGED <<woken, moved, asked, due, armed, accepting, phase, out, taken, asks, fenced,
                           own, table, frames, gathered>>
        BY <2>7 DEF TakeNone, peerVars, callVars, timeVars, queueVars, writeVars, fenceVars
      <3>2. \A q \in QueueNames : Offset(turn, q) < 3
        BY <1>0, OffsetIs
      <3>3. ~woken => AllWait'
        BY <3>1, <3>2 DEF WakeOK, LoopOK, AllWait, QueueWaits, Content
      <3>4. (AcceptWaits => AcceptWaits') /\ (ReadWaits => ReadWaits')
        BY <3>1 DEF AcceptWaits, ReadWaits
      <3> QED
        BY <3>1, <3>3, <3>4 DEF WakeOK, PastAccept, PastRead
    <2>8. CASE Flush
      <3>1. /\ pc = "flush" /\ pc' = "again"
            /\ \/ unflushed /\ ~blocked /\ moved'
               \/ unflushed /\ blocked /\ moved' = moved /\ unflushed' = unflushed
                  /\ armed' = armed \cup {"write"}
               \/ ~unflushed /\ moved' = moved /\ unflushed' = unflushed /\ armed' = armed
            /\ armed' = armed \/ armed' = armed \cup {"write"}
            /\ UNCHANGED <<woken, asked, due, accepting, phase, out, taken, asks, fenced, own, table,
                           frames, blocked>>
        BY <1>0, <2>8 DEF Flush, peerVars, callVars, timeVars, queueVars, fenceVars
      <3>2. gathered >= Budget => unflushed
        BY <1>0 DEF LoopOK
      <3>3. /\ AcceptWaits => AcceptWaits'
            /\ ReadWaits => ReadWaits'
            /\ AllWait => AllWait'
            /\ WriteWaits => WriteWaits'
            /\ blocked /\ armed' = armed \cup {"write"} => WriteWaits'
        BY <3>1 DEF AcceptWaits, ReadWaits, AllWait, WriteWaits, QueueWaits, Content
      <3> SUFFICES ASSUME ~woken' PROVE WakeOK'
        BY DEF WakeOK
      <3>4. ~asked' /\ ~due'
        BY <3>1 DEF WakeOK
      <3>5. ~moved' => AcceptWaits' /\ ReadWaits' /\ ((AllWait' /\ ~unflushed') \/ WriteWaits')
        BY <1>0, <3>1, <3>2, <3>3 DEF WakeOK, PastAccept, PastRead
      <3> QED
        BY <3>1, <3>4, <3>5 DEF WakeOK
    <2>9. CASE Again
      <3>1. /\ pc = "again"
            /\ \/ moved /\ reads < ReadBudget /\ pc' = "accept"
               \/ ~(moved /\ reads < ReadBudget) /\ pc' = "parked"
            /\ woken' = (woken \/ (moved /\ reads >= ReadBudget))
            /\ UNCHANGED <<asked, due, armed, accepting, phase, out, taken, asks, fenced, own, table,
                           frames, blocked, unflushed>>
        BY <1>0, <2>9 DEF Again, peerVars, callVars, timeVars, queueVars, fenceVars, writeVars
      <3> SUFFICES ASSUME ~woken' PROVE WakeOK'
        BY DEF WakeOK
      <3>2. ~woken /\ ~asked' /\ ~due'
        BY <1>0, <3>1 DEF WakeOK
      <3>3. CASE pc' = "accept"
        BY <3>2, <3>3 DEF WakeOK, PastAccept, PastRead
      <3>4. CASE pc' = "parked"
        <4>1. ~moved
          BY <1>0, <3>1, <3>4
        <4>2. AcceptWaits /\ ReadWaits /\ ((AllWait /\ ~unflushed) \/ WriteWaits)
          BY <3>1, <3>2, <4>1 DEF WakeOK, PastAccept, PastRead
        <4>3. AcceptWaits' /\ ReadWaits' /\ ((AllWait' /\ ~unflushed') \/ WriteWaits')
          BY <3>1, <4>2 DEF AcceptWaits, ReadWaits, AllWait, WriteWaits, QueueWaits, Content
        <4> QED
          BY <3>2, <3>4, <4>3 DEF WakeOK
      <3> QED
        BY <3>1, <3>3, <3>4
    <2> QED
      BY <1>4, <2>1, <2>2, <2>4, <2>5, <2>6, <2>7, <2>8, <2>9 DEF WriteSide
  <1> QED
    BY <1>1, <1>2, <1>3, <1>4, NextIs
-----------------------------------------------------------------------------
(***************************************************************************)
(* The order of the frames.                                                *)
(***************************************************************************)

\* What is in a sequence stays in it, and what is added is in it.
LEMMA ContainsMore ==
    ASSUME NEW S, NEW s \in Seq(S), NEW y \in S
    PROVE  Contains(Append(s, y), y) /\ \A x : Contains(s, x) => Contains(Append(s, y), x)
  BY DEF Contains

\* What is in a sequence is its head or in the rest.
LEMMA ContainsRest ==
    ASSUME NEW S, NEW s \in Seq(S), s # <<>>
    PROVE  \A x : Contains(s, x) => x = Head(s) \/ Contains(Tail(s), x)
  <1> SUFFICES ASSUME NEW x, Contains(s, x), x # Head(s) PROVE Contains(Tail(s), x)
    OBVIOUS
  <1>1. PICK i \in 1..Len(s) : s[i] = x
    BY DEF Contains
  <1>2. i # 1
    BY <1>1
  <1>3. i - 1 \in 1..Len(Tail(s)) /\ Tail(s)[i - 1] = s[i]
    BY <1>1, <1>2
  <1> QED
    BY <1>1, <1>3 DEF Contains

\* The wire grows by what follows what is on it.
LEMMA WireMore ==
    ASSUME NEW w \in Seq(Msgs), NEW m \in Msgs, WireFollows(w),
           m[1] = "frame" => Contains(w, Ahead(m))
    PROVE  WireFollows(Append(w, m))
  <1> DEFINE v == Append(w, m)
  <1>1. /\ Len(v) = Len(w) + 1 /\ v[Len(w) + 1] = m /\ Len(w) \in Nat
        /\ \A i \in 1..Len(w) : v[i] = w[i]
    OBVIOUS
  <1> HIDE DEF v
  <1>2. ASSUME NEW k \in 1..Len(v), v[k][1] = "frame"
        PROVE  \E j \in 1..(k - 1) : v[j] = Ahead(v[k])
    <2>1. CASE k \in 1..Len(w)
      <3>1. v[k] = w[k]
        BY <1>1, <2>1
      <3>2. PICK j \in 1..(k - 1) : w[j] = Ahead(w[k])
        BY <1>2, <2>1, <3>1 DEF WireFollows
      <3>3. v[j] = w[j]
        BY <1>1, <2>1
      <3> QED
        BY <3>1, <3>2, <3>3
    <2>2. CASE k = Len(w) + 1
      <3>1. PICK j \in 1..Len(w) : w[j] = Ahead(m)
        BY <1>1, <1>2, <2>2 DEF Contains
      <3>2. v[j] = Ahead(v[k]) /\ j \in 1..(k - 1)
        BY <1>1, <2>2, <3>1
      <3> QED
        BY <3>2
    <2> QED
      BY <1>1, <2>1, <2>2
  <1> QED
    BY <1>2 DEF WireFollows, v

\* The queue of frames loses its head once that is on the wire or fenced.
LEMMA FramesLess ==
    ASSUME NEW w, NEW fe, NEW v, NEW ge, NEW fr \in Seq(FrameMsgs), fr # <<>>,
           FramesFollow(w, fe, fr),
           \A x : Contains(w, x) \/ Contains(fe, x) => Contains(v, x) \/ Contains(ge, x),
           Contains(v, Head(fr)) \/ Contains(ge, Head(fr))
    PROVE  FramesFollow(v, ge, Tail(fr))
  <1>1. /\ Tail(fr) \in Seq(FrameMsgs) /\ Len(Tail(fr)) = Len(fr) - 1 /\ Head(fr) = fr[1]
        /\ \A i \in 1..Len(Tail(fr)) : Tail(fr)[i] = fr[i + 1]
    OBVIOUS
  <1> SUFFICES ASSUME NEW k \in 1..Len(Tail(fr)), Tail(fr)[k][3] # 1
               PROVE  \/ Contains(v, Ahead(Tail(fr)[k])) \/ Contains(ge, Ahead(Tail(fr)[k]))
                      \/ \E j \in 1..(k - 1) : Tail(fr)[j] = Ahead(Tail(fr)[k])
    BY DEF FramesFollow
  <1> DEFINE x == Ahead(fr[k + 1])
  <1>2. k + 1 \in 1..Len(fr) /\ Tail(fr)[k] = fr[k + 1] /\ Len(fr) \in Nat
    BY <1>1
  <1>3. Contains(w, x) \/ Contains(fe, x) \/ \E j \in 1..k : fr[j] = x
    BY <1>2 DEF FramesFollow
  <1> HIDE DEF x
  <1>4. ASSUME NEW j \in 1..k, fr[j] = x
        PROVE  Contains(v, x) \/ Contains(ge, x) \/ \E i \in 1..(k - 1) : Tail(fr)[i] = x
    <2>1. CASE j = 1
      BY <1>1, <1>4, <2>1
    <2>2. CASE j # 1
      <3>1. j - 1 \in 1..(k - 1) /\ Tail(fr)[j - 1] = fr[j]
        BY <1>1, <2>2
      <3> QED
        BY <1>4, <3>1
    <2> QED
      BY <2>1, <2>2
  <1> QED
    BY <1>2, <1>3, <1>4 DEF x

\* A message that the loop made, an answer or this side's own is no frame.
LEMMA NoFrame ==
    ASSUME NEW m \in LoopMsgs \cup OwnMsgs
    PROVE  m \in Msgs /\ m[1] # "frame"
  BY DEF Msgs, LoopMsgs, AnswerMsgs, OwnMsgs, TooBig, Ping

\* What is ahead of a frame is a message, and the frame is what its parts say.
LEMMA FrameIs ==
    ASSUME NEW f \in FrameMsgs
    PROVE  /\ f \in Msgs /\ f[1] = "frame" /\ f[2] \in Ids /\ f[3] \in Nat \ {0}
           /\ f = FrameOf(f[2], f[3])
  BY DEF FrameMsgs, Msgs, FrameOf

\* The wire gets a message that is no frame: the order stays.
LEMMA WireOther ==
    ASSUME Types, OrderOK, NEW m \in LoopMsgs \cup OwnMsgs, wire' = Append(wire, m),
           UNCHANGED <<frames, fenced, made, phase>>, pc # "ended",
           \A x : Contains(table, x) => x = m \/ Contains(table', x)
    PROVE  OrderOK'
  <1>1. wire \in Seq(Msgs) /\ m \in Msgs /\ m[1] # "frame"
    BY NoFrame DEF Types, QueueTypes
  <1>2. Contains(wire', m) /\ \A x : Contains(wire, x) => Contains(wire', x)
    BY <1>1, ContainsMore
  <1>3. WireFollows(wire')
    BY <1>1, WireMore DEF OrderOK
  <1>4. FramesFollow(wire', fenced', frames')
    BY <1>2 DEF OrderOK, FramesFollow
  <1>5. FramesSent(frames', made') /\ FencedFirst(fenced', made')
    BY DEF OrderOK
  <1>6. LastOnItsWay(wire', fenced', frames', made')
    BY <1>2 DEF OrderOK, LastOnItsWay
  <1>7. AnswerOnItsWay(wire', table', made', phase')
    BY <1>2 DEF OrderOK, AnswerOnItsWay
  <1> QED
    BY <1>3, <1>4, <1>5, <1>6, <1>7 DEF OrderOK

\* The order of the frames is kept.
LEMMA OrderKept ==
    ASSUME Types, LoopOK, OrderOK, Next
    PROVE  OrderOK'
  <1>0. /\ wire \in Seq(Msgs) /\ out \in Seq(LoopMsgs)
        /\ own \in Seq(OwnMsgs) /\ table \in Seq(AnswerMsgs)
        /\ frames \in Seq(FrameMsgs) /\ fenced \in Seq(FrameMsgs) /\ Len(fenced) <= 1
        /\ phase \in [Ids -> {"none", "running", "accepting", "accepted", "refused", "over"}]
        /\ made \in [Ids -> Nat]
    BY DEF Types, QueueTypes, CallTypes
  <1>1. CASE Stops
    <2>1. /\ frames' = <<>> /\ fenced' = <<>> /\ wire' = wire /\ pc' = "ended"
      BY <1>1 DEF Stops, Ends
    <2> QED
      BY <2>1 DEF OrderOK, FramesFollow, FramesSent, FencedFirst
  <1>2. ASSUME pc # "ended", UNCHANGED <<wire, frames, fenced, made>>,
               \A x : Contains(table, x) => Contains(table', x),
               \A id \in Ids : phase'[id] = "accepted" => phase[id] = "accepted" \/ Contains(table', Answer(id))
        PROVE  OrderOK'
    <2>1. AnswerOnItsWay(wire', table', made', phase')
      BY <1>2 DEF OrderOK, AnswerOnItsWay
    <2> QED
      BY <1>2, <2>1 DEF OrderOK
  <1>3. CASE pc # "ended" /\ Outside
    <2>1. ASSUME NEW i \in Ids, TaskAnswers(i) \/ SubAccepts(i) PROVE OrderOK'
      <3>1. /\ table' = Append(table, Answer(i)) /\ UNCHANGED <<wire, frames, fenced, made>>
            /\ \E p \in {"accepted", "over"} : phase' = [phase EXCEPT ![i] = p]
        BY <2>1 DEF TaskAnswers, SubAccepts, writeVars, fenceVars
      <3>2. Answer(i) \in AnswerMsgs
        BY DEF Answer, AnswerMsgs
      <3>3. Contains(table', Answer(i)) /\ \A x : Contains(table, x) => Contains(table', x)
        BY <1>0, <3>1, <3>2, ContainsMore
      <3>4. \A id \in Ids : phase'[id] = "accepted" => phase[id] = "accepted" \/ Contains(table', Answer(id))
        BY <1>0, <3>1, <3>3
      <3> QED
        BY <1>2, <1>3, <3>1, <3>3, <3>4
    <2>2. ASSUME NEW i \in Ids, SubRefuses(i) \/ SubEnds(i) PROVE OrderOK'
      <3>1. /\ UNCHANGED <<wire, frames, fenced, made, table>>
            /\ \E p \in {"refused", "over"} : phase' = [phase EXCEPT ![i] = p]
        BY <2>2 DEF SubRefuses, SubEnds, queueVars, writeVars, fenceVars
      <3>2. \A id \in Ids : phase'[id] = "accepted" => phase[id] = "accepted"
        BY <1>0, <3>1
      <3> QED
        BY <1>2, <1>3, <3>1, <3>2
    <2>3. ASSUME NEW i \in Ids, SubSends(i) PROVE OrderOK'
      <3> DEFINE f == FrameOf(i, made[i] + 1)
      <3>1. /\ phase[i] = "accepted" /\ frames' = Append(frames, f)
            /\ made' = [made EXCEPT ![i] = made[i] + 1]
            /\ UNCHANGED <<wire, fenced, table, phase, pc>>
        BY <2>3 DEF SubSends, writeVars, fenceVars, loopVars
      <3>2. f \in FrameMsgs /\ f[2] = i /\ f[3] = made[i] + 1
        BY <1>0 DEF FrameOf, FrameMsgs
      <3>3. f[3] # 1 => Ahead(f) = FrameOf(i, made[i]) /\ made[i] > 0
        BY <1>0, <3>2 DEF Ahead
      <3>4. f = FrameOf(i, made'[i]) /\ made'[i] = made[i] + 1
        BY <1>0, <3>1
      <3> HIDE DEF f
      <3>5. Contains(frames', f) /\ \A x : Contains(frames, x) => Contains(frames', x)
        BY <1>0, <3>1, <3>2, ContainsMore
      <3>6. /\ Len(frames') = Len(frames) + 1 /\ frames'[Len(frames) + 1] = f /\ Len(frames) \in Nat
            /\ \A k \in 1..Len(frames) : frames'[k] = frames[k]
        BY <1>0, <3>1, <3>2
      <3>7. FramesFollow(wire, fenced, frames')
        <4> SUFFICES ASSUME NEW k \in 1..Len(frames'), frames'[k][3] # 1
                     PROVE  \/ Contains(wire, Ahead(frames'[k])) \/ Contains(fenced, Ahead(frames'[k]))
                            \/ \E j \in 1..(k - 1) : frames'[j] = Ahead(frames'[k])
          BY DEF FramesFollow
        <4>1. CASE k \in 1..Len(frames)
          <5>1. frames'[k] = frames[k] /\ \A j \in 1..(k - 1) : frames'[j] = frames[j]
            BY <3>6, <4>1
          <5> QED
            BY <4>1, <5>1 DEF OrderOK, FramesFollow
        <4>2. CASE k = Len(frames) + 1
          <5>1. frames'[k] = f /\ Ahead(f) = FrameOf(i, made[i]) /\ made[i] > 0
            BY <3>3, <3>6, <4>2
          <5>2. \/ Contains(wire, Ahead(f)) \/ Contains(fenced, Ahead(f)) \/ Contains(frames, Ahead(f))
            BY <1>3, <5>1 DEF OrderOK, LastOnItsWay
          <5>3. Contains(frames, Ahead(f)) => \E j \in 1..(k - 1) : frames'[j] = Ahead(f)
            BY <3>6, <4>2 DEF Contains
          <5> QED
            BY <5>1, <5>2, <5>3
        <4> QED
          BY <3>6, <4>1, <4>2
      <3>8. \A id \in Ids : made'[id] >= made[id] /\ made[id] \in Nat
        BY <1>0, <3>1
      <3>9. FramesSent(frames', made')
        <4> SUFFICES ASSUME NEW k \in 1..Len(frames') PROVE frames'[k][3] <= made'[frames'[k][2]]
          BY DEF FramesSent
        <4>1. CASE k \in 1..Len(frames)
          <5>1. frames[k] \in FrameMsgs
            BY <1>0, <4>1
          <5>2. frames[k][2] \in Ids /\ frames[k][3] \in Nat
            BY <5>1, FrameIs
          <5>3. frames[k][3] <= made[frames[k][2]]
            BY <4>1 DEF OrderOK, FramesSent
          <5>4. made'[frames[k][2]] >= made[frames[k][2]] /\ made[frames[k][2]] \in Nat
                /\ made'[frames[k][2]] \in Nat
            BY <1>0, <3>1, <3>8, <5>2, SMTT(40)
          <5>5. frames'[k] = frames[k]
            BY <3>6, <4>1
          <5> QED
            BY <5>2, <5>3, <5>4, <5>5
        <4>2. CASE k = Len(frames) + 1
          BY <1>0, <3>2, <3>4, <3>6, <4>2
        <4> QED
          BY <3>6, <4>1, <4>2
      <3>10. FencedFirst(fenced, made')
        <4> SUFFICES ASSUME NEW k \in 1..Len(fenced) PROVE fenced[k][3] = 1 /\ made'[fenced[k][2]] >= 1
          BY DEF FencedFirst
        <4>1. fenced[k] \in FrameMsgs
          BY <1>0
        <4>2. fenced[k][2] \in Ids
          BY <4>1, FrameIs
        <4>3. fenced[k][3] = 1 /\ made[fenced[k][2]] >= 1
          BY DEF OrderOK, FencedFirst
        <4>4. made'[fenced[k][2]] \in Nat
          BY <1>0, <3>1, <4>2
        <4> QED
          BY <3>8, <4>2, <4>3, <4>4
      <3>11. LastOnItsWay(wire, fenced, frames', made')
        <4> SUFFICES ASSUME NEW id \in Ids, made'[id] > 0
                     PROVE  \/ Contains(wire, FrameOf(id, made'[id]))
                            \/ Contains(fenced, FrameOf(id, made'[id]))
                            \/ Contains(frames', FrameOf(id, made'[id]))
          BY DEF LastOnItsWay
        <4>1. CASE id = i
          BY <3>4, <3>5, <4>1
        <4>2. CASE id # i
          <5>1. made'[id] = made[id]
            BY <1>0, <3>1, <4>2
          <5> QED
            BY <1>3, <3>5, <5>1 DEF OrderOK, LastOnItsWay
        <4> QED
          BY <4>1, <4>2
      <3>12. AnswerOnItsWay(wire, table, made', phase)
        <4> SUFFICES ASSUME NEW id \in Ids, phase[id] = "accepted" \/ made'[id] > 0
                     PROVE  Contains(wire, Answer(id)) \/ Contains(table, Answer(id))
          BY DEF AnswerOnItsWay
        <4>1. phase[id] = "accepted" \/ made[id] > 0
          BY <1>0, <3>1
        <4> QED
          BY <1>3, <4>1 DEF OrderOK, AnswerOnItsWay
      <3>13. WireFollows(wire)
        BY DEF OrderOK
      <3> QED
        BY <3>1, <3>7, <3>9, <3>10, <3>11, <3>12, <3>13 DEF OrderOK
    <2>4. ASSUME PeerSends \/ PeerBlocks \/ PeerUnblocks \/ Ask \/ PingDue \/ OwnSends
          PROVE  UNCHANGED <<wire, frames, fenced, made, table, phase>>
      BY <2>4 DEF PeerSends, PeerBlocks, PeerUnblocks, Ask, PingDue, OwnSends, queueVars, writeVars,
                  fenceVars, callVars
    <2> QED
      BY <1>2, <1>3, <2>1, <2>2, <2>3, <2>4 DEF Outside
  <1>4. CASE ReadSide
    <2>1. UNCHANGED <<wire, frames, fenced, made, table>> /\ pc # "ended"
      BY <1>4 DEF ReadSide, Poll, Top, PollAccepting, TakeResolved, CoopSpent, Running, ReadSkipped,
                  ReadPending, ReadDropped, ReadMessage, Reading, queueVars, writeVars, fenceVars, callVars
    <2>2. \A id \in Ids : phase'[id] = "accepted" => phase[id] = "accepted"
      <3>1. CASE ReadMessage
        <4>1. \E p \in {"running", "accepting", "over"} : phase' = [phase EXCEPT ![taken + 1] = p]
          BY <3>1 DEF ReadMessage
        <4> QED
          BY <1>0, <4>1
      <3> QED
        BY <1>4, <3>1
           DEF ReadSide, Poll, Top, PollAccepting, TakeResolved, CoopSpent, ReadSkipped, ReadPending,
               ReadDropped, callVars
    <2> QED
      BY <1>2, <2>1, <2>2
  <1>5. CASE WriteSide
    <2>1. CASE WriteStops \/ WriteReady \/ WriteTurns \/ TakeNothing \/ TakeNone \/ Flush \/ Again
      <3>1. UNCHANGED <<wire, frames, fenced, made, table, phase>> /\ pc # "ended"
        BY <2>1 DEF WriteStops, WriteReady, WriteTurns, Writable, TakeNothing, TakeNone, Flush, Again,
                    queueVars, writeVars, fenceVars, callVars
      <3> QED
        BY <1>2, <3>1
    <2>2. CASE WriteOut
      <3>1. /\ out # <<>> /\ wire' = Append(wire, Head(out)) /\ pc # "ended"
            /\ UNCHANGED <<frames, fenced, made, phase, table>>
        BY <2>2 DEF WriteOut, Writable, Send, fenceVars, callVars
      <3>2. Head(out) \in LoopMsgs
        BY <1>0, <3>1, HeadTail
      <3> QED
        BY <3>1, <3>2, WireOther
    <2>3. ASSUME table # <<>>, wire' = Append(wire, Head(table)), table' = Tail(table), pc # "ended",
                 UNCHANGED <<frames, fenced, made, phase>>
          PROVE  OrderOK'
      <3>1. Head(table) \in LoopMsgs
        BY <1>0, <2>3, HeadTail DEF LoopMsgs
      <3>2. \A x : Contains(table, x) => x = Head(table) \/ Contains(table', x)
        BY <1>0, <2>3, ContainsRest
      <3> QED
        BY <2>3, <3>1, <3>2, WireOther
    <2>4. CASE WriteTableFirst
      BY <2>3, <2>4 DEF WriteTableFirst, Writable, Send, callVars
    <2>5. CASE Take("table")
      BY <2>3, <2>5 DEF Take, Taking, Content, Send, callVars
    <2>6. CASE Take("own")
      <3>1. /\ own # <<>> /\ wire' = Append(wire, Head(own)) /\ pc # "ended"
            /\ UNCHANGED <<frames, fenced, made, phase, table>>
        BY <2>6 DEF Take, Taking, Content, Send, callVars
      <3>2. Head(own) \in OwnMsgs
        BY <1>0, <3>1, HeadTail
      <3> QED
        BY <3>1, <3>2, WireOther
    <2>7. CASE Take("frames")
      <3>1. /\ frames # <<>> /\ wire' = Append(wire, Head(frames)) /\ frames' = Tail(frames)
            /\ ~IsFirst(Head(frames)) /\ pc = "take" /\ UNCHANGED <<fenced, made, phase, table>>
        BY <2>7 DEF Take, Taking, Content, Send, callVars
      <3>2. fenced = <<>> /\ pc # "ended"
        BY <3>1 DEF LoopOK
      <3>3. Head(frames) \in FrameMsgs /\ Head(frames) \in Msgs /\ Head(frames) = frames[1]
            /\ 1 \in 1..Len(frames)
        BY <1>0, <3>1, HeadTail, FrameIs
      <3>4. Contains(wire, Ahead(Head(frames)))
        <4>1. Head(frames)[3] # 1
          BY <3>1 DEF IsFirst
        <4>2. ~Contains(fenced, Ahead(Head(frames)))
          BY <3>2 DEF Contains
        <4> QED
          BY <3>3, <4>1, <4>2 DEF OrderOK, FramesFollow
      <3>5. Contains(wire', Head(frames)) /\ \A x : Contains(wire, x) => Contains(wire', x)
        BY <1>0, <3>1, <3>3, ContainsMore
      <3>6. WireFollows(wire')
        BY <1>0, <3>1, <3>3, <3>4, WireMore DEF OrderOK
      <3>7. FramesFollow(wire', fenced', frames')
        BY <1>0, <3>1, <3>5, FramesLess DEF OrderOK
      <3>8. FramesSent(frames', made') /\ FencedFirst(fenced', made')
        <4>1. \A k \in 1..Len(Tail(frames)) : Tail(frames)[k] = frames[k + 1] /\ k + 1 \in 1..Len(frames)
          BY <1>0, <3>1
        <4> QED
          BY <3>1, <4>1 DEF OrderOK, FramesSent
      <3>9. LastOnItsWay(wire', fenced', frames', made')
        <4>1. \A x : Contains(frames, x) => x = Head(frames) \/ Contains(frames', x)
          BY <1>0, <3>1, ContainsRest
        <4> QED
          BY <3>1, <3>2, <3>5, <4>1 DEF OrderOK, LastOnItsWay
      <3>10. AnswerOnItsWay(wire', table', made', phase')
        BY <3>1, <3>2, <3>5 DEF OrderOK, AnswerOnItsWay
      <3> QED
        BY <3>6, <3>7, <3>8, <3>9, <3>10 DEF OrderOK
    <2>8. CASE TakeFirst
      <3>1. /\ frames # <<>> /\ fenced' = <<Head(frames)>> /\ frames' = Tail(frames)
            /\ Head(frames)[3] = 1 /\ pc = "take" /\ UNCHANGED <<wire, made, phase, table>>
        BY <2>8 DEF TakeFirst, Taking, Content, IsFirst, writeVars, callVars
      <3>2. fenced = <<>> /\ pc # "ended"
        BY <3>1 DEF LoopOK
      <3>3. Head(frames) \in FrameMsgs /\ Head(frames) = frames[1] /\ 1 \in 1..Len(frames)
        BY <1>0, <3>1, HeadTail
      <3>4. Contains(fenced', Head(frames)) /\ \A x : ~Contains(fenced, x)
        BY <3>1, <3>2 DEF Contains
      <3>5. FramesFollow(wire', fenced', frames')
        <4>1. \A x : Contains(wire, x) \/ Contains(fenced, x) => Contains(wire', x) \/ Contains(fenced', x)
          BY <3>1, <3>4
        <4>2. FramesFollow(wire, fenced, frames)
          BY DEF OrderOK
        <4> QED
          BY <1>0, <3>1, <3>4, <4>1, <4>2, FramesLess
      <3>6. FramesSent(frames', made')
        <4>1. \A k \in 1..Len(Tail(frames)) : Tail(frames)[k] = frames[k + 1] /\ k + 1 \in 1..Len(frames)
          BY <1>0, <3>1
        <4> QED
          BY <3>1, <4>1 DEF OrderOK, FramesSent
      <3>7. FencedFirst(fenced', made')
        <4>1. Head(frames)[3] <= made[Head(frames)[2]]
          BY <3>3 DEF OrderOK, FramesSent
        <4>2. Head(frames)[2] \in Ids
          BY <3>3, FrameIs
        <4>3. made[Head(frames)[2]] >= 1
          BY <1>0, <3>1, <4>1, <4>2
        <4> QED
          BY <3>1, <4>3 DEF FencedFirst
      <3>8. LastOnItsWay(wire', fenced', frames', made')
        <4>1. \A x : Contains(frames, x) => x = Head(frames) \/ Contains(frames', x)
          BY <1>0, <3>1, ContainsRest
        <4> QED
          BY <3>1, <3>2, <3>4, <4>1 DEF OrderOK, LastOnItsWay
      <3>9. AnswerOnItsWay(wire', table', made', phase') /\ WireFollows(wire')
        BY <3>1, <3>2 DEF OrderOK
      <3> QED
        BY <3>5, <3>6, <3>7, <3>8, <3>9 DEF OrderOK
    <2>9. CASE WriteFenced
      <3> DEFINE f == Head(fenced)
      <3>1. /\ fenced # <<>> /\ table = <<>> /\ wire' = Append(wire, f) /\ fenced' = <<>>
            /\ pc = "write" /\ UNCHANGED <<frames, made, phase, table>>
        BY <2>9 DEF WriteFenced, Writable, Send, queueVars, callVars
      <3>2. f \in FrameMsgs /\ f = fenced[1] /\ 1 \in 1..Len(fenced) /\ Len(fenced) = 1
        <4>1. f \in FrameMsgs /\ Len(fenced) > 0 /\ Len(fenced) \in Nat
          BY <1>0, <3>1, HeadTail
        <4>2. f = fenced[1]
          BY <1>0, <3>1
        <4>3. Len(fenced) <= 1
          BY <1>0
        <4>4. \A n \in Nat : n > 0 /\ n <= 1 => n = 1
          OBVIOUS
        <4>5. Len(fenced) = 1
          BY <4>1, <4>3, <4>4
        <4> QED
          BY <4>1, <4>2, <4>5
      <3>3. \A x : Contains(fenced, x) => x = f
        BY <3>2 DEF Contains
      <3> HIDE DEF f
      <3>4. f \in Msgs /\ f[2] \in Ids /\ f[3] = 1 /\ made[f[2]] >= 1
        BY <3>2, FrameIs DEF OrderOK, FencedFirst
      <3>5. Contains(wire, Ahead(f))
        <4>1. Ahead(f) = Answer(f[2])
          BY <3>4 DEF Ahead
        <4>2. ~Contains(table, Answer(f[2]))
          BY <3>1 DEF Contains
        <4>3. made[f[2]] > 0
          BY <1>0, <3>4
        <4> QED
          BY <3>1, <3>4, <4>1, <4>2, <4>3 DEF OrderOK, AnswerOnItsWay
      <3>6. Contains(wire', f) /\ \A x : Contains(wire, x) => Contains(wire', x)
        BY <1>0, <3>1, <3>4, ContainsMore
      <3>7. WireFollows(wire')
        BY <1>0, <3>1, <3>4, <3>5, WireMore DEF OrderOK
      <3>8. FramesFollow(wire', fenced', frames')
        BY <3>1, <3>3, <3>6 DEF OrderOK, FramesFollow
      <3>9. FramesSent(frames', made') /\ FencedFirst(fenced', made')
        BY <3>1 DEF OrderOK, FramesSent, FencedFirst
      <3>10. LastOnItsWay(wire', fenced', frames', made')
        BY <3>1, <3>3, <3>6 DEF OrderOK, LastOnItsWay
      <3>11. AnswerOnItsWay(wire', table', made', phase')
        BY <3>1, <3>6 DEF OrderOK, AnswerOnItsWay
      <3> QED
        BY <3>7, <3>8, <3>9, <3>10, <3>11 DEF OrderOK
    <2> QED
      BY <1>5, <2>1, <2>2, <2>4, <2>5, <2>6, <2>7, <2>8, <2>9 DEF WriteSide, QueueNames
  <1> QED
    BY <1>1, <1>3, <1>4, <1>5, NextIs
-----------------------------------------------------------------------------
(***************************************************************************)
(* How often a message is in a sequence.                                   *)
(***************************************************************************)

\* The places of a message in a sequence are finitely many.
LEMMA OccursNat ==
    ASSUME NEW S, NEW s \in Seq(S), NEW f
    PROVE  IsFiniteSet({k \in DOMAIN s : s[k] = f}) /\ Occurs(s, f) \in Nat
  <1>1. DOMAIN s = 1..Len(s) /\ Len(s) \in Nat
    OBVIOUS
  <1>2. IsFiniteSet(1..Len(s))
    BY <1>1, FS_Interval
  <1>3. IsFiniteSet({k \in DOMAIN s : s[k] = f})
    BY <1>1, <1>2, FS_Subset
  <1> QED
    BY <1>3, FS_CardinalityType DEF Occurs

\* The occurrences in two sequences put together are those in each.
LEMMA OccursConcat ==
    ASSUME NEW S, NEW a \in Seq(S), NEW b \in Seq(S), NEW f
    PROVE  Occurs(a \o b, f) = Occurs(a, f) + Occurs(b, f)
  <1> DEFINE A == {k \in DOMAIN a : a[k] = f}
             B == {k \in DOMAIN b : b[k] = f}
             n == Len(a)
             C == {k \in (n + 1)..(n + Len(b)) : b[k - n] = f}
  <1>1. /\ DOMAIN a = 1..n /\ n \in Nat /\ DOMAIN b = 1..Len(b) /\ Len(b) \in Nat
        /\ DOMAIN (a \o b) = 1..(n + Len(b))
        /\ \A k \in 1..n : (a \o b)[k] = a[k]
        /\ \A k \in (n + 1)..(n + Len(b)) : (a \o b)[k] = b[k - n]
    OBVIOUS
  <1>2. IsFiniteSet(A) /\ IsFiniteSet(B) /\ Cardinality(A) = Occurs(a, f) /\ Cardinality(B) = Occurs(b, f)
    BY OccursNat DEF Occurs
  <1>3. {k \in DOMAIN (a \o b) : (a \o b)[k] = f} = A \cup C
    BY <1>1
  <1>4. A \cap C = {}
    BY <1>1
  <1>5. IsFiniteSet(C) /\ Cardinality(C) = Cardinality(B)
    <2> DEFINE g == [k \in B |-> k + n]
    <2>1. g \in [B -> C]
      BY <1>1
    <2>2. \A j, k \in B : g[j] = g[k] => j = k
      BY <1>1
    <2>3. \A k \in C : k - n \in B /\ g[k - n] = k
      BY <1>1
    <2> HIDE DEF B, C, g
    <2>4. g \in Injection(B, C)
      BY <2>1, <2>2 DEF Injection, IsInjective
    <2>5. g \in Surjection(B, C)
      BY <2>1, <2>3 DEF Surjection
    <2>6. ExistsBijection(B, C)
      BY <2>4, <2>5 DEF ExistsBijection, Bijection
    <2> QED
      BY <1>2, <2>6, FS_Bijection
  <1> HIDE DEF A, B, C
  <1>6. Cardinality(A \cup C) = Cardinality(A) + Cardinality(C) - Cardinality(A \cap C)
    BY <1>2, <1>5, FS_Union
  <1>7. Cardinality(A \cap C) = 0
    BY <1>4, FS_EmptySet
  <1>8. Cardinality(A) \in Nat /\ Cardinality(C) \in Nat
    BY <1>2, <1>5, FS_CardinalityType
  <1>9. Occurs(a \o b, f) = Cardinality(A \cup C)
    BY <1>3 DEF Occurs
  <1> QED
    BY <1>2, <1>5, <1>6, <1>7, <1>8, <1>9

\* Nothing occurs in the empty sequence.
LEMMA OccursNone ==
    ASSUME NEW f
    PROVE  Occurs(<<>>, f) = 0
  <1>1. {k \in DOMAIN <<>> : <<>>[k] = f} = {}
    OBVIOUS
  <1> QED
    BY <1>1, FS_EmptySet DEF Occurs

\* One message occurs once, and nothing else.
LEMMA OccursOne ==
    ASSUME NEW x, NEW f
    PROVE  Occurs(<<x>>, f) = IF x = f THEN 1 ELSE 0
  <1>1. DOMAIN <<x>> = {1} /\ <<x>>[1] = x
    OBVIOUS
  <1>2. CASE x = f
    <2>1. {k \in DOMAIN <<x>> : <<x>>[k] = f} = {1}
      BY <1>1, <1>2
    <2> QED
      BY <1>2, <2>1, FS_Singleton DEF Occurs
  <1>3. CASE x # f
    <2>1. {k \in DOMAIN <<x>> : <<x>>[k] = f} = {}
      BY <1>1, <1>3
    <2> QED
      BY <1>3, <2>1, FS_EmptySet DEF Occurs
  <1> QED
    BY <1>2, <1>3

\* A message added occurs once more.
LEMMA OccursMore ==
    ASSUME NEW S, NEW s \in Seq(S), NEW x \in S, NEW f
    PROVE  Occurs(Append(s, x), f) = Occurs(s, f) + (IF x = f THEN 1 ELSE 0)
  <1>1. Append(s, x) = s \o <<x>> /\ <<x>> \in Seq(S)
    BY AppendIsConcat
  <1>2. Occurs(s \o <<x>>, f) = Occurs(s, f) + Occurs(<<x>>, f)
    BY <1>1, OccursConcat
  <1> QED
    BY <1>1, <1>2, OccursOne

\* The head taken away occurs once less.
LEMMA OccursLess ==
    ASSUME NEW S, NEW s \in Seq(S), s # <<>>, NEW f
    PROVE  Occurs(s, f) = Occurs(Tail(s), f) + (IF Head(s) = f THEN 1 ELSE 0)
  <1>1. Head(s) \in S /\ Tail(s) \in Seq(S) /\ <<Head(s)>> \o Tail(s) = s
    BY HeadTailProperties
  <1>2. <<Head(s)>> \in Seq(S)
    BY <1>1
  <1>3. Occurs(<<Head(s)>> \o Tail(s), f) = Occurs(<<Head(s)>>, f) + Occurs(Tail(s), f)
    <2>1. \A a, b \in Seq(S) : Occurs(a \o b, f) = Occurs(a, f) + Occurs(b, f)
      BY OccursConcat
    <2> QED
      BY <1>1, <1>2, <2>1, Zenon
  <1>4. Occurs(Tail(s), f) \in Nat
    BY <1>1, OccursNat
  <1>5. Occurs(<<Head(s)>>, f) = IF Head(s) = f THEN 1 ELSE 0
    BY OccursOne
  <1>6. Occurs(s, f) = Occurs(<<Head(s)>>, f) + Occurs(Tail(s), f)
    BY <1>1, <1>3
  <1> QED
    BY <1>4, <1>5, <1>6

\* The same message n times occurs n times, and nothing else.
LEMMA OccursSame ==
    ASSUME NEW s, NEW n \in Nat, DOMAIN s = 1..n, NEW x, \A k \in 1..n : s[k] = x, NEW f
    PROVE  Occurs(s, f) = IF x = f THEN n ELSE 0
  <1>1. DOMAIN s = 1..n /\ \A k \in 1..n : s[k] = x
    OBVIOUS
  <1>2. CASE x = f
    <2>1. {k \in DOMAIN s : s[k] = f} = 1..n
      BY <1>1, <1>2
    <2>2. Cardinality(1..n) = n
      BY FS_Interval
    <2> QED
      BY <1>2, <2>1, <2>2 DEF Occurs
  <1>3. CASE x # f
    <2>1. {k \in DOMAIN s : s[k] = f} = {}
      BY <1>1, <1>3
    <2> QED
      BY <1>3, <2>1, FS_EmptySet DEF Occurs
  <1> QED
    BY <1>2, <1>3

\* Answers in arrival order: one to each message, and none to another.
LEMMA OccursOnce ==
    ASSUME NEW n \in Nat, NEW R \in SUBSET Ids, NEW ids \in [1..n -> R], InArrivalOrder(ids),
           NEW i \in Nat
    PROVE  LET s == [k \in DOMAIN ids |-> Answer(ids[k])] IN
           /\ Occurs(s, Answer(i)) \in 0..1
           /\ i \notin R => Occurs(s, Answer(i)) = 0
           /\ Occurs(s, TooBig) = 0
  <1> DEFINE s == [k \in DOMAIN ids |-> Answer(ids[k])]
             T == {k \in DOMAIN s : s[k] = Answer(i)}
  <1>1. DOMAIN ids = 1..n /\ DOMAIN s = 1..n /\ \A k \in 1..n : s[k] = Answer(ids[k]) /\ ids[k] \in R
    OBVIOUS
  <1>2. \A j, k \in 1..n : ids[j] = ids[k] => j = k
    <2>1. \A j, k \in 1..n : j < k => ids[j] < ids[k]
      BY <1>1 DEF InArrivalOrder
    <2>2. \A j \in 1..n : ids[j] \in Nat
      <3>1. Ids \subseteq Nat
        BY DEF Ids
      <3> QED
        BY <1>1, <3>1
    <2> QED
      BY <2>1, <2>2
  <1>3. \A j \in Ids : Answer(j) = Answer(i) => j = i
    BY DEF Answer
  <1>4. \A j \in Ids : Answer(j) # TooBig
    BY DEF Answer, TooBig
  <1> HIDE DEF s
  <1>5. \A j, k \in T : j = k
    BY <1>1, <1>2, <1>3
  <1>6. Cardinality(T) \in 0..1
    <2> HIDE DEF T
    <2>1. CASE T = {}
      <3>1. Cardinality(T) = 0
        BY <2>1, FS_EmptySet
      <3> QED
        BY <3>1
    <2>2. CASE T # {}
      <3>1. PICK k \in T : TRUE
        BY <2>2
      <3>2. T = {k}
        BY <1>5, <3>1
      <3>3. Cardinality(T) = 1
        BY <3>2, FS_Singleton
      <3> QED
        BY <3>3
    <2> QED
      BY <2>1, <2>2
  <1>7. i \notin R => T = {}
    BY <1>1, <1>3
  <1>8. {k \in DOMAIN s : s[k] = TooBig} = {}
    BY <1>1, <1>4
  <1> QED
    BY <1>6, <1>7, <1>8, FS_EmptySet DEF Occurs, s

\* One more message taken is one more dropped, if it was too big.
LEMMA BigsMore ==
    ASSUME NEW a, NEW n \in Nat
    PROVE  Bigs(a, n) \in Nat /\ Bigs(a, n + 1) = Bigs(a, n) + (IF a[n + 1] = "big" THEN 1 ELSE 0)
  <1> DEFINE B == {id \in 1..n : a[id] = "big"}
  <1>1. IsFiniteSet(1..n)
    BY FS_Interval
  <1>2. IsFiniteSet(B)
    BY <1>1, FS_Subset
  <1>3. n + 1 \notin B
    OBVIOUS
  <1>4. {id \in 1..(n + 1) : a[id] = "big"} = IF a[n + 1] = "big" THEN B \cup {n + 1} ELSE B
    OBVIOUS
  <1> HIDE DEF B
  <1>5. Cardinality(B) \in Nat /\ Cardinality(B \cup {n + 1}) = Cardinality(B) + 1
    BY <1>2, <1>3, FS_AddElement, FS_CardinalityType
  <1>6. Bigs(a, n) = Cardinality(B)
    BY DEF Bigs, B
  <1> QED
    BY <1>4, <1>5, <1>6 DEF Bigs
-----------------------------------------------------------------------------
(***************************************************************************)
(* A message is answered once.                                             *)
(***************************************************************************)

\* A message that was read stays as it was sent.
LEMMA SentIsKept ==
    ASSUME Types, PeerSends
    PROVE  \A id \in Ids : id <= taken => asks'[id] = asks[id]
  <1>1. /\ script \in Scripts /\ asks \in Seq(MsgKinds) /\ taken \in 0..Len(asks)
        /\ Len(asks) < Len(script.msgs) /\ asks' = Append(asks, script.msgs[Len(asks) + 1])
    BY DEF Types, PeerTypes, PeerSends
  <1>2. script.msgs[Len(asks) + 1] \in MsgKinds
    BY <1>1, ScriptIs
  <1>3. \A k \in 1..Len(asks) : asks'[k] = asks[k]
    BY <1>1, <1>2
  <1> QED
    BY <1>1, <1>3 DEF Ids

\* A call goes through its phases: it is begun when its message is read, as
\* its message asks, and is of that kind until it is over.
LEMMA PhaseKept ==
    ASSUME Types, PhaseOK, Next
    PROVE  PhaseOK'
  <1>0. /\ asks \in Seq(MsgKinds) /\ taken \in 0..Len(asks) /\ Len(asks) <= MaxMsgs /\ MaxMsgs \in Nat
        /\ phase \in [Ids -> {"none", "running", "accepting", "accepted", "refused", "over"}]
        /\ accepting \subseteq Ids
    BY Sizes DEF Types, PeerTypes, CallTypes
  <1>1. \A id \in Ids : id \in Nat
    BY DEF Ids
  <1>2. CASE UNCHANGED <<asks, phase>> /\ accepting' \subseteq accepting /\ taken' \in {taken, taken + 1}
    BY <1>0, <1>1, <1>2 DEF PhaseOK
  <1>3. CASE PeerSends
    <2>1. asks' = Append(asks, script.msgs[Len(asks) + 1]) /\ UNCHANGED <<taken, phase, accepting>>
      BY <1>3 DEF PeerSends, callVars
    <2>2. \A id \in Ids : id <= taken => asks'[id] = asks[id]
      BY <1>3, SentIsKept
    <2>3. \A id \in Ids : phase[id] # "none" => id <= taken
      BY <1>0, <1>1 DEF PhaseOK
    <2>4. \A id \in Ids : phase[id] # "none" => asks'[id] = asks[id]
      BY <2>2, <2>3
    <2> QED
      BY <2>1, <2>4 DEF PhaseOK
  <1>4. ASSUME NEW i \in Ids, TaskAnswers(i) \/ SubAccepts(i) \/ SubRefuses(i) \/ SubEnds(i)
        PROVE  PhaseOK'
    <2>1. UNCHANGED <<asks, taken, accepting>>
      BY <1>4 DEF TaskAnswers, SubAccepts, SubRefuses, SubEnds, peerVars
    <2>2. /\ \A id \in Ids : id # i => phase'[id] = phase[id]
          /\ phase'[i] = "over" \/ (phase[i] = "accepting" /\ phase'[i] \in {"accepted", "refused"})
          /\ phase[i] # "none"
      BY <1>0, <1>4 DEF TaskAnswers, SubAccepts, SubRefuses, SubEnds
    <2>3. /\ i > taken => phase'[i] = "none"
          /\ phase'[i] = "running" => asks[i] = "task"
          /\ phase'[i] \in {"accepting", "accepted", "refused"} => asks[i] = "sub"
          /\ phase'[i] \in {"accepting", "accepted", "refused", "over"}
      BY <2>2 DEF PhaseOK
    <2> QED
      BY <2>1, <2>2, <2>3 DEF PhaseOK
  <1>5. CASE ReadMessage
    <2> DEFINE i == taken + 1
    <2>1. /\ taken < Len(asks) /\ taken' = i /\ asks' = asks /\ accepting' \subseteq accepting \cup {i}
          /\ phase' = [phase EXCEPT ![i] = phase'[i]]
          /\ \/ asks[i] = "task" /\ phase'[i] = "running" /\ accepting' = accepting
             \/ asks[i] = "sub" /\ phase'[i] = "accepting"
             \/ phase'[i] = "over" /\ accepting' = accepting
      <3>1. i \in Ids
        BY <1>0, <1>5 DEF Ids, ReadMessage, Reading
      <3> QED
        BY <1>0, <1>5, <3>1 DEF ReadMessage, Reading, peerVars
    <2>2. i \in Ids /\ i > taken
      BY <1>0, <2>1 DEF Ids
    <2>3. /\ \A id \in Ids : id # i => phase'[id] = phase[id]
          /\ \A id \in Ids : id > i => id > taken /\ id # i
      BY <1>0, <1>1, <2>1, <2>2
    <2>4. phase[i] = "none" /\ i \notin accepting
      BY <2>2 DEF PhaseOK
    <2> HIDE DEF i
    <2> QED
      BY <2>1, <2>2, <2>3, <2>4 DEF PhaseOK
  <1>6. CASE Stops
    BY <1>2, <1>6 DEF Stops, Ends, peerVars, callVars
  <1>7. CASE Outside
    <2>1. \/ PeerSends \/ UNCHANGED <<asks, phase, accepting, taken>>
          \/ \E i \in Ids : TaskAnswers(i) \/ SubAccepts(i) \/ SubRefuses(i) \/ SubEnds(i)
      BY <1>7 DEF Outside, PeerBlocks, PeerUnblocks, Ask, PingDue, OwnSends, SubSends, peerVars, callVars
    <2> QED
      BY <1>2, <1>3, <1>4, <2>1
  <1>8. CASE ReadSide
    <2>1. \/ ReadMessage
          \/ UNCHANGED <<asks, phase>> /\ accepting' \subseteq accepting /\ taken' \in {taken, taken + 1}
      BY <1>8 DEF ReadSide, Poll, Top, PollAccepting, TakeResolved, CoopSpent, ReadSkipped, ReadPending,
                  ReadDropped, peerVars, callVars
    <2> QED
      BY <1>2, <1>5, <2>1
  <1>9. CASE WriteSide
    <2>1. UNCHANGED <<asks, phase, accepting, taken>>
      BY <1>9 DEF WriteSide, WriteStops, WriteReady, WriteOut, WriteTableFirst, WriteFenced, WriteTurns,
                  TakeNothing, TakeNone, TakeFirst, Take, Flush, Again, peerVars, callVars
    <2> QED
      BY <1>2, <2>1
  <1> QED
    BY <1>6, <1>7, <1>8, <1>9, NextIs

\* How often a message is on its way is a number.
LEMMA TotalNat ==
    ASSUME Types, NEW f
    PROVE  /\ Occurs(wire, f) \in Nat /\ Occurs(out, f) \in Nat /\ Occurs(table, f) \in Nat
           /\ Total(wire, out, table, f) \in Nat
  <1>1. wire \in Seq(Msgs) /\ out \in Seq(LoopMsgs) /\ table \in Seq(AnswerMsgs)
    BY DEF Types, QueueTypes
  <1>2. Occurs(wire, f) \in Nat /\ Occurs(out, f) \in Nat /\ Occurs(table, f) \in Nat
    BY <1>1, OccursNat
  <1> QED
    BY <1>2 DEF Total

\* A frame of a call, or this side's own, is not one of the loop's messages.
LEMMA NotLoopMsg ==
    ASSUME NEW x \in FrameMsgs \cup OwnMsgs
    PROVE  x \in Msgs /\ \A f \in LoopMsgs : x # f
  BY DEF FrameMsgs, OwnMsgs, LoopMsgs, AnswerMsgs, TooBig, Ping, Msgs

\* Writing hands answers on: what leaves the loop's own messages or the table
\* is on the wire, as often as before.
LEMMA WriteTotals ==
    ASSUME Types, WriteSide
    PROVE  \A f \in LoopMsgs : Total(wire', out', table', f) = Total(wire, out, table, f)
  <1>0. /\ wire \in Seq(Msgs) /\ out \in Seq(LoopMsgs) /\ table \in Seq(AnswerMsgs)
        /\ own \in Seq(OwnMsgs) /\ frames \in Seq(FrameMsgs) /\ fenced \in Seq(FrameMsgs)
    BY DEF Types, QueueTypes
  <1>1. CASE UNCHANGED <<wire, out, table>>
    BY <1>1
  <1>2. ASSUME out # <<>>, wire' = Append(wire, Head(out)), out' = Tail(out), table' = table
        PROVE  \A f \in LoopMsgs : Total(wire', out', table', f) = Total(wire, out, table, f)
    <2>1. Head(out) \in Msgs
      BY <1>0, <1>2, HeadTail DEF Msgs
    <2>2. Tail(out) \in Seq(LoopMsgs)
      BY <1>0, <1>2, HeadTail
    <2> TAKE f \in LoopMsgs
    <2> DEFINE one == IF Head(out) = f THEN 1 ELSE 0
    <2>3. Occurs(wire', f) = Occurs(wire, f) + one
      BY <1>0, <1>2, <2>1, OccursMore
    <2>4. Occurs(out, f) = Occurs(out', f) + one
      BY <1>0, <1>2, OccursLess
    <2>5. Occurs(out', f) \in Nat /\ one \in Nat
      BY <1>2, <2>2, OccursNat
    <2> HIDE DEF one
    <2> QED
      BY <1>2, <2>3, <2>4, <2>5, TotalNat DEF Total
  <1>3. ASSUME table # <<>>, wire' = Append(wire, Head(table)), table' = Tail(table), out' = out
        PROVE  \A f \in LoopMsgs : Total(wire', out', table', f) = Total(wire, out, table, f)
    <2>1. Head(table) \in Msgs
      BY <1>0, <1>3, HeadTail DEF Msgs, LoopMsgs
    <2>2. Tail(table) \in Seq(AnswerMsgs)
      BY <1>0, <1>3, HeadTail
    <2> TAKE f \in LoopMsgs
    <2> DEFINE one == IF Head(table) = f THEN 1 ELSE 0
    <2>3. Occurs(wire', f) = Occurs(wire, f) + one
      BY <1>0, <1>3, <2>1, OccursMore
    <2>4. Occurs(table, f) = Occurs(table', f) + one
      BY <1>0, <1>3, OccursLess
    <2>5. Occurs(table', f) \in Nat /\ one \in Nat
      BY <1>3, <2>2, OccursNat
    <2> HIDE DEF one
    <2> QED
      BY <1>3, <2>3, <2>4, <2>5, TotalNat DEF Total
  <1>4. ASSUME NEW x \in FrameMsgs \cup OwnMsgs, wire' = Append(wire, x), UNCHANGED <<out, table>>
        PROVE  \A f \in LoopMsgs : Total(wire', out', table', f) = Total(wire, out, table, f)
    <2> TAKE f \in LoopMsgs
    <2>1. x \in Msgs /\ x # f
      BY NotLoopMsg
    <2>2. Occurs(wire', f) = Occurs(wire, f) + 0
      BY <1>0, <1>4, <2>1, OccursMore
    <2> QED
      BY <1>4, <2>2, TotalNat DEF Total
  <1>5. CASE WriteOut
    BY <1>2, <1>5 DEF WriteOut, Send
  <1>6. CASE WriteTableFirst
    BY <1>3, <1>6 DEF WriteTableFirst, Send
  <1>7. CASE WriteFenced
    <2>1. fenced # <<>> /\ wire' = Append(wire, Head(fenced)) /\ UNCHANGED <<out, table>>
      BY <1>7 DEF WriteFenced, Send, queueVars
    <2>2. Head(fenced) \in FrameMsgs
      BY <1>0, <2>1, HeadTail
    <2> QED
      BY <1>4, <2>1, <2>2
  <1>8. CASE Take("own")
    <2>1. own # <<>> /\ wire' = Append(wire, Head(own)) /\ UNCHANGED <<out, table>>
      BY <1>8 DEF Take, Taking, Content, Send
    <2>2. Head(own) \in OwnMsgs
      BY <1>0, <2>1, HeadTail
    <2> QED
      BY <1>4, <2>1, <2>2
  <1>9. CASE Take("table")
    BY <1>3, <1>9 DEF Take, Taking, Content, Send
  <1>10. CASE Take("frames")
    <2>1. frames # <<>> /\ wire' = Append(wire, Head(frames)) /\ UNCHANGED <<out, table>>
      BY <1>10 DEF Take, Taking, Content, Send
    <2>2. Head(frames) \in FrameMsgs
      BY <1>0, <2>1, HeadTail
    <2> QED
      BY <1>4, <2>1, <2>2
  <1>11. ASSUME WriteStops \/ WriteReady \/ WriteTurns \/ TakeNothing \/ TakeNone \/ TakeFirst \/ Flush \/ Again
         PROVE  UNCHANGED <<wire, out, table>>
    BY <1>11 DEF WriteStops, WriteReady, WriteTurns, TakeNothing, TakeNone, TakeFirst, Flush, Again,
                 writeVars, queueVars
  <1> QED
    BY <1>1, <1>5, <1>6, <1>7, <1>8, <1>9, <1>10, <1>11 DEF WriteSide, QueueNames

\* What the loop adds to its own messages is on its way that much oftener.
LEMMA OutTotals ==
    ASSUME Types, NEW s \in Seq(LoopMsgs), out' = out \o s, UNCHANGED <<wire, table>>, NEW f
    PROVE  Total(wire', out', table', f) = Total(wire, out, table, f) + Occurs(s, f)
  <1>1. Occurs(out', f) = Occurs(out, f) + Occurs(s, f)
    BY OccursConcat DEF Types, QueueTypes
  <1>2. Occurs(s, f) \in Nat
    BY OccursNat
  <1> QED
    BY <1>1, <1>2, TotalNat DEF Total

\* answer_drops answers every message dropped, after what the read answered.
LEMMA DropTotals ==
    ASSUME Types, NEW s \in Seq(LoopMsgs), AnswerDrops(s), UNCHANGED <<wire, table>>, NEW f
    PROVE  /\ Occurs(s, f) \in Nat
           /\ Total(wire', out', table', f)
                 = Total(wire, out, table, f) + Occurs(s, f) + (IF TooBig = f THEN drops ELSE 0)
  <1> DEFINE d == [k \in 1..drops |-> TooBig]
  <1>1. drops \in Nat
    BY DEF Types, PeerTypes, CountTypes
  <1>2. d \in Seq(LoopMsgs)
    BY <1>1 DEF LoopMsgs
  <1>3. out' = out \o s \o d
    BY DEF AnswerDrops
  <1>10. DOMAIN d = 1..drops /\ \A k \in 1..drops : d[k] = TooBig
    OBVIOUS
  <1> HIDE DEF d
  <1>4. Occurs(d, f) = IF TooBig = f THEN drops ELSE 0
    BY <1>1, <1>10, OccursSame, Zenon
  <1>5. out \in Seq(LoopMsgs)
    BY DEF Types, QueueTypes
  <1>6. out \o s \o d = out \o (s \o d) /\ s \o d \in Seq(LoopMsgs)
    BY <1>2, <1>5, ConcatAssociative
  <1>7. Occurs(s \o d, f) = Occurs(s, f) + Occurs(d, f)
    BY <1>2, OccursConcat
  <1>8. Total(wire', out', table', f) = Total(wire, out, table, f) + Occurs(s \o d, f)
    BY <1>3, <1>6, OutTotals
  <1>9. Occurs(s, f) \in Nat /\ Total(wire, out, table, f) \in Nat
    BY OccursNat, TotalNat
  <1> QED
    BY <1>1, <1>4, <1>7, <1>8, <1>9

\* A ping put in front answers nobody.
LEMMA TopTotals ==
    ASSUME Types, Top, NEW f \in LoopMsgs \ {Ping}
    PROVE  Total(wire', out', table', f) = Total(wire, out, table, f)
  <1>1. UNCHANGED <<wire, table>> /\ (out' = out \/ out' = <<Ping>> \o out)
    BY DEF Top, writeVars
  <1>2. CASE out' = out
    BY <1>1, <1>2
  <1>3. CASE out' = <<Ping>> \o out
    <2>1. out \in Seq(LoopMsgs) /\ <<Ping>> \in Seq(LoopMsgs)
      BY DEF Types, QueueTypes, LoopMsgs
    <2>2. Occurs(out', f) = Occurs(<<Ping>>, f) + Occurs(out, f)
      BY <1>3, <2>1, OccursConcat
    <2>3. Occurs(<<Ping>>, f) = 0
      BY OccursOne
    <2> QED
      BY <1>1, <2>2, <2>3, TotalNat DEF Total
  <1> QED
    BY <1>1, <1>2, <1>3

\* The table's answer to i is one answer to i.
LEMMA TableTotals ==
    ASSUME Types, NEW i \in Ids, table' = Append(table, Answer(i)), UNCHANGED <<wire, out>>, NEW f
    PROVE  Total(wire', out', table', f)
              = Total(wire, out, table, f) + (IF Answer(i) = f THEN 1 ELSE 0)
  <1>1. Answer(i) \in AnswerMsgs
    BY DEF Answer, AnswerMsgs
  <1>2. Occurs(table', f) = Occurs(table, f) + (IF Answer(i) = f THEN 1 ELSE 0)
    BY <1>1, OccursMore DEF Types, QueueTypes
  <1> QED
    BY <1>2, TotalNat DEF Total

\* poll_accepting answers each refusal it takes, once, and nothing else.
LEMMA AcceptTotals ==
    ASSUME Types, PollAccepting, NEW i \in Nat
    PROVE  /\ Total(wire', out', table', Answer(i)) \in Nat
           /\ Total(wire', out', table', Answer(i)) <= Total(wire, out, table, Answer(i)) + 1
           /\ ~(i \in Resolved /\ phase[i] = "refused") =>
                 Total(wire', out', table', Answer(i)) = Total(wire, out, table, Answer(i))
           /\ Total(wire', out', table', TooBig) = Total(wire, out, table, TooBig)
  <1> DEFINE R == {id \in Resolved : phase[id] = "refused"}
  <1>1. PICK ids \in [1..Cardinality(R) -> R] :
           InArrivalOrder(ids) /\ out' = out \o [k \in DOMAIN ids |-> Answer(ids[k])]
    BY DEF PollAccepting
  <1>2. R \in SUBSET Ids
    BY DEF Resolved, Types, CallTypes
  <1>3. UNCHANGED <<wire, table>>
    BY DEF PollAccepting, TakeResolved, writeVars
  <1>4. Cardinality(R) \in Nat
    <2>1. IsFiniteSet(Ids)
      BY Sizes, FS_Interval DEF Ids
    <2> QED
      BY <1>2, <2>1, FS_Subset, FS_CardinalityType
  <1>5. i \notin R <=> ~(i \in Resolved /\ phase[i] = "refused")
    OBVIOUS
  <1> HIDE DEF R
  <1> DEFINE s == [k \in DOMAIN ids |-> Answer(ids[k])]
  <1>6. /\ Occurs(s, Answer(i)) \in 0..1 /\ Occurs(s, TooBig) = 0
        /\ i \notin R => Occurs(s, Answer(i)) = 0
    BY <1>1, <1>2, <1>4, OccursOnce
  <1>7. s \in Seq(LoopMsgs)
    <2>1. \A id \in R : Answer(id) \in LoopMsgs
      BY <1>2 DEF Answer, LoopMsgs, AnswerMsgs
    <2> QED
      BY <1>1, <1>4, <2>1
  <1>8. out' = out \o s
    BY <1>1
  <1> HIDE DEF s
  <1>9. \A f : Total(wire', out', table', f) = Total(wire, out, table, f) + Occurs(s, f)
    BY <1>3, <1>7, <1>8, OutTotals
  <1>10. Total(wire, out, table, Answer(i)) \in Nat /\ Total(wire, out, table, TooBig) \in Nat
    BY TotalNat
  <1> QED
    BY <1>5, <1>6, <1>9, <1>10

\* A message is answered at most once, not before its answer is due, and only
\* if it asked.
LEMMA AnswersKept ==
    ASSUME Types, PhaseOK, AnswersCounted, Next
    PROVE  AnswersCounted'
  <1> DEFINE T0(id) == Total(wire, out, table, Answer(id))
             T1(id) == Total(wire', out', table', Answer(id))
  <1>0. /\ asks \in Seq(MsgKinds) /\ taken \in 0..Len(asks) /\ Len(asks) <= MaxMsgs /\ MaxMsgs \in Nat
        /\ phase \in [Ids -> {"none", "running", "accepting", "accepted", "refused", "over"}]
        /\ accepting \subseteq Ids
    BY Sizes DEF Types, PeerTypes, CallTypes
  <1>1. \A id \in Ids : id \in Nat /\ Answer(id) \in LoopMsgs \ {Ping} /\ Answer(id) # TooBig
    BY DEF Ids, Answer, LoopMsgs, AnswerMsgs, Ping, TooBig
  <1>2. \A id \in Ids : T0(id) \in Nat /\ Counted(id)
    BY TotalNat DEF AnswersCounted
  <1>3. \A id \in Ids : id > taken => Unanswered(id)
    BY DEF PhaseOK, Unanswered
  <1>4. ASSUME NEW id \in Ids, T1(id) \in Nat, T1(id) <= T0(id), Unanswered(id)' => Unanswered(id),
               id <= taken' /\ asks'[id] \notin Asking
                  => Unanswered(id) \/ (id <= taken /\ asks[id] \notin Asking)
        PROVE  Counted(id)'
    <2>1. /\ T0(id) \in Nat /\ T0(id) <= 1 /\ (Unanswered(id) => T0(id) = 0)
          /\ id <= taken /\ asks[id] \notin Asking => T0(id) = 0
      BY <1>2 DEF Counted
    <2> HIDE DEF T0
    <2>2. /\ T1(id) <= 1
          /\ Unanswered(id)' => T1(id) = 0
          /\ id <= taken' /\ asks'[id] \notin Asking => T1(id) = 0
      <3> HIDE DEF T1
      <3> QED
        BY <1>4, <2>1
    <2> QED
      BY <2>2 DEF Counted
  <1>5. ASSUME NEW id \in Ids, T1(id) \in Nat, T1(id) <= T0(id) + 1, Unanswered(id), ~Unanswered(id)',
               asks'[id] \in Asking
        PROVE  Counted(id)'
    <2>1. T0(id) = 0
      BY <1>2, <1>5 DEF Counted
    <2>2. T1(id) <= 1
      <3> HIDE DEF T1, T0
      <3> QED
        BY <1>5, <2>1
    <2> QED
      BY <1>5, <2>2 DEF Counted
  <1>6. CASE Stops
    <2>1. /\ out' = <<>> /\ table' = <<>> /\ wire' = wire /\ UNCHANGED <<asks, phase>>
          /\ accepting' = {} /\ taken' \in {taken, taken + 1}
      BY <1>6 DEF Stops, Ends, peerVars, callVars
    <2>2. \A f : Occurs(out', f) = 0 /\ Occurs(table', f) = 0
      BY <2>1, OccursNone
    <2> SUFFICES ASSUME NEW id \in Ids
                 PROVE  Counted(id)'
      BY DEF AnswersCounted
    <2>3. T1(id) \in Nat /\ T1(id) <= T0(id)
      BY <2>1, <2>2, TotalNat DEF Total
    <2>4. Unanswered(id)' => Unanswered(id)
      BY <2>1 DEF Unanswered
    <2>5. id <= taken' => id <= taken \/ Unanswered(id)
      BY <1>0, <1>1, <1>3, <2>1
    <2> HIDE DEF T0, T1
    <2> QED
      BY <1>4, <2>1, <2>3, <2>4, <2>5
  <1>7. ASSUME \A id \in Ids : T1(id) = T0(id), phase' = phase, asks' = asks,
               accepting' \subseteq accepting, taken' \in {taken, taken + 1}
        PROVE  AnswersCounted'
    <2> SUFFICES ASSUME NEW id \in Ids
                 PROVE  Counted(id)'
      BY DEF AnswersCounted
    <2>1. T1(id) \in Nat /\ T1(id) <= T0(id)
      <3>1. T0(id) \in Nat /\ T1(id) = T0(id)
        BY <1>2, <1>7
      <3> HIDE DEF T0, T1
      <3> QED
        BY <3>1
    <2>2. Unanswered(id)' => Unanswered(id)
      BY <1>7 DEF Unanswered
    <2>3. id <= taken' => id <= taken \/ Unanswered(id)
      BY <1>0, <1>1, <1>3, <1>7
    <2> HIDE DEF T0, T1
    <2> QED
      BY <1>4, <1>7, <2>1, <2>2, <2>3
  <1>8. CASE WriteSide
    <2>1. UNCHANGED <<asks, phase, accepting, taken>>
      BY <1>8 DEF WriteSide, WriteStops, WriteReady, WriteOut, WriteTableFirst, WriteFenced, WriteTurns,
                  TakeNothing, TakeNone, TakeFirst, Take, Flush, Again, peerVars, callVars
    <2>2. \A id \in Ids : T1(id) = T0(id)
      BY <1>1, <1>8, WriteTotals
    <2> HIDE DEF T0, T1
    <2> QED
      BY <1>7, <2>1, <2>2
  <1>9. CASE Outside
    <2>1. CASE UNCHANGED <<wire, out, table, asks, phase, accepting, taken>>
      BY <1>7, <2>1
    <2>2. CASE PeerSends
      <3>1. UNCHANGED <<wire, out, table, phase, accepting, taken>>
        BY <2>2 DEF PeerSends, callVars, queueVars, writeVars
      <3>2. \A id \in Ids : id <= taken => asks'[id] = asks[id]
        BY <2>2, SentIsKept
      <3> SUFFICES ASSUME NEW id \in Ids
                   PROVE  Counted(id)'
        BY DEF AnswersCounted
      <3>3. T1(id) = T0(id) /\ (Unanswered(id)' <=> Unanswered(id))
        BY <3>1 DEF Unanswered
      <3>4. T1(id) \in Nat /\ T1(id) <= T0(id)
        <4>1. T0(id) \in Nat
          BY <1>2
        <4> HIDE DEF T0, T1
        <4> QED
          BY <3>3, <4>1
      <3> HIDE DEF T0, T1
      <3> QED
        BY <1>4, <3>1, <3>2, <3>3, <3>4
    <2>3. ASSUME NEW i \in Ids, TaskAnswers(i) \/ SubAccepts(i)
          PROVE  AnswersCounted'
      <3>1. /\ table' = Append(table, Answer(i)) /\ UNCHANGED <<wire, out, asks, accepting, taken>>
            /\ phase[i] \in {"running", "accepting"} /\ phase'[i] \in {"over", "accepted"}
            /\ \A id \in Ids : id # i => phase'[id] = phase[id]
        BY <1>0, <2>3 DEF TaskAnswers, SubAccepts, writeVars, peerVars
      <3> SUFFICES ASSUME NEW id \in Ids
                   PROVE  Counted(id)'
        BY DEF AnswersCounted
      <3>2. T1(id) = T0(id) + (IF Answer(i) = Answer(id) THEN 1 ELSE 0)
        BY <3>1, TableTotals
      <3>3. T0(id) \in Nat
        BY <1>2
      <3> HIDE DEF T0, T1
      <3>4. CASE id = i
        <4>1. Unanswered(id) /\ ~Unanswered(id)' /\ asks'[id] \in Asking
          BY <3>1, <3>4 DEF Unanswered, PhaseOK, Asking
        <4>2. T1(id) \in Nat /\ T1(id) <= T0(id) + 1
          BY <3>2, <3>3
        <4> QED
          BY <1>5, <4>1, <4>2
      <3>5. CASE id # i
        <4>1. Answer(i) # Answer(id)
          BY <3>5 DEF Answer
        <4>2. T1(id) \in Nat /\ T1(id) <= T0(id)
          BY <3>2, <3>3, <4>1
        <4>3. Unanswered(id)' <=> Unanswered(id)
          BY <3>1, <3>5 DEF Unanswered
        <4> QED
          BY <1>4, <3>1, <4>2, <4>3
      <3> QED
        BY <3>4, <3>5
    <2>4. ASSUME NEW i \in Ids, SubRefuses(i) \/ SubEnds(i)
          PROVE  AnswersCounted'
      <3>1. /\ UNCHANGED <<wire, out, table, asks, accepting, taken>>
            /\ phase[i] = "accepting" \/ phase'[i] = "over"
            /\ \A id \in Ids : id # i => phase'[id] = phase[id]
        BY <1>0, <2>4 DEF SubRefuses, SubEnds, writeVars, queueVars, peerVars
      <3> SUFFICES ASSUME NEW id \in Ids
                   PROVE  Counted(id)'
        BY DEF AnswersCounted
      <3>2. T1(id) = T0(id)
        BY <3>1
      <3>3. T1(id) \in Nat /\ T1(id) <= T0(id)
        <4>1. T0(id) \in Nat
          BY <1>2
        <4> HIDE DEF T0, T1
        <4> QED
          BY <3>2, <4>1
      <3>4. Unanswered(id)' => Unanswered(id)
        BY <3>1 DEF Unanswered
      <3> HIDE DEF T0, T1
      <3> QED
        BY <1>4, <3>1, <3>3, <3>4
    <2>5. ASSUME PeerBlocks \/ PeerUnblocks \/ Ask \/ PingDue \/ OwnSends \/ \E i \in Ids : SubSends(i)
          PROVE  UNCHANGED <<wire, out, table, asks, phase, accepting, taken>>
      BY <2>5 DEF PeerBlocks, PeerUnblocks, Ask, PingDue, OwnSends, SubSends, peerVars, callVars, queueVars,
                  writeVars
    <2> QED
      BY <1>9, <2>1, <2>2, <2>3, <2>4, <2>5 DEF Outside
  <1>10. CASE ReadSide
    <2>1. CASE Poll \/ CoopSpent \/ ReadSkipped \/ ReadDropped
      <3>1. UNCHANGED <<wire, out, table, asks, phase, accepting>> /\ taken' \in {taken, taken + 1}
        BY <2>1 DEF Poll, CoopSpent, ReadSkipped, ReadDropped, peerVars, callVars, queueVars, writeVars
      <3> QED
        BY <1>7, <3>1
    <2>2. CASE Top
      <3>1. UNCHANGED <<asks, phase, accepting, taken>>
        BY <2>2 DEF Top, peerVars, callVars
      <3>2. \A id \in Ids : T1(id) = T0(id)
        BY <1>1, <2>2, TopTotals
      <3> HIDE DEF T0, T1
      <3> QED
        BY <1>7, <3>1, <3>2
    <2>3. CASE PollAccepting
      <3>1. accepting' = accepting \ Resolved /\ UNCHANGED <<asks, phase, taken>>
        BY <2>3 DEF PollAccepting, TakeResolved, peerVars, callVars
      <3> SUFFICES ASSUME NEW id \in Ids
                   PROVE  Counted(id)'
        BY DEF AnswersCounted
      <3>2. /\ T1(id) \in Nat /\ T1(id) <= T0(id) + 1
            /\ ~(id \in Resolved /\ phase[id] = "refused") => T1(id) = T0(id)
        BY <1>1, <2>3, AcceptTotals
      <3>3. T0(id) \in Nat
        BY <1>2
      <3> HIDE DEF T0, T1
      <3>5. CASE id \in Resolved /\ phase[id] = "refused"
        <4>1. Unanswered(id) /\ ~Unanswered(id)' /\ asks'[id] \in Asking
          BY <3>1, <3>5 DEF Unanswered, PhaseOK, Asking, Resolved
        <4> QED
          BY <1>5, <3>2, <4>1
      <3>6. CASE ~(id \in Resolved /\ phase[id] = "refused")
        <4>1. Unanswered(id)' => Unanswered(id)
          BY <3>1 DEF Unanswered
        <4>2. T1(id) <= T0(id)
          BY <3>2, <3>3, <3>6
        <4> QED
          BY <1>4, <3>1, <3>2, <4>1, <4>2
      <3> QED
        BY <3>5, <3>6
    <2>4. CASE ReadPending
      <3>1. AnswerDrops(<<>>) /\ UNCHANGED <<wire, table, asks, phase, accepting, taken>>
        BY <2>4 DEF ReadPending, peerVars, callVars, writeVars
      <3>2. \A id \in Ids : T1(id) = T0(id)
        <4> TAKE id \in Ids
        <4>1. <<>> \in Seq(LoopMsgs) /\ Occurs(<<>>, Answer(id)) = 0
          BY OccursNone
        <4>2. T1(id) = T0(id) + Occurs(<<>>, Answer(id)) + 0
          BY <1>1, <3>1, <4>1, DropTotals
        <4>3. T0(id) \in Nat
          BY <1>2
        <4> HIDE DEF T0, T1
        <4> QED
          BY <4>1, <4>2, <4>3
      <3> HIDE DEF T0, T1
      <3> QED
        BY <1>7, <3>1, <3>2
    <2>5. CASE ReadMessage
      <3> DEFINE i == taken + 1
                 here == asks[i] \in {"now", "sub"} /\ phase'[i] = "over"
                 s == IF here THEN <<Answer(i)>> ELSE <<>>
      <3>1. taken < Len(asks) /\ i \in Ids
        BY <1>0, <2>5 DEF Ids, ReadMessage, Reading
      <3>2. /\ AnswerDrops(s) /\ UNCHANGED <<wire, table, asks>> /\ taken' = i
            /\ accepting' \subseteq accepting \cup {i}
            /\ \A id \in Ids : id # i => phase'[id] = phase[id]
        BY <1>0, <2>5, <3>1 DEF ReadMessage, peerVars, writeVars
      <3>3. Unanswered(i)
        BY <1>0, <1>3, <3>1
      <3> SUFFICES ASSUME NEW id \in Ids
                   PROVE  Counted(id)'
        BY DEF AnswersCounted
      <3>4. s \in Seq(LoopMsgs) /\ Occurs(s, Answer(id)) = IF here /\ Answer(i) = Answer(id) THEN 1 ELSE 0
        <4>1. CASE here
          BY <1>1, <3>1, <4>1, OccursOne
        <4>2. CASE ~here
          BY <4>2, OccursNone
        <4> QED
          BY <4>1, <4>2
      <3> HIDE DEF s, here
      <3>5. T1(id) = T0(id) + (IF here /\ Answer(i) = Answer(id) THEN 1 ELSE 0)
        <4>1. T1(id) = T0(id) + Occurs(s, Answer(id)) + 0
          BY <1>1, <3>2, <3>4, DropTotals
        <4>2. T0(id) \in Nat
          BY <1>2
        <4> HIDE DEF T0, T1
        <4> QED
          BY <3>4, <4>1, <4>2
      <3>6. T0(id) \in Nat
        BY <1>2
      <3> HIDE DEF T0, T1
      <3>7. CASE here /\ id = i
        <4>1. ~Unanswered(id)' /\ asks'[id] \in Asking
          BY <3>2, <3>7 DEF here, Unanswered, Asking
        <4>2. T1(id) \in Nat /\ T1(id) <= T0(id) + 1
          BY <3>5, <3>6
        <4> QED
          BY <1>5, <3>3, <3>7, <4>1, <4>2
      <3>8. CASE ~here /\ id = i
        <4>1. T1(id) \in Nat /\ T1(id) <= T0(id)
          BY <3>5, <3>6, <3>8
        <4> QED
          BY <1>4, <3>3, <3>8, <4>1
      <3>9. CASE id # i
        <4>1. Answer(i) # Answer(id)
          BY <3>9 DEF Answer
        <4>2. T1(id) \in Nat /\ T1(id) <= T0(id)
          BY <3>5, <3>6, <4>1
        <4>3. Unanswered(id)' => Unanswered(id)
          BY <3>2, <3>9 DEF Unanswered
        <4>4. id <= taken' => id <= taken
          BY <1>0, <1>1, <3>2, <3>9
        <4> QED
          BY <1>4, <3>2, <4>2, <4>3, <4>4
      <3> QED
        BY <3>7, <3>8, <3>9
    <2> QED
      BY <1>10, <2>1, <2>2, <2>3, <2>4, <2>5 DEF ReadSide
  <1> QED
    BY <1>6, <1>8, <1>9, <1>10, NextIs

\* Every message dropped is counted once, whether its answer is still to be
\* made or on its way.
LEMMA DropsKept ==
    ASSUME Types, DropsCounted, Next
    PROVE  DropsCounted'
  <1> DEFINE T0 == Total(wire, out, table, TooBig)
             T1 == Total(wire', out', table', TooBig)
  <1>0. /\ asks \in Seq(MsgKinds) /\ taken \in 0..Len(asks) /\ Len(asks) \in Nat /\ taken \in Nat
        /\ Len(asks) <= MaxMsgs /\ MaxMsgs \in Nat /\ drops \in Nat
    BY Sizes DEF Types, PeerTypes, CountTypes
  <1>1. T0 \in Nat /\ Bigs(asks, taken) \in Nat
    BY <1>0, TotalNat, BigsMore
  <1>2. TooBig \in LoopMsgs \ {Ping} /\ \A id \in Ids : Answer(id) # TooBig
    BY DEF LoopMsgs, Ping, TooBig, Answer
  <1>3. ASSUME pc # "ended", T1 = T0, drops' = drops, Bigs(asks', taken') = Bigs(asks, taken)
        PROVE  DropsCounted'
    BY <1>3 DEF DropsCounted
  <1>4. CASE Stops
    BY <1>4 DEF Stops, Ends, DropsCounted
  <1>5. CASE WriteSide
    <2>1. pc # "ended" /\ UNCHANGED <<asks, taken, drops>>
      BY <1>5 DEF WriteSide, WriteStops, WriteReady, WriteOut, WriteTableFirst, WriteFenced, WriteTurns,
                  TakeNothing, TakeNone, TakeFirst, Take, Taking, Writable, Flush, Again, peerVars
    <2>2. T1 = T0
      BY <1>2, <1>5, WriteTotals
    <2> QED
      BY <1>3, <2>1, <2>2
  <1>6. CASE pc # "ended" /\ Outside
    <2>1. CASE UNCHANGED <<wire, out, table, asks, taken, drops>>
      BY <1>3, <1>6, <2>1
    <2>2. CASE PeerSends
      <3>1. UNCHANGED <<wire, out, table, taken, drops>>
        BY <2>2 DEF PeerSends, queueVars, writeVars
      <3>2. \A id \in 1..taken : asks'[id] = asks[id]
        <4>1. \A id \in 1..taken : id \in Ids /\ id <= taken
          BY <1>0 DEF Ids
        <4> QED
          BY <2>2, <4>1, SentIsKept
      <3>3. Bigs(asks', taken') = Bigs(asks, taken)
        <4>1. {id \in 1..taken : asks'[id] = "big"} = {id \in 1..taken : asks[id] = "big"}
          BY <3>2
        <4> QED
          BY <3>1, <4>1 DEF Bigs
      <3> QED
        BY <1>3, <1>6, <3>1, <3>3
    <2>3. ASSUME NEW i \in Ids, TaskAnswers(i) \/ SubAccepts(i)
          PROVE  DropsCounted'
      <3>1. table' = Append(table, Answer(i)) /\ UNCHANGED <<wire, out, asks, taken, drops>>
        BY <2>3 DEF TaskAnswers, SubAccepts, writeVars, peerVars
      <3>2. T1 = T0 + 0
        BY <1>2, <3>1, TableTotals
      <3>3. T1 = T0
        <4> HIDE DEF T0, T1
        <4> QED
          BY <1>1, <3>2
      <3> QED
        BY <1>3, <1>6, <3>1, <3>3
    <2>4. ASSUME \/ PeerBlocks \/ PeerUnblocks \/ Ask \/ PingDue \/ OwnSends
                 \/ \E i \in Ids : SubRefuses(i) \/ SubSends(i) \/ SubEnds(i)
          PROVE  UNCHANGED <<wire, out, table, asks, taken, drops>>
      BY <2>4 DEF PeerBlocks, PeerUnblocks, Ask, PingDue, OwnSends, SubRefuses, SubSends, SubEnds, peerVars,
                  queueVars, writeVars
    <2> QED
      BY <1>6, <2>1, <2>2, <2>3, <2>4 DEF Outside
  <1>7. CASE ReadSide
    <2>0. pc # "ended"
      BY <1>7 DEF ReadSide, Poll, Top, PollAccepting, TakeResolved, CoopSpent, Running, ReadSkipped,
                  ReadPending, ReadDropped, ReadMessage, Reading
    <2>1. CASE Poll \/ CoopSpent \/ ReadSkipped
      <3>1. UNCHANGED <<wire, out, table, asks, taken, drops>>
        BY <2>1 DEF Poll, CoopSpent, ReadSkipped, peerVars, queueVars, writeVars
      <3> QED
        BY <1>3, <2>0, <3>1
    <2>2. CASE Top
      <3>1. UNCHANGED <<asks, taken, drops>>
        BY <2>2 DEF Top, peerVars
      <3>2. T1 = T0
        BY <1>2, <2>2, TopTotals
      <3> QED
        BY <1>3, <2>0, <3>1, <3>2
    <2>3. CASE PollAccepting
      <3>1. UNCHANGED <<asks, taken, drops>>
        BY <2>3 DEF PollAccepting, TakeResolved, peerVars
      <3>2. T1 = T0
        <4>1. 0 \in Nat
          OBVIOUS
        <4> QED
          BY <2>3, <4>1, AcceptTotals
      <3> QED
        BY <1>3, <2>0, <3>1, <3>2
    <2>4. CASE ReadPending
      <3>1. AnswerDrops(<<>>) /\ drops' = 0 /\ UNCHANGED <<wire, table, asks, taken>>
        BY <2>4 DEF ReadPending, AnswerDrops, peerVars, writeVars
      <3>2. <<>> \in Seq(LoopMsgs) /\ Occurs(<<>>, TooBig) = 0
        BY OccursNone
      <3>3. T1 = T0 + Occurs(<<>>, TooBig) + (IF TooBig = TooBig THEN drops ELSE 0)
        BY <3>1, <3>2, DropTotals
      <3>4. T0 + drops = Bigs(asks, taken)
        BY <2>0 DEF DropsCounted
      <3>5. T1 + drops' = Bigs(asks', taken')
        <4>1. Bigs(asks', taken') = Bigs(asks, taken)
          BY <3>1
        <4> HIDE DEF T0, T1
        <4> QED
          BY <1>0, <1>1, <3>1, <3>2, <3>3, <3>4, <4>1
      <3> QED
        BY <3>5 DEF DropsCounted
    <2>5. CASE ReadDropped
      <3>1. /\ taken' = taken + 1 /\ drops' = drops + 1 /\ asks[taken + 1] = "big"
            /\ UNCHANGED <<wire, out, table, asks>>
        BY <2>5 DEF ReadDropped, peerVars, queueVars, writeVars
      <3>2. Bigs(asks, taken + 1) = Bigs(asks, taken) + 1
        BY <1>0, <3>1, BigsMore
      <3>3. T0 + drops = Bigs(asks, taken)
        BY <2>0 DEF DropsCounted
      <3>4. T1 = T0 /\ Bigs(asks', taken') = Bigs(asks, taken + 1)
        BY <3>1
      <3>5. T1 + drops' = Bigs(asks', taken')
        <4> HIDE DEF T0, T1
        <4> QED
          BY <1>0, <1>1, <3>1, <3>2, <3>3, <3>4
      <3> QED
        BY <3>5 DEF DropsCounted
    <2>6. CASE ReadMessage
      <3>1. PICK s \in {<<Answer(taken + 1)>>, <<>>} :
               AnswerDrops(s) /\ UNCHANGED <<wire, table, asks>> /\ taken' = taken + 1
        BY <2>6 DEF ReadMessage, peerVars, writeVars
      <3>2. taken + 1 \in Ids /\ asks[taken + 1] # "big"
        BY <1>0, <2>6 DEF Ids, ReadMessage, Reading
      <3>3. Answer(taken + 1) # TooBig /\ Answer(taken + 1) \in LoopMsgs
        BY <1>2, <3>2 DEF Answer, LoopMsgs, AnswerMsgs
      <3>4. s \in Seq(LoopMsgs) /\ Occurs(s, TooBig) = 0
        <4>1. CASE s = <<Answer(taken + 1)>>
          <5>1. Occurs(<<Answer(taken + 1)>>, TooBig) = 0
            BY <3>3, OccursOne
          <5> QED
            BY <3>3, <4>1, <5>1
        <4>2. CASE s = <<>>
          <5>1. Occurs(<<>>, TooBig) = 0
            BY OccursNone
          <5> QED
            BY <4>2, <5>1
        <4> QED
          BY <3>1, <4>1, <4>2
      <3>5. T1 = T0 + Occurs(s, TooBig) + (IF TooBig = TooBig THEN drops ELSE 0)
        BY <3>1, <3>4, DropTotals
      <3>6. Bigs(asks, taken + 1) = Bigs(asks, taken) + 0
        BY <1>0, <3>2, BigsMore
      <3>7. T0 + drops = Bigs(asks, taken)
        BY <2>0 DEF DropsCounted
      <3>8. Bigs(asks', taken') = Bigs(asks, taken + 1) /\ drops' = 0
        BY <3>1 DEF AnswerDrops
      <3>9. T1 + drops' = Bigs(asks', taken')
        <4> HIDE DEF T0, T1
        <4> QED
          BY <1>0, <1>1, <3>4, <3>5, <3>6, <3>7, <3>8
      <3> QED
        BY <3>9 DEF DropsCounted
    <2> QED
      BY <1>7, <2>1, <2>2, <2>3, <2>4, <2>5, <2>6 DEF ReadSide
  <1> QED
    BY <1>4, <1>5, <1>6, <1>7, NextIs

\* An answer is made once, for every step.
LEMMA OnceKept ==
    ASSUME Types, OnceOK, Next
    PROVE  OnceOK'
  BY PhaseKept, AnswersKept, DropsKept DEF OnceOK
-----------------------------------------------------------------------------
\* Initially the invariant holds.
LEMMA InitIInv == Init => IInv
  <1> SUFFICES ASSUME Init PROVE IInv
    OBVIOUS
  <1> USE DEF Init
  <1>1. PeerTypes
    <2>1. script.msgs \in Seq(MsgKinds)
      BY ScriptIs
    <2>2. IsPrefix(asks, script.msgs)
      BY <2>1 DEF IsPrefix
    <2>3. asks \in Seq(MsgKinds) /\ Len(asks) <= MaxMsgs /\ taken \in 0..Len(asks)
      BY Sizes
    <2> QED
      BY <2>2, <2>3 DEF PeerTypes
  <1>2. CallTypes
    <2>1. script.frames \in Nat
      BY ScriptIs
    <2> QED
      BY <2>1 DEF CallTypes, Ids
  <1>3. QueueTypes
    BY Sizes DEF QueueTypes
  <1>4. CountTypes
    BY Sizes DEF CountTypes, QueueNames
  <1>5. FlagTypes
    BY DEF FlagTypes
  <1>6. LoopOK
    BY Sizes DEF LoopOK
  <1>7. TurnsOK
    <2>1. \A q \in QueueNames : Offset(0, q) \in 0..2
      BY OffsetIs
    <2> QED
      BY <2>1 DEF TurnsOK, QueueNames
  <1>8. WakeOK
    BY DEF WakeOK, PastAccept, PastRead
  <1>9. OrderOK
    BY DEF OrderOK, WireFollows, FramesFollow, FramesSent, FencedFirst, LastOnItsWay, AnswerOnItsWay, Ids
  <1>10. \A f : Total(wire, out, table, f) = 0
    BY OccursNone DEF Total
  <1>11. PhaseOK
    BY DEF PhaseOK, Ids
  <1>12. AnswersCounted
    BY <1>10 DEF AnswersCounted, Counted
  <1>13. DropsCounted
    <2>1. {id \in 1..taken : asks[id] = "big"} = {}
      OBVIOUS
    <2>2. Bigs(asks, taken) = 0
      BY <2>1, FS_EmptySet DEF Bigs
    <2> QED
      BY <1>10, <2>2 DEF DropsCounted
  <1> QED
    BY <1>1, <1>2, <1>3, <1>4, <1>5, <1>6, <1>7, <1>8, <1>9, <1>11, <1>12, <1>13 DEF IInv, Types, OnceOK

\* Every step keeps the invariant, and so does a step that changes nothing.
LEMMA NextIInv == IInv /\ [Next]_vars => IInv'
  <1>1. ASSUME IInv, Next PROVE IInv'
    BY <1>1, TypesKept, LoopKept, TurnsKept, WakeKept, OrderKept, OnceKept DEF IInv
  <1>2. ASSUME IInv, UNCHANGED vars PROVE IInv'
    <2>1. /\ UNCHANGED <<script, asks, blocked, blocks, phase, made, asked, due, pings, out, table, own>>
          /\ UNCHANGED <<frames, gathered, unflushed, sendable, wire, pc, slot, moved, reads, spent>>
          /\ UNCHANGED <<fenced, turn, passed, ahead, taken, accepting, drops, armed, woken>>
      BY <1>2 DEF vars, peerVars, callVars, timeVars, queueVars, writeVars, loopVars, fenceVars
    <2>2. Types'
      BY <1>2, <2>1 DEF IInv, Types, PeerTypes, CallTypes, QueueTypes, CountTypes, FlagTypes
    <2>3. LoopOK' /\ TurnsOK'
      BY <1>2, <2>1 DEF IInv, LoopOK, TurnsOK, Content
    <2>4. WakeOK'
      BY <1>2, <2>1 DEF IInv, WakeOK, AcceptWaits, ReadWaits, WriteWaits, AllWait, QueueWaits, Content
    <2>5. OrderOK'
      BY <1>2, <2>1 DEF IInv, OrderOK
    <2>6. PhaseOK' /\ AnswersCounted' /\ DropsCounted'
      BY <1>2, <2>1 DEF IInv, OnceOK, PhaseOK, AnswersCounted, Counted, Unanswered, DropsCounted
    <2> QED
      BY <2>2, <2>3, <2>4, <2>5, <2>6 DEF IInv, OnceOK
  <1> QED
    BY <1>1, <1>2

\* The invariant holds always.
LEMMA InvariantHolds == Spec => []IInv
  BY InitIInv, NextIInv, PTL DEF Spec

\* The types of the proof are those the runs check.
LEMMA TypesGive ==
    ASSUME Types
    PROVE  TypeOK
  <1>1. /\ script \in Scripts /\ IsPrefix(asks, script.msgs) /\ taken \in 0..Len(asks)
        /\ phase \in [1..MaxMsgs -> {"none", "running", "accepting", "accepted", "refused", "over"}]
        /\ accepting \subseteq 1..MaxMsgs
    BY DEF Types, PeerTypes, CallTypes, Ids
  <1>2. made \in [1..MaxMsgs -> 0..script.frames]
    <2>1. script.frames \in Nat
      BY ScriptIs DEF Types, PeerTypes
    <2>2. made \in [Ids -> Nat] /\ \A id \in Ids : made[id] <= script.frames
      BY DEF Types, CallTypes
    <2> QED
      BY <2>1, <2>2 DEF Ids
  <1>3. (\A q \in {own, table, frames} : Len(q) <= QueueCap) /\ Len(fenced) <= 1
    BY DEF Types, QueueTypes
  <1>4. drops \in 0..MaxMsgs
    BY Sizes DEF Types, PeerTypes, CountTypes
  <1>5. {unflushed, sendable, moved, spent, woken, asked, due, blocked} \subseteq BOOLEAN
    BY DEF Types, FlagTypes
  <1> QED
    BY <1>1, <1>2, <1>3, <1>4, <1>5 DEF TypeOK, Types, CountTypes
-----------------------------------------------------------------------------
\* A loop that is parked and not woken was left nothing to do: whatever comes
\* between its polls finds a waker, or the loop wakes itself (poll_run).
THEOREM ParkedHasNothingToDo == Spec => []NoLostWake
  <1>1. IInv => NoLostWake
    <2> SUFFICES ASSUME IInv, pc = "parked", ~woken
                 PROVE  /\ ~asked /\ ~due
                        /\ \A id \in accepting : phase[id] = "accepting"
                        /\ Len(out) < OutHigh => taken = Len(asks)
                        /\ out \o fenced \o own \o table \o frames # << >> \/ unflushed
                              => blocked /\ "write" \in armed
      BY DEF NoLostWake
    <2>1. ~moved
      BY DEF IInv, LoopOK
    <2>2. ~asked /\ ~due /\ AcceptWaits /\ ReadWaits /\ ((AllWait /\ ~unflushed) \/ WriteWaits)
      BY <2>1 DEF IInv, WakeOK, PastAccept, PastRead
    <2>3. Len(out) < OutHigh => taken = Len(asks)
      <3>1. Len(out) \in Nat /\ OutHigh \in Nat
        BY Sizes DEF IInv, Types, QueueTypes
      <3> QED
        BY <2>2, <3>1 DEF ReadWaits
    <2>4. CASE AllWait /\ ~unflushed
      <3>1. out = <<>> /\ fenced = <<>> /\ own = <<>> /\ table = <<>> /\ frames = <<>>
        BY <2>4 DEF AllWait, QueueWaits, Content, QueueNames
      <3>2. out \o fenced \o own \o table \o frames = <<>>
        BY <3>1
      <3> QED
        BY <2>2, <2>3, <2>4, <3>2 DEF AcceptWaits
    <2>5. CASE WriteWaits
      BY <2>2, <2>3, <2>5 DEF AcceptWaits, WriteWaits
    <2> QED
      BY <2>2, <2>4, <2>5
  <1> QED
    BY <1>1, InvariantHolds, PTL

\* next_out takes the queues by turns: one that waits sees two frames of the
\* others go first, and beyond them only the answers that went ahead of a first
\* frame.
THEOREM QueuesTakeTurns == Spec => []ByTurns
  <1>1. IInv => ByTurns
    <2> SUFFICES ASSUME IInv PROVE ByTurns
      OBVIOUS
    <2>1. TypeOK
      BY TypesGive DEF IInv
    <2>2. /\ passed \in [QueueNames -> Nat] /\ ahead \in [QueueNames -> Nat]
          /\ turn \in 0..2
      BY DEF IInv, Types, CountTypes
    <2>3. \A q \in QueueNames : passed[q] <= 2 + ahead[q]
      <3> TAKE q \in QueueNames
      <3>1. /\ Offset(turn, q) \in 0..2 /\ passed[q] + Offset(turn, q) <= 2 + ahead[q]
            /\ passed[q] \in Nat /\ ahead[q] \in Nat
        BY <2>2, OffsetIs DEF IInv, TurnsOK
      <3> QED
        BY <3>1
    <2> QED
      BY <2>1, <2>2, <2>3 DEF ByTurns
  <1> QED
    BY <1>1, InvariantHolds, PTL

\* A subscription's answer is handed to the socket before any of its frames,
\* and its frames in the order it sent them (next_out's fence).
THEOREM AnswerGoesFirst == Spec => []AnswerBeforeFrames
  <1>1. IInv => AnswerBeforeFrames
    <2> SUFFICES ASSUME IInv, NEW id \in 1..MaxMsgs, NEW n \in 1..made[id], NEW k \in DOMAIN wire,
                        wire[k] = FrameOf(id, n)
                 PROVE  \E j \in 1..(k - 1) :
                           wire[j] = IF n = 1 THEN Answer(id) ELSE FrameOf(id, n - 1)
      BY DEF AnswerBeforeFrames, Before
    <2>1. wire \in Seq(Msgs) /\ k \in 1..Len(wire)
      BY DEF IInv, Types, QueueTypes
    <2>2. wire[k][1] = "frame" /\ wire[k][2] = id /\ wire[k][3] = n
      BY DEF FrameOf
    <2>3. \E j \in 1..(k - 1) : wire[j] = Ahead(wire[k])
      BY <2>1, <2>2 DEF IInv, OrderOK, WireFollows
    <2> QED
      BY <2>2, <2>3 DEF Ahead
  <1> QED
    BY <1>1, InvariantHolds, PTL

\* A message is answered at most once over the loop's own messages, the
\* table's queue and the wire, and only if it was read and asked; the answers
\* to the messages the guard dropped are as many as those messages.
THEOREM NeverAnsweredTwice == Spec => []AnsweredOnce
  <1>1. IInv => AnsweredOnce
    <2> SUFFICES ASSUME IInv PROVE AnsweredOnce
      OBVIOUS
    <2> DEFINE all == wire \o out \o table
    <2>1. \A f : Occurs(all, f) = Total(wire, out, table, f)
      <3> TAKE f
      <3>1. wire \in Seq(Msgs) /\ out \in Seq(Msgs) /\ table \in Seq(Msgs)
        BY DEF IInv, Types, QueueTypes, Msgs, LoopMsgs
      <3>2. wire \o out \in Seq(Msgs)
        BY <3>1
      <3>3. Occurs((wire \o out) \o table, f) = Occurs(wire \o out, f) + Occurs(table, f)
        BY <3>1, <3>2, OccursConcat
      <3>4. Occurs(wire \o out, f) = Occurs(wire, f) + Occurs(out, f)
        BY <3>1, OccursConcat
      <3> QED
        BY <3>3, <3>4 DEF Total
    <2>2. /\ \A id \in Ids :
                Occurs(all, Answer(id)) <= IF id <= taken /\ asks[id] \in Asking THEN 1 ELSE 0
          /\ pc # "ended" => Occurs(all, TooBig) + drops = Bigs(asks, taken)
      <3> HIDE DEF all
      <3>1. ASSUME NEW id \in Ids
            PROVE  Occurs(all, Answer(id)) <= IF id <= taken /\ asks[id] \in Asking THEN 1 ELSE 0
        <4>1. Counted(id) /\ (id > taken => Unanswered(id)) /\ id \in Nat /\ taken \in Nat
          BY DEF IInv, Types, PeerTypes, OnceOK, AnswersCounted, PhaseOK, Unanswered, Ids
        <4>2. Total(wire, out, table, Answer(id)) = Occurs(all, Answer(id))
          BY <2>1
        <4> QED
          BY <4>1, <4>2 DEF Counted
      <3> QED
        BY <2>1, <3>1 DEF IInv, OnceOK, DropsCounted
    <2> QED
      BY <2>2 DEF AnsweredOnce, Occurs, Bigs, Ids, Asking
  <1> QED
    BY <1>1, InvariantHolds, PTL
=============================================================================
