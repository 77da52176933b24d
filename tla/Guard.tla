------------------------------- MODULE Guard -------------------------------
(***************************************************************************)
(* The message cap under tungstenite (src/ws/guard.rs): the read side of a *)
(* socket, which follows each frame's header ahead of tungstenite, holds a *)
(* fragmented message until its last frame, and drops a message over the   *)
(* cap whole and counts it.                                                *)
(*                                                                         *)
(* A frame is its opcode's class, its fin bit and its payload length.  On  *)
(* the wire it is a header, one unit that names the frame, then its        *)
(* payload, one unit a byte; a unit is <<frame, place>>, the header at     *)
(* place 0.  A read of the socket brings any number of units, and a read   *)
(* by tungstenite takes any number, so every way of cutting the stream     *)
(* into reads is a behaviour.                                              *)
(***************************************************************************)
EXTENDS Naturals, Sequences, FiniteSets, FiniteSetsExt

CONSTANTS
    Cap,            \* max_message_size
    Lens,           \* the payload lengths a peer uses
    MaxFrames       \* bound: the frames a peer sends

ASSUME CapIsNat == Cap \in Nat
ASSUME LensAreNat == Lens \subseteq Nat
ASSUME MaxFramesIsNat == MaxFrames \in Nat

VARIABLES
    sent,           \* every frame the peer sent, in order
    wire,           \* units on their way to the guard
    buf,            \* read from the socket, not yet handed on
    ready,          \* released fragments, handed on before anything in buf
    hold,           \* the fragments of the message being held
    state,          \* where the guard is in the stream, and the units left
    msg,            \* where the current data message stands
    release,        \* the fragment being held is its message's last
    dropped,        \* Dropped::count
    out,            \* what tungstenite has read
    refused         \* a read failed with Refused: tungstenite reads no more

guardVars == <<sent, wire, buf, ready, hold, state, msg, release, dropped, out, refused>>

\* Opcode 0; 1 to 7; 8 to 15; and a data frame whose 64-bit length has its
\* top bit set, which no header's length is read from.
Frames ==
    [op : {"cont", "data"}, fin : BOOLEAN, len : Lens]
      \cup [op : {"control"}, fin : {TRUE}, len : Lens]
      \cup [op : {"illegal"}, fin : {TRUE}, len : {0}]

Units(i, f) == [j \in 1..(f.len + 1) |-> <<i, j - 1>>]

At(in, n) == [in |-> in, n |-> n]
AtHeader == At("Header", 0)

None == [m |-> "None", len |-> 0]
Holding(len) == [m |-> "Holding", len |-> len]
Skipping == [m |-> "Skipping", len |-> 0]

Front(s, k) == SubSeq(s, 1, k)
Rest(s, k) == SubSeq(s, k + 1, Len(s))
Lesser(a, b) == IF a <= b THEN a ELSE b

GuardInit ==
    /\ sent = << >> /\ wire = << >> /\ buf = << >>
    /\ ready = << >> /\ hold = << >>
    /\ state = AtHeader /\ msg = None /\ release = FALSE
    /\ dropped = 0 /\ out = << >> /\ refused = FALSE

Send(f) ==
    /\ Len(sent) < MaxFrames
    /\ sent' = Append(sent, f)
    /\ wire' = wire \o Units(Len(sent) + 1, f)
    /\ UNCHANGED <<buf, ready, hold, state, msg, release, dropped, out, refused>>
-----------------------------------------------------------------------------
(***************************************************************************)
(* decide: a whole header is at the front of buf.                          *)
(***************************************************************************)
Header == sent[Head(buf)[1]]

\* Mutant of Pass: the header's own bytes not counted.
PassShort(h) == state' = At("Pass", h.len) /\ UNCHANGED buf

\* The frame is handed on as it comes, its header with it.
Pass(h) == state' = At("Pass", h.len + 1) /\ UNCHANGED buf

\* The frame's header is taken off and its payload dropped as it streams in.
Skip(h) == state' = At("Skip", h.len) /\ buf' = Tail(buf)

\* hold_frame: the header goes to the held bytes; a frame with no payload
\* ends at once (end_hold), releasing the message if it was its last.
HoldFrame(h, held, len) ==
    LET kept == Append(held, Head(buf)) IN
    /\ buf' = Tail(buf)
    /\ \/ /\ h.len > 0
          /\ state' = At("Hold", h.len) /\ release' = h.fin
          /\ hold' = kept /\ msg' = Holding(len)
          /\ UNCHANGED ready
       \/ /\ h.len = 0 /\ ~h.fin
          /\ state' = AtHeader /\ release' = FALSE
          /\ hold' = kept /\ msg' = Holding(len)
          /\ UNCHANGED ready
       \/ /\ h.len = 0 /\ h.fin
          /\ state' = AtHeader /\ release' = FALSE
          /\ hold' = << >> /\ msg' = None
          /\ ready' = ready \o kept

Deciding ==
    /\ ~refused /\ ready = << >>
    /\ state.in = "Header" /\ buf # << >>
    /\ Header.op # "illegal"
    /\ UNCHANGED <<sent, wire, out, refused>>

DecideControl ==
    /\ Deciding /\ Header.op = "control"
    /\ Pass(Header)
    /\ UNCHANGED <<ready, hold, msg, release, dropped>>

\* Mutant of DecideSkipped: each frame of a dropped message counted.
SkippedCounts ==
    /\ Deciding /\ Header.op = "cont" /\ msg = Skipping
    /\ Skip(Header)
    /\ msg' = IF Header.fin THEN None ELSE Skipping
    /\ dropped' = dropped + 1
    /\ UNCHANGED <<ready, hold, release>>

\* A continuation of a message being dropped.
DecideSkipped ==
    /\ Deciding /\ Header.op = "cont" /\ msg = Skipping
    /\ Skip(Header)
    /\ msg' = IF Header.fin THEN None ELSE Skipping
    /\ UNCHANGED <<ready, hold, release, dropped>>

\* A continuation of a held message, still within the cap.
DecideHeld ==
    /\ Deciding /\ Header.op = "cont" /\ msg.m = "Holding"
    /\ msg.len + Header.len <= Cap
    /\ HoldFrame(Header, hold, msg.len + Header.len)
    /\ UNCHANGED dropped

\* Mutant of DecideGrown: the rest of the message forgotten with the frame.
GrownForgets ==
    /\ Deciding /\ Header.op = "cont" /\ msg.m = "Holding"
    /\ msg.len + Header.len > Cap
    /\ Skip(Header)
    /\ hold' = << >>
    /\ msg' = None
    /\ dropped' = dropped + 1
    /\ UNCHANGED <<ready, release>>

\* A continuation that takes its message past the cap: all of it dropped.
DecideGrown ==
    /\ Deciding /\ Header.op = "cont" /\ msg.m = "Holding"
    /\ msg.len + Header.len > Cap
    /\ Skip(Header)
    /\ hold' = << >>
    /\ msg' = IF Header.fin THEN None ELSE Skipping
    /\ dropped' = dropped + 1
    /\ UNCHANGED <<ready, release>>

\* A new message while one is held: what is held is released, so that
\* tungstenite sees the frames as sent and refuses them.
DecideBroken ==
    /\ Deciding /\ Header.op = "data" /\ msg.m = "Holding"
    /\ Pass(Header)
    /\ ready' = ready \o hold /\ hold' = << >>
    /\ msg' = None
    /\ UNCHANGED <<release, dropped>>

\* A stray continuation, or a new message while one is being dropped.
DecideStray ==
    /\ Deciding
    /\ \/ Header.op = "cont" /\ msg = None
       \/ Header.op = "data" /\ msg = Skipping
    /\ Pass(Header)
    /\ msg' = None
    /\ UNCHANGED <<ready, hold, release, dropped>>

DecideNewOver ==
    /\ Deciding /\ Header.op = "data" /\ msg = None
    /\ Header.len > Cap
    /\ Skip(Header)
    /\ msg' = IF Header.fin THEN None ELSE Skipping
    /\ dropped' = dropped + 1
    /\ UNCHANGED <<ready, hold, release>>

DecideNewWhole ==
    /\ Deciding /\ Header.op = "data" /\ msg = None
    /\ Header.len <= Cap /\ Header.fin
    /\ Pass(Header)
    /\ UNCHANGED <<ready, hold, msg, release, dropped>>

DecideNewHeld ==
    /\ Deciding /\ Header.op = "data" /\ msg = None
    /\ Header.len <= Cap /\ ~Header.fin
    /\ HoldFrame(Header, << >>, Header.len)
    /\ UNCHANGED dropped

Decide ==
    \/ DecideControl \/ DecideSkipped \/ DecideHeld \/ DecideGrown
    \/ DecideBroken \/ DecideStray
    \/ DecideNewOver \/ DecideNewWhole \/ DecideNewHeld
-----------------------------------------------------------------------------
(***************************************************************************)
(* poll_read, one action a turn of its loop.                               *)
(***************************************************************************)

\* Released fragments go first, as many as the reader has room for.
HandReady(k) ==
    /\ ~refused /\ k \in 1..Len(ready)
    /\ out' = out \o Front(ready, k)
    /\ ready' = Rest(ready, k)
    /\ UNCHANGED <<sent, wire, buf, hold, state, msg, release, dropped, refused>>

\* Pass(0) and Skip(0): the next header.  (Hold(0) ends where it is reached.)
FrameDone ==
    /\ ~refused /\ ready = << >>
    /\ state.in \in {"Pass", "Skip"} /\ state.n = 0
    /\ state' = AtHeader
    /\ UNCHANGED <<sent, wire, buf, ready, hold, msg, release, dropped, out, refused>>

\* What is buffered of the frame goes on, as much as the reader has room for.
PassFromBuf(k) ==
    /\ ~refused /\ ready = << >> /\ state.in = "Pass"
    /\ k \in 1..Lesser(state.n, Len(buf))
    /\ out' = out \o Front(buf, k)
    /\ buf' = Rest(buf, k)
    /\ state' = At("Pass", state.n - k)
    /\ UNCHANGED <<sent, wire, ready, hold, msg, release, dropped, refused>>

\* Nothing buffered: straight from the socket, at most the rest of the frame.
PassFromWire(k) ==
    /\ ~refused /\ ready = << >> /\ state.in = "Pass" /\ buf = << >>
    /\ k \in 1..Lesser(state.n, Len(wire))
    /\ out' = out \o Front(wire, k)
    /\ wire' = Rest(wire, k)
    /\ state' = At("Pass", state.n - k)
    /\ UNCHANGED <<sent, buf, ready, hold, msg, release, dropped, refused>>

HoldFromBuf ==
    LET k == Lesser(state.n, Len(buf))
        kept == hold \o Front(buf, k) IN
    /\ ~refused /\ ready = << >> /\ state.in = "Hold" /\ buf # << >>
    /\ buf' = Rest(buf, k)
    /\ \/ /\ k < state.n
          /\ state' = At("Hold", state.n - k) /\ hold' = kept
          /\ UNCHANGED <<ready, msg, release>>
       \/ /\ k = state.n /\ ~release
          /\ state' = AtHeader /\ hold' = kept
          /\ UNCHANGED <<ready, msg, release>>
       \/ /\ k = state.n /\ release
          /\ state' = AtHeader /\ hold' = << >>
          /\ ready' = ready \o kept
          /\ msg' = None /\ release' = FALSE
    /\ UNCHANGED <<sent, wire, dropped, out, refused>>

SkipFromBuf ==
    LET k == Lesser(state.n, Len(buf)) IN
    /\ ~refused /\ ready = << >> /\ state.in = "Skip" /\ state.n > 0
    /\ buf # << >>
    /\ buf' = Rest(buf, k)
    /\ state' = At("Skip", state.n - k)
    /\ UNCHANGED <<sent, wire, ready, hold, msg, release, dropped, out, refused>>

\* illegal_length: the read fails, and nothing held is kept.
Refuse ==
    /\ ~refused /\ ready = << >> /\ state.in = "Header" /\ buf # << >>
    /\ Header.op = "illegal"
    /\ hold' = << >> /\ refused' = TRUE
    /\ UNCHANGED <<sent, wire, buf, ready, state, msg, release, dropped, out>>

\* Mutant of Fill: a held frame waits for the rest of it without reading.
FillAtHeader(k) ==
    /\ ~refused /\ ready = << >> /\ buf = << >>
    /\ state.in = "Header"
    /\ k \in 1..Len(wire)
    /\ buf' = Front(wire, k)
    /\ wire' = Rest(wire, k)
    /\ UNCHANGED <<sent, ready, hold, state, msg, release, dropped, out, refused>>

\* More of the client's bytes are needed: any number the socket has.
Fill(k) ==
    /\ ~refused /\ ready = << >> /\ buf = << >>
    /\ \/ state.in = "Header"
       \/ state.in \in {"Hold", "Skip"} /\ state.n > 0
    /\ k \in 1..Len(wire)
    /\ buf' = Front(wire, k)
    /\ wire' = Rest(wire, k)
    /\ UNCHANGED <<sent, ready, hold, state, msg, release, dropped, out, refused>>

\* Bound: a read moves at most as many units as the peer's frames can have.
Read ==
    \/ Decide \/ FrameDone \/ HoldFromBuf \/ SkipFromBuf \/ Refuse
    \/ \E k \in 1..Len(ready) : HandReady(k)
    \/ \E k \in 1..Len(buf) : PassFromBuf(k)
    \/ \E k \in 1..Len(wire) : PassFromWire(k) \/ Fill(k)

GuardNext == Read \/ \E f \in Frames : Send(f)

\* The socket's loop polls the read again whenever the socket has bytes.
GuardSpec == GuardInit /\ [][GuardNext]_guardVars /\ WF_guardVars(Read)
-----------------------------------------------------------------------------
(***************************************************************************)
(* What a stream of frames is, from RFC 6455 section 5.4: a message is a   *)
(* data frame and the continuations after it, up to one that is final;     *)
(* control frames come between.  None of it mentions the guard's state.    *)
(***************************************************************************)
IsData(i) == sent[i].op \in {"cont", "data"}

\* The frames before the first one with an illegal length.
Legal == {i \in DOMAIN sent : \A j \in 1..i : sent[j].op # "illegal"}

\* Whether a message is open after frame i.
OpenAfter(i) ==
    LET before == {j \in 1..i : IsData(j)} IN
    before # {} /\ ~sent[Max(before)].fin

\* No continuation without a message, no new message inside another.
WellFormed ==
    \A i \in Legal : IsData(i) => (sent[i].op = "cont") = OpenAfter(i - 1)

\* The frames of the message that data frame i belongs to.
MessageOf(i) ==
    LET first == Max({j \in 1..i : sent[j].op = "data"}) IN
    {k \in Legal : /\ k >= first /\ IsData(k)
                   /\ \A j \in first..(k - 1) : IsData(j) => ~sent[j].fin}

Total(m) == MapThenSumSet(LAMBDA i : sent[i].len, m)
Complete(m) == \E i \in m : sent[i].fin

Messages == {MessageOf(i) : i \in {j \in Legal : IsData(j)}}
WithinCap == {m \in Messages : Complete(m) /\ Total(m) <= Cap}
OverCap == {m \in Messages : Total(m) > Cap}

Seen == {out[k][1] : k \in DOMAIN out}
-----------------------------------------------------------------------------
GuardTypeOK ==
    /\ sent \in Seq(Frames) /\ Len(sent) <= MaxFrames
    /\ \A q \in {wire, buf, ready, hold, out} :
          \A k \in DOMAIN q : /\ q[k][1] \in DOMAIN sent
                              /\ q[k][2] \in 0..sent[q[k][1]].len
    /\ state.in \in {"Header", "Pass", "Hold", "Skip"} /\ state.n \in Nat
    /\ msg.m \in {"None", "Holding", "Skipping"} /\ msg.len \in Nat
    /\ dropped \in Nat
    /\ release \in BOOLEAN /\ refused \in BOOLEAN

\* Whatever a peer sends, well formed or not, and however the reads cut it,
\* the guard reads a header only where a frame begins, and tungstenite's
\* stream is in step: headers and whole payloads, each frame complete before
\* the next begins.  (A frame refused at its header, with its payload left in
\* the stream, is what this rules out.)
InStep ==
    /\ state.in = "Header" /\ buf \o wire # << >> => Head(buf \o wire)[2] = 0
    /\ \A k \in DOMAIN out :
        IF k = 1 \/ out[k - 1][2] = sent[out[k - 1][1]].len
        THEN out[k][2] = 0
        ELSE out[k] = <<out[k - 1][1], out[k - 1][2] + 1>>

\* Frames of a kind keep their order: a control frame may pass the held
\* fragments of a message, a data frame never passes another.
OrderKept ==
    \A j, k \in DOMAIN out :
        /\ j < k /\ out[j][2] = 0 /\ out[k][2] = 0
        /\ IsData(out[j][1]) = IsData(out[k][1])
        => out[j][1] < out[k][1]

\* The framing holds: the types, InStep and OrderKept (Guard::poll_read).
FramingKept == GuardTypeOK /\ InStep /\ OrderKept

\* A message is handed on only once all of it has come and only within the
\* cap: one past it, or one an illegal frame cuts off, is never half seen.
NeverHalfSeen ==
    WellFormed => \A i \in Seen : IsData(i) => MessageOf(i) \in WithinCap

\* A frame with an illegal length goes no further and neither does anything
\* after it, and nothing is kept of the message it interrupts.
RefusedKeepsNothing ==
    /\ Seen \subseteq Legal
    /\ refused => hold = << >> /\ ready = << >>

\* The payload held of a message is within the cap.  The header held with each
\* of its fragments is not counted, in the code either: fragments without
\* payload may be held in any number (hold_frame).
HoldWithinCap == Cardinality({k \in DOMAIN hold : hold[k][2] # 0}) <= Cap

\* Nothing goes on in part or past the cap: NeverHalfSeen, whatever frame
\* interrupts a message (RefusedKeepsNothing), and no payload past the cap is
\* held (HoldWithinCap).
WholeOrNothing == NeverHalfSeen /\ RefusedKeepsNothing /\ HoldWithinCap

\* Once every byte sent has been taken, each message over the cap has been
\* counted once, however many frames it had and wherever it went over: the
\* loop answers as many -32007 as messages were dropped.
DropsExact ==
    WellFormed /\ Legal = DOMAIN sent /\ wire = << >> /\ buf = << >>
        => dropped = Cardinality(OverCap)

\* Once every byte sent has been taken and handed on, tungstenite has every
\* control frame and every message within the cap, and nothing else.
HandedOnExact ==
    WellFormed /\ Legal = DOMAIN sent /\ wire \o buf \o ready = << >>
        => Seen = (UNION WithinCap) \cup {i \in Legal : ~IsData(i)}

\* Every message is handed on or counted as dropped, once and never both:
\* HandedOnExact and DropsExact (Guard::decide).
AllAccounted == HandedOnExact /\ DropsExact

\* A complete message within the cap is handed on to its last byte, whatever
\* comes after it: the guard never waits for more than the peer has sent.
HandedOn ==
    \A i \in 1..MaxFrames :
        (WellFormed /\ i \in Legal /\ IsData(i) /\ MessageOf(i) \in WithinCap)
        ~> (\E k \in DOMAIN out : out[k][1] = i /\ out[k][2] = sent[out[k][1]].len)
=============================================================================
