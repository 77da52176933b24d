----------------------------- MODULE MCConnLoop -----------------------------
(***************************************************************************)
(* What may happen around a small loop.                                    *)
(***************************************************************************)
EXTENDS ConnLoop

\* A script with nothing but its messages and one frame a subscription.
Plain(msgs) == [msgs |-> msgs, frames |-> 1, own |-> 0, pings |-> 0, blocks |-> 0]

\* Calls on tasks of their own: their answers and frames race with each other,
\* with a frame of this side's own, or with a peer that takes no bytes.
Racing ==
    {Plain(<<"sub", "sub">>),
     [Plain(<<"task", "sub">>) EXCEPT !.own = 1],
     [Plain(<<"sub">>) EXCEPT !.frames = 2, !.own = 1],
     [Plain(<<"sub">>) EXCEPT !.frames = 2, !.blocks = 1]}

\* Messages that fill the loop's own answers or end it, with a ping due and a
\* peer that stops taking bytes.
Pressing ==
    {[Plain(<<x, y>>) EXCEPT !.pings = 1, !.blocks = 1] : x, y \in {"now", "big"}}
        \cup {[Plain(<<x, y>>) EXCEPT !.blocks = 1] : x, y \in {"task", "quiet", "big"}}
        \cup {[Plain(<<x, y>>) EXCEPT !.blocks = 1] : x \in {"task", "sub"}, y \in {"now", "bye"}}

MCScripts == Racing \cup Pressing
=============================================================================
