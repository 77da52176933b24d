-------------------------------- MODULE Stdio --------------------------------
(***************************************************************************)
(* The stdio transport (src/stdio.rs): a reader that takes a line at a     *)
(* time, calls the module and queues the answer; a task for each stream,   *)
(* which queues its items; one bounded queue; one writer.  At the end of   *)
(* the input the streams are aborted and what is queued has DRAIN to go    *)
(* out.                                                                    *)
(*                                                                         *)
(* A line in is its kind: a call, a subscription, blank, or one that the   *)
(* module takes for no request ("bad").  A line out is <<"answer", n>> or  *)
(* <<"item", n, i>>, of the n-th line in; the pipe to the client holds     *)
(* whole lines.                                                            *)
(***************************************************************************)
EXTENDS Naturals, Sequences, SequencesExt

CONSTANTS
    QueueCap,       \* subscription_buffer_size.max(1)
    WriteBudget,    \* WRITE_BUDGET, in lines
    PipeCap,        \* the lines the pipe to the client holds
    MaxLines,       \* bound: the lines a client sends
    MaxItems        \* bound: the items of one stream

ASSUME CapsPositive == {QueueCap, WriteBudget, PipeCap} \subseteq Nat \ {0}
ASSUME BoundsNat == {MaxLines, MaxItems} \subseteq Nat

VARIABLES
    input,          \* the kinds of the lines the client has sent
    eof,            \* the client has closed stdin
    closed,         \* the client has closed stdout
    pipe,           \* the lines in the pipe that the client has not read
    taken,          \* the lines the reader has read
    reader,         \* where serve_lines is
    readErr,        \* read is Err
    stream,         \* the stream task of each line
    items,          \* the items each has queued
    queue, buf,     \* the channel; the lines of the write in hand
    writer,         \* where write_lines is
    written,        \* every line written
    queued,         \* history: every line that was queued
    result          \* what serve_lines returned

clientVars == <<input, eof, closed>>
streamVars == <<stream, items>>
writeVars == <<buf, writer, written, pipe>>
vars == <<clientVars, pipe, taken, reader, readErr, streamVars, queue, buf, writer, written,
          queued, result>>

Kinds == {"call", "stream", "blank", "bad"}
Lines == 1..MaxLines

Init ==
    /\ input = << >> /\ eof = FALSE /\ closed = FALSE /\ pipe = 0
    /\ taken = 0 /\ reader = "reading" /\ readErr = FALSE
    /\ stream = [n \in Lines |-> "none"] /\ items = [n \in Lines |-> 0]
    /\ queue = << >> /\ buf = << >> /\ writer = "waiting"
    /\ written = << >> /\ queued = << >> /\ result = "none"
-----------------------------------------------------------------------------
(***************************************************************************)
(* The client.                                                             *)
(***************************************************************************)
ClientSends(kind) ==
    /\ ~eof /\ Len(input) < MaxLines
    /\ input' = Append(input, kind)
    /\ UNCHANGED <<eof, closed, taken, reader, readErr, streamVars, queue, writeVars, queued, result>>

ClientEnds ==
    /\ ~eof
    /\ eof' = TRUE
    /\ UNCHANGED <<input, closed, taken, reader, readErr, streamVars, queue, writeVars, queued, result>>

ClientReads ==
    /\ ~closed /\ pipe > 0
    /\ pipe' = pipe - 1
    /\ UNCHANGED <<clientVars, taken, reader, readErr, streamVars, queue, buf, writer, written,
                   queued, result>>

ClientCloses ==
    /\ ~closed
    /\ closed' = TRUE
    /\ UNCHANGED <<input, eof, taken, reader, readErr, streamVars, queue, writeVars, queued, result>>
-----------------------------------------------------------------------------
(***************************************************************************)
(* The reader.                                                             *)
(***************************************************************************)
ReadBlank ==
    /\ reader = "reading" /\ taken < Len(input) /\ input[taken + 1] = "blank"
    /\ taken' = taken + 1
    /\ UNCHANGED <<clientVars, reader, readErr, streamVars, queue, writeVars, queued, result>>

\* The line is given to the module, and the reader waits for the call.
ReadLine ==
    /\ reader = "reading" /\ taken < Len(input) /\ input[taken + 1] # "blank"
    /\ taken' = taken + 1
    /\ reader' = "calling"
    /\ UNCHANGED <<clientVars, readErr, streamVars, queue, writeVars, queued, result>>

CallReturns ==
    /\ reader = "calling" /\ input[taken] # "bad"
    /\ reader' = "answering"
    /\ UNCHANGED <<clientVars, taken, readErr, streamVars, queue, writeVars, queued, result>>

\* raw_json_request is an error, which ends the reading.
CallFails ==
    /\ reader = "calling" /\ input[taken] = "bad"
    /\ reader' = "ending" /\ readErr' = TRUE
    /\ UNCHANGED <<clientVars, taken, streamVars, queue, writeVars, queued, result>>

\* The channel's receiver is there.
Open == writer \in {"waiting", "writing"}

\* A line is queued, once there is room.
Enqueue(line) ==
    /\ Open /\ Len(queue) < QueueCap
    /\ queue' = Append(queue, line)
    /\ queued' = Append(queued, line)

\* Mutant of Answers: the stream's task is spawned ahead of its answer.
AnswersAfter ==
    /\ reader = "answering"
    /\ \/ /\ input[taken] = "stream" /\ stream[taken] = "none"
          /\ stream' = [stream EXCEPT ![taken] = "running"]
          /\ UNCHANGED <<queue, queued, reader>>
       \/ /\ input[taken] = "stream" => stream[taken] # "none"
          /\ Enqueue(<<"answer", taken>>)
          /\ reader' = "reading"
          /\ UNCHANGED stream
    /\ UNCHANGED <<clientVars, taken, readErr, items, writeVars, result>>

\* The answer first; then the stream's own task.
Answers ==
    /\ reader = "answering"
    /\ Enqueue(<<"answer", taken>>)
    /\ stream' = IF input[taken] = "stream" THEN [stream EXCEPT ![taken] = "running"] ELSE stream
    /\ reader' = "reading"
    /\ UNCHANGED <<clientVars, taken, readErr, items, writeVars, result>>

\* The writer has stopped: the reading breaks off.
AnswerFails ==
    /\ reader = "answering" /\ ~Open
    /\ reader' = "ending"
    /\ UNCHANGED <<clientVars, taken, readErr, streamVars, queue, writeVars, queued, result>>

ReadEnd ==
    /\ reader = "reading" /\ taken = Len(input) /\ eof
    /\ reader' = "ending"
    /\ UNCHANGED <<clientVars, taken, readErr, streamVars, queue, writeVars, queued, result>>
-----------------------------------------------------------------------------
(***************************************************************************)
(* A stream's task: an item received, then queued.                         *)
(***************************************************************************)
StreamSends(n) ==
    /\ stream[n] = "running" /\ items[n] < MaxItems
    /\ Enqueue(<<"item", n, items[n] + 1>>)
    /\ items' = [items EXCEPT ![n] = @ + 1]
    /\ UNCHANGED <<clientVars, taken, reader, readErr, stream, writeVars, result>>

\* The stream is over, or nobody takes its items.
StreamEnds(n) ==
    /\ stream[n] = "running"
    /\ stream' = [stream EXCEPT ![n] = "over"]
    /\ UNCHANGED <<clientVars, taken, reader, readErr, items, queue, writeVars, queued, result>>
-----------------------------------------------------------------------------
(***************************************************************************)
(* The writer.                                                             *)
(***************************************************************************)

\* Every line ready, up to the budget.
Gather ==
    LET k == IF Len(queue) <= WriteBudget THEN Len(queue) ELSE WriteBudget IN
    /\ writer = "waiting" /\ queue # << >>
    /\ buf' = SubSeq(queue, 1, k) /\ queue' = SubSeq(queue, k + 1, Len(queue))
    /\ writer' = "writing"
    /\ UNCHANGED <<clientVars, taken, reader, readErr, streamVars, pipe, written, queued, result>>

\* write_all and flush, as the pipe takes it.
Write ==
    /\ writer = "writing" /\ ~closed /\ pipe < PipeCap
    /\ written' = Append(written, Head(buf)) /\ pipe' = pipe + 1
    /\ buf' = Tail(buf)
    /\ writer' = IF Tail(buf) = << >> THEN "waiting" ELSE "writing"
    /\ UNCHANGED <<clientVars, taken, reader, readErr, streamVars, queue, queued, result>>

\* stdout is closed: the writer ends with the error, and its channel with it.
WriteFails ==
    /\ writer = "writing" /\ closed
    /\ writer' = "failed"
    /\ queue' = << >> /\ buf' = << >>
    /\ UNCHANGED <<clientVars, pipe, taken, reader, readErr, streamVars, written, queued, result>>

\* No sender is left and nothing is queued.
WriterEnds ==
    /\ writer = "waiting" /\ queue = << >> /\ reader = "draining"
    /\ writer' = "done"
    /\ UNCHANGED <<clientVars, pipe, taken, reader, readErr, streamVars, queue, buf, written,
                   queued, result>>
-----------------------------------------------------------------------------
(***************************************************************************)
(* The end of serve_lines.                                                 *)
(***************************************************************************)

\* Mutant of Shutdown: the streams are awaited and not aborted.
ShutdownWaits ==
    /\ reader = "ending"
    /\ \A n \in Lines : stream[n] # "running"
    /\ reader' = "draining"
    /\ UNCHANGED <<clientVars, taken, readErr, streamVars, queue, writeVars, queued, result>>

\* streams.shutdown, and the last sender dropped.
Shutdown ==
    /\ reader = "ending"
    /\ stream' = [n \in Lines |-> IF stream[n] = "running" THEN "over" ELSE stream[n]]
    /\ reader' = "draining"
    /\ UNCHANGED <<clientVars, taken, readErr, items, queue, writeVars, queued, result>>

\* Mutant of Returns: what the writer says is not asked.
ReturnsRead ==
    /\ reader = "draining" /\ writer \in {"done", "failed"}
    /\ reader' = "returned"
    /\ result' = IF readErr THEN "error" ELSE "ok"
    /\ UNCHANGED <<clientVars, taken, readErr, streamVars, queue, writeVars, queued>>

\* The writer has ended: read.and(wrote).
Returns ==
    /\ reader = "draining" /\ writer \in {"done", "failed"}
    /\ reader' = "returned"
    /\ result' = IF readErr \/ writer = "failed" THEN "error" ELSE "ok"
    /\ UNCHANGED <<clientVars, taken, readErr, streamVars, queue, writeVars, queued>>

\* DRAIN has passed: the writer is aborted, and the result is the reader's.
DrainPasses ==
    /\ reader = "draining" /\ Open
    /\ reader' = "returned" /\ writer' = "aborted"
    /\ result' = IF readErr THEN "error" ELSE "ok"
    /\ queue' = << >> /\ buf' = << >>
    /\ UNCHANGED <<clientVars, pipe, taken, readErr, streamVars, written, queued>>
-----------------------------------------------------------------------------
ServeStep ==
    \/ ReadBlank \/ ReadLine \/ CallReturns \/ CallFails \/ Answers \/ AnswerFails \/ ReadEnd
    \/ Shutdown \/ Returns \/ DrainPasses

WriterStep == Gather \/ Write \/ WriteFails \/ WriterEnds

Next ==
    \/ ServeStep \/ WriterStep
    \/ \E n \in Lines : StreamSends(n) \/ StreamEnds(n)
    \/ \E kind \in Kinds : ClientSends(kind)
    \/ ClientEnds \/ ClientReads \/ ClientCloses

\* The two tasks run, a call comes to its answer and DRAIN passes.  Nothing is
\* assumed of the streams.
Spec == Init /\ [][Next]_vars /\ WF_vars(ServeStep) /\ WF_vars(WriterStep)

\* A client that reads stdout for as long as it is open.
ReadingSpec == Spec /\ WF_vars(ClientReads)
-----------------------------------------------------------------------------
TypeOK ==
    /\ input \in Seq(Kinds) /\ taken \in 0..Len(input) /\ pipe \in 0..PipeCap
    /\ reader \in {"reading", "calling", "answering", "ending", "draining", "returned"}
    /\ writer \in {"waiting", "writing", "done", "failed", "aborted"}
    /\ stream \in [Lines -> {"none", "running", "over"}] /\ items \in [Lines -> 0..MaxItems]
    /\ Len(queue) <= QueueCap /\ Len(buf) <= WriteBudget
    /\ {eof, closed, readErr} \subseteq BOOLEAN /\ result \in {"none", "ok", "error"}

\* What goes out is what was queued, in its order, with nothing left out but
\* at the end: by a closed stdout or by the end of the drain.
OutIsQueued ==
    IF Open \/ writer = "done" THEN written \o buf \o queue = queued ELSE IsPrefix(written, queued)

\* A client sees a stream's answer before its items, its items in order, and
\* the answers in the order of its calls.
AnswerFirst ==
    /\ \A k \in DOMAIN written :
          written[k][1] = "item" =>
              \E j \in 1..(k - 1) :
                  written[j] = IF written[k][3] = 1 THEN <<"answer", written[k][2]>>
                               ELSE <<"item", written[k][2], written[k][3] - 1>>
    /\ \A j, k \in DOMAIN written :
          j < k /\ written[j][1] = "answer" /\ written[k][1] = "answer" => written[j][2] < written[k][2]

\* What a client reads: the types, OutIsQueued and AnswerFirst, with a task a
\* stream and the reader on one queue (serve_lines, write_lines).
OutInOrder == TypeOK /\ OutIsQueued /\ AnswerFirst

\* serve_lines does not return Ok with a request unanswered, unless it gave up
\* on a client that does not read: an error of either side is not lost in the
\* order the two tasks end in.
OkMeansAnswered ==
    result = "ok" /\ writer # "aborted" =>
        \A n \in DOMAIN input :
            /\ input[n] # "bad"
            /\ input[n] \in {"call", "stream"} => Contains(written, <<"answer", n>>)

\* With a client that reads stdout, or that closed it, the end of its input
\* ends the server, whatever streams still run.
EndReturns == eof ~> (reader = "returned")
-----------------------------------------------------------------------------
\* stdio.rs, DRAIN: "a client that closes stdin and stops reading stdout does
\* not keep the process".
UnreadEndReturns == eof ~> (reader = "returned")
=============================================================================
