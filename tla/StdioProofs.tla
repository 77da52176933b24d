---------------------------- MODULE StdioProofs ----------------------------
(***************************************************************************)
(* For every number of lines and items, every queue and every budget: what *)
(* a client of the stdio transport reads is in order, and serve_lines says *)
(* Ok only of an input that is answered whole.                             *)
(***************************************************************************)
EXTENDS Stdio, SequenceTheorems, TLAPS

(***************************************************************************)
(* Sequences put together and taken apart.                                 *)
(***************************************************************************)

\* A line queued is a line more at the end of all that is on its way.
LEMMA ConcatAppend ==
    ASSUME NEW S, NEW w \in Seq(S), NEW q \in Seq(S), NEW x \in S
    PROVE  w \o Append(q, x) = Append(w \o q, x)
  OBVIOUS

\* A line written moves from the front of one sequence to the end of another.
LEMMA MoveHead ==
    ASSUME NEW S, NEW w \in Seq(S), NEW b \in Seq(S), b # <<>>
    PROVE  Append(w, Head(b)) \o Tail(b) = w \o b
  <1>1. Head(b) \in S /\ Tail(b) \in Seq(S) /\ <<Head(b)>> \o Tail(b) = b
    BY HeadTailProperties
  <1>2. Append(w, Head(b)) = w \o <<Head(b)>> /\ <<Head(b)>> \in Seq(S)
    BY <1>1, AppendIsConcat
  <1>3. \A h, r \in Seq(S) : (w \o h) \o r = w \o (h \o r)
    <2> SUFFICES ASSUME NEW h \in Seq(S), NEW r \in Seq(S)
                 PROVE  (w \o h) \o r = w \o (h \o r)
      OBVIOUS
    <2> QED
      BY ConcatAssociative, SMTT(60)
  <1> QED
    BY <1>1, <1>2, <1>3

\* What is gathered and what stays make up what was queued.
LEMMA CutAt ==
    ASSUME NEW S, NEW q \in Seq(S), NEW k \in 1..Len(q)
    PROVE  /\ SubSeq(q, 1, k) \in Seq(S) /\ SubSeq(q, k + 1, Len(q)) \in Seq(S)
           /\ SubSeq(q, 1, k) \o SubSeq(q, k + 1, Len(q)) = q
           /\ Len(SubSeq(q, 1, k)) = k /\ Len(SubSeq(q, k + 1, Len(q))) = Len(q) - k
  <1>1. SubSeq(q, 1, k) \o SubSeq(q, k + 1, Len(q)) = SubSeq(q, 1, Len(q))
    BY ConcatAdjacentSubSeq
  <1>2. SubSeq(q, 1, Len(q)) = q
    BY SubSeqFull
  <1>3. SubSeq(q, 1, k) \in Seq(S) /\ Len(SubSeq(q, 1, k)) = k
    <2>1. \A i \in 1..k : q[i] \in S
      OBVIOUS
    <2> QED
      BY <2>1, SubSeqProperties
  <1>4. SubSeq(q, k + 1, Len(q)) \in Seq(S) /\ Len(SubSeq(q, k + 1, Len(q))) = Len(q) - k
    <2>1. \A i \in (k + 1)..Len(q) : q[i] \in S
      OBVIOUS
    <2>2. k + 1 \in Int /\ Len(q) \in Int
      OBVIOUS
    <2>3. /\ SubSeq(q, k + 1, Len(q)) \in Seq(S)
          /\ Len(SubSeq(q, k + 1, Len(q))) = IF k + 1 <= Len(q) THEN Len(q) - (k + 1) + 1 ELSE 0
      BY <2>1, <2>2, SubSeqProperties
    <2> QED
      BY <2>3
  <1> QED
    BY <1>1, <1>2, <1>3, <1>4

\* What is written first is a prefix of all of it.
LEMMA PrefixOfConcat ==
    ASSUME NEW S, NEW w \in Seq(S), NEW q \in Seq(S)
    PROVE  IsPrefix(w, w \o q)
  BY DEF IsPrefix

\* A prefix has the same lines at the same places.
LEMMA PrefixAgrees ==
    ASSUME NEW S, NEW w \in Seq(S), NEW q \in Seq(S), IsPrefix(w, q)
    PROVE  Len(w) <= Len(q) /\ \A i \in 1..Len(w) : w[i] = q[i]
  <1>1. Len(w) <= Len(q) /\ SubSeq(w, 1, Len(w)) = SubSeq(q, 1, Len(w))
    BY DEF IsPrefix
  <1>2. ASSUME NEW i \in 1..Len(w) PROVE w[i] = q[i]
    <2>1. SubSeq(w, 1, Len(w))[i] = w[i] /\ SubSeq(q, 1, Len(w))[i] = q[i]
      BY <1>1
    <2> QED
      BY <1>1, <2>1
  <1> QED
    BY <1>1, <1>2

\* A line that was queued stays so.
LEMMA ContainsMore ==
    ASSUME NEW S, NEW s \in Seq(S), NEW y \in S
    PROVE  Contains(Append(s, y), y) /\ \A x : Contains(s, x) => Contains(Append(s, y), x)
  BY DEF Contains

-----------------------------------------------------------------------------
(***************************************************************************)
(* The order of the lines out.                                             *)
(***************************************************************************)
OutLines == ({"answer"} \X Lines) \cup ({"item"} \X Lines \X (1..MaxItems))

\* The line that goes ahead of an item.
Before(line) == IF line[3] = 1 THEN <<"answer", line[2]>> ELSE <<"item", line[2], line[3] - 1>>

\* AnswerFirst, of any sequence of lines.
ItemsFollow(s) ==
    \A k \in DOMAIN s : s[k][1] = "item" => \E j \in 1..(k - 1) : s[j] = Before(s[k])

AnswersRise(s) ==
    \A j, k \in DOMAIN s :
        j < k /\ s[j][1] = "answer" /\ s[k][1] = "answer" => s[j][2] < s[k][2]

\* What is in order is so as far as it is written.
LEMMA OrderedPrefix ==
    ASSUME NEW w \in Seq(OutLines), NEW q \in Seq(OutLines), IsPrefix(w, q),
           ItemsFollow(q), AnswersRise(q)
    PROVE  ItemsFollow(w) /\ AnswersRise(w)
  <1>1. Len(w) <= Len(q) /\ \A i \in 1..Len(w) : w[i] = q[i]
    BY PrefixAgrees
  <1>2. ASSUME NEW k \in DOMAIN w, w[k][1] = "item"
        PROVE  \E j \in 1..(k - 1) : w[j] = Before(w[k])
    <2>1. k \in DOMAIN q /\ k \in 1..Len(w) /\ w[k] = q[k]
      BY <1>1
    <2>2. PICK j \in 1..(k - 1) : q[j] = Before(q[k])
      BY <1>2, <2>1 DEF ItemsFollow
    <2>3. w[j] = q[j]
      BY <1>1, <2>1
    <2> QED
      BY <2>1, <2>2, <2>3
  <1>3. ASSUME NEW j \in DOMAIN w, NEW k \in DOMAIN w,
               j < k, w[j][1] = "answer", w[k][1] = "answer"
        PROVE  w[j][2] < w[k][2]
    <2>1. j \in DOMAIN q /\ k \in DOMAIN q /\ w[j] = q[j] /\ w[k] = q[k]
      BY <1>1
    <2> QED
      BY <1>3, <2>1 DEF AnswersRise
  <1> QED
    BY <1>2, <1>3 DEF ItemsFollow, AnswersRise

\* Items stay behind what goes ahead of them when a line is queued: an
\* answer, or an item whose predecessor is queued.
LEMMA ItemsFollowMore ==
    ASSUME NEW s \in Seq(OutLines), NEW y \in OutLines, ItemsFollow(s),
           y[1] = "item" => Contains(s, Before(y))
    PROVE  ItemsFollow(Append(s, y))
  <1> DEFINE t == Append(s, y)
  <1>1. /\ DOMAIN t = 1..(Len(s) + 1) /\ t[Len(s) + 1] = y
        /\ \A i \in 1..Len(s) : t[i] = s[i]
    OBVIOUS
  <1> HIDE DEF t
  <1>2. ASSUME NEW k \in DOMAIN t, t[k][1] = "item"
        PROVE  \E j \in 1..(k - 1) : t[j] = Before(t[k])
    <2>1. CASE k \in 1..Len(s)
      <3>1. k \in DOMAIN s /\ t[k] = s[k]
        BY <1>1, <2>1
      <3>2. PICK j \in 1..(k - 1) : s[j] = Before(s[k])
        BY <1>2, <3>1 DEF ItemsFollow
      <3>3. t[j] = s[j]
        BY <1>1, <2>1
      <3> QED
        BY <3>1, <3>2, <3>3
    <2>2. CASE k = Len(s) + 1
      <3>1. PICK j \in 1..Len(s) : s[j] = Before(y)
        BY <1>1, <1>2, <2>2 DEF Contains
      <3>2. t[j] = Before(t[k]) /\ j \in 1..(k - 1)
        BY <1>1, <2>2, <3>1
      <3> QED
        BY <3>2
    <2> QED
      BY <1>1, <2>1, <2>2
  <1> QED
    BY <1>2 DEF ItemsFollow, t

\* Answers stay in the order of the calls when a line is queued: an item, or
\* an answer to a later call.
LEMMA AnswersRiseMore ==
    ASSUME NEW s \in Seq(OutLines), NEW y \in OutLines, AnswersRise(s),
           y[1] = "answer" => \A k \in 1..Len(s) : s[k][1] = "answer" => s[k][2] < y[2]
    PROVE  AnswersRise(Append(s, y))
  <1> DEFINE t == Append(s, y)
  <1>1. /\ DOMAIN t = 1..(Len(s) + 1) /\ t[Len(s) + 1] = y
        /\ \A i \in 1..Len(s) : t[i] = s[i]
    OBVIOUS
  <1> HIDE DEF t
  <1>2. ASSUME NEW j \in DOMAIN t, NEW k \in DOMAIN t,
               j < k, t[j][1] = "answer", t[k][1] = "answer"
        PROVE  t[j][2] < t[k][2]
    <2>1. j \in 1..Len(s) /\ t[j] = s[j]
      BY <1>1, <1>2
    <2>2. CASE k \in 1..Len(s)
      BY <1>1, <1>2, <2>1, <2>2 DEF AnswersRise
    <2>3. CASE k = Len(s) + 1
      BY <1>1, <1>2, <2>1, <2>3
    <2> QED
      BY <1>1, <2>2, <2>3
  <1> QED
    BY <1>2 DEF AnswersRise, t
-----------------------------------------------------------------------------
(***************************************************************************)
(* The inductive invariant.                                                *)
(***************************************************************************)
Types ==
    /\ TypeOK
    /\ Len(input) <= MaxLines
    /\ {queue, buf, written, queued} \subseteq Seq(OutLines)

\* What was queued is on its way in order, and the writer has lines in hand
\* exactly while it writes.
FlowOK ==
    /\ OutIsQueued
    /\ writer \in {"waiting", "done"} => buf = <<>>
    /\ writer = "writing" => buf # <<>>
    /\ writer = "done" => queue = <<>>

Waits == reader \in {"calling", "answering"}

\* What was queued is in order, and answers only lines that were taken.
OrderOK ==
    /\ ItemsFollow(queued)
    /\ AnswersRise(queued)
    /\ \A k \in 1..Len(queued) :
          queued[k][1] = "answer" => queued[k][2] <= taken /\ (Waits => queued[k][2] < taken)

\* A stream's answer is queued ahead of its task, and the last item it counts.
StreamsOK ==
    \A n \in Lines :
        /\ stream[n] # "none" => Contains(queued, <<"answer", n>>)
        /\ items[n] > 0 => Contains(queued, <<"item", n, items[n]>>)
        /\ stream[n] = "none" => items[n] = 0

\* Every request taken is answered, or is in hand, or the writer is gone; a
\* line that is no request is in hand or has ended the reading.
AnswersOK ==
    \A n \in 1..taken :
        /\ input[n] \in {"call", "stream"} =>
              \/ Contains(queued, <<"answer", n>>)
              \/ n = taken /\ Waits
              \/ writer \in {"failed", "aborted"}
        /\ input[n] = "bad" => readErr \/ (n = taken /\ reader = "calling")

\* Why the reading ended, and how the two tasks end.
EndOK ==
    /\ reader \in {"ending", "draining", "returned"} =>
          readErr \/ writer \in {"failed", "aborted"} \/ (taken = Len(input) /\ eof)
    /\ result = "none" <=> reader # "returned"
    /\ result = "ok" => ~readErr /\ writer \in {"done", "aborted"}
    /\ writer = "done" => reader \in {"draining", "returned"}
    /\ writer = "aborted" => reader = "returned"
    /\ reader = "returned" => writer \in {"done", "failed", "aborted"}
    /\ Waits => taken > 0

IInv == Types /\ FlowOK /\ OrderOK /\ StreamsOK /\ AnswersOK /\ EndOK

-----------------------------------------------------------------------------
\* A step that leaves the lines and the writer alone leaves their flow.
LEMMA FlowStays ==
    ASSUME FlowOK, UNCHANGED <<queue, buf, written, queued, writer>>
    PROVE  FlowOK'
  BY DEF FlowOK, OutIsQueued, Open

\* A step that queues nothing and takes no line leaves the order.
LEMMA OrderStays ==
    ASSUME OrderOK, queued' = queued, taken' = taken, Waits' => Waits
    PROVE  OrderOK'
  BY DEF OrderOK, ItemsFollow, AnswersRise

\* A step that queues nothing and at most ends streams leaves what they queued.
LEMMA StreamsStay ==
    ASSUME StreamsOK, queued' = queued, items' = items,
           \A n \in Lines : stream'[n] = stream[n] \/ (stream[n] = "running" /\ stream'[n] = "over")
    PROVE  StreamsOK'
  BY DEF StreamsOK

\* What queueing a line does to what was queued and to its way out.
LEMMA Enqueued ==
    ASSUME Types, FlowOK, NEW line \in OutLines, Enqueue(line), UNCHANGED <<buf, writer, written>>
    PROVE  /\ queue' \in Seq(OutLines) /\ queued' \in Seq(OutLines) /\ Len(queue') <= QueueCap
           /\ FlowOK'
           /\ Contains(queued', line) /\ \A x : Contains(queued, x) => Contains(queued', x)
  <1>1. /\ queue \in Seq(OutLines) /\ queued \in Seq(OutLines)
        /\ buf \in Seq(OutLines) /\ written \in Seq(OutLines)
    BY DEF Types
  <1>2. queue' = Append(queue, line) /\ queued' = Append(queued, line) /\ Open /\ Len(queue) < QueueCap
    BY DEF Enqueue
  <1>3. queue' \in Seq(OutLines) /\ queued' \in Seq(OutLines) /\ Len(queue') = Len(queue) + 1
    BY <1>1, <1>2
  <1>4. QueueCap \in Nat
    BY CapsPositive
  <1>5. Contains(queued', line) /\ \A x : Contains(queued, x) => Contains(queued', x)
    BY <1>1, <1>2, ContainsMore
  <1>6. written \o buf \o queue = queued
    BY <1>2 DEF FlowOK, OutIsQueued
  <1>7. written \o buf \in Seq(OutLines)
    BY <1>1
  <1>8. (written \o buf) \o Append(queue, line) = Append((written \o buf) \o queue, line)
    BY <1>1, <1>7, ConcatAppend
  <1>9. OutIsQueued' /\ writer # "done"
    BY <1>2, <1>6, <1>8 DEF OutIsQueued, Open
  <1> QED
    BY <1>1, <1>2, <1>3, <1>4, <1>5, <1>9 DEF FlowOK

\* Initially the invariant holds.
LEMMA InitIInv == Init => IInv
  <1> SUFFICES ASSUME Init PROVE IInv
    OBVIOUS
  <1>1. Types
    <2>1. TypeOK
      <3>1. input \in Seq(Kinds) /\ Len(input) = 0 /\ taken \in 0..Len(input)
        BY DEF Init
      <3>2. pipe \in 0..PipeCap /\ Len(queue) <= QueueCap /\ Len(buf) <= WriteBudget
        BY CapsPositive DEF Init
      <3>3. stream \in [Lines -> {"none", "running", "over"}] /\ items \in [Lines -> 0..MaxItems]
        BY BoundsNat DEF Init
      <3>4. {eof, closed, readErr} \subseteq BOOLEAN
        BY DEF Init
      <3> QED
        BY <3>1, <3>2, <3>3, <3>4 DEF Init, TypeOK
    <2>2. Len(input) <= MaxLines /\ {queue, buf, written, queued} \subseteq Seq(OutLines)
      BY BoundsNat DEF Init
    <2> QED
      BY <2>1, <2>2 DEF Types
  <1>2. FlowOK
    BY DEF Init, FlowOK, OutIsQueued, Open
  <1>3. OrderOK
    BY DEF Init, OrderOK, ItemsFollow, AnswersRise
  <1>4. StreamsOK
    BY DEF Init, StreamsOK
  <1>5. AnswersOK
    BY DEF Init, AnswersOK
  <1>6. EndOK
    BY DEF Init, EndOK, Waits
  <1> QED
    BY <1>1, <1>2, <1>3, <1>4, <1>5, <1>6 DEF IInv

\* The client's steps keep the invariant: a line sent is one that was not
\* taken, and none is sent once the input has ended.
LEMMA ClientKeeps ==
    ASSUME IInv,
           \/ \E kind \in Kinds : ClientSends(kind)
           \/ ClientEnds \/ ClientReads \/ ClientCloses
    PROVE  IInv'
  <1> USE DEF IInv
  <1>1. ASSUME NEW kind \in Kinds, ClientSends(kind) PROVE IInv'
    <2> USE <1>1 DEF ClientSends, writeVars, streamVars
    <2>1. input \in Seq(Kinds) /\ taken \in 0..Len(input) /\ MaxLines \in Nat
      BY BoundsNat DEF Types, TypeOK
    <2>2. /\ input' \in Seq(Kinds) /\ Len(input') = Len(input) + 1
          /\ \A n \in 1..taken : input'[n] = input[n]
      BY <2>1
    <2>3. Types'
      BY <2>1, <2>2 DEF Types, TypeOK
    <2>4. FlowOK' /\ OrderOK' /\ StreamsOK'
      BY FlowStays, OrderStays, StreamsStay DEF Waits
    <2>5. AnswersOK'
      BY <2>2 DEF AnswersOK, Waits
    <2>6. EndOK'
      BY DEF EndOK, Waits
    <2> QED
      BY <2>3, <2>4, <2>5, <2>6
  <1>2. CASE ClientEnds \/ ClientReads \/ ClientCloses
    <2> USE <1>2 DEF ClientEnds, ClientReads, ClientCloses, writeVars, streamVars, clientVars
    <2>1. UNCHANGED <<input, taken, reader, readErr, stream, items, queue, buf, writer, written,
                      queued, result>>
      OBVIOUS
    <2>2. (eof => eof') /\ eof' \in BOOLEAN /\ closed' \in BOOLEAN /\ pipe' \in 0..PipeCap
      <3>1. pipe' \in 0..PipeCap
        BY CapsPositive DEF Types, TypeOK
      <3>2. eof \in BOOLEAN /\ closed \in BOOLEAN
        BY DEF Types, TypeOK
      <3>3. (eof' = eof \/ eof' = TRUE) /\ (closed' = closed \/ closed' = TRUE)
        OBVIOUS
      <3> HIDE <1>2 DEF IInv
      <3>4. TRUE \in BOOLEAN
        OBVIOUS
      <3>5. eof' \in BOOLEAN /\ closed' \in BOOLEAN
        BY <3>2, <3>3, <3>4, Zenon
      <3>6. eof => eof'
        BY <3>3, Zenon
      <3> QED
        BY <3>1, <3>5, <3>6, Zenon
    <2> USE DEF Waits
    <2>3. Types'
      BY <2>1, <2>2 DEF Types, TypeOK
    <2>4. FlowOK' /\ OrderOK' /\ StreamsOK'
      BY <2>1, FlowStays, OrderStays, StreamsStay
    <2>5. AnswersOK'
      BY <2>1 DEF AnswersOK
    <2>6. EndOK'
      BY <2>1, <2>2 DEF EndOK
    <2> QED
      BY <2>3, <2>4, <2>5, <2>6
  <1> QED
    BY <1>1, <1>2

\* The reader's steps keep the invariant but for Answers: they queue nothing,
\* and move on only when a line is answered or the reading is over.
LEMMA ReaderKeeps ==
    ASSUME IInv,
           ReadBlank \/ ReadLine \/ CallReturns \/ CallFails \/ AnswerFails \/ ReadEnd
    PROVE  IInv'
  <1> USE DEF IInv, clientVars, writeVars, streamVars
  <1>0. /\ input \in Seq(Kinds) /\ taken \in 0..Len(input) /\ MaxLines \in Nat
        /\ Len(input) <= MaxLines
    BY BoundsNat DEF Types, TypeOK
  <1>1. ASSUME ReadBlank \/ ReadLine PROVE IInv'
    <2> USE <1>1 DEF ReadBlank, ReadLine
    <2>1. /\ UNCHANGED <<input, eof, closed, pipe, readErr, stream, items, queue, buf, writer,
                         written, queued, result>>
          /\ reader = "reading" /\ taken' = taken + 1 /\ taken < Len(input)
          /\ \/ reader' = "reading" /\ input[taken'] = "blank"
             \/ reader' = "calling"
      BY <1>0
    <2> HIDE <1>1 DEF ReadBlank, ReadLine
    <2>2. Types'
      BY <2>1, <1>0 DEF Types, TypeOK
    <2>3. FlowOK' /\ StreamsOK'
      BY <2>1, FlowStays, StreamsStay
    <2>4. OrderOK'
      <3>1. \A k \in 1..Len(queued) : queued[k][1] = "answer" => queued[k][2] <= taken
        BY DEF OrderOK
      <3>2. \A k \in 1..Len(queued) : queued[k][1] = "answer" => queued[k][2] \in Nat
        BY DEF Types, OutLines, Lines
      <3>3. \A k \in 1..Len(queued) : queued[k][1] = "answer" => queued[k][2] < taken + 1
        BY <1>0, <3>1, <3>2
      <3> QED
        BY <1>0, <2>1, <3>2, <3>3 DEF OrderOK, ItemsFollow, AnswersRise
    <2>5. AnswersOK'
      <3> SUFFICES ASSUME NEW n \in 1..taken'
                   PROVE  /\ input[n] \in {"call", "stream"} =>
                                \/ Contains(queued, <<"answer", n>>)
                                \/ n = taken' /\ reader' = "calling"
                                \/ writer \in {"failed", "aborted"}
                          /\ input[n] = "bad" => readErr \/ (n = taken' /\ reader' = "calling")
        BY <2>1 DEF AnswersOK, Waits
      <3>1. CASE n = taken'
        BY <2>1, <3>1
      <3>2. CASE n # taken'
        <4>1. n \in 1..taken
          BY <1>0, <2>1, <3>2
        <4>2. ~Waits /\ reader # "calling"
          BY <2>1 DEF Waits
        <4> QED
          BY <4>1, <4>2 DEF AnswersOK
      <3> QED
        BY <3>1, <3>2
    <2>6. EndOK'
      BY <1>0, <2>1 DEF EndOK, Waits
    <2> QED
      BY <2>2, <2>3, <2>4, <2>5, <2>6
  <1>2. ASSUME CallReturns \/ CallFails \/ AnswerFails \/ ReadEnd PROVE IInv'
    <2> USE <1>2 DEF CallReturns, CallFails, AnswerFails, ReadEnd
    <2>1. /\ UNCHANGED <<input, eof, closed, pipe, taken, stream, items, queue, buf, writer,
                         written, queued, result>>
          /\ Waits' => Waits
      BY DEF Waits
    <2>2. Types'
      BY DEF Types, TypeOK
    <2>3. FlowOK' /\ StreamsOK' /\ OrderOK'
      BY <2>1, FlowStays, StreamsStay, OrderStays
    <2>4. AnswersOK'
      <3> DEFINE Answered(n) == Contains(queued, <<"answer", n>>)
      <3>1. \A n \in 1..taken :
               /\ input[n] \in {"call", "stream"} =>
                     Answered(n) \/ (n = taken /\ Waits) \/ writer \in {"failed", "aborted"}
               /\ input[n] = "bad" => readErr \/ (n = taken /\ reader = "calling")
        BY DEF AnswersOK
      <3> HIDE DEF Answered
      <3>2. reader = "answering" /\ ~Open => writer \in {"failed", "aborted"}
        BY DEF EndOK, Open, Types, TypeOK
      <3>3. \A n \in 1..taken :
               input[n] \in {"call", "stream"} =>
                   Answered(n) \/ (n = taken /\ Waits') \/ writer \in {"failed", "aborted"}
        BY <3>1, <3>2 DEF Waits
      <3>4. \A n \in 1..taken :
               input[n] = "bad" => readErr' \/ (n = taken /\ reader' = "calling")
        BY <3>1
      <3> QED
        BY <2>1, <3>3, <3>4 DEF AnswersOK, Answered, Waits
    <2>5. EndOK'
      BY <1>0 DEF EndOK, Waits, Open, Types, TypeOK
    <2> QED
      BY <2>2, <2>3, <2>4, <2>5
  <1> QED
    BY <1>1, <1>2

\* Answers keeps the invariant: the answer is to a later line than every
\* answer queued before, and is queued by the time the stream runs.
LEMMA AnswersKeeps ==
    ASSUME IInv, Answers
    PROVE  IInv'
  <1> USE DEF IInv
  <1> DEFINE line == <<"answer", taken>>
  <1>1. /\ input \in Seq(Kinds) /\ taken \in 0..Len(input) /\ Len(input) <= MaxLines
        /\ MaxLines \in Nat /\ queued \in Seq(OutLines)
    BY BoundsNat DEF Types, TypeOK
  <1>2. /\ reader = "answering" /\ reader' = "reading" /\ Enqueue(line)
        /\ UNCHANGED <<input, eof, closed, taken, readErr, items, buf, writer, written, pipe, result>>
    BY DEF Answers, clientVars, writeVars
  <1>3. taken \in Lines /\ line \in OutLines /\ taken \in 1..Len(input)
    BY <1>1, <1>2 DEF EndOK, Waits, Lines, OutLines
  <1>4. /\ stream \in [Lines -> {"none", "running", "over"}]
        /\ stream' = stream \/ stream' = [stream EXCEPT ![taken] = "running"]
    BY DEF Answers, Types, TypeOK
  <1>5. line[1] = "answer" /\ line[2] = taken
    OBVIOUS
  <1>6. queued' = Append(queued, line)
    BY <1>2 DEF Enqueue
  <1> HIDE DEF line
  <1>7. /\ queue' \in Seq(OutLines) /\ queued' \in Seq(OutLines) /\ Len(queue') <= QueueCap
        /\ FlowOK'
        /\ Contains(queued', line) /\ \A x : Contains(queued, x) => Contains(queued', x)
    BY <1>2, <1>3, Enqueued
  <1>8. Types'
    <2>1. stream' \in [Lines -> {"none", "running", "over"}]
      BY <1>3, <1>4
    <2> QED
      BY <1>2, <1>7, <2>1 DEF Types, TypeOK
  <1>9. OrderOK'
    <2>1. \A k \in 1..Len(queued) : queued[k][1] = "answer" => queued[k][2] < line[2]
      BY <1>2, <1>5 DEF OrderOK, Waits
    <2>2. ItemsFollow(queued')
      BY <1>1, <1>3, <1>5, <1>6, ItemsFollowMore DEF OrderOK
    <2>3. AnswersRise(queued')
      BY <1>1, <1>3, <2>1, <1>6, AnswersRiseMore DEF OrderOK
    <2>4. \A k \in 1..Len(queued') : queued'[k][1] = "answer" => queued'[k][2] <= taken
      <3>1. /\ Len(queued') = Len(queued) + 1 /\ queued'[Len(queued) + 1] = line
            /\ \A k \in 1..Len(queued) : queued'[k] = queued[k]
        BY <1>1, <1>3, <1>6
      <3>2. \A k \in 1..Len(queued) : queued[k][1] = "answer" => queued[k][2] <= taken
        BY DEF OrderOK
      <3>3. Len(queued) \in Nat
        BY <1>1
      <3> QED
        BY <1>1, <1>5, <3>1, <3>2, <3>3
    <2> QED
      BY <1>2, <2>2, <2>3, <2>4 DEF OrderOK, Waits
  <1>10. StreamsOK'
    <2> SUFFICES ASSUME NEW n \in Lines
                 PROVE  /\ stream'[n] # "none" => Contains(queued', <<"answer", n>>)
                        /\ items[n] > 0 => Contains(queued', <<"item", n, items[n]>>)
                        /\ stream'[n] = "none" => items[n] = 0
      BY <1>2 DEF StreamsOK
    <2>1. CASE n = taken
      <3>1. Contains(queued', <<"answer", n>>)
        BY <1>7, <2>1 DEF line
      <3>2. stream'[n] = "none" => stream[n] = "none"
        BY <1>3, <1>4, <2>1
      <3> QED
        BY <1>7, <3>1, <3>2 DEF StreamsOK
    <2>2. CASE n # taken
      <3>1. stream'[n] = stream[n]
        BY <1>3, <1>4, <2>2
      <3> QED
        BY <1>7, <3>1 DEF StreamsOK
    <2> QED
      BY <2>1, <2>2
  <1>11. AnswersOK'
    <2> SUFFICES ASSUME NEW n \in 1..taken
                 PROVE  /\ input[n] \in {"call", "stream"} =>
                              Contains(queued', <<"answer", n>>) \/ writer \in {"failed", "aborted"}
                        /\ input[n] = "bad" => readErr
      BY <1>2 DEF AnswersOK, Waits
    <2>1. CASE n = taken
      BY <1>2, <1>7, <2>1 DEF AnswersOK, line
    <2>2. CASE n # taken
      BY <1>2, <1>7, <2>2 DEF AnswersOK
    <2> QED
      BY <2>1, <2>2
  <1>12. EndOK'
    BY <1>2 DEF EndOK, Waits, Enqueue, Open
  <1> QED
    BY <1>7, <1>8, <1>9, <1>10, <1>11, <1>12

\* A stream's steps keep the invariant: what goes ahead of an item is queued.
LEMMA StreamKeeps ==
    ASSUME IInv, NEW m \in Lines, StreamSends(m) \/ StreamEnds(m)
    PROVE  IInv'
  <1> USE DEF IInv
  <1>0. /\ stream \in [Lines -> {"none", "running", "over"}] /\ items \in [Lines -> 0..MaxItems]
        /\ MaxItems \in Nat /\ MaxLines \in Nat /\ queued \in Seq(OutLines)
    BY BoundsNat DEF Types, TypeOK
  <1>1. CASE StreamSends(m)
    <2> DEFINE line == <<"item", m, items[m] + 1>>
    <2>1. /\ stream[m] = "running" /\ items[m] < MaxItems /\ Enqueue(line)
          /\ items' = [items EXCEPT ![m] = items[m] + 1]
          /\ UNCHANGED <<input, eof, closed, taken, reader, readErr, stream, buf, writer, written,
                         pipe, result>>
      BY <1>1 DEF StreamSends, clientVars, writeVars
    <2>2. line \in OutLines /\ items' \in [Lines -> 0..MaxItems]
      BY <1>0, <2>1 DEF OutLines
    <2>3. line[1] = "item" /\ line[2] = m /\ line[3] = items[m] + 1
      OBVIOUS
    <2>4. Contains(queued, Before(line))
      <3>1. Contains(queued, <<"answer", m>>)
        BY <2>1 DEF StreamsOK
      <3>2. items[m] > 0 => Contains(queued, <<"item", m, items[m]>>)
        BY DEF StreamsOK
      <3>3. CASE items[m] = 0
        BY <2>3, <3>1, <3>3 DEF Before
      <3>4. CASE items[m] > 0
        <4>1. line[3] # 1 /\ line[3] - 1 = items[m]
          BY <1>0, <2>3, <3>4
        <4>2. Before(line) = <<"item", m, items[m]>>
          BY <4>1, <2>3 DEF Before
        <4> QED
          BY <3>2, <3>4, <4>2
      <3> QED
        BY <1>0, <3>3, <3>4
    <2>5. queued' = Append(queued, line)
      BY <2>1 DEF Enqueue
    <2> HIDE DEF line
    <2>6. /\ queue' \in Seq(OutLines) /\ queued' \in Seq(OutLines) /\ Len(queue') <= QueueCap
          /\ FlowOK'
          /\ Contains(queued', line) /\ \A x : Contains(queued, x) => Contains(queued', x)
      BY <2>1, <2>2, Enqueued
    <2>7. Types'
      BY <2>1, <2>2, <2>6 DEF Types, TypeOK
    <2>8. OrderOK'
      <3>1. ItemsFollow(queued')
        BY <1>0, <2>2, <2>4, <2>5, ItemsFollowMore DEF OrderOK
      <3>2. AnswersRise(queued')
        BY <1>0, <2>2, <2>3, <2>5, AnswersRiseMore DEF OrderOK
      <3>3. \A k \in 1..Len(queued') :
               queued'[k][1] = "answer" => queued'[k][2] <= taken /\ (Waits => queued'[k][2] < taken)
        <4>1. /\ Len(queued') = Len(queued) + 1 /\ queued'[Len(queued) + 1] = line
              /\ \A k \in 1..Len(queued) : queued'[k] = queued[k]
          BY <1>0, <2>2, <2>5
        <4>2. \A k \in 1..Len(queued) :
                 queued[k][1] = "answer" => queued[k][2] <= taken /\ (Waits => queued[k][2] < taken)
          BY DEF OrderOK
        <4>3. Len(queued) \in Nat
          BY <1>0
        <4> QED
          BY <2>3, <4>1, <4>2, <4>3
      <3> QED
        BY <2>1, <3>1, <3>2, <3>3 DEF OrderOK, Waits
    <2>9. StreamsOK'
      <3> SUFFICES ASSUME NEW n \in Lines
                   PROVE  /\ stream[n] # "none" => Contains(queued', <<"answer", n>>)
                          /\ items'[n] > 0 => Contains(queued', <<"item", n, items'[n]>>)
                          /\ stream[n] = "none" => items'[n] = 0
        BY <2>1 DEF StreamsOK
      <3>1. CASE n = m
        <4>1. items'[n] = items[m] + 1
          BY <1>0, <2>1, <3>1
        <4>2. Contains(queued', <<"item", n, items'[n]>>)
          BY <2>6, <3>1, <4>1 DEF line
        <4> QED
          BY <2>1, <2>6, <3>1, <4>2 DEF StreamsOK
      <3>2. CASE n # m
        <4>1. items'[n] = items[n]
          BY <1>0, <2>1, <3>2
        <4> QED
          BY <2>6, <4>1 DEF StreamsOK
      <3> QED
        BY <3>1, <3>2
    <2>10. AnswersOK'
      BY <2>1, <2>6 DEF AnswersOK, Waits
    <2>11. EndOK'
      BY <2>1 DEF EndOK, Waits
    <2> QED
      BY <2>6, <2>7, <2>8, <2>9, <2>10, <2>11
  <1>2. CASE StreamEnds(m)
    <2>1. /\ UNCHANGED <<input, eof, closed, pipe, taken, reader, readErr, items, queue, buf, writer,
                         written, queued, result>>
          /\ stream' \in [Lines -> {"none", "running", "over"}]
          /\ \A n \in Lines : stream'[n] = stream[n] \/ (stream[n] = "running" /\ stream'[n] = "over")
      BY <1>0, <1>2 DEF StreamEnds, clientVars, writeVars
    <2>2. Types'
      BY <2>1 DEF Types, TypeOK
    <2>3. FlowOK' /\ OrderOK' /\ StreamsOK'
      BY <2>1, FlowStays, OrderStays, StreamsStay DEF Waits
    <2>4. AnswersOK' /\ EndOK'
      BY <2>1 DEF AnswersOK, EndOK, Waits
    <2> QED
      BY <2>2, <2>3, <2>4
  <1> QED
    BY <1>1, <1>2

\* What is written is the beginning of what was queued.
LEMMA WrittenIsPrefix ==
    ASSUME Types, FlowOK
    PROVE  IsPrefix(written, queued)
  <1>1. written \in Seq(OutLines) /\ buf \in Seq(OutLines) /\ queue \in Seq(OutLines)
    BY DEF Types
  <1>2. CASE written \o buf \o queue = queued
    <2>1. (written \o buf) \o queue = written \o (buf \o queue)
      BY <1>1, ConcatAssociative
    <2>2. buf \o queue \in Seq(OutLines)
      BY <1>1
    <2> QED
      BY <1>1, <1>2, <2>1, <2>2, PrefixOfConcat
  <1> QED
    BY <1>2 DEF FlowOK, OutIsQueued

\* The writer's steps keep the flow: it gathers from the front of the queue
\* and writes from the front of what it gathered.
LEMMA WriterKeepsFlow ==
    ASSUME Types, FlowOK, WriterStep
    PROVE  FlowOK' /\ {queue', buf', written'} \subseteq Seq(OutLines)
                   /\ Len(queue') <= QueueCap /\ Len(buf') <= WriteBudget
  <1>1. /\ written \in Seq(OutLines) /\ buf \in Seq(OutLines) /\ queue \in Seq(OutLines)
        /\ Len(queue) <= QueueCap /\ Len(buf) <= WriteBudget
    BY DEF Types, TypeOK
  <1>2. QueueCap \in Nat \ {0} /\ WriteBudget \in Nat \ {0}
    BY CapsPositive
  <1>3. CASE Gather
    <2> DEFINE k == IF Len(queue) <= WriteBudget THEN Len(queue) ELSE WriteBudget
    <2>1. /\ writer = "waiting" /\ queue # <<>> /\ writer' = "writing"
          /\ buf' = SubSeq(queue, 1, k) /\ queue' = SubSeq(queue, k + 1, Len(queue))
          /\ written' = written /\ queued' = queued
      BY <1>3 DEF Gather
    <2>2. k \in 1..Len(queue) /\ k <= WriteBudget
      BY <1>1, <1>2, <2>1
    <2> HIDE DEF k
    <2>3. /\ buf' \in Seq(OutLines) /\ queue' \in Seq(OutLines) /\ buf' \o queue' = queue
          /\ Len(buf') = k /\ Len(queue') = Len(queue) - k
      BY <1>1, <2>1, <2>2, CutAt
    <2>4. buf = <<>> /\ written \o buf \o queue = queued
      BY <2>1 DEF FlowOK, OutIsQueued, Open
    <2>5. written \o buf = written
      BY <1>1, <2>4, ConcatEmptySeq
    <2>6. (written \o buf') \o queue' = written \o (buf' \o queue')
      <3>1. ASSUME NEW b \in Seq(OutLines), NEW q \in Seq(OutLines)
            PROVE  (written \o b) \o q = written \o (b \o q)
        <4>1. written \in Seq(OutLines)
          BY <1>1
        <4> QED
          BY <4>1, ConcatAssociative
      <3> QED
        BY <1>1, <2>3, <3>1
    <2>7. (written' \o buf') \o queue' = queued'
      BY <2>1, <2>3, <2>4, <2>5, <2>6
    <2>8. buf' # <<>>
      BY <2>2, <2>3
    <2>9. FlowOK'
      BY <2>1, <2>7, <2>8 DEF FlowOK, OutIsQueued, Open
    <2> QED
      BY <1>1, <1>2, <2>1, <2>2, <2>3, <2>9
  <1>4. CASE Write
    <2>1. /\ writer = "writing" /\ written' = Append(written, Head(buf)) /\ buf' = Tail(buf)
          /\ writer' = IF buf' = <<>> THEN "waiting" ELSE "writing"
          /\ queue' = queue /\ queued' = queued
      BY <1>4 DEF Write
    <2>2. buf # <<>> /\ written \o buf \o queue = queued
      BY <2>1 DEF FlowOK, OutIsQueued, Open
    <2>3. Head(buf) \in OutLines /\ Tail(buf) \in Seq(OutLines) /\ Len(Tail(buf)) = Len(buf) - 1
      BY <1>1, <2>2, HeadTailProperties
    <2>4. written' \o buf' = written \o buf
      BY <1>1, <2>1, <2>2, MoveHead
    <2>5. written' \o buf' \o queue' = queued'
      BY <2>1, <2>2, <2>4
    <2>6. FlowOK'
      BY <2>1, <2>5 DEF FlowOK, OutIsQueued, Open
    <2>7. written' \in Seq(OutLines) /\ Len(buf') <= WriteBudget
      BY <1>1, <1>2, <2>1, <2>3
    <2> QED
      BY <1>1, <2>1, <2>3, <2>6, <2>7
  <1>5. CASE WriteFails
    <2>1. /\ writer' = "failed" /\ queue' = <<>> /\ buf' = <<>>
          /\ written' = written /\ queued' = queued
      BY <1>5 DEF WriteFails
    <2>2. IsPrefix(written, queued)
      BY WrittenIsPrefix
    <2>3. FlowOK'
      BY <2>1, <2>2 DEF FlowOK, OutIsQueued, Open
    <2> QED
      BY <1>1, <1>2, <2>1, <2>3
  <1>6. CASE WriterEnds
    BY <1>1, <1>6 DEF WriterEnds, FlowOK, OutIsQueued, Open
  <1> QED
    BY <1>3, <1>4, <1>5, <1>6 DEF WriterStep

\* The writer's steps keep the invariant: it ends only once no line can be
\* queued, and an end before that is an error.
LEMMA WriterKeeps ==
    ASSUME IInv, WriterStep
    PROVE  IInv'
  <1> USE DEF IInv
  <1>1. /\ UNCHANGED <<input, eof, closed, taken, reader, readErr, stream, items, queued, result>>
        /\ pipe' \in 0..PipeCap
        /\ writer' \in {"waiting", "writing", "done", "failed", "aborted"}
    BY CapsPositive, SMTT(40)
       DEF WriterStep, Gather, Write, WriteFails, WriterEnds, clientVars, streamVars, Types, TypeOK
  <1>2. /\ FlowOK' /\ {queue', buf', written'} \subseteq Seq(OutLines)
        /\ Len(queue') <= QueueCap /\ Len(buf') <= WriteBudget
    BY WriterKeepsFlow
  <1>3. Types'
    BY <1>1, <1>2 DEF Types, TypeOK
  <1>4. OrderOK' /\ StreamsOK'
    BY <1>1, OrderStays, StreamsStay DEF Waits
  <1>5. /\ writer \in {"waiting", "writing"} /\ writer' # "aborted"
        /\ writer' = "done" => reader = "draining"
    BY DEF WriterStep, Gather, Write, WriteFails, WriterEnds
  <1>6. AnswersOK'
    BY <1>1, <1>5 DEF AnswersOK, Waits
  <1>7. EndOK'
    BY <1>1, <1>5 DEF EndOK, Waits
  <1> QED
    BY <1>2, <1>3, <1>4, <1>6, <1>7

\* The end of serve_lines keeps the invariant: Ok is said when the writer is
\* done and the reader met no error, or on giving up.
LEMMA EndKeeps ==
    ASSUME IInv, Shutdown \/ Returns \/ DrainPasses
    PROVE  IInv'
  <1> USE DEF IInv
  <1>1. CASE Shutdown
    <2>1. /\ UNCHANGED <<input, eof, closed, pipe, taken, readErr, items, queue, buf, writer,
                         written, queued, result>>
          /\ reader = "ending" /\ reader' = "draining"
          /\ stream' = [n \in Lines |-> IF stream[n] = "running" THEN "over" ELSE stream[n]]
      BY <1>1 DEF Shutdown, clientVars, writeVars
    <2>2. /\ stream' \in [Lines -> {"none", "running", "over"}]
          /\ \A n \in Lines : stream'[n] = stream[n] \/ (stream[n] = "running" /\ stream'[n] = "over")
      BY <2>1 DEF Types, TypeOK
    <2>3. Types'
      BY <2>1, <2>2 DEF Types, TypeOK
    <2>4. FlowOK' /\ OrderOK' /\ StreamsOK'
      BY <2>1, <2>2, FlowStays, OrderStays, StreamsStay DEF Waits
    <2>5. AnswersOK' /\ EndOK'
      BY <2>1 DEF AnswersOK, EndOK, Waits
    <2> QED
      BY <2>3, <2>4, <2>5
  <1>2. CASE Returns
    <2>1. /\ UNCHANGED <<input, eof, closed, pipe, taken, readErr, stream, items, queue, buf, writer,
                         written, queued>>
          /\ reader = "draining" /\ reader' = "returned" /\ writer \in {"done", "failed"}
          /\ result' = IF readErr \/ writer = "failed" THEN "error" ELSE "ok"
      BY <1>2 DEF Returns, clientVars, streamVars, writeVars
    <2>2. Types'
      BY <2>1 DEF Types, TypeOK
    <2>3. FlowOK' /\ OrderOK' /\ StreamsOK'
      BY <2>1, FlowStays, OrderStays, StreamsStay DEF Waits
    <2>4. AnswersOK' /\ EndOK'
      BY <2>1 DEF AnswersOK, EndOK, Waits
    <2> QED
      BY <2>2, <2>3, <2>4
  <1>3. CASE DrainPasses
    <2>1. /\ UNCHANGED <<input, eof, closed, pipe, taken, readErr, stream, items, written, queued>>
          /\ reader = "draining" /\ reader' = "returned" /\ writer' = "aborted"
          /\ result' = IF readErr THEN "error" ELSE "ok"
          /\ queue' = <<>> /\ buf' = <<>>
      BY <1>3 DEF DrainPasses, clientVars, streamVars
    <2>2. Types'
      <3>1. /\ queue' \in Seq(OutLines) /\ buf' \in Seq(OutLines)
            /\ Len(queue') <= QueueCap /\ Len(buf') <= WriteBudget
        BY <2>1, CapsPositive
      <3> QED
        BY <2>1, <3>1 DEF Types, TypeOK
    <2>3. FlowOK'
      BY <2>1, WrittenIsPrefix DEF FlowOK, OutIsQueued, Open
    <2>4. OrderOK' /\ StreamsOK'
      BY <2>1, OrderStays, StreamsStay DEF Waits
    <2>5. AnswersOK' /\ EndOK'
      BY <2>1 DEF AnswersOK, EndOK, Waits
    <2> QED
      BY <2>2, <2>3, <2>4, <2>5
  <1> QED
    BY <1>1, <1>2, <1>3

\* Every step keeps the invariant.
LEMMA NextIInv == IInv /\ [Next]_vars => IInv'
  <1> SUFFICES ASSUME IInv, [Next]_vars PROVE IInv'
    OBVIOUS
  <1>1. CASE ServeStep
    BY <1>1, ReaderKeeps, AnswersKeeps, EndKeeps DEF ServeStep
  <1>2. CASE WriterStep
    BY <1>2, WriterKeeps
  <1>3. ASSUME NEW n \in Lines, StreamSends(n) \/ StreamEnds(n) PROVE IInv'
    BY <1>3, StreamKeeps
  <1>4. CASE \/ \E kind \in Kinds : ClientSends(kind)
             \/ ClientEnds \/ ClientReads \/ ClientCloses
    BY <1>4, ClientKeeps
  <1>5. CASE UNCHANGED vars
    <2> USE <1>5 DEF vars, clientVars, streamVars
    <2>1. Types'
      BY DEF IInv, Types, TypeOK
    <2>2. FlowOK' /\ OrderOK' /\ StreamsOK'
      BY FlowStays, OrderStays, StreamsStay DEF IInv, Waits
    <2>3. AnswersOK' /\ EndOK'
      BY DEF IInv, AnswersOK, EndOK, Waits
    <2> QED
      BY <2>1, <2>2, <2>3 DEF IInv
  <1> QED
    BY <1>1, <1>2, <1>3, <1>4, <1>5 DEF Next

\* The invariant holds always.
LEMMA InvariantHolds == Spec => []IInv
  BY InitIInv, NextIInv, PTL DEF Spec
-----------------------------------------------------------------------------
\* A client of the stdio transport reads a stream's answer before its items,
\* its items in order and the answers in the order of its calls, and nothing
\* queued is left out ahead of something written (serve_lines, write_lines).
THEOREM ClientReadsInOrder == Spec => []OutInOrder
  <1>1. IInv => OutInOrder
    <2> SUFFICES ASSUME IInv PROVE AnswerFirst
      BY DEF IInv, Types, FlowOK, OutInOrder
    <2>1. written \in Seq(OutLines) /\ queued \in Seq(OutLines)
      BY DEF IInv, Types
    <2>2. IsPrefix(written, queued)
      BY WrittenIsPrefix DEF IInv
    <2>3. ItemsFollow(written) /\ AnswersRise(written)
      BY <2>1, <2>2, OrderedPrefix DEF IInv, OrderOK
    <2> QED
      BY <2>3 DEF AnswerFirst, ItemsFollow, AnswersRise, Before
  <1> QED
    BY <1>1, InvariantHolds, PTL

\* serve_lines says Ok, other than on giving up, only once every request it
\* was sent is answered on stdout.
THEOREM OkSaysAnswered == Spec => []OkMeansAnswered
  <1>1. IInv => OkMeansAnswered
    <2> SUFFICES ASSUME IInv, result = "ok", writer # "aborted", NEW n \in DOMAIN input
                 PROVE  /\ input[n] # "bad"
                        /\ input[n] \in {"call", "stream"} => Contains(written, <<"answer", n>>)
      BY DEF OkMeansAnswered
    <2> USE DEF IInv
    <2>1. reader = "returned" /\ writer = "done" /\ ~readErr
      BY DEF EndOK
    <2>2. n \in 1..taken
      BY <2>1 DEF EndOK, Types, TypeOK
    <2>3. written = queued
      <3>1. written \in Seq(OutLines) /\ buf = <<>> /\ queue = <<>> /\ written \o buf \o queue = queued
        BY <2>1 DEF Types, FlowOK, OutIsQueued
      <3>2. written \o buf = written /\ written \o queue = written
        BY <3>1, ConcatEmptySeq
      <3> QED
        BY <3>1, <3>2
    <2> QED
      BY <2>1, <2>2, <2>3 DEF AnswersOK, Waits
  <1> QED
    BY <1>1, InvariantHolds, PTL
=============================================================================
