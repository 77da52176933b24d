------------------------- MODULE McpSessionsProofs -------------------------
(***************************************************************************)
(* For every number of sessions, of requests at once and of starts: a      *)
(* session that runs has its row, a closed one is gone, and a row left     *)
(* behind was left by a crash, by a close that failed or by a request      *)
(* dropped half-way.                                                       *)
(***************************************************************************)
EXTENDS McpSessions, FiniteSetTheorems, SequenceTheorems, TLAPS

(***************************************************************************)
(* The inductive invariant.                                                *)
(***************************************************************************)
Stages == {"idle", "persist", "insert", "get", "ask", "touch", "check", "forget",
           "recreate", "retouch", "reget", "reask", "remove", "closing", "closing_dead", "delete"}
Waiting == {"insert", "get", "recreate", "reget", "remove"}
Reading == {"ask", "touch", "reask"}
Writing == {"closing", "closing_dead", "delete"}
\* Where a request has seen that the session has no handle, or has taken it.
Missed == {"check", "forget", "recreate", "retouch", "reget", "reask"} \cup Writing

Requests == [op : {"none", "create"} \cup Methods, id : Ids \cup {"none"}, at : Stages]

Types ==
    /\ up \in BOOLEAN /\ starts \in 1..MaxStarts
    /\ mem \in [Ids -> Handle] /\ rows \subseteq Ids
    /\ readers \subseteq Slots /\ writer \in Slots \cup {Nobody}
    /\ known \subseteq Ids /\ closed \subseteq Ids /\ broken \subseteq Ids
    /\ req \in [Slots -> Requests]

\* Each method has stages of its own, and only an idle request has no session.
Allowed(r) ==
    /\ r.id \in Ids
    /\ \/ r.op = "create" /\ r.at \in {"persist", "insert"}
       \/ r.op = "has" /\ r.at \in {"get", "check", "forget"}
       \/ r.op = "initialize" /\ r.at \in {"get", "ask", "check"}
       \/ r.op = "stream" /\ r.at \in {"get", "ask", "touch"}
       \/ /\ r.op = "resume"
          /\ r.at \in {"get", "ask", "touch", "check", "recreate", "retouch", "reget", "reask"}
       \/ r.op = "close" /\ r.at \in {"remove"} \cup Writing

RequestsOK == \A s \in Slots : req[s] = Idle \/ Allowed(req[s])

\* Who waits for the lock is in the queue once.
QueueOK ==
    /\ queue \in Seq(Slots)
    /\ \A i \in 1..Len(queue) : req[queue[i]].at \in Waiting
    /\ \A i, j \in 1..Len(queue) : queue[i] = queue[j] => i = j

\* Who has the lock is at a stage that has it; a writer has it alone.
LockOK ==
    /\ \A s \in Slots : s \in readers <=> req[s].at \in Reading
    /\ \A s \in Slots : writer = s <=> req[s].at \in Writing
    /\ writer # Nobody => readers = {}

\* A create has its identifier to itself until it is known; every other
\* request has one that is known.
CreatesOK ==
    \A s \in Slots :
        /\ req[s].op = "create" =>
              /\ req[s].id \notin known
              /\ \A t \in Slots \ {s} : req[t].id # req[s].id
        /\ req[s].op \in Methods => req[s].id \in known
        /\ req[s].at = "persist" => req[s].id \notin rows
        /\ req[s].at = "insert" => req[s].id \in rows

\* A handle is of a known session; whoever saw that it has none, or took it,
\* will never see its worker run again.
HandlesOK ==
    /\ \A id \in Ids : mem[id] # "none" => id \in known
    /\ \A id \in Ids : mem[id] = "live" => id \in rows
    /\ \A s \in Slots : req[s].at \in Missed => mem[req[s].id] # "live"

ClosedOK ==
    \A id \in closed : id \in known /\ id \notin rows /\ mem[id] # "live"

\* A row with no handle is being inserted or closed, or was left behind.
RowsOK ==
    up => \A id \in rows :
             mem[id] = "none" =>
                \/ id \in broken
                \/ \E s \in Slots : req[s].id = id /\ req[s].at \in {"insert"} \cup Writing

DownOK ==
    ~up => /\ starts < MaxStarts
           /\ mem = [id \in Ids |-> "none"] /\ req = [s \in Slots |-> Idle]
           /\ rows \subseteq broken

IInv ==
    Types /\ RequestsOK /\ QueueOK /\ LockOK /\ CreatesOK /\ HandlesOK /\ ClosedOK /\ RowsOK /\ DownOK

-----------------------------------------------------------------------------
\* What the two ways of moving a request on do to the requests.
LEMMA GoesDoes ==
    ASSUME req \in [Slots -> Requests], NEW s \in Slots, NEW at \in Stages, Goes(s, at)
    PROVE  /\ req' \in [Slots -> Requests]
           /\ req'[s].op = req[s].op /\ req'[s].id = req[s].id /\ req'[s].at = at
           /\ \A t \in Slots \ {s} : req'[t] = req[t]
  BY DEF Goes, Requests

\* A request that returns leaves its slot idle, and the others as they were.
LEMMA ReturnsDoes ==
    ASSUME req \in [Slots -> Requests], NEW s \in Slots, Returns(s)
    PROVE  /\ req' \in [Slots -> Requests]
           /\ req'[s] = Idle
           /\ req'[s].op = "none" /\ req'[s].id = "none" /\ req'[s].at = "idle"
           /\ \A t \in Slots \ {s} : req'[t] = req[t]
           /\ readers' = readers \ {s}
           /\ writer' = IF writer = s THEN Nobody ELSE writer
  BY DEF Returns, Requests, Idle, Stages

\* A request joins the queue when it begins to wait and leaves it from the
\* front, so that it is never in it twice.
LEMMA QueueKept ==
    ASSUME QueueOK, NEW s \in Slots, \A t \in Slots \ {s} : req'[t] = req[t],
           \/ queue' = queue /\ req[s].at \notin Waiting
           \/ queue' = Append(queue, s) /\ req[s].at \notin Waiting /\ req'[s].at \in Waiting
           \/ MayRead(s) /\ queue' = Tail(queue)
    PROVE  QueueOK'
  <1>1. CASE queue' = queue /\ req[s].at \notin Waiting
    BY <1>1 DEF QueueOK
  <1>2. CASE queue' = Append(queue, s) /\ req[s].at \notin Waiting /\ req'[s].at \in Waiting
    BY <1>2, AppendProperties DEF QueueOK
  <1>3. CASE MayRead(s) /\ queue' = Tail(queue)
    BY <1>3, HeadTailProperties DEF QueueOK, MayRead
  <1> QED
    BY <1>1, <1>2, <1>3

\* A dropped request leaves the queue wherever it is in it.
LEMMA QueueLeft ==
    ASSUME QueueOK, NEW s \in Slots, \A t \in Slots \ {s} : req'[t] = req[t], LeavesQueue(s)
    PROVE  QueueOK'
  <1>0. /\ queue \in Seq(Slots) /\ Len(queue) \in Nat
        /\ \A i \in 1..Len(queue) : queue[i] \in Slots /\ req[queue[i]].at \in Waiting
        /\ \A i, j \in 1..Len(queue) : queue[i] = queue[j] => i = j
    BY ElementOfSeq, LenProperties DEF QueueOK
  <1>1. CASE (\A k \in DOMAIN queue : queue[k] # s) /\ UNCHANGED queue
    BY <1>0, <1>1, LenProperties DEF QueueOK
  <1>2. ASSUME NEW k \in DOMAIN queue, queue[k] = s,
               queue' = [j \in 1..(Len(queue) - 1) |-> queue[IF j < k THEN j ELSE j + 1]]
        PROVE  QueueOK'
    <2>1. k \in 1..Len(queue) /\ Len(queue) - 1 \in Nat
      BY <1>0, <1>2, LenProperties
    <2> DEFINE from(j) == IF j < k THEN j ELSE j + 1
    <2>2. \A j \in 1..(Len(queue) - 1) : from(j) \in 1..Len(queue) /\ from(j) # k
      BY <1>0, <2>1
    <2>3. \A i, j \in 1..(Len(queue) - 1) : from(i) = from(j) => i = j
      BY <1>0, <2>1
    <2>4. queue' = [j \in 1..(Len(queue) - 1) |-> queue[from(j)]]
      BY <1>2
    <2> HIDE DEF from
    <2>5. queue' \in [1..(Len(queue) - 1) -> Slots]
      BY <1>0, <2>2, <2>4
    <2>6. queue' \in Seq(Slots) /\ Len(queue') = Len(queue) - 1
      BY <2>1, <2>5, SeqDef, LenProperties
    <2>7. \A j \in 1..Len(queue') : req'[queue'[j]].at \in Waiting
      BY <1>0, <1>2, <2>1, <2>2, <2>4, <2>6
    <2>8. \A i, j \in 1..Len(queue') : queue'[i] = queue'[j] => i = j
      BY <1>0, <2>2, <2>3, <2>4, <2>6
    <2> QED
      BY <2>6, <2>7, <2>8 DEF QueueOK
  <1> QED
    BY <1>1, <1>2 DEF LeavesQueue

\* The parts a request can disturb without touching a handle or a row.
SessionsOK == CreatesOK /\ HandlesOK /\ ClosedOK /\ RowsOK /\ DownOK

\* A request that returns, and was neither inserting nor closing, leaves the
\* sessions as they were.
LEMMA ReturnKeeps ==
    ASSUME IInv, up, NEW s \in Slots, Returns(s),
           req[s].at \notin {"insert"} \cup Writing,
           \/ queue' = queue /\ req[s].at \notin Waiting
           \/ MayRead(s) /\ queue' = Tail(queue),
           UNCHANGED <<world, mem, rows, history>>
    PROVE  IInv'
  <1> USE SlotsAreNames, IdsAreNames DEF history, world, Nobody, Methods, Stages, Waiting, Reading, Writing, Missed
  <1>1. /\ req' \in [Slots -> Requests]
        /\ req'[s] = Idle
        /\ req'[s].op = "none" /\ req'[s].id = "none" /\ req'[s].at = "idle"
        /\ \A t \in Slots \ {s} : req'[t] = req[t]
        /\ readers' = readers \ {s}
        /\ writer' = IF writer = s THEN Nobody ELSE writer
    BY ReturnsDoes DEF IInv, Types
  <1>2. QueueOK'
    BY <1>1, QueueKept DEF IInv
  <1>3. Types' /\ RequestsOK' /\ LockOK'
    BY <1>1 DEF IInv, Types, RequestsOK, Allowed, LockOK
  <1>4. SessionsOK'
    BY <1>1 DEF SessionsOK, IInv, Types, RequestsOK, Allowed, Idle, CreatesOK, HandlesOK, ClosedOK,
       RowsOK, DownOK
  <1> QED
    BY <1>2, <1>3, <1>4 DEF IInv, SessionsOK

\* So does one that goes on to a stage of its method that neither inserts nor
\* closes, provided it is one of the readers exactly while it reads, and that
\* it goes on as one that missed the handle only if there is none that runs.
LEMMA GoesKeeps ==
    ASSUME IInv, up, NEW s \in Slots, NEW at \in Stages, Goes(s, at), Allowed(req'[s]),
           req[s].at \notin {"persist", "insert"} \cup Writing,
           at \notin {"persist", "insert"} \cup Writing,
           at \in Missed => mem[req[s].id] # "live",
           \/ queue' = queue /\ req[s].at \notin Waiting
           \/ queue' = Append(queue, s) /\ req[s].at \notin Waiting /\ at \in Waiting
           \/ MayRead(s) /\ queue' = Tail(queue),
           readers' = IF at \in Reading THEN readers \cup {s} ELSE readers \ {s},
           at \in Reading => req[s].at \in Reading \/ writer = Nobody,
           writer' = writer,
           UNCHANGED <<world, mem, rows, history>>
    PROVE  IInv'
  <1> USE SlotsAreNames, IdsAreNames DEF history, world, Nobody, Methods, Stages, Waiting, Reading, Writing, Missed
  <1>1. /\ req' \in [Slots -> Requests]
        /\ req'[s].op = req[s].op /\ req'[s].id = req[s].id /\ req'[s].at = at
        /\ \A t \in Slots \ {s} : req'[t] = req[t]
    BY GoesDoes DEF IInv, Types
  <1>2. QueueOK'
    BY <1>1, QueueKept DEF IInv
  <1>3. Types' /\ RequestsOK' /\ LockOK'
    BY <1>1 DEF IInv, Types, RequestsOK, LockOK
  <1>4. SessionsOK'
    BY <1>1 DEF SessionsOK, IInv, Types, RequestsOK, Allowed, Idle, CreatesOK, HandlesOK, ClosedOK,
       RowsOK, DownOK
  <1> QED
    BY <1>2, <1>3, <1>4 DEF IInv, SessionsOK

\* Initially the invariant holds.
LEMMA InitIInv == Init => IInv
  BY StartsArePositive, SlotsAreNames, EmptySeq
     DEF Init, IInv, Types, Requests, RequestsOK, QueueOK, LockOK, CreatesOK, HandlesOK, ClosedOK, RowsOK, DownOK,
         Stages, Waiting, Reading, Writing, Missed, Idle, Nobody, Handle, Methods

\* Every step of every request keeps the invariant.
LEMMA NextIInv == IInv /\ [Next]_vars => IInv'
  <1> SUFFICES ASSUME IInv, [Next]_vars PROVE IInv'
    OBVIOUS
  <1> USE SlotsAreNames, IdsAreNames DEF At, lockVars, history, world, Nobody, Methods
  <1> USE DEF Stages, Waiting, Reading, Writing, Missed, Handle
  <1>1. ASSUME NEW s \in Slots, Persist(s)
        PROVE  IInv'
    <2>1. CASE Goes(s, "insert")
      <3>1. /\ req' \in [Slots -> Requests]
            /\ req'[s].op = req[s].op /\ req'[s].id = req[s].id /\ req'[s].at = "insert"
            /\ \A t \in Slots \ {s} : req'[t] = req[t]
        BY <2>1, GoesDoes DEF IInv, Types
      <3>2. rows' = rows \cup {req[s].id} /\ queue' = Append(queue, s) /\ UNCHANGED <<readers, writer>>
        BY <1>1, <3>1, ReturnsDoes DEF Persist, IInv, Types
      <3>3. QueueOK'
        BY <1>1, <3>1, <3>2, QueueKept DEF Persist, IInv
      <3>4. Types' /\ RequestsOK' /\ LockOK'
        BY <1>1, <3>1, <3>2 DEF Persist, IInv, Types, RequestsOK, Allowed, Idle, LockOK
      <3>5. SessionsOK'
        BY <1>1, <3>1, <3>2 DEF Persist, IInv, SessionsOK, Types, RequestsOK, Allowed, Idle, CreatesOK,
           HandlesOK, ClosedOK, RowsOK, DownOK
      <3> QED
        BY <3>3, <3>4, <3>5 DEF IInv, SessionsOK
    <2>2. CASE Returns(s) /\ UNCHANGED <<rows, queue>>
      BY <1>1, <2>2, ReturnKeeps DEF Persist
    <2> QED
      BY <1>1, <2>1, <2>2 DEF Persist
  <1>2. ASSUME NEW s \in Slots, Insert(s)
        PROVE  IInv'
    <2>1. /\ req' \in [Slots -> Requests]
          /\ req'[s] = Idle
          /\ req'[s].op = "none" /\ req'[s].id = "none" /\ req'[s].at = "idle"
          /\ \A t \in Slots \ {s} : req'[t] = req[t]
          /\ readers' = readers \ {s}
          /\ writer' = IF writer = s THEN Nobody ELSE writer
      BY <1>2, ReturnsDoes DEF Insert, IInv, Types
    <2>2. QueueOK'
      BY <1>2, <2>1, QueueKept DEF Insert, MayWrite, IInv
    <2>3. Types' /\ RequestsOK' /\ LockOK'
      BY <1>2, <2>1 DEF Insert, IInv, Types, RequestsOK, Allowed, Idle, LockOK
    <2>4. SessionsOK'
      BY <1>2, <2>1 DEF Insert, IInv, SessionsOK, Types, RequestsOK, Allowed, Idle, CreatesOK,
         HandlesOK, ClosedOK, RowsOK, DownOK
    <2> QED
      BY <2>2, <2>3, <2>4 DEF IInv, SessionsOK
  <1>3. ASSUME NEW s \in Slots, HasYes(s)
        PROVE  IInv'
    BY <1>3, ReturnKeeps DEF HasYes
  <1>4. ASSUME NEW s \in Slots, Found(s)
        PROVE  IInv'
    <2>1. Allowed(req'[s])
      BY <1>4, GoesDoes DEF Found, IInv, Types, RequestsOK, Allowed, Idle
    <2> QED
      BY <1>4, <2>1, GoesKeeps DEF Found, MayRead
  <1>5. ASSUME NEW s \in Slots, NotFound(s)
        PROVE  IInv'
    <2>1. CASE req[s].op = "stream"
      BY <1>5, <2>1, ReturnKeeps DEF NotFound
    <2>2. CASE req[s].op # "stream"
      <3>1. Allowed(req'[s])
        BY <1>5, <2>2, GoesDoes DEF NotFound, IInv, Types, RequestsOK, Allowed, Idle
      <3>2. s \notin readers
        BY <1>5 DEF NotFound, IInv, LockOK
      <3> QED
        BY <1>5, <2>2, <3>1, <3>2, GoesKeeps DEF NotFound, IInv
    <2> QED
      BY <2>1, <2>2
  <1>6. ASSUME NEW s \in Slots, Ask(s)
        PROVE  IInv'
    <2>1. CASE Returns(s)
      BY <1>6, <2>1, ReturnKeeps DEF Ask
    <2>2. CASE Goes(s, "touch") /\ req[s].op # "initialize" /\ UNCHANGED <<readers, writer>>
      <3>1. Allowed(req'[s])
        BY <1>6, <2>2, GoesDoes DEF Ask, IInv, Types, RequestsOK, Allowed, Idle
      <3>2. s \in readers
        BY <1>6 DEF Ask, IInv, LockOK
      <3> QED
        BY <1>6, <2>2, <3>1, <3>2, GoesKeeps DEF Ask
    <2> QED
      BY <1>6, <2>1, <2>2 DEF Ask
  <1>7. ASSUME NEW s \in Slots, Touch(s)
        PROVE  IInv'
    BY <1>7, ReturnKeeps DEF Touch
  <1>8. ASSUME NEW s \in Slots, Check(s)
        PROVE  IInv'
    <2>1. CASE Returns(s) /\ UNCHANGED queue
      BY <1>8, <2>1, ReturnKeeps DEF Check
    <2>2. s \notin readers /\ mem[req[s].id] # "live"
      BY <1>8 DEF Check, IInv, LockOK, HandlesOK
    <2>3. CASE req[s].op = "has" /\ Goes(s, "forget") /\ UNCHANGED lockVars
      <3>1. Allowed(req'[s])
        BY <1>8, <2>3, GoesDoes DEF Check, IInv, Types, RequestsOK, Allowed, Idle
      <3> QED
        BY <1>8, <2>2, <2>3, <3>1, GoesKeeps DEF Check, IInv
    <2>4. CASE /\ req[s].op = "resume" /\ Goes(s, "recreate")
               /\ queue' = Append(queue, s) /\ UNCHANGED <<readers, writer>>
      <3>1. Allowed(req'[s])
        BY <1>8, <2>4, GoesDoes DEF Check, IInv, Types, RequestsOK, Allowed, Idle
      <3> QED
        BY <1>8, <2>2, <2>4, <3>1, GoesKeeps DEF Check, IInv
    <2> QED
      BY <1>8, <2>1, <2>3, <2>4 DEF Check
  <1>9. ASSUME NEW s \in Slots, Forget(s)
        PROVE  IInv'
    <2>1. /\ req' \in [Slots -> Requests]
          /\ req'[s] = Idle
          /\ req'[s].op = "none" /\ req'[s].id = "none" /\ req'[s].at = "idle"
          /\ \A t \in Slots \ {s} : req'[t] = req[t]
          /\ readers' = readers \ {s}
          /\ writer' = IF writer = s THEN Nobody ELSE writer
      BY <1>9, ReturnsDoes DEF Forget, IInv, Types
    <2>2. QueueOK'
      BY <1>9, <2>1, QueueKept DEF Forget, MayWrite, IInv
    <2>3. Types' /\ RequestsOK' /\ LockOK'
      BY <1>9, <2>1 DEF Forget, MayWrite, MayRead, IInv, Types, RequestsOK, Allowed, Idle, LockOK
    <2>4. SessionsOK'
      BY <1>9, <2>1 DEF Forget, IInv, SessionsOK, Types, RequestsOK, Allowed, Idle, LockOK, CreatesOK,
         HandlesOK, ClosedOK, RowsOK, DownOK
    <2> QED
      BY <2>2, <2>3, <2>4 DEF IInv, SessionsOK
  <1>10. ASSUME NEW s \in Slots, Recreate(s)
        PROVE  IInv'
    <2>1. /\ req' \in [Slots -> Requests]
          /\ req'[s].op = req[s].op /\ req'[s].id = req[s].id /\ req'[s].at = "retouch"
          /\ \A t \in Slots \ {s} : req'[t] = req[t]
      BY <1>10, GoesDoes DEF Recreate, IInv, Types
    <2>2. QueueOK'
      BY <1>10, <2>1, QueueKept DEF Recreate, MayWrite, IInv
    <2>3. Types' /\ RequestsOK' /\ LockOK'
      BY <1>10, <2>1 DEF Recreate, MayWrite, MayRead, IInv, Types, RequestsOK, Allowed, Idle, LockOK
    <2>4. SessionsOK'
      BY <1>10, <2>1 DEF Recreate, IInv, SessionsOK, Types, RequestsOK, Allowed, Idle, LockOK, CreatesOK,
         HandlesOK, ClosedOK, RowsOK, DownOK
    <2> QED
      BY <2>2, <2>3, <2>4 DEF IInv, SessionsOK
  <1>11. ASSUME NEW s \in Slots, Retouch(s)
        PROVE  IInv'
    <2>1. CASE Goes(s, "reget") /\ queue' = Append(queue, s) /\ UNCHANGED <<mem, readers, writer>>
      <3>1. Allowed(req'[s])
        BY <1>11, <2>1, GoesDoes DEF Retouch, IInv, Types, RequestsOK, Allowed, Idle
      <3>2. s \notin readers /\ mem[req[s].id] # "live"
        BY <1>11 DEF Retouch, IInv, LockOK, HandlesOK
      <3> QED
        BY <1>11, <2>1, <3>1, <3>2, GoesKeeps DEF Retouch, IInv
    <2>2. CASE Returns(s) /\ mem' = Unspawned(s) /\ UNCHANGED queue
      <3>1. /\ req' \in [Slots -> Requests]
            /\ req'[s] = Idle
            /\ req'[s].op = "none" /\ req'[s].id = "none" /\ req'[s].at = "idle"
            /\ \A t \in Slots \ {s} : req'[t] = req[t]
            /\ readers' = readers \ {s}
            /\ writer' = IF writer = s THEN Nobody ELSE writer
        BY <2>2, ReturnsDoes DEF Retouch, IInv, Types
      <3>2. QueueOK'
        BY <1>11, <2>2, <3>1, QueueKept DEF Retouch, Unspawned, MayWrite, IInv
      <3>3. Types' /\ RequestsOK' /\ LockOK'
        BY <1>11, <2>2, <3>1 DEF Retouch, Unspawned, MayWrite, MayRead, IInv, Types, RequestsOK, Allowed, Idle, LockOK
      <3>4. SessionsOK'
        BY <1>11, <2>2, <3>1 DEF Retouch, Unspawned, IInv, SessionsOK, Types, RequestsOK, Allowed, Idle, LockOK, CreatesOK,
           HandlesOK, ClosedOK, RowsOK, DownOK
      <3> QED
        BY <3>2, <3>3, <3>4 DEF IInv, SessionsOK
    <2> QED
      BY <1>11, <2>1, <2>2 DEF Retouch
  <1>12. ASSUME NEW s \in Slots, Reget(s)
        PROVE  IInv'
    <2>1. CASE mem[req[s].id] # "none"
      <3>1. Allowed(req'[s])
        BY <1>12, <2>1, GoesDoes DEF Reget, IInv, Types, RequestsOK, Allowed, Idle
      <3>2. mem[req[s].id] # "live"
        BY <1>12 DEF Reget, IInv, HandlesOK
      <3> QED
        BY <1>12, <2>1, <3>1, <3>2, GoesKeeps DEF Reget, MayRead
    <2>2. CASE mem[req[s].id] = "none"
      <3>1. /\ req' \in [Slots -> Requests]
            /\ req'[s] = Idle
            /\ req'[s].op = "none" /\ req'[s].id = "none" /\ req'[s].at = "idle"
            /\ \A t \in Slots \ {s} : req'[t] = req[t]
            /\ readers' = readers \ {s}
            /\ writer' = IF writer = s THEN Nobody ELSE writer
        BY <1>12, <2>2, ReturnsDoes DEF Reget, IInv, Types
      <3>2. QueueOK'
        BY <1>12, <2>2, <3>1, QueueKept DEF Reget, Unspawned, MayWrite, IInv
      <3>3. Types' /\ RequestsOK' /\ LockOK'
        BY <1>12, <2>2, <3>1 DEF Reget, Unspawned, MayWrite, MayRead, IInv, Types, RequestsOK, Allowed, Idle, LockOK
      <3>4. SessionsOK'
        BY <1>12, <2>2, <3>1 DEF Reget, Unspawned, IInv, SessionsOK, Types, RequestsOK, Allowed, Idle, LockOK, CreatesOK,
           HandlesOK, ClosedOK, RowsOK, DownOK
      <3> QED
        BY <3>2, <3>3, <3>4 DEF IInv, SessionsOK
    <2> QED
      BY <2>1, <2>2
  <1>13. ASSUME NEW s \in Slots, Reask(s)
        PROVE  IInv'
    <2>1. /\ req' \in [Slots -> Requests]
          /\ req'[s] = Idle
          /\ req'[s].op = "none" /\ req'[s].id = "none" /\ req'[s].at = "idle"
          /\ \A t \in Slots \ {s} : req'[t] = req[t]
          /\ readers' = readers \ {s}
          /\ writer' = IF writer = s THEN Nobody ELSE writer
      BY <1>13, ReturnsDoes DEF Reask, IInv, Types
    <2>2. QueueOK'
      BY <1>13, <2>1, QueueKept DEF Reask, Unspawned, MayWrite, IInv
    <2>3. Types' /\ RequestsOK' /\ LockOK'
      BY <1>13, <2>1 DEF Reask, Unspawned, MayWrite, MayRead, IInv, Types, RequestsOK, Allowed, Idle, LockOK
    <2>4. SessionsOK'
      BY <1>13, <2>1 DEF Reask, Unspawned, IInv, SessionsOK, Types, RequestsOK, Allowed, Idle, LockOK, CreatesOK,
         HandlesOK, ClosedOK, RowsOK, DownOK
    <2> QED
      BY <2>2, <2>3, <2>4 DEF IInv, SessionsOK
  <1>14. ASSUME NEW s \in Slots, Remove(s)
        PROVE  IInv'
    <2> DEFINE to == IF mem[req[s].id] = "none" THEN "delete"
                     ELSE IF mem[req[s].id] = "dead" THEN "closing_dead" ELSE "closing"
    <2>0. to \in Writing
      OBVIOUS
    <2>g. Goes(s, to)
      BY <1>14 DEF Remove
    <2> HIDE DEF to
    <2>1. /\ req' \in [Slots -> Requests]
          /\ req'[s].op = req[s].op /\ req'[s].id = req[s].id /\ req'[s].at = to
          /\ \A t \in Slots \ {s} : req'[t] = req[t]
      BY <2>0, <2>g, GoesDoes DEF Remove, IInv, Types
    <2>2. QueueOK'
      BY <1>14, <2>0, <2>1, QueueKept DEF Remove, MayWrite, IInv
    <2>3. Types' /\ RequestsOK' /\ LockOK'
      BY <1>14, <2>0, <2>1 DEF Remove, MayWrite, MayRead, IInv, Types, RequestsOK, Allowed, Idle, LockOK
    <2>4. SessionsOK'
      BY <1>14, <2>0, <2>1 DEF Remove, IInv, SessionsOK, Types, RequestsOK, Allowed, Idle, LockOK, CreatesOK,
         HandlesOK, ClosedOK, RowsOK, DownOK
    <2> QED
      BY <2>2, <2>3, <2>4 DEF IInv, SessionsOK
  <1>15. ASSUME NEW s \in Slots, CloseHandle(s)
        PROVE  IInv'
    <2>0. req[s].op = "close"
      BY <1>15 DEF CloseHandle, IInv, RequestsOK, Allowed, Idle
    <2>1. CASE Returns(s) /\ broken' = broken \cup {req[s].id}
      <3>1. /\ req' \in [Slots -> Requests]
            /\ req'[s] = Idle
            /\ req'[s].op = "none" /\ req'[s].id = "none" /\ req'[s].at = "idle"
            /\ \A t \in Slots \ {s} : req'[t] = req[t]
            /\ readers' = readers \ {s}
            /\ writer' = IF writer = s THEN Nobody ELSE writer
        BY <2>1, ReturnsDoes DEF CloseHandle, IInv, Types
      <3>2. QueueOK'
        BY <1>15, <2>1, <2>0, <3>1, QueueKept DEF CloseHandle, MayWrite, IInv
      <3>3. Types' /\ RequestsOK' /\ LockOK'
        BY <1>15, <2>1, <2>0, <3>1 DEF CloseHandle, MayWrite, MayRead, IInv, Types, RequestsOK, Allowed, Idle, LockOK
      <3>4. SessionsOK'
        BY <1>15, <2>1, <2>0, <3>1 DEF CloseHandle, IInv, SessionsOK, Types, RequestsOK, Allowed, Idle, LockOK, CreatesOK,
           HandlesOK, ClosedOK, RowsOK, DownOK
      <3> QED
        BY <3>2, <3>3, <3>4 DEF IInv, SessionsOK
    <2>2. CASE /\ req[s].at = "closing" /\ Goes(s, "delete")
               /\ UNCHANGED <<readers, writer, broken>>
      <3>1. /\ req' \in [Slots -> Requests]
            /\ req'[s].op = req[s].op /\ req'[s].id = req[s].id /\ req'[s].at = "delete"
            /\ \A t \in Slots \ {s} : req'[t] = req[t]
        BY <2>2, GoesDoes DEF CloseHandle, IInv, Types
      <3>2. QueueOK'
        BY <1>15, <2>2, <2>0, <3>1, QueueKept DEF CloseHandle, MayWrite, IInv
      <3>3. Types' /\ RequestsOK' /\ LockOK'
        BY <1>15, <2>2, <2>0, <3>1 DEF CloseHandle, MayWrite, MayRead, IInv, Types, RequestsOK, Allowed, Idle, LockOK
      <3>4. SessionsOK'
        BY <1>15, <2>2, <2>0, <3>1 DEF CloseHandle, IInv, SessionsOK, Types, RequestsOK, Allowed, Idle, LockOK, CreatesOK,
           HandlesOK, ClosedOK, RowsOK, DownOK
      <3> QED
        BY <3>2, <3>3, <3>4 DEF IInv, SessionsOK
    <2> QED
      BY <1>15, <2>1, <2>2 DEF CloseHandle
  <1>16. ASSUME NEW s \in Slots, Delete(s)
        PROVE  IInv'
    <2>1. /\ req' \in [Slots -> Requests]
          /\ req'[s] = Idle
          /\ req'[s].op = "none" /\ req'[s].id = "none" /\ req'[s].at = "idle"
          /\ \A t \in Slots \ {s} : req'[t] = req[t]
          /\ readers' = readers \ {s}
          /\ writer' = IF writer = s THEN Nobody ELSE writer
      BY <1>16, ReturnsDoes DEF Delete, IInv, Types
    <2>2. QueueOK'
      BY <1>16, <2>1, QueueKept DEF Delete, MayWrite, IInv
    <2>3. Types' /\ RequestsOK' /\ LockOK'
      BY <1>16, <2>1 DEF Delete, MayWrite, MayRead, IInv, Types, RequestsOK, Allowed, Idle, LockOK
    <2>4. SessionsOK'
      BY <1>16, <2>1 DEF Delete, IInv, SessionsOK, Types, RequestsOK, Allowed, Idle, LockOK, CreatesOK,
         HandlesOK, ClosedOK, RowsOK, DownOK
    <2> QED
      BY <2>2, <2>3, <2>4 DEF IInv, SessionsOK
  <1>17. ASSUME NEW s \in Slots, NEW id \in Ids, NEW op \in Methods, Begin(s, op, id)
        PROVE  IInv'
    <2>1. /\ req' \in [Slots -> Requests]
          /\ req'[s].op = op /\ req'[s].id = id /\ req'[s].at = (IF op = "close" THEN "remove" ELSE "get")
          /\ \A t \in Slots \ {s} : req'[t] = req[t]
          /\ req[s].op = "none" /\ req[s].at = "idle"
      BY <1>17 DEF Begin, IInv, Types, Requests, Idle
    <2>2. QueueOK'
      BY <1>17, <2>1, QueueKept DEF Begin, MayWrite, IInv
    <2>3. Types' /\ RequestsOK' /\ LockOK'
      BY <1>17, <2>1 DEF Begin, MayWrite, MayRead, IInv, Types, RequestsOK, Allowed, Idle, LockOK
    <2>4. SessionsOK'
      BY <1>17, <2>1 DEF Begin, IInv, SessionsOK, Types, RequestsOK, Allowed, Idle, LockOK, CreatesOK,
         HandlesOK, ClosedOK, RowsOK, DownOK
    <2> QED
      BY <2>2, <2>3, <2>4 DEF IInv, SessionsOK
  <1>18. ASSUME NEW s \in Slots, NEW id \in Ids, BeginCreate(s, id)
        PROVE  IInv'
    <2>1. /\ req' \in [Slots -> Requests]
          /\ req'[s].op = "create" /\ req'[s].id = id /\ req'[s].at = "persist"
          /\ \A t \in Slots \ {s} : req'[t] = req[t]
          /\ req[s].op = "none" /\ req[s].at = "idle"
      BY <1>18 DEF BeginCreate, IInv, Types, Requests, Idle
    <2>2. QueueOK'
      BY <1>18, <2>1, QueueKept DEF BeginCreate, Busy, MayWrite, IInv
    <2>3. Types' /\ RequestsOK' /\ LockOK'
      BY <1>18, <2>1 DEF BeginCreate, Busy, MayWrite, MayRead, IInv, Types, RequestsOK, Allowed, Idle, LockOK
    <2>4. SessionsOK'
      BY <1>18, <2>1 DEF BeginCreate, Busy, IInv, SessionsOK, Types, RequestsOK, Allowed, Idle, LockOK, CreatesOK,
         HandlesOK, ClosedOK, RowsOK, DownOK
    <2> QED
      BY <2>2, <2>3, <2>4 DEF IInv, SessionsOK
  <1>19. ASSUME NEW id \in Ids, WorkerEnds(id)
        PROVE  IInv'
    BY <1>19 DEF WorkerEnds, IInv, Types, RequestsOK, QueueOK, LockOK, CreatesOK, HandlesOK, ClosedOK,
       RowsOK, DownOK
  <1>20. CASE Crash
    <2>1. req' \in [Slots -> Requests] /\ \A s \in Slots : req'[s] = Idle
      BY <1>20 DEF Crash, Requests, Idle
    <2>2. QueueOK'
      BY <1>20, EmptySeq DEF Crash, QueueOK
    <2>3. Types' /\ RequestsOK' /\ LockOK'
      BY <1>20, <2>1 DEF Crash, IInv, Types, RequestsOK, LockOK, Idle
    <2>4. SessionsOK'
      BY <1>20, <2>1 DEF Crash, IInv, SessionsOK, Types, Idle, CreatesOK, HandlesOK, ClosedOK, RowsOK, DownOK
    <2> QED
      BY <2>2, <2>3, <2>4 DEF IInv, SessionsOK
  <1>21. CASE Start
    BY <1>21, StartsArePositive DEF Start, IInv, Types, RequestsOK, QueueOK, LockOK, CreatesOK, HandlesOK,
       ClosedOK, RowsOK, DownOK, Idle
  <1>22. ASSUME NEW s \in Slots, Dropped(s)
         PROVE  IInv'
    <2>1. /\ req' \in [Slots -> Requests]
          /\ req'[s] = Idle
          /\ req'[s].op = "none" /\ req'[s].id = "none" /\ req'[s].at = "idle"
          /\ \A t \in Slots \ {s} : req'[t] = req[t]
          /\ readers' = readers \ {s}
          /\ writer' = IF writer = s THEN Nobody ELSE writer
      BY <1>22, ReturnsDoes DEF Dropped, IInv, Types
    <2>2. QueueOK'
      BY <1>22, <2>1, QueueLeft DEF Dropped, IInv
    <2>3. req[s].id \in Ids /\ Allowed(req[s])
      BY <1>22 DEF Dropped, IInv, RequestsOK, Allowed
    <2>4. Types' /\ RequestsOK' /\ LockOK'
      BY <1>22, <2>1, <2>3 DEF Dropped, Unspawned, IInv, Types, RequestsOK, Allowed, Idle, LockOK
    <2>5. SessionsOK'
      BY <1>22, <2>1, <2>3 DEF Dropped, Unspawned, IInv, SessionsOK, Types, RequestsOK, Allowed, Idle, LockOK,
         CreatesOK, HandlesOK, ClosedOK, RowsOK, DownOK
    <2> QED
      BY <2>2, <2>4, <2>5 DEF IInv, SessionsOK
  <1>23. CASE UNCHANGED vars
    BY <1>23 DEF vars, IInv, Types, RequestsOK, QueueOK, LockOK, CreatesOK, HandlesOK, ClosedOK,
       RowsOK, DownOK, Allowed
  <1> QED
    BY <1>1, <1>2, <1>3, <1>4, <1>5, <1>6, <1>7, <1>8, <1>9, <1>10, <1>11, <1>12, <1>13, <1>14, <1>15,
       <1>16, <1>17, <1>18, <1>19, <1>20, <1>21, <1>22, <1>23 DEF Next, Steps

\* The invariant holds always.
LEMMA InvariantHolds == Spec => []IInv
  BY InitIInv, NextIInv, PTL DEF Spec

\* Nobody is in the queue twice, so it is no longer than the requests are many.
LEMMA QueueBounded == ASSUME QueueOK PROVE Len(queue) \in Nat /\ Len(queue) <= Cardinality(Slots)
  <1>1. Len(queue) \in Nat /\ queue \in [1..Len(queue) -> Slots]
    BY LenProperties DEF QueueOK
  <1>2. queue \in Injection(1..Len(queue), Slots)
    BY <1>1 DEF QueueOK, Injection, IsInjective
  <1>3. Cardinality(1..Len(queue)) <= Cardinality(Slots)
    BY <1>2, SlotsFinite, FS_Injection
  <1>4. Cardinality(1..Len(queue)) = Len(queue)
    BY <1>1, FS_Interval, SMTT(40)
  <1> QED
    BY <1>1, <1>3, <1>4

\* create_session writes the row before the handle and close_session removes
\* the handle before the row, and no other request on the session comes
\* between: at every moment a session whose worker runs has its row.
THEOREM RunningHasItsRow == Spec => []LiveHasRow
  <1>1. IInv => LiveHasRow
    BY QueueBounded DEF IInv, Types, QueueOK, LockOK, HandlesOK, LiveHasRow, TypeOK
  <1> QED
    BY <1>1, InvariantHolds, PTL

\* A session that close_session said is closed never has a row again, nor a
\* worker of its own, whatever a resume that was already on its way does.
THEOREM ClosedStaysGone == Spec => []ClosedIsGone
  <1>1. IInv => ClosedIsGone
    BY DEF IInv, ClosedOK, ClosedIsGone
  <1> QED
    BY <1>1, InvariantHolds, PTL

\* A row no request is at work on and no handle stands for was left by a crash,
\* by a close that returned its error, or by a create or a close whose request
\* was dropped between the row and the handle.
THEOREM OrphansAreExplained == Spec => []OrphanHasCause
  <1>1. IInv => OrphanHasCause
    BY DEF IInv, RowsOK, OrphanHasCause, Busy
  <1> QED
    BY <1>1, InvariantHolds, PTL
=============================================================================
