---------------------------- MODULE McpSessions ----------------------------
(***************************************************************************)
(* The SQLite session manager (src/mcp/session.rs): a session is a handle  *)
(* in memory, under a read-write lock, and a row in the database.  Requests *)
(* run at once and wait for the lock, for the database, whose every        *)
(* statement may fail, and for the session's worker, some with the lock in *)
(* hand.  A request is dropped at any of these waits if its client goes    *)
(* away.  The process may die between any two steps; rows outlive it.      *)
(*                                                                         *)
(* rmcp calls the manager, with any identifier it was given before.  A     *)
(* worker answers while it runs; one whose transport is dropped, or that   *)
(* was never spawned, is dead.                                             *)
(***************************************************************************)
EXTENDS Naturals, Sequences, FiniteSets

CONSTANTS
    Ids,            \* bound: sessions ever created
    Slots,          \* bound: requests at once
    MaxStarts       \* bound: starts of the process

ASSUME StartsArePositive == MaxStarts \in Nat \ {0}
ASSUME SlotsFinite == IsFiniteSet(Slots)
\* An idle request has no session.  A handle is "none", "live", "dead" or the request that
\* recreated its worker; the lock's writer is a request or nobody.
ASSUME IdsAreNames == "none" \notin Ids
ASSUME SlotsAreNames == Slots \cap {"none", "live", "dead", "nobody"} = {}

VARIABLES
    up, starts,     \* the process
    mem,            \* sessions: the handle of each identifier
    rows,           \* mcp_sessions: the identifiers that have a row
    req,            \* a request: its method, its session, where it is
    queue,          \* who waits for the lock, in turn
    readers, writer,\* who has it
    known,          \* identifiers create_session has returned
    closed,         \* history: close_session returned Ok
    broken          \* history: sessions a crash, a failed close or a request
                    \* dropped half-way has left

vars == <<up, starts, mem, rows, req, queue, readers, writer, known, closed, broken>>

lockVars == <<queue, readers, writer>>
history == <<known, closed, broken>>
world == <<up, starts>>

Nobody == "nobody"
Idle == [op |-> "none", id |-> "none", at |-> "idle"]
Methods == {"initialize", "has", "close", "stream", "resume"}
Busy(id) == \E s \in Slots : req[s].id = id

Init ==
    /\ up = TRUE /\ starts = 1
    /\ mem = [id \in Ids |-> "none"] /\ rows = {}
    /\ req = [s \in Slots |-> Idle]
    /\ queue = <<>> /\ readers = {} /\ writer = Nobody
    /\ known = {} /\ closed = {} /\ broken = {}

(***************************************************************************)
(* tokio's lock: in turn.  A request joins the queue, and goes on when it  *)
(* is first and the lock is free for it.                                   *)
(***************************************************************************)
MayRead(s) == queue # <<>> /\ Head(queue) = s /\ writer = Nobody
MayWrite(s) == MayRead(s) /\ readers = {}
At(s, op, at) == up /\ req[s].op \in op /\ req[s].at = at
Goes(s, at) == req' = [req EXCEPT ![s].at = at]

\* What a worker whose request is over leaves: a dead handle.
Unspawned(s) == [id \in Ids |-> IF mem[id] = s THEN "dead" ELSE mem[id]]
\* The request returns, and gives back what it has of the lock; the transport
\* a resume has is dropped with it.
Returns(s) ==
    /\ req' = [req EXCEPT ![s] = Idle]
    /\ readers' = readers \ {s}
    /\ writer' = IF writer = s THEN Nobody ELSE writer
-----------------------------------------------------------------------------
(***************************************************************************)
(* A request comes.                                                        *)
(***************************************************************************)
Begin(s, op, id) ==
    /\ up /\ req[s] = Idle /\ id \in known
    /\ req' = [req EXCEPT ![s] = [op |-> op, id |-> id, at |-> IF op = "close" THEN "remove" ELSE "get"]]
    /\ queue' = Append(queue, s)
    /\ UNCHANGED <<world, mem, rows, readers, writer, known, closed, broken>>

BeginCreate(s, id) ==
    /\ up /\ req[s] = Idle
    /\ id \notin known \cup rows /\ ~Busy(id) /\ id \notin broken
    /\ req' = [req EXCEPT ![s] = [op |-> "create", id |-> id, at |-> "persist"]]
    /\ UNCHANGED <<world, mem, rows, lockVars, history>>
-----------------------------------------------------------------------------
(***************************************************************************)
(* create_session: the row first, then the handle, then the worker.        *)
(***************************************************************************)

\* Mutant of Persist: the session goes on without its row.
PersistBestEffort(s) ==
    /\ At(s, {"create"}, "persist")
    /\ rows' \in {rows, rows \cup {req[s].id}}
    /\ Goes(s, "insert") /\ queue' = Append(queue, s)
    /\ UNCHANGED <<world, mem, readers, writer, history>>

Persist(s) ==
    /\ At(s, {"create"}, "persist")
    /\ \/ /\ rows' = rows \cup {req[s].id}
          /\ Goes(s, "insert") /\ queue' = Append(queue, s)
          /\ UNCHANGED <<readers, writer>>
       \/ Returns(s) /\ UNCHANGED <<rows, queue>>
    /\ UNCHANGED <<world, mem, history>>

Insert(s) ==
    /\ At(s, {"create"}, "insert") /\ MayWrite(s)
    /\ mem' = [mem EXCEPT ![req[s].id] = "live"]
    /\ known' = known \cup {req[s].id}
    /\ queue' = Tail(queue) /\ Returns(s)
    /\ UNCHANGED <<world, rows, closed, broken>>
-----------------------------------------------------------------------------
(***************************************************************************)
(* The lookup every other method but close begins with, under the read     *)
(* lock.  has_session lets go of it at once; so does a method that finds   *)
(* nothing.                                                                *)
(***************************************************************************)

\* has_session answers true.
HasYes(s) ==
    /\ At(s, {"has"}, "get") /\ MayRead(s) /\ mem[req[s].id] # "none"
    /\ queue' = Tail(queue) /\ Returns(s)
    /\ UNCHANGED <<world, mem, rows, history>>

Found(s) ==
    /\ At(s, {"initialize", "stream", "resume"}, "get") /\ MayRead(s) /\ mem[req[s].id] # "none"
    /\ queue' = Tail(queue) /\ readers' = readers \cup {s}
    /\ Goes(s, "ask")
    /\ UNCHANGED <<world, mem, rows, writer, history>>

NotFound(s) ==
    /\ At(s, {"initialize", "has", "stream", "resume"}, "get") /\ MayRead(s) /\ mem[req[s].id] = "none"
    /\ queue' = Tail(queue)
    /\ IF req[s].op = "stream" THEN Returns(s) ELSE Goes(s, "check") /\ UNCHANGED <<readers, writer>>
    /\ UNCHANGED <<world, mem, rows, history>>

\* The worker of the handle answers, well or with an error; initialize and an
\* error end the request, the others touch the row, with the lock in hand.
Ask(s) ==
    LET handle == mem[req[s].id] IN
    /\ At(s, {"initialize", "stream", "resume"}, "ask")
    /\ handle \in Slots => req[handle].at # "retouch"
    /\ \/ Returns(s)
       \/ /\ handle # "dead" /\ req[s].op # "initialize"
          /\ Goes(s, "touch") /\ UNCHANGED <<readers, writer>>
    /\ UNCHANGED <<world, mem, rows, queue, history>>

\* touch_session, best effort: an UPDATE, of no row when there is none.
Touch(s) ==
    /\ At(s, {"stream", "resume"}, "touch")
    /\ Returns(s)
    /\ UNCHANGED <<world, mem, rows, queue, history>>
-----------------------------------------------------------------------------
(***************************************************************************)
(* Not in memory: what the database knows.                                 *)
(***************************************************************************)

\* session_exists_in_db: an error, no row, or a row.  For initialize each of
\* them is an error.
Check(s) ==
    /\ At(s, {"initialize", "has", "resume"}, "check")
    /\ \/ Returns(s) /\ UNCHANGED queue
       \/ /\ req[s].id \in rows /\ req[s].op = "has"
          /\ Goes(s, "forget") /\ UNCHANGED lockVars
       \/ /\ req[s].id \in rows /\ req[s].op = "resume"
          /\ Goes(s, "recreate") /\ queue' = Append(queue, s)
          /\ UNCHANGED <<readers, writer>>
    /\ UNCHANGED <<world, mem, rows, history>>

\* has_session removes the stale row, if it can, and answers false.
Forget(s) ==
    /\ At(s, {"has"}, "forget")
    /\ rows' \in {rows, rows \ {req[s].id}}
    /\ Returns(s)
    /\ UNCHANGED <<world, mem, queue, history>>

\* Mutant of Recreate: the lock is kept over the touch and the spawn.
RecreateKeeps(s) ==
    /\ At(s, {"resume"}, "recreate") /\ MayWrite(s)
    /\ mem' = [mem EXCEPT ![req[s].id] = s]
    /\ queue' = Tail(queue)
    /\ writer' = s
    /\ Goes(s, "retouch")
    /\ UNCHANGED <<world, rows, readers, history>>

\* recreate_session: a handle with no worker yet, ...
Recreate(s) ==
    /\ At(s, {"resume"}, "recreate") /\ MayWrite(s)
    /\ mem' = [mem EXCEPT ![req[s].id] = s]
    /\ queue' = Tail(queue)
    /\ Goes(s, "retouch")
    /\ UNCHANGED <<world, rows, readers, writer, history>>

\* Mutant of Retouch: the touch writes the row if it is not there.
RetouchUpserts(s) ==
    /\ At(s, {"resume"}, "retouch")
    /\ rows' = rows \cup {req[s].id}
    /\ Goes(s, "reget") /\ queue' = Append(queue, s)
    /\ UNCHANGED <<world, mem, readers, writer, history>>

\* ... its touch, whose failure ends the resume, then the spawn.
Retouch(s) ==
    /\ At(s, {"resume"}, "retouch")
    /\ \/ /\ Goes(s, "reget") /\ queue' = Append(queue, s)
          /\ UNCHANGED <<mem, readers, writer>>
       \/ /\ Returns(s) /\ mem' = Unspawned(s)
          /\ UNCHANGED queue
    /\ UNCHANGED <<world, rows, history>>

\* The handle again, if it is still there, and its answer.
Reget(s) ==
    /\ At(s, {"resume"}, "reget") /\ MayRead(s)
    /\ queue' = Tail(queue)
    /\ IF mem[req[s].id] = "none"
         THEN Returns(s) /\ mem' = Unspawned(s)
         ELSE Goes(s, "reask") /\ readers' = readers \cup {s} /\ UNCHANGED <<writer, mem>>
    /\ UNCHANGED <<world, rows, history>>

Reask(s) ==
    LET handle == mem[req[s].id] IN
    /\ At(s, {"resume"}, "reask")
    /\ handle \in Slots => req[handle].at # "retouch"
    /\ Returns(s) /\ mem' = Unspawned(s)
    /\ UNCHANGED <<world, rows, queue, history>>
-----------------------------------------------------------------------------
(***************************************************************************)
(* close_session, with the write lock to its end.                          *)
(***************************************************************************)
Remove(s) ==
    /\ At(s, {"close"}, "remove") /\ MayWrite(s)
    /\ queue' = Tail(queue) /\ writer' = s
    /\ Goes(s, IF mem[req[s].id] = "none" THEN "delete"
               ELSE IF mem[req[s].id] = "dead" THEN "closing_dead" ELSE "closing")
    /\ mem' = [mem EXCEPT ![req[s].id] = "none"]
    /\ UNCHANGED <<world, rows, readers, history>>

\* Mutant of CloseHandle: the row is removed only where there was no handle.
CloseHandleOnly(s) ==
    /\ req[s].at \in {"closing", "closing_dead"} /\ up
    /\ Returns(s)
    /\ broken' = IF req[s].at = "closing" THEN broken ELSE broken \cup {req[s].id}
    /\ UNCHANGED <<world, mem, rows, queue, known, closed>>

\* handle.close(): an error returns before the row is removed.
CloseHandle(s) ==
    /\ req[s].at \in {"closing", "closing_dead"} /\ up
    /\ \/ /\ Returns(s) /\ broken' = broken \cup {req[s].id}
       \/ /\ req[s].at = "closing"
          /\ Goes(s, "delete") /\ UNCHANGED <<readers, writer, broken>>
    /\ UNCHANGED <<world, mem, rows, queue, known, closed>>

Delete(s) ==
    /\ At(s, {"close"}, "delete")
    /\ \/ /\ rows' = rows \ {req[s].id}
          /\ closed' = closed \cup {req[s].id} /\ UNCHANGED broken
       \/ /\ broken' = broken \cup {req[s].id} /\ UNCHANGED <<rows, closed>>
    /\ Returns(s)
    /\ UNCHANGED <<world, mem, queue, known>>
-----------------------------------------------------------------------------
(***************************************************************************)
(* The client goes away, and the request's future is dropped where it      *)
(* waits: what it has of the lock, its place in the queue and a transport  *)
(* of its own go with it; a statement the database has in hand may take    *)
(* effect or not.  A create that has its row and no handle yet, and a close*)
(* that has taken the handle and not removed the row, leave the row.       *)
(***************************************************************************)
LeavesQueue(s) ==
    \/ \E k \in DOMAIN queue :
          /\ queue[k] = s
          /\ queue' = [j \in 1..(Len(queue) - 1) |-> queue[IF j < k THEN j ELSE j + 1]]
    \/ (\A k \in DOMAIN queue : queue[k] # s) /\ UNCHANGED queue

Dropped(s) ==
    LET id == req[s].id
        at == req[s].at IN
    /\ up /\ req[s] # Idle
    /\ Returns(s) /\ LeavesQueue(s) /\ mem' = Unspawned(s)
    /\ rows' \in {rows} \cup (IF at = "persist" THEN {rows \cup {id}} ELSE {})
                     \cup (IF at \in {"forget", "delete"} THEN {rows \ {id}} ELSE {})
    /\ broken' = IF at \in {"persist", "insert", "closing", "closing_dead", "delete"}
                 THEN broken \cup ({id} \cap rows') ELSE broken
    /\ UNCHANGED <<world, known, closed>>
-----------------------------------------------------------------------------
(***************************************************************************)
(* The world: a worker ends (rmcp then closes its session), the process    *)
(* dies and starts again.                                                  *)
(***************************************************************************)
WorkerEnds(id) ==
    /\ up /\ mem[id] = "live"
    /\ mem' = [mem EXCEPT ![id] = "dead"]
    /\ UNCHANGED <<world, rows, req, lockVars, known, closed, broken>>

Crash ==
    /\ up /\ starts < MaxStarts /\ up' = FALSE
    /\ mem' = [id \in Ids |-> "none"] /\ req' = [s \in Slots |-> Idle]
    /\ queue' = <<>> /\ readers' = {} /\ writer' = Nobody
    /\ broken' = broken \cup rows
    /\ UNCHANGED <<starts, rows, known, closed>>

\* SqliteSessionManager::new: the migration, and the rows that are too old,
\* which any may be by then.  An error of the database refuses the start,
\* which is tried again.
Start ==
    /\ ~up /\ up' = TRUE /\ starts' = starts + 1
    /\ rows' \in SUBSET rows
    /\ UNCHANGED <<mem, req, lockVars, history>>

Steps(s) ==
    \/ Persist(s) \/ Insert(s) \/ HasYes(s) \/ Found(s) \/ NotFound(s) \/ Ask(s) \/ Touch(s)
    \/ Check(s) \/ Forget(s) \/ Recreate(s) \/ Retouch(s) \/ Reget(s) \/ Reask(s)
    \/ Remove(s) \/ CloseHandle(s) \/ Delete(s)

Next ==
    \/ \E s \in Slots :
         \/ \E id \in Ids : BeginCreate(s, id) \/ \E op \in Methods : Begin(s, op, id)
         \/ Steps(s) \/ Dropped(s)
    \/ \E id \in Ids : WorkerEnds(id)
    \/ Crash \/ Start

\* Requests go on: the lock comes in turn, the database answers or fails, and
\* so does a worker.
Spec == Init /\ [][Next]_vars /\ \A s \in Slots : WF_vars(Steps(s))
-----------------------------------------------------------------------------
(***************************************************************************)
(* Properties.                                                             *)
(***************************************************************************)
Handle == {"none", "live", "dead"} \cup Slots

\* The types, and the lock: one writer, or readers, or neither.
TypeOK ==
    /\ up \in BOOLEAN /\ starts \in 1..MaxStarts
    /\ mem \in [Ids -> Handle] /\ rows \subseteq Ids
    /\ queue \in Seq(Slots) /\ Len(queue) <= Cardinality(Slots)
    /\ readers \subseteq Slots /\ writer \in Slots \cup {Nobody}
    /\ known \subseteq Ids /\ closed \subseteq Ids /\ broken \subseteq Ids
    /\ writer # Nobody => readers = {}

\* A session whose worker create_session spawned and runs has its row, at every
\* moment and whatever other requests on it do, so that a restart finds every
\* session a client could be using (create_session: the row before the handle;
\* close_session: the handle before the row).  A worker that a resume has
\* recreated has no such promise: a close may race with it and remove the row.
\* The types are right with it.
LiveHasRow ==
    TypeOK /\ \A id \in Ids : mem[id] = "live" => id \in rows

\* What close_session said is closed has no row and no running worker of its
\* own again, though a resume that found the row before may still recreate
\* its handle and touch it.
ClosedIsGone ==
    \A id \in closed : id \notin rows /\ mem[id] # "live"

\* A row with no handle and no request at work on it was left by a crash, by a
\* close that failed (close_session returns at a handle's error, before the row
\* is removed), or by a create or a close whose request was dropped between the
\* row and the handle; no other order of requests leaves one.
OrphanHasCause ==
    \A id \in Ids : up /\ id \in rows /\ mem[id] = "none" /\ ~Busy(id) => id \in broken

\* Every request returns, unless the process dies: the methods that wait for a
\* worker with the lock in hand never wait for one that waits for the lock
\* (resume: the recreated worker is spawned before the lock is asked again).
RequestsReturn ==
    \A s \in Slots : (req[s] # Idle) ~> (req[s] = Idle)
=============================================================================
