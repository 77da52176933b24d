# A verification project for plexus-transport

TLA+ models of the parts of plexus-transport that carry its own logic, TLC
configurations that check them on small instances, and TLAPS proofs of what
can be proved for every instance. Everything is translated from the source
under `src/`; where the source and its comments disagree, the models follow
the source and the disagreement is a finding (below).

## The system

plexus-transport serves an *activation* (a tree of RPC methods, from
plexus-core) over several transports at once.

| Component | Source | State it keeps | Operations |
|---|---|---|---|
| call places | `calls.rs` | an atomic count shared by the clones of a connection | take a place (load, compare-exchange), drop it |
| message guard | `ws/guard.rs` | buffer, released and held fragments, where it is in the stream, dropped count | `poll_read`: decide at a header, pass, hold, skip, refuse |
| socket loop | `ws/conn.rs`, `ws/mod.rs` | own answers, three queues, a fenced first frame, acceptances, timers, wakers | `poll_run`: read, accept, write by turns, flush, end |
| connections, quotas, stop | `websocket.rs`, `ws/http.rs`, `ws/stop.rs` | pending places, quotas, the semaphore, sign-in watches, the stop watch | accept, request, validate, admit, upgrade, run, close, stop |
| liveness timers | `ws/conn.rs`, `ws/mod.rs` | `last_in`, `last_busy`, two intervals | tick, ping, close as silent or idle |
| upgrade checks | `websocket.rs`, `host.rs`, `protected_resource.rs` | none | host, routes, metadata, origin, key, session, anonymous view |
| forwarded clients | `proxy.rs`, `request/` | the port's trusted proxies, and the process's | walk the forwarded addresses |
| registration | `registry.rs`, `server.rs` | a flag, a spawned task, the registry's entry | register with retries, deregister |
| stdio | `stdio.rs` | one queue, stream tasks, one writer | read a line, call, queue, write, drain |
| TLS | `tls.rs` | the loaded pair, what failed to load, secure peers, a channel to axum | reload on change, handshake, hand over |
| MCP sessions | `mcp/session.rs` | handles in memory, rows in SQLite | create, resume, close, clean up |
| MCP bridge, REST gateway | `mcp/`, `http/` | none past a request | check the caller, route, collect a stream into an answer |
| combined port, extractors, builder | `combined.rs`, `request/`, `config.rs`, `server.rs` | configuration | routing, reading headers, refusing a configuration |

How they interact. The accept loop takes a socket and gives it to `serve_http`;
a request that asks for an upgrade goes through the checks, the validator and
the quotas, and `Upgrade::upgrade` spawns the socket's task. That task runs the
loop, which reads through the guard and tungstenite, dispatches to the method
table, and writes what the table, the subscriptions and the host put on three
queues. Each call takes a place in the connection's count and holds a clone of
the request's extensions, and with them the socket's place in the quotas. The
server's stop is a watch that the accept loop and every connection hold.
`TransportServer::serve` starts the transports, announces the process to the
registry from a task of its own, and takes the announcement back when it ends.
Beside the socket, REST and MCP bridges take the same calls over HTTP, on ports
of their own or on the combined one: each checks its key and its caller, routes
the call to the activation, and makes one answer of the stream that comes back.
MCP sessions live in memory and in SQLite; TLS ports present a certificate they
read again when its file changes.

What is hard in it: several threads take and give back the same places; a
socket's end releases different things at different moments, and calls outlive
it; answer and frames of one subscription travel by different queues; a
hand-written `Future` must leave a waker wherever its work will come from; the
guard must agree with tungstenite about every byte however the stream is cut;
the registry may take a request its sender has given up on; the writer, the
reader and the client of stdio can all wait for one another; timers read clocks
that move only while the loop reads; a session's two records are changed one
after the other, with a lock that is held over an await; a certificate and its
key are two files; who a client is comes from headers anyone may write; and one
question, who may call, is asked at five doors in five ways. `PROJECT.json`
lists each of these at its line, under `hazards`.

What makes each part correct:

- *call places*: the count is the places held and never past the maximum, and
  the compare-exchange loop is indistinguishable from one atomic step;
- *guard*: tungstenite sees whole frames, in order, of every message within the
  cap and of no other; each message past the cap is counted once; the payload
  it holds stays within the cap;
- *loop*: an answer before its frames, every message answered exactly once, no
  lost wake, the queues by turns but for what the table gives ahead of a first
  frame;
- *connections*: every count is the places held at every moment, the sockets
  keep within the quotas, a sign-out and a stop always take effect;
- *registration*: the flag says what the registry has, and the registry never
  holds up the server's end;
- *stdio*: lines go out whole, in order and to the last, and the server ends;
- *timers*: nobody is closed early, nobody is kept, and the idle limit loses no
  answer that a peer who reads would get;
- *TLS*: a handshake presents the pair on disk, a peer is secure exactly while
  its stream exists, and every handshake ends;
- *MCP sessions*: what runs has its row, what was closed is gone, a row left
  alone has a cause that can be named, and requests return;
- *requests*: the client named is the one that connected, as long as the
  headers its proxies wrote can be read; a key, once configured, is needed at
  every door; a refused credential is never taken for none; an answer that says
  ok is whole.

## The modules

| Module | Models | State and actions against the code |
|---|---|---|
| `CallPlaces` | what a call count promises | one indivisible step takes a place or is refused |
| `ConnectionCalls` | `calls.rs` | `open` is the `AtomicUsize`; `TryOpen`, `Load`, `TooMany`, `ExchangeOk`, `ExchangeSeen` are the steps of `try_open_within`; `DropPlace` is `Held::drop` |
| `Guard` | `ws/guard.rs` | one action a branch of `decide` and a turn of `poll_read`'s loop; `state`, `msg`, `release`, `hold`, `ready`, `buf` are the fields |
| `ConnLoop` | `ws/conn.rs` | `pc` is the place in `poll_run`; each poll of a queue, of the socket, of the acceptances is a step; `armed` and `woken` are the wakers |
| `Sockets` | `websocket.rs`, `ws/http.rs`, `ws/stop.rs`, the ends of `ws/conn.rs` | `stage` is where a connection is; every lock, semaphore and watch that is taken is a step; a slot is used again |
| `Registration` | `registry.rs`, `serve` | `task` is `register_with_retry`, `main` is `serve`, `registered` the flag they share, `item` the item of the registry's stream that is awaited, each with a timeout of its own; the registry's entry and the requests on their way are external |
| `Stdio` | `stdio.rs` | `reader` is `serve_lines`, `writer` is `write_lines`, a task a stream |
| `SocketTimers` | the liveness rules of `ws/conn.rs` | `lastIn`, `lastBusy` are the loop's instants as ages; `Polls` and `Ends` are one `poll_run`, `Passes` is time |
| `Tls` | `tls.rs` | `current` and `failed` are `Reloading`'s, `holder` its two locks; the steps of `Reloading::current` one by one; `ready` the listener's channel, `secure` the secure peers |
| `McpSessions` | `mcp/session.rs` | `mem` and `rows` are the two records, `queue`, `readers`, `writer` tokio's fair lock; each method a sequence of steps, each statement may fail, and a request may be dropped at any await (`Dropped`); `broken` remembers what a crash, a failed close or a dropped request left behind |
| `Forwarded` | `proxy.rs`, `request/client_ip.rs`, `request/transport.rs` | `path` and `legs` are where the request really went, `xff` and `proto` what the headers say as `list` reads them, `noText` the headers whose line is no text, `lost` (history) those in which a proxy's entry went with its line; `Resolve`, `ClientOf`, `ClientIp`, `SecureTransport` read only the headers |
| `Gateways` | `websocket.rs` (the middleware), `host.rs`, `http/`, `mcp/bridge.rs`, `mcp/service_upstream.rs`, `combined.rs` | extends `Forwarded`; `stage` is the check a request is at; `CheckHost` to `Decide` are the checks in the code's order, `Lookup` to `Route` the REST handler, `CallTool` the MCP one, `Item` an item of the stream a bridge collects, `Pends` a poll that finds none: only then does `TimesOut` see the clock |
| `ConnectionProofs` | | theorems about the three machines inside one connection: `ConnectionCalls`, `SocketTimers`, `Guard` |
| `ConnLoopProofs`, `SocketsProofs`, `McpSessionsProofs`, `TlsProofs`, `RegistrationProofs`, `StdioProofs`, `GatewaysProofs` | | theorems about the module each is named after |
| `MCConnectionCalls`, `MCConnLoop`, `MCSockets` | | the constants of the runs |

Abstractions. A message, a frame or a line is its kind and its number: contents,
JSON and wording are left out. In `Guard` a header is one unit of the stream
(a part of a header is as good as none: `header` answers `None` and the guard
reads on), a payload byte is one unit, and the end of the stream is a peer that
sends no more. In `ConnLoop` a batch is a task that answers once; tokio's
cooperative budget is modelled, because the code depends on it (`try_recv`
where a first frame is fenced); the acceptances awaited are a set of message
numbers, since messages are numbered as they arrive and refusals are answered in
that order (`InArrivalOrder`); a liveness tick may end the socket at any time,
which covers every timing of the ping timeout and of the idle limit, and
`SocketTimers` has their rules; `passed` and `ahead` are histories, of the frames
that went while one waited and of those among them the table gave ahead of a
first frame. In `Sockets` the host, origin and key checks are
one request that changes nothing, and forwarded headers are a choice of any
address when the peer is a trusted proxy; `Gateways` and `Forwarded` have both
in full. In `SocketTimers` a moment is kept as its age, up to one past every
limit, and a poll is one step: a woken socket is polled before time goes on. In
`Tls` a file is its stamp and the pair it belongs to, a new file has a new
stamp, and cryptography is rustls's. In `McpSessions` an identifier is never
given out twice; `create_stream`, `create_standalone_stream` and
`accept_message` are one method, since they look up, ask and touch alike. In
`Gateways` one request is followed at a time: requests share nothing there but
the quotas, which are `Sockets`'. What a check reads is chosen at that check. A
data item is its size; the session validator, the routes and the streams may
answer anything. Addresses are model values with the three spellings
`parse_hop` tells apart, and a network is the set of its addresses. In
`Registration` what connect, `_info` and the call's stream can answer is: a
confirmation, a failure, or items that say neither. The definitions whose
comment begins with *Mutant* are variants of the one after them, with a
plausible slip; no specification uses them.

## What the runs check

| Run | Module, configuration | What it asks |
|---|---|---|
| `call_places` | `MCConnectionCalls` | four callers race for two places, with limits below and above the maximum: `OpenIsPlacesHeld`, `WithinMax`, and `PlacesSpec`, the refinement of `CallPlaces` |
| `guard` | `Guard`, `MCGuard.cfg` | every sequence of three frames, well formed or not, cut into reads in every way: `FramingKept`, `WholeOrNothing`, `AllAccounted`, and `HandedOn` (liveness). The reference for what a message is comes from RFC 6455, 5.4, and mentions none of the guard's state |
| `sockets` | `MCSockets.cfg` | two connections, also two upgrades in progress at once, at servers behind a proxy or reached directly, with and without a validator, short of places in all, of an address, of a principal or of the anonymous, and stopped at any moment: `PlacesExact`, `SocketsWithinQuotas`, and `StopEndsAll` and `SignOutCloses` (liveness) |
| `loop` | `MCConnLoop.cfg` | scripts of calls, subscriptions, own frames, drops, pings and a peer that blocks: `AnswerBeforeFrames`, `AnsweredOnce`, `NoLostWake`, `ByTurns`, and `OwesNothing` (liveness): unless the socket ends, every message is answered and every frame written |
| `timers` | `SocketTimers`, `MCSocketTimers.cfg` | every pair of limits set or not, a write budget or none, a peer that sends, blocks and falls silent at any moment: `NotEarly`, `NotLate`, `IdleKeepsAnswers` |
| `registration` | `MCRegistration.cfg` | two processes of one name, that fail, retry, stop, crash and restart, at a registry that may answer, be silent or talk on: `RegisteredIsListed`, `DeregisteredIsUnlisted`, `RegistryNeverHolds` |
| `stdio` | `MCStdio.cfg` | `OutInOrder`, `OkMeansAnswered`, `EndReturns` |
| `tls` | `Tls`, `MCTls.cfg` | two handshakes while the operator changes the two files twice: `ServesDisk`, `SecureIsOpen`, `HandshakeEnds` |
| `sessions` | `McpSessions`, `MCMcpSessions.cfg` | three requests at once on one session, failing statements, requests dropped at an await, ending workers, a crash and a restart: `LiveHasRow`, `ClosedIsGone`, `OrphanHasCause`, `RequestsReturn` |
| `requests` | `Gateways`, `MCGateways.cfg` | any headers, text or not, up to two proxies on the way, every configuration, credential and stream: `NamesWhoConnected`, `SecureIsAProxysWord`, `ExtractorsAgree`, `NoCallWithoutKey`, `RefusedIsNotAnonymous`, `OkIsWhole` |
| `own_sign_out`, `stdio_unread` | `MCSocketsSignOut.cfg`, `MCStdioUnread.cfg` | the findings below |

Each module has one type invariant, `TypeOK` (`GuardTypeOK` and `TimersTypeOK`
in the two modules that one proof module extends together), checked with one of the invariants
of its run (in `ConnectionCalls` by itself). Deadlock
is checked for `call_places` and `requests`: in every other model the peer may
fall silent, the server may be stopped or the loop may be over.

### Bounds, and why they are enough

- `ConnectionCalls`: four callers on two places give two exchanges that race
  for the last place while one more is refused and one is in between. The
  proofs remove the bound.
- `Guard`: a cap of one byte and lengths 0, 1 and 2 are under, at and over the
  cap; three frames are the shortest stream with a message grown past the cap
  by its last fragment, a control frame between fragments, a message inside
  another, and a message after a dropped one.
- `Sockets`: two connections contend for a quota of one, and slots are used
  again, so a place kept by the last use is seen by the next. The servers of
  `MCServers` run out of places in all, of an address's, of a principal's and of
  the anonymous. The address of the first three is a trusted proxy, which may
  have as many sockets before their upgrade as the server has places: two
  upgrades are in progress at once and race for the last place of a quota, which
  a check and a count in two steps would give to both (the run's mutant). The
  fourth is reached directly, and an address has one such socket (`MaxPending`).
  One address is enough for these races; clients that a proxy names by another
  address are in the instance of `own_sign_out`, and in the proofs.
- `ConnLoop`: queues of two, read and write budgets of two, an `OUT_HIGH` of
  one: each limit is reached and passed. Two messages are enough for a refused
  second subscription, for a drop before an answer and for two acceptances at
  once. `MCScripts` bounds what the peer and the host do together; the peer may
  stop anywhere in a script.
- `SocketTimers`: an idle limit of two ticks and a ping limit that is no
  multiple of the tick, a ping due between ticks and `OUT_HIGH` of two put every
  event before, at and after a tick and a limit; ages stop at one past the
  longest bound they are compared with, so a run has no last moment. The limit
  that is no multiple matters: with one that is, no silence is longer than
  `2 * PingTimeout + TickEvery`, which is false in general; `NotLate` has the
  bound that holds for every limit, just below `2 * (PingTimeout + TickEvery)`,
  and this run reaches it to the last unit of time.
- `Tls`: two handshakes overlap in every way; two changes are a certificate
  and its key, a pair there and back, or a file gone and restored.
- `McpSessions`: three requests are a reader that holds the lock, a writer that
  waits and a reader behind it; one session, since sessions share only the lock;
  two starts are a crash and what follows it. A request may be dropped wherever
  it waits.
- `Gateways`: one forged entry in each list and two proxies, each trusted or
  not, give lists of equal and of different length with the client's entry
  first, within and absent, with an entry of each lost or not; two items and
  three bytes are at and past each limit.
- `Registration`: two processes are a restart; two attempts are a retry and a
  last attempt. More attempts repeat the same states, and so do more items that
  say nothing: they are not counted.
- `Stdio`: two lines and two items a stream are six lines out, more than
  queue, write and pipe hold together.

### Fairness, and why the code justifies it

- `Guard`: the read is weakly fair: the loop polls it whenever the socket has
  bytes.
- `ConnLoop`: the runtime runs a task that was woken, and a poll does not stop
  inside. Calls answer (a call that never does is its method's). A peer that
  takes no bytes takes them again, or its pings go unanswered and the loop
  ends. Nothing is assumed of the peer's sending, of the host, of the budget.
- `Sockets`: spawned tasks take the steps that wait for nothing; timeouts pass
  (a connection that drains has a second, a close handshake `CLOSE_WAIT`); the
  watcher ticks. `Drain` is strongly fair because every poll of `serve_http`'s
  `select!` polls the stop beside the connection, so requests that keep coming
  do not put it off. Nothing is assumed of peers, nor of calls.
- `Registration`: the process takes its steps and its timeouts pass: that of
  each item of an attempt, which starts anew with every item, and that of the
  deregister as a whole. Nothing is assumed of the registry; for one that talks
  for ever `RegistryNeverHolds` claims the end of the server and not of the
  attempts.
- `Tls`: a resolve goes on (it does not await), the handshake's timeout passes,
  and axum accepts while it listens. Nothing is assumed of peers.
- `McpSessions`: a request goes on when the lock comes to it in turn, the
  database answers or fails, and so does a worker that is spawned. Nothing makes
  a client drop a request.
- `Gateways`: none. That a unary call is answered in time does not hold of every
  stream (below), and no liveness is claimed of requests.
- `Stdio`: reader and writer run and DRAIN passes. `ReadingSpec` adds a client
  that goes on reading; `Spec`, which `stdio_unread` uses, does not.

## What is proved

Every invariant that a passing run checks is also a theorem, for every value of
the constants the module's assumptions allow. For each module there is one
inductive invariant, the conjunction of named parts (`IInv`; `TimersInv` and
`GuardInv` in `ConnectionProofs`, which has three); TLC checked each on a small
instance before it was proved. The lemmas say that it holds at the start and
that every step keeps it, one step of the proof per action; a theorem then
follows from the invariant alone.

| Module | Theorems | Property |
|---|---|---|
| `ConnectionProofs`, calls | `TypeCorrect`, `CountIsExact`, `NeverPastMax`, `LoopImplementsPlaces` | `TypeOK`, `OpenIsPlacesHeld`, `WithinMax`, and the refinement `PlacesSpec` |
| `ConnectionProofs`, clocks | `NobodyClosedEarly`, `NobodyKept`, `IdleLosesNoAnswer` | `NotEarly`, `NotLate`, `IdleKeepsAnswers` |
| `ConnectionProofs`, guard | `GuardKeepsFraming`, `NothingHalfSeen`, `EachAccounted` | `FramingKept`, `WholeOrNothing`, `AllAccounted` |
| `ConnLoopProofs` | `ParkedHasNothingToDo`, `NeverAnsweredTwice`, `AnswerGoesFirst`, `QueuesTakeTurns` | `NoLostWake`, `AnsweredOnce`, `AnswerBeforeFrames`, `ByTurns` |
| `SocketsProofs` | `EveryPlaceIsCounted`, `QuotasHold` | `PlacesExact`, `SocketsWithinQuotas` |
| `McpSessionsProofs` | `RunningHasItsRow`, `ClosedStaysGone`, `OrphansAreExplained` | `LiveHasRow`, `ClosedIsGone`, `OrphanHasCause` |
| `TlsProofs` | `NoStaleCertificate`, `SecureCountIsExact` | `ServesDisk`, `SecureIsOpen` |
| `RegistrationProofs` | `FlagTellsTheEntry`, `TakenBackStaysUnlisted` | `RegisteredIsListed`, `DeregisteredIsUnlisted` |
| `StdioProofs` | `ClientReadsInOrder`, `OkSaysAnswered` | `OutInOrder`, `OkMeansAnswered` |
| `GatewaysProofs` | `ForgedHopsNameNobody`, `ForgedProtoSecuresNobody`, `ExtractorsRepeatTheUpgrade`, `KeyIsAlwaysAsked`, `RefusedStaysRefused`, `OkAnswersAreWhole` | `NamesWhoConnected`, `SecureIsAProxysWord`, `ExtractorsAgree`, `NoCallWithoutKey`, `RefusedIsNotAnonymous`, `OkIsWhole` |

What each invariant adds to the properties, and why it has to:

- **Call places.** `ReadingWithinMax`: an exchange succeeds against a caller's
  own `max`, so that `max` must be known to be within the connection's while the
  caller is in the loop. `ExchangeOk` adds a holder and one to the count,
  `DropPlace` takes both away; `HoldersAdd`, `HoldersDrop` and `HoldersStay`
  say so of the set of holders. For the refinement, a refusal is mapped to the
  reading at or past the bound and not to the return, because by the time the
  loop returns places may be free again.
- **Timers.** `DueIsWoken`: time never passes over a tick or a ping that is due,
  because what is due has woken the task. The clocks then keep a sum with the
  time to the next tick: `lastIn + toTick` is at most a limit and a tick
  (`SilenceOK`), and so is `lastBusy + toTick` (`IdleOK`), which is what "within
  a tick" means between ticks. `ReadOK` and `UnreadOK` relate `lastIn`, which
  moves when messages are *read*, to when they *came*: with nothing to read the
  last one came at most one silence before it was read, so a silence as its peer
  sees it is two of the loop's. That is why `NotLate` has twice the limit.
  `WaitingOK`: an answer that waits is waited for by a task that is woken or by
  a peer that takes nothing, and since no later than a tick before `lastBusy`.
  `CallsFit` keeps the calls read within the bound of the model, and `EndOK` is
  what remains true of a socket that has ended.
- **Guard.** The proof looks at the guard's five buffers as three sequences:
  the `Stream` still to be taken (`buf`, then `wire`), what is `Given`
  (`out`, then `ready`: tungstenite has it or has it before anything else) and
  `hold`. A fill changes none of them, whatever piece of a frame it brings; this
  is why no cut of the stream into reads matters. `Place` is the stream's next
  unit. `FramingInv` says that the count of a frame's units is right at `Place`
  (`PlaceOK`), that `Given` and `hold` are whole frames but for the one that
  goes on at `Place` (`FramesOK`), and that what is held is data, later than all
  data given and earlier than `Place` (`OrderOK`): `InStep` and `OrderKept`
  follow. `LegalInv`: nothing decided is illegal. `HeldInv`: the payload held
  and what is left of the frame being held are within `msg.len`, and that
  within the cap. It bounds payload: the headers held with it are not bounded
  (below). `MessagesInv` gives every message begun among the frames
  `Decided` its `Fate`: it is the one being held, or over the cap with none of
  it given, or within the cap, complete and given whole, or the one an illegal
  frame cut off; and `dropped` is the number of those over. It is stated by a
  message's first frame and the frames decided so far (`Begun`, `SoFar`), since
  RFC 6455's definition, `MessageOf`, speaks of all that was sent, also of what
  the guard has not seen; `MessageIs` says that for frames that are legal and
  well formed the two agree. `HeldStep`, `MessagesStep` and `LegalStep` have one
  case per branch of `decide`.
- **Loop.** `WakeOK` is what a hand-written `Future` has to keep between its
  polls: unless the task is woken, or has moved and goes round again, every poll
  made since the last move *still* waits, that is, there is still nothing where
  it looked and its waker is still there. Each source has its part (`AcceptWaits`,
  `ReadWaits`, `QueueWaits`, `WriteWaits`); a step of the outside that brings
  something takes the waker away and sets `woken` in one step. `LoopOK` ties
  `moved`, the budgets and the place in `poll_run` together: without `reads =
  ReadBudget => moved` the loop could park with its share read and nobody to wake
  it. `TurnsOK` is the measure behind `ByTurns`: the times a queue was passed and
  its distance from its turn are at most two together, but for what the table
  gave ahead of a first frame, which moves no turn and has no bound. `OrderOK` follows a
  frame to what is ahead of it: on the wire that is before it; on its queue it is
  on the wire, fenced or earlier on the queue; a fenced frame is a first one, and
  its subscription's answer is on the wire or still on the table, which is why
  emptying the table before it is enough. `OnceOK` counts: an answer that is
  owed is nowhere, one that is made is in one place, and moving it keeps the sum
  (`OccursConcat`, `OccursMore`, `OccursLess`); the answers to dropped messages
  and the drops not answered yet are as many as the messages dropped.
- **Connections.** Each count *is* the cardinality of the connections that hold
  a place of that kind, and is within its bound (`PendOK`, `QuotaOK`,
  `PlaceOK`). `StageOK` says who holds what where: a permit stays with a loop
  that is over for exactly as long as its calls run, so a slot that is used
  again holds nothing.
- **MCP sessions.** The stages of each method (`RequestsOK`), who has the lock
  (`QueueOK`, `LockOK`), and that a create has its identifier to itself
  (`CreatesOK`). The heart is `HandlesOK`: a request that has seen that a session
  has no handle, or has taken it, will not see its worker run again; without it
  a resume that goes on could be thought to bring back a closed session. A row
  with no handle and nobody at work on it is in `broken`: left by a crash, by a
  close that failed, or by a create or a close that was dropped between the row
  and the handle. Those are all its causes, and each does occur.
- **TLS.** `StampsOK`: no stamp kept anywhere is of a change to come, so a new
  file never meets old records of its own stamp; `StoredOK`: what is stored, or
  noted as failed, under the stamps now on disk is what those files hold;
  `ReadOK` and `SettledOK` carry this through a load that others overtake.
- **Registration.** `MailOK`: a register under way is of this attempt or an
  earlier one, and a deregister is of a process that has stopped serving;
  `OneRuns`; and `EntryOK`, which speaks of the answered request before the task
  has stored its flag.
- **Stdio.** `FlowOK`: what is written, gathered and queued is, put together,
  all that was ever queued; `OrderOK` is then about that one sequence, and a
  prefix of it is in order too (`OrderedPrefix`). `AnswersOK` says of every line
  taken where its answer is, `EndOK` in which order the two tasks end.
- **Gateways.** `WayOK`: unless an entry was lost with a line that is no text,
  the headers end with what the proxies really wrote, entry by entry, and what
  the client wrote comes before (`HopsOK`, `WordsOK`). From it alone the walk
  over the hops is shown to stop where the real way left the trusted proxies.
  A client that came through no trusted proxy is named from its socket, and
  needs none of this. The theorem claims nothing of a client whose own text
  cost its proxy's entry, because the code names such a client wrongly.
  `RequestOK` carries the key, the caller and the refusal from the check that
  saw them to the call; `StreamOK` the items from the stream to the answer.

The calls, the clocks and the guard share one proof module because they are one
connection's and use the same lemmas about finite sets, least numbers and
sequences put together; their specifications stay separate, and no theorem
mixes them.

Assumptions. They are named where the constants are declared, and TLC evaluates
them in every run: sets of connections, callers and slots are finite
(`ConnsFinite`, `CallersFinite`, `SlotsFinite`, `ConnsAreNumbered`); limits are
numbers, and a queue, a budget or a number of attempts is not zero
(`LimitsArePositive`, `CapsPositive`, `AttemptsPositive`, `StartsArePositive`,
`MaxWritesIsPositive`, `BoundsAreNat`); a limit of time, the message cap and the
length of a frame may be 0, an interval may not (`TimesAreNat`, `CapIsNat`,
`LensAreNat`, `MaxFramesIsNat`); there is some address and some peer (`SomeAddress`,
`PeersExist`), and a port may trust no proxy (`ForwardedAssumption`); the marks
for no session, no permit or no pair are no real ones (`WhoAreDistinct`,
`IdsAreNames`, `SlotsAreNames`, `FirstPairIsPair`). The bounds of the
model (`MaxMsgs`, `MaxWrites`, `MaxForged` and the like) are any number.

Total lengths. A message's size in `Guard` is a sum over a set of frames
(`Total`), by the community modules' fold, which is a recursive function over
subsets. Induction over data is out of the provers' reach when it is a theorem
with an operator as its parameter; what these proofs use instead is that a set
of numbers that is not empty has a least one (`LeastNat`, from the library's
well-founded order on the numbers). A counterexample of least size then has
none below it. `SumStep` unfolds the fold once, `SumAdd` adds one element that
was not there, and `TotalIsSum` ties both to `Total` itself.

With TLC alone:

- liveness under fairness, which is out of the prover's reach: `HandedOn`,
  `StopEndsAll`, `SignOutCloses`, `OwesNothing`, `RegistryNeverHolds`,
  `EndReturns`, `HandshakeEnds`, `RequestsReturn`;
- `ENABLED`, and with it deadlock. No module that is proved about declares a
  RECURSIVE operator.

## Findings

- `own_sign_out` (`websocket.rs:1131`): the watch of a sign-in starts before the
  upgrade is answered, and watches the connection. If the upgrade is refused the
  connection lives on, and a later request on it, of someone else, is closed by
  the first one's sign-out.
- `stdio_unread` (`stdio.rs:69`): with the queue full and nobody reading stdout
  the reader never comes to the end of its input, and DRAIN never starts.

Read in the source, and not the subject of a run: a call that outlives its
socket keeps the socket's place in the quotas (`ws/conn.rs:391`, against "given
back when the socket ends", `websocket.rs:270`); a closing socket gives its
place in the quotas back before its place among `max_connections`
(`ws/conn.rs:670`), so for up to `CLOSE_WAIT` anonymous sockets may hold more of
the total than `max_anonymous`; the stop's receiver is dropped before the close
handshake, so `stopped()` may resolve first (`ws/conn.rs:589`); a fenced frame
waits also for what is queued on the table after it (`ws/conn.rs:517`).
`RegisteredIsListed` holds only while processes of one name do not overlap:
`deregister` names the backend and not the process. `NotEarly` exempts a peer
that takes no bytes: then the loop reads nothing either, and what the peer sent
meanwhile does not count for it.

Further, met while modelling the parts below:

- while a first frame is fenced the table's queue is emptied outside the turns,
  and running calls refill it as it is emptied (`ws/conn.rs:516`): the other
  queues may wait for any number of its frames, against "so none starves
  another" and "the method table's queue as it stands" (33-35). What does hold
  is `ByTurns`;
- the timeout of a registration is of each item (`registry.rs:196`, `245`): a
  registry that goes on sending items that say nothing holds one attempt for
  ever, against "at most REGISTER_ATTEMPTS attempts [...] and then emits ONE
  warn" (16-18) and "Per-call timeout" (54);
- the collector of a unary call takes items for as long as they are ready
  (`http/handler.rs:163`) and the timeout asks its timer only when it yields
  (124): a stream of progress that is always ready is never timed out, against
  "to prevent infinite streams from hanging forever" (116). One that takes its
  items from tokio's channels yields by its cooperative budget;
- a write budget of 0 writes nothing, ever (`ws/conn.rs:561`);
- `list` drops a header line that is no text as a whole (`proxy.rs:173`), with
  what a proxy appended to that line: the client is then named from what is
  left, against "Every header named `name`, in order" (168). `Forwarded` has
  it (`lost`), and `NamesWhoConnected` and `SecureIsAProxysWord` except it;
- the guard holds every fragment's header with its payload (`ws/guard.rs:250`),
  and the cap counts payload: a message of many empty fragments is held without
  a bound until its last one comes;
- a create or a close of an MCP session whose request is dropped between the
  row and the handle (`mcp/session.rs:270-273`, `323-328`) leaves a row that no
  handle goes with, until a later request on it removes it or takes it up;
- a stop while the registration is in flight sends no deregister and the entry
  stays active (`server.rs:397`, against "the registration is invalidated",
  `server.rs:155`);
- `has_session` says "only return true if the session worker is active"
  (`mcp/session.rs:304`) and asks only for the handle, which outlives its worker;
  it also removes the row by which a client "can reconnect after server
  restarts" (`mcp/session.rs:1-4`), and a resume after a restart gets a handle
  whose worker is dropped as the resume returns;
- a `Bearer` equal to the key is handed to the session validator on the
  WebSocket (`websocket.rs:1064`: "NEVER fed the api_key"), not on REST; the
  WebSocket takes `Bearer ` to the letter, REST also `bearer ` with blanks;
- `METHOD_TIMEOUT` is around the making of an event stream and not around the
  events (`http/handler.rs:113`); progress is kept without a limit
  (`http/handler.rs:211`); an MCP tool call has neither limit nor timeout, and
  sees its cancellation only when the next item comes (`mcp/bridge.rs:373`);
- a recoverable error ends a REST answer and not an MCP one;
- `ClientIp` and `SecureTransport` read the first set of proxies that any
  server of the process named (`proxy.rs:222`), the upgrade its port's:
  `ExtractorsAgree` is stated for where the two are the same;
- `ValidOrigin` compares an origin as it is written, the upgrade without case or
  closing slash; `last_in` moves at whole messages only, so a long message that
  is slow to come counts as silence.

## Not modelled

- What other crates do: rustls's handshake, hyper's and axum's HTTP, rmcp's
  protocol and its session workers, the mounted MCP bridge past the caller it is
  given, the hub's gate. They may answer anything the code here provides for.
- The builder's setters, bind addresses, and `build`'s refusal of auth-gated
  methods with no auth (`server.rs:966`): configuration, read once.
- Texts: the metadata document, tools and their schemas, notifications, the
  event format, error bodies. Statuses are told apart.
- A certificate file that cannot be read for a moment while its stamp stays the
  same: it would be taken as failed until the file changes.
- When `stopped()` resolves, against the close handshakes still under way:
  `StopEndsAll` says that every connection ends.
- A WebSocket frame's header cut in its own bytes (a part of one is none).
- `ValidOrigin`, the derive of extractors, the raw request: pure reading.
- The guard's write side passes through.

## Plan

1. `ConnectionCalls` with `CallPlaces`, and its proofs. Done.
2. `Guard`, `ConnLoop`, `Sockets`. Done.
3. `Registration`, `Stdio`. Done.
4. `SocketTimers`, `Tls`, `McpSessions`, `Forwarded`, `Gateways`. Done.
5. Proofs of the invariants of `McpSessions`, `Tls`, `Registration`, `Sockets`,
   `Gateways`, `Stdio`, `ConnLoop`, `SocketTimers` and `Guard`. Done.
6. Left: an abstract guard (a filter of whole messages) that `Guard` refines,
   stated over `Given` and `Stream`.
