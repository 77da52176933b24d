------------------------------ MODULE Sockets ------------------------------
(***************************************************************************)
(* The sockets of one WebSocket server, from accept to end, and every      *)
(* place they hold (src/websocket.rs, src/ws/http.rs, src/ws/stop.rs and   *)
(* the ends of src/ws/conn.rs):                                            *)
(*                                                                         *)
(*   - accepted, a socket takes one of its address's places for sockets    *)
(*     not yet upgraded (Pending), given back at its upgrade or its end;   *)
(*   - its upgrade takes a place in the quotas (Quotas::admit), which      *)
(*     rides in the request's extensions and is given back when the last   *)
(*     clone of them is dropped: the socket's loop has one, and so has     *)
(*     every call running on it;                                           *)
(*   - then one of max_connections (a semaphore), held by its task;        *)
(*   - a signed-in upgrade leaves a task that watches the sign-in;         *)
(*   - the server's stop is a watch whose receivers the accept loop and    *)
(*     the connections hold; stopped() resolves when none is left.         *)
(*                                                                         *)
(* Tasks run on several threads, so each taking of a lock, a semaphore or  *)
(* a watch is a step of its own.  A connection slot is used again after    *)
(* its connection is gone.                                                 *)
(***************************************************************************)
EXTENDS Integers, FiniteSets

CONSTANTS
    Conns,              \* connection slots
    IPs,                \* addresses, of peers and of the clients they forward
    Sessions,           \* sign-ins, each its own principal
    Servers,            \* the configurations, below
    Anonymous, Nobody,  \* QuotaPermit::who: Some(None), None
    NoPermit,
    MaxPending, MaxPerPrincipal, MaxAnonymous, MaxAnonymousPerIp,
    MaxCalls            \* bound: calls running on one connection

ASSUME ConnsFinite == IsFiniteSet(Conns)
ASSUME SomeAddress == IPs # {}
\* Whether a session validator is configured, max_connections, max_per_ip, and
\* the addresses of trusted_proxies.
ASSUME ServersAreConfigured ==
    Servers \subseteq [identities : BOOLEAN, total : Nat, perIp : Nat, proxies : SUBSET IPs]
ASSUME WhoAreDistinct ==
    /\ Anonymous \notin Sessions /\ Nobody \notin Sessions
    /\ Anonymous # Nobody
    /\ NoPermit \notin [ip : IPs, who : Sessions \cup {Anonymous, Nobody}]
ASSUME LimitsAreNat ==
    /\ MaxPending \in Nat /\ MaxPerPrincipal \in Nat /\ MaxAnonymous \in Nat
    /\ MaxAnonymousPerIp \in Nat /\ MaxCalls \in Nat

VARIABLES
    stage,          \* where each connection is
    peer,           \* the address it was accepted from
    who,            \* whom the request in hand was validated as
    pend,           \* Connection::pending is Some
    permit,         \* the QuotaPermit its extensions carry
    calls,          \* the running calls that hold a clone of its extensions
    closed,         \* Connection::closed
    closedBy,       \* history: the session whose watcher closed it
    watchers,       \* the sessions watch_liveness watches for it
    draining,       \* serve_http asked hyper for a graceful shutdown
    pending,        \* Pending::per_ip
    perIp, perPrincipal, anonymous, anonymousPerIp,     \* Open
    free,           \* the semaphore's available permits
    alive,          \* the sign-ins that still stand
    stopping,       \* the stop watch's value
    accepting,      \* the accept loop runs
    server          \* the server's configuration

connVars == <<stage, peer, who, pend, permit, calls, closed, closedBy, watchers,
              draining>>
openVars == <<perIp, perPrincipal, anonymous, anonymousPerIp>>
serverVars == <<alive, stopping, accepting, server>>
vars == <<connVars, pending, openVars, free, serverVars>>

\* No connection; its HTTP idle; a request in hand, being validated; past the
\* validator; past the quotas; answered 101; in its loop; in its close
\* handshake; over, with calls that have not ended.
Stages == {"free", "http", "asking", "validated", "admitted", "upgrading",
           "open", "closing", "ended"}
Who == Sessions \cup {Anonymous, Nobody}
Permits == [ip : IPs, who : Who]

Init ==
    /\ stage = [c \in Conns |-> "free"]
    /\ peer = [c \in Conns |-> CHOOSE ip \in IPs : TRUE]
    /\ who = [c \in Conns |-> Nobody]
    /\ pend = [c \in Conns |-> FALSE]
    /\ permit = [c \in Conns |-> NoPermit]
    /\ calls = [c \in Conns |-> 0]
    /\ closed = [c \in Conns |-> FALSE]
    /\ closedBy = [c \in Conns |-> Nobody]
    /\ watchers = [c \in Conns |-> {}]
    /\ draining = [c \in Conns |-> FALSE]
    /\ pending = [ip \in IPs |-> 0]
    /\ perIp = [ip \in IPs |-> 0]
    /\ perPrincipal = [s \in Sessions |-> 0]
    /\ anonymous = 0
    /\ anonymousPerIp = [ip \in IPs |-> 0]
    /\ server \in Servers /\ free = server.total
    /\ alive = Sessions
    /\ stopping = FALSE
    /\ accepting = TRUE

Move(c, to) == stage' = [stage EXCEPT ![c] = to]
-----------------------------------------------------------------------------
(***************************************************************************)
(* Places taken and given back.                                            *)
(***************************************************************************)

\* Pending::take's bound: a proxy's address carries every client's sockets.
PendingBound(ip) ==
    IF ip \in server.proxies /\ server.total > MaxPending THEN server.total ELSE MaxPending

\* PendingPlace's drop, when the connection still has it.
GivePendingBack(c) ==
    /\ pend' = [pend EXCEPT ![c] = FALSE]
    /\ pending' = IF pend[c] THEN [pending EXCEPT ![peer[c]] = @ - 1] ELSE pending

\* Mutant of QuotasAdmit: each quota checked against the sockets in their
\* loop, so two upgrades in hand at once each find its last place.
AdmitApart(p) ==
    LET loops(which(_)) == Cardinality({c \in Conns : stage[c] = "open" /\ which(permit[c])}) IN
    /\ loops(LAMBDA q : q.ip = p.ip) < server.perIp
    /\ perIp' = [perIp EXCEPT ![p.ip] = @ + 1]
    /\ \/ /\ p.who \in Sessions
          /\ loops(LAMBDA q : q.who = p.who) < MaxPerPrincipal
          /\ perPrincipal' = [perPrincipal EXCEPT ![p.who] = @ + 1]
          /\ UNCHANGED <<anonymous, anonymousPerIp>>
       \/ /\ p.who = Anonymous
          /\ loops(LAMBDA q : q.who = Anonymous) < MaxAnonymous
          /\ anonymous' = anonymous + 1
          /\ anonymousPerIp' = [anonymousPerIp EXCEPT ![p.ip] = @ + 1]
          /\ UNCHANGED perPrincipal
       \/ /\ p.who = Nobody
          /\ UNCHANGED <<perPrincipal, anonymous, anonymousPerIp>>

\* Quotas::admit, all under one lock: every quota the socket counts against
\* has room, and it is counted in each.
QuotasAdmit(p) ==
    /\ perIp[p.ip] < server.perIp
    /\ perIp' = [perIp EXCEPT ![p.ip] = @ + 1]
    /\ \/ /\ p.who \in Sessions
          /\ perPrincipal[p.who] < MaxPerPrincipal
          /\ perPrincipal' = [perPrincipal EXCEPT ![p.who] = @ + 1]
          /\ UNCHANGED <<anonymous, anonymousPerIp>>
       \/ /\ p.who = Anonymous
          /\ anonymous < MaxAnonymous
          /\ anonymousPerIp[p.ip] < MaxAnonymousPerIp
          /\ anonymous' = anonymous + 1
          /\ anonymousPerIp' = [anonymousPerIp EXCEPT ![p.ip] = @ + 1]
          /\ UNCHANGED perPrincipal
       \/ /\ p.who = Nobody
          /\ UNCHANGED <<perPrincipal, anonymous, anonymousPerIp>>

\* QuotaPermit's drop.
QuotasDrop(p) ==
    /\ perIp' = [perIp EXCEPT ![p.ip] = @ - 1]
    /\ \/ /\ p.who \in Sessions
          /\ perPrincipal' = [perPrincipal EXCEPT ![p.who] = @ - 1]
          /\ UNCHANGED <<anonymous, anonymousPerIp>>
       \/ /\ p.who = Anonymous
          /\ anonymous' = anonymous - 1
          /\ anonymousPerIp' = [anonymousPerIp EXCEPT ![p.ip] = @ - 1]
          /\ UNCHANGED perPrincipal
       \/ /\ p.who = Nobody
          /\ UNCHANGED <<perPrincipal, anonymous, anonymousPerIp>>

DropPermit(c) ==
    /\ permit' = [permit EXCEPT ![c] = NoPermit]
    /\ QuotasDrop(permit[c])

KeepPermit == UNCHANGED <<permit, openVars>>

\* The last Arc of the connection is dropped: its slot is free, and the
\* watchers find nothing to upgrade their Weak to.
Forget(c) ==
    /\ Move(c, "free")
    /\ watchers' = [watchers EXCEPT ![c] = {}]
    /\ closedBy' = [closedBy EXCEPT ![c] = Nobody]
    /\ draining' = [draining EXCEPT ![c] = FALSE]
    /\ who' = [who EXCEPT ![c] = Nobody]
-----------------------------------------------------------------------------
(***************************************************************************)
(* The accept loop.                                                        *)
(***************************************************************************)

\* Past its address's bound a socket is dropped, which changes nothing.
Accept(c, ip) ==
    /\ accepting /\ stage[c] = "free"
    /\ pending[ip] < PendingBound(ip)
    /\ pending' = [pending EXCEPT ![ip] = @ + 1]
    /\ pend' = [pend EXCEPT ![c] = TRUE]
    /\ peer' = [peer EXCEPT ![c] = ip]
    /\ closed' = [closed EXCEPT ![c] = FALSE]
    /\ Move(c, "http")
    /\ UNCHANGED <<who, permit, calls, closedBy, watchers, draining>>
    /\ UNCHANGED <<openVars, free, serverVars>>

AcceptStops ==
    /\ accepting /\ stopping
    /\ accepting' = FALSE
    /\ UNCHANGED <<connVars, pending, openVars, free, alive, stopping, server>>

Stop ==
    /\ ~stopping
    /\ stopping' = TRUE
    /\ UNCHANGED <<connVars, pending, openVars, free, alive, accepting, server>>
-----------------------------------------------------------------------------
(***************************************************************************)
(* serve_http and the checks of one upgrade request.                       *)
(***************************************************************************)

\* hyper reads a request (none once it drains).  One that asks for no
\* upgrade, or that the host, origin or key checks refuse, holds nothing and
\* leaves the connection as it was.
Request(c) ==
    /\ stage[c] = "http" /\ ~draining[c]
    /\ Move(c, "asking")
    /\ UNCHANGED <<peer, who, pend, permit, calls, closed, closedBy, watchers, draining>>
    /\ UNCHANGED <<pending, openVars, free, serverVars>>

\* The session validator refuses it (401).
ValidateRefused(c) ==
    /\ stage[c] = "asking" /\ server.identities
    /\ Move(c, "http")
    /\ UNCHANGED <<peer, who, pend, permit, calls, closed, closedBy, watchers, draining>>
    /\ UNCHANGED <<pending, openVars, free, serverVars>>

\* validate answers: someone whose sign-in stands, or no one.
Validate(c, w) ==
    /\ stage[c] = "asking"
    /\ w \in (IF server.identities THEN alive \cup {Anonymous} ELSE {Nobody})
    /\ who' = [who EXCEPT ![c] = w]
    /\ Move(c, "validated")
    /\ UNCHANGED <<peer, pend, permit, calls, closed, closedBy, watchers, draining>>
    /\ UNCHANGED <<pending, openVars, free, serverVars>>

\* Mutant of TakeQuota: the socket is admitted and not watched.
TakeQuotaUnwatched(c, ip) ==
    LET p == [ip |-> ip, who |-> who[c]] IN
    /\ stage[c] = "validated"
    /\ ip = peer[c] \/ peer[c] \in server.proxies
    /\ QuotasAdmit(p)
    /\ permit' = [permit EXCEPT ![c] = p]
    /\ Move(c, "admitted")
    /\ UNCHANGED <<peer, who, pend, calls, closed, closedBy, watchers, draining>>
    /\ UNCHANGED <<pending, free, serverVars>>

\* take_quota: counted by the client a trusted proxy forwards, else by the
\* peer.  A signed-in request is watched from here, before its upgrade.
TakeQuota(c, ip) ==
    LET p == [ip |-> ip, who |-> who[c]] IN
    /\ stage[c] = "validated"
    /\ ip = peer[c] \/ peer[c] \in server.proxies
    /\ QuotasAdmit(p)
    /\ permit' = [permit EXCEPT ![c] = p]
    /\ watchers' = [watchers EXCEPT ![c] = @ \cup ({who[c]} \cap Sessions)]
    /\ Move(c, "admitted")
    /\ UNCHANGED <<peer, who, pend, calls, closed, closedBy, draining>>
    /\ UNCHANGED <<pending, free, serverVars>>

\* A quota is full: 429, and the connection waits for its next request.
QuotaFull(c, ip) ==
    LET p == [ip |-> ip, who |-> who[c]] IN
    /\ stage[c] = "validated"
    /\ ip = peer[c] \/ peer[c] \in server.proxies
    /\ \/ perIp[ip] >= server.perIp
       \/ p.who \in Sessions /\ perPrincipal[p.who] >= MaxPerPrincipal
       \/ p.who = Anonymous /\ anonymous >= MaxAnonymous
       \/ p.who = Anonymous /\ anonymousPerIp[ip] >= MaxAnonymousPerIp
    /\ Move(c, "http")
    /\ UNCHANGED <<peer, who, pend, permit, calls, closed, closedBy, watchers, draining>>
    /\ UNCHANGED <<pending, openVars, free, serverVars>>

\* Upgrade::upgrade refuses: not version 13 or no key (426, 400), or no place
\* among max_connections (429).  The request and its extensions are dropped.
UpgradeRefused(c, wellFormed) ==
    /\ stage[c] = "admitted"
    /\ ~wellFormed \/ free = 0
    /\ DropPermit(c)
    /\ Move(c, "http")
    /\ UNCHANGED <<peer, who, pend, calls, closed, closedBy, watchers, draining>>
    /\ UNCHANGED <<pending, free, serverVars>>

\* 101: the place is taken and the socket's task spawned.
Upgrade(c) ==
    /\ stage[c] = "admitted"
    /\ free > 0
    /\ free' = free - 1
    /\ Move(c, "upgrading")
    /\ UNCHANGED <<peer, who, pend, permit, calls, closed, closedBy, watchers, draining>>
    /\ UNCHANGED <<pending, openVars, serverVars>>

\* Mutant of Drain: the connection watches its own close and not the stop.
DrainOnClose(c) ==
    /\ stage[c] \in {"http", "asking", "upgrading"} /\ ~draining[c]
    /\ closed[c]
    /\ draining' = [draining EXCEPT ![c] = TRUE]
    /\ UNCHANGED <<stage, peer, who, pend, permit, calls, closed, closedBy, watchers>>
    /\ UNCHANGED <<pending, openVars, free, serverVars>>

\* The server or the connection is stopped: hyper finishes what is in hand.
Drain(c) ==
    /\ stage[c] \in {"http", "asking", "upgrading"} /\ ~draining[c]
    /\ stopping \/ closed[c]
    /\ draining' = [draining EXCEPT ![c] = TRUE]
    /\ UNCHANGED <<stage, peer, who, pend, permit, calls, closed, closedBy, watchers>>
    /\ UNCHANGED <<pending, openVars, free, serverVars>>

\* The connection ends without an upgrade: the peer leaves, the headers are
\* late, or a graceful shutdown is done or out of time.
HttpEnds(c) ==
    /\ stage[c] \in {"http", "asking"}
    /\ GivePendingBack(c)
    /\ Forget(c)
    /\ UNCHANGED <<peer, permit, calls, closed, openVars, free, serverVars>>

\* hyper hands the socket over: run, whose first step gives the pending
\* place back (Connection::upgraded).
UpgradeDone(c) ==
    /\ stage[c] = "upgrading"
    /\ GivePendingBack(c)
    /\ Move(c, "open")
    /\ UNCHANGED <<peer, who, permit, calls, closed, closedBy, watchers, draining>>
    /\ UNCHANGED <<openVars, free, serverVars>>

\* Mutant of UpgradeFails: the place among max_connections is lost.
UpgradeFailsLeaks(c) ==
    /\ stage[c] = "upgrading"
    /\ GivePendingBack(c)
    /\ DropPermit(c)
    /\ Forget(c)
    /\ UNCHANGED <<peer, calls, closed, free, serverVars>>

\* The connection ends before hyper hands it over: the task drops everything.
UpgradeFails(c) ==
    /\ stage[c] = "upgrading"
    /\ GivePendingBack(c)
    /\ DropPermit(c)
    /\ free' = free + 1
    /\ Forget(c)
    /\ UNCHANGED <<peer, calls, closed, serverVars>>
-----------------------------------------------------------------------------
(***************************************************************************)
(* The open socket, its calls and its end.                                 *)
(***************************************************************************)

\* A call runs on a task of its own, with a clone of the extensions.
CallStarts(c) ==
    /\ stage[c] = "open" /\ calls[c] < MaxCalls
    /\ calls' = [calls EXCEPT ![c] = @ + 1]
    /\ UNCHANGED <<stage, peer, who, pend, permit, closed, closedBy, watchers, draining>>
    /\ UNCHANGED <<pending, openVars, free, serverVars>>

\* The last clone of an ended loop's extensions goes with its last call; the
\* connection goes with it once its loop is over.
CallEnds(c) ==
    /\ calls[c] > 0
    /\ calls' = [calls EXCEPT ![c] = @ - 1]
    /\ IF calls[c] = 1 /\ stage[c] \in {"closing", "ended"}
       THEN DropPermit(c) ELSE KeepPermit
    /\ IF calls[c] = 1 /\ stage[c] = "ended"
       THEN Forget(c)
       ELSE UNCHANGED <<stage, who, closedBy, watchers, draining>>
    /\ UNCHANGED <<peer, pend, closed, pending, free, serverVars>>

\* poll_run returns: the server's stop, the connection's close, or any other
\* end (the peer's close, a lost socket, silence, idleness).  Loop::end drops
\* the queues and the loop's extensions before the close handshake.
LoopEnds(c, why) ==
    /\ stage[c] = "open"
    /\ why = "stopped" => stopping
    /\ why = "closed" => closed[c]
    /\ IF calls[c] = 0 THEN DropPermit(c) ELSE KeepPermit
    /\ Move(c, "closing")
    /\ UNCHANGED <<peer, who, pend, calls, closed, closedBy, watchers, draining>>
    /\ UNCHANGED <<pending, free, serverVars>>

\* The close handshake is done, or CLOSE_WAIT has passed: on_close, ended(),
\* and the place among max_connections.
SocketEnds(c) ==
    /\ stage[c] = "closing"
    /\ free' = free + 1
    /\ closed' = [closed EXCEPT ![c] = TRUE]
    /\ IF calls[c] = 0
       THEN Forget(c)
       ELSE /\ Move(c, "ended")
            /\ UNCHANGED <<who, closedBy, watchers, draining>>
    /\ UNCHANGED <<peer, pend, permit, calls, pending, openVars, serverVars>>

\* Connection::close, from the host.
Close(c) ==
    /\ stage[c] # "free" /\ ~closed[c]
    /\ closed' = [closed EXCEPT ![c] = TRUE]
    /\ UNCHANGED <<stage, peer, who, pend, permit, calls, closedBy, watchers, draining>>
    /\ UNCHANGED <<pending, openVars, free, serverVars>>
-----------------------------------------------------------------------------
(***************************************************************************)
(* The sign-ins and their watchers.                                        *)
(***************************************************************************)
SignOut(s) ==
    /\ s \in alive
    /\ alive' = alive \ {s}
    /\ UNCHANGED <<connVars, pending, openVars, free, stopping, accepting, server>>

\* A tick of watch_liveness that ends it: the connection is closed already,
\* or its sign-in no longer stands.
WatchTick(c, s) ==
    /\ s \in watchers[c]
    /\ \/ /\ closed[c]
          /\ UNCHANGED <<closed, closedBy>>
       \/ /\ ~closed[c] /\ s \notin alive
          /\ closed' = [closed EXCEPT ![c] = TRUE]
          /\ closedBy' = [closedBy EXCEPT ![c] = s]
    /\ watchers' = [watchers EXCEPT ![c] = @ \ {s}]
    /\ UNCHANGED <<stage, peer, who, pend, permit, calls, draining>>
    /\ UNCHANGED <<pending, openVars, free, serverVars>>
-----------------------------------------------------------------------------
HttpStep(c) ==
    \/ Request(c)
    \/ ValidateRefused(c)
    \/ \E w \in Who : Validate(c, w)
    \/ \E ip \in IPs : TakeQuota(c, ip) \/ QuotaFull(c, ip)
    \/ \E wellFormed \in BOOLEAN : UpgradeRefused(c, wellFormed)
    \/ Upgrade(c)
    \/ Drain(c)
    \/ HttpEnds(c)
    \/ UpgradeDone(c)
    \/ UpgradeFails(c)

SocketStep(c) ==
    \/ CallStarts(c)
    \/ CallEnds(c)
    \/ \E why \in {"stopped", "closed", "other"} : LoopEnds(c, why)
    \/ SocketEnds(c)
    \/ Close(c)
    \/ \E s \in Sessions : WatchTick(c, s)

Next ==
    \/ \E c \in Conns :
          \/ \E ip \in IPs : Accept(c, ip)
          \/ HttpStep(c)
          \/ SocketStep(c)
    \/ AcceptStops
    \/ Stop
    \/ \E s \in Sessions : SignOut(s)

(***************************************************************************)
(* Fairness: the steps a spawned task takes with nothing to wait for, those*)
(* a timeout forces (a connection that drains has a second, its close      *)
(* handshake CLOSE_WAIT), and the ticks of a watcher.  None for a peer's   *)
(* request, nor for the end of a call: a method may run for ever.  Drain   *)
(* is strongly fair: each poll of serve_http's select polls the stop and   *)
(* the close beside the connection, whatever requests keep coming.         *)
(***************************************************************************)
Fairness ==
    /\ WF_vars(AcceptStops)
    /\ \A c \in Conns :
          /\ WF_vars(\E ip \in IPs : TakeQuota(c, ip) \/ QuotaFull(c, ip))
          /\ WF_vars(Upgrade(c) \/ \E wellFormed \in BOOLEAN : UpgradeRefused(c, wellFormed))
          /\ SF_vars(Drain(c))
          /\ WF_vars(draining[c] /\ HttpEnds(c))
          /\ WF_vars(draining[c] /\ (UpgradeDone(c) \/ UpgradeFails(c)))
          /\ WF_vars(LoopEnds(c, "stopped") \/ LoopEnds(c, "closed"))
          /\ WF_vars(SocketEnds(c))
          /\ \A s \in Sessions : WF_vars(WatchTick(c, s))

Spec == Init /\ [][Next]_vars

FairSpec == Spec /\ Fairness
-----------------------------------------------------------------------------
TypeOK ==
    /\ stage \in [Conns -> Stages]
    /\ peer \in [Conns -> IPs]
    /\ who \in [Conns -> Who]
    /\ pend \in [Conns -> BOOLEAN]
    /\ permit \in [Conns -> Permits \cup {NoPermit}]
    /\ calls \in [Conns -> 0..MaxCalls]
    /\ closed \in [Conns -> BOOLEAN]
    /\ closedBy \in [Conns -> Sessions \cup {Nobody}]
    /\ watchers \in [Conns -> SUBSET Sessions]
    /\ draining \in [Conns -> BOOLEAN]
    /\ pending \in [IPs -> Nat]
    /\ perIp \in [IPs -> Nat]
    /\ perPrincipal \in [Sessions -> Nat]
    /\ anonymous \in Nat
    /\ anonymousPerIp \in [IPs -> Nat]
    /\ free \in Nat
    /\ alive \subseteq Sessions
    /\ {stopping, accepting} \subseteq BOOLEAN /\ server \in Servers

\* The connections with a place in the quotas, and with one of max_connections.
Permitted == {c \in Conns : permit[c] # NoPermit}
Placed == {c \in Conns : stage[c] \in {"upgrading", "open", "closing"}}

\* Every count is the places held, whatever order the ends come in: a refused
\* upgrade, a peer that leaves, a failed handover, a loop that ends before or
\* after its calls each give back what was taken, once (PendingPlace's and
\* QuotaPermit's drops, the semaphore's OwnedSemaphorePermit).
CountsExact ==
    /\ \A ip \in IPs :
          /\ pending[ip] = Cardinality({c \in Conns : pend[c] /\ peer[c] = ip})
          /\ perIp[ip] = Cardinality({c \in Permitted : permit[c].ip = ip})
          /\ anonymousPerIp[ip] =
                Cardinality({c \in Permitted : permit[c].who = Anonymous /\ permit[c].ip = ip})
    /\ \A s \in Sessions :
          perPrincipal[s] = Cardinality({c \in Permitted : permit[c].who = s})
    /\ anonymous = Cardinality({c \in Permitted : permit[c].who = Anonymous})
    /\ free + Cardinality(Placed) = server.total

\* A connection that is gone holds no place, and a socket that is open holds
\* one in the quotas and none among those not yet upgraded (RPC-4, AUTH-12).
PlacesFollowStage ==
    \A c \in Conns :
        /\ stage[c] = "free" => ~pend[c] /\ permit[c] = NoPermit /\ calls[c] = 0
        /\ stage[c] \in {"admitted", "upgrading", "open"} => permit[c] # NoPermit
        /\ pend[c] <=> stage[c] \in {"http", "asking", "validated", "admitted", "upgrading"}

\* The places: the types, CountsExact and PlacesFollowStage, at every moment of
\* every end (the drops of PendingPlace and QuotaPermit, Loop::end).
PlacesExact == TypeOK /\ CountsExact /\ PlacesFollowStage

\* The sockets themselves, not the counts, keep within every quota of
\* ConnectionQuotas at every moment, however many upgrades are in hand at
\* once.  (A socket is in the quotas until its loop ends; one in its close
\* handshake has given that place back and keeps only the server's.)
Open(which(_)) == Cardinality({c \in Conns : stage[c] \in {"upgrading", "open"} /\ which(permit[c])})
SocketsWithinQuotas ==
    /\ Cardinality(Placed) <= server.total
    /\ Open(LAMBDA p : p.who = Anonymous) <= MaxAnonymous
    /\ \A s \in Sessions : Open(LAMBDA p : p.who = s) <= MaxPerPrincipal
    /\ \A ip \in IPs :
          /\ Open(LAMBDA p : p.ip = ip) <= server.perIp
          /\ Open(LAMBDA p : p.ip = ip /\ p.who = Anonymous) <= MaxAnonymousPerIp
          /\ ip \notin server.proxies =>
                Cardinality({c \in Conns : pend[c] /\ peer[c] = ip}) <= MaxPending

\* After stop() the accept loop ends, and so does every connection, whatever
\* it was doing: waiting for a request, in the checks, half upgraded, open.
StopEndsAll ==
    stopping ~> (~accepting /\ \A c \in Conns : stage[c] \in {"free", "ended"})

\* A socket whose sign-in no longer stands does not stay open, even when the
\* sign-in ended between its validation and its upgrade.
SignOutCloses ==
    \A c \in Conns, s \in Sessions :
        (stage[c] = "open" /\ permit[c].who = s /\ s \notin alive) ~> (stage[c] # "open")
-----------------------------------------------------------------------------
(***************************************************************************)
(* What the documentation says that the code does not do.                  *)
(***************************************************************************)

\* websocket.rs, watch_liveness: "watch a signed-in socket; close it once its
\* sign-in no longer stands": the socket's own, not one of another request
\* that the same connection carried before.
OwnSignOutOnly ==
    \A c \in Conns :
        stage[c] = "open" /\ closedBy[c] # Nobody => closedBy[c] = permit[c].who
=============================================================================
