-------------------------------- MODULE Tls --------------------------------
(***************************************************************************)
(* A TLS listener (src/tls.rs): the accept loop, the handshake of each     *)
(* connection in a task of its own, the certificate and key it presents,   *)
(* read again when a file changes, and the places of secure peers.         *)
(*                                                                         *)
(* The operator writes the two files while handshakes run.  A file is the  *)
(* stamp that fs::metadata gives it (size, mtime and inode, 0 for a file   *)
(* that is not there) and the pair it belongs to; a new file has a new     *)
(* stamp.  Handshake and cryptography are rustls's: a peer says hello, or  *)
(* something else, or nothing.                                             *)
(***************************************************************************)
EXTENDS Naturals, FiniteSets, Sequences

CONSTANTS
    Conns,          \* bound: connections at once, 1..N
    Peers,          \* peer addresses
    Pairs,          \* the pairs of certificate and key the operator has
    FirstPair,      \* the one on disk at the start
    MaxWrites       \* bound: changes of the files

ASSUME ConnsAreNumbered == Conns \subseteq Nat \ {0} /\ IsFiniteSet(Conns)
ASSUME PeersExist == Peers # {}
\* A file that is half written or not there is of no pair.
ASSUME FirstPairIsPair == FirstPair \in Pairs /\ Pairs \cap {"half", "nothing"} = {}
ASSUME MaxWritesIsPositive == MaxWrites \in Nat \ {0}

VARIABLES
    disk,       \* the certificate's and the key's file
    writes,     \* changes so far: the last stamp given out
    current,    \* Reloading::current: the stamps and the pair loaded
    failed,     \* Reloading::failed: the stamps whose load failed
    holder,     \* whose resolve holds the two locks
    loop,       \* the accept loop of TlsListener
    listening,  \* axum still holds the TlsListener
    stage,      \* where a connection is
    peer,       \* its address
    seen,       \* the stamps its resolve read
    read,       \* the certificate file its load read
    shown,      \* the pair it presents
    ready,      \* streams in the channel to axum, and those that wait for room in it
    secure,     \* secure_peers
    settled     \* history: no file changed since its resolve began

vars == <<disk, writes, current, failed, holder, loop, listening, stage, peer, seen, read,
          shown, ready, secure, settled>>

diskVars == <<disk, writes>>
certVars == <<current, failed, holder>>
connVars == <<peer, seen, read, shown, settled>>
listenVars == <<loop, listening, ready>>

Missing == [stamp |-> 0, of |-> "nothing"]
NoStamps == [cert |-> MaxWrites + 1, key |-> MaxWrites + 1]
NoConn == 0

\* The stages in which a connection is in resolve, has a TlsIo, is on its way.
Resolving == {"stamp_cert", "stamp_key", "compare", "lock", "load_cert", "load_key"}
HasIo == {"ready", "served"}
OnItsWay == Resolving \cup {"hello", "finish", "ready"}
OneStamp == 0..MaxWrites + 1
Stage == OnItsWay \cup {"away", "served"}

Init ==
    /\ disk = [f \in {"cert", "key"} |-> [stamp |-> 1, of |-> FirstPair]]
    /\ writes = 1
    /\ current = [stamps |-> [cert |-> 1, key |-> 1], pair |-> FirstPair]
    /\ failed = NoStamps /\ holder = NoConn
    /\ loop = "accepting" /\ listening = TRUE /\ ready = <<>>
    /\ stage = [c \in Conns |-> "away"]
    /\ peer = [c \in Conns |-> CHOOSE p \in Peers : TRUE]
    /\ seen = [c \in Conns |-> NoStamps]
    /\ read = [c \in Conns |-> Missing]
    /\ shown = [c \in Conns |-> FirstPair]
    /\ secure = [p \in Peers |-> 0]
    /\ settled = [c \in Conns |-> FALSE]

Goes(c, s) == stage' = [stage EXCEPT ![c] = s]
-----------------------------------------------------------------------------
(***************************************************************************)
(* The operator: a file is replaced by another pair's, is left half        *)
(* written, or goes away.                                                  *)
(***************************************************************************)
Writes(f) ==
    /\ writes < MaxWrites
    /\ writes' = writes + 1
    /\ \E of \in Pairs \cup {"half", "nothing"} :
         disk' = [disk EXCEPT ![f] =
             IF of = "nothing" THEN Missing ELSE [stamp |-> writes', of |-> of]]
    /\ disk' # disk
    /\ settled' = [c \in Conns |-> FALSE]
    /\ UNCHANGED <<certVars, listenVars, stage, peer, seen, read, shown, secure>>
-----------------------------------------------------------------------------
(***************************************************************************)
(* The accept loop.                                                        *)
(***************************************************************************)

\* A socket comes, and its handshake is spawned.  (An accept that fails is
\* slept over and changes nothing.)
Accepts(c, p) ==
    /\ loop = "accepting" /\ stage[c] = "away"
    /\ Goes(c, "hello")
    /\ peer' = [peer EXCEPT ![c] = p]
    /\ UNCHANGED <<diskVars, certVars, listenVars, seen, read, shown, secure, settled>>

\* tx.closed: the listener was dropped.
LoopEnds ==
    /\ loop = "accepting" /\ ~listening
    /\ loop' = "ended"
    /\ UNCHANGED <<diskVars, certVars, listening, ready, stage, connVars, secure>>
-----------------------------------------------------------------------------
(***************************************************************************)
(* Reloading::current, which rustls calls for a ClientHello.  It does not  *)
(* await: the handshake's timeout cannot cut it short.                     *)
(***************************************************************************)
Hello(c) ==
    /\ stage[c] = "hello"
    /\ Goes(c, "stamp_cert")
    /\ settled' = [settled EXCEPT ![c] = TRUE]
    /\ UNCHANGED <<diskVars, certVars, listenVars, peer, seen, read, shown, secure>>

Stamp(c) ==
    /\ \/ stage[c] = "stamp_cert" /\ Goes(c, "stamp_key") /\ seen' = [seen EXCEPT ![c].cert = disk["cert"].stamp]
       \/ stage[c] = "stamp_key" /\ Goes(c, "compare") /\ seen' = [seen EXCEPT ![c].key = disk["key"].stamp]
    /\ UNCHANGED <<diskVars, certVars, listenVars, peer, read, shown, secure, settled>>

\* Under the read lock: nothing changed, and the pair loaded is presented.
Compare(c) ==
    /\ stage[c] = "compare" /\ holder = NoConn
    /\ IF current.stamps = seen[c]
         THEN Goes(c, "finish") /\ shown' = [shown EXCEPT ![c] = current.pair]
         ELSE Goes(c, "lock") /\ UNCHANGED shown
    /\ UNCHANGED <<diskVars, certVars, listenVars, peer, seen, read, secure, settled>>

\* Both locks taken; another handshake may have loaded the pair, or failed to.
Lock(c) ==
    /\ stage[c] = "lock" /\ holder = NoConn
    /\ IF seen[c] \in {current.stamps, failed}
         THEN /\ Goes(c, "finish") /\ shown' = [shown EXCEPT ![c] = current.pair]
              /\ UNCHANGED holder
         ELSE /\ Goes(c, "load_cert") /\ holder' = c
              /\ UNCHANGED shown
    /\ UNCHANGED <<diskVars, current, failed, listenVars, peer, seen, read, secure, settled>>

LoadCert(c) ==
    /\ stage[c] = "load_cert"
    /\ read' = [read EXCEPT ![c] = disk["cert"]]
    /\ Goes(c, "load_key")
    /\ UNCHANGED <<diskVars, certVars, listenVars, peer, seen, shown, secure, settled>>

\* The key read, and CertifiedKey::from_der: whole, and of one pair.
Loads(cert, key) == cert.of \in Pairs /\ cert.of = key.of

\* Mutant of LoadKey: the stamps as they are after the load, not as they were
\* before it.
LoadKeyThenStamp(c) ==
    /\ stage[c] = "load_key"
    /\ LET now == [f \in {"cert", "key"} |-> disk[f].stamp] IN
         IF Loads(read[c], disk["key"])
           THEN current' = [stamps |-> now, pair |-> read[c].of] /\ failed' = NoStamps
           ELSE failed' = now /\ UNCHANGED current
    /\ holder' = NoConn
    /\ shown' = [shown EXCEPT ![c] = current'.pair]
    /\ read' = [read EXCEPT ![c] = Missing]
    /\ Goes(c, "finish")
    /\ UNCHANGED <<diskVars, listenVars, peer, seen, secure, settled>>

LoadKey(c) ==
    /\ stage[c] = "load_key"
    /\ IF Loads(read[c], disk["key"])
         THEN current' = [stamps |-> seen[c], pair |-> read[c].of] /\ failed' = NoStamps
         ELSE failed' = seen[c] /\ UNCHANGED current
    /\ holder' = NoConn
    /\ shown' = [shown EXCEPT ![c] = current'.pair]
    /\ read' = [read EXCEPT ![c] = Missing]
    /\ Goes(c, "finish")
    /\ UNCHANGED <<diskVars, listenVars, peer, seen, secure, settled>>
-----------------------------------------------------------------------------
(***************************************************************************)
(* Tls::accept, and the handshake's task.                                  *)
(***************************************************************************)

\* What a connection that is gone leaves of its resolve.
Forgets(c) ==
    /\ seen' = [seen EXCEPT ![c] = NoStamps]
    /\ shown' = [shown EXCEPT ![c] = FirstPair]
    /\ settled' = [settled EXCEPT ![c] = FALSE]

\* Mutant of Refused: no time limit, so that only an error ends a handshake.
RefusedOnError(c) ==
    /\ stage[c] = "finish"
    /\ Goes(c, "away") /\ Forgets(c)
    /\ UNCHANGED <<diskVars, certVars, listenVars, peer, read, secure>>

\* Plain HTTP, a handshake that fails, or no end of it within the time.
Refused(c) ==
    /\ stage[c] \in {"hello", "finish"}
    /\ Goes(c, "away") /\ Forgets(c)
    /\ UNCHANGED <<diskVars, certVars, listenVars, peer, read, secure>>

\* Mutant of Done: the place is taken also when there is no listener.
DoneLeaks(c) ==
    /\ stage[c] = "finish" /\ Forgets(c)
    /\ IF listening
         THEN Goes(c, "ready") /\ ready' = Append(ready, c)
         ELSE Goes(c, "away") /\ UNCHANGED ready
    /\ secure' = [secure EXCEPT ![peer[c]] = @ + 1]
    /\ UNCHANGED <<diskVars, certVars, loop, listening, peer, read>>

\* The handshake is done: a TlsIo, with its place among the secure peers, sent
\* to axum.  tokio gives the channel's room to its senders in turn, so those
\* that wait for room are one queue with those that have it.  With the
\* listener gone the stream is dropped.
Done(c) ==
    /\ stage[c] = "finish" /\ Forgets(c)
    /\ IF listening
         THEN /\ Goes(c, "ready") /\ ready' = Append(ready, c)
              /\ secure' = [secure EXCEPT ![peer[c]] = @ + 1]
         ELSE /\ Goes(c, "away")
              /\ UNCHANGED <<ready, secure>>
    /\ UNCHANGED <<diskVars, certVars, loop, listening, peer, read>>
-----------------------------------------------------------------------------
(***************************************************************************)
(* axum.                                                                   *)
(***************************************************************************)

\* TlsListener::accept.
Takes ==
    /\ listening /\ ready # <<>>
    /\ ready' = Tail(ready)
    /\ Goes(Head(ready), "served")
    /\ UNCHANGED <<diskVars, certVars, loop, listening, connVars, secure>>

\* A connection ends, its upgrade included, and its stream is dropped.
Drops(c) ==
    /\ stage[c] = "served"
    /\ Goes(c, "away")
    /\ secure' = [secure EXCEPT ![peer[c]] = @ - 1]
    /\ UNCHANGED <<diskVars, certVars, listenVars, connVars>>

\* The listener is dropped, with the connections that wait in its channel.
Unlistens ==
    /\ listening
    /\ listening' = FALSE /\ ready' = <<>>
    /\ stage' = [c \in Conns |-> IF stage[c] = "ready" THEN "away" ELSE stage[c]]
    /\ secure' = [p \in Peers |-> secure[p] - Cardinality({c \in Conns : stage[c] = "ready" /\ peer[c] = p})]
    /\ UNCHANGED <<diskVars, certVars, loop, connVars>>

Resolves(c) == Stamp(c) \/ Compare(c) \/ Lock(c) \/ LoadCert(c) \/ LoadKey(c)

Next ==
    \/ \E f \in {"cert", "key"} : Writes(f)
    \/ LoopEnds \/ Takes \/ Unlistens
    \/ \E c \in Conns :
         \/ \E p \in Peers : Accepts(c, p)
         \/ Hello(c) \/ Resolves(c)
         \/ Refused(c) \/ Done(c) \/ Drops(c)

(***************************************************************************)
(* Tasks take the steps that wait for nobody, the handshake's time passes, *)
(* a lock that is free is taken, and axum accepts.  Nothing is assumed of  *)
(* peers or of the operator.                                               *)
(***************************************************************************)
Fairness ==
    /\ WF_vars(Takes)
    /\ \A c \in Conns : WF_vars(Refused(c)) /\ WF_vars(Resolves(c))

Spec == Init /\ [][Next]_vars /\ Fairness
-----------------------------------------------------------------------------
(***************************************************************************)
(* Properties.                                                             *)
(***************************************************************************)

\* The types, and the lock is with the connection that loads.
TypeOK ==
    /\ disk \in [{"cert", "key"} -> [stamp : 0..MaxWrites, of : Pairs \cup {"half", "nothing"}]]
    /\ writes \in 1..MaxWrites
    /\ current \in [stamps : [cert : OneStamp, key : OneStamp], pair : Pairs]
    /\ failed \in [cert : OneStamp, key : OneStamp]
    /\ loop \in {"accepting", "ended"} /\ listening \in BOOLEAN
    /\ stage \in [Conns -> Stage] /\ peer \in [Conns -> Peers]
    /\ seen \in [Conns -> [cert : OneStamp, key : OneStamp]]
    /\ read \in [Conns -> [stamp : 0..MaxWrites, of : Pairs \cup {"half", "nothing"}]]
    /\ shown \in [Conns -> Pairs]
    /\ ready \in Seq(Conns)
    /\ secure \in [Peers -> Nat] /\ settled \in [Conns -> BOOLEAN]
    /\ \A c \in Conns : holder = c <=> stage[c] \in {"load_cert", "load_key"}

\* A handshake during which no file changed presents the pair on disk, if
\* that is whole and of one pair, whatever other handshakes loaded, failed to
\* load or stored under older stamps, and whatever the files were in between
\* (Reloading::current: stamps are read without a lock, before the files).
ServesDisk ==
    \A c \in Conns :
        stage[c] = "finish" /\ settled[c] /\ Loads(disk["cert"], disk["key"])
            => shown[c] = disk["cert"].of

\* A peer is secure exactly while a TLS stream of its address exists, waiting
\* for axum or served, and however it is dropped
\* (secure_peers: what SecureTransport asks).  The types are right with it.
SecureIsOpen ==
    TypeOK /\ \A p \in Peers :
        secure[p] = Cardinality({c \in Conns : stage[c] \in HasIo /\ peer[c] = p})

\* Every socket accepted is handed to axum or gone in the end: a peer that
\* says nothing is timed out and holds up nobody, a load that fails lets go of
\* the locks, and a stream that finds no listener is dropped (TlsListener::new).
HandshakeEnds ==
    \A c \in Conns : stage[c] \in OnItsWay ~> stage[c] \in {"served", "away"}
=============================================================================
