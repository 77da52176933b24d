------------------------------ MODULE Forwarded ------------------------------
(***************************************************************************)
(* Who a request comes from (proxy.rs).  A client writes whatever          *)
(* X-Forwarded-For and X-Forwarded-Proto it likes, each proxy on the way   *)
(* adds what it saw, and the server, which knows only the address of its   *)
(* peer, the two headers and the set of proxies it was told to trust, names*)
(* a client and says whether it came securely.                             *)
(*                                                                         *)
(* The state is the request on its way: the addresses it really passed     *)
(* (path), the scheme of each leg (legs) and the two header lists.  The    *)
(* proxies the port knows (nets) and those of the process (trusted, what   *)
(* the OnceLock TRUSTED holds and the extractors ClientIp and              *)
(* SecureTransport read) are settled when the servers start; they are kept *)
(* from the request's arrival on, as long as they are read.                *)
(*                                                                         *)
(* An address is a model value and a network is the set of its addresses.  *)
(* As written it has a form: bare, with a port, or IPv4 mapped into IPv6;  *)
(* parse_hop and canonical give the address of each.  An empty set of      *)
(* proxies that was named is the operator's `none`, which is a             *)
(* configuration too.                                                      *)
(*                                                                         *)
(* A header may have several lines, and a client can write one that is no  *)
(* text.  list drops such a line whole, with what a proxy added to it, so  *)
(* the two lists here hold what list reads of the headers.                 *)
(***************************************************************************)
EXTENDS Naturals, Sequences, FiniteSets

CONSTANTS
    Clients,     \* addresses nobody trusts
    Loopback,    \* the addresses of the machine itself, proxies on it included
    Proxies,     \* addresses of proxies, each honest about its own peer
    NetSets,     \* sets of proxies an operator may name
    MaxForged,   \* bound: entries the client writes in each header
    MaxRelays    \* bound: proxies on the way

ASSUME ForwardedAssumption ==
    /\ Clients \cap Proxies = {}
    /\ Loopback \subseteq Clients \cup Proxies
    /\ NetSets \subseteq SUBSET Proxies /\ {} \in NetSets
    /\ {MaxForged, MaxRelays} \subseteq Nat

\* Settings of at most one value.
Settings(S) == {{}} \cup {{v} : v \in S}

VARIABLES
    path,     \* the addresses the request really passed
    legs,     \* the scheme of each leg between them
    xff,      \* what list reads of X-Forwarded-For
    proto,    \* what list reads of X-Forwarded-Proto
    noText,   \* the headers with a line that is no text
    lost,     \* those where a proxy wrote into such a line (history)
    nets,     \* the port's proxies
    trusted   \* the process's, once they are set

forwardedVars == <<path, legs, xff, proto, noText, lost, nets, trusted>>

Addresses == Clients \cup Proxies
Headers == {"for", "proto"}
Schemes == {"http", "https"}

NotSet == "not set"

Forms == {"bare", "port", "mapped"}
Junk == [ip |-> NotSet, form |-> "junk"]
Hops == [ip : Addresses, form : Forms] \cup {Junk}

\* Sequences over S of at most n elements.
UpTo(S, n) == UNION {[1 .. k -> S] : k \in 0 .. n}

-----------------------------------------------------------------------------
(* What the proxies in front say. *)

\* canonical: the address, mapped or not.
Canonical(a) == [a EXCEPT !.form = "bare"]

\* parse_hop: the address of a hop, with a port or without; NotSet for junk.
ParseHop(h) == Canonical(h).ip

Contains(known, ip) == ip \in known

\* The hops the walk from the right passes: trusted, with only trusted ones
\* after them.
Passed(known, hops) ==
    {i \in 1 .. Len(hops) :
        \A j \in i .. Len(hops) : Contains(known, ParseHop(hops[j]))}

\* Mutant: the first hop of the list is the client.
ClientAtLeftmost(known, hops) == IF hops = <<>> THEN 0 ELSE 1

\* The index of the client in the list, 0 for the peer itself: the hop the walk
\* stops at when that is an address, else the last one it passed.
ClientAt(known, hops) ==
    LET stop == Len(hops) - Cardinality(Passed(known, hops))
    IN  IF stop > 0 /\ hops[stop] # Junk THEN stop
        ELSE IF stop < Len(hops) THEN stop + 1 ELSE 0

\* Mutant: the client's index is looked up whether or not the lists line up.
ProtoAtIndex(at, hops, protos) ==
    IF at \in 1 .. Len(protos) THEN at ELSE Len(protos)

\* The entry of X-Forwarded-Proto that belongs to the client's hop when the
\* lists are as long as each other, else the rightmost; 0 for none.
ProtoAt(at, hops, protos) ==
    IF at > 0 /\ Len(protos) = Len(hops) THEN at ELSE Len(protos)

\* TrustedProxies::resolve.
Resolve(known, peer, hops, protos) ==
    IF ~Contains(known, peer)
    THEN [ip |-> peer, via |-> FALSE, secure |-> known = {} /\ peer \in Loopback]
    ELSE LET at == ClientAt(known, hops)
             p  == ProtoAt(at, hops, protos)
         IN  [ip |-> IF at = 0 THEN peer ELSE ParseHop(hops[at]),
              via |-> TRUE,
              secure |-> p > 0 /\ protos[p] = "https"]

\* client_of: a connection over the transport's own TLS is secure unless a
\* proxy speaks for it.
ClientOf(known, tls, peer, hops, protos) ==
    LET c == Resolve(known, peer, hops, protos)
    IN  [c EXCEPT !.secure = @ \/ (tls /\ ~c.via)]

\* trusted_proxies: the process's set, none until a server named one.  What may
\* be unset, here and below, is a set of at most one value.
TrustedProxies == UNION trusted

\* Mutant: the legacy switch is asked before the process's set.
ClientIpLegacyFirst(legacy, real, peer, hops) ==
    IF legacy /\ hops # <<>> /\ hops[1].form \in {"bare", "mapped"}
    THEN hops[1].ip
    ELSE Resolve(TrustedProxies, peer, hops, <<>>).ip

\* ClientIp::extract_from_raw.  A configured set wins over the legacy switch,
\* which believes the first hop of anyone, when it is an address alone, and
\* X-Real-IP after it.  The switch reads the header's first line alone: where
\* that one is no text, it is taken here for the first that is.
ClientIp(legacy, real, peer, hops) ==
    IF trusted = {} /\ legacy /\ hops # <<>> /\ hops[1].form \in {"bare", "mapped"}
    THEN hops[1].ip
    ELSE IF trusted = {} /\ legacy /\ real # NotSet THEN real
    ELSE Resolve(TrustedProxies, peer, hops, <<>>).ip

\* SecureTransport::check, enforcement on.
SecureTransport(tls, peer, hops, protos) ==
    LET c == Resolve(TrustedProxies, peer, hops, protos)
    IN  c.secure \/ (tls /\ ~c.via)

-----------------------------------------------------------------------------
(* The request on its way. *)

ForwardedInit ==
    /\ path = <<>> /\ legs = <<>> /\ xff = <<>> /\ proto = <<>>
    /\ noText = {} /\ lost = {} /\ nets = {} /\ trusted = {}

\* TransportServer::serve: the builder's proxies, when it names any, are the
\* port's, over those of the port's own configuration.
PortNets(said, own) == IF said # {} THEN UNION said ELSE own

\* init_trusted_proxies: the first server of the process that named a set.
InitTrusted(before, said) == IF before # {} THEN before ELSE said

\* A client sends a request with headers of its own making.
Write(c, hops, words, raw) ==
    /\ path = <<>>
    /\ path' = <<c>> /\ xff' = hops /\ proto' = words /\ noText' = raw
    /\ UNCHANGED <<legs, lost, nets, trusted>>

\* Where a proxy writes its entry: in a line of its own or of text, in a header
\* it writes anew, or in a line that is no text, alone or with all of them
\* joined to it.
Ways == {"read", "anew", "into", "joined"}

\* The list after a proxy wrote its entry.
Added(before, entry, way) ==
    IF way = "read" THEN Append(before, entry)
    ELSE IF way = "anew" THEN <<entry>>
    ELSE IF way = "into" THEN before ELSE <<>>

\* A proxy passes the request on: it adds the address it took it from and the
\* scheme it came over.  The first proxy may write either header anew.
Relay(p, leg, form, ways) ==
    LET unread == {h \in Headers : ways[h] \in {"into", "joined"}}
    IN  /\ path # <<>> /\ Len(legs) < MaxRelays
        /\ unread \subseteq noText
        /\ legs # <<>> => \A h \in Headers : ways[h] # "anew"
        /\ xff' = Added(xff, [ip |-> path[Len(path)], form |-> form], ways["for"])
        /\ proto' = Added(proto, leg, ways["proto"])
        /\ noText' = noText \ {h \in Headers : ways[h] = "anew"}
        /\ lost' = lost \cup unread
        /\ legs' = Append(legs, leg)
        /\ path' = Append(path, p)
        /\ UNCHANGED <<nets, trusted>>

\* The lists are read and the request is no longer on its way.
Forget ==
    /\ path' = <<>> /\ legs' = <<>> /\ xff' = <<>> /\ proto' = <<>>
    /\ noText' = {} /\ lost' = {} /\ nets' = {} /\ trusted' = {}

OnTheWay ==
    \/ \E c \in Clients, hops \in UpTo(Hops, MaxForged), words \in UpTo(Schemes, MaxForged),
           raw \in SUBSET Headers :
         Write(c, hops, words, raw)
    \/ \E p \in Proxies : Write(p, <<>>, <<>>, {})
    \/ \E p \in Proxies, leg \in Schemes, f \in {"bare", "port"}, ways \in [Headers -> Ways] :
         Relay(p, leg, f, ways)

-----------------------------------------------------------------------------
(* What the server should say, from where the request really went. *)

\* The server's peer, as the socket gives its address.
Peer(form) == Canonical([ip |-> path[Len(path)], form |-> form]).ip

\* The last address on the way that the server does not trust, the first of all
\* when it trusts every one: past it, all that is written is hearsay.
Origin(known) ==
    LET strangers == {i \in 1 .. Len(path) : path[i] \notin known}
    IN  IF strangers = {} THEN 1 ELSE CHOOSE i \in strangers : \A j \in strangers : j <= i

\* A trusted proxy took the request over https, from the client or after it.
TrustedHttps(known) ==
    \E i \in Origin(known) .. Len(legs) : legs[i] = "https" /\ path[i + 1] \in known

ForwardedTypeOK ==
    /\ path \in UpTo(Addresses, MaxRelays + 1)
    /\ legs \in UpTo(Schemes, MaxRelays)
    /\ \A i \in 1 .. Len(xff) : xff[i] \in Hops
    /\ \A i \in 1 .. Len(proto) : proto[i] \in Schemes
    /\ noText \subseteq Headers /\ lost \subseteq noText
    /\ trusted \subseteq NetSets /\ Cardinality(trusted) <= 1
    /\ nets \in NetSets
=============================================================================
