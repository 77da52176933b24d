--------------------------- MODULE GatewaysProofs ---------------------------
(***************************************************************************)
(* For every length of the lists and of the way, every set of proxies and  *)
(* every limit: the client a port names is the one that connected, a key   *)
(* that is configured is asked for, a refused credential is not taken for  *)
(* none, and an answer that says ok is whole.                              *)
(***************************************************************************)
EXTENDS Gateways, FiniteSetTheorems, WellFoundedInduction, TLAPS

(***************************************************************************)
(* The way of a request: what the lists hold of it.                        *)
(***************************************************************************)

\* Unless an entry was lost, X-Forwarded-For ends with what the proxies wrote, an
\* entry a leg in order; what a client wrote comes before it.
HopsOK ==
    "for" \notin lost =>
        /\ Len(legs) <= Len(xff)
        /\ \A i \in 1 .. Len(legs) :
              /\ xff[Len(xff) - Len(legs) + i].ip = path[i]
              /\ xff[Len(xff) - Len(legs) + i].form # "junk"

\* So does X-Forwarded-Proto.
WordsOK ==
    "proto" \notin lost =>
        /\ Len(legs) <= Len(proto)
        /\ \A i \in 1 .. Len(legs) : proto[Len(proto) - Len(legs) + i] = legs[i]

\* A proxy writes nothing of its own, and no entry is lost but into a line that
\* is no text.
WayOK ==
    /\ path \in Seq(Addresses) /\ legs \in Seq(Schemes) /\ xff \in Seq(Hops) /\ proto \in Seq(Schemes)
    /\ noText \subseteq Headers /\ lost \subseteq noText
    /\ Len(legs) <= MaxRelays
    /\ path = <<>> => legs = <<>> /\ xff = <<>> /\ proto = <<>>
    /\ legs = <<>> => lost = {}
    /\ path # <<>> => Len(path) = Len(legs) + 1
    /\ HopsOK /\ WordsOK
    /\ path # <<>> /\ path[1] \in Proxies =>
          noText = {} /\ Len(xff) = Len(legs) /\ Len(proto) = Len(legs)

\* A set of places in a list that is not empty has a last one.
LEMMA LastOne ==
    ASSUME NEW n \in Nat, NEW S, S \subseteq 1 .. n, S # {}
    PROVE  \E i \in S : \A j \in S : j <= i
  <1> DEFINE T == {x \in Nat : n - x \in S}
  <1>0. PICK i0 \in S : TRUE
    OBVIOUS
  <1>1. T \subseteq Nat /\ T # {}
    <2>1. n - i0 \in T
      BY <1>0
    <2> QED
      BY <2>1
  <1>2. PICK x \in T : \A y \in T : ~(<<y, x>> \in OpToRel(<, Nat))
    BY <1>1, WFMin, NatLessThanWellFounded
  <1>3. \A y \in T : x <= y
    <2> SUFFICES ASSUME NEW y \in T PROVE x <= y
      OBVIOUS
    <2>1. x \in Nat /\ y \in Nat
      BY <1>1
    <2>2. ~(<<y, x>> \in {ss \in Nat \X Nat : ss[1] < ss[2]})
      BY <1>2 DEF OpToRel
    <2> QED
      BY <2>1, <2>2
  <1>4. ASSUME NEW j \in S PROVE j <= n - x
    <2>1. n - j \in T
      OBVIOUS
    <2> QED
      BY <1>1, <1>3, <2>1
  <1>5. n - x \in S
    BY <1>2
  <1> QED
    BY <1>4, <1>5

\* The origin of a request: all that came after it is trusted, and it is not,
\* unless all of the way is.
LEMMA OriginIs ==
    ASSUME WayOK, path # <<>>, NEW known
    PROVE  /\ Origin(known) \in 1 .. Len(path)
           /\ \A j \in (Origin(known) + 1) .. Len(path) : path[j] \in known
           /\ path[Origin(known)] \in known => Origin(known) = 1
  <1> DEFINE S == {i \in 1 .. Len(path) : path[i] \notin known}
  <1>1. Len(path) \in Nat /\ 1 <= Len(path)
    BY DEF WayOK
  <1>2. CASE S = {}
    <2>1. Origin(known) = 1
      BY <1>2 DEF Origin
    <2> QED
      BY <1>1, <1>2, <2>1
  <1>3. CASE S # {}
    <2>1. \E i \in S : \A j \in S : j <= i
      BY <1>1, <1>3, LastOne
    <2>2. Origin(known) = CHOOSE i \in S : \A j \in S : j <= i
      BY <1>3 DEF Origin
    <2>3. Origin(known) \in S /\ \A j \in S : j <= Origin(known)
      BY <2>1, <2>2
    <2> QED
      BY <1>1, <2>3
  <1> QED
    BY <1>2, <1>3

\* The walk from the right passes what comes after the last hop that is not
\* trusted.
LEMMA WalkStops ==
    ASSUME NEW known, NEW hops, Len(hops) \in Nat, NEW stop \in 0 .. Len(hops),
           stop > 0 => ParseHop(hops[stop]) \notin known,
           \A j \in (stop + 1) .. Len(hops) : ParseHop(hops[j]) \in known
    PROVE  Len(hops) - Cardinality(Passed(known, hops)) = stop
  <1>1. Passed(known, hops) = (stop + 1) .. Len(hops)
    BY DEF Passed, Contains
  <1>2. Cardinality((stop + 1) .. Len(hops)) = Len(hops) - stop
    <2>1. stop + 1 \in Int /\ Len(hops) \in Int
      OBVIOUS
    <2>2. Cardinality((stop + 1) .. Len(hops)) = IF stop + 1 > Len(hops) THEN 0 ELSE Len(hops) - (stop + 1) + 1
      BY <2>1, FS_Interval
    <2> QED
      BY <2>2
  <1> QED
    BY <1>1, <1>2

\* What the walk picks is in the list, or the peer.
LEMMA ClientIsListed ==
    ASSUME NEW known, NEW hops, Len(hops) \in Nat
    PROVE  ClientAt(known, hops) \in 0 .. Len(hops)
  <1>1. Passed(known, hops) \subseteq 1 .. Len(hops)
    BY DEF Passed
  <1>2. IsFiniteSet(1 .. Len(hops)) /\ Cardinality(1 .. Len(hops)) = Len(hops)
    <2>1. 1 \in Int /\ Len(hops) \in Int
      OBVIOUS
    <2>2. /\ IsFiniteSet(1 .. Len(hops))
          /\ Cardinality(1 .. Len(hops)) = IF 1 > Len(hops) THEN 0 ELSE Len(hops) - 1 + 1
      BY <2>1, FS_Interval
    <2> QED
      BY <2>2
  <1>3. Cardinality(Passed(known, hops)) \in Nat /\ Cardinality(Passed(known, hops)) <= Len(hops)
    BY <1>1, <1>2, FS_Subset, FS_CardinalityType
  <1> QED
    BY <1>3 DEF ClientAt

\* The hop of the list that the walk takes for the client is the origin's, when
\* none was lost.
LEMMA ClientIsOrigin ==
    ASSUME WayOK, "for" \notin lost, path # <<>>, NEW known, known \subseteq Proxies, path[Len(path)] \in known
    PROVE  /\ Len(legs) = 0 => ClientAt(known, xff) = 0
           /\ Len(legs) > 0 =>
                 /\ Origin(known) \in 1 .. Len(legs)
                 /\ ClientAt(known, xff) = Len(xff) - Len(legs) + Origin(known)
  <1> DEFINE o == Origin(known)
             d == Len(xff) - Len(legs)
  <1>1. o \in 1 .. Len(path) /\ (\A j \in (o + 1) .. Len(path) : path[j] \in known)
          /\ (path[o] \in known => o = 1)
    BY OriginIs
  <1>2. Len(legs) \in Nat /\ Len(xff) \in Nat /\ Len(path) = Len(legs) + 1 /\ d \in Nat
    BY DEF WayOK, HopsOK
  <1>3. \A i \in 1 .. Len(legs) : xff[d + i] \in Hops /\ ParseHop(xff[d + i]) = path[i] /\ xff[d + i] # Junk
    <2> SUFFICES ASSUME NEW i \in 1 .. Len(legs)
                 PROVE  xff[d + i] \in Hops /\ ParseHop(xff[d + i]) = path[i] /\ xff[d + i] # Junk
      OBVIOUS
    <2>1. d + i \in 1 .. Len(xff) /\ xff \in Seq(Hops)
      BY <1>2 DEF WayOK
    <2>2. xff[d + i] \in Hops
      BY <2>1
    <2>3. xff[d + i].ip = path[i] /\ xff[d + i].form # "junk"
      BY DEF WayOK, HopsOK
    <2> QED
      BY <2>2, <2>3 DEF ParseHop, Canonical, Hops, Junk
  <1> HIDE DEF o, d
  <1>4. CASE path[o] \notin known
    <2>1. o \in 1 .. Len(legs)
      BY <1>1, <1>2, <1>4
    <2>2. Len(xff) - Cardinality(Passed(known, xff)) = d + o
      <3>1. d + o \in 0 .. Len(xff)
        BY <1>2, <2>1 DEF d
      <3>2. ParseHop(xff[d + o]) \notin known
        BY <1>3, <1>4, <2>1
      <3>3. ASSUME NEW j \in (d + o + 1) .. Len(xff) PROVE ParseHop(xff[j]) \in known
        <4>1. j - d \in (o + 1) .. Len(legs) /\ j = d + (j - d) /\ j - d \in 1 .. Len(legs)
          BY <1>2, <2>1, <3>3 DEF d
        <4>2. ParseHop(xff[d + (j - d)]) = path[j - d]
          BY <1>3, <4>1
        <4>3. path[j - d] \in known
          BY <1>1, <1>2, <4>1
        <4> QED
          BY <4>1, <4>2, <4>3
      <3> QED
        BY <1>2, <3>1, <3>2, <3>3, WalkStops
    <2>3. ClientAt(known, xff) = d + o
      BY <1>2, <1>3, <2>1, <2>2 DEF ClientAt
    <2> QED
      BY <1>2, <2>1, <2>3 DEF o, d
  <1>5. CASE path[o] \in known
    <2>1. o = 1 /\ \A j \in 1 .. Len(path) : path[j] \in known
      BY <1>1, <1>5
    <2>2. Len(xff) = Len(legs) /\ d = 0
      BY <1>2, <2>1 DEF WayOK, d
    <2>3. Len(xff) - Cardinality(Passed(known, xff)) = 0
      <3>1. ASSUME NEW j \in 1 .. Len(xff) PROVE ParseHop(xff[j]) \in known
        BY <1>2, <1>3, <2>1, <2>2, <3>1
      <3> QED
        BY <1>2, <3>1, WalkStops
    <2>4. ClientAt(known, xff) = IF 0 < Len(xff) THEN 1 ELSE 0
      BY <1>2, <2>3 DEF ClientAt
    <2> QED
      BY <1>2, <2>1, <2>2, <2>4 DEF o, d
  <1> QED
    BY <1>4, <1>5

\* The peer is the last address on the way, whatever its socket writes it as.
LEMMA PeerIs == ASSUME NEW form PROVE Peer(form) = path[Len(path)]
  BY DEF Peer, Canonical

\* client_of names the origin, and calls it secure on a trusted proxy's word
\* alone when it came through any, unless what a proxy wrote was lost.
LEMMA NamedIsOrigin ==
    ASSUME WayOK, path # <<>>, NEW known, known \subseteq Proxies, NEW over \in BOOLEAN, NEW form
    PROVE  LET c == ClientOf(known, over, Peer(form), xff, proto)
           IN  /\ c.ip \in Addresses \cup {NotSet} /\ (c.via => path[Len(path)] \in known)
               /\ c.ip = path[Origin(known)] \/ (c.via /\ "for" \in lost)
               /\ c.via /\ c.secure /\ lost = {} => TrustedHttps(known)
  <1> DEFINE o == Origin(known)
             r == Resolve(known, Peer(form), xff, proto)
             c == ClientOf(known, over, Peer(form), xff, proto)
  <1>1. o \in 1 .. Len(path) /\ (\A j \in (o + 1) .. Len(path) : path[j] \in known)
          /\ (path[o] \in known => o = 1)
    BY OriginIs
  <1>2. /\ Len(legs) \in Nat /\ Len(xff) \in Nat /\ Len(proto) \in Nat /\ Len(path) = Len(legs) + 1
        /\ "for" \notin lost => Len(legs) <= Len(xff)
        /\ "proto" \notin lost => Len(legs) <= Len(proto)
    BY DEF WayOK, HopsOK, WordsOK
  <1>3. path[o] \in Addresses
    BY <1>1 DEF WayOK
  <1>4. c = [r EXCEPT !.secure = @ \/ (over /\ ~r.via)]
    BY DEF ClientOf
  <1>5. CASE path[Len(path)] \notin known
    <2>1. o = Len(path)
      BY <1>1, <1>2, <1>5
    <2>2. r = [ip |-> path[Len(path)], via |-> FALSE, secure |-> known = {} /\ path[Len(path)] \in Loopback]
      BY <1>5, PeerIs DEF Resolve, Contains
    <2>3. c.ip = path[Len(path)] /\ ~c.via
      BY <1>4, <2>2
    <2> QED
      BY <1>3, <2>1, <2>3
  <1>6. CASE path[Len(path)] \in known
    <2> DEFINE at == ClientAt(known, xff)
               p == ProtoAt(at, xff, proto)
               ip == IF at = 0 THEN path[Len(path)] ELSE ParseHop(xff[at])
               word == p > 0 /\ proto[p] = "https"
    <2>1. r = [ip |-> ip, via |-> TRUE, secure |-> word] /\ word \in BOOLEAN
      BY <1>6, PeerIs DEF Resolve, Contains
    <2>2. c.ip = ip /\ c.via = TRUE /\ (c.secure <=> word)
      <3> HIDE DEF ip, word, c, r
      <3>1. r.ip = ip /\ r.via = TRUE /\ r.secure = word
        BY <2>1
      <3>2. c = [r EXCEPT !.secure = word \/ (over /\ ~TRUE)]
        BY <1>4, <3>1
      <3>3. c.ip = ip /\ c.via = TRUE /\ c.secure = (word \/ (over /\ ~TRUE))
        BY <2>1, <3>2
      <3> QED
        BY <2>1, <3>3
    <2>3. "for" \notin lost =>
            /\ Len(legs) = 0 => at = 0
            /\ Len(legs) > 0 => o \in 1 .. Len(legs) /\ at = Len(xff) - Len(legs) + o
      BY <1>6, ClientIsOrigin
    <2>0. ip \in Addresses \cup {NotSet}
      <3>1. at \in 0 .. Len(xff)
        BY <1>2, ClientIsListed
      <3>2. CASE at = 0
        BY <1>2, <3>2 DEF WayOK
      <3>3. CASE at # 0
        <4>1. xff \in Seq(Hops) /\ at \in 1 .. Len(xff)
          BY <1>2, <3>1, <3>3 DEF WayOK
        <4>2. xff[at] \in Hops
          BY <4>1
        <4>3. ParseHop(xff[at]) \in Addresses \cup {NotSet}
          BY <4>2 DEF ParseHop, Canonical, Hops, Junk
        <4> QED
          BY <3>3, <4>3
      <3> QED
        BY <3>2, <3>3
    <2>6. CASE "for" \in lost
      BY <1>6, <2>0, <2>1, <2>2, <2>6
    <2>4. CASE "for" \notin lost /\ Len(legs) = 0
      <3>1. o = 1 /\ Len(path) = 1 /\ path[1] \in Proxies
        BY <1>1, <1>2, <1>6, <2>4
      <3>2. Len(proto) = 0
        BY <2>4, <3>1 DEF WayOK
      <3>3. p = 0
        BY <2>3, <2>4, <3>2 DEF ProtoAt
      <3>4. ~c.secure /\ c.ip = path[o]
        BY <2>1, <2>2, <2>3, <2>4, <3>1, <3>3
      <3> QED
        BY <1>6, <2>0, <2>2, <3>4
    <2>5. CASE "for" \notin lost /\ Len(legs) > 0
      <3>1. o \in 1 .. Len(legs) /\ at = Len(xff) - Len(legs) + o /\ at > 0
        BY <1>2, <2>3, <2>5
      <3>2. ParseHop(xff[at]) = path[o]
        <4>1. xff[at].ip = path[o] /\ at \in 1 .. Len(xff) /\ xff \in Seq(Hops)
          BY <1>2, <2>5, <3>1 DEF WayOK, HopsOK
        <4>2. xff[at] \in Hops
          BY <4>1
        <4> QED
          BY <4>1, <4>2 DEF ParseHop, Canonical, Hops, Junk
      <3>3. c.ip = path[o]
        BY <2>1, <2>2, <3>1, <3>2
      <3>4. ASSUME c.secure, lost = {} PROVE TrustedHttps(known)
        <4>1. p > 0 /\ proto[p] = "https"
          BY <2>2, <3>4
        <4>2. CASE Len(proto) = Len(xff)
          <5>1. p = Len(proto) - Len(legs) + o
            BY <3>1, <4>2 DEF ProtoAt
          <5>2. legs[o] = "https"
            BY <3>1, <3>4, <4>1, <5>1 DEF WayOK, WordsOK
          <5>3. path[o + 1] \in known
            BY <1>1, <1>2, <3>1
          <5> QED
            BY <1>2, <3>1, <5>2, <5>3 DEF TrustedHttps
        <4>3. CASE Len(proto) # Len(xff)
          <5>1. p = Len(proto) - Len(legs) + Len(legs)
            BY <1>2, <3>4, <4>3 DEF ProtoAt
          <5>2. legs[Len(legs)] = "https"
            BY <1>2, <2>5, <3>4, <4>1, <5>1 DEF WayOK, WordsOK
          <5>3. path[Len(legs) + 1] \in known
            BY <1>2, <1>6
          <5> QED
            BY <1>2, <2>5, <3>1, <5>2, <5>3 DEF TrustedHttps
        <4> QED
          BY <4>2, <4>3
      <3> QED
        BY <1>6, <2>0, <2>2, <3>3, <3>4
    <2> QED
      BY <1>2, <2>4, <2>5, <2>6
  <1> QED
    BY <1>5, <1>6

\* The request on its way keeps the lists as WayOK says; one that is forgotten
\* has none.
LEMMA WayKept == ASSUME WayOK, OnTheWay PROVE WayOK'
  <1>1. ASSUME NEW c \in Clients, NEW hops \in UpTo(Hops, MaxForged), NEW words \in UpTo(Schemes, MaxForged),
               NEW raw \in SUBSET Headers, Write(c, hops, words, raw)
        PROVE  WayOK'
    <2>1. hops \in Seq(Hops) /\ words \in Seq(Schemes)
      BY ForwardedAssumption DEF UpTo
    <2>2. path' = <<c>> /\ xff' = hops /\ proto' = words /\ legs' = <<>> /\ c \notin Proxies
          /\ noText' = raw /\ lost' = {}
      BY <1>1, ForwardedAssumption DEF Write, WayOK
    <2> QED
      BY <2>1, <2>2, ForwardedAssumption DEF WayOK, HopsOK, WordsOK, Addresses
  <1>2. ASSUME NEW p \in Proxies, Write(p, <<>>, <<>>, {}) PROVE WayOK'
    BY <1>2, ForwardedAssumption DEF WayOK, HopsOK, WordsOK, Write, Addresses
  <1>3. ASSUME NEW p \in Proxies, NEW leg \in Schemes, NEW f \in {"bare", "port"},
               NEW ways \in [Headers -> Ways], Relay(p, leg, f, ways)
        PROVE  WayOK'
    <2> DEFINE hop == [ip |-> path[Len(path)], form |-> f]
               hops == IF ways["for"] = "anew" THEN <<>> ELSE xff
               words == IF ways["proto"] = "anew" THEN <<>> ELSE proto
               unread == {h \in Headers : ways[h] \in {"into", "joined"}}
    <2>1. /\ path # <<>> /\ Len(legs) < MaxRelays /\ unread \subseteq noText
          /\ legs # <<>> => ways["for"] # "anew" /\ ways["proto"] # "anew"
          /\ xff' = Added(xff, hop, ways["for"]) /\ proto' = Added(proto, leg, ways["proto"])
          /\ noText' = noText \ {h \in Headers : ways[h] = "anew"} /\ lost' = lost \cup unread
          /\ legs' = Append(legs, leg) /\ path' = Append(path, p)
      BY <1>3 DEF Relay, Headers
    <2>2. Len(path) = Len(legs) + 1 /\ Len(path) \in Nat /\ Len(legs) \in Nat
      BY <2>1 DEF WayOK
    <2>3. hop \in Hops /\ hop.form # "junk" /\ p \in Addresses
      BY <2>2 DEF WayOK, Hops, Forms, Addresses
    <2>4. hops \in Seq(Hops) /\ words \in Seq(Schemes)
      BY DEF WayOK
    <2>w. ways["for"] \in Ways /\ ways["proto"] \in Ways
      BY DEF Headers
    <2>a. xff' \in Seq(Hops) /\ proto' \in Seq(Schemes)
      BY <2>1, <2>3 DEF WayOK, Added
    <2>b. noText' \subseteq Headers /\ lost' \subseteq noText'
      <3>1. ASSUME NEW h \in lost' PROVE h \in noText'
        <4>1. CASE h \in unread
          BY <2>1, <4>1
        <4>2. CASE h \in lost
          BY <2>1, <4>2 DEF WayOK, Headers
        <4> QED
          BY <2>1, <3>1, <4>1, <4>2
      <3> QED
        BY <2>1, <3>1 DEF WayOK
    <2>c. "for" \notin lost' => "for" \notin lost /\ xff' = Append(hops, hop)
      BY <2>1, <2>w DEF Ways, Added, Headers
    <2>d. "proto" \notin lost' => "proto" \notin lost /\ proto' = Append(words, leg)
      BY <2>1, <2>w DEF Ways, Added, Headers
    <2>5. /\ "for" \notin lost => Len(legs) <= Len(hops)
          /\ "proto" \notin lost => Len(legs) <= Len(words)
      BY <2>1, <2>2 DEF WayOK, HopsOK, WordsOK
    <2>6. /\ "for" \notin lost =>
               \A i \in 1 .. Len(legs) :
                  /\ hops[Len(hops) - Len(legs) + i].ip = path[i]
                  /\ hops[Len(hops) - Len(legs) + i].form # "junk"
          /\ "proto" \notin lost =>
               \A i \in 1 .. Len(legs) : words[Len(words) - Len(legs) + i] = legs[i]
      BY <2>1, <2>2 DEF WayOK, HopsOK, WordsOK
    <2>7. path[1] \in Proxies => noText = {} /\ Len(hops) = Len(legs) /\ Len(words) = Len(legs)
      BY <2>1, <2>2 DEF WayOK
    <2> HIDE DEF hop, hops, words, unread
    <2>10. /\ path' \in Seq(Addresses) /\ legs' \in Seq(Schemes)
           /\ Len(path') = Len(path) + 1 /\ Len(legs') = Len(legs) + 1 /\ path' # <<>>
           /\ legs'[Len(legs) + 1] = leg
           /\ \A i \in 1 .. Len(path) : path'[i] = path[i]
           /\ \A i \in 1 .. Len(legs) : legs'[i] = legs[i]
      BY <2>1, <2>3 DEF WayOK
    <2>11. Len(hops) \in Nat /\ Len(words) \in Nat
      BY <2>4
    <2>8. ASSUME "for" \notin lost'
          PROVE  /\ Len(xff') = Len(hops) + 1 /\ xff'[Len(hops) + 1] = hop
                 /\ \A i \in 1 .. Len(hops) : xff'[i] = hops[i]
      BY <2>3, <2>4, <2>8, <2>c
    <2>9. ASSUME "proto" \notin lost'
          PROVE  /\ Len(proto') = Len(words) + 1 /\ proto'[Len(words) + 1] = leg
                 /\ \A i \in 1 .. Len(words) : proto'[i] = words[i]
      BY <2>4, <2>9, <2>d
    <2>12. HopsOK'
      <3> SUFFICES ASSUME "for" \notin lost'
                   PROVE  /\ Len(legs') <= Len(xff')
                          /\ \A i \in 1 .. Len(legs') :
                                /\ xff'[Len(xff') - Len(legs') + i].ip = path'[i]
                                /\ xff'[Len(xff') - Len(legs') + i].form # "junk"
        BY DEF HopsOK
      <3>1. Len(legs') <= Len(xff')
        BY <2>2, <2>5, <2>8, <2>10, <2>11, <2>c
      <3>2. ASSUME NEW i \in 1 .. Len(legs')
            PROVE  /\ xff'[Len(xff') - Len(legs') + i].ip = path'[i]
                   /\ xff'[Len(xff') - Len(legs') + i].form # "junk"
        <4>1. Len(xff') - Len(legs') + i = Len(hops) - Len(legs) + i
          <5>1. Len(xff') = Len(hops) + 1 /\ Len(legs') = Len(legs) + 1
            BY <2>8, <2>10
          <5>2. i \in Int
            BY <2>2, <5>1
          <5> QED
            BY <2>2, <2>11, <5>1, <5>2
        <4>2. CASE i = Len(legs) + 1
          <5>1. xff'[Len(hops) - Len(legs) + i] = hop
            BY <2>2, <2>8, <2>11, <4>2
          <5>2. path'[i] = hop.ip
            BY <2>2, <2>10, <4>2 DEF hop
          <5> QED
            BY <2>3, <4>1, <5>1, <5>2
        <4>3. CASE i # Len(legs) + 1
          <5>1. i \in 1 .. Len(legs) /\ i \in 1 .. Len(path)
            BY <2>2, <2>10, <4>3
          <5>2. Len(hops) - Len(legs) + i \in 1 .. Len(hops)
            BY <2>2, <2>5, <2>11, <2>c, <5>1
          <5>3. xff'[Len(hops) - Len(legs) + i] = hops[Len(hops) - Len(legs) + i]
            BY <2>8, <5>2
          <5>4. path'[i] = path[i]
            BY <2>10, <5>1
          <5> QED
            BY <2>6, <2>c, <4>1, <5>1, <5>3, <5>4
        <4> QED
          BY <4>2, <4>3
      <3> QED
        BY <3>1, <3>2
    <2>17. WordsOK'
      <3> SUFFICES ASSUME "proto" \notin lost'
                   PROVE  /\ Len(legs') <= Len(proto')
                          /\ \A i \in 1 .. Len(legs') : proto'[Len(proto') - Len(legs') + i] = legs'[i]
        BY DEF WordsOK
      <3>1. Len(legs') <= Len(proto')
        BY <2>2, <2>5, <2>9, <2>10, <2>11, <2>d
      <3>2. ASSUME NEW i \in 1 .. Len(legs') PROVE proto'[Len(proto') - Len(legs') + i] = legs'[i]
        <4>1. Len(proto') - Len(legs') + i = Len(words) - Len(legs) + i
          <5>1. Len(proto') = Len(words) + 1 /\ Len(legs') = Len(legs) + 1
            BY <2>9, <2>10
          <5>2. i \in Int
            BY <2>2, <5>1
          <5> QED
            BY <2>2, <2>11, <5>1, <5>2
        <4>2. CASE i = Len(legs) + 1
          BY <2>2, <2>9, <2>10, <2>11, <4>1, <4>2
        <4>3. CASE i # Len(legs) + 1
          <5>1. i \in 1 .. Len(legs)
            BY <2>2, <2>10, <4>3
          <5>2. Len(words) - Len(legs) + i \in 1 .. Len(words)
            BY <2>2, <2>5, <2>11, <2>d, <5>1
          <5> QED
            BY <2>6, <2>9, <2>10, <2>d, <4>1, <5>1, <5>2
        <4> QED
          BY <4>2, <4>3
      <3> QED
        BY <3>1, <3>2
    <2>13. path'[1] = path[1]
      BY <2>2, <2>10
    <2>14. Len(legs') <= MaxRelays
      BY <2>1, <2>2, <2>10, ForwardedAssumption
    <2>15. Len(path') = Len(legs') + 1 /\ legs' # <<>>
      BY <2>2, <2>10
    <2>16. path'[1] \in Proxies => noText' = {} /\ Len(xff') = Len(legs') /\ Len(proto') = Len(legs')
      <3> SUFFICES ASSUME path'[1] \in Proxies
                   PROVE  noText' = {} /\ Len(xff') = Len(legs') /\ Len(proto') = Len(legs')
        OBVIOUS
      <3>1. noText = {} /\ noText' = {} /\ Len(hops) = Len(legs) /\ Len(words) = Len(legs)
        BY <2>1, <2>7, <2>13
      <3>2. lost' = {}
        BY <2>b, <3>1
      <3> QED
        BY <2>8, <2>9, <2>10, <3>1, <3>2
    <2> QED
      BY <2>10, <2>12, <2>14, <2>15, <2>16, <2>17, <2>a, <2>b DEF WayOK
  <1> QED
    BY <1>1, <1>2, <1>3 DEF OnTheWay

\* A request that has been read is on no way.
LEMMA WayForgotten == ASSUME Forget PROVE WayOK'
  BY ForwardedAssumption DEF Forget, WayOK, HopsOK, WordsOK
-----------------------------------------------------------------------------
(***************************************************************************)
(* The inductive invariant of the ports.                                   *)
(***************************************************************************)
NetsOK == nets \in NetSets /\ trusted \in Settings(NetSets)

\* The client is the origin from the moment it is named, unless the hop of one of
\* its proxies was lost, and while the port
\* can still ask again it would be named the same.
ClientOK ==
    /\ client.ip \in Addresses \cup {NotSet}
    /\ client.ip = origin.ip \/ (client.via /\ "for" \in origin.lost)
    /\ client.via /\ client.secure /\ origin.lost = {} => origin.https
    /\ stage = "arrived" /\ kind = "ws" =>
          path # <<>> /\ tls \in BOOLEAN /\ client = ClientOf(nets, tls, path[Len(path)], xff, proto)

\* Where a request is that no key was asked of yet.
Early == {"idle", "arrived", "path", "origin", "key"}
Late == Stages \ (Early \cup {"answered"})

\* The key was there, wherever one is read; a mounted bridge's caller is one
\* the validator named unless it lets anyone in, which no key allows; and a
\* Bearer that was refused is past the decision only on a permissive upgrade.
RequestOK ==
    /\ stage \in Stages /\ kind \in Kinds \cup {None} /\ (kind = None => stage = "idle")
    /\ conf \in Confs /\ cred \in Creds /\ denied \in BOOLEAN /\ caller \in {Nobody, User}
    /\ stage \in Early => conf = NoConf /\ ~denied
    /\ stage \in {"path", "origin"} => kind = "ws"
    /\ stage = "key" => kind \in {"ws", "rest"}
    /\ stage \in Late /\ kind # "mount" /\ conf.key => cred.header = "key" \/ cred.auth = TheKey
    /\ kind = "mount" =>
          /\ stage \in {"arrived", "bearer", "decide", "call", "mounted", "answered"}
          /\ ~(conf.key /\ conf.anonymous)
          /\ stage \in {"call", "mounted"} => caller = User \/ conf.anonymous
    /\ denied => /\ cred.auth.scheme # None
                 /\ stage \in {"decide", "answered"} \/ (kind = "ws" /\ ~conf.strict /\ ~conf.anonymous)

\* What a bridge that answers ok holds is what the stream gave, and an error
\* that ends a call is told.
StreamOK ==
    /\ sent \in Seq(Nat) /\ buf \in Seq(Nat) /\ clock \in 0 .. Timeout /\ Len(buf) <= Len(sent)
    /\ failed \in {None, "recoverable", "fatal"} /\ error \in {None, "recoverable", "fatal"}
    /\ answer # None <=> stage = "answered"
    /\ stage \notin Calling \cup {"answered"} => sent = <<>> /\ buf = <<>> /\ failed = None /\ error = None
    /\ stage \in {"one", "tool"} => buf = sent /\ (failed = "fatal" => error # None)
    /\ stage = "one" => error = None
    /\ answer = "ok" => buf = sent /\ failed # "fatal"

IInv == WayOK /\ NetsOK /\ ClientOK /\ RequestOK /\ StreamOK

\* The invariant at the start.
LEMMA InitIInv == Init => IInv
  <1> SUFFICES ASSUME Init PROVE IInv
    OBVIOUS
  <1>1. WayOK
    BY ForwardedAssumption DEF Init, ForwardedInit, WayOK, HopsOK, WordsOK
  <1>2. NetsOK
    BY ForwardedAssumption DEF Init, ForwardedInit, NetsOK, Settings
  <1>3. ClientOK
    BY DEF Init, ClientOK, NoClient, NoOrigin
  <1>4. RequestOK
    <2>1. conf \in Confs /\ cred \in Creds
      BY DEF Init, NoConf, Confs, NoCred, Creds, Auths
    <2> QED
      BY <2>1 DEF Init, RequestOK, Stages, Early, Late, Kinds, None, Nobody, User
  <1>5. StreamOK
    BY GatewaysAssumption DEF Init, StreamOK, Calling, None
  <1> QED
    BY <1>1, <1>2, <1>3, <1>4, <1>5 DEF IInv

\* What neither a check nor a bridge reads again stays as it is.
LEMMA WayStays == ASSUME WayOK, UNCHANGED <<path, legs, xff, proto, noText, lost>> PROVE WayOK'
  BY DEF WayOK, HopsOK, WordsOK

\* Past its arrival, the client a request names is not changed.
LEMMA ClientStays == ASSUME ClientOK, UNCHANGED <<client, origin>>, stage' # "arrived" PROVE ClientOK'
  BY DEF ClientOK

\* One step per action.
LEMMA NextIInv == IInv /\ [Next]_vars => IInv'
  <1> SUFFICES ASSUME IInv, [Next]_vars PROVE IInv'
    OBVIOUS
  <1> USE DEF IInv
  <1>1. CASE Travel
    <2>1. WayOK'
      BY <1>1, WayKept DEF Travel
    <2>2. NetsOK'
      BY <1>1 DEF Travel, OnTheWay, Write, Relay, NetsOK
    <2>3. ClientOK'
      BY <1>1 DEF Travel, requestVars, ClientOK
    <2>4. RequestOK'
      BY <1>1 DEF Travel, requestVars, RequestOK
    <2>5. StreamOK'
      BY <1>1 DEF Travel, requestVars, streamVars, StreamOK
    <2> QED
      BY <2>1, <2>2, <2>3, <2>4, <2>5
  <1>2. CASE Arrive
    <2>1. WayOK' /\ NetsOK' /\ ClientOK'
      <3>1. CASE kind' = "ws"
        <4>1. PICK before \in Settings(NetSets), said \in Settings(NetSets), own \in NetSets :
                 nets' = PortNets(said, own) /\ trusted' = InitTrusted(before, said)
          BY <1>2, <3>1 DEF Arrive
        <4>2. nets' \in NetSets /\ trusted' \in Settings(NetSets)
          BY <4>1, ZenonT(60) DEF PortNets, InitTrusted, Settings
        <4>3. PICK over \in BOOLEAN, form \in {"bare", "mapped"} :
                 tls' = over /\ client' = ClientOf(nets', over, Peer(form), xff, proto)
          BY <1>2, <3>1 DEF Arrive
        <4>4. /\ path # <<>> /\ UNCHANGED <<path, legs, xff, proto, noText, lost>>
              /\ origin' = [ip |-> path[Origin(nets')], https |-> TrustedHttps(nets'), lost |-> lost]
          BY <1>2, <3>1 DEF Arrive
        <4>5. nets' \subseteq Proxies
          BY <4>2, ForwardedAssumption
        <4>6. /\ client'.ip \in Addresses \cup {NotSet}
              /\ client'.ip = path[Origin(nets')] \/ (client'.via /\ "for" \in lost)
              /\ client'.via /\ client'.secure /\ lost = {} => TrustedHttps(nets')
          BY <4>3, <4>4, <4>5, NamedIsOrigin
        <4>7. origin'.ip = path[Origin(nets')] /\ (origin'.https <=> TrustedHttps(nets')) /\ origin'.lost = lost
          BY <4>4
        <4>8. client' = ClientOf(nets', tls', path'[Len(path')], xff', proto') /\ path' # <<>> /\ tls' \in BOOLEAN
          BY <4>3, <4>4, PeerIs
        <4> QED
          BY <4>2, <4>4, <4>6, <4>7, <4>8, WayStays DEF NetsOK, ClientOK
      <3>2. CASE kind' = "combined"
        <4>1. PICK over \in BOOLEAN, form \in {"bare", "mapped"} :
                 client' = ClientOf({}, over, Peer(form), xff, proto)
          BY <1>2, <3>2 DEF Arrive
        <4>2. path # <<>> /\ origin' = [ip |-> path[Origin({})], https |-> FALSE, lost |-> {}] /\ Forget
          BY <1>2, <3>2 DEF Arrive
        <4>3. /\ client'.ip \in Addresses \cup {NotSet} /\ (client'.via => path[Len(path)] \in {})
              /\ client'.ip = path[Origin({})] \/ (client'.via /\ "for" \in lost)
          BY <4>1, <4>2, NamedIsOrigin
        <4>4. ~client'.via /\ client'.ip = origin'.ip
          BY <4>2, <4>3
        <4>5. NetsOK'
          BY <4>2, ForwardedAssumption DEF Forget, NetsOK, Settings
        <4> QED
          BY <3>2, <4>2, <4>3, <4>4, <4>5, WayForgotten DEF ClientOK
      <3>3. CASE kind' \in {"rest", "mcp", "mount"}
        <4>1. Forget /\ UNCHANGED <<client, origin>>
          BY <1>2, <3>3 DEF Arrive
        <4>2. NetsOK'
          BY <4>1, ForwardedAssumption DEF Forget, NetsOK, Settings
        <4> QED
          BY <3>3, <4>1, <4>2, WayForgotten DEF ClientOK
      <3> QED
        BY <1>2, <3>1, <3>2, <3>3 DEF Arrive
    <2>2. RequestOK'
      <3>1. stage' = "arrived" /\ kind' \in Kinds /\ UNCHANGED <<conf, cred, denied, caller>> /\ stage = "idle"
        BY <1>2 DEF Arrive
      <3> QED
        BY <3>1 DEF RequestOK, NoConf, Stages, Early, Late, Kinds, None, Nobody, User
    <2>3. StreamOK'
      BY <1>2 DEF Arrive, streamVars, StreamOK, Calling
    <2> QED
      BY <2>1, <2>2, <2>3
  <1>3. CASE Over
    <2>1. WayOK'
      BY <1>3, WayStays DEF Over, forwardedVars
    <2>2. NetsOK'
      BY <1>3 DEF Over, forwardedVars, NetsOK
    <2>3. ClientOK'
      BY <1>3 DEF Over, ClientOK, NoClient, NoOrigin
    <2>4. RequestOK'
      <3>1. conf' \in Confs /\ cred' \in Creds
        BY <1>3 DEF Over, NoConf, Confs, NoCred, Creds, Auths
      <3> QED
        BY <1>3, <3>1 DEF Over, RequestOK, Stages, Early, Late, Kinds, None, Nobody, User
    <2>5. StreamOK'
      BY <1>3, GatewaysAssumption DEF Over, StreamOK, Calling, None
    <2> QED
      BY <2>1, <2>2, <2>3, <2>4, <2>5
  <1>4. CASE CheckHost
    <2>1. WayOK'
      BY <1>4, WayForgotten DEF CheckHost
    <2>2. NetsOK'
      BY <1>4, ForwardedAssumption DEF CheckHost, Forget, NetsOK, Settings
    <2>3. ClientOK'
      BY <1>4, ClientStays DEF CheckHost, Calling, requestVars
    <2>4. RequestOK'
      BY <1>4 DEF CheckHost, RequestOK, Calling, requestVars, Stages, Early, Late, Kinds, None, Nobody, User
    <2>5. StreamOK'
      BY <1>4, GatewaysAssumption DEF CheckHost, StreamOK, Calling, streamVars, requestVars, None
    <2> QED
      BY <2>1, <2>2, <2>3, <2>4, <2>5
  <1>5. CASE CheckPath
    <2>1. WayOK'
      BY <1>5, WayStays DEF CheckPath, Goes, Answers, forwardedVars
    <2>2. NetsOK'
      BY <1>5 DEF CheckPath, Goes, Answers, forwardedVars, NetsOK
    <2>3. ClientOK'
      BY <1>5, ClientStays DEF CheckPath, Goes, Answers, Calling, requestVars
    <2>4. RequestOK'
      <3>1. /\ stage = "path" /\ stage' \in {"answered", "origin"}
            /\ UNCHANGED <<kind, conf, cred, denied, caller>>
        BY <1>5 DEF CheckPath, Goes, Answers
      <3> QED
        BY <3>1 DEF RequestOK, Stages, Early, Late, Kinds, None, Nobody, User
    <2>5. StreamOK'
      BY <1>5, GatewaysAssumption DEF CheckPath, Goes, Answers, StreamOK, Calling, streamVars, requestVars, None
    <2> QED
      BY <2>1, <2>2, <2>3, <2>4, <2>5
  <1>6. CASE CheckOrigin
    <2>1. WayOK'
      BY <1>6, WayStays DEF CheckOrigin, GoesOr, Goes, Answers, forwardedVars
    <2>2. NetsOK'
      BY <1>6 DEF CheckOrigin, GoesOr, Goes, Answers, forwardedVars, NetsOK
    <2>3. ClientOK'
      BY <1>6, ClientStays DEF CheckOrigin, GoesOr, Goes, Answers, Calling, requestVars
    <2>4. RequestOK'
      BY <1>6 DEF CheckOrigin, GoesOr, Goes, Answers, RequestOK, Calling, requestVars, Stages, Early, Late, Kinds, None, Nobody, User
    <2>5. StreamOK'
      BY <1>6, GatewaysAssumption DEF CheckOrigin, GoesOr, Goes, Answers, StreamOK, Calling, streamVars, requestVars, None
    <2> QED
      BY <2>1, <2>2, <2>3, <2>4, <2>5
  <1>7. CASE CheckKey
    <2>1. WayOK'
      BY <1>7, WayForgotten DEF CheckKey
    <2>2. NetsOK'
      BY <1>7, ForwardedAssumption DEF CheckKey, Forget, NetsOK, Settings
    <2>3. ClientOK'
      BY <1>7, ClientStays DEF CheckKey, KeyGate, AfterKey, Reads, Builds, WsKeyPasses, KeyPasses, Calling, requestVars
    <2>4. RequestOK'
      <3>1. PICK f \in Confs, c \in Creds, where \in {"call", "lookup", "quota", "host"} :
               /\ Builds(f) /\ Reads(f) /\ conf' = f /\ cred' = c
               /\ \/ kind = "combined" /\ stage' = "answered"
                  \/ where # "host" /\ KeyGate(f, c) /\ stage' = AfterKey(f, where)
                  \/ stage' = "answered"
        BY <1>7 DEF CheckKey
      <3>2. /\ stage \in Early /\ UNCHANGED <<kind, denied, caller>> /\ ~denied /\ kind \in Kinds
        BY <1>7 DEF CheckKey, RequestOK, Early, Kinds, None
      <3>3. CASE stage' = "answered"
        <4>1. kind = "mount" => ~(conf'.key /\ conf'.anonymous)
          BY <3>1 DEF Builds
        <4> QED
          BY <3>1, <3>2, <3>3, <4>1 DEF RequestOK, Stages, Early, Late, Kinds, None, Nobody, User
      <3>4. CASE stage' # "answered"
        <4>1. where # "host" /\ KeyGate(f, c) /\ stage' = AfterKey(f, where)
          BY <3>1, <3>4
        <4>2. stage' \in {"cookie", "quota", "call", "lookup", "bearer"} /\ (kind = "mount" => stage' = "bearer")
          BY <4>1 DEF AfterKey
        <4>3. kind # "mount" /\ f.key => c.header = "key" \/ c.auth = TheKey
          BY <4>1 DEF KeyGate, WsKeyPasses, KeyPasses
        <4>4. kind = "mount" => ~(f.key /\ f.anonymous)
          BY <3>1 DEF Builds
        <4> QED
          BY <3>1, <3>2, <4>2, <4>3, <4>4 DEF RequestOK, Stages, Early, Late, Kinds, None, Nobody, User
      <3> QED
        BY <3>3, <3>4
    <2>5. StreamOK'
      <3>1. /\ stage \in Early /\ UNCHANGED <<sent, failed, buf, progress, error, cancelled, clock, waits>>
            /\ \/ stage' = "answered" /\ answer' \in {"the host's", "401"}
               \/ stage' \in {"cookie", "quota", "call", "lookup", "bearer"} /\ answer' = None
        BY <1>7 DEF CheckKey, AfterKey, Early
      <3> QED
        BY <3>1 DEF StreamOK, Calling, Early, None
    <2> QED
      BY <2>1, <2>2, <2>3, <2>4, <2>5
  <1>8. CASE AskCookie
    <2>1. WayOK'
      BY <1>8, WayStays DEF AskCookie, Asked, Goes, Named, forwardedVars
    <2>2. NetsOK'
      BY <1>8 DEF AskCookie, Asked, Goes, Named, forwardedVars, NetsOK
    <2>3. ClientOK'
      BY <1>8, ClientStays DEF AskCookie, Asked, Goes, Named, Calling, requestVars
    <2>4. RequestOK'
      BY <1>8 DEF AskCookie, Asked, Goes, Named, RequestOK, Calling, requestVars, Stages, Early, Late, Kinds, None, Nobody, User
    <2>5. StreamOK'
      BY <1>8, GatewaysAssumption DEF AskCookie, Asked, Goes, Named, StreamOK, Calling, streamVars, requestVars, None
    <2> QED
      BY <2>1, <2>2, <2>3, <2>4, <2>5
  <1>9. CASE AskBearer
    <2>1. WayOK'
      BY <1>9, WayStays DEF AskBearer, Asked, Goes, Named, ReadsToken, forwardedVars
    <2>2. NetsOK'
      BY <1>9 DEF AskBearer, Asked, Goes, Named, ReadsToken, forwardedVars, NetsOK
    <2>3. ClientOK'
      BY <1>9, ClientStays DEF AskBearer, Asked, Goes, Named, ReadsToken, Calling, requestVars
    <2>4. RequestOK'
      <3>1. /\ stage = "bearer" /\ UNCHANGED <<kind, conf, cred>> /\ denied' \in BOOLEAN /\ caller' \in {Nobody, User}
            /\ \/ stage' = "decide" /\ (denied' => ReadsToken \/ denied)
               \/ stage' = Named /\ ~denied' /\ caller' = User
        <4>1. stage = "bearer" /\ UNCHANGED <<kind, conf, cred>> /\ denied \in BOOLEAN /\ caller \in {Nobody, User}
          BY <1>9 DEF AskBearer, Asked, Goes, RequestOK
        <4>2. CASE ReadsToken /\ conf.validator /\ Asked(TRUE, Named, "decide")
          <5>1. PICK yes \in BOOLEAN : /\ stage' = IF yes THEN Named ELSE "decide"
                                       /\ caller' = IF yes THEN User ELSE Nobody
                                       /\ denied' = (TRUE /\ ~yes)
            BY <4>2 DEF Asked
          <5> QED
            BY <4>1, <4>2, <5>1
        <4>3. CASE ReadsToken /\ stage' = "decide" /\ denied' = TRUE /\ caller' = caller
          BY <4>1, <4>3
        <4>4. CASE Goes("decide")
          BY <4>1, <4>4 DEF Goes
        <4> QED
          BY <1>9, <4>2, <4>3, <4>4 DEF AskBearer
      <3>2. ReadsToken => cred.auth.scheme # None
        BY DEF ReadsToken, None
      <3>3. stage' \in {"decide", "quota", "body", "call"} /\ (kind = "mount" => stage' \in {"decide", "call"})
        BY <3>1 DEF Named
      <3> QED
        BY <3>1, <3>2, <3>3 DEF RequestOK, Stages, Early, Late, Kinds, None, Nobody, User
    <2>5. StreamOK'
      BY <1>9, GatewaysAssumption DEF AskBearer, Asked, Goes, Named, ReadsToken, StreamOK, Calling, streamVars, requestVars, None
    <2> QED
      BY <2>1, <2>2, <2>3, <2>4, <2>5
  <1>10. CASE Decide
    <2>1. WayOK'
      BY <1>10, WayStays DEF Decide, GoesOr, Goes, Answers, Presents, forwardedVars
    <2>2. NetsOK'
      BY <1>10 DEF Decide, GoesOr, Goes, Answers, Presents, forwardedVars, NetsOK
    <2>3. ClientOK'
      BY <1>10, ClientStays DEF Decide, GoesOr, Goes, Answers, Presents, Calling, requestVars
    <2>4. RequestOK'
      BY <1>10 DEF Decide, GoesOr, Goes, Answers, Presents, RequestOK, Calling, requestVars, Stages, Early, Late, Kinds, None, Nobody, User
    <2>5. StreamOK'
      BY <1>10, GatewaysAssumption DEF Decide, GoesOr, Goes, Answers, Presents, StreamOK, Calling, streamVars, requestVars, None
    <2> QED
      BY <2>1, <2>2, <2>3, <2>4, <2>5
  <1>11. CASE TakeQuota
    <2>1. WayOK'
      BY <1>11, WayStays DEF TakeQuota, Goes, Answers, forwardedVars
    <2>2. NetsOK'
      BY <1>11 DEF TakeQuota, Goes, Answers, forwardedVars, NetsOK
    <2>3. ClientOK'
      BY <1>11, ClientStays DEF TakeQuota, Goes, Answers, Calling, requestVars
    <2>4. RequestOK'
      BY <1>11 DEF TakeQuota, Goes, Answers, RequestOK, Calling, requestVars, Stages, Early, Late, Kinds, None, Nobody, User
    <2>5. StreamOK'
      BY <1>11, GatewaysAssumption DEF TakeQuota, Goes, Answers, StreamOK, Calling, streamVars, requestVars, None
    <2> QED
      BY <2>1, <2>2, <2>3, <2>4, <2>5
  <1>12. CASE Lookup
    <2>1. WayOK'
      BY <1>12, WayStays DEF Lookup, Goes, Answers, forwardedVars
    <2>2. NetsOK'
      BY <1>12 DEF Lookup, Goes, Answers, forwardedVars, NetsOK
    <2>3. ClientOK'
      BY <1>12, ClientStays DEF Lookup, Goes, Answers, Calling, requestVars
    <2>4. RequestOK'
      BY <1>12 DEF Lookup, Goes, Answers, RequestOK, Calling, requestVars, Stages, Early, Late, Kinds, None, Nobody, User
    <2>5. StreamOK'
      BY <1>12, GatewaysAssumption DEF Lookup, Goes, Answers, StreamOK, Calling, streamVars, requestVars, None
    <2> QED
      BY <2>1, <2>2, <2>3, <2>4, <2>5
  <1>13. CASE ReadBody
    <2>1. WayOK'
      BY <1>13, WayStays DEF ReadBody, Goes, Answers, forwardedVars
    <2>2. NetsOK'
      BY <1>13 DEF ReadBody, Goes, Answers, forwardedVars, NetsOK
    <2>3. ClientOK'
      BY <1>13, ClientStays DEF ReadBody, Goes, Answers, Calling, requestVars
    <2>4. RequestOK'
      BY <1>13 DEF ReadBody, Goes, Answers, RequestOK, Calling, requestVars, Stages, Early, Late, Kinds, None, Nobody, User
    <2>5. StreamOK'
      BY <1>13, GatewaysAssumption DEF ReadBody, Goes, Answers, StreamOK, Calling, streamVars, requestVars, None
    <2> QED
      BY <2>1, <2>2, <2>3, <2>4, <2>5
  <1>14. CASE Route
    <2>1. WayOK'
      BY <1>14, WayStays DEF Route, Goes, Answers, forwardedVars
    <2>2. NetsOK'
      BY <1>14 DEF Route, Goes, Answers, forwardedVars, NetsOK
    <2>3. ClientOK'
      BY <1>14, ClientStays DEF Route, Goes, Answers, Calling, requestVars
    <2>4. RequestOK'
      BY <1>14 DEF Route, Goes, Answers, RequestOK, Calling, requestVars, Stages, Early, Late, Kinds, None, Nobody, User
    <2>5. StreamOK'
      BY <1>14, GatewaysAssumption DEF Route, Goes, Answers, StreamOK, Calling, streamVars, requestVars, None
    <2> QED
      BY <2>1, <2>2, <2>3, <2>4, <2>5
  <1>15. CASE CallTool
    <2>1. WayOK'
      BY <1>15, WayStays DEF CallTool, Goes, Answers, forwardedVars
    <2>2. NetsOK'
      BY <1>15 DEF CallTool, Goes, Answers, forwardedVars, NetsOK
    <2>3. ClientOK'
      BY <1>15, ClientStays DEF CallTool, Goes, Answers, Calling, requestVars
    <2>4. RequestOK'
      BY <1>15 DEF CallTool, Goes, Answers, RequestOK, Calling, requestVars, Stages, Early, Late, Kinds, None, Nobody, User
    <2>5. StreamOK'
      BY <1>15, GatewaysAssumption DEF CallTool, Goes, Answers, StreamOK, Calling, streamVars, requestVars, None
    <2> QED
      BY <2>1, <2>2, <2>3, <2>4, <2>5
  <1>16. CASE Item
    <2>1. WayOK'
      BY <1>16, WayStays DEF Item, Takes, Data, Progress, Fault, Done, Asks, Given, Ends, forwardedVars
    <2>2. NetsOK'
      BY <1>16 DEF Item, Takes, Data, Progress, Fault, Done, Asks, Given, Ends, forwardedVars, NetsOK
    <2>3. ClientOK'
      BY <1>16, ClientStays DEF Item, Takes, Data, Progress, Fault, Done, Asks, Given, Ends, Calling, requestVars
    <2>4. RequestOK'
      BY <1>16 DEF Item, Takes, Data, Progress, Fault, Done, Asks, Given, Ends, RequestOK, Calling, requestVars, Stages, Early, Late, Kinds, None, Nobody, User
    <2>5. StreamOK'
      <3> USE DEF None, Calling
      <3>0. stage \in Calling /\ clock' = clock /\ Takes
        BY <1>16 DEF Item, Takes
      <3>1. CASE Ends("cancelled") /\ UNCHANGED <<sent, failed, buf, progress, error>>
        BY <3>0, <3>1 DEF StreamOK, Ends
      <3>2. ASSUME NEW size \in Sizes, Data(size) PROVE StreamOK'
        <4>1. size \in Nat /\ sent' = Append(sent, size) /\ failed' = failed /\ error' = error
          BY <3>2, GatewaysAssumption DEF Data, Given, StreamOK
        <4>2. /\ sent' \in Seq(Nat) /\ Len(sent') = Len(sent) + 1 /\ Append(buf, size) \in Seq(Nat)
              /\ Len(Append(buf, size)) = Len(buf) + 1 /\ Len(buf) \in Nat /\ Len(sent) \in Nat
          BY <4>1 DEF StreamOK
        <4>3. \/ stage = "one" /\ stage' = "answered" /\ answer' = "413" /\ buf' = buf
              \/ stage \in {"one", "tool"} /\ buf' = Append(buf, size) /\ UNCHANGED <<stage, answer>>
              \/ stage = "many" /\ UNCHANGED <<stage, answer, buf>>
          BY <3>2 DEF Data, Ends
        <4>4. CASE stage = "one" /\ stage' = "answered" /\ answer' = "413" /\ buf' = buf
          BY <3>0, <4>1, <4>2, <4>4 DEF StreamOK
        <4>5. CASE stage \in {"one", "tool"} /\ buf' = Append(buf, size) /\ UNCHANGED <<stage, answer>>
          <5>1. buf = sent /\ buf' = sent'
            BY <4>1, <4>5 DEF StreamOK
          <5> QED
            BY <3>0, <4>1, <4>2, <4>5, <5>1 DEF StreamOK
        <4>6. CASE stage = "many" /\ UNCHANGED <<stage, answer, buf>>
          BY <3>0, <4>1, <4>2, <4>6 DEF StreamOK
        <4> QED
          BY <4>3, <4>4, <4>5, <4>6
      <3>3. CASE Progress \/ Asks
        BY <3>0, <3>3 DEF Progress, Asks, Given, StreamOK
      <3>4. ASSUME NEW fault \in {"recoverable", "fatal"}, Fault(fault) PROVE StreamOK'
        BY <3>0, <3>4 DEF Fault, Given, Ends, StreamOK
      <3>5. CASE Done
        BY <3>0, <3>5 DEF Done, Ends, StreamOK
      <3> QED
        BY <3>0, <3>1, <3>2, <3>3, <3>4, <3>5 DEF Takes
    <2> QED
      BY <2>1, <2>2, <2>3, <2>4, <2>5
  <1>17. CASE Cancel
    <2>1. WayOK'
      BY <1>17, WayStays DEF Cancel, forwardedVars
    <2>2. NetsOK'
      BY <1>17 DEF Cancel, forwardedVars, NetsOK
    <2>3. ClientOK'
      BY <1>17, ClientStays DEF Cancel, Calling, requestVars
    <2>4. RequestOK'
      BY <1>17 DEF Cancel, RequestOK, Calling, requestVars, Stages, Early, Late, Kinds, None, Nobody, User
    <2>5. StreamOK'
      BY <1>17, GatewaysAssumption DEF Cancel, StreamOK, Calling, streamVars, requestVars, None
    <2> QED
      BY <2>1, <2>2, <2>3, <2>4, <2>5
  <1>18. CASE Tick
    <2>1. WayOK'
      BY <1>18, WayStays DEF Tick, forwardedVars
    <2>2. NetsOK'
      BY <1>18 DEF Tick, forwardedVars, NetsOK
    <2>3. ClientOK'
      BY <1>18, ClientStays DEF Tick, Calling, requestVars
    <2>4. RequestOK'
      BY <1>18 DEF Tick, RequestOK, Calling, requestVars, Stages, Early, Late, Kinds, None, Nobody, User
    <2>5. StreamOK'
      BY <1>18, GatewaysAssumption DEF Tick, StreamOK, Calling, streamVars, requestVars, None
    <2> QED
      BY <2>1, <2>2, <2>3, <2>4, <2>5
  <1>19. CASE TimesOut
    <2>1. WayOK'
      BY <1>19, WayStays DEF TimesOut, Ends, forwardedVars
    <2>2. NetsOK'
      BY <1>19 DEF TimesOut, Ends, forwardedVars, NetsOK
    <2>3. ClientOK'
      BY <1>19, ClientStays DEF TimesOut, Ends, Calling, requestVars
    <2>4. RequestOK'
      BY <1>19 DEF TimesOut, Ends, RequestOK, Calling, requestVars, Stages, Early, Late, Kinds, None, Nobody, User
    <2>5. StreamOK'
      BY <1>19, GatewaysAssumption DEF TimesOut, Ends, StreamOK, Calling, streamVars, requestVars, None
    <2> QED
      BY <2>1, <2>2, <2>3, <2>4, <2>5
  <1>20. CASE UNCHANGED vars
    <2>1. WayOK' /\ NetsOK'
      BY <1>20, WayStays DEF vars, forwardedVars, NetsOK
    <2>2. ClientOK'
      BY <1>20 DEF vars, forwardedVars, requestVars, ClientOK
    <2>3. RequestOK' /\ StreamOK'
      BY <1>20 DEF vars, requestVars, streamVars, RequestOK, StreamOK
    <2> QED
      BY <2>1, <2>2, <2>3
  <1>21. CASE Pends
    <2>1. WayOK'
      BY <1>21, WayStays DEF Pends, forwardedVars
    <2>2. NetsOK'
      BY <1>21 DEF Pends, forwardedVars, NetsOK
    <2>3. ClientOK'
      BY <1>21, ClientStays DEF Pends, Calling, requestVars
    <2>4. RequestOK'
      BY <1>21 DEF Pends, RequestOK, Calling, requestVars, Stages, Early, Late, Kinds, None, Nobody, User
    <2>5. StreamOK'
      BY <1>21, GatewaysAssumption DEF Pends, StreamOK, Calling, streamVars, requestVars, None
    <2> QED
      BY <2>1, <2>2, <2>3, <2>4, <2>5
  <1> QED
    BY <1>1, <1>2, <1>3, <1>4, <1>5, <1>6, <1>7, <1>8, <1>9, <1>10, <1>11, <1>12, <1>13, <1>14, <1>15, <1>16, <1>17, <1>18, <1>19, <1>20, <1>21 DEF Next

\* IInv is an invariant of the ports.
LEMMA InvariantHolds == Spec => []IInv
  BY InitIInv, NextIInv, PTL DEF Spec
-----------------------------------------------------------------------------
(***************************************************************************)
(* What the runs check.                                                    *)
(***************************************************************************)

\* However long the lists and whatever hops a client writes in them, the client
\* a port names is the last address on the way it does not trust, but for one
\* that came through a trusted proxy and a line that is no text, which list
\* drops with a proxy's hop in it (TrustedProxies::resolve).  The types are
\* right.
THEOREM ForgedHopsNameNobody == Spec => []NamesWhoConnected
  <1>1. IInv => NamesWhoConnected
    <2> SUFFICES ASSUME IInv PROVE NamesWhoConnected
      OBVIOUS
    <2>1. path \in UpTo(Addresses, MaxRelays + 1)
      <3>1. Len(path) \in 0 .. (MaxRelays + 1) /\ path \in [1 .. Len(path) -> Addresses]
        <4>1. path \in Seq(Addresses) /\ Len(path) \in Nat /\ Len(legs) \in Nat /\ Len(legs) <= MaxRelays
          BY DEF IInv, WayOK
        <4>2. path = <<>> => Len(path) = 0
          OBVIOUS
        <4>3. path # <<>> => Len(path) = Len(legs) + 1
          BY DEF IInv, WayOK
        <4> QED
          BY <4>1, <4>2, <4>3, ForwardedAssumption
      <3> QED
        BY <3>1 DEF UpTo
    <2>2. legs \in UpTo(Schemes, MaxRelays)
      <3>0. legs \in Seq(Schemes) /\ Len(legs) <= MaxRelays
        BY DEF IInv, WayOK
      <3>1. Len(legs) \in 0 .. MaxRelays /\ legs \in [1 .. Len(legs) -> Schemes]
        BY <3>0, ForwardedAssumption
      <3> QED
        BY <3>1 DEF UpTo
    <2>3. trusted \subseteq NetSets /\ Cardinality(trusted) <= 1
      <3>1. CASE trusted = {}
        BY <3>1, FS_EmptySet
      <3>2. ASSUME NEW v \in NetSets, trusted = {v} PROVE trusted \subseteq NetSets /\ Cardinality(trusted) <= 1
        <4>1. Cardinality({v}) = 1
          BY FS_Singleton
        <4> QED
          BY <3>2, <4>1
      <3> QED
        BY <3>1, <3>2 DEF IInv, NetsOK, Settings
    <2>4. ForwardedTypeOK
      BY <2>1, <2>2, <2>3 DEF IInv, WayOK, NetsOK, ForwardedTypeOK
    <2>5. TypeOK
      BY <2>4 DEF IInv, RequestOK, StreamOK, ClientOK, TypeOK
    <2> QED
      BY <2>5 DEF IInv, ClientOK, NamesWhoConnected
  <1> QED
    BY <1>1, InvariantHolds, PTL

\* A client that came through proxies is secure on the word of a trusted one
\* alone, whatever the lengths of the two lists, when all that proxies wrote is
\* read (TrustedProxies::resolve).
THEOREM ForgedProtoSecuresNobody == Spec => []SecureIsAProxysWord
  <1>1. IInv => SecureIsAProxysWord
    BY DEF IInv, ClientOK, SecureIsAProxysWord
  <1> QED
    BY <1>1, InvariantHolds, PTL

\* ClientIp and SecureTransport say of a request what the upgrade said of it,
\* where the process's set of proxies is the port's.
THEOREM ExtractorsRepeatTheUpgrade == Spec => []ExtractorsAgree
  <1>1. IInv => ExtractorsAgree
    <2> SUFFICES ASSUME IInv, stage = "arrived", kind = "ws", trusted = {nets}
                 PROVE  /\ \A legacy \in BOOLEAN, real \in Clients \cup {NotSet} :
                               ClientIp(legacy, real, Peer("bare"), xff) = client.ip
                        /\ SecureTransport(tls, Peer("bare"), xff, proto) <=> client.secure
      BY DEF ExtractorsAgree
    <2> DEFINE peer == path[Len(path)]
               r == Resolve(nets, peer, xff, proto)
    <2>1. client = [r EXCEPT !.secure = @ \/ (tls /\ ~r.via)] /\ tls \in BOOLEAN
      BY DEF IInv, ClientOK, ClientOf
    <2>2. r.ip = Resolve(nets, peer, xff, <<>>).ip /\ DOMAIN r = {"ip", "via", "secure"}
      BY DEF Resolve
    <2>3. TrustedProxies = nets /\ trusted # {} /\ Peer("bare") = peer
      BY PeerIs DEF TrustedProxies
    <2> HIDE DEF peer, r
    <2>4. client.ip = r.ip /\ client.secure = (r.secure \/ (tls /\ ~r.via))
      BY <2>1, <2>2
    <2>5. \A legacy \in BOOLEAN, real \in Clients \cup {NotSet} :
             ClientIp(legacy, real, Peer("bare"), xff) = Resolve(nets, peer, xff, <<>>).ip
      BY <2>3 DEF ClientIp
    <2>6. SecureTransport(tls, Peer("bare"), xff, proto) <=> r.secure \/ (tls /\ ~r.via)
      BY <2>3 DEF SecureTransport, r
    <2> QED
      BY <2>2, <2>4, <2>5, <2>6
  <1> QED
    BY <1>1, InvariantHolds, PTL

\* With a key configured no bridge runs a call or opens a socket without it
\* (CombinedAuthMiddleware::call, the upgrade's key check, build's refusal).
THEOREM KeyIsAlwaysAsked == Spec => []NoCallWithoutKey
  <1>1. IInv => NoCallWithoutKey
    BY DEF IInv, RequestOK, NoCallWithoutKey, Runs, Calling, Late, Early, Stages
  <1> QED
    BY <1>1, InvariantHolds, PTL

\* A Bearer the validator refused does not run as the anonymous caller but on
\* a permissive upgrade (identify, ServiceUpstream::transport_for).
THEOREM RefusedStaysRefused == Spec => []RefusedIsNotAnonymous
  <1>1. IInv => RefusedIsNotAnonymous
    BY DEF IInv, RequestOK, RefusedIsNotAnonymous, Runs, Calling
  <1> QED
    BY <1>1, InvariantHolds, PTL

\* An answer that says ok holds all the stream gave, and no error that ends a
\* call was given, for every limit (collect_and_respond, call_tool).
THEOREM OkAnswersAreWhole == Spec => []OkIsWhole
  <1>1. IInv => OkIsWhole
    BY DEF IInv, StreamOK, OkIsWhole
  <1> QED
    BY <1>1, InvariantHolds, PTL
=============================================================================
