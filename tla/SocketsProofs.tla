---------------------------- MODULE SocketsProofs ----------------------------
(***************************************************************************)
(* For every number of connections, addresses and sign-ins and every       *)
(* quota: each count is the places held, each place is given back once,    *)
(* and the sockets keep within every quota.                                *)
(***************************************************************************)
EXTENDS Sockets, FiniteSetTheorems, TLAPS

(***************************************************************************)
(* The inductive invariant.                                                *)
(***************************************************************************)

\* The places of each kind, by what they count against: the connections with
\* their pending place, and those whose permit is of an address or of someone.
Pends(pd, from, ip) == {c \in Conns : pd[c] /\ from[c] = ip}
Per(pm, ip) == {c \in Conns : pm[c] # NoPermit /\ pm[c].ip = ip}
Of(pm, w) == {c \in Conns : pm[c] # NoPermit /\ pm[c].who = w}
AnonAt(pm, ip) == {c \in Conns : pm[c] # NoPermit /\ pm[c].who = Anonymous /\ pm[c].ip = ip}

\* Each count is of the places held, and within its bound.
PendOK ==
    \A ip \in IPs : pending[ip] = Cardinality(Pends(pend, peer, ip)) /\ pending[ip] <= PendingBound(ip)

PerIpOK == \A ip \in IPs : perIp[ip] = Cardinality(Per(permit, ip)) /\ perIp[ip] <= server.perIp
PrincipalOK ==
    \A s \in Sessions : perPrincipal[s] = Cardinality(Of(permit, s)) /\ perPrincipal[s] <= MaxPerPrincipal
AnonymousOK == anonymous = Cardinality(Of(permit, Anonymous)) /\ anonymous <= MaxAnonymous
AnonymousAtOK ==
    \A ip \in IPs :
        anonymousPerIp[ip] = Cardinality(AnonAt(permit, ip)) /\ anonymousPerIp[ip] <= MaxAnonymousPerIp
QuotaOK == PerIpOK /\ PrincipalOK /\ AnonymousOK /\ AnonymousAtOK

PlaceOK == free + Cardinality(Placed) = server.total

\* Which places a connection holds, by where it is: that in the quotas stays
\* with a loop that is over for as long as its calls run.
Holds(c) ==
    \/ stage[c] \in {"admitted", "upgrading", "open"}
    \/ stage[c] \in {"closing", "ended"} /\ calls[c] > 0

StageOK ==
    \A c \in Conns :
        /\ pend[c] <=> stage[c] \in {"http", "asking", "validated", "admitted", "upgrading"}
        /\ permit[c] # NoPermit <=> Holds(c)
        /\ calls[c] > 0 => stage[c] \in {"open", "closing", "ended"}
        /\ stage[c] = "ended" => calls[c] > 0

IInv == TypeOK /\ PendOK /\ QuotaOK /\ PlaceOK /\ StageOK
-----------------------------------------------------------------------------
\* Connections are finitely many, so any of them can be counted.
LEMMA Counted ==
    ASSUME NEW S, S \subseteq Conns
    PROVE  IsFiniteSet(S) /\ Cardinality(S) \in Nat
  <1>1. IsFiniteSet(S)
    BY ConnsFinite, FS_Subset
  <1> QED
    BY <1>1, FS_CardinalityType

\* One connection more is one more in their number.
LEMMA CountAdds ==
    ASSUME NEW S, S \subseteq Conns, NEW c, c \notin S
    PROVE  Cardinality(S \cup {c}) = Cardinality(S) + 1
  BY Counted, FS_AddElement

\* One connection fewer is one fewer in their number.
LEMMA CountDrops ==
    ASSUME NEW S, S \subseteq Conns, NEW c, c \in S
    PROVE  Cardinality(S \ {c}) = Cardinality(S) - 1 /\ Cardinality(S \ {c}) \in Nat
  <1>1. S \ {c} \subseteq Conns
    OBVIOUS
  <1> QED
    BY <1>1, Counted, FS_RemoveElement

\* What the quotas count are connections.
LEMMA Subsets ==
    /\ \A pd, from, ip : Pends(pd, from, ip) \subseteq Conns
    /\ \A pm, ip : Per(pm, ip) \subseteq Conns /\ AnonAt(pm, ip) \subseteq Conns
    /\ \A pm, w : Of(pm, w) \subseteq Conns
  BY DEF Pends, Per, AnonAt, Of

\* The types of what Quotas keeps.
QuotaTypes ==
    /\ permit \in [Conns -> Permits \cup {NoPermit}]
    /\ perIp \in [IPs -> Nat] /\ anonymousPerIp \in [IPs -> Nat]
    /\ perPrincipal \in [Sessions -> Nat] /\ anonymous \in Nat

\* Quotas::admit counts a new place in every quota it counts against.
LEMMA QuotaTaken ==
    ASSUME QuotaTypes, server \in Servers, QuotaOK, NEW c \in Conns, NEW p \in Permits, permit[c] = NoPermit,
           QuotasAdmit(p), permit' = [permit EXCEPT ![c] = p], server' = server
    PROVE  QuotaTypes' /\ QuotaOK'
  <1>1. p # NoPermit /\ p.ip \in IPs /\ p.who \in Who
    BY WhoAreDistinct DEF Permits, Who
  <1>2. permit' \in [Conns -> Permits \cup {NoPermit}]
    BY DEF QuotaTypes
  <1>3. server.perIp \in Nat
    BY ServersAreConfigured
  <1>4. PerIpOK' /\ perIp' \in [IPs -> Nat]
    <2>1. perIp \in [IPs -> Nat] /\ perIp' = [perIp EXCEPT ![p.ip] = @ + 1] /\ perIp[p.ip] < server.perIp
      BY DEF QuotaTypes, QuotasAdmit
    <2>2. Per(permit', p.ip) = Per(permit, p.ip) \cup {c} /\ c \notin Per(permit, p.ip)
      BY <1>1 DEF QuotaTypes, Per
    <2>3. Cardinality(Per(permit', p.ip)) = Cardinality(Per(permit, p.ip)) + 1
      BY <2>2, Subsets, CountAdds
    <2>4. ASSUME NEW ip \in IPs, ip # p.ip PROVE Per(permit', ip) = Per(permit, ip)
      BY <1>1, <2>4 DEF QuotaTypes, Per
    <2>5. ASSUME NEW ip \in IPs PROVE perIp'[ip] = Cardinality(Per(permit', ip)) /\ perIp'[ip] <= server.perIp
      <3>1. perIp[ip] = Cardinality(Per(permit, ip)) /\ perIp[ip] <= server.perIp
        BY DEF QuotaOK, PerIpOK
      <3>2. CASE ip = p.ip
        BY <1>1, <1>3, <2>1, <2>3, <3>1, <3>2
      <3>3. CASE ip # p.ip
        BY <1>1, <2>1, <2>4, <3>1, <3>3
      <3> QED
        BY <3>2, <3>3
    <2> QED
      BY <1>1, <2>1, <2>5 DEF PerIpOK, Per
  <1>5. PrincipalOK' /\ perPrincipal' \in [Sessions -> Nat]
    <2>1. perPrincipal \in [Sessions -> Nat]
      BY DEF QuotaTypes
    <2>2. ASSUME NEW s \in Sessions, s # p.who PROVE Of(permit', s) = Of(permit, s)
      BY <1>1, <2>2 DEF QuotaTypes, Of
    <2>3. CASE p.who \in Sessions
      <3>1. perPrincipal' = [perPrincipal EXCEPT ![p.who] = @ + 1] /\ perPrincipal[p.who] < MaxPerPrincipal
        BY <2>3, WhoAreDistinct DEF QuotasAdmit
      <3>2. Of(permit', p.who) = Of(permit, p.who) \cup {c} /\ c \notin Of(permit, p.who)
        BY <1>1 DEF QuotaTypes, Of
      <3>3. Cardinality(Of(permit', p.who)) = Cardinality(Of(permit, p.who)) + 1
        BY <3>2, Subsets, CountAdds
      <3>4. ASSUME NEW s \in Sessions
            PROVE  perPrincipal'[s] = Cardinality(Of(permit', s)) /\ perPrincipal'[s] <= MaxPerPrincipal
        <4>1. perPrincipal[s] = Cardinality(Of(permit, s)) /\ perPrincipal[s] <= MaxPerPrincipal
          BY DEF QuotaOK, PrincipalOK
        <4>2. CASE s = p.who
          BY <2>1, <3>1, <3>3, <4>1, <4>2, LimitsAreNat
        <4>3. CASE s # p.who
          BY <2>1, <2>2, <3>1, <4>1, <4>3
        <4> QED
          BY <4>2, <4>3
      <3> QED
        BY <2>1, <2>3, <3>1, <3>4 DEF PrincipalOK, Of
    <2>4. CASE p.who \notin Sessions
      <3>1. perPrincipal' = perPrincipal
        BY <2>4 DEF QuotasAdmit
      <3> QED
        BY <2>1, <2>2, <2>4, <3>1 DEF QuotaOK, PrincipalOK
    <2> QED
      BY <2>3, <2>4
  <1>6. CASE p.who = Anonymous
    <2>1. /\ anonymous' = anonymous + 1 /\ anonymous < MaxAnonymous
          /\ anonymousPerIp' = [anonymousPerIp EXCEPT ![p.ip] = @ + 1]
          /\ anonymousPerIp[p.ip] < MaxAnonymousPerIp
      BY <1>6, WhoAreDistinct DEF QuotasAdmit
    <2>2. /\ Of(permit', Anonymous) = Of(permit, Anonymous) \cup {c} /\ c \notin Of(permit, Anonymous)
          /\ AnonAt(permit', p.ip) = AnonAt(permit, p.ip) \cup {c} /\ c \notin AnonAt(permit, p.ip)
      BY <1>1, <1>6 DEF QuotaTypes, Of, AnonAt
    <2>3. /\ Cardinality(Of(permit', Anonymous)) = Cardinality(Of(permit, Anonymous)) + 1
          /\ Cardinality(AnonAt(permit', p.ip)) = Cardinality(AnonAt(permit, p.ip)) + 1
      BY <2>2, Subsets, CountAdds
    <2>4. ASSUME NEW ip \in IPs, ip # p.ip PROVE AnonAt(permit', ip) = AnonAt(permit, ip)
      BY <1>1, <2>4 DEF QuotaTypes, AnonAt
    <2>5. anonymous \in Nat /\ anonymousPerIp \in [IPs -> Nat]
      BY DEF QuotaTypes
    <2>6. AnonymousOK' /\ anonymous' \in Nat
      BY <2>1, <2>3, <2>5, LimitsAreNat DEF QuotaOK, AnonymousOK
    <2>7. ASSUME NEW ip \in IPs
          PROVE  /\ anonymousPerIp'[ip] = Cardinality(AnonAt(permit', ip))
                 /\ anonymousPerIp'[ip] <= MaxAnonymousPerIp
      <3>1. anonymousPerIp[ip] = Cardinality(AnonAt(permit, ip)) /\ anonymousPerIp[ip] <= MaxAnonymousPerIp
        BY DEF QuotaOK, AnonymousAtOK
      <3>2. CASE ip = p.ip
        BY <1>1, <2>1, <2>3, <2>5, <3>1, <3>2, LimitsAreNat
      <3>3. CASE ip # p.ip
        BY <1>1, <2>1, <2>4, <2>5, <3>1, <3>3
      <3> QED
        BY <3>2, <3>3
    <2>8. AnonymousAtOK' /\ anonymousPerIp' \in [IPs -> Nat]
      BY <1>1, <2>1, <2>5, <2>7 DEF AnonymousAtOK, AnonAt
    <2> QED
      BY <1>2, <1>4, <1>5, <2>6, <2>8 DEF QuotaOK, QuotaTypes
  <1>7. CASE p.who # Anonymous
    <2>1. anonymous' = anonymous /\ anonymousPerIp' = anonymousPerIp
      BY <1>7 DEF QuotasAdmit
    <2>2. Of(permit', Anonymous) = Of(permit, Anonymous)
      BY <1>1, <1>7 DEF QuotaTypes, Of
    <2>3. ASSUME NEW ip \in IPs PROVE AnonAt(permit', ip) = AnonAt(permit, ip)
      BY <1>1, <1>7 DEF QuotaTypes, AnonAt
    <2>4. AnonymousOK'
      BY <2>1, <2>2 DEF QuotaOK, AnonymousOK
    <2>5. AnonymousAtOK'
      BY <2>1, <2>3 DEF QuotaOK, AnonymousAtOK
    <2> QED
      BY <1>2, <1>4, <1>5, <2>1, <2>4, <2>5 DEF QuotaOK, QuotaTypes
  <1> QED
    BY <1>6, <1>7

\* QuotaPermit's drop gives the place back in each of them, and in no other.
LEMMA QuotaDropped ==
    ASSUME QuotaTypes, server \in Servers, QuotaOK, NEW c \in Conns, NEW p \in Permits, permit[c] = p,
           QuotasDrop(p), permit' = [permit EXCEPT ![c] = NoPermit], server' = server
    PROVE  QuotaTypes' /\ QuotaOK'
  <1>1. p # NoPermit /\ p.ip \in IPs /\ p.who \in Who
    BY WhoAreDistinct DEF Permits, Who
  <1>2. permit' \in [Conns -> Permits \cup {NoPermit}]
    BY DEF QuotaTypes
  <1>3. server.perIp \in Nat
    BY ServersAreConfigured
  <1>4. PerIpOK' /\ perIp' \in [IPs -> Nat]
    <2>1. perIp \in [IPs -> Nat] /\ perIp' = [perIp EXCEPT ![p.ip] = @ - 1]
      BY DEF QuotaTypes, QuotasDrop
    <2>2. Per(permit', p.ip) = Per(permit, p.ip) \ {c} /\ c \in Per(permit, p.ip)
      BY <1>1 DEF QuotaTypes, Per
    <2>3. Cardinality(Per(permit', p.ip)) = Cardinality(Per(permit, p.ip)) - 1 /\ Cardinality(Per(permit, p.ip)) - 1 \in Nat
      BY <2>2, Subsets, CountDrops
    <2>4. ASSUME NEW ip \in IPs, ip # p.ip PROVE Per(permit', ip) = Per(permit, ip)
      BY <1>1, <2>4 DEF QuotaTypes, Per
    <2>5. ASSUME NEW ip \in IPs PROVE perIp'[ip] = Cardinality(Per(permit', ip)) /\ perIp'[ip] <= server.perIp
      <3>1. perIp[ip] = Cardinality(Per(permit, ip)) /\ perIp[ip] <= server.perIp
        BY DEF QuotaOK, PerIpOK
      <3>2. CASE ip = p.ip
        BY <1>1, <1>3, <2>1, <2>3, <3>1, <3>2
      <3>3. CASE ip # p.ip
        BY <1>1, <2>1, <2>4, <3>1, <3>3
      <3> QED
        BY <3>2, <3>3
    <2>6. perIp[p.ip] - 1 \in Nat
      BY <1>1, <2>3 DEF QuotaOK, PerIpOK
    <2>7. perIp' \in [IPs -> Nat]
      BY <2>1, <2>6
    <2> QED
      BY <2>5, <2>7 DEF PerIpOK, Per
  <1>5. PrincipalOK' /\ perPrincipal' \in [Sessions -> Nat]
    <2>1. perPrincipal \in [Sessions -> Nat]
      BY DEF QuotaTypes
    <2>2. ASSUME NEW s \in Sessions, s # p.who PROVE Of(permit', s) = Of(permit, s)
      BY <1>1, <2>2 DEF QuotaTypes, Of
    <2>3. CASE p.who \in Sessions
      <3>1. perPrincipal' = [perPrincipal EXCEPT ![p.who] = @ - 1]
        BY <2>3, WhoAreDistinct DEF QuotasDrop
      <3>2. Of(permit', p.who) = Of(permit, p.who) \ {c} /\ c \in Of(permit, p.who)
        BY <1>1 DEF QuotaTypes, Of
      <3>3. Cardinality(Of(permit', p.who)) = Cardinality(Of(permit, p.who)) - 1 /\ Cardinality(Of(permit, p.who)) - 1 \in Nat
        BY <3>2, Subsets, CountDrops
      <3>4. ASSUME NEW s \in Sessions
            PROVE  perPrincipal'[s] = Cardinality(Of(permit', s)) /\ perPrincipal'[s] <= MaxPerPrincipal
        <4>1. perPrincipal[s] = Cardinality(Of(permit, s)) /\ perPrincipal[s] <= MaxPerPrincipal
          BY DEF QuotaOK, PrincipalOK
        <4>2. CASE s = p.who
          BY <2>1, <3>1, <3>3, <4>1, <4>2, LimitsAreNat
        <4>3. CASE s # p.who
          BY <2>1, <2>2, <3>1, <4>1, <4>3
        <4> QED
          BY <4>2, <4>3
      <3>5. perPrincipal[p.who] - 1 \in Nat
        BY <2>3, <3>3 DEF QuotaOK, PrincipalOK
      <3>6. perPrincipal' \in [Sessions -> Nat]
        BY <2>1, <3>1, <3>5
      <3> QED
        BY <3>4, <3>6 DEF PrincipalOK, Of
    <2>4. CASE p.who \notin Sessions
      <3>1. perPrincipal' = perPrincipal
        BY <2>4 DEF QuotasDrop
      <3> QED
        BY <2>1, <2>2, <2>4, <3>1 DEF QuotaOK, PrincipalOK
    <2> QED
      BY <2>3, <2>4
  <1>6. CASE p.who = Anonymous
    <2>1. /\ anonymous' = anonymous - 1
          /\ anonymousPerIp' = [anonymousPerIp EXCEPT ![p.ip] = @ - 1]
      BY <1>6, WhoAreDistinct DEF QuotasDrop
    <2>2. /\ Of(permit', Anonymous) = Of(permit, Anonymous) \ {c} /\ c \in Of(permit, Anonymous)
          /\ AnonAt(permit', p.ip) = AnonAt(permit, p.ip) \ {c} /\ c \in AnonAt(permit, p.ip)
      BY <1>1, <1>6 DEF QuotaTypes, Of, AnonAt
    <2>3. /\ Cardinality(Of(permit', Anonymous)) = Cardinality(Of(permit, Anonymous)) - 1 /\ Cardinality(Of(permit, Anonymous)) - 1 \in Nat
          /\ Cardinality(AnonAt(permit', p.ip)) = Cardinality(AnonAt(permit, p.ip)) - 1 /\ Cardinality(AnonAt(permit, p.ip)) - 1 \in Nat
      BY <2>2, Subsets, CountDrops, ZenonT(60)
    <2>4. ASSUME NEW ip \in IPs, ip # p.ip PROVE AnonAt(permit', ip) = AnonAt(permit, ip)
      BY <1>1, <2>4 DEF QuotaTypes, AnonAt
    <2>5. anonymous \in Nat /\ anonymousPerIp \in [IPs -> Nat]
      BY DEF QuotaTypes
    <2>6. AnonymousOK' /\ anonymous' \in Nat
      BY <2>1, <2>3, <2>5, LimitsAreNat DEF QuotaOK, AnonymousOK
    <2>7. ASSUME NEW ip \in IPs
          PROVE  /\ anonymousPerIp'[ip] = Cardinality(AnonAt(permit', ip))
                 /\ anonymousPerIp'[ip] <= MaxAnonymousPerIp
      <3>1. anonymousPerIp[ip] = Cardinality(AnonAt(permit, ip)) /\ anonymousPerIp[ip] <= MaxAnonymousPerIp
        BY DEF QuotaOK, AnonymousAtOK
      <3>2. CASE ip = p.ip
        BY <1>1, <2>1, <2>3, <2>5, <3>1, <3>2, LimitsAreNat
      <3>3. CASE ip # p.ip
        BY <1>1, <2>1, <2>4, <2>5, <3>1, <3>3
      <3> QED
        BY <3>2, <3>3
    <2>8. AnonymousAtOK'
      BY <2>7 DEF AnonymousAtOK, AnonAt
    <2>9. anonymousPerIp[p.ip] - 1 \in Nat
      BY <1>1, <2>3 DEF QuotaOK, AnonymousAtOK
    <2>10. anonymousPerIp' \in [IPs -> Nat]
      BY <2>1, <2>5, <2>9
    <2> QED
      BY <1>2, <1>4, <1>5, <2>6, <2>8, <2>10 DEF QuotaOK, QuotaTypes
  <1>7. CASE p.who # Anonymous
    <2>1. anonymous' = anonymous /\ anonymousPerIp' = anonymousPerIp
      BY <1>7 DEF QuotasDrop
    <2>2. Of(permit', Anonymous) = Of(permit, Anonymous)
      BY <1>1, <1>7 DEF QuotaTypes, Of
    <2>3. ASSUME NEW ip \in IPs PROVE AnonAt(permit', ip) = AnonAt(permit, ip)
      BY <1>1, <1>7 DEF QuotaTypes, AnonAt
    <2>4. AnonymousOK'
      BY <2>1, <2>2 DEF QuotaOK, AnonymousOK
    <2>5. AnonymousAtOK'
      BY <2>1, <2>3 DEF QuotaOK, AnonymousAtOK
    <2> QED
      BY <1>2, <1>4, <1>5, <2>1, <2>4, <2>5 DEF QuotaOK, QuotaTypes
  <1> QED
    BY <1>6, <1>7

\* What leaves the permits and their counts alone keeps them.
LEMMA QuotaStays ==
    ASSUME QuotaTypes, QuotaOK, KeepPermit, server' = server
    PROVE  QuotaTypes' /\ QuotaOK'
  <1>1. /\ permit' = permit /\ perIp' = perIp /\ perPrincipal' = perPrincipal
        /\ anonymous' = anonymous /\ anonymousPerIp' = anonymousPerIp
    BY DEF KeepPermit, openVars
  <1>2. QuotaTypes'
    BY <1>1 DEF QuotaTypes
  <1>3. PerIpOK' /\ AnonymousAtOK'
    BY <1>1 DEF QuotaOK, PerIpOK, AnonymousAtOK, Per, AnonAt
  <1>4. PrincipalOK' /\ AnonymousOK'
    BY <1>1 DEF QuotaOK, PrincipalOK, AnonymousOK, Of
  <1> QED
    BY <1>2, <1>3, <1>4 DEF QuotaOK

\* PendingPlace's drop gives the address its place back.
LEMMA PendingDropped ==
    ASSUME pend \in [Conns -> BOOLEAN], pending \in [IPs -> Nat], peer \in [Conns -> IPs],
           PendOK, NEW c \in Conns, pend[c], GivePendingBack(c), peer' = peer, server' = server,
           server \in Servers
    PROVE  PendOK' /\ pend' = [pend EXCEPT ![c] = FALSE] /\ pending' \in [IPs -> Nat]
  <1> DEFINE at == peer[c]
  <1>1. at \in IPs /\ pend' = [pend EXCEPT ![c] = FALSE] /\ pending' = [pending EXCEPT ![at] = @ - 1]
    BY DEF GivePendingBack
  <1> HIDE DEF at
  <1>2. Pends(pend', peer, at) = Pends(pend, peer, at) \ {c} /\ c \in Pends(pend, peer, at)
    BY <1>1 DEF Pends, at
  <1>3. Cardinality(Pends(pend', peer, at)) = Cardinality(Pends(pend, peer, at)) - 1
          /\ Cardinality(Pends(pend, peer, at)) - 1 \in Nat
    BY <1>2, Subsets, CountDrops
  <1>4. ASSUME NEW ip \in IPs, ip # at PROVE Pends(pend', peer, ip) = Pends(pend, peer, ip)
    BY <1>1, <1>4 DEF Pends, at
  <1>5. pending[at] - 1 \in Nat
    BY <1>1, <1>3 DEF PendOK
  <1>6. pending' \in [IPs -> Nat]
    BY <1>1, <1>5
  <1>7. \A ip : PendingBound(ip)' = PendingBound(ip)
    BY DEF PendingBound
  <1>8. ASSUME NEW ip \in IPs
        PROVE  pending'[ip] = Cardinality(Pends(pend', peer, ip)) /\ pending'[ip] <= PendingBound(ip)
    <2>1. pending[ip] = Cardinality(Pends(pend, peer, ip)) /\ pending[ip] <= PendingBound(ip)
      BY DEF PendOK
    <2>2. PendingBound(ip) \in Nat
      BY ServersAreConfigured, LimitsAreNat DEF PendingBound
    <2>3. CASE ip = at
      BY <1>1, <1>3, <1>5, <2>1, <2>2, <2>3
    <2>4. CASE ip # at
      BY <1>1, <1>4, <2>1, <2>4
    <2> QED
      BY <2>3, <2>4
  <1>9. PendOK'
    BY <1>8 DEF PendOK, Pends, PendingBound
  <1> QED
    BY <1>1, <1>6, <1>9

\* Pending::take counts a new socket against its address.
LEMMA PendingTaken ==
    ASSUME pend \in [Conns -> BOOLEAN], pending \in [IPs -> Nat], peer \in [Conns -> IPs],
           PendOK, NEW c \in Conns, ~pend[c], NEW at \in IPs, pending[at] < PendingBound(at),
           pending' = [pending EXCEPT ![at] = @ + 1], pend' = [pend EXCEPT ![c] = TRUE],
           peer' = [peer EXCEPT ![c] = at], server' = server, server \in Servers
    PROVE  PendOK' /\ pending' \in [IPs -> Nat]
  <1>2. Pends(pend', peer', at) = Pends(pend, peer, at) \cup {c} /\ c \notin Pends(pend, peer, at)
    BY DEF Pends
  <1>3. Cardinality(Pends(pend', peer', at)) = Cardinality(Pends(pend, peer, at)) + 1
    BY <1>2, Subsets, CountAdds
  <1>4. ASSUME NEW ip \in IPs, ip # at PROVE Pends(pend', peer', ip) = Pends(pend, peer, ip)
    BY <1>4 DEF Pends
  <1>5. ASSUME NEW ip \in IPs
        PROVE  pending'[ip] = Cardinality(Pends(pend', peer', ip)) /\ pending'[ip] <= PendingBound(ip)
    <2>1. pending[ip] = Cardinality(Pends(pend, peer, ip)) /\ pending[ip] <= PendingBound(ip)
      BY DEF PendOK
    <2>2. PendingBound(ip) \in Nat
      BY ServersAreConfigured, LimitsAreNat DEF PendingBound
    <2>3. CASE ip = at
      BY <1>3, <2>1, <2>2, <2>3
    <2>4. CASE ip # at
      BY <1>4, <2>1, <2>4
    <2> QED
      BY <2>3, <2>4
  <1>6. pending' \in [IPs -> Nat]
    OBVIOUS
  <1>7. PendOK'
    BY <1>5 DEF PendOK, Pends, PendingBound
  <1> QED
    BY <1>6, <1>7

\* What leaves the places and the addresses alone keeps them counted.
LEMMA PendingStays ==
    ASSUME PendOK, pend' = pend, peer' = peer, pending' = pending, server' = server
    PROVE  PendOK'
  BY DEF PendOK, Pends, PendingBound

\* A place taken of the semaphore.
LEMMA PlaceTaken ==
    ASSUME PlaceOK, free \in Nat, server \in Servers, NEW c, c \notin Placed,
           Placed' = Placed \cup {c}, free > 0, free' = free - 1, server' = server
    PROVE  PlaceOK' /\ free' \in Nat
  <1>1. Placed \subseteq Conns /\ server.total \in Nat
    BY ServersAreConfigured DEF Placed
  <1>2. Cardinality(Placed') = Cardinality(Placed) + 1 /\ Cardinality(Placed) \in Nat
    BY <1>1, CountAdds, Counted
  <1> QED
    BY <1>1, <1>2 DEF PlaceOK

\* A place given back to the semaphore.
LEMMA PlaceGiven ==
    ASSUME PlaceOK, free \in Nat, server \in Servers, NEW c, c \in Placed,
           Placed' = Placed \ {c}, free' = free + 1, server' = server
    PROVE  PlaceOK' /\ free' \in Nat
  <1>1. Placed \subseteq Conns /\ server.total \in Nat
    BY ServersAreConfigured DEF Placed
  <1>2. /\ Cardinality(Placed') = Cardinality(Placed) - 1
        /\ Cardinality(Placed) \in Nat /\ Cardinality(Placed') \in Nat
    BY <1>1, CountDrops, Counted
  <1> QED
    BY <1>1, <1>2 DEF PlaceOK

\* The semaphore left alone.
LEMMA PlaceStays ==
    ASSUME PlaceOK, Placed' = Placed, free' = free, server' = server
    PROVE  PlaceOK'
  BY DEF PlaceOK
-----------------------------------------------------------------------------
(***************************************************************************)
(* The invariant holds at the start and every step keeps it.               *)
(***************************************************************************)
LEMMA InitIInv == Init => IInv
  <1> SUFFICES ASSUME Init PROVE IInv
    OBVIOUS
  <1>1. TypeOK
    <2>1. server.total \in Nat
      BY ServersAreConfigured DEF Init
    <2>2. (CHOOSE ip \in IPs : TRUE) \in IPs
      BY SomeAddress
    <2>3. /\ stage \in [Conns -> Stages] /\ peer \in [Conns -> IPs] /\ who \in [Conns -> Who]
          /\ pend \in [Conns -> BOOLEAN] /\ permit \in [Conns -> Permits \cup {NoPermit}]
          /\ calls \in [Conns -> 0..MaxCalls]
      BY <2>2, LimitsAreNat DEF Init, Stages, Who
    <2>4. /\ closed \in [Conns -> BOOLEAN] /\ closedBy \in [Conns -> Sessions \cup {Nobody}]
          /\ watchers \in [Conns -> SUBSET Sessions] /\ draining \in [Conns -> BOOLEAN]
      BY DEF Init
    <2>5. /\ pending \in [IPs -> Nat] /\ perIp \in [IPs -> Nat] /\ perPrincipal \in [Sessions -> Nat]
          /\ anonymous \in Nat /\ anonymousPerIp \in [IPs -> Nat] /\ free \in Nat
      BY <2>1 DEF Init
    <2>6. alive \subseteq Sessions /\ {stopping, accepting} \subseteq BOOLEAN /\ server \in Servers
      BY DEF Init
    <2> QED
      BY <2>3, <2>4, <2>5, <2>6 DEF TypeOK
  <1>2. /\ \A ip \in IPs : Pends(pend, peer, ip) = {} /\ Per(permit, ip) = {} /\ AnonAt(permit, ip) = {}
        /\ \A w \in Who : Of(permit, w) = {}
        /\ Placed = {}
    BY DEF Init, Pends, Per, AnonAt, Of, Placed
  <1>3. Cardinality({}) = 0
    BY FS_EmptySet
  <1>4. PendOK
    <2>1. \A ip : PendingBound(ip) \in Nat
      BY <1>1, LimitsAreNat, ServersAreConfigured DEF PendingBound, TypeOK
    <2>2. \A ip \in IPs : pending[ip] = 0 /\ 0 <= PendingBound(ip)
      BY <2>1 DEF Init
    <2>3. \A ip \in IPs : Cardinality(Pends(pend, peer, ip)) = 0
      BY <1>2, <1>3
    <2> QED
      BY <2>2, <2>3 DEF PendOK
  <1>5. QuotaOK
    <2>1. server.perIp \in Nat
      BY <1>1, ServersAreConfigured DEF TypeOK
    <2>2. /\ \A ip \in IPs : Cardinality(Per(permit, ip)) = 0 /\ Cardinality(AnonAt(permit, ip)) = 0
          /\ \A w \in Who : Cardinality(Of(permit, w)) = 0
      BY <1>2, <1>3
    <2>3. /\ \A ip \in IPs : perIp[ip] = 0 /\ anonymousPerIp[ip] = 0
          /\ \A s \in Sessions : perPrincipal[s] = 0
          /\ anonymous = 0
      BY DEF Init
    <2>4. PerIpOK /\ AnonymousAtOK
      BY <2>1, <2>2, <2>3, LimitsAreNat DEF PerIpOK, AnonymousAtOK
    <2>5. PrincipalOK /\ AnonymousOK
      BY <2>2, <2>3, LimitsAreNat DEF PrincipalOK, AnonymousOK, Who
    <2> QED
      BY <2>4, <2>5 DEF QuotaOK
  <1>6. PlaceOK
    <2>1. server.total \in Nat
      BY <1>1, ServersAreConfigured DEF TypeOK
    <2> QED
      BY <1>2, <1>3, <2>1 DEF PlaceOK, Init
  <1>7. StageOK
    BY DEF StageOK, Holds, Init
  <1> QED
    BY <1>1, <1>4, <1>5, <1>6, <1>7 DEF IInv

\* One step per action, and under it one per kind of place it can disturb.
LEMMA NextIInv == IInv /\ [Next]_vars => IInv'
  <1> SUFFICES ASSUME IInv, [Next]_vars PROVE IInv'
    OBVIOUS
  <1> USE DEF IInv
  <1>t. QuotaTypes /\ server \in Servers /\ free \in Nat
    BY DEF TypeOK, QuotaTypes
  <1>1. ASSUME NEW c \in Conns, NEW ip \in IPs, Accept(c, ip) PROVE IInv'
    <2>1. server' = server
      BY <1>1 DEF Accept, serverVars
    <2>2. QuotaTypes' /\ QuotaOK'
      BY <1>1, <1>t, <2>1, QuotaStays DEF Accept, KeepPermit, connVars, openVars
    <2>3. PendOK' /\ pending' \in [IPs -> Nat]
      <3>1. ~pend[c]
        BY <1>1 DEF Accept, StageOK
      <3> QED
        BY <1>1, <1>t, <2>1, <3>1, PendingTaken DEF Accept, TypeOK
    <2>4. PlaceOK'
      <3>1. Placed' = Placed
        BY <1>1 DEF Accept, Move, TypeOK, Placed
      <3> QED
        BY <1>1, <2>1, <3>1, PlaceStays DEF Accept
    <2>5. StageOK'
      BY <1>1 DEF Accept, Move, StageOK, Holds, TypeOK
    <2>6. TypeOK'
      BY <1>1, <2>1, <2>2, <2>3, <2>4, LimitsAreNat DEF Accept, Move, TypeOK, QuotaTypes, Stages, Who, connVars, serverVars
    <2> QED
      BY <2>2, <2>3, <2>4, <2>5, <2>6
  <1>2. ASSUME NEW c \in Conns, Request(c) PROVE IInv'
    <2>1. server' = server
      BY <1>2 DEF Request, serverVars
    <2>2. QuotaTypes' /\ QuotaOK'
      BY <1>2, <1>t, <2>1, QuotaStays DEF Request, KeepPermit, connVars, openVars
    <2>3. PendOK'
      BY <1>2, <2>1, PendingStays DEF Request, connVars
    <2>4. PlaceOK'
      <3>1. Placed' = Placed
        BY <1>2 DEF Request, Move, TypeOK, Placed
      <3> QED
        BY <1>2, <2>1, <3>1, PlaceStays DEF Request
    <2>5. StageOK'
      BY <1>2 DEF Request, Move, StageOK, Holds, TypeOK
    <2>6. TypeOK'
      BY <1>2, <2>1, <2>2, <2>3, <2>4, LimitsAreNat DEF Request, Move, TypeOK, QuotaTypes, Stages, Who, connVars, serverVars
    <2> QED
      BY <2>2, <2>3, <2>4, <2>5, <2>6
  <1>3. ASSUME NEW c \in Conns, ValidateRefused(c) PROVE IInv'
    <2>1. server' = server
      BY <1>3 DEF ValidateRefused, serverVars
    <2>2. QuotaTypes' /\ QuotaOK'
      BY <1>3, <1>t, <2>1, QuotaStays DEF ValidateRefused, KeepPermit, connVars, openVars
    <2>3. PendOK'
      BY <1>3, <2>1, PendingStays DEF ValidateRefused, connVars
    <2>4. PlaceOK'
      <3>1. Placed' = Placed
        BY <1>3 DEF ValidateRefused, Move, TypeOK, Placed
      <3> QED
        BY <1>3, <2>1, <3>1, PlaceStays DEF ValidateRefused
    <2>5. StageOK'
      BY <1>3 DEF ValidateRefused, Move, StageOK, Holds, TypeOK
    <2>6. TypeOK'
      BY <1>3, <2>1, <2>2, <2>3, <2>4, LimitsAreNat DEF ValidateRefused, Move, TypeOK, QuotaTypes, Stages, Who, connVars, serverVars
    <2> QED
      BY <2>2, <2>3, <2>4, <2>5, <2>6
  <1>4. ASSUME NEW c \in Conns, NEW w \in Who, Validate(c, w) PROVE IInv'
    <2>1. server' = server
      BY <1>4 DEF Validate, serverVars
    <2>2. QuotaTypes' /\ QuotaOK'
      BY <1>4, <1>t, <2>1, QuotaStays DEF Validate, KeepPermit, connVars, openVars
    <2>3. PendOK'
      BY <1>4, <2>1, PendingStays DEF Validate, connVars
    <2>4. PlaceOK'
      <3>1. Placed' = Placed
        BY <1>4 DEF Validate, Move, TypeOK, Placed
      <3> QED
        BY <1>4, <2>1, <3>1, PlaceStays DEF Validate
    <2>5. StageOK'
      BY <1>4 DEF Validate, Move, StageOK, Holds, TypeOK
    <2>6. TypeOK'
      BY <1>4, <2>1, <2>2, <2>3, <2>4, LimitsAreNat DEF Validate, Move, TypeOK, QuotaTypes, Stages, Who, connVars, serverVars
    <2> QED
      BY <2>2, <2>3, <2>4, <2>5, <2>6
  <1>5. ASSUME NEW c \in Conns, NEW ip \in IPs, TakeQuota(c, ip) PROVE IInv'
    <2>1. server' = server
      BY <1>5 DEF TakeQuota, serverVars
    <2>2. QuotaTypes' /\ QuotaOK'
      <3> DEFINE p == [ip |-> ip, who |-> who[c]]
      <3>1. p \in Permits
        BY DEF TypeOK, Permits
      <3>2. permit[c] = NoPermit
        BY <1>5 DEF TakeQuota, StageOK, Holds
      <3>3. QuotasAdmit(p) /\ permit' = [permit EXCEPT ![c] = p]
        BY <1>5 DEF TakeQuota
      <3> HIDE DEF p
      <3> QED
        BY <1>t, <2>1, <3>1, <3>2, <3>3, QuotaTaken
    <2>3. PendOK'
      BY <1>5, <2>1, PendingStays DEF TakeQuota, connVars
    <2>4. PlaceOK'
      <3>1. Placed' = Placed
        BY <1>5 DEF TakeQuota, Move, TypeOK, Placed
      <3> QED
        BY <1>5, <2>1, <3>1, PlaceStays DEF TakeQuota
    <2>5. StageOK'
      BY <1>5, WhoAreDistinct DEF TakeQuota, Move, StageOK, Holds, TypeOK, Permits, Who
    <2>6. TypeOK'
      BY <1>5, <2>1, <2>2, <2>3, <2>4, LimitsAreNat DEF TakeQuota, Move, TypeOK, QuotaTypes, Stages, Who, connVars, serverVars
    <2> QED
      BY <2>2, <2>3, <2>4, <2>5, <2>6
  <1>6. ASSUME NEW c \in Conns, NEW ip \in IPs, QuotaFull(c, ip) PROVE IInv'
    <2>1. server' = server
      BY <1>6 DEF QuotaFull, serverVars
    <2>2. QuotaTypes' /\ QuotaOK'
      BY <1>6, <1>t, <2>1, QuotaStays DEF QuotaFull, KeepPermit, connVars, openVars
    <2>3. PendOK'
      BY <1>6, <2>1, PendingStays DEF QuotaFull, connVars
    <2>4. PlaceOK'
      <3>1. Placed' = Placed
        BY <1>6 DEF QuotaFull, Move, TypeOK, Placed
      <3> QED
        BY <1>6, <2>1, <3>1, PlaceStays DEF QuotaFull
    <2>5. StageOK'
      BY <1>6 DEF QuotaFull, Move, StageOK, Holds, TypeOK
    <2>6. TypeOK'
      BY <1>6, <2>1, <2>2, <2>3, <2>4, LimitsAreNat DEF QuotaFull, Move, TypeOK, QuotaTypes, Stages, Who, connVars, serverVars
    <2> QED
      BY <2>2, <2>3, <2>4, <2>5, <2>6
  <1>7. ASSUME NEW c \in Conns, NEW wellFormed \in BOOLEAN, UpgradeRefused(c, wellFormed) PROVE IInv'
    <2>1. server' = server
      BY <1>7 DEF UpgradeRefused, serverVars
    <2>2. QuotaTypes' /\ QuotaOK'
      <3>1. permit[c] \in Permits
        BY <1>7 DEF UpgradeRefused, StageOK, Holds, TypeOK
      <3>2. QuotasDrop(permit[c]) /\ permit' = [permit EXCEPT ![c] = NoPermit]
        BY <1>7 DEF UpgradeRefused, DropPermit
      <3> QED
        BY <1>t, <2>1, <3>1, <3>2, QuotaDropped
    <2>3. PendOK'
      BY <1>7, <2>1, PendingStays DEF UpgradeRefused, connVars
    <2>4. PlaceOK'
      <3>1. Placed' = Placed
        BY <1>7 DEF UpgradeRefused, Move, TypeOK, Placed
      <3> QED
        BY <1>7, <2>1, <3>1, PlaceStays DEF UpgradeRefused
    <2>5. StageOK'
      BY <1>7 DEF UpgradeRefused, Move, DropPermit, StageOK, Holds, TypeOK
    <2>6. TypeOK'
      BY <1>7, <2>1, <2>2, <2>3, <2>4, LimitsAreNat DEF UpgradeRefused, Move, TypeOK, QuotaTypes, Stages, Who, connVars, serverVars
    <2> QED
      BY <2>2, <2>3, <2>4, <2>5, <2>6
  <1>8. ASSUME NEW c \in Conns, Upgrade(c) PROVE IInv'
    <2>1. server' = server
      BY <1>8 DEF Upgrade, serverVars
    <2>2. QuotaTypes' /\ QuotaOK'
      BY <1>8, <1>t, <2>1, QuotaStays DEF Upgrade, KeepPermit, connVars, openVars
    <2>3. PendOK'
      BY <1>8, <2>1, PendingStays DEF Upgrade, connVars
    <2>4. PlaceOK' /\ free' \in Nat
      <3>1. c \notin Placed /\ Placed' = Placed \cup {c}
        BY <1>8 DEF Upgrade, Move, TypeOK, Placed
      <3> QED
        BY <1>8, <1>t, <2>1, <3>1, PlaceTaken DEF Upgrade
    <2>5. StageOK'
      BY <1>8 DEF Upgrade, Move, StageOK, Holds, TypeOK
    <2>6. TypeOK'
      BY <1>8, <2>1, <2>2, <2>3, <2>4, LimitsAreNat DEF Upgrade, Move, TypeOK, QuotaTypes, Stages, Who, connVars, serverVars
    <2> QED
      BY <2>2, <2>3, <2>4, <2>5, <2>6
  <1>9. ASSUME NEW c \in Conns, Drain(c) PROVE IInv'
    <2>1. server' = server
      BY <1>9 DEF Drain, serverVars
    <2>2. QuotaTypes' /\ QuotaOK'
      BY <1>9, <1>t, <2>1, QuotaStays DEF Drain, KeepPermit, connVars, openVars
    <2>3. PendOK'
      BY <1>9, <2>1, PendingStays DEF Drain, connVars
    <2>4. PlaceOK'
      <3>1. Placed' = Placed
        BY <1>9 DEF Drain, TypeOK, Placed
      <3> QED
        BY <1>9, <2>1, <3>1, PlaceStays DEF Drain
    <2>5. StageOK'
      BY <1>9 DEF Drain, StageOK, Holds, TypeOK
    <2>6. TypeOK'
      BY <1>9, <2>1, <2>2, <2>3, <2>4, LimitsAreNat DEF Drain, TypeOK, QuotaTypes, Stages, Who, connVars, serverVars
    <2> QED
      BY <2>2, <2>3, <2>4, <2>5, <2>6
  <1>10. ASSUME NEW c \in Conns, HttpEnds(c) PROVE IInv'
    <2>1. server' = server
      BY <1>10 DEF HttpEnds, serverVars
    <2>2. QuotaTypes' /\ QuotaOK'
      BY <1>10, <1>t, <2>1, QuotaStays DEF HttpEnds, KeepPermit, connVars, openVars
    <2>3. PendOK' /\ pend' = [pend EXCEPT ![c] = FALSE] /\ pending' \in [IPs -> Nat]
      <3>1. pend[c] /\ GivePendingBack(c) /\ peer' = peer
        BY <1>10 DEF HttpEnds, StageOK
      <3> QED
        BY <1>t, <2>1, <3>1, PendingDropped DEF TypeOK
    <2>4. PlaceOK'
      <3>1. Placed' = Placed
        BY <1>10 DEF HttpEnds, Forget, Move, TypeOK, Placed
      <3> QED
        BY <1>10, <2>1, <3>1, PlaceStays DEF HttpEnds
    <2>5. StageOK'
      BY <1>10, <2>3 DEF HttpEnds, Forget, Move, StageOK, Holds, TypeOK
    <2>6. TypeOK'
      BY <1>10, <2>1, <2>2, <2>3, <2>4, LimitsAreNat DEF HttpEnds, Forget, Move, TypeOK, QuotaTypes, Stages, Who, connVars, serverVars
    <2> QED
      BY <2>2, <2>3, <2>4, <2>5, <2>6
  <1>11. ASSUME NEW c \in Conns, UpgradeDone(c) PROVE IInv'
    <2>1. server' = server
      BY <1>11 DEF UpgradeDone, serverVars
    <2>2. QuotaTypes' /\ QuotaOK'
      BY <1>11, <1>t, <2>1, QuotaStays DEF UpgradeDone, KeepPermit, connVars, openVars
    <2>3. PendOK' /\ pend' = [pend EXCEPT ![c] = FALSE] /\ pending' \in [IPs -> Nat]
      <3>1. pend[c] /\ GivePendingBack(c) /\ peer' = peer
        BY <1>11 DEF UpgradeDone, StageOK
      <3> QED
        BY <1>t, <2>1, <3>1, PendingDropped DEF TypeOK
    <2>4. PlaceOK'
      <3>1. Placed' = Placed
        BY <1>11 DEF UpgradeDone, Move, TypeOK, Placed
      <3> QED
        BY <1>11, <2>1, <3>1, PlaceStays DEF UpgradeDone
    <2>5. StageOK'
      BY <1>11, <2>3 DEF UpgradeDone, Move, StageOK, Holds, TypeOK
    <2>6. TypeOK'
      BY <1>11, <2>1, <2>2, <2>3, <2>4, LimitsAreNat DEF UpgradeDone, Move, TypeOK, QuotaTypes, Stages, Who, connVars, serverVars
    <2> QED
      BY <2>2, <2>3, <2>4, <2>5, <2>6
  <1>12. ASSUME NEW c \in Conns, UpgradeFails(c) PROVE IInv'
    <2>1. server' = server
      BY <1>12 DEF UpgradeFails, serverVars
    <2>2. QuotaTypes' /\ QuotaOK'
      <3>1. permit[c] \in Permits
        BY <1>12 DEF UpgradeFails, StageOK, Holds, TypeOK
      <3>2. QuotasDrop(permit[c]) /\ permit' = [permit EXCEPT ![c] = NoPermit]
        BY <1>12 DEF UpgradeFails, DropPermit
      <3> QED
        BY <1>t, <2>1, <3>1, <3>2, QuotaDropped
    <2>3. PendOK' /\ pend' = [pend EXCEPT ![c] = FALSE] /\ pending' \in [IPs -> Nat]
      <3>1. pend[c] /\ GivePendingBack(c) /\ peer' = peer
        BY <1>12 DEF UpgradeFails, StageOK
      <3> QED
        BY <1>t, <2>1, <3>1, PendingDropped DEF TypeOK
    <2>4. PlaceOK' /\ free' \in Nat
      <3>1. c \in Placed /\ Placed' = Placed \ {c}
        BY <1>12 DEF UpgradeFails, Forget, Move, TypeOK, Placed
      <3> QED
        BY <1>12, <1>t, <2>1, <3>1, PlaceGiven DEF UpgradeFails
    <2>5. StageOK'
      BY <1>12, <2>3 DEF UpgradeFails, Forget, Move, DropPermit, StageOK, Holds, TypeOK
    <2>6. TypeOK'
      BY <1>12, <2>1, <2>2, <2>3, <2>4, LimitsAreNat DEF UpgradeFails, Forget, Move, TypeOK, QuotaTypes, Stages, Who, connVars, serverVars
    <2> QED
      BY <2>2, <2>3, <2>4, <2>5, <2>6
  <1>13. ASSUME NEW c \in Conns, CallStarts(c) PROVE IInv'
    <2>1. server' = server
      BY <1>13 DEF CallStarts, serverVars
    <2>2. QuotaTypes' /\ QuotaOK'
      BY <1>13, <1>t, <2>1, QuotaStays DEF CallStarts, KeepPermit, connVars, openVars
    <2>3. PendOK'
      BY <1>13, <2>1, PendingStays DEF CallStarts, connVars
    <2>4. PlaceOK'
      <3>1. Placed' = Placed
        BY <1>13 DEF CallStarts, TypeOK, Placed
      <3> QED
        BY <1>13, <2>1, <3>1, PlaceStays DEF CallStarts
    <2>5. StageOK'
      BY <1>13 DEF CallStarts, StageOK, Holds, TypeOK
    <2>6. TypeOK'
      BY <1>13, <2>1, <2>2, <2>3, <2>4, LimitsAreNat DEF CallStarts, TypeOK, QuotaTypes, Stages, Who, connVars, serverVars
    <2> QED
      BY <2>2, <2>3, <2>4, <2>5, <2>6
  <1>14. ASSUME NEW c \in Conns, CallEnds(c) PROVE IInv'
    <2>1. server' = server
      BY <1>14 DEF CallEnds, serverVars
    <2>2. QuotaTypes' /\ QuotaOK'
      <3>1. CASE KeepPermit
        BY <1>t, <2>1, <3>1, QuotaStays
      <3>2. CASE DropPermit(c) /\ Holds(c)
        <4>1. permit[c] \in Permits
          BY <3>2 DEF StageOK, TypeOK
        <4>2. QuotasDrop(permit[c]) /\ permit' = [permit EXCEPT ![c] = NoPermit]
          BY <3>2 DEF DropPermit
        <4> QED
          BY <1>t, <2>1, <4>1, <4>2, QuotaDropped
      <3> QED
        BY <1>14, <3>1, <3>2 DEF CallEnds, Holds
    <2>3. PendOK'
      BY <1>14, <2>1, PendingStays DEF CallEnds, connVars
    <2>4. PlaceOK'
      <3>1. Placed' = Placed
        BY <1>14 DEF CallEnds, Forget, Move, TypeOK, Placed
      <3> QED
        BY <1>14, <2>1, <3>1, PlaceStays DEF CallEnds
    <2>5. StageOK'
      BY <1>14 DEF CallEnds, Forget, Move, DropPermit, KeepPermit, StageOK, Holds, TypeOK
    <2>6. TypeOK'
      <3>1. calls' \in [Conns -> 0..MaxCalls]
        BY <1>14, LimitsAreNat DEF CallEnds, TypeOK
      <3>2. /\ stage' \in [Conns -> Stages] /\ who' \in [Conns -> Who]
            /\ closedBy' \in [Conns -> Sessions \cup {Nobody}]
            /\ watchers' \in [Conns -> SUBSET Sessions] /\ draining' \in [Conns -> BOOLEAN]
        BY <1>14 DEF CallEnds, Forget, Move, TypeOK, Stages, Who
      <3> QED
        BY <1>14, <2>2, <3>1, <3>2 DEF CallEnds, TypeOK, QuotaTypes, serverVars
    <2> QED
      BY <2>2, <2>3, <2>4, <2>5, <2>6
  <1>15. ASSUME NEW c \in Conns, NEW why \in {"stopped", "closed", "other"}, LoopEnds(c, why) PROVE IInv'
    <2>1. server' = server
      BY <1>15 DEF LoopEnds, serverVars
    <2>2. QuotaTypes' /\ QuotaOK'
      <3>1. CASE KeepPermit
        BY <1>t, <2>1, <3>1, QuotaStays
      <3>2. CASE DropPermit(c) /\ Holds(c)
        <4>1. permit[c] \in Permits
          BY <3>2 DEF StageOK, TypeOK
        <4>2. QuotasDrop(permit[c]) /\ permit' = [permit EXCEPT ![c] = NoPermit]
          BY <3>2 DEF DropPermit
        <4> QED
          BY <1>t, <2>1, <4>1, <4>2, QuotaDropped
      <3> QED
        BY <1>15, <3>1, <3>2 DEF LoopEnds, Holds
    <2>3. PendOK'
      BY <1>15, <2>1, PendingStays DEF LoopEnds, connVars
    <2>4. PlaceOK'
      <3>1. Placed' = Placed
        BY <1>15 DEF LoopEnds, Move, TypeOK, Placed
      <3> QED
        BY <1>15, <2>1, <3>1, PlaceStays DEF LoopEnds
    <2>5. StageOK'
      BY <1>15 DEF LoopEnds, Move, DropPermit, KeepPermit, StageOK, Holds, TypeOK
    <2>6. TypeOK'
      BY <1>15, <2>1, <2>2, <2>3, <2>4, LimitsAreNat DEF LoopEnds, Move, TypeOK, QuotaTypes, Stages, Who, connVars, serverVars
    <2> QED
      BY <2>2, <2>3, <2>4, <2>5, <2>6
  <1>16. ASSUME NEW c \in Conns, SocketEnds(c) PROVE IInv'
    <2>1. server' = server
      BY <1>16 DEF SocketEnds, serverVars
    <2>2. QuotaTypes' /\ QuotaOK'
      BY <1>16, <1>t, <2>1, QuotaStays DEF SocketEnds, KeepPermit, connVars, openVars
    <2>3. PendOK'
      BY <1>16, <2>1, PendingStays DEF SocketEnds, connVars
    <2>4. PlaceOK' /\ free' \in Nat
      <3>1. c \in Placed /\ Placed' = Placed \ {c}
        BY <1>16 DEF SocketEnds, Forget, Move, TypeOK, Placed
      <3> QED
        BY <1>16, <1>t, <2>1, <3>1, PlaceGiven DEF SocketEnds
    <2>5. StageOK'
      BY <1>16 DEF SocketEnds, Forget, Move, StageOK, Holds, TypeOK
    <2>6. TypeOK'
      BY <1>16, <2>1, <2>2, <2>3, <2>4, LimitsAreNat, ZenonT(60) DEF SocketEnds, Forget, Move, TypeOK, QuotaTypes, Stages, Who, connVars, serverVars
    <2> QED
      BY <2>2, <2>3, <2>4, <2>5, <2>6
  <1>17. ASSUME NEW c \in Conns, Close(c) PROVE IInv'
    <2>1. server' = server
      BY <1>17 DEF Close, serverVars
    <2>2. QuotaTypes' /\ QuotaOK'
      BY <1>17, <1>t, <2>1, QuotaStays DEF Close, KeepPermit, connVars, openVars
    <2>3. PendOK'
      BY <1>17, <2>1, PendingStays DEF Close, connVars
    <2>4. PlaceOK'
      <3>1. Placed' = Placed
        BY <1>17 DEF Close, TypeOK, Placed
      <3> QED
        BY <1>17, <2>1, <3>1, PlaceStays DEF Close
    <2>5. StageOK'
      BY <1>17 DEF Close, StageOK, Holds, TypeOK
    <2>6. TypeOK'
      BY <1>17, <2>1, <2>2, <2>3, <2>4, LimitsAreNat DEF Close, TypeOK, QuotaTypes, Stages, Who, connVars, serverVars
    <2> QED
      BY <2>2, <2>3, <2>4, <2>5, <2>6
  <1>18. ASSUME NEW c \in Conns, NEW s \in Sessions, WatchTick(c, s) PROVE IInv'
    <2>1. server' = server
      BY <1>18 DEF WatchTick, serverVars
    <2>2. QuotaTypes' /\ QuotaOK'
      BY <1>18, <1>t, <2>1, QuotaStays DEF WatchTick, KeepPermit, connVars, openVars
    <2>3. PendOK'
      BY <1>18, <2>1, PendingStays DEF WatchTick, connVars
    <2>4. PlaceOK'
      <3>1. Placed' = Placed
        BY <1>18 DEF WatchTick, TypeOK, Placed
      <3> QED
        BY <1>18, <2>1, <3>1, PlaceStays DEF WatchTick
    <2>5. StageOK'
      BY <1>18 DEF WatchTick, StageOK, Holds, TypeOK
    <2>6. TypeOK'
      BY <1>18, <2>1, <2>2, <2>3, <2>4, LimitsAreNat, ZenonT(60) DEF WatchTick, TypeOK, QuotaTypes, Stages, Who, connVars, serverVars
    <2> QED
      BY <2>2, <2>3, <2>4, <2>5, <2>6
  <1>19. ASSUME AcceptStops PROVE IInv'
    <2>1. server' = server
      BY <1>19 DEF AcceptStops, serverVars
    <2>2. QuotaTypes' /\ QuotaOK'
      BY <1>19, <1>t, <2>1, QuotaStays DEF AcceptStops, KeepPermit, connVars, openVars
    <2>3. PendOK'
      BY <1>19, <2>1, PendingStays DEF AcceptStops, connVars
    <2>4. PlaceOK'
      <3>1. Placed' = Placed
        BY <1>19 DEF AcceptStops, TypeOK, Placed, connVars
      <3> QED
        BY <1>19, <2>1, <3>1, PlaceStays DEF AcceptStops
    <2>5. StageOK'
      BY <1>19 DEF AcceptStops, connVars, StageOK, Holds, TypeOK
    <2>6. TypeOK'
      BY <1>19, <2>1, <2>2, <2>3, <2>4, LimitsAreNat DEF AcceptStops, connVars, TypeOK, QuotaTypes, Stages, Who, connVars, serverVars
    <2> QED
      BY <2>2, <2>3, <2>4, <2>5, <2>6
  <1>20. ASSUME Stop PROVE IInv'
    <2>1. server' = server
      BY <1>20 DEF Stop, serverVars
    <2>2. QuotaTypes' /\ QuotaOK'
      BY <1>20, <1>t, <2>1, QuotaStays DEF Stop, KeepPermit, connVars, openVars
    <2>3. PendOK'
      BY <1>20, <2>1, PendingStays DEF Stop, connVars
    <2>4. PlaceOK'
      <3>1. Placed' = Placed
        BY <1>20 DEF Stop, TypeOK, Placed, connVars
      <3> QED
        BY <1>20, <2>1, <3>1, PlaceStays DEF Stop
    <2>5. StageOK'
      BY <1>20 DEF Stop, connVars, StageOK, Holds, TypeOK
    <2>6. TypeOK'
      BY <1>20, <2>1, <2>2, <2>3, <2>4, LimitsAreNat DEF Stop, connVars, TypeOK, QuotaTypes, Stages, Who, connVars, serverVars
    <2> QED
      BY <2>2, <2>3, <2>4, <2>5, <2>6
  <1>21. ASSUME NEW s \in Sessions, SignOut(s) PROVE IInv'
    <2>1. server' = server
      BY <1>21 DEF SignOut, serverVars
    <2>2. QuotaTypes' /\ QuotaOK'
      BY <1>21, <1>t, <2>1, QuotaStays DEF SignOut, KeepPermit, connVars, openVars
    <2>3. PendOK'
      BY <1>21, <2>1, PendingStays DEF SignOut, connVars
    <2>4. PlaceOK'
      <3>1. Placed' = Placed
        BY <1>21 DEF SignOut, TypeOK, Placed, connVars
      <3> QED
        BY <1>21, <2>1, <3>1, PlaceStays DEF SignOut
    <2>5. StageOK'
      BY <1>21 DEF SignOut, connVars, StageOK, Holds, TypeOK
    <2>6. TypeOK'
      BY <1>21, <2>1, <2>2, <2>3, <2>4, LimitsAreNat DEF SignOut, connVars, TypeOK, QuotaTypes, Stages, Who, connVars, serverVars
    <2> QED
      BY <2>2, <2>3, <2>4, <2>5, <2>6
  <1>22. CASE UNCHANGED vars
    <2>1. QuotaTypes' /\ QuotaOK'
      BY <1>22, <1>t, QuotaStays DEF vars, connVars, serverVars, KeepPermit, openVars
    <2>2. PendOK'
      BY <1>22, PendingStays DEF vars, connVars, serverVars
    <2>3. PlaceOK'
      BY <1>22 DEF vars, connVars, serverVars, PlaceOK, Placed
    <2>4. StageOK'
      BY <1>22 DEF vars, connVars, StageOK, Holds
    <2>5. TypeOK'
      BY <1>22 DEF vars, connVars, openVars, serverVars, TypeOK
    <2> QED
      BY <2>1, <2>2, <2>3, <2>4, <2>5
  <1> QED
    BY <1>1, <1>2, <1>3, <1>4, <1>5, <1>6, <1>7, <1>8, <1>9, <1>10, <1>11, <1>12, <1>13, <1>14, <1>15, <1>16, <1>17, <1>18, <1>19, <1>20, <1>21, <1>22
       DEF Next, HttpStep, SocketStep

\* IInv is an invariant of the server.
LEMMA InvariantHolds == Spec => []IInv
  BY InitIInv, NextIInv, PTL DEF Spec
-----------------------------------------------------------------------------
(***************************************************************************)
(* What the runs check.                                                    *)
(***************************************************************************)

\* Every count of Pending, Quotas and the semaphore is the places held, and
\* the places follow where each connection is, however its upgrade, its loop
\* and its calls end (the drops of PendingPlace and QuotaPermit, Loop::end).
THEOREM EveryPlaceIsCounted == Spec => []PlacesExact
  <1>1. IInv => PlacesExact
    <2> SUFFICES ASSUME IInv PROVE PlacesExact
      OBVIOUS
    <2>1. CountsExact
      <3>1. /\ \A ip : Per(permit, ip) = {c \in Permitted : permit[c].ip = ip}
            /\ \A ip : AnonAt(permit, ip) = {c \in Permitted : permit[c].who = Anonymous /\ permit[c].ip = ip}
            /\ \A w : Of(permit, w) = {c \in Permitted : permit[c].who = w}
            /\ \A ip : Pends(pend, peer, ip) = {c \in Conns : pend[c] /\ peer[c] = ip}
        BY DEF Per, AnonAt, Of, Permitted, Pends
      <3> QED
        BY <3>1 DEF IInv, PendOK, QuotaOK, PerIpOK, PrincipalOK, AnonymousOK, AnonymousAtOK, PlaceOK, CountsExact
    <2>2. PlacesFollowStage
      BY DEF IInv, StageOK, Holds, TypeOK, PlacesFollowStage
    <2> QED
      BY <2>1, <2>2 DEF IInv, PlacesExact
  <1> QED
    BY <1>1, InvariantHolds, PTL

\* A set of connections is no larger than one that contains it.
LEMMA FewerCounted ==
    ASSUME NEW S, NEW T, T \subseteq Conns, S \subseteq T
    PROVE  Cardinality(S) <= Cardinality(T) /\ Cardinality(S) \in Nat /\ Cardinality(T) \in Nat
  <1>1. IsFiniteSet(T) /\ S \subseteq Conns
    BY Counted
  <1> QED
    BY <1>1, FS_Subset, Counted

\* The sockets that are open, not only the counts, keep within every quota
\* of ConnectionQuotas (Quotas::admit, Pending::take, the semaphore).
THEOREM QuotasHold == Spec => []SocketsWithinQuotas
  <1>1. IInv => SocketsWithinQuotas
    <2> SUFFICES ASSUME IInv PROVE SocketsWithinQuotas
      OBVIOUS
    <2> DEFINE In == {c \in Conns : stage[c] \in {"upgrading", "open"}}
    <2>0. \A c \in In : permit[c] # NoPermit
      BY DEF IInv, StageOK, Holds
    <2>t. server.total \in Nat /\ server.perIp \in Nat /\ free \in Nat
      BY ServersAreConfigured DEF IInv, TypeOK
    <2>1. Cardinality(Placed) <= server.total
      <3>1. Cardinality(Placed) \in Nat
        BY Counted DEF Placed
      <3> QED
        BY <2>t, <3>1 DEF IInv, PlaceOK
    <2>2. ASSUME NEW w \in Who
          PROVE  Cardinality({c \in Conns : stage[c] \in {"upgrading", "open"} /\ permit[c].who = w})
                     <= Cardinality(Of(permit, w))
      <3>1. {c \in Conns : stage[c] \in {"upgrading", "open"} /\ permit[c].who = w} \subseteq Of(permit, w)
        BY <2>0 DEF Of
      <3> QED
        BY <3>1, Subsets, FewerCounted
    <2>3. ASSUME NEW ip \in IPs
          PROVE  /\ Cardinality({c \in Conns : stage[c] \in {"upgrading", "open"} /\ permit[c].ip = ip})
                     <= Cardinality(Per(permit, ip))
                 /\ Cardinality({c \in Conns : stage[c] \in {"upgrading", "open"} /\ permit[c].ip = ip
                                                 /\ permit[c].who = Anonymous})
                     <= Cardinality(AnonAt(permit, ip))
      <3>1. {c \in Conns : stage[c] \in {"upgrading", "open"} /\ permit[c].ip = ip} \subseteq Per(permit, ip)
        BY <2>0 DEF Per
      <3>2. {c \in Conns : stage[c] \in {"upgrading", "open"} /\ permit[c].ip = ip /\ permit[c].who = Anonymous}
                \subseteq AnonAt(permit, ip)
        BY <2>0 DEF AnonAt
      <3> QED
        BY <3>1, <3>2, Subsets, FewerCounted
    <2>4. Open(LAMBDA p : p.who = Anonymous) <= MaxAnonymous
      <3>1. Cardinality(Of(permit, Anonymous)) <= MaxAnonymous /\ Cardinality(Of(permit, Anonymous)) \in Nat
        BY Subsets, Counted DEF IInv, QuotaOK, AnonymousOK
      <3> DEFINE S == {c \in Conns : stage[c] \in {"upgrading", "open"} /\ permit[c].who = Anonymous}
      <3>2. Cardinality(S) \in Nat /\ Cardinality(S) <= Cardinality(Of(permit, Anonymous))
        BY <2>2, Counted DEF Who
      <3>3. Open(LAMBDA p : p.who = Anonymous) = Cardinality(S)
        BY DEF Open
      <3> HIDE DEF S
      <3> QED
        BY <3>1, <3>2, <3>3, LimitsAreNat
    <2>5. ASSUME NEW s \in Sessions PROVE Open(LAMBDA p : p.who = s) <= MaxPerPrincipal
      <3>1. Cardinality(Of(permit, s)) <= MaxPerPrincipal /\ Cardinality(Of(permit, s)) \in Nat
        BY Subsets, Counted DEF IInv, QuotaOK, PrincipalOK
      <3> DEFINE S == {c \in Conns : stage[c] \in {"upgrading", "open"} /\ permit[c].who = s}
      <3>2. Cardinality(S) \in Nat /\ Cardinality(S) <= Cardinality(Of(permit, s))
        BY <2>2, Counted DEF Who
      <3>3. Open(LAMBDA p : p.who = s) = Cardinality(S)
        BY DEF Open
      <3> HIDE DEF S
      <3> QED
        BY <3>1, <3>2, <3>3, LimitsAreNat
    <2>6. ASSUME NEW ip \in IPs PROVE Open(LAMBDA p : p.ip = ip) <= server.perIp
      <3>1. Cardinality(Per(permit, ip)) <= server.perIp /\ Cardinality(Per(permit, ip)) \in Nat
        BY Subsets, Counted DEF IInv, QuotaOK, PerIpOK
      <3> DEFINE S == {c \in Conns : stage[c] \in {"upgrading", "open"} /\ permit[c].ip = ip}
      <3>2. Cardinality(S) \in Nat /\ Cardinality(S) <= Cardinality(Per(permit, ip))
        BY <2>3, Counted
      <3>3. Open(LAMBDA p : p.ip = ip) = Cardinality(S)
        BY DEF Open
      <3> HIDE DEF S
      <3> QED
        BY <2>t, <3>1, <3>2, <3>3
    <2>7. ASSUME NEW ip \in IPs PROVE Open(LAMBDA p : p.ip = ip /\ p.who = Anonymous) <= MaxAnonymousPerIp
      <3>1. Cardinality(AnonAt(permit, ip)) <= MaxAnonymousPerIp /\ Cardinality(AnonAt(permit, ip)) \in Nat
        BY Subsets, Counted DEF IInv, QuotaOK, AnonymousAtOK
      <3> DEFINE S == {c \in Conns : stage[c] \in {"upgrading", "open"} /\ permit[c].ip = ip
                                      /\ permit[c].who = Anonymous}
      <3>2. Cardinality(S) \in Nat /\ Cardinality(S) <= Cardinality(AnonAt(permit, ip))
        BY <2>3, Counted
      <3>3. Open(LAMBDA p : p.ip = ip /\ p.who = Anonymous) = Cardinality(S)
        BY DEF Open
      <3> HIDE DEF S
      <3> QED
        BY <3>1, <3>2, <3>3, LimitsAreNat
    <2>8. ASSUME NEW ip \in IPs, ip \notin server.proxies
          PROVE  Cardinality({c \in Conns : pend[c] /\ peer[c] = ip}) <= MaxPending
      BY <2>8 DEF IInv, PendOK, Pends, PendingBound
    <2> QED
      BY <2>1, <2>4, <2>5, <2>6, <2>7, <2>8 DEF SocketsWithinQuotas
  <1> QED
    BY <1>1, InvariantHolds, PTL
=============================================================================
