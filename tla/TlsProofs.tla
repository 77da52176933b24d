----------------------------- MODULE TlsProofs -----------------------------
(***************************************************************************)
(* For every number of connections, peers, pairs and changes of the files: *)
(* a peer is secure exactly while a TLS stream of its address exists, and  *)
(* a handshake during which no file changed presents the pair on disk.     *)
(***************************************************************************)
EXTENDS Tls, FiniteSetTheorems, SequenceTheorems, TLAPS

(***************************************************************************)
(* The inductive invariant.                                                *)
(***************************************************************************)

\* The streams of a peer that exist, and those of them that axum has not taken.
Open(p) == {c \in Conns : stage[c] \in HasIo /\ peer[c] = p}
Untaken(p) == {c \in Conns : stage[c] = "ready" /\ peer[c] = p}

SecureCounts == \A p \in Peers : secure[p] = Cardinality(Open(p))

\* What waits for axum is in its queue once.
ReadyOK ==
    /\ \A i \in 1..Len(ready) : stage[ready[i]] = "ready"
    /\ \A i, j \in 1..Len(ready) : ready[i] = ready[j] => i = j

\* No stamp kept anywhere is of a change to come, so that a new file's stamp
\* is one that nobody has; a file that is not there is of no pair.
Past(r) ==
    /\ r.cert <= writes \/ r.cert = MaxWrites + 1
    /\ r.key <= writes \/ r.key = MaxWrites + 1

StampsOK ==
    /\ \A f \in {"cert", "key"} :
          disk[f].stamp <= writes /\ (disk[f].stamp = 0 => disk[f].of = "nothing")
    /\ Past(current.stamps) /\ Past(failed)
    /\ \A c \in Conns : Past(seen[c])

\* These are the stamps of the files on disk.
OnDisk(r) == r.cert = disk["cert"].stamp /\ r.key = disk["key"].stamp

\* What is stored under the stamps of the files on disk is what they hold.
StoredOK ==
    Loads(disk["cert"], disk["key"]) =>
        /\ OnDisk(current.stamps) => current.pair = disk["cert"].of
        /\ ~OnDisk(failed)

\* A load under way has read the file it has the stamp of, or an older one.
ReadOK ==
    \A c \in Conns :
        stage[c] = "load_key" /\ seen[c].cert = disk["cert"].stamp /\ disk["cert"].stamp # 0
            => read[c] = disk["cert"]

\* A resolve during which no file changed has the stamps on disk.
SettledOK ==
    \A c \in Conns :
        settled[c] =>
            /\ stage[c] = "stamp_key" => seen[c].cert = disk["cert"].stamp
            /\ stage[c] \in {"compare", "lock", "load_cert", "load_key"} => OnDisk(seen[c])

StreamsOK == SecureCounts /\ ReadyOK
CertOK == StampsOK /\ StoredOK /\ ReadOK /\ SettledOK /\ ServesDisk
IInv == TypeOK /\ StreamsOK /\ CertOK
-----------------------------------------------------------------------------
\* A peer's streams are finitely many, so they can be counted.
LEMMA OpenFinite ==
    ASSUME NEW p
    PROVE  IsFiniteSet(Open(p)) /\ Cardinality(Open(p)) \in Nat
  <1>1. Open(p) \subseteq Conns
    BY DEF Open
  <1>2. IsFiniteSet(Open(p))
    BY <1>1, ConnsAreNumbered, FS_Subset
  <1> QED
    BY <1>2, FS_CardinalityType

\* A connection that has no stream, before or after, changes no peer's count.
LEMMA StreamsStay ==
    ASSUME TypeOK, StreamsOK, NEW c \in Conns, NEW s \in Stage \ HasIo, stage[c] \notin HasIo,
           Goes(c, s), \A d \in Conns \ {c} : peer'[d] = peer[d], UNCHANGED <<ready, secure>>
    PROVE  StreamsOK'
  <1>1. \A p \in Peers : Open(p)' = Open(p)
    BY DEF Open, TypeOK, Goes
  <1>2. SecureCounts'
    BY <1>1 DEF SecureCounts, StreamsOK
  <1>3. ReadyOK'
    BY DEF StreamsOK, ReadyOK, TypeOK, Goes, HasIo
  <1> QED
    BY <1>2, <1>3 DEF StreamsOK

\* Where a connection has nothing of a certificate that matters any more, or yet.
Clear == {"away", "hello", "stamp_cert", "ready", "served"}

\* So long as the files and what is loaded stay, connections that are clear of
\* the certificate and those that did not move keep what is said of it.
LEMMA CertStays ==
    ASSUME TypeOK, CertOK, UNCHANGED <<disk, writes, current, failed>>,
           \A c \in Conns :
              /\ Past(seen[c]) => Past(seen'[c])
              /\ \/ stage'[c] \in Clear
                 \/ /\ stage'[c] = stage[c] /\ seen'[c] = seen[c] /\ read'[c] = read[c]
                    /\ shown'[c] = shown[c] /\ settled'[c] = settled[c]
    PROVE  CertOK'
  <1>1. StampsOK' /\ StoredOK'
    BY DEF CertOK, StampsOK, Past, StoredOK, OnDisk, Loads
  <1>2. ReadOK' /\ SettledOK' /\ ServesDisk'
    BY DEF CertOK, ReadOK, SettledOK, ServesDisk, OnDisk, Loads, Clear
  <1> QED
    BY <1>1, <1>2 DEF CertOK

\* Initially the invariant holds.
LEMMA InitIInv == Init => IInv
  <1> SUFFICES ASSUME Init PROVE IInv
    OBVIOUS
  <1> USE ConnsAreNumbered, FirstPairIsPair, MaxWritesIsPositive
  <1>1. (CHOOSE p \in Peers : TRUE) \in Peers
    BY PeersExist
  <1>2. TypeOK
    BY <1>1, EmptySeq DEF Init, TypeOK, Stage, OnItsWay, Resolving, OneStamp, NoStamps, Missing, NoConn
  <1>3. \A p \in Peers : Open(p) = {}
    BY DEF Init, Open, HasIo
  <1>4. SecureCounts
    BY <1>3, FS_EmptySet DEF Init, SecureCounts
  <1>r. ReadyOK
    BY DEF Init, ReadyOK
  <1>5. CertOK
    BY DEF Init, CertOK, StampsOK, Past, StoredOK, OnDisk, ReadOK, SettledOK, ServesDisk, NoStamps
  <1> QED
    BY <1>2, <1>4, <1>r, <1>5 DEF IInv, StreamsOK

\* Every step keeps the invariant.
LEMMA NextIInv == IInv /\ [Next]_vars => IInv'
  <1> SUFFICES ASSUME IInv, [Next]_vars PROVE IInv'
    OBVIOUS
  <1> USE ConnsAreNumbered, FirstPairIsPair, MaxWritesIsPositive
  <1> USE DEF diskVars, certVars, connVars, listenVars
  <1>t. TypeOK /\ StreamsOK /\ CertOK
    BY DEF IInv
  <1>n. NoStamps \in [cert : OneStamp, key : OneStamp]
    BY DEF NoStamps, OneStamp
  <1>m. Missing \in [stamp : 0..MaxWrites, of : Pairs \cup {"half", "nothing"}]
    BY DEF Missing
  <1>1. ASSUME NEW f \in {"cert", "key"}, Writes(f)
        PROVE  IInv'
    \* The new file has a stamp that nobody has, or is not there.
    <2>1. TypeOK'
      BY <1>1, <1>t DEF Writes, TypeOK, Missing
    <2>2. StreamsOK'
      BY <1>1, <1>t DEF Writes, StreamsOK, SecureCounts, Open, ReadyOK
    <2>3. StampsOK'
      BY <1>1, <1>t, SMTT(40) DEF Writes, TypeOK, Missing, CertOK, StampsOK, Past, OneStamp
    <2>4. disk'[f] = Missing \/ disk'[f].stamp = writes + 1
      BY <1>1, <1>t DEF Writes, TypeOK
    <2>5. \A g \in {"cert", "key"} : g # f => disk'[g] = disk[g]
      BY <1>1, <1>t DEF Writes, TypeOK
    <2>n. writes \in Nat /\ writes + 1 <= MaxWrites /\ MaxWrites \in Nat
      BY <1>1, <1>t DEF Writes, TypeOK
    <2>p. \A r : Past(r) /\ r.cert \in Nat /\ r.key \in Nat /\ disk'[f] # Missing =>
             ~(r.cert = disk'["cert"].stamp /\ r.key = disk'["key"].stamp)
      BY <2>4, <2>n DEF Past
    <2>o. Loads(disk["cert"], disk["key"])' => disk'[f] # Missing
      BY <1>1 DEF Loads, Missing
    <2>s. StoredOK'
      <3>1. /\ Past(current.stamps) /\ Past(failed)
            /\ current.stamps.cert \in Nat /\ current.stamps.key \in Nat
            /\ failed.cert \in Nat /\ failed.key \in Nat
        BY <1>t DEF TypeOK, OneStamp, CertOK, StampsOK
      <3> QED
        BY <1>1, <2>p, <2>o, <3>1 DEF Writes, StoredOK, OnDisk
    <2>6. ReadOK'
      <3> SUFFICES ASSUME NEW c \in Conns, stage'[c] = "load_key",
                          seen'[c].cert = disk'["cert"].stamp, disk'["cert"].stamp # 0
                   PROVE  read'[c] = disk'["cert"]
        BY DEF ReadOK
      <3>1. Past(seen[c]) /\ seen[c].cert \in Nat
        <4>1. Past(seen[c])
          BY <1>t DEF CertOK, StampsOK
        <4>2. seen[c] \in [cert : OneStamp, key : OneStamp]
          BY <1>t DEF TypeOK
        <4>3. OneStamp \subseteq Nat
          BY DEF OneStamp
        <4> QED
          BY <4>1, <4>2, <4>3
      <3>2. f # "cert"
        BY <1>1, <2>4, <2>n, <3>1 DEF Writes, Past, Missing
      <3> QED
        BY <1>1, <1>t, <2>5, <3>2 DEF Writes, CertOK, ReadOK
    <2>7. SettledOK' /\ ServesDisk'
      BY <1>1 DEF Writes, SettledOK, ServesDisk
    <2> QED
      BY <2>1, <2>2, <2>3, <2>s, <2>6, <2>7 DEF IInv, CertOK
  <1>2. ASSUME NEW c \in Conns, NEW p \in Peers, Accepts(c, p)
        PROVE  IInv'
    <2>1. TypeOK'
      BY <1>2, <1>t DEF Accepts, Goes, TypeOK, Stage, OnItsWay, Resolving
    <2>2. StreamsOK'
      BY <1>2, <1>t, StreamsStay DEF Accepts, TypeOK, Stage, OnItsWay, HasIo
    <2>3. CertOK'
      BY <1>2, <1>t, CertStays DEF Accepts, Goes, TypeOK, Clear
    <2> QED
      BY <2>1, <2>2, <2>3 DEF IInv
  <1>3. CASE LoopEnds
    BY <1>3 DEF LoopEnds, IInv, TypeOK, StreamsOK, SecureCounts, Open, ReadyOK, CertOK, StampsOK, Past,
       StoredOK, OnDisk, ReadOK, SettledOK, ServesDisk
  <1>4. ASSUME NEW c \in Conns, Hello(c)
        PROVE  IInv'
    <2>1. TypeOK'
      BY <1>4, <1>t DEF Hello, Goes, TypeOK, Stage, OnItsWay, Resolving
    <2>2. StreamsOK'
      BY <1>4, <1>t, StreamsStay DEF Hello, Stage, OnItsWay, Resolving, HasIo
    <2>3. CertOK'
      BY <1>4, <1>t, CertStays DEF Hello, Goes, TypeOK, Clear
    <2> QED
      BY <2>1, <2>2, <2>3 DEF IInv
  <1>5. ASSUME NEW c \in Conns, Stamp(c)
        PROVE  IInv'
    <2>d. disk["cert"].stamp \in OneStamp /\ disk["key"].stamp \in OneStamp
      BY <1>t DEF TypeOK, OneStamp
    <2>0. /\ stage[c] \in {"stamp_cert", "stamp_key"}
          /\ Goes(c, IF stage[c] = "stamp_cert" THEN "stamp_key" ELSE "compare")
          /\ seen' \in [Conns -> [cert : OneStamp, key : OneStamp]]
          /\ \A d \in Conns \ {c} : seen'[d] = seen[d]
          /\ stage[c] = "stamp_cert" => seen'[c].cert = disk["cert"].stamp /\ seen'[c].key = seen[c].key
          /\ stage[c] = "stamp_key" => seen'[c].key = disk["key"].stamp /\ seen'[c].cert = seen[c].cert
      <3>1. CASE stage[c] = "stamp_cert"
        <4>1. seen' = [seen EXCEPT ![c] = [cert |-> disk["cert"].stamp, key |-> seen[c].key]]
          BY <1>5, <1>t, <3>1 DEF Stamp, TypeOK
        <4>2. seen[c].key \in OneStamp
          BY <1>t DEF TypeOK
        <4> QED
          BY <1>5, <1>t, <2>d, <3>1, <4>1, <4>2 DEF Stamp, Goes, TypeOK
      <3>2. CASE stage[c] = "stamp_key"
        <4>1. seen' = [seen EXCEPT ![c] = [cert |-> seen[c].cert, key |-> disk["key"].stamp]]
          BY <1>5, <1>t, <3>2 DEF Stamp, TypeOK
        <4>2. seen[c].cert \in OneStamp
          BY <1>t DEF TypeOK
        <4> QED
          BY <1>5, <1>t, <2>d, <3>2, <4>1, <4>2 DEF Stamp, Goes, TypeOK
      <3> QED
        BY <1>5, <3>1, <3>2 DEF Stamp
    <2>u. UNCHANGED <<disk, writes, current, failed, holder, loop, listening, ready, peer, read, shown, secure, settled>>
      BY <1>5 DEF Stamp
    <2>1. TypeOK'
      BY <1>t, <2>0, <2>u DEF Goes, TypeOK, Stage, OnItsWay, Resolving
    <2>2. StreamsOK'
      BY <1>t, <2>0, <2>u, StreamsStay DEF Stage, OnItsWay, Resolving, HasIo
    <2>3. StampsOK' /\ StoredOK'
      BY <1>t, <2>0, <2>u DEF TypeOK, CertOK, StampsOK, Past, StoredOK, OnDisk, Loads
    <2>4. ReadOK' /\ ServesDisk'
      BY <1>t, <2>0, <2>u DEF Goes, TypeOK, CertOK, ReadOK, ServesDisk, Loads
    <2>5. SettledOK'
      BY <1>t, <2>0, <2>u DEF Goes, TypeOK, CertOK, SettledOK, OnDisk
    <2> QED
      BY <2>1, <2>2, <2>3, <2>4, <2>5 DEF IInv, CertOK
  <1>6. ASSUME NEW c \in Conns, Compare(c)
        PROVE  IInv'
    <2>0. (Goes(c, "finish") \/ Goes(c, "lock")) /\ stage[c] = "compare"
      BY <1>6 DEF Compare
    <2>1. TypeOK'
      BY <1>6, <1>t, ZenonT(60) DEF Compare, Goes, TypeOK, Stage, OnItsWay, Resolving
    <2>2. StreamsOK'
      BY <1>6, <1>t, <2>0, StreamsStay DEF Compare, Stage, OnItsWay, Resolving, HasIo
    <2>3. StampsOK' /\ StoredOK' /\ ReadOK'
      BY <1>6, <1>t DEF Compare, Goes, TypeOK, CertOK, StampsOK, Past, StoredOK, OnDisk, Loads, ReadOK
    <2>4. SettledOK'
      BY <1>6, <1>t DEF Compare, Goes, TypeOK, CertOK, SettledOK, OnDisk
    <2>5. ServesDisk'
      BY <1>6, <1>t DEF Compare, Goes, TypeOK, CertOK, SettledOK, StoredOK, OnDisk, ServesDisk
    <2> QED
      BY <2>1, <2>2, <2>3, <2>4, <2>5 DEF IInv, CertOK
  <1>7. ASSUME NEW c \in Conns, Lock(c)
        PROVE  IInv'
    <2>0. (Goes(c, "finish") \/ Goes(c, "load_cert")) /\ stage[c] = "lock"
      BY <1>7 DEF Lock
    <2>h. \A d \in Conns : holder' = d <=> stage'[d] \in {"load_cert", "load_key"}
      BY <1>7, <1>t DEF Lock, Goes, TypeOK, NoConn
    <2>p. current.pair \in Pairs
      BY <1>t DEF TypeOK
    <2>k. shown' \in [Conns -> Pairs]
      BY <1>7, <1>t, <2>p DEF Lock, TypeOK
    <2>g. stage' \in [Conns -> Stage]
      BY <1>t, <2>0 DEF Goes, TypeOK, Stage, OnItsWay, Resolving
    <2>1. TypeOK'
      BY <1>7, <1>t, <2>h, <2>k, <2>g DEF Lock, TypeOK
    <2>2. StreamsOK'
      BY <1>7, <1>t, <2>0, StreamsStay DEF Lock, Stage, OnItsWay, Resolving, HasIo
    <2>3. StampsOK' /\ StoredOK' /\ ReadOK'
      BY <1>7, <1>t DEF Lock, Goes, TypeOK, CertOK, StampsOK, Past, StoredOK, OnDisk, Loads, ReadOK
    <2>4. SettledOK'
      BY <1>7, <1>t DEF Lock, Goes, TypeOK, CertOK, SettledOK, OnDisk
    \* Under the stamps on disk there is the pair on disk, or a failure that
    \* says there is none.
    <2>5. ServesDisk'
      BY <1>7, <1>t DEF Lock, Goes, TypeOK, CertOK, SettledOK, StoredOK, OnDisk, ServesDisk
    <2> QED
      BY <2>1, <2>2, <2>3, <2>4, <2>5 DEF IInv, CertOK
  <1>8. ASSUME NEW c \in Conns, LoadCert(c)
        PROVE  IInv'
    <2>1. TypeOK'
      BY <1>8, <1>t DEF LoadCert, Goes, TypeOK, Stage, OnItsWay, Resolving
    <2>2. StreamsOK'
      BY <1>8, <1>t, StreamsStay DEF LoadCert, Stage, OnItsWay, Resolving, HasIo
    <2>3. StampsOK' /\ StoredOK' /\ ReadOK'
      BY <1>8, <1>t DEF LoadCert, Goes, TypeOK, CertOK, StampsOK, Past, StoredOK, OnDisk, Loads, ReadOK
    <2>4. SettledOK' /\ ServesDisk'
      BY <1>8, <1>t DEF LoadCert, Goes, TypeOK, CertOK, SettledOK, OnDisk, ServesDisk
    <2> QED
      BY <2>1, <2>2, <2>3, <2>4 DEF IInv, CertOK
  <1>9. ASSUME NEW c \in Conns, LoadKey(c)
        PROVE  IInv'
    <2>k. current' \in [stamps : [cert : OneStamp, key : OneStamp], pair : Pairs]
      BY <1>9, <1>t DEF LoadKey, TypeOK, Loads
    <2>f. failed' \in [cert : OneStamp, key : OneStamp]
      BY <1>9, <1>t, <1>n DEF LoadKey, TypeOK
    <2>h. \A d \in Conns : holder' = d <=> stage'[d] \in {"load_cert", "load_key"}
      BY <1>9, <1>t DEF LoadKey, Goes, TypeOK, NoConn
    <2>1. TypeOK'
      BY <1>9, <1>t, <1>m, <2>k, <2>f, <2>h DEF LoadKey, Goes, TypeOK, Stage, OnItsWay, Resolving
    <2>2. StreamsOK'
      BY <1>9, <1>t, StreamsStay DEF LoadKey, Stage, OnItsWay, Resolving, HasIo
    <2>3. StampsOK'
      BY <1>9, <1>t DEF LoadKey, TypeOK, NoStamps, CertOK, StampsOK, Past
    \* If the stamps are still those on disk, what was read is what is there.
    <2>4. OnDisk(seen[c]) /\ Loads(disk["cert"], disk["key"]) => read[c] = disk["cert"]
      BY <1>9, <1>t DEF LoadKey, CertOK, StampsOK, ReadOK, OnDisk, Loads
    <2>5. StoredOK'
      BY <1>9, <1>t, <2>4 DEF LoadKey, TypeOK, NoStamps, CertOK, StoredOK, OnDisk, Loads
    <2>6. ReadOK' /\ SettledOK'
      BY <1>9, <1>t DEF LoadKey, Goes, TypeOK, CertOK, ReadOK, SettledOK, OnDisk
    <2>7. ServesDisk'
      BY <1>9, <1>t, <2>4 DEF LoadKey, Goes, TypeOK, CertOK, SettledOK, Loads, ServesDisk
    <2> QED
      BY <2>1, <2>2, <2>3, <2>5, <2>6, <2>7 DEF IInv, CertOK
  <1>10. ASSUME NEW c \in Conns, Refused(c)
         PROVE  IInv'
    <2>1. TypeOK'
      BY <1>10, <1>t, <1>n DEF Refused, Forgets, Goes, TypeOK, Stage, OnItsWay, Resolving
    <2>2. StreamsOK'
      BY <1>10, <1>t, StreamsStay DEF Refused, Stage, HasIo
    <2>3. CertOK'
      BY <1>10, <1>t, CertStays DEF Refused, Forgets, Goes, TypeOK, Clear, Past, NoStamps
    <2> QED
      BY <2>1, <2>2, <2>3 DEF IInv
  <1>11. ASSUME NEW c \in Conns, Done(c)
         PROVE  IInv'
    <2>1. peer[c] \in Peers /\ c \notin Open(peer[c])
      BY <1>11, <1>t DEF Done, TypeOK, Open, HasIo
    <2>2. CertOK'
      BY <1>11, <1>t, CertStays, ZenonT(60) DEF Done, Forgets, Goes, TypeOK, Clear, Past, NoStamps
    <2>3. CASE listening
      <3>1. /\ stage' = [stage EXCEPT ![c] = "ready"] /\ ready' = Append(ready, c)
            /\ secure' = [secure EXCEPT ![peer[c]] = @ + 1] /\ peer' = peer
        BY <1>11, <2>3 DEF Done, Goes
      <3>2. ready' \in Seq(Conns)
        BY <1>t, <3>1, AppendProperties DEF TypeOK
      <3>s. secure' \in [Peers -> Nat] /\ stage' \in [Conns -> Stage]
        BY <1>t, <2>1, <3>1 DEF TypeOK, Stage, OnItsWay
      <3>f. /\ seen' \in [Conns -> [cert : OneStamp, key : OneStamp]]
            /\ shown' \in [Conns -> Pairs] /\ settled' \in [Conns -> BOOLEAN]
        BY <1>11, <1>t, <1>n DEF Done, Forgets, TypeOK
      <3>h. \A d \in Conns : holder' = d <=> stage'[d] \in {"load_cert", "load_key"}
        BY <1>11, <1>t, <3>1 DEF Done, TypeOK
      <3>3. TypeOK'
        BY <1>11, <1>t, <3>1, <3>2, <3>s, <3>f, <3>h DEF Done, TypeOK
      <3>4. \A p \in Peers : Open(p)' = IF p = peer[c] THEN Open(p) \cup {c} ELSE Open(p)
        BY <1>t, <3>1 DEF Open, TypeOK, HasIo
      <3>5. Cardinality(Open(peer[c]) \cup {c}) = Cardinality(Open(peer[c])) + 1
        BY <2>1, OpenFinite, FS_AddElement
      <3>6. SecureCounts'
        BY <1>t, <2>1, <3>1, <3>4, <3>5 DEF TypeOK, StreamsOK, SecureCounts
      <3>7. ReadyOK'
        <4>1. /\ Len(ready) \in Nat /\ Len(ready') = Len(ready) + 1 /\ ready'[Len(ready) + 1] = c
              /\ \A i \in 1..Len(ready) : ready'[i] = ready[i] /\ ready[i] \in Conns
          BY <1>t, <3>1, AppendProperties, LenProperties DEF TypeOK
        <4>2. \A i \in 1..Len(ready) : ready[i] # c
          BY <1>11, <1>t DEF Done, StreamsOK, ReadyOK
        <4> QED
          BY <1>t, <3>1, <4>1, <4>2 DEF TypeOK, StreamsOK, ReadyOK
      <3> QED
        BY <2>2, <3>3, <3>6, <3>7 DEF IInv, StreamsOK
    <2>4. CASE ~listening
      <3>1. Goes(c, "away") /\ UNCHANGED <<ready, secure, peer>>
        BY <1>11, <2>4 DEF Done
      <3>2. TypeOK'
        BY <1>11, <1>t, <1>n, <3>1 DEF Done, Forgets, Goes, TypeOK, Stage, OnItsWay, Resolving
      <3>3. StreamsOK'
        BY <1>11, <1>t, <3>1, StreamsStay DEF Done, Stage, HasIo
      <3> QED
        BY <2>2, <3>2, <3>3 DEF IInv
    <2> QED
      BY <2>3, <2>4
  <1>12. CASE Takes
    \* The first of the queue has its place already: who serves it changes.
    <2> DEFINE c == Head(ready)
    <2>1. c \in Conns /\ stage[c] = "ready" /\ c = ready[1] /\ Len(ready) >= 1
      BY <1>12, <1>t, HeadTailProperties, LenProperties, EmptySeq DEF Takes, TypeOK, StreamsOK, ReadyOK
    <2>2. /\ ready' \in Seq(Conns) /\ Len(ready') = Len(ready) - 1
          /\ \A i \in 1..Len(ready') : ready'[i] = ready[i + 1]
      BY <1>12, <1>t, HeadTailProperties DEF Takes, TypeOK
    <2>3. stage' = [stage EXCEPT ![c] = "served"]
      BY <1>12 DEF Takes, Goes
    <2> HIDE DEF c
    <2>4. TypeOK'
      BY <1>12, <1>t, <2>1, <2>2, <2>3, SMTT(40) DEF Takes, TypeOK, Stage, OnItsWay, Resolving
    <2>5. \A p \in Peers : Open(p)' = Open(p)
      BY <1>12, <1>t, <2>1, <2>3 DEF Takes, Open, TypeOK, HasIo
    <2>6. SecureCounts'
      BY <1>12, <1>t, <2>5 DEF Takes, StreamsOK, SecureCounts
    <2>l. Len(ready) \in Nat
      BY <1>t, LenProperties DEF TypeOK
    <2>m. \A i \in 1..Len(ready') : i + 1 \in 1..Len(ready) /\ ready[i + 1] \in Conns /\ ready[i + 1] # c
      BY <1>t, <2>1, <2>2, <2>l DEF TypeOK, StreamsOK, ReadyOK
    <2>q. \A i \in 1..Len(ready') : stage'[ready'[i]] = "ready"
      BY <1>t, <2>2, <2>3, <2>m, SMTT(40) DEF TypeOK, StreamsOK, ReadyOK
    <2>o. \A i, j \in 1..Len(ready') : ready'[i] = ready'[j] => i = j
      <3> SUFFICES ASSUME NEW i \in 1..Len(ready'), NEW j \in 1..Len(ready'), ready'[i] = ready'[j]
                   PROVE  i = j
        OBVIOUS
      <3>1. ready[i + 1] = ready[j + 1]
        BY <2>2
      <3>2. i + 1 = j + 1
        BY <1>t, <2>m, <3>1 DEF StreamsOK, ReadyOK
      <3> QED
        BY <2>2, <2>l, <3>2
    <2>7. ReadyOK'
      BY <2>q, <2>o DEF ReadyOK
    <2>8. CertOK'
      BY <1>12, <1>t, <2>1, <2>3, CertStays DEF Takes, TypeOK, Clear
    <2> QED
      BY <2>4, <2>6, <2>7, <2>8 DEF IInv, StreamsOK
  <1>13. ASSUME NEW c \in Conns, Drops(c)
         PROVE  IInv'
    <2>1. peer[c] \in Peers /\ c \in Open(peer[c])
      BY <1>13, <1>t DEF Drops, TypeOK, Open, HasIo
    <2>2. /\ Cardinality(Open(peer[c]) \ {c}) = Cardinality(Open(peer[c])) - 1
          /\ Cardinality(Open(peer[c]) \ {c}) \in Nat
      BY <2>1, OpenFinite, FS_RemoveElement, FS_CardinalityType
    <2>3. secure[peer[c]] - 1 \in Nat
      BY <1>t, <2>1, <2>2 DEF StreamsOK, SecureCounts
    <2>4. TypeOK'
      BY <1>13, <1>t, <2>1, <2>3 DEF Drops, Goes, TypeOK, Stage, OnItsWay, Resolving
    <2>5. \A p \in Peers : Open(p)' = IF p = peer[c] THEN Open(p) \ {c} ELSE Open(p)
      BY <1>13, <1>t DEF Drops, Goes, Open, TypeOK, HasIo
    <2>6. SecureCounts'
      BY <1>13, <1>t, <2>1, <2>2, <2>5 DEF Drops, TypeOK, StreamsOK, SecureCounts
    <2>7. ReadyOK'
      BY <1>13, <1>t DEF Drops, Goes, TypeOK, StreamsOK, ReadyOK
    <2>8. CertOK'
      BY <1>13, <1>t, CertStays DEF Drops, Goes, TypeOK, Clear
    <2> QED
      BY <2>4, <2>6, <2>7, <2>8 DEF IInv, StreamsOK
  <1>14. CASE Unlistens
    <2>1. ASSUME NEW p \in Peers
          PROVE  /\ Open(p)' = Open(p) \ Untaken(p)
                 /\ Cardinality(Open(p) \ Untaken(p)) = Cardinality(Open(p)) - Cardinality(Untaken(p))
                 /\ Cardinality(Open(p) \ Untaken(p)) \in Nat
      <3>1. Open(p)' = Open(p) \ Untaken(p)
        BY <1>14, <1>t DEF Unlistens, Open, Untaken, TypeOK, HasIo
      <3>2. Open(p) \cap Untaken(p) = Untaken(p)
        BY DEF Open, Untaken, HasIo
      <3> QED
        BY <3>1, <3>2, OpenFinite, FS_Difference, FS_CardinalityType
    <2>2. \A p \in Peers : secure'[p] = secure[p] - Cardinality(Untaken(p))
      BY <1>14 DEF Unlistens, Untaken
    <2>3. SecureCounts' /\ \A p \in Peers : secure'[p] \in Nat
      BY <1>t, <2>1, <2>2 DEF StreamsOK, SecureCounts
    <2>4. TypeOK'
      BY <1>14, <1>t, <2>3, EmptySeq DEF Unlistens, TypeOK, Stage, OnItsWay, Resolving
    <2>5. ReadyOK'
      BY <1>14, EmptySeq DEF Unlistens, ReadyOK
    <2>6. CertOK'
      BY <1>14, <1>t, CertStays DEF Unlistens, TypeOK, Clear
    <2> QED
      BY <2>3, <2>4, <2>5, <2>6 DEF IInv, StreamsOK
  <1>15. CASE UNCHANGED vars
    BY <1>15 DEF vars, IInv, TypeOK, StreamsOK, SecureCounts, Open, ReadyOK, CertOK, StampsOK, Past,
       StoredOK, OnDisk, ReadOK, SettledOK, ServesDisk
  <1> QED
    BY <1>1, <1>2, <1>3, <1>4, <1>5, <1>6, <1>7, <1>8, <1>9, <1>10, <1>11, <1>12, <1>13, <1>14, <1>15
       DEF Next, Resolves

\* The invariant holds always.
LEMMA InvariantHolds == Spec => []IInv
  BY InitIInv, NextIInv, PTL DEF Spec

\* secure_peers counts a peer's TLS streams exactly, on every path a stream
\* takes: to axum, out of the channel with the listener, or dropped at its end.
THEOREM SecureCountIsExact == Spec => []SecureIsOpen
  <1>1. IInv => SecureIsOpen
    BY DEF IInv, StreamsOK, SecureCounts, Open, SecureIsOpen
  <1> QED
    BY <1>1, InvariantHolds, PTL

\* Reloading::current never presents an old pair to a handshake that no change
\* of the files overlapped, however other handshakes' loads and failures fell.
THEOREM NoStaleCertificate == Spec => []ServesDisk
  <1>1. IInv => ServesDisk
    BY DEF IInv, CertOK
  <1> QED
    BY <1>1, InvariantHolds, PTL
=============================================================================
