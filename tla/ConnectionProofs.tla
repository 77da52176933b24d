-------------------------- MODULE ConnectionProofs --------------------------
(***************************************************************************)
(* The three machines inside one connection, for every value of their      *)
(* constants.                                                              *)
(*                                                                         *)
(* Its calls (ConnectionCalls): the count of the open ones is the number   *)
(* of places held, never more than the max, and the compare-exchange loop  *)
(* implements CallPlaces.                                                  *)
(*                                                                         *)
(* Its clocks (SocketTimers): nobody is closed early, nobody is kept, and  *)
(* the idle limit loses no answer that a reading peer would get.           *)
(*                                                                         *)
(* Its guard (Guard): whatever a peer sends and however the reads cut it,  *)
(* the frames stay in step and in order, no message is half seen, and each *)
(* is handed on or counted as dropped, once and never both.                *)
(***************************************************************************)
EXTENDS ConnectionCalls, SocketTimers, Guard, FiniteSetTheorems, FunctionTheorems,
        SequenceTheorems, WellFoundedInduction, TLAPS

\* The callers that hold a place are finitely many, so they can be counted.
LEMMA HoldersFinite ==
    /\ IsFiniteSet(Holders)
    /\ Cardinality(Holders) \in Nat
  <1>1. Holders \subseteq Callers
    BY DEF Holders
  <1>2. IsFiniteSet(Holders)
    BY <1>1, CallersFinite, FS_Subset
  <1> QED
    BY <1>2, FS_CardinalityType

\* One more holder is one more in the number of holders, one fewer is one
\* fewer: what ExchangeOk and DropPlace do to the places.
LEMMA HoldersAdd ==
    ASSUME NEW c \in Callers, pc \in [Callers -> Pcs],
           pc[c] # "held", pc' = [pc EXCEPT ![c] = "held"]
    PROVE  Cardinality(Holders') = Cardinality(Holders) + 1
  <1>1. Holders' = Holders \cup {c}
    BY DEF Holders, Pcs
  <1>2. c \notin Holders
    BY DEF Holders
  <1> QED
    BY <1>1, <1>2, HoldersFinite, FS_AddElement

\* A place given back: one holder fewer, of at least one (Held's drop).
LEMMA HoldersDrop ==
    ASSUME NEW c \in Callers, pc \in [Callers -> Pcs],
           pc[c] = "held", pc' = [pc EXCEPT ![c] = "idle"]
    PROVE  /\ Cardinality(Holders') = Cardinality(Holders) - 1
           /\ Cardinality(Holders) >= 1
  <1>1. Holders' = Holders \ {c}
    BY DEF Holders, Pcs
  <1>2. c \in Holders
    BY DEF Holders
  <1>3. Cardinality(Holders') = Cardinality(Holders) - 1
    BY <1>1, <1>2, HoldersFinite, FS_RemoveElement
  <1>4. Cardinality(Holders) # 0
    BY <1>2, HoldersFinite, FS_EmptySet
  <1> QED
    BY <1>3, <1>4, HoldersFinite

\* Any other step of a caller leaves the holders as they are.
LEMMA HoldersStay ==
    ASSUME NEW c \in Callers, NEW to \in Pcs, pc \in [Callers -> Pcs],
           pc[c] # "held", to # "held", pc' = [pc EXCEPT ![c] = to]
    PROVE  Holders' = Holders
  BY DEF Holders, Pcs

\* Initially the invariant holds.
LEMMA InitIInv == Init => IInv
  <1> SUFFICES ASSUME Init PROVE IInv
    OBVIOUS
  <1>1. Holders = {}
    BY DEF Init, Holders
  <1>2. Cardinality(Holders) = 0
    BY <1>1, FS_EmptySet
  <1> QED
    BY <1>2, MaxIsNat DEF Init, IInv, TypeOK, OpenIsPlacesHeld, WithinMax,
       ReadingWithinMax, Pcs

\* Every step of every caller keeps the invariant.
LEMMA NextIInv == IInv /\ [Next]_vars => IInv'
  <1> SUFFICES ASSUME IInv, [Next]_vars PROVE IInv'
    OBVIOUS
  <1> USE MaxIsNat, LimitsAreNat
  <1>t. /\ open \in Nat
        /\ pc \in [Callers -> Pcs]
        /\ max \in [Callers -> Nat]
        /\ now \in [Callers -> Nat]
        /\ open = Cardinality(Holders)
        /\ Cardinality(Holders) <= MaxOpen
        /\ ReadingWithinMax
    BY DEF IInv, TypeOK, OpenIsPlacesHeld, WithinMax
  <1>1. ASSUME NEW c \in Callers, NEW limit \in Limits, TryOpen(c, limit)
        PROVE  IInv'
    <2>1. Holders' = Holders
      BY <1>1, <1>t, HoldersStay DEF TryOpen, Pcs
    <2>2. TypeOK'
      BY <1>1, <1>t DEF TryOpen, TypeOK, Pcs
    <2>3. ReadingWithinMax'
      BY <1>1, <1>t DEF TryOpen, ReadingWithinMax
    <2> QED
      BY <1>1, <1>t, <2>1, <2>2, <2>3
         DEF TryOpen, IInv, OpenIsPlacesHeld, WithinMax
  <1>2. ASSUME NEW c \in Callers, Load(c)
        PROVE  IInv'
    <2>1. Holders' = Holders
      BY <1>2, <1>t, HoldersStay DEF Load, Pcs
    <2>2. TypeOK'
      BY <1>2, <1>t DEF Load, TypeOK, Pcs
    <2>3. ReadingWithinMax'
      BY <1>2, <1>t DEF Load, ReadingWithinMax
    <2> QED
      BY <1>2, <1>t, <2>1, <2>2, <2>3
         DEF Load, IInv, OpenIsPlacesHeld, WithinMax
  <1>3. ASSUME NEW c \in Callers, TooMany(c)
        PROVE  IInv'
    <2>1. Holders' = Holders
      BY <1>3, <1>t, HoldersStay DEF TooMany, Pcs
    <2>2. TypeOK'
      BY <1>3, <1>t DEF TooMany, TypeOK, Pcs
    <2>3. ReadingWithinMax'
      BY <1>3, <1>t DEF TooMany, ReadingWithinMax
    <2> QED
      BY <1>3, <1>t, <2>1, <2>2, <2>3
         DEF TooMany, IInv, OpenIsPlacesHeld, WithinMax
  <1>4. ASSUME NEW c \in Callers, ExchangeOk(c)
        PROVE  IInv'
    \* The exchange is the one step that adds a place: the count is still
    \* the reading, the reading is below the caller's max, and that is
    \* within the connection's.
    <2>1. Cardinality(Holders') = Cardinality(Holders) + 1
      BY <1>4, <1>t, HoldersAdd DEF ExchangeOk
    <2>2. TypeOK'
      BY <1>4, <1>t DEF ExchangeOk, TypeOK, Pcs
    <2>3. ReadingWithinMax'
      BY <1>4, <1>t DEF ExchangeOk, ReadingWithinMax
    <2>4. open + 1 <= MaxOpen
      BY <1>4, <1>t DEF ExchangeOk, ReadingWithinMax
    <2> QED
      BY <1>4, <1>t, <2>1, <2>2, <2>3, <2>4
         DEF ExchangeOk, IInv, OpenIsPlacesHeld, WithinMax
  <1>5. ASSUME NEW c \in Callers, ExchangeSeen(c)
        PROVE  IInv'
    <2>1. Holders' = Holders
      BY <1>5 DEF ExchangeSeen, Holders
    <2>2. TypeOK'
      BY <1>5, <1>t DEF ExchangeSeen, TypeOK, Pcs
    <2>3. ReadingWithinMax'
      BY <1>5, <1>t DEF ExchangeSeen, ReadingWithinMax
    <2> QED
      BY <1>5, <1>t, <2>1, <2>2, <2>3
         DEF ExchangeSeen, IInv, OpenIsPlacesHeld, WithinMax
  <1>6. ASSUME NEW c \in Callers, DropPlace(c)
        PROVE  IInv'
    \* A dropped place was counted, so the count does not go below zero.
    <2>1. /\ Cardinality(Holders') = Cardinality(Holders) - 1
          /\ Cardinality(Holders) >= 1
      BY <1>6, <1>t, HoldersDrop DEF DropPlace
    <2>2. TypeOK'
      BY <1>6, <1>t, <2>1 DEF DropPlace, TypeOK, Pcs
    <2>3. ReadingWithinMax'
      BY <1>6, <1>t DEF DropPlace, ReadingWithinMax
    <2> QED
      BY <1>6, <1>t, <2>1, <2>2, <2>3
         DEF DropPlace, IInv, OpenIsPlacesHeld, WithinMax
  <1>7. CASE UNCHANGED vars
    BY <1>7 DEF vars, IInv, TypeOK, OpenIsPlacesHeld, WithinMax,
       ReadingWithinMax, Holders
  <1> QED
    BY <1>1, <1>2, <1>3, <1>4, <1>5, <1>6, <1>7 DEF Next

\* The invariant holds always.
LEMMA InvariantHolds == Spec => []IInv
  BY InitIInv, NextIInv, PTL DEF Spec

\* The shared counter of calls.rs never goes below zero, whatever order the
\* loads, compare-exchanges and drops come in.
THEOREM TypeCorrect == Spec => []TypeOK
  <1>1. IInv => TypeOK
    BY DEF IInv
  <1> QED
    BY <1>1, InvariantHolds, PTL

\* No place is lost and none counted twice: the counter is the places held.
THEOREM CountIsExact == Spec => []OpenIsPlacesHeld
  <1>1. IInv => OpenIsPlacesHeld
    BY DEF IInv
  <1> QED
    BY <1>1, InvariantHolds, PTL

\* try_open_within never lets more than the connection's max be held.
THEOREM NeverPastMax == Spec => []WithinMax
  <1>1. IInv => WithinMax
    BY DEF IInv
  <1> QED
    BY <1>1, InvariantHolds, PTL

\* What the mapping says of each caller, and that the places of the abstract
\* count are the places held here.
LEMMA Mapped ==
    ASSUME pc \in [Callers -> Pcs]
    PROVE  /\ \A c \in Callers :
              /\ pc[c] = "idle" => callStatus[c] = "idle"
              /\ pc[c] = "load" => callStatus[c] = "asking"
              /\ pc[c] = "loop" /\ now[c] >= max[c] => callStatus[c] = "refused"
              /\ pc[c] = "loop" /\ ~(now[c] >= max[c]) => callStatus[c] = "asking"
              /\ pc[c] = "held" => callStatus[c] = "held"
           /\ callStatus \in [Callers -> Places!Statuses]
           /\ Places!Holders = Holders
  BY DEF callStatus, Places!Holders, Places!Statuses, Holders, Pcs

\* The instance counts the same sets the same way.
LEMMA SameCount == Places!Cardinality(Places!Holders) = Cardinality(Places!Holders)
  BY DEF Cardinality, Places!Cardinality

\* A step that changes one caller's own state changes only its status.
LEMMA MappedStep ==
    ASSUME NEW c \in Callers, NEW to, IInv, IInv',
           \A d \in Callers \ {c} : pc'[d] = pc[d] /\ now'[d] = now[d] /\ max'[d] = max[d],
           callStatus'[c] = to
    PROVE  callStatus' = [callStatus EXCEPT ![c] = to]
  BY ZenonT(60) DEF callStatus, IInv, TypeOK

\* Each step of the compare-exchange loop is one step of CallPlaces, or none.
LEMMA StepRefines == IInv /\ IInv' /\ [Next]_vars => [Places!Next]_(Places!avars)
  <1> SUFFICES ASSUME IInv, IInv', [Next]_vars
               PROVE  [Places!Next]_(Places!avars)
    OBVIOUS
  <1> USE MaxIsNat, LimitsAreNat
  <1>t. /\ open \in Nat /\ open = Cardinality(Holders)
        /\ pc \in [Callers -> Pcs] /\ pc' \in [Callers -> Pcs]
        /\ max \in [Callers -> Nat] /\ max' \in [Callers -> Nat]
        /\ now \in [Callers -> Nat] /\ now' \in [Callers -> Nat]
    BY DEF IInv, TypeOK, OpenIsPlacesHeld
  <1>m. /\ \A c \in Callers :
           /\ pc[c] = "idle" => callStatus[c] = "idle"
           /\ pc[c] = "load" => callStatus[c] = "asking"
           /\ pc[c] = "loop" /\ now[c] >= max[c] => callStatus[c] = "refused"
           /\ pc[c] = "loop" /\ ~(now[c] >= max[c]) => callStatus[c] = "asking"
           /\ pc[c] = "held" => callStatus[c] = "held"
        /\ callStatus \in [Callers -> Places!Statuses]
        /\ Places!Holders = Holders
    BY <1>t, Mapped
  <1>n. \A c \in Callers :
           /\ pc'[c] = "idle" => callStatus'[c] = "idle"
           /\ pc'[c] = "load" => callStatus'[c] = "asking"
           /\ pc'[c] = "loop" /\ now'[c] >= max'[c] => callStatus'[c] = "refused"
           /\ pc'[c] = "loop" /\ ~(now'[c] >= max'[c]) => callStatus'[c] = "asking"
           /\ pc'[c] = "held" => callStatus'[c] = "held"
    BY <1>t DEF callStatus, Pcs
  <1>1. ASSUME NEW c \in Callers, NEW limit \in Limits, TryOpen(c, limit)
        PROVE  Places!Ask(c, limit)
    <2>1. callStatus' = [callStatus EXCEPT ![c] = "asking"]
      BY <1>1, <1>t, <1>n, MappedStep DEF TryOpen, Pcs
    <2> QED
      BY <1>1, <1>t, <1>m, <2>1 DEF TryOpen, Places!Ask, Places!Smaller
  <1>2. ASSUME NEW c \in Callers, Load(c)
        PROVE  Places!Refuse(c) \/ UNCHANGED Places!avars
    <2>1. CASE open >= max[c]
      <3>1. callStatus' = [callStatus EXCEPT ![c] = "refused"]
        BY <1>2, <1>t, <1>n, <2>1, MappedStep DEF Load, Pcs
      <3> QED
        BY <1>2, <1>t, <1>m, <2>1, <3>1, SameCount DEF Load, Places!Refuse
    <2>2. CASE ~(open >= max[c])
      <3>1. callStatus' = [callStatus EXCEPT ![c] = "asking"]
        BY <1>2, <1>t, <1>n, <2>2, MappedStep DEF Load, Pcs
      <3> QED
        BY <1>2, <1>t, <1>m, <3>1 DEF Load, Places!avars
    <2> QED
      BY <2>1, <2>2
  <1>3. ASSUME NEW c \in Callers, TooMany(c)
        PROVE  Places!Return(c)
    <2>1. callStatus' = [callStatus EXCEPT ![c] = "idle"]
      BY <1>3, <1>t, <1>n, MappedStep DEF TooMany, Pcs
    <2> QED
      BY <1>3, <1>t, <1>m, <2>1 DEF TooMany, Places!Return
  <1>4. ASSUME NEW c \in Callers, ExchangeOk(c)
        PROVE  Places!Take(c)
    <2>1. callStatus' = [callStatus EXCEPT ![c] = "held"]
      BY <1>4, <1>t, <1>n, MappedStep DEF ExchangeOk, Pcs
    <2>2. callStatus[c] = "asking"
      <3>1. now[c] \in Nat /\ max[c] \in Nat
        BY <1>t
      <3>2. ~(now[c] >= max[c])
        BY <1>4, <3>1 DEF ExchangeOk
      <3> QED
        BY <1>4, <1>m, <3>2 DEF ExchangeOk
    <2>3. Places!Cardinality(Places!Holders) < max[c]
      BY <1>4, <1>t, <1>m, SameCount DEF ExchangeOk
    <2> QED
      BY <1>4, <2>1, <2>2, <2>3 DEF ExchangeOk, Places!Take
  <1>5. ASSUME NEW c \in Callers, ExchangeSeen(c)
        PROVE  Places!Refuse(c) \/ UNCHANGED Places!avars
    <2>1. CASE open >= max[c]
      <3>1. callStatus' = [callStatus EXCEPT ![c] = "refused"]
        BY <1>5, <1>t, <1>n, <2>1, MappedStep DEF ExchangeSeen, Pcs
      <3> QED
        BY <1>5, <1>t, <1>m, <2>1, <3>1, SameCount DEF ExchangeSeen, Places!Refuse
    <2>2. CASE ~(open >= max[c])
      <3>1. callStatus' = [callStatus EXCEPT ![c] = "asking"]
        BY <1>5, <1>t, <1>n, <2>2, MappedStep DEF ExchangeSeen, Pcs
      <3> QED
        BY <1>5, <1>t, <1>m, <3>1 DEF ExchangeSeen, Places!avars
    <2> QED
      BY <2>1, <2>2
  <1>6. ASSUME NEW c \in Callers, DropPlace(c)
        PROVE  Places!GiveBack(c)
    <2>1. callStatus' = [callStatus EXCEPT ![c] = "idle"]
      BY <1>6, <1>t, <1>n, MappedStep DEF DropPlace, Pcs
    <2> QED
      BY <1>6, <1>t, <1>m, <2>1 DEF DropPlace, Places!GiveBack
  <1>7. CASE UNCHANGED vars
    BY <1>7 DEF vars, callStatus, Places!avars
  <1> QED
    BY <1>1, <1>2, <1>3, <1>4, <1>5, <1>6, <1>7 DEF Next, Places!Next

\* try_open_within is indivisible to its callers: every place is taken under
\* the caller's bound and every refusal answers a moment at which it was full.
THEOREM LoopImplementsPlaces == Spec => PlacesSpec
  <1>1. Init => Places!Init
    BY DEF Init, Places!Init, callStatus
  <1> QED
    BY <1>1, StepRefines, InvariantHolds, PTL DEF Spec, PlacesSpec, Places!Spec

-----------------------------------------------------------------------------
(***************************************************************************)
(* Induction.  The library's induction theorems take an operator, which    *)
(* the provers cannot give them; that a set of numbers has a least one     *)
(* takes a set, and the least number for which a claim fails is the same.  *)
(***************************************************************************)

\* A set of natural numbers that is not empty has a least element.
LEMMA LeastNat ==
    ASSUME NEW S \in SUBSET Nat, S # {}
    PROVE  \E n \in S : \A m \in S : n <= m
  <1> DEFINE R == OpToRel(<, Nat)
  <1>1. IsWellFoundedOn(R, Nat)
    BY NatLessThanWellFounded
  <1> HIDE DEF R
  <1>2. PICK n \in S : \A m \in S : ~(<<m, n>> \in R)
    BY <1>1, WFMin
  <1>3. \A m \in S : ~(m < n)
    BY <1>2 DEF R, OpToRel
  <1> QED
    BY <1>3
-----------------------------------------------------------------------------
(***************************************************************************)
(* The clocks of a socket: SocketTimers.                                   *)
(***************************************************************************)

\* The greater and the lesser of two, and the least of a set of numbers.
LEMMA TimersMinMax ==
    /\ \A a, b \in Nat : Max({a, b}) = (IF a >= b THEN a ELSE b)
    /\ \A a, b \in Nat : Min({a, b}) = (IF a <= b THEN a ELSE b)
  <1>1. ASSUME NEW a \in Nat, NEW b \in Nat
        PROVE  Max({a, b}) = (IF a >= b THEN a ELSE b)
    BY DEF Max
  <1>2. ASSUME NEW a \in Nat, NEW b \in Nat
        PROVE  Min({a, b}) = (IF a <= b THEN a ELSE b)
    BY DEF Min
  <1> QED
    BY <1>1, <1>2

\* The least of a set of numbers is one of them and no more than any.
LEMMA TimersMin ==
    ASSUME NEW S \in SUBSET Nat, S # {}
    PROVE  Min(S) \in S /\ \A m \in S : Min(S) <= m
  <1>1. \E n \in S : \A m \in S : n <= m
    BY LeastNat
  <1> QED
    BY <1>1 DEF Min

\* Long is past every limit that an age is compared with.
LEMMA LongIs ==
    /\ Long \in Nat
    /\ Long > 2 * (PingTimeout + TickEvery) /\ Long > IdleTimeout + TickEvery
  <1>1. 2 * PingTimeout + TickEvery \in Nat /\ IdleTimeout \in Nat /\ TickEvery \in Nat
        /\ PingTimeout \in Nat
    BY TimesAreNat
  <1> DEFINE a == 2 * PingTimeout + TickEvery
  <1>2. Max({a, IdleTimeout}) = (IF a >= IdleTimeout THEN a ELSE IdleTimeout)
    BY <1>1, TimersMinMax
  <1> QED
    BY <1>1, <1>2 DEF Long

\* An age grows by one, up to Long.
LEMMA LaterIs ==
    ASSUME NEW counts \in BOOLEAN, NEW age \in Age
    PROVE  /\ Later(counts, age) \in Age
           /\ counts => Later(counts, age) = (IF age < Long THEN age + 1 ELSE Long)
           /\ ~counts => Later(counts, age) = 0
  <1>1. Long \in Nat /\ age \in Nat /\ age <= Long
    BY LongIs DEF Age
  <1>2. Min({age + 1, Long}) = (IF age + 1 <= Long THEN age + 1 ELSE Long)
    BY <1>1, TimersMinMax
  <1> QED
    BY <1>1, <1>2 DEF Later, Age

(***************************************************************************)
(* How many of the messages in a sequence are of a kind.                   *)
(***************************************************************************)

\* The count is a number, none in no messages.
LEMMA CountTyped ==
    ASSUME NEW S, NEW s \in Seq(S), NEW kind
    PROVE  /\ IsFiniteSet({i \in DOMAIN s : s[i] = kind})
           /\ Count(kind, s) = Cardinality({i \in DOMAIN s : s[i] = kind})
           /\ Count(kind, s) \in Nat
           /\ s = <<>> => Count(kind, s) = 0
  <1> DEFINE I == {i \in DOMAIN s : s[i] = kind}
  <1>1. Count(kind, s) = Cardinality(I)
    BY DEF Count
  <1>2. IsFiniteSet(1..Len(s)) /\ I \subseteq 1..Len(s)
    BY FS_Interval
  <1>3. IsFiniteSet(I)
    BY <1>2, FS_Subset
  <1>4. Cardinality(I) \in Nat
    BY <1>3, FS_CardinalityType
  <1>5. s = <<>> => I = {}
    OBVIOUS
  <1>6. s = <<>> => Cardinality(I) = 0
    BY <1>5, FS_EmptySet
  <1> QED
    BY <1>1, <1>3, <1>4, <1>6

\* One message more, one more of its kind.
LEMMA CountAppend ==
    ASSUME NEW S, NEW s \in Seq(S), NEW x \in S, NEW kind
    PROVE  Count(kind, Append(s, x)) = Count(kind, s) + (IF x = kind THEN 1 ELSE 0)
  <1> DEFINE I == {i \in DOMAIN s : s[i] = kind}
             J == {i \in DOMAIN Append(s, x) : Append(s, x)[i] = kind}
  <1>1. /\ x = kind => J = I \cup {Len(s) + 1}
        /\ x # kind => J = I
    OBVIOUS
  <1>2. Len(s) + 1 \notin I
    OBVIOUS
  <1>3. IsFiniteSet(I) /\ Count(kind, s) = Cardinality(I) /\ Cardinality(I) \in Nat
    BY CountTyped
  <1>4. Append(s, x) \in Seq(S)
    OBVIOUS
  <1>5. Count(kind, Append(s, x)) = Cardinality(J)
    BY <1>4, CountTyped
  <1>6. Cardinality(I \cup {Len(s) + 1}) = Cardinality(I) + 1
    BY <1>2, <1>3, FS_AddElement
  <1>7. x = kind => Cardinality(J) = Cardinality(I) + 1
    BY <1>1, <1>6
  <1>8. x # kind => Cardinality(J) = Cardinality(I)
    BY <1>1
  <1> HIDE DEF I, J
  <1> QED
    BY <1>3, <1>5, <1>7, <1>8

\* What is read and what is left are all there was.
LEMMA CountSplit ==
    ASSUME NEW S, NEW s \in Seq(S), NEW k \in 0..Len(s), NEW kind
    PROVE  Count(kind, s) = Count(kind, SubSeq(s, 1, k)) + Count(kind, SubSeq(s, k + 1, Len(s)))
  <1> DEFINE a == SubSeq(s, 1, k)
             b == SubSeq(s, k + 1, Len(s))
             A == {i \in DOMAIN a : a[i] = kind}
             B == {i \in DOMAIN b : b[i] = kind}
             C == {i \in (k + 1)..Len(s) : s[i] = kind}
             I == {i \in DOMAIN s : s[i] = kind}
             f == [i \in B |-> i + k]
  <1>1. a \in Seq(S) /\ Len(a) = k /\ \A i \in 1..k : a[i] = s[i]
    BY SubSeqProperties
  <1>2. b \in Seq(S) /\ Len(b) = Len(s) - k /\ \A i \in 1..(Len(s) - k) : b[i] = s[i + k]
    <2>1. \A i \in (k + 1)..Len(s) : s[i] \in S
      OBVIOUS
    <2>2. b \in Seq(S)
      BY <2>1, SubSeqProperties
    <2>3. Len(b) = Len(s) - k
      BY SubSeqProperties
    <2>4. \A i \in 1..(Len(s) - k) : b[i] = s[i + k]
      BY SubSeqProperties
    <2> QED
      BY <2>2, <2>3, <2>4
  <1>3. IsFiniteSet(A) /\ Count(kind, a) = Cardinality(A) /\ Cardinality(A) \in Nat
    BY <1>1, CountTyped, ZenonT(60)
  <1>4. IsFiniteSet(B) /\ Count(kind, b) = Cardinality(B) /\ Cardinality(B) \in Nat
    BY <1>2, CountTyped, ZenonT(60)
  <1>5. Count(kind, s) = Cardinality(I)
    BY CountTyped
  <1>6. B = {i \in 1..(Len(s) - k) : s[i + k] = kind}
    BY <1>2
  <1>7. f \in Bijection(B, C)
    <2>1. f \in [B -> C]
      BY <1>6
    <2>2. \A i, j \in B : f[i] = f[j] => i = j
      BY <1>6
    <2>3. \A c \in C : \E i \in B : f[i] = c
      <3> SUFFICES ASSUME NEW c \in C PROVE \E i \in B : f[i] = c
        OBVIOUS
      <3>1. c - k \in 1..(Len(s) - k) /\ s[(c - k) + k] = kind
        OBVIOUS
      <3>2. c - k \in B
        BY <1>6, <3>1
      <3>3. f[c - k] = c
        BY <3>2
      <3> QED
        BY <3>2, <3>3
    <2> HIDE DEF f
    <2> QED
      BY <2>1, <2>2, <2>3, Fun_IsBij
  <1>8. IsFiniteSet(C) /\ Cardinality(C) = Cardinality(B)
    <2>1. ExistsBijection(B, C)
      BY <1>7 DEF ExistsBijection
    <2> HIDE DEF B, C
    <2> QED
      BY <2>1, <1>4, FS_Bijection
  <1>9. I = A \cup C /\ A \cap C = {}
    BY <1>1
  <1>10. Cardinality(A \cap C) = 0
    BY <1>9, FS_EmptySet
  <1>11. Cardinality(I) = Cardinality(A) + Cardinality(C) - Cardinality(A \cap C)
    BY <1>3, <1>8, <1>9, FS_Union
  <1> HIDE DEF A, B, C, I
  <1> QED
    BY <1>3, <1>4, <1>5, <1>8, <1>10, <1>11

\* A message more is at most one more of a kind.
LEMMA CountNext ==
    ASSUME NEW S, NEW s \in Seq(S), NEW k \in 1..Len(s), NEW kind
    PROVE  Count(kind, SubSeq(s, 1, k)) <= Count(kind, SubSeq(s, 1, k - 1)) + 1
  <1> DEFINE a == SubSeq(s, 1, k - 1)
  <1>1. a \in Seq(S) /\ Len(a) = k - 1 /\ \A i \in 1..(k - 1) : a[i] = s[i]
    BY SubSeqProperties
  <1>2. SubSeq(s, 1, k) \in Seq(S) /\ Len(SubSeq(s, 1, k)) = k
        /\ \A i \in 1..k : SubSeq(s, 1, k)[i] = s[i]
    BY SubSeqProperties
  <1>3. s[k] \in S
    OBVIOUS
  <1>4. SubSeq(s, 1, k) = Append(a, s[k])
    BY <1>1, <1>2, <1>3
  <1> DEFINE b == SubSeq(s, 1, k)
  <1> SUFFICES Count(kind, b) <= Count(kind, a) + 1
    OBVIOUS
  <1> HIDE DEF a, b
  <1>5. Count(kind, Append(a, s[k])) = Count(kind, a) + (IF s[k] = kind THEN 1 ELSE 0)
    BY <1>1, <1>3, CountAppend
  <1>6. Count(kind, a) \in Nat
    BY <1>1, CountTyped
  <1>7. Count(kind, b) = Count(kind, a) + (IF s[k] = kind THEN 1 ELSE 0)
    BY <1>4, <1>5 DEF b
  <1> QED
    BY <1>6, <1>7

\* What a poll reads: the first m messages, all of them if bytes go out; if
\* not, out is at OUT_HIGH where it stops and was not before.
LEMMA ReadIs ==
    ASSUME NEW queued \in Nat, inbox \in Seq(Kinds), OutHigh \in Nat
    PROVE  \E m \in 0..Len(inbox) :
              /\ Reads(queued) = SubSeq(inbox, 1, m) /\ Len(SubSeq(inbox, 1, m)) = m
              /\ Takes => m = Len(inbox)
              /\ ~Takes /\ m < Len(inbox) => queued + Count("sync", SubSeq(inbox, 1, m)) >= OutHigh
              /\ ~Takes /\ m > 0 => queued + Count("sync", SubSeq(inbox, 1, m - 1)) < OutHigh
  <1>1. \A k \in 0..Len(inbox) : Len(SubSeq(inbox, 1, k)) = k /\ SubSeq(inbox, 1, k) \in Seq(Kinds)
    BY SubSeqProperties
  <1>2. SubSeq(inbox, 1, Len(inbox)) = inbox
    BY SubSeqFull
  <1>3. CASE Takes
    <2> DEFINE m == Len(inbox)
    <2>1. Reads(queued) = SubSeq(inbox, 1, m)
      BY <1>2, <1>3 DEF Reads
    <2>2. m \in 0..Len(inbox) /\ Len(SubSeq(inbox, 1, m)) = m
      BY <1>1
    <2> QED
      BY <1>3, <2>1, <2>2
  <1>4. CASE ~Takes
    <2> DEFINE F == {k \in 0..Len(inbox) : queued + Count("sync", SubSeq(inbox, 1, k)) >= OutHigh}
               G == F \cup {Len(inbox)}
               m == Min(G)
    <2>1. Reads(queued) = SubSeq(inbox, 1, m)
      BY <1>4 DEF Reads
    <2>2. G \in SUBSET Nat /\ G # {} /\ G \subseteq 0..Len(inbox)
      OBVIOUS
    <2> HIDE DEF m
    <2>3. m \in G /\ \A k \in G : m <= k
      BY <2>2, TimersMin DEF m
    <2>4. m \in 0..Len(inbox)
      BY <2>2, <2>3
    <2>5. m < Len(inbox) => m \in F
      BY <2>3, <2>4
    <2>6. m > 0 => queued + Count("sync", SubSeq(inbox, 1, m - 1)) < OutHigh
      <3> SUFFICES ASSUME m > 0 PROVE queued + Count("sync", SubSeq(inbox, 1, m - 1)) < OutHigh
        OBVIOUS
      <3>1. m - 1 \in 0..Len(inbox) /\ m - 1 \notin G
        BY <2>3, <2>4
      <3>2. ~(queued + Count("sync", SubSeq(inbox, 1, m - 1)) >= OutHigh)
        BY <3>1
      <3>3. Count("sync", SubSeq(inbox, 1, m - 1)) \in Nat
        BY <1>1, <3>1, CountTyped
      <3> QED
        BY <3>2, <3>3
    <2>7. m < Len(inbox) => queued + Count("sync", SubSeq(inbox, 1, m)) >= OutHigh
      BY <2>5
    <2>8. Len(SubSeq(inbox, 1, m)) = m
      BY <1>1, <2>4
    <2> HIDE DEF F, G
    <2> QED
      BY <1>4, <2>1, <2>4, <2>6, <2>7, <2>8
  <1> QED
    BY <1>3, <1>4

(***************************************************************************)
(* The invariant.                                                          *)
(***************************************************************************)

\* Whatever is due has woken the task: time never passes over it.
DueIsWoken ==
    Open /\ ~woken => (Ticks => toTick > 0) /\ (limits.ping => toPing > 0)

\* The calls that wait to be read have room.
CallsFit == calls + Count("call", inbox) <= MaxCalls

\* A message that waits came since the last read, and waits because answers
\* are backed up, or for a poll that comes before time goes on.
UnreadOK ==
    Open /\ inbox # <<>> => came <= lastIn /\ (Backed \/ (woken /\ came = 0))

\* With nothing to read, the last message came before the last read, and not
\* longer before than a silence may last.
ReadOK ==
    inbox = <<>> => /\ lastIn <= came
                    /\ Open /\ limits.ping => came < lastIn + PingTimeout + TickEvery

\* The silence so far and the time to the next tick.
SilenceOK == Open /\ limits.ping => lastIn + toTick <= PingTimeout + TickEvery

\* last_busy is at most a tick from the last moment a call was open: while one
\* is, every tick moves it.
IdleOK ==
    Open /\ limits.idle =>
        /\ lastBusy + toTick <= IdleTimeout + TickEvery
        /\ quiet <= lastBusy /\ lastBusy <= quiet + TickEvery
        /\ calls > 0 => quiet = 0 /\ lastBusy + toTick <= TickEvery

\* An answer waits only for a peer that takes no bytes, and since it was made.
WaitingOK ==
    Open /\ limits.idle /\ limits.budget > 0 /\ (answers > 0 \/ table) =>
        (woken \/ blocked) /\ lastBusy <= stuck + TickEvery

\* How a socket ended.
EndOK ==
    /\ end = "silent" => came > PingTimeout \/ (inbox # <<>> /\ (Backed \/ came = 0))
    /\ end = "idle" => calls = 0 /\ quiet + TickEvery >= IdleTimeout
    /\ end = "idle" /\ (answers > 0 \/ table) => limits.budget = 0 \/ stuck + TickEvery >= IdleTimeout

TimersInv ==
    /\ TimersTypeOK /\ DueIsWoken /\ CallsFit /\ UnreadOK /\ ReadOK /\ SilenceOK
    /\ IdleOK /\ WaitingOK /\ EndOK

\* The beginning.
LEMMA TimersBegin ==
    ASSUME TimersInit
    PROVE  TimersInv
  <1>1. Long \in Nat
    BY LongIs
  <1>2. Count("call", inbox) = 0
    <2>1. <<>> \in Seq(Kinds)
      OBVIOUS
    <2> QED
      BY <2>1, CountTyped DEF TimersInit
  <1>3. TimersTypeOK
    <2>1. inbox \in Seq(Kinds) /\ Len(inbox) <= MaxInbox
      BY BoundsAreNat DEF TimersInit
    <2>2. /\ 0 \in Age /\ TickEvery \in 0..TickEvery /\ PingEvery \in 0..PingEvery
          /\ 0 \in 0..OutHigh /\ 0 \in 0..MaxCalls
      BY <1>1, TimesAreNat, BoundsAreNat DEF Age
    <2> QED
      BY <2>1, <2>2 DEF TimersInit, TimersTypeOK
  <1>4. DueIsWoken /\ CallsFit /\ UnreadOK
    BY <1>2, TimesAreNat, BoundsAreNat DEF TimersInit, DueIsWoken, CallsFit, UnreadOK
  <1>5. ReadOK /\ SilenceOK /\ IdleOK
    BY TimesAreNat DEF TimersInit, ReadOK, SilenceOK, IdleOK
  <1>6. WaitingOK /\ EndOK
    BY DEF TimersInit, WaitingOK, EndOK
  <1> QED
    BY <1>3, <1>4, <1>5, <1>6 DEF TimersInv

\* What poll_run does to the messages, the answers and the clocks: it reads m
\* messages, sy of them answered by the loop and ca that begin a call.
PollEffect(m, sy, ca, due) ==
    /\ inbox' \in Seq(Kinds) /\ Len(inbox') = Len(inbox) - m
    /\ m = 0 => sy = 0 /\ ca = 0
    /\ Takes => m = Len(inbox)
    /\ pings' = (IF Takes THEN 0 ELSE pings + due)
    /\ answers' = (IF Takes THEN 0 ELSE answers + sy)
    /\ calls' = calls + ca /\ calls' + Count("call", inbox') <= MaxCalls
    /\ Count("call", inbox') \in Nat
    /\ lastIn' = (IF m > 0 THEN 0 ELSE lastIn)
    /\ lastBusy' = (IF ca + sy > 0 \/ (toTick = 0 /\ limits.idle /\ Busy) THEN 0 ELSE lastBusy)
    /\ quiet' = (IF ca + sy > 0 THEN 0 ELSE quiet)
    /\ ~Takes /\ m < Len(inbox) => pings + due + answers + sy >= OutHigh
    /\ ~Takes /\ m > 0 => answers + sy <= OutHigh /\ pings + answers < OutHigh

\* Every poll has such an effect, of some messages read, of which some were
\* answered by the loop and some are calls.
LEMMA PollsDoes ==
    ASSUME TimersTypeOK, CallsFit, Polls
    PROVE  \E m \in 0..Len(inbox), sy \in Nat, ca \in Nat, due \in {0, 1} : PollEffect(m, sy, ca, due)
  <1> DEFINE due == IF PingDue THEN 1 ELSE 0
             queued == pings + answers + due
  <1>1. /\ pings \in Nat /\ answers \in Nat /\ calls \in Nat /\ inbox \in Seq(Kinds)
        /\ OutHigh \in Nat /\ MaxCalls \in Nat
    BY BoundsAreNat DEF TimersTypeOK
  <1>2. queued \in Nat /\ due \in {0, 1}
    BY <1>1
  <1> HIDE DEF due
  <1>3. PICK m \in 0..Len(inbox) :
              /\ Reads(queued) = SubSeq(inbox, 1, m) /\ Len(SubSeq(inbox, 1, m)) = m
              /\ Takes => m = Len(inbox)
              /\ ~Takes /\ m < Len(inbox) => queued + Count("sync", SubSeq(inbox, 1, m)) >= OutHigh
              /\ ~Takes /\ m > 0 => queued + Count("sync", SubSeq(inbox, 1, m - 1)) < OutHigh
    BY <1>1, <1>2, ReadIs
  <1> DEFINE read == SubSeq(inbox, 1, m)
             rest == SubSeq(inbox, m + 1, Len(inbox))
             sy == Count("sync", read)
             ca == Count("call", read)
  <1>4. read \in Seq(Kinds) /\ rest \in Seq(Kinds) /\ Len(rest) = Len(inbox) - m
    <2>1. \A i \in 1..m : inbox[i] \in Kinds
      BY <1>1
    <2>2. \A i \in (m + 1)..Len(inbox) : inbox[i] \in Kinds
      BY <1>1
    <2>3. Len(inbox) \in Nat
      BY <1>1
    <2> QED
      BY <2>1, <2>2, <2>3, SubSeqProperties
  <1>5. sy \in Nat /\ ca \in Nat /\ Count("call", rest) \in Nat
    BY <1>4, CountTyped
  <1>6. Count("call", inbox) = ca + Count("call", rest)
    BY <1>1, CountSplit
  <1>7. m = 0 => sy = 0 /\ ca = 0
    <2>1. m = 0 => read = <<>>
      BY <1>1
    <2> QED
      BY <2>1, <1>4, CountTyped
  <1>8. read # <<>> <=> m > 0
    BY <1>3, <1>4
  <1>9. /\ inbox' = rest
        /\ pings' = (IF Takes THEN 0 ELSE pings + due)
        /\ answers' = (IF Takes THEN 0 ELSE answers + sy)
        /\ calls' = calls + ca
        /\ lastIn' = (IF m > 0 THEN 0 ELSE lastIn)
        /\ lastBusy' = (IF ca + sy > 0 \/ (toTick = 0 /\ limits.idle /\ Busy) THEN 0 ELSE lastBusy)
        /\ quiet' = (IF ca + sy > 0 THEN 0 ELSE quiet)
    <2>1. Reads(queued) = read /\ Len(read) = m
      BY <1>3
    <2> HIDE DEF read
    <2> QED
      BY <2>1, <1>8 DEF Polls, due
  <1>10. ~Takes /\ m > 0 => answers + sy <= OutHigh /\ pings + answers < OutHigh
    <2> SUFFICES ASSUME ~Takes, m > 0 PROVE answers + sy <= OutHigh /\ pings + answers < OutHigh
      OBVIOUS
    <2> DEFINE less == Count("sync", SubSeq(inbox, 1, m - 1))
    <2>1. sy <= less + 1
      <3>1. m \in 1..Len(inbox)
        BY <1>1
      <3> QED
        BY <1>1, <3>1, CountNext
    <2>2. queued + less < OutHigh
      BY <1>3
    <2>3. less \in Nat
      <3>1. \A i \in 1..(m - 1) : inbox[i] \in Kinds
        BY <1>1
      <3>2. SubSeq(inbox, 1, m - 1) \in Seq(Kinds)
        BY <3>1, SubSeqProperties
      <3> QED
        BY <3>2, CountTyped
    <2> HIDE DEF less, sy
    <2> QED
      BY <1>1, <1>2, <1>5, <2>1, <2>2, <2>3
  <1>11. ~Takes /\ m < Len(inbox) => pings + due + answers + sy >= OutHigh
    <2>1. ~Takes /\ m < Len(inbox) => queued + sy >= OutHigh
      BY <1>3
    <2> HIDE DEF sy
    <2> QED
      BY <1>1, <1>2, <1>5, <2>1
  <1>12. calls' + Count("call", inbox') <= MaxCalls
    <2>1. calls + Count("call", inbox) <= MaxCalls
      BY DEF CallsFit
    <2> HIDE DEF ca, rest
    <2> QED
      BY <1>1, <1>5, <1>6, <1>9, <2>1
  <1>13. PollEffect(m, sy, ca, due)
    <2> HIDE DEF sy, ca, rest, read
    <2> QED
      BY <1>3, <1>4, <1>5, <1>7, <1>9, <1>10, <1>11, <1>12 DEF PollEffect
  <1> QED
    BY <1>2, <1>5, <1>13

\* A poll that does not end the socket.
LEMMA TimersPolls ==
    ASSUME TimersInv, Polls
    PROVE  TimersInv'
  <1>1. TimersTypeOK /\ CallsFit
    BY DEF TimersInv
  <1>2. PICK m \in 0..Len(inbox), sy \in Nat, ca \in Nat, due \in {0, 1} : PollEffect(m, sy, ca, due)
    BY <1>1, PollsDoes
  <1>3. /\ pings \in Nat /\ answers \in 0..OutHigh /\ calls \in Nat /\ inbox \in Seq(Kinds)
        /\ OutHigh \in Nat /\ MaxCalls \in Nat /\ MaxInbox \in Nat /\ Len(inbox) <= MaxInbox
        /\ Len(inbox) \in Nat /\ blocked \in BOOLEAN /\ table \in BOOLEAN
    BY <1>1, BoundsAreNat DEF TimersTypeOK
  <1>4. /\ Long \in Nat /\ lastIn \in 0..Long /\ lastBusy \in 0..Long /\ came \in 0..Long
        /\ quiet \in 0..Long /\ stuck \in 0..Long
        /\ toTick \in 0..TickEvery /\ toPing \in 0..PingEvery
        /\ TickEvery \in Nat \ {0} /\ PingEvery \in Nat \ {0} /\ PingTimeout \in Nat /\ IdleTimeout \in Nat
    BY <1>1, LongIs, TimesAreNat DEF TimersTypeOK, Age
  <1>5. /\ Open /\ woken /\ PollTick = "open"
        /\ table' = (table /\ ~Takes)
        /\ toTick' = (IF toTick = 0 THEN TickEvery ELSE toTick)
        /\ toPing' = (IF toPing = 0 THEN PingEvery ELSE toPing)
        /\ woken' = FALSE
        /\ stuck' = (IF blocked THEN stuck ELSE 0)
        /\ limits' = limits /\ end' = end /\ blocked' = blocked /\ came' = came
    BY DEF Polls
  <1>6. /\ Open' /\ toTick' > 0 /\ toPing' > 0
        /\ limits \in [ping : BOOLEAN, idle : BOOLEAN, budget : {0, 1}] /\ limits' = limits
    BY <1>1, <1>4, <1>5 DEF Open, TimersTypeOK
  <1>7. Len(inbox') \in Nat /\ (inbox' = <<>> <=> Len(inbox') = 0) /\ (inbox = <<>> <=> Len(inbox) = 0)
    <2>1. inbox' \in Seq(Kinds) /\ inbox \in Seq(Kinds)
      BY <1>2, <1>3 DEF PollEffect
    <2> QED
      BY <2>1
  <1>8. /\ Ticks /\ toTick = 0 => ~Silent /\ ~Idle
        /\ limits.ping => Ticks
        /\ limits.idle => Ticks
    BY <1>4, <1>5 DEF PollTick, Ticks
  <1>9. TimersTypeOK'
    <2>1. lastIn' \in 0..Long /\ lastBusy' \in 0..Long /\ quiet' \in 0..Long
          /\ stuck' \in 0..Long
      BY <1>2, <1>4, <1>5 DEF PollEffect
    <2>2. toTick' \in 0..TickEvery /\ toPing' \in 0..PingEvery
      BY <1>4, <1>5
    <2>3. pings' \in Nat /\ answers' \in 0..OutHigh
      BY <1>2, <1>3 DEF PollEffect
    <2>4. calls' \in 0..MaxCalls
      BY <1>2, <1>3 DEF PollEffect
    <2>5. inbox' \in Seq(Kinds) /\ Len(inbox') <= MaxInbox
      BY <1>2, <1>3 DEF PollEffect
    <2>6. Long' = Long
      BY DEF Long
    <2> QED
      BY <1>1, <1>5, <2>1, <2>2, <2>3, <2>4, <2>5, <2>6 DEF TimersTypeOK, Age
  <1>10. DueIsWoken' /\ CallsFit'
    BY <1>2, <1>6 DEF DueIsWoken, CallsFit, PollEffect
  <1>11. UnreadOK'
    <2> SUFFICES ASSUME inbox' # <<>> PROVE came' <= lastIn' /\ Backed'
      BY DEF UnreadOK
    <2>1. ~Takes /\ m < Len(inbox) /\ inbox # <<>>
      BY <1>2, <1>3, <1>7 DEF PollEffect
    <2>2. pings' + answers' >= OutHigh
      BY <1>2, <1>3, <2>1 DEF PollEffect
    <2>3. came <= lastIn /\ (Backed \/ came = 0)
      BY <1>5, <2>1 DEF TimersInv, UnreadOK
    <2>4. m > 0 => came = 0
      BY <1>2, <1>3, <2>1, <2>3 DEF PollEffect, Backed
    <2> QED
      BY <1>2, <1>4, <1>5, <2>2, <2>3, <2>4 DEF PollEffect, Backed
  <1>12. ReadOK'
    <2> SUFFICES ASSUME inbox' = <<>>
                 PROVE  lastIn' <= came /\ (limits.ping => came < lastIn' + PingTimeout + TickEvery)
      BY <1>5 DEF ReadOK
    <2>1. m = Len(inbox)
      BY <1>2, <1>3, <1>7 DEF PollEffect
    <2>2. CASE m = 0
      BY <1>2, <1>5, <1>7, <2>1, <2>2 DEF TimersInv, ReadOK, PollEffect
    <2>3. CASE m > 0
      <3>1. came <= lastIn
        BY <1>5, <1>7, <2>1, <2>3 DEF TimersInv, UnreadOK
      <3>2. limits.ping => lastIn + toTick <= PingTimeout + TickEvery
        BY <1>5 DEF TimersInv, SilenceOK
      <3>3. limits.ping /\ toTick = 0 => lastIn <= PingTimeout
        BY <1>4, <1>8 DEF Silent
      <3>4. lastIn' = 0
        BY <1>2, <2>3 DEF PollEffect
      <3> QED
        BY <1>4, <3>1, <3>2, <3>3, <3>4
    <2> QED
      BY <2>2, <2>3
  <1>13. SilenceOK'
    <2> SUFFICES ASSUME limits.ping PROVE lastIn' + toTick' <= PingTimeout + TickEvery
      BY <1>5 DEF SilenceOK
    <2>1. lastIn + toTick <= PingTimeout + TickEvery
      BY <1>5 DEF TimersInv, SilenceOK
    <2>2. toTick = 0 => lastIn <= PingTimeout
      BY <1>4, <1>8 DEF Silent
    <2>3. lastIn' = 0 \/ lastIn' = lastIn
      BY <1>2 DEF PollEffect
    <2> QED
      BY <1>4, <1>5, <2>1, <2>2, <2>3
  <1>14. IdleOK'
    <2> SUFFICES ASSUME limits.idle
                 PROVE  /\ lastBusy' + toTick' <= IdleTimeout + TickEvery
                        /\ quiet' <= lastBusy' /\ lastBusy' <= quiet' + TickEvery
                        /\ calls' > 0 => quiet' = 0 /\ lastBusy' + toTick' <= TickEvery
      BY <1>5 DEF IdleOK
    <2>1. /\ lastBusy + toTick <= IdleTimeout + TickEvery
          /\ quiet <= lastBusy /\ lastBusy <= quiet + TickEvery
          /\ calls > 0 => quiet = 0 /\ lastBusy + toTick <= TickEvery
      BY <1>5 DEF TimersInv, IdleOK
    <2>2. toTick = 0 => calls > 0 \/ lastBusy < IdleTimeout
      BY <1>3, <1>4, <1>8 DEF Idle, Busy
    <2>3. lastBusy' = (IF ca + sy > 0 \/ (toTick = 0 /\ calls > 0) THEN 0 ELSE lastBusy)
      BY <1>2 DEF PollEffect, Busy
    <2>4. quiet' = (IF ca + sy > 0 THEN 0 ELSE quiet) /\ calls' = calls + ca
      BY <1>2 DEF PollEffect
    <2> QED
      BY <1>3, <1>4, <1>5, <2>1, <2>2, <2>3, <2>4
  <1>15. WaitingOK'
    <2> SUFFICES ASSUME limits.idle, limits.budget > 0, answers' > 0 \/ table'
                 PROVE  blocked /\ lastBusy' <= stuck' + TickEvery
      BY <1>5 DEF WaitingOK
    <2>1. ~Takes
      <3>1. Takes => ~table'
        BY <1>5
      <3>2. Takes => answers' = 0
        BY <1>2 DEF PollEffect
      <3> QED
        BY <3>1, <3>2
    <2>2. blocked
      BY <1>3, <2>1 DEF Takes
    <2>3. lastBusy' = 0 \/ (lastBusy' = lastBusy /\ sy = 0)
      BY <1>2 DEF PollEffect
    <2>4. sy = 0 => answers > 0 \/ table
      BY <1>2, <1>3, <1>5, <2>1 DEF PollEffect
    <2>5. answers > 0 \/ table => lastBusy <= stuck + TickEvery
      BY <1>5 DEF TimersInv, WaitingOK
    <2> QED
      BY <1>4, <1>5, <2>2, <2>3, <2>4, <2>5
  <1>16. EndOK'
    BY <1>6 DEF EndOK, Open
  <1> QED
    BY <1>9, <1>10, <1>11, <1>12, <1>13, <1>14, <1>15, <1>16 DEF TimersInv

\* Time passes.
LEMMA TimersPass ==
    ASSUME TimersInv, Passes
    PROVE  TimersInv'
  <1>1. TimersTypeOK
    BY DEF TimersInv
  <1>2. /\ Long \in Nat /\ Long > 2 * (PingTimeout + TickEvery) /\ Long > IdleTimeout + TickEvery
        /\ lastIn \in Age /\ lastBusy \in Age /\ came \in Age /\ quiet \in Age /\ stuck \in Age
        /\ Age = 0..Long
        /\ toTick \in 0..TickEvery /\ toPing \in 0..PingEvery /\ calls \in Nat
        /\ TickEvery \in Nat \ {0} /\ PingEvery \in Nat \ {0} /\ PingTimeout \in Nat /\ IdleTimeout \in Nat
    BY <1>1, LongIs, TimesAreNat, BoundsAreNat DEF TimersTypeOK, Age
  <1>3. /\ Open /\ ~woken
        /\ lastIn' = Later(limits.ping, lastIn) /\ lastBusy' = Later(limits.idle, lastBusy)
        /\ toTick' = (IF Ticks THEN toTick - 1 ELSE toTick)
        /\ toPing' = (IF limits.ping THEN toPing - 1 ELSE toPing)
        /\ woken' = (toTick' = 0 \/ toPing' = 0)
        /\ came' = Later(limits.ping, came)
        /\ quiet' = Later(limits.idle /\ calls = 0, quiet)
        /\ stuck' = Later(limits.idle /\ blocked, stuck)
        /\ limits' = limits /\ end' = end /\ inbox' = inbox /\ pings' = pings
        /\ answers' = answers /\ table' = table /\ calls' = calls /\ blocked' = blocked
    BY DEF Passes, queues
  <1>4. limits.ping \in BOOLEAN /\ limits.idle \in BOOLEAN /\ blocked \in BOOLEAN
        /\ (limits.idle /\ calls = 0) \in BOOLEAN /\ (limits.idle /\ blocked) \in BOOLEAN
    BY <1>1 DEF TimersTypeOK
  <1>5. /\ lastIn' \in Age /\ lastBusy' \in Age /\ came' \in Age /\ quiet' \in Age
        /\ stuck' \in Age
    BY <1>2, <1>3, <1>4, LaterIs
  <1>6. /\ limits.ping => /\ lastIn' = (IF lastIn < Long THEN lastIn + 1 ELSE Long)
                          /\ came' = (IF came < Long THEN came + 1 ELSE Long)
        /\ ~limits.ping => lastIn' = 0 /\ came' = 0
    BY <1>2, <1>3, <1>4, LaterIs
  <1>7. /\ limits.idle => lastBusy' = (IF lastBusy < Long THEN lastBusy + 1 ELSE Long)
        /\ limits.idle /\ calls = 0 => quiet' = (IF quiet < Long THEN quiet + 1 ELSE Long)
        /\ limits.idle /\ calls # 0 => quiet' = 0
        /\ limits.idle /\ blocked => stuck' = (IF stuck < Long THEN stuck + 1 ELSE Long)
    BY <1>2, <1>3, <1>4, LaterIs
  <1>8. Open' /\ (Ticks => toTick > 0) /\ (limits.ping => toPing > 0)
        /\ (limits.ping => Ticks) /\ (limits.idle => Ticks)
    BY <1>3 DEF TimersInv, DueIsWoken, Open, Ticks
  <1>9. /\ toTick' \in 0..TickEvery /\ toPing' \in 0..PingEvery
        /\ Ticks => toTick' = toTick - 1
    BY <1>2, <1>3, <1>8
  <1>10. TimersTypeOK'
    <2>1. Age' = Age /\ woken' \in BOOLEAN
      BY <1>3 DEF Age, Long
    <2> QED
      BY <1>1, <1>3, <1>5, <1>9, <2>1 DEF TimersTypeOK
  <1>11. DueIsWoken'
    <2>1. ~woken' => toTick' # 0 /\ toPing' # 0
      BY <1>3
    <2>2. ~woken' => toTick' > 0 /\ toPing' > 0
      BY <1>2, <1>9, <2>1
    <2> QED
      BY <2>2 DEF DueIsWoken
  <1>12. CallsFit'
    BY <1>3 DEF TimersInv, CallsFit
  <1>13. UnreadOK'
    <2> SUFFICES ASSUME inbox # <<>> PROVE came' <= lastIn' /\ Backed'
      BY <1>3 DEF UnreadOK
    <2>1. came <= lastIn /\ Backed
      BY <1>3 DEF TimersInv, UnreadOK
    <2>2. Backed'
      BY <1>3, <2>1 DEF Backed
    <2> QED
      BY <1>2, <1>4, <1>6, <2>1, <2>2
  <1>14. SilenceOK'
    <2> SUFFICES ASSUME limits.ping PROVE lastIn' + toTick' <= PingTimeout + TickEvery
      BY <1>3 DEF SilenceOK
    <2>1. lastIn + toTick <= PingTimeout + TickEvery
      BY <1>3 DEF TimersInv, SilenceOK
    <2> QED
      BY <1>2, <1>6, <1>8, <1>9, <2>1
  <1>15. ReadOK'
    <2> SUFFICES ASSUME inbox = <<>>
                 PROVE  lastIn' <= came' /\ (limits.ping => came' < lastIn' + PingTimeout + TickEvery)
      BY <1>3 DEF ReadOK
    <2>1. lastIn <= came /\ (limits.ping => came < lastIn + PingTimeout + TickEvery)
      BY <1>3 DEF TimersInv, ReadOK
    <2>2. limits.ping => lastIn <= PingTimeout + TickEvery
      BY <1>2, <1>3 DEF TimersInv, SilenceOK
    <2> QED
      BY <1>2, <1>4, <1>6, <2>1, <2>2
  <1>16. IdleOK'
    <2> SUFFICES ASSUME limits.idle
                 PROVE  /\ lastBusy' + toTick' <= IdleTimeout + TickEvery
                        /\ quiet' <= lastBusy' /\ lastBusy' <= quiet' + TickEvery
                        /\ calls > 0 => quiet' = 0 /\ lastBusy' + toTick' <= TickEvery
      BY <1>3 DEF IdleOK
    <2>1. /\ lastBusy + toTick <= IdleTimeout + TickEvery
          /\ quiet <= lastBusy /\ lastBusy <= quiet + TickEvery
          /\ calls > 0 => quiet = 0 /\ lastBusy + toTick <= TickEvery
      BY <1>3 DEF TimersInv, IdleOK
    <2>2. lastBusy' = lastBusy + 1 /\ toTick' = toTick - 1
      BY <1>2, <1>7, <1>8, <1>9, <2>1
    <2>3. CASE calls = 0
      BY <1>2, <1>7, <1>8, <2>1, <2>2, <2>3
    <2>4. CASE calls > 0
      BY <1>2, <1>7, <1>8, <1>9, <2>1, <2>2, <2>4
    <2> QED
      BY <1>2, <2>3, <2>4
  <1>17. WaitingOK'
    <2> SUFFICES ASSUME limits.idle, limits.budget > 0, answers > 0 \/ table
                 PROVE  blocked /\ lastBusy' <= stuck' + TickEvery
      BY <1>3 DEF WaitingOK
    <2>1. blocked /\ lastBusy <= stuck + TickEvery
      BY <1>3 DEF TimersInv, WaitingOK
    <2> QED
      BY <1>2, <1>7, <2>1
  <1>18. EndOK'
    BY <1>3 DEF EndOK, Open
  <1> QED
    BY <1>10, <1>11, <1>12, <1>13, <1>14, <1>15, <1>16, <1>17, <1>18 DEF TimersInv

\* A message comes, the peer stops or goes on taking bytes, a call ends.
LEMMA TimersOutside ==
    ASSUME TimersInv,
           PeerBlocks \/ CallEnds \/ \E kind \in Kinds : PeerSends(kind)
    PROVE  TimersInv'
  <1>1. TimersTypeOK
    BY DEF TimersInv
  <1>2. /\ Long \in Nat /\ lastIn \in 0..Long /\ lastBusy \in 0..Long /\ came \in 0..Long
        /\ quiet \in 0..Long /\ stuck \in 0..Long
        /\ toTick \in 0..TickEvery /\ toPing \in 0..PingEvery /\ calls \in 0..MaxCalls
        /\ TickEvery \in Nat \ {0} /\ PingEvery \in Nat \ {0} /\ PingTimeout \in Nat /\ IdleTimeout \in Nat
        /\ MaxCalls \in Nat /\ MaxInbox \in Nat /\ inbox \in Seq(Kinds) /\ Len(inbox) <= MaxInbox
        /\ Count("call", inbox) \in Nat /\ calls + Count("call", inbox) <= MaxCalls
    <2>1. Count("call", inbox) \in Nat
      BY <1>1, CountTyped DEF TimersTypeOK
    <2> QED
      BY <1>1, <2>1, LongIs, TimesAreNat, BoundsAreNat DEF TimersTypeOK, Age, TimersInv, CallsFit
  <1>3. Age = 0..Long /\ Age' = 0..Long
    BY DEF Age, Long
  <1>4. CASE PeerBlocks
    <2>1. /\ Open /\ blocked' = ~blocked /\ woken' = (woken \/ blocked)
          /\ limits' = limits /\ end' = end /\ calls' = calls
          /\ lastIn' = lastIn /\ lastBusy' = lastBusy /\ toTick' = toTick /\ toPing' = toPing
          /\ inbox' = inbox /\ pings' = pings /\ answers' = answers /\ table' = table
          /\ came' = came /\ quiet' = quiet /\ stuck' = stuck
      BY <1>4 DEF PeerBlocks, clocks, queues, history
    <2>2. TimersTypeOK'
      BY <1>1, <1>3, <2>1 DEF TimersTypeOK
    <2>3. Open' /\ Ticks' = Ticks /\ Backed' = Backed
      BY <2>1 DEF Open, Ticks, Backed
    <2>4. DueIsWoken' /\ UnreadOK'
      BY <2>1, <2>3 DEF TimersInv, DueIsWoken, UnreadOK
    <2>5. CallsFit' /\ ReadOK' /\ SilenceOK' /\ IdleOK'
      BY <2>1, <2>3 DEF TimersInv, CallsFit, ReadOK, SilenceOK, IdleOK
    <2>6. WaitingOK'
      BY <1>1, <2>1, <2>3 DEF TimersInv, WaitingOK, TimersTypeOK
    <2>7. EndOK'
      BY <2>3 DEF EndOK, Open
    <2> QED
      BY <2>2, <2>4, <2>5, <2>6, <2>7 DEF TimersInv
  <1>5. CASE CallEnds
    <2>1. /\ Open /\ calls > 0 /\ calls' = calls - 1 /\ table' = TRUE /\ quiet' = 0 /\ woken' = TRUE
          /\ limits' = limits /\ end' = end /\ blocked' = blocked
          /\ lastIn' = lastIn /\ lastBusy' = lastBusy /\ toTick' = toTick /\ toPing' = toPing
          /\ inbox' = inbox /\ pings' = pings /\ answers' = answers
          /\ came' = came /\ stuck' = stuck
      BY <1>5 DEF CallEnds, clocks
    <2>2. TimersTypeOK'
      <3>1. calls' \in 0..MaxCalls /\ quiet' \in 0..Long
        BY <1>2, <2>1
      <3> QED
        BY <1>1, <1>3, <2>1, <3>1 DEF TimersTypeOK
    <2>3. Open' /\ Ticks' = Ticks /\ Backed' = Backed
      BY <2>1 DEF Open, Ticks, Backed
    <2>4. DueIsWoken' /\ UnreadOK' /\ ReadOK' /\ SilenceOK'
      BY <2>1, <2>3 DEF TimersInv, DueIsWoken, UnreadOK, ReadOK, SilenceOK
    <2>5. CallsFit'
      <3>1. Count("call", inbox') = Count("call", inbox)
        BY <2>1
      <3> QED
        BY <1>2, <2>1, <3>1 DEF CallsFit
    <2>6. limits.idle => /\ lastBusy + toTick <= TickEvery
                         /\ lastBusy + toTick <= IdleTimeout + TickEvery
      BY <2>1 DEF TimersInv, IdleOK
    <2>7. IdleOK'
      <3> SUFFICES ASSUME limits.idle
                   PROVE  /\ lastBusy + toTick <= IdleTimeout + TickEvery
                          /\ 0 <= lastBusy /\ lastBusy <= 0 + TickEvery
                          /\ lastBusy + toTick <= TickEvery
        BY <2>1 DEF IdleOK
      <3> QED
        BY <1>2, <2>6
    <2>8. WaitingOK'
      BY <1>2, <2>1, <2>6 DEF WaitingOK
    <2>9. EndOK'
      BY <2>3 DEF EndOK, Open
    <2> QED
      BY <2>2, <2>4, <2>5, <2>7, <2>8, <2>9 DEF TimersInv
  <1>6. ASSUME NEW kind \in Kinds, PeerSends(kind)
        PROVE  TimersInv'
    <2>1. /\ Open /\ Len(inbox) < MaxInbox /\ inbox' = Append(inbox, kind)
          /\ kind = "call" => calls + Count("call", inbox) < MaxCalls
          /\ woken' = TRUE /\ came' = 0
          /\ limits' = limits /\ end' = end /\ blocked' = blocked /\ calls' = calls
          /\ lastIn' = lastIn /\ lastBusy' = lastBusy /\ toTick' = toTick /\ toPing' = toPing
          /\ pings' = pings /\ answers' = answers /\ table' = table /\ quiet' = quiet /\ stuck' = stuck
      BY <1>6 DEF PeerSends, clocks
    <2>2. inbox' \in Seq(Kinds) /\ Len(inbox') = Len(inbox) + 1 /\ inbox' # <<>>
      BY <1>2, <2>1
    <2>3. TimersTypeOK'
      <3>1. Len(inbox') <= MaxInbox /\ came' \in 0..Long
        BY <1>2, <2>1, <2>2
      <3> QED
        BY <1>1, <1>3, <2>1, <2>2, <3>1 DEF TimersTypeOK
    <2>4. Open' /\ Ticks' = Ticks
      BY <2>1 DEF Open, Ticks
    <2>5. DueIsWoken' /\ UnreadOK' /\ ReadOK'
      BY <1>2, <2>1, <2>2 DEF DueIsWoken, UnreadOK, ReadOK
    <2>6. CallsFit'
      <3>1. Count("call", Append(inbox, kind)) = Count("call", inbox) + (IF kind = "call" THEN 1 ELSE 0)
        BY <1>2, CountAppend
      <3>2. Count("call", inbox') = Count("call", inbox) + (IF kind = "call" THEN 1 ELSE 0)
        BY <2>1, <3>1
      <3> QED
        BY <1>2, <2>1, <3>2 DEF CallsFit
    <2>7. SilenceOK' /\ IdleOK' /\ WaitingOK'
      BY <2>1, <2>4 DEF TimersInv, SilenceOK, IdleOK, WaitingOK
    <2>8. EndOK'
      BY <2>4 DEF EndOK, Open
    <2> QED
      BY <2>3, <2>5, <2>6, <2>7, <2>8 DEF TimersInv
  <1> QED
    BY <1>4, <1>5, <1>6

\* A tick ends the socket.
LEMMA TimersEnds ==
    ASSUME TimersInv, Ends
    PROVE  TimersInv'
  <1>1. TimersTypeOK
    BY DEF TimersInv
  <1>2. /\ Long \in Nat /\ lastIn \in 0..Long /\ lastBusy \in 0..Long /\ came \in 0..Long
        /\ quiet \in 0..Long /\ stuck \in 0..Long /\ calls \in Nat
        /\ TickEvery \in Nat /\ PingTimeout \in Nat /\ IdleTimeout \in Nat
    BY <1>1, LongIs, TimesAreNat, BoundsAreNat DEF TimersTypeOK, Age
  <1>3. /\ Open /\ woken /\ PollTick # "open" /\ end' = PollTick /\ woken' = FALSE
        /\ limits' = limits /\ calls' = calls /\ blocked' = blocked
        /\ lastIn' = lastIn /\ lastBusy' = lastBusy /\ toTick' = toTick /\ toPing' = toPing
        /\ inbox' = inbox /\ pings' = pings /\ answers' = answers /\ table' = table
        /\ came' = came /\ quiet' = quiet /\ stuck' = stuck
    BY DEF Ends, clocks, queues, history
  <1>4. \/ end' = "silent" /\ Silent
        \/ end' = "idle" /\ Idle
    BY <1>3 DEF PollTick
  <1>5. ~Open'
    BY <1>4 DEF Open
  <1>6. TimersTypeOK'
    <2>1. Age' = Age
      BY DEF Age, Long
    <2>2. end' \in {"open", "silent", "idle"} /\ woken' \in BOOLEAN
      BY <1>3, <1>4
    <2> QED
      BY <1>1, <1>3, <2>1, <2>2 DEF TimersTypeOK
  <1>7. DueIsWoken' /\ UnreadOK' /\ SilenceOK' /\ IdleOK' /\ WaitingOK'
    BY <1>5 DEF DueIsWoken, UnreadOK, SilenceOK, IdleOK, WaitingOK
  <1>8. CallsFit' /\ ReadOK'
    BY <1>3, <1>5 DEF TimersInv, CallsFit, ReadOK
  <1>9. EndOK'
    <2>1. Backed' = Backed
      BY <1>3 DEF Backed
    <2>2. CASE Silent /\ end' = "silent"
      <3>1. inbox = <<>> => came > PingTimeout
        BY <1>2, <2>2 DEF TimersInv, ReadOK, Silent
      <3>2. inbox # <<>> => Backed \/ came = 0
        BY <1>3 DEF TimersInv, UnreadOK
      <3> QED
        BY <1>3, <2>1, <2>2, <3>1, <3>2 DEF EndOK
    <2>3. CASE Idle /\ end' = "idle"
      <3>1. limits.idle /\ calls = 0 /\ lastBusy >= IdleTimeout
        BY <1>2, <2>3 DEF Idle, Busy
      <3>2. lastBusy <= quiet + TickEvery
        BY <1>3, <3>1 DEF TimersInv, IdleOK
      <3>3. limits.budget > 0 /\ (answers > 0 \/ table) => lastBusy <= stuck + TickEvery
        BY <1>3, <3>1 DEF TimersInv, WaitingOK
      <3>4. limits.budget \in {0, 1}
        BY <1>1 DEF TimersTypeOK
      <3>5. calls' = 0 /\ quiet' + TickEvery >= IdleTimeout
        BY <1>2, <1>3, <3>1, <3>2
      <3>6. answers' > 0 \/ table' => limits'.budget = 0 \/ stuck' + TickEvery >= IdleTimeout
        BY <1>2, <1>3, <3>1, <3>3, <3>4
      <3> QED
        BY <2>3, <3>5, <3>6 DEF EndOK
    <2> QED
      BY <1>4, <2>2, <2>3
  <1> QED
    BY <1>6, <1>7, <1>8, <1>9 DEF TimersInv

\* What the invariant says of the properties.
LEMMA TimersSays ==
    ASSUME TimersInv
    PROVE  NotEarly /\ NotLate /\ IdleKeepsAnswers
  <1>1. NotEarly /\ IdleKeepsAnswers
    BY DEF TimersInv, EndOK, NotEarly, IdleKeepsAnswers
  <1>2. NotLate
    <2> SUFFICES ASSUME Open
                 PROVE  /\ limits.ping => came < 2 * (PingTimeout + TickEvery)
                        /\ limits.idle => quiet <= IdleTimeout + TickEvery
      BY DEF NotLate
    <2>1. /\ Long \in Nat /\ lastIn \in 0..Long /\ lastBusy \in 0..Long /\ came \in 0..Long
          /\ quiet \in 0..Long /\ toTick \in 0..TickEvery
          /\ TickEvery \in Nat \ {0} /\ PingTimeout \in Nat /\ IdleTimeout \in Nat
      BY LongIs, TimesAreNat DEF TimersInv, TimersTypeOK, Age
    <2>2. limits.ping => lastIn + toTick <= PingTimeout + TickEvery
      BY DEF TimersInv, SilenceOK
    <2>3. limits.ping => came <= lastIn \/ came < lastIn + PingTimeout + TickEvery
      BY DEF TimersInv, UnreadOK, ReadOK
    <2>4. limits.idle => quiet <= lastBusy /\ lastBusy + toTick <= IdleTimeout + TickEvery
      BY DEF TimersInv, IdleOK
    <2>5. limits.ping => came < 2 * (PingTimeout + TickEvery)
      BY <2>1, <2>2, <2>3
    <2> QED
      BY <2>1, <2>4, <2>5
  <1> QED
    BY <1>1, <1>2

\* The invariant holds always.
LEMMA TimersAlways ==
    TimersSpec => []TimersInv
  <1>1. TimersInit => TimersInv
    BY TimersBegin
  <1>2. TimersInv /\ [TimersNext]_timersVars => TimersInv'
    <2> SUFFICES ASSUME TimersInv, [TimersNext]_timersVars PROVE TimersInv'
      OBVIOUS
    <2>1. CASE TimersNext
      BY <2>1, TimersPass, TimersPolls, TimersOutside, TimersEnds DEF TimersNext
    <2>2. CASE UNCHANGED timersVars
      <3>1. /\ limits' = limits /\ end' = end /\ woken' = woken /\ calls' = calls /\ blocked' = blocked
            /\ lastIn' = lastIn /\ lastBusy' = lastBusy /\ toTick' = toTick /\ toPing' = toPing
            /\ inbox' = inbox /\ pings' = pings /\ answers' = answers /\ table' = table
            /\ came' = came /\ quiet' = quiet /\ stuck' = stuck
        BY <2>2 DEF timersVars
      <3>2. TimersTypeOK'
        BY <3>1 DEF TimersInv, TimersTypeOK, Age, Long
      <3>3. DueIsWoken' /\ CallsFit' /\ UnreadOK' /\ ReadOK'
        BY <3>1 DEF TimersInv, DueIsWoken, CallsFit, UnreadOK, ReadOK, Open, Ticks, Backed
      <3>4. SilenceOK' /\ IdleOK' /\ WaitingOK' /\ EndOK'
        BY <3>1 DEF TimersInv, SilenceOK, IdleOK, WaitingOK, EndOK, Open, Backed
      <3> QED
        BY <3>2, <3>3, <3>4 DEF TimersInv
    <2> QED
      BY <2>1, <2>2
  <1> QED
    BY <1>1, <1>2, PTL DEF TimersSpec

\* For all limits, ticks and bounds: nobody is closed early.  A socket that is
\* closed as silent had sent nothing for ping_timeout, or what it sent waits
\* behind answers it does not take; one closed as idle had no call open for
\* idle_timeout, a tick more or less.
THEOREM NobodyClosedEarly ==
    TimersSpec => []NotEarly
  <1>1. TimersInv => NotEarly
    BY TimersSays
  <1> QED
    BY <1>1, TimersAlways, PTL

\* For all limits, ticks and bounds: nobody is kept.  A silent socket is closed
\* in less than twice the ping_timeout and a tick, an idle one within a tick of
\* its idle_timeout, whatever its peer does not take.
THEOREM NobodyKept ==
    TimersSpec => []NotLate
  <1>1. TimersInv => NotLate
    BY TimersSays
  <1> QED
    BY <1>1, TimersAlways, PTL

\* For all limits, ticks and bounds: a socket that is closed as idle loses an
\* answer only to a peer that took no bytes for as long, or to a budget of 0.
THEOREM IdleLosesNoAnswer ==
    TimersSpec => []IdleKeepsAnswers
  <1>1. TimersInv => IdleKeepsAnswers
    BY TimersSays
  <1> QED
    BY <1>1, TimersAlways, PTL
-----------------------------------------------------------------------------
(***************************************************************************)
(* Guard.  The units of the frames fs, and what a sequence of them is.     *)
(* The frames are a parameter, so that one lemma serves a step that sends  *)
(* a frame and a step that does not.                                       *)
(***************************************************************************)
UnitsIn(fs) == {u \in Nat \X Nat : u[1] \in DOMAIN fs /\ u[2] <= fs[u[1]].len}

\* u is the last unit of its frame.
IsLast(fs, u) == u[2] = fs[u[1]].len

\* The rest of a stream of whole frames: each unit follows the one before,
\* and the last ends the last frame.
Streams(fs, s) ==
    \A k \in 1..Len(s) :
        IF k = Len(s) THEN s[k] = <<Len(fs), fs[Len(fs)].len>>
        ELSE s[k + 1] = IF IsLast(fs, s[k]) THEN <<s[k][1] + 1, 0>>
                        ELSE <<s[k][1], s[k][2] + 1>>

\* r is k units of one frame from the unit u on.
Run(r, u, k) ==
    /\ Len(r) = k
    /\ \A j \in 1..k : r[j] = <<u[1], u[2] + j - 1>>

EndsWhole(fs, q) == q = << >> \/ IsLast(fs, q[Len(q)])

\* u is what a reader that has read q waits for.
Fits(fs, q, u) ==
    IF EndsWhole(fs, q) THEN u[2] = 0
    ELSE u = <<q[Len(q)][1], q[Len(q)][2] + 1>>

\* A sequence of whole frames, but for the end of the last.
InFrames(fs, q) ==
    \A k \in 1..Len(q) :
        IF k = 1 \/ IsLast(fs, q[k - 1]) THEN q[k][2] = 0
        ELSE q[k] = <<q[k - 1][1], q[k - 1][2] + 1>>

\* The length of a frame is a number, and so are a unit's frame and place.
LEMMA FramesType ==
    ASSUME NEW fs \in Seq(Frames), NEW i \in DOMAIN fs
    PROVE  /\ fs[i] \in Frames /\ fs[i].len \in Nat /\ fs[i].fin \in BOOLEAN
           /\ i \in 1..Len(fs) /\ Len(fs) \in Nat
  <1>1. fs[i] \in Frames
    OBVIOUS
  <1>2. ASSUME NEW f \in Frames PROVE f.len \in Nat /\ f.fin \in BOOLEAN
    <2>1. CASE f \in [op : {"cont", "data"}, fin : BOOLEAN, len : Lens]
      BY <2>1, LensAreNat
    <2>2. CASE f \in [op : {"control"}, fin : {TRUE}, len : Lens]
      BY <2>2, LensAreNat
    <2>3. CASE f \in [op : {"illegal"}, fin : {TRUE}, len : {0}]
      <3>1. f.len = 0 /\ f.fin = TRUE
        BY <2>3
      <3>2. f.len \in Nat
        BY <3>1
      <3>3. f.fin \in BOOLEAN
        BY <3>1
      <3> QED
        BY <3>2, <3>3
    <2> QED
      BY <2>1, <2>2, <2>3 DEF Frames
  <1> QED
    BY <1>1, <1>2

\* A stream goes on through the frame that it begins in: nothing of a frame
\* is missing.  By induction on the units passed.
LEMMA StreamRuns ==
    ASSUME NEW fs \in Seq(Frames), NEW s \in Seq(UnitsIn(fs)), Streams(fs, s), s # << >>,
           NEW e \in Nat, s[1][2] + e <= fs[s[1][1]].len
    PROVE  e + 1 <= Len(s) /\ s[e + 1] = <<s[1][1], s[1][2] + e>>
  <1> DEFINE Good(d) == d + 1 <= Len(s) /\ s[d + 1] = <<s[1][1], s[1][2] + d>>
             Bad == {d \in Nat : d <= e /\ ~Good(d)}
  <1>0. s[1] \in UnitsIn(fs) /\ Len(s) \in Nat \ {0}
    OBVIOUS
  <1>1. s[1][1] \in DOMAIN fs /\ s[1][2] \in Nat /\ s[1] = <<s[1][1], s[1][2]>>
    BY <1>0 DEF UnitsIn
  <1>2. fs[s[1][1]].len \in Nat
    BY <1>1, FramesType
  <1>3. SUFFICES ASSUME Bad # {} PROVE FALSE
    BY DEF Good
  <1>4. PICK d \in Bad : \A c \in Bad : d <= c
    BY <1>3, LeastNat
  <1>5. Good(0)
    BY <1>0, <1>1 DEF Good
  <1>6. d # 0 /\ d \in Nat /\ d <= e /\ ~Good(d)
    BY <1>4, <1>5
  <1>7. Good(d - 1)
    <2>1. d - 1 \in Nat /\ d - 1 <= e /\ d - 1 < d
      BY <1>6
    <2>2. d - 1 \notin Bad
      <3>1. d - 1 \in Bad => d <= d - 1
        BY <1>4
      <3> QED
        BY <2>1, <3>1
    <2> QED
      BY <2>1, <2>2
  <1>8. d <= Len(s) /\ s[d] = <<s[1][1], s[1][2] + (d - 1)>>
    BY <1>6, <1>7 DEF Good
  <1>9. ~IsLast(fs, s[d])
    BY <1>8, <1>1, <1>2, <1>6 DEF IsLast
  <1>10. d # Len(s)
    <2>1. SUFFICES ASSUME d = Len(s) PROVE FALSE
      OBVIOUS
    <2>2. s[d] = <<Len(fs), fs[Len(fs)].len>>
      <3>1. d \in 1..Len(s)
        BY <1>6, <1>8, <1>0
      <3> QED
        BY <2>1, <3>1 DEF Streams
    <2> QED
      BY <2>2, <1>9 DEF IsLast
  <1>11. s[d + 1] = <<s[d][1], s[d][2] + 1>>
    <2>1. d \in 1..Len(s)
      BY <1>6, <1>8, <1>0
    <2> QED
      BY <2>1, <1>9, <1>10 DEF Streams
  <1>12. Good(d)
    BY <1>11, <1>8, <1>10, <1>6, <1>0, <1>1 DEF Good
  <1> QED
    BY <1>12, <1>6

\* The first k units of a sequence, and the rest.
LEMMA FrontRest ==
    ASSUME NEW S, NEW s \in Seq(S), NEW k \in 0..Len(s)
    PROVE  /\ Front(s, k) \in Seq(S) /\ Len(Front(s, k)) = k
           /\ \A j \in 1..k : Front(s, k)[j] = s[j]
           /\ Rest(s, k) \in Seq(S) /\ Len(Rest(s, k)) = Len(s) - k
           /\ \A j \in 1..(Len(s) - k) : Rest(s, k)[j] = s[k + j]
           /\ Front(s, k) \o Rest(s, k) = s
  <1>1. Front(s, k) \in Seq(S) /\ Len(Front(s, k)) = k /\ \A j \in 1..k : Front(s, k)[j] = s[j]
    BY DEF Front
  <1>2. Rest(s, k) \in Seq(S) /\ Len(Rest(s, k)) = Len(s) - k
        /\ \A j \in 1..(Len(s) - k) : Rest(s, k)[j] = s[k + j]
    BY DEF Rest
  <1>3. Front(s, k) \o Rest(s, k) = s
    <2>1. Front(s, k) \o Rest(s, k) \in Seq(S) /\ Len(Front(s, k) \o Rest(s, k)) = Len(s)
      BY <1>1, <1>2
    <2>2. ASSUME NEW j \in 1..Len(s) PROVE (Front(s, k) \o Rest(s, k))[j] = s[j]
      <3>1. k \in Int /\ j \in Int
        OBVIOUS
      <3>2. CASE j <= k
        BY <3>2, <1>1, <1>2
      <3>3. CASE ~(j <= k)
        <4>1. (Front(s, k) \o Rest(s, k))[j] = Rest(s, k)[j - k]
          BY <3>3, <3>1, <1>1, <1>2
        <4> QED
          BY <4>1, <3>3, <3>1, <1>2
      <3> QED
        BY <3>2, <3>3
    <2> QED
      BY <2>1, <2>2, SeqEqual
  <1> QED
    BY <1>1, <1>2, <1>3

\* Where a unit of two sequences put together comes from.
LEMMA Joined ==
    ASSUME NEW S, NEW q \in Seq(S), NEW r \in Seq(S)
    PROVE  /\ q \o r \in Seq(S) /\ Len(q \o r) = Len(q) + Len(r)
           /\ \A j \in 1..Len(q) : (q \o r)[j] = q[j]
           /\ \A j \in 1..Len(r) : (q \o r)[Len(q) + j] = r[j]
           /\ \A j \in 1..Len(q \o r) :
                 \/ j \in 1..Len(q) /\ (q \o r)[j] = q[j]
                 \/ j > Len(q) /\ j - Len(q) \in 1..Len(r) /\ (q \o r)[j] = r[j - Len(q)]
  OBVIOUS

\* What is left of a stream is a stream.
LEMMA StreamRest ==
    ASSUME NEW fs \in Seq(Frames), NEW s \in Seq(UnitsIn(fs)), Streams(fs, s),
           NEW k \in 0..Len(s)
    PROVE  Streams(fs, Rest(s, k))
  <1> DEFINE r == Rest(s, k)
  <1>1. r \in Seq(UnitsIn(fs)) /\ Len(r) = Len(s) - k /\ \A j \in 1..(Len(s) - k) : r[j] = s[k + j]
    BY FrontRest
  <1> HIDE DEF r
  <1>2. ASSUME NEW j \in 1..Len(r)
        PROVE  IF j = Len(r) THEN r[j] = <<Len(fs), fs[Len(fs)].len>>
               ELSE r[j + 1] = IF IsLast(fs, r[j]) THEN <<r[j][1] + 1, 0>>
                               ELSE <<r[j][1], r[j][2] + 1>>
    <2>1. k + j \in 1..Len(s) /\ r[j] = s[k + j] /\ (j = Len(r) <=> k + j = Len(s))
      <3>1. j \in Nat /\ k \in Nat /\ Len(s) \in Nat /\ 1 <= j /\ j <= Len(s) - k
        BY <1>1
      <3>2. r[j] = s[k + j]
        BY <3>1, <1>1
      <3> QED
        BY <3>1, <3>2, <1>1
    <2>2. ASSUME j # Len(r) PROVE r[j + 1] = s[k + j + 1]
      <3>1. j + 1 \in 1..(Len(s) - k) /\ k + (j + 1) = k + j + 1
        <4>1. j \in Nat /\ k \in Nat /\ Len(s) \in Nat /\ 1 <= j /\ j <= Len(r)
          BY <1>1
        <4>2. k + j <= Len(s) /\ k + j # Len(s)
          BY <2>1, <2>2
        <4> QED
          BY <4>1, <4>2
      <3> QED
        BY <3>1, <1>1
    <2>3. CASE j = Len(r)
      BY <2>1, <2>3 DEF Streams
    <2>4. CASE j # Len(r)
      BY <2>1, <2>2, <2>4 DEF Streams
    <2> QED
      BY <2>3, <2>4
  <1> QED
    BY <1>2 DEF Streams, r

\* Taking k units, none past the end of the frame that the stream is in:
\* they are a run of that frame, and the stream goes on after them.
LEMMA StreamTake ==
    ASSUME NEW fs \in Seq(Frames), NEW s \in Seq(UnitsIn(fs)), Streams(fs, s), s # << >>,
           NEW k \in Nat \ {0}, s[1][2] + k <= fs[s[1][1]].len + 1
    PROVE  /\ k <= Len(s) /\ Run(Front(s, k), s[1], k)
           /\ Rest(s, k) \in Seq(UnitsIn(fs)) /\ Streams(fs, Rest(s, k))
           /\ Rest(s, k) = << >> => s[1][1] = Len(fs) /\ s[1][2] + k = fs[s[1][1]].len + 1
           /\ Rest(s, k) # << >> =>
                Rest(s, k)[1] = IF s[1][2] + k = fs[s[1][1]].len + 1 THEN <<s[1][1] + 1, 0>>
                                ELSE <<s[1][1], s[1][2] + k>>
  <1>1. s[1] \in UnitsIn(fs) /\ Len(s) \in Nat \ {0}
    OBVIOUS
  <1>2. s[1][1] \in DOMAIN fs /\ s[1][2] \in Nat /\ s[1] = <<s[1][1], s[1][2]>>
    BY <1>1 DEF UnitsIn
  <1>3. fs[s[1][1]].len \in Nat
    BY <1>2, FramesType
  <1>4. ASSUME NEW j \in 1..k PROVE j <= Len(s) /\ s[j] = <<s[1][1], s[1][2] + j - 1>>
    <2>1. j - 1 \in Nat /\ s[1][2] + (j - 1) <= fs[s[1][1]].len
      BY <1>2, <1>3, SMTT(30)
    <2>2. (j - 1) + 1 <= Len(s) /\ s[(j - 1) + 1] = <<s[1][1], s[1][2] + (j - 1)>>
      BY <2>1, StreamRuns
    <2>3. (j - 1) + 1 = j /\ s[1][2] + (j - 1) = s[1][2] + j - 1
      BY <1>2
    <2> QED
      BY <2>2, <2>3
  <1>5. k <= Len(s) /\ s[k] = <<s[1][1], s[1][2] + k - 1>>
    BY <1>4
  <1>6. k \in 0..Len(s) /\ k \in 1..Len(s)
    BY <1>5, <1>1
  <1>7. /\ Front(s, k) \in Seq(UnitsIn(fs)) /\ Len(Front(s, k)) = k
        /\ \A j \in 1..k : Front(s, k)[j] = s[j]
        /\ Rest(s, k) \in Seq(UnitsIn(fs)) /\ Len(Rest(s, k)) = Len(s) - k
        /\ \A j \in 1..(Len(s) - k) : Rest(s, k)[j] = s[k + j]
    BY <1>6, FrontRest
  <1>8. Run(Front(s, k), s[1], k)
    BY <1>4, <1>7 DEF Run
  <1>9. Streams(fs, Rest(s, k))
    BY <1>6, StreamRest
  <1>10. IsLast(fs, s[k]) <=> s[1][2] + k = fs[s[1][1]].len + 1
    <2>1. s[k][1] = s[1][1] /\ s[k][2] = s[1][2] + k - 1
      BY <1>5
    <2> QED
      BY <2>1, <1>2, <1>3 DEF IsLast
  <1>11. ASSUME Rest(s, k) = << >> PROVE s[1][1] = Len(fs) /\ s[1][2] + k = fs[s[1][1]].len + 1
    <2>1. k = Len(s)
      BY <1>7, <1>11, <1>1
    <2>2. s[k] = <<Len(fs), fs[Len(fs)].len>>
      BY <2>1, <1>6 DEF Streams
    <2>3. s[1][1] = Len(fs) /\ IsLast(fs, s[k])
      BY <2>2, <1>5 DEF IsLast
    <2> QED
      BY <2>3, <1>10
  <1>12. ASSUME Rest(s, k) # << >>
         PROVE  Rest(s, k)[1] = IF s[1][2] + k = fs[s[1][1]].len + 1 THEN <<s[1][1] + 1, 0>>
                                ELSE <<s[1][1], s[1][2] + k>>
    <2>1. k # Len(s)
      BY <1>7, <1>12, <1>6
    <2>2. Rest(s, k)[1] = s[k + 1]
      BY <2>1, <1>7, <1>6
    <2>3. s[k + 1] = IF IsLast(fs, s[k]) THEN <<s[k][1] + 1, 0>> ELSE <<s[k][1], s[k][2] + 1>>
      BY <2>1, <1>6 DEF Streams
    <2>4. s[k][1] = s[1][1] /\ s[k][2] + 1 = s[1][2] + k
      BY <1>5, <1>2
    <2> QED
      BY <2>2, <2>3, <2>4, <1>10
  <1> QED
    BY <1>5, <1>7, <1>8, <1>9, <1>11, <1>12

\* Taking units off the first of two sequences takes them off both.
LEMMA RestJoined ==
    ASSUME NEW S, NEW q \in Seq(S), NEW r \in Seq(S), NEW k \in 0..Len(q)
    PROVE  /\ Rest(q, k) \o r = Rest(q \o r, k)
           /\ Front(q \o r, k) = Front(q, k)
  <1> DEFINE w == q \o r
  <1>1. /\ w \in Seq(S) /\ Len(w) = Len(q) + Len(r)
        /\ \A j \in 1..Len(q) : w[j] = q[j]
        /\ \A j \in 1..Len(r) : w[Len(q) + j] = r[j]
    BY Joined
  <1>2. k \in Nat /\ Len(q) \in Nat /\ Len(r) \in Nat /\ k <= Len(q)
    OBVIOUS
  <1> HIDE DEF w
  <1>3. k \in 0..Len(w)
    BY <1>1, <1>2
  <1>4. /\ Front(q, k) \in Seq(S) /\ Len(Front(q, k)) = k
        /\ \A j \in 1..k : Front(q, k)[j] = q[j]
        /\ Rest(q, k) \in Seq(S) /\ Len(Rest(q, k)) = Len(q) - k
        /\ \A j \in 1..(Len(q) - k) : Rest(q, k)[j] = q[k + j]
    BY FrontRest
  <1>5. /\ Front(w, k) \in Seq(S) /\ Len(Front(w, k)) = k
        /\ \A j \in 1..k : Front(w, k)[j] = w[j]
        /\ Rest(w, k) \in Seq(S) /\ Len(Rest(w, k)) = Len(w) - k
        /\ \A j \in 1..(Len(w) - k) : Rest(w, k)[j] = w[k + j]
    BY <1>1, <1>3, FrontRest
  <1>6. Front(w, k) = Front(q, k)
    <2>1. ASSUME NEW j \in 1..k PROVE Front(w, k)[j] = Front(q, k)[j]
      <3>1. j \in 1..Len(q)
        BY <1>2
      <3> QED
        BY <3>1, <1>1, <1>4, <1>5
    <2> QED
      BY <2>1, <1>4, <1>5, SeqEqual
  <1>7. Rest(q, k) \o r = Rest(w, k)
    <2> DEFINE v == Rest(q, k) \o r
    <2>1. /\ v \in Seq(S) /\ Len(v) = Len(Rest(q, k)) + Len(r)
          /\ \A j \in 1..Len(v) :
                 \/ j \in 1..Len(Rest(q, k)) /\ v[j] = Rest(q, k)[j]
                 \/ j > Len(Rest(q, k)) /\ j - Len(Rest(q, k)) \in 1..Len(r)
                    /\ v[j] = r[j - Len(Rest(q, k))]
      BY <1>4, Joined, ZenonT(60)
    <2>2. Len(v) = Len(w) - k
      BY <2>1, <1>1, <1>2, <1>4
    <2> HIDE DEF v
    <2>3. ASSUME NEW j \in 1..Len(v) PROVE v[j] = Rest(w, k)[j]
      <3>1. Rest(w, k)[j] = w[k + j]
        BY <2>2, <1>5
      <3>2. CASE j \in 1..(Len(q) - k) /\ v[j] = Rest(q, k)[j]
        <4>1. k + j \in 1..Len(q)
          BY <3>2, <1>2
        <4> QED
          BY <4>1, <3>1, <3>2, <1>1, <1>4
      <3>3. CASE j - (Len(q) - k) \in 1..Len(r) /\ v[j] = r[j - (Len(q) - k)]
        <4>1. Len(q) + (j - (Len(q) - k)) = k + j
          BY <1>2
        <4> QED
          BY <4>1, <3>1, <3>3, <1>1
      <3> QED
        BY <3>2, <3>3, <2>1, <1>4
    <2> QED
      BY <2>1, <2>2, <2>3, <1>5, SeqEqual DEF v
  <1> QED
    BY <1>6, <1>7 DEF w

\* Whole frames before a sequence in frames: still in frames.
LEMMA FramesJoin ==
    ASSUME NEW fs \in Seq(Frames), NEW q \in Seq(UnitsIn(fs)), NEW r \in Seq(UnitsIn(fs)),
           InFrames(fs, q), InFrames(fs, r), EndsWhole(fs, q)
    PROVE  /\ InFrames(fs, q \o r)
           /\ EndsWhole(fs, r) => EndsWhole(fs, q \o r)
           /\ r # << >> => (q \o r)[Len(q \o r)] = r[Len(r)]
  <1> DEFINE w == q \o r
  <1>1. /\ w \in Seq(UnitsIn(fs)) /\ Len(w) = Len(q) + Len(r) /\ Len(q) \in Nat /\ Len(r) \in Nat
        /\ \A j \in 1..Len(q) : w[j] = q[j]
        /\ \A j \in 1..Len(r) : w[Len(q) + j] = r[j]
    BY Joined
  <1>2. q = << >> <=> Len(q) = 0
    OBVIOUS
  <1>3. r = << >> <=> Len(r) = 0
    OBVIOUS
  <1> HIDE DEF w
  <1>4. ASSUME NEW k \in 1..Len(w)
        PROVE  IF k = 1 \/ IsLast(fs, w[k - 1]) THEN w[k][2] = 0
               ELSE w[k] = <<w[k - 1][1], w[k - 1][2] + 1>>
    <2>1. CASE k <= Len(q)
      <3>1. k \in 1..Len(q) /\ (k # 1 => k - 1 \in 1..Len(q))
        BY <2>1, <1>1
      <3>2. w[k] = q[k] /\ (k # 1 => w[k - 1] = q[k - 1])
        BY <3>1, <1>1
      <3> QED
        BY <3>1, <3>2 DEF InFrames
    <2>2. CASE k = Len(q) + 1
      <3>1. w[k] = r[1] /\ 1 \in 1..Len(r)
        BY <2>2, <1>1
      <3>2. r[1][2] = 0
        BY <3>1 DEF InFrames
      <3>3. k # 1 => IsLast(fs, w[k - 1])
        BY <2>2, <1>1, <1>2 DEF EndsWhole
      <3> QED
        BY <3>1, <3>2, <3>3
    <2>3. CASE k > Len(q) + 1
      <3> DEFINE j == k - Len(q)
      <3>1. j \in 1..Len(r) /\ j # 1 /\ j - 1 \in 1..Len(r)
            /\ k = Len(q) + j /\ k - 1 = Len(q) + (j - 1) /\ k # 1
        BY <2>3, <1>1
      <3> HIDE DEF j
      <3>2. w[k] = r[j] /\ w[k - 1] = r[j - 1]
        BY <3>1, <1>1
      <3> QED
        BY <3>1, <3>2 DEF InFrames
    <2>4. k <= Len(q) \/ k = Len(q) + 1 \/ k > Len(q) + 1
      BY <1>1
    <2> QED
      BY <2>1, <2>2, <2>3, <2>4
  <1>5. InFrames(fs, w)
    BY <1>4 DEF InFrames
  <1>6. ASSUME r # << >> PROVE w[Len(w)] = r[Len(r)]
    BY <1>6, <1>3, <1>1
  <1>7. ASSUME EndsWhole(fs, r) PROVE EndsWhole(fs, w)
    <2>1. CASE r = << >>
      <3>1. w = q
        BY <2>1 DEF w
      <3> QED
        BY <3>1
    <2>2. CASE r # << >>
      BY <2>2, <1>6, <1>7 DEF EndsWhole
    <2> QED
      BY <2>1, <2>2
  <1> QED
    BY <1>5, <1>6, <1>7 DEF w

\* The places of a run: each is one more than the one before, which does not
\* end the frame.
LEMMA RunPlaces ==
    ASSUME NEW p \in Nat, NEW i \in Nat, NEW k \in Nat, NEW len \in Nat,
           i <= k, p + k <= len + 1
    PROVE  (p + (i - 1) - 1) + 1 = p + i - 1 /\ p + (i - 1) - 1 # len
  OBVIOUS

\* A run of the frame that a sequence waits for, after it: still in frames,
\* and it ends where the run does.
LEMMA FramesGrow ==
    ASSUME NEW fs \in Seq(Frames), NEW q \in Seq(UnitsIn(fs)), NEW r \in Seq(UnitsIn(fs)),
           InFrames(fs, q), NEW u \in UnitsIn(fs), NEW k \in Nat \ {0}, Run(r, u, k),
           u[2] + k <= fs[u[1]].len + 1, Fits(fs, q, u)
    PROVE  /\ InFrames(fs, q \o r)
           /\ EndsWhole(fs, q \o r) <=> u[2] + k = fs[u[1]].len + 1
           /\ u[2] + k # fs[u[1]].len + 1 => Fits(fs, q \o r, <<u[1], u[2] + k>>)
  <1> DEFINE w == q \o r
  <1>1. /\ w \in Seq(UnitsIn(fs)) /\ Len(w) = Len(q) + k /\ Len(q) \in Nat /\ Len(r) = k
        /\ \A j \in 1..Len(q) : w[j] = q[j]
        /\ \A j \in 1..k : w[Len(q) + j] = <<u[1], u[2] + j - 1>>
    <2>1. Len(r) = k /\ \A j \in 1..k : r[j] = <<u[1], u[2] + j - 1>>
      BY DEF Run
    <2>2. /\ w \in Seq(UnitsIn(fs)) /\ Len(w) = Len(q) + Len(r)
          /\ \A j \in 1..Len(q) : w[j] = q[j]
          /\ \A j \in 1..Len(r) : w[Len(q) + j] = r[j]
      BY Joined
    <2> QED
      BY <2>1, <2>2
  <1>2. q = << >> <=> Len(q) = 0
    OBVIOUS
  <1>3. u[1] \in DOMAIN fs /\ u[2] \in Nat /\ u = <<u[1], u[2]>>
    BY DEF UnitsIn
  <1>4. fs[u[1]].len \in Nat
    BY <1>3, FramesType
  <1> HIDE DEF w
  <1>5. ASSUME NEW j \in 1..Len(w)
        PROVE  IF j = 1 \/ IsLast(fs, w[j - 1]) THEN w[j][2] = 0
               ELSE w[j] = <<w[j - 1][1], w[j - 1][2] + 1>>
    <2>1. CASE j <= Len(q)
      <3>1. j \in 1..Len(q) /\ (j # 1 => j - 1 \in 1..Len(q))
        BY <2>1, <1>1
      <3>2. w[j] = q[j] /\ (j # 1 => w[j - 1] = q[j - 1])
        BY <3>1, <1>1
      <3> QED
        BY <3>1, <3>2 DEF InFrames
    <2>2. CASE j = Len(q) + 1
      <3>1. w[j] = u
        <4>1. w[j] = <<u[1], u[2] + 1 - 1>>
          BY <2>2, <1>1
        <4> QED
          BY <4>1, <1>3
      <3>2. CASE q = << >>
        <4>1. j = 1 /\ u[2] = 0
          BY <3>2, <2>2, <1>2 DEF Fits, EndsWhole
        <4> QED
          BY <4>1, <3>1
      <3>3. CASE q # << >>
        <4>1. j # 1 /\ w[j - 1] = q[Len(q)]
          <5>1. j - 1 = Len(q) /\ Len(q) \in 1..Len(q)
            BY <3>3, <2>2, <1>1, <1>2
          <5> QED
            BY <5>1, <1>1
        <4>2. EndsWhole(fs, q) <=> IsLast(fs, q[Len(q)])
          BY <3>3 DEF EndsWhole
        <4> QED
          BY <4>1, <4>2, <3>1 DEF Fits
      <3> QED
        BY <3>2, <3>3
    <2>3. CASE j > Len(q) + 1
      <3> DEFINE i == j - Len(q)
      <3>1. i \in 1..k /\ i # 1 /\ i - 1 \in 1..k /\ i \in Nat
            /\ j = Len(q) + i /\ j - 1 = Len(q) + (i - 1) /\ j # 1
        <4>1. j \in Int /\ 1 <= j /\ j <= Len(q) + k /\ Len(q) \in Nat
          BY <1>1
        <4> QED
          BY <4>1, <2>3
      <3> HIDE DEF i
      <3>2. w[j] = <<u[1], u[2] + i - 1>> /\ w[j - 1] = <<u[1], u[2] + (i - 1) - 1>>
        BY <3>1, <1>1
      <3>3. w[j - 1][1] = u[1] /\ w[j - 1][2] = u[2] + (i - 1) - 1
        BY <3>2
      <3>4. ~IsLast(fs, w[j - 1]) /\ w[j - 1][2] + 1 = u[2] + i - 1
        <4>1. u[2] \in Nat /\ i \in Nat /\ i <= k
          BY <1>3, <3>1
        <4>2. (u[2] + (i - 1) - 1) + 1 = u[2] + i - 1 /\ u[2] + (i - 1) - 1 # fs[u[1]].len
          BY <4>1, <1>4, RunPlaces
        <4> QED
          BY <4>2, <3>3 DEF IsLast
      <3> QED
        BY <3>1, <3>2, <3>3, <3>4
    <2>4. j <= Len(q) \/ j = Len(q) + 1 \/ j > Len(q) + 1
      BY <1>1
    <2> QED
      BY <2>1, <2>2, <2>3, <2>4
  <1>6. InFrames(fs, w)
    BY <1>5 DEF InFrames
  <1>7. w[Len(w)] = <<u[1], u[2] + k - 1>> /\ w # << >>
    <2>1. k \in 1..k /\ Len(w) # 0
      BY <1>1
    <2>2. w[Len(q) + k] = <<u[1], u[2] + k - 1>>
      BY <2>1, <1>1
    <2> QED
      BY <2>1, <2>2, <1>1
  <1>8. EndsWhole(fs, w) <=> u[2] + k = fs[u[1]].len + 1
    <2>1. w[Len(w)][1] = u[1] /\ w[Len(w)][2] = u[2] + k - 1
      BY <1>7
    <2>2. EndsWhole(fs, w) <=> u[2] + k - 1 = fs[u[1]].len
      BY <2>1, <1>7 DEF EndsWhole, IsLast
    <2> QED
      BY <2>2, <1>3, <1>4
  <1>9. ASSUME u[2] + k # fs[u[1]].len + 1 PROVE Fits(fs, w, <<u[1], u[2] + k>>)
    BY <1>9, <1>8, <1>7, <1>3 DEF Fits
  <1> QED
    BY <1>6, <1>8, <1>9 DEF w

\* Frame i carries data.
Data(fs, i) == fs[i].op \in {"cont", "data"}

\* u is before v in the peer's stream.
Before(u, v) == u[1] < v[1] \/ (u[1] = v[1] /\ u[2] < v[2])

\* Units of a kind, data or control, are in the peer's order.
Sorted(fs, q) ==
    \A j, k \in 1..Len(q) :
        j < k /\ (Data(fs, q[j][1]) <=> Data(fs, q[k][1])) => Before(q[j], q[k])

\* What comes before a unit comes before each of a run that it begins.
LEMMA BeforeRun ==
    ASSUME NEW u \in Nat \X Nat, NEW v \in Nat \X Nat, NEW e \in Nat, Before(u, v)
    PROVE  Before(u, <<v[1], v[2] + e>>)
  BY DEF Before

\* Two sorted sequences put together, when the units of the first come
\* before the units of their kind of the second.
LEMMA SortedJoin ==
    ASSUME NEW fs, NEW S, NEW q \in Seq(S), NEW r \in Seq(S), Sorted(fs, q), Sorted(fs, r),
           \A j \in 1..Len(q), k \in 1..Len(r) :
              (Data(fs, q[j][1]) <=> Data(fs, r[k][1])) => Before(q[j], r[k])
    PROVE  Sorted(fs, q \o r)
  <1> DEFINE w == q \o r
  <1>1. /\ Len(w) = Len(q) + Len(r) /\ Len(q) \in Nat /\ Len(r) \in Nat
        /\ \A j \in 1..Len(w) :
              \/ j \in 1..Len(q) /\ w[j] = q[j]
              \/ j > Len(q) /\ j - Len(q) \in 1..Len(r) /\ w[j] = r[j - Len(q)]
    BY Joined
  <1> HIDE DEF w
  <1>2. ASSUME NEW j \in 1..Len(w), NEW k \in 1..Len(w), j < k,
               Data(fs, w[j][1]) <=> Data(fs, w[k][1])
        PROVE  Before(w[j], w[k])
    <2>1. CASE k <= Len(q)
      <3>1. j \in 1..Len(q) /\ k \in 1..Len(q) /\ w[j] = q[j] /\ w[k] = q[k]
        BY <2>1, <1>1, <1>2
      <3> QED
        BY <3>1, <1>2 DEF Sorted
    <2>2. CASE ~(k <= Len(q)) /\ j <= Len(q)
      <3>1. j \in 1..Len(q) /\ k - Len(q) \in 1..Len(r) /\ w[j] = q[j] /\ w[k] = r[k - Len(q)]
        BY <2>2, <1>1, <1>2
      <3> QED
        BY <3>1, <1>2
    <2>3. CASE ~(k <= Len(q)) /\ ~(j <= Len(q))
      <3>1. j - Len(q) \in 1..Len(r) /\ k - Len(q) \in 1..Len(r) /\ w[j] = r[j - Len(q)] /\ w[k] = r[k - Len(q)]
        BY <2>3, <1>1, <1>2
      <3>2. j - Len(q) < k - Len(q)
        BY <1>1, <1>2
      <3> QED
        BY <3>1, <3>2, <1>2 DEF Sorted
    <2> QED
      BY <2>1, <2>2, <2>3
  <1>3. Sorted(fs, w)
    BY <1>2 DEF Sorted
  <1> QED
    BY <1>3 DEF w

\* A run is sorted, and each of its units is before the unit after it.
LEMMA RunSorted ==
    ASSUME NEW fs, NEW r, NEW u \in Nat \X Nat, NEW k \in Nat \ {0}, Run(r, u, k)
    PROVE  /\ Sorted(fs, r)
           /\ \A j \in 1..Len(r) : Before(r[j], <<u[1], u[2] + k>>) /\ Before(r[j], <<u[1] + 1, 0>>)
           /\ \A j \in 1..Len(r) : r[j][1] = u[1]
           /\ \A v \in Nat \X Nat : Before(v, u) => \A j \in 1..Len(r) : Before(v, r[j])
  <1>1. Len(r) = k /\ (\A j \in 1..k : r[j] = <<u[1], u[2] + j - 1>>) /\ u[1] \in Nat /\ u[2] \in Nat
    BY DEF Run
  <1>2. \A j \in 1..k : r[j][1] = u[1] /\ r[j][2] = u[2] + j - 1
    BY <1>1
  <1>3. ASSUME NEW j \in 1..k
        PROVE  Before(r[j], <<u[1], u[2] + k>>) /\ Before(r[j], <<u[1] + 1, 0>>)
    <2>1. u[2] + j - 1 < u[2] + k
      BY <1>1
    <2> QED
      BY <2>1, <1>1, <1>2 DEF Before
  <1>4. ASSUME NEW i \in 1..k, NEW j \in 1..k, i < j PROVE Before(r[i], r[j])
    <2>1. u[2] + i - 1 < u[2] + j - 1
      BY <1>1, <1>4
    <2> QED
      BY <2>1, <1>2 DEF Before
  <1>5. ASSUME NEW v \in Nat \X Nat, Before(v, u), NEW j \in 1..k PROVE Before(v, r[j])
    <2>1. Before(v, <<u[1], u[2] + (j - 1)>>)
      BY <1>5, BeforeRun
    <2>2. u[2] + (j - 1) = u[2] + j - 1
      BY <1>1
    <2> QED
      BY <2>1, <2>2, <1>1
  <1> QED
    BY <1>1, <1>2, <1>3, <1>4, <1>5 DEF Sorted

(***************************************************************************)
(* The guard's state.  Two sequences matter, whichever variables hold      *)
(* their parts: the Stream still to be taken, and what is Given, which     *)
(* tungstenite has or will have before anything else.  A fill leaves the   *)
(* first as it is and a read of released fragments the second.             *)
(***************************************************************************)
Stream == buf \o wire
Given == out \o ready

\* Where the guard is: the next unit of the stream, or of the next frame.
Place == IF Stream = << >> THEN <<Len(sent) + 1, 0>> ELSE Stream[1]

\* The frame at Place is being handed on as it comes.
Passing == state.in = "Pass" /\ state.n > 0

GuardTypes ==
    /\ sent \in Seq(Frames) /\ Len(sent) <= MaxFrames
    /\ wire \in Seq(UnitsIn(sent)) /\ buf \in Seq(UnitsIn(sent))
    /\ ready \in Seq(UnitsIn(sent)) /\ hold \in Seq(UnitsIn(sent))
    /\ out \in Seq(UnitsIn(sent))
    /\ state \in [in : {"Header", "Pass", "Hold", "Skip"}, n : Nat]
    /\ msg \in [m : {"None", "Holding", "Skipping"}, len : Nat]
    /\ dropped \in Nat

\* The units left of a frame are counted right: with none left the guard is
\* at a header, and a frame held or skipped has its header behind it.
PlaceOK ==
    /\ Streams(sent, Stream)
    /\ state.n = 0 => Place[2] = 0
    /\ state.n > 0 => /\ Stream # << >>
                      /\ state.n + Place[2] = sent[Place[1]].len + 1
    /\ state.in = "Header" => state.n = 0
    /\ state.in = "Hold" => state.n > 0
    /\ state.in \in {"Hold", "Skip"} /\ state.n > 0 => Place[2] > 0

\* What is given and what is held are whole frames, but for the end of the
\* frame being passed or held, and that goes on at Place.
FramesOK ==
    /\ InFrames(sent, Given) /\ InFrames(sent, hold)
    /\ Passing => Fits(sent, Given, Place)
    /\ ~Passing => EndsWhole(sent, Given)
    /\ state.in = "Hold" => Fits(sent, hold, Place)
    /\ state.in # "Hold" => EndsWhole(sent, hold)

\* Only data is held, after all the data given and before Place, and no data
\* passes it.
OrderOK ==
    /\ Sorted(sent, Given) /\ Sorted(sent, hold)
    /\ \A k \in 1..Len(Given) : Before(Given[k], Place)
    /\ \A k \in 1..Len(hold) : Before(hold[k], Place) /\ Data(sent, hold[k][1])
    /\ \A j \in 1..Len(Given), k \in 1..Len(hold) :
          Data(sent, Given[j][1]) => Before(Given[j], hold[k])
    /\ msg.m # "Holding" => hold = << >>
    /\ Passing /\ Data(sent, Place[1]) => msg.m # "Holding"
    /\ state.in = "Hold" => msg.m = "Holding" /\ Data(sent, Place[1])

FramingInv == GuardTypes /\ PlaceOK /\ FramesOK /\ OrderOK

\* The place is a frame and a number, a unit of the stream unless that is
\* empty.
LEMMA PlaceType ==
    ASSUME GuardTypes
    PROVE  /\ Stream \in Seq(UnitsIn(sent)) /\ Given \in Seq(UnitsIn(sent))
           /\ Place \in Nat \X Nat /\ Place = <<Place[1], Place[2]>>
           /\ Place[1] \in Nat /\ Place[2] \in Nat
           /\ Stream # << >> => /\ Place = Stream[1] /\ Place \in UnitsIn(sent)
                                /\ Place[1] \in DOMAIN sent /\ sent[Place[1]].len \in Nat
                                /\ Place[2] <= sent[Place[1]].len
           /\ Stream = << >> => Place = <<Len(sent) + 1, 0>>
  <1>1. Stream \in Seq(UnitsIn(sent)) /\ Given \in Seq(UnitsIn(sent))
    BY DEF GuardTypes, Stream, Given
  <1>2. CASE Stream = << >>
    BY <1>1, <1>2 DEF Place, GuardTypes
  <1>3. CASE Stream # << >>
    <2>1. Place = Stream[1] /\ Place \in UnitsIn(sent)
      BY <1>1, <1>3 DEF Place
    <2>2. Place \in Nat \X Nat /\ Place[1] \in DOMAIN sent /\ Place[2] <= sent[Place[1]].len
      BY <2>1 DEF UnitsIn
    <2>3. sent[Place[1]].len \in Nat
      BY <2>2, FramesType DEF GuardTypes
    <2>4. Place = <<Place[1], Place[2]>> /\ Place[1] \in Nat /\ Place[2] \in Nat
      BY <2>2
    <2> QED
      BY <1>1, <1>3, <2>1, <2>2, <2>3, <2>4
  <1> QED
    BY <1>2, <1>3

\* Taking k units off the stream, none past the end of the frame at Place:
\* they are a run of it, and Place moves past them.
LEMMA TakeUnits ==
    ASSUME GuardTypes, Streams(sent, Stream), Stream # << >>,
           NEW k \in Nat \ {0}, Place[2] + k <= sent[Place[1]].len + 1,
           sent' = sent, Stream' = Rest(Stream, k)
    PROVE  /\ k <= Len(Stream) /\ Front(Stream, k) \in Seq(UnitsIn(sent))
           /\ Run(Front(Stream, k), Place, k)
           /\ Stream' \in Seq(UnitsIn(sent)) /\ Streams(sent', Stream')
           /\ Place[2] + k = sent[Place[1]].len + 1 => Place' = <<Place[1] + 1, 0>>
           /\ Place[2] + k # sent[Place[1]].len + 1 =>
                 Stream' # << >> /\ Place' = <<Place[1], Place[2] + k>>
           /\ \A v \in Nat \X Nat : Before(v, Place) => Before(v, Place')
           /\ \A j \in 1..k : Before(Front(Stream, k)[j], Place')
  <1>1. /\ Stream \in Seq(UnitsIn(sent)) /\ Place = Stream[1] /\ Place \in Nat \X Nat
        /\ Place[1] \in Nat /\ Place[2] \in Nat /\ sent[Place[1]].len \in Nat
    BY PlaceType
  <1>2. sent \in Seq(Frames)
    BY DEF GuardTypes
  <1> DEFINE R == Rest(Stream, k)
  <1>3. /\ k <= Len(Stream) /\ Run(Front(Stream, k), Place, k)
        /\ R \in Seq(UnitsIn(sent)) /\ Streams(sent, R)
        /\ R = << >> => Place[1] = Len(sent) /\ Place[2] + k = sent[Place[1]].len + 1
        /\ R # << >> =>
             R[1] = IF Place[2] + k = sent[Place[1]].len + 1 THEN <<Place[1] + 1, 0>>
                    ELSE <<Place[1], Place[2] + k>>
    BY <1>1, <1>2, StreamTake
  <1>4. Front(Stream, k) \in Seq(UnitsIn(sent))
    BY <1>1, <1>3, FrontRest
  <1>5. Place' = IF R = << >> THEN <<Len(sent) + 1, 0>> ELSE R[1]
    BY DEF Place
  <1> HIDE DEF R
  <1>6. CASE Place[2] + k = sent[Place[1]].len + 1
    <2>1. Place' = <<Place[1] + 1, 0>>
      BY <1>3, <1>5, <1>6
    <2>2. ASSUME NEW v \in Nat \X Nat, Before(v, Place) PROVE Before(v, Place')
      BY <2>1, <2>2, <1>1 DEF Before
    <2>3. ASSUME NEW j \in 1..k PROVE Before(Front(Stream, k)[j], Place')
      BY <2>1, <1>3, <1>1, RunSorted DEF Run
    <2> QED
      BY <1>3, <1>4, <1>6, <2>1, <2>2, <2>3 DEF R
  <1>7. CASE Place[2] + k # sent[Place[1]].len + 1
    <2>1. R # << >> /\ Place' = <<Place[1], Place[2] + k>>
      BY <1>3, <1>5, <1>7
    <2>2. ASSUME NEW v \in Nat \X Nat, Before(v, Place) PROVE Before(v, Place')
      BY <2>1, <2>2, <1>1, BeforeRun
    <2>3. ASSUME NEW j \in 1..k PROVE Before(Front(Stream, k)[j], Place')
      BY <2>1, <1>3, <1>1, RunSorted DEF Run
    <2> QED
      BY <1>3, <1>4, <1>7, <2>1, <2>2, <2>3 DEF R
  <1> QED
    BY <1>6, <1>7

\* With n units left of a frame from place p on, k of them go no further than
\* its end, and reach it when they are all.
LEMMA UnitsLeft ==
    ASSUME NEW n \in Nat, NEW p \in Nat, NEW len \in Nat, NEW k \in Nat,
           n + p = len + 1, k <= n
    PROVE  p + k <= len + 1 /\ (p + k = len + 1 <=> k = n) /\ (n - k) + (p + k) = len + 1
  OBVIOUS

\* Units of the frame at Place are handed on (poll_read's Pass).
LEMMA PassStep ==
    ASSUME FramingInv, Passing, NEW k \in 1..state.n, sent' = sent,
           Stream' = Rest(Stream, k), Given' = Given \o Front(Stream, k),
           state' = At("Pass", state.n - k), hold' = hold, msg' = msg
    PROVE  PlaceOK' /\ FramesOK' /\ OrderOK'
  <1> DEFINE F == Front(Stream, k)  L == sent[Place[1]].len
  <1>1. GuardTypes /\ PlaceOK /\ FramesOK /\ OrderOK
    BY DEF FramingInv
  <1>2. state.in = "Pass" /\ state.n \in Nat /\ state.n > 0 /\ k \in Nat \ {0} /\ k <= state.n
    BY <1>1 DEF Passing, GuardTypes
  <1>3. Streams(sent, Stream) /\ Stream # << >> /\ state.n + Place[2] = L + 1
    BY <1>1, <1>2 DEF PlaceOK
  <1>4. /\ Given \in Seq(UnitsIn(sent)) /\ Place[1] \in Nat /\ Place[2] \in Nat /\ L \in Nat
        /\ Place \in UnitsIn(sent) /\ Place \in Nat \X Nat /\ Stream \in Seq(UnitsIn(sent))
    BY <1>1, <1>3, PlaceType
  <1>5. Place[2] + k <= L + 1 /\ (Place[2] + k = L + 1 <=> k = state.n)
    <2>1. k \in Nat /\ state.n \in Nat /\ k <= state.n
      BY <1>2
    <2>2. Place[2] \in Nat /\ L \in Nat /\ state.n + Place[2] = L + 1
      BY <1>3, <1>4
    <2> HIDE DEF L
    <2> QED
      BY <2>1, <2>2, UnitsLeft
  <1>6. /\ F \in Seq(UnitsIn(sent)) /\ Run(F, Place, k) /\ Streams(sent', Stream')
        /\ Place[2] + k = L + 1 => Place' = <<Place[1] + 1, 0>>
        /\ Place[2] + k # L + 1 => Stream' # << >> /\ Place' = <<Place[1], Place[2] + k>>
        /\ \A v \in Nat \X Nat : Before(v, Place) => Before(v, Place')
        /\ \A j \in 1..k : Before(F[j], Place')
    BY <1>1, <1>2, <1>3, <1>5, TakeUnits
  <1>7. state'.in = "Pass" /\ state'.n = state.n - k
    BY DEF At
  <1>8. PlaceOK'
    <2>1. CASE k = state.n
      <3>1. Place' = <<Place[1] + 1, 0>> /\ state'.n = 0
        BY <2>1, <1>2, <1>5, <1>6, <1>7
      <3> QED
        BY <3>1, <1>6, <1>7 DEF PlaceOK
    <2>2. CASE k # state.n
      <3>1. Place' = <<Place[1], Place[2] + k>> /\ Stream' # << >> /\ state'.n > 0
        BY <2>2, <1>2, <1>5, <1>6, <1>7
      <3>2. state'.n + Place'[2] = sent'[Place'[1]].len + 1
        BY <3>1, <1>7, <1>3, <1>2, <1>4
      <3> QED
        BY <3>1, <3>2, <1>6, <1>7 DEF PlaceOK
    <2> QED
      BY <2>1, <2>2
  <1>9. FramesOK'
    <2>1. InFrames(sent, Given) /\ InFrames(sent, hold) /\ Fits(sent, Given, Place) /\ EndsWhole(sent, hold)
      BY <1>1, <1>2 DEF FramesOK, Passing
    <2>2. /\ InFrames(sent, Given') /\ (EndsWhole(sent, Given') <=> Place[2] + k = L + 1)
          /\ Place[2] + k # L + 1 => Fits(sent, Given', <<Place[1], Place[2] + k>>)
      BY <2>1, <1>1, <1>2, <1>4, <1>5, <1>6, FramesGrow DEF GuardTypes
    <2>3. Passing' <=> k # state.n
      BY <1>2, <1>7 DEF Passing
    <2> QED
      BY <2>1, <2>2, <2>3, <1>5, <1>6, <1>7 DEF FramesOK
  <1>10. OrderOK'
    <2>1. Sorted(sent, F) /\ (\A j \in 1..Len(F) : F[j][1] = Place[1]) /\ Len(F) = k
          /\ \A v \in Nat \X Nat : Before(v, Place) => \A j \in 1..Len(F) : Before(v, F[j])
      BY <1>2, <1>4, <1>6, RunSorted DEF Run
    <2>2. \A j \in 1..Len(Given) : Given[j] \in Nat \X Nat /\ Before(Given[j], Place)
      BY <1>1, <1>4 DEF OrderOK, UnitsIn
    <2>3. \A j \in 1..Len(hold) : hold[j] \in Nat \X Nat /\ Before(hold[j], Place) /\ Data(sent, hold[j][1])
      BY <1>1 DEF OrderOK, UnitsIn, GuardTypes
    <2>4. Sorted(sent, Given) /\ Sorted(sent, hold)
      BY <1>1 DEF OrderOK
    <2>5. Sorted(sent, Given')
      BY <2>1, <2>2, <2>4, <1>4, <1>6, SortedJoin
    <2>6. /\ Len(Given') = Len(Given) + Len(F) /\ Len(Given) \in Nat
          /\ \A j \in 1..Len(Given') :
                \/ j \in 1..Len(Given) /\ Given'[j] = Given[j]
                \/ j - Len(Given) \in 1..Len(F) /\ Given'[j] = F[j - Len(Given)]
      BY <1>4, <1>6, Joined
    <2>7. ASSUME NEW j \in 1..Len(Given') PROVE Before(Given'[j], Place')
      BY <2>1, <2>2, <2>6, <1>6
    <2>8. \A j \in 1..Len(hold) : Before(hold[j], Place')
      BY <2>3, <1>6
    <2>9. Data(sent, Place[1]) => hold = << >>
      BY <1>1 DEF OrderOK
    <2>10. ASSUME NEW j \in 1..Len(Given'), NEW i \in 1..Len(hold), Data(sent, Given'[j][1])
           PROVE  Before(Given'[j], hold[i])
      <3>1. CASE j \in 1..Len(Given) /\ Given'[j] = Given[j]
        BY <3>1, <2>10, <1>1 DEF OrderOK
      <3>2. CASE j - Len(Given) \in 1..Len(F) /\ Given'[j] = F[j - Len(Given)]
        <4>1. Data(sent, Place[1])
          BY <3>2, <2>1, <2>10
        <4> QED
          BY <4>1, <2>9, <2>10
      <3> QED
        BY <3>1, <3>2, <2>6
    <2>11. Passing' => Place'[1] = Place[1]
      BY <1>2, <1>5, <1>6, <1>7 DEF Passing
    <2>12. msg.m # "Holding" => hold = << >>
      BY <1>1 DEF OrderOK
    <2>13. Data(sent, Place[1]) => msg.m # "Holding"
      BY <1>1 DEF OrderOK
    <2> QED
      BY <2>3, <2>4, <2>5, <2>7, <2>8, <2>10, <2>11, <2>12, <2>13, <1>7 DEF OrderOK
  <1> QED
    BY <1>8, <1>9, <1>10

\* Units of the frame at Place are dropped, and perhaps what is held with
\* them (Skip, and decide's ways to it).
LEMMA SkipStep ==
    ASSUME FramingInv, ~Passing, state.in # "Hold", Stream # << >>, NEW k \in Nat \ {0},
           Place[2] + k <= sent[Place[1]].len + 1, sent' = sent,
           Stream' = Rest(Stream, k), Given' = Given,
           state' = At("Skip", sent[Place[1]].len + 1 - (Place[2] + k)),
           hold' = << >> \/ (hold' = hold /\ msg' = msg)
    PROVE  PlaceOK' /\ FramesOK' /\ OrderOK'
  <1> DEFINE L == sent[Place[1]].len
  <1>1. GuardTypes /\ PlaceOK /\ FramesOK /\ OrderOK
    BY DEF FramingInv
  <1>2. /\ Given \in Seq(UnitsIn(sent)) /\ Place[1] \in Nat /\ Place[2] \in Nat /\ L \in Nat
    BY <1>1, PlaceType
  <1>3. /\ Streams(sent', Stream')
        /\ Place[2] + k = L + 1 => Place' = <<Place[1] + 1, 0>>
        /\ Place[2] + k # L + 1 => Stream' # << >> /\ Place' = <<Place[1], Place[2] + k>>
        /\ \A v \in Nat \X Nat : Before(v, Place) => Before(v, Place')
    BY <1>1, TakeUnits DEF PlaceOK
  <1>4. state'.in = "Skip" /\ state'.n = L + 1 - (Place[2] + k)
    BY DEF At
  <1>5. (state'.n = 0 <=> Place[2] + k = L + 1) /\ state'.n + (Place[2] + k) = L + 1 /\ Place[2] + k > 0
    <2> HIDE DEF L
    <2> QED
      BY <1>2, <1>4, SMTT(30)
  <1>6. PlaceOK'
    <2>1. CASE Place[2] + k = L + 1
      BY <2>1, <1>3, <1>4, <1>5 DEF PlaceOK
    <2>2. CASE Place[2] + k # L + 1
      <3>1. Place' = <<Place[1], Place[2] + k>> /\ Stream' # << >> /\ state'.n # 0
        BY <2>2, <1>3, <1>5
      <3>2. state'.n + Place'[2] = sent'[Place'[1]].len + 1 /\ Place'[2] > 0
        BY <3>1, <1>5
      <3> QED
        BY <3>1, <3>2, <1>3, <1>4 DEF PlaceOK
    <2> QED
      BY <2>1, <2>2
  <1>7. FramesOK'
    <2>1. InFrames(sent, Given) /\ InFrames(sent, hold) /\ EndsWhole(sent, Given) /\ EndsWhole(sent, hold)
      BY <1>1 DEF FramesOK
    <2>2. InFrames(sent, hold') /\ EndsWhole(sent, hold')
      BY <2>1 DEF InFrames, EndsWhole
    <2> QED
      BY <2>1, <2>2, <1>4 DEF FramesOK, Passing
  <1>8. OrderOK'
    <2>1. \A j \in 1..Len(Given) : Given[j] \in Nat \X Nat /\ Before(Given[j], Place)
      BY <1>1, <1>2 DEF OrderOK, UnitsIn
    <2>2. \A j \in 1..Len(hold) : hold[j] \in Nat \X Nat /\ Before(hold[j], Place)
      BY <1>1 DEF OrderOK, UnitsIn, GuardTypes
    <2>3. (\A j \in 1..Len(Given) : Before(Given[j], Place')) /\ \A j \in 1..Len(hold) : Before(hold[j], Place')
      BY <2>1, <2>2, <1>3
    <2>4. CASE hold' = << >>
      <3>1. Sorted(sent, hold')
        BY <2>4 DEF Sorted
      <3> QED
        BY <1>1, <1>4, <2>3, <2>4, <3>1 DEF OrderOK, Passing
    <2>5. CASE hold' = hold /\ msg' = msg
      BY <1>1, <1>4, <2>3, <2>5 DEF OrderOK, Passing
    <2> QED
      BY <2>4, <2>5
  <1> QED
    BY <1>6, <1>7, <1>8

\* A frame is to be handed on as it comes, after what is held if that is
\* released (decide's ways to Pass).
LEMMA PassDecided ==
    ASSUME FramingInv, state.in = "Header", Stream # << >>,
           sent' = sent, Stream' = Stream, state' = At("Pass", sent[Place[1]].len + 1),
           \/ /\ hold' = hold /\ Given' = Given
              /\ Data(sent, Place[1]) => hold = << >>
           \/ hold' = << >> /\ Given' = Given \o hold,
           msg'.m # "Holding" => hold' = << >>,
           Data(sent, Place[1]) => msg'.m # "Holding"
    PROVE  PlaceOK' /\ FramesOK' /\ OrderOK'
  <1>1. GuardTypes /\ PlaceOK /\ FramesOK /\ OrderOK
    BY DEF FramingInv
  <1>2. /\ Given \in Seq(UnitsIn(sent)) /\ Place[1] \in Nat /\ Place[2] \in Nat
        /\ sent[Place[1]].len \in Nat /\ sent \in Seq(Frames) /\ hold \in Seq(UnitsIn(sent))
    BY <1>1, PlaceType DEF GuardTypes
  <1>3. Place[2] = 0
    BY <1>1 DEF PlaceOK
  <1>4. Place' = Place /\ state'.in = "Pass" /\ state'.n = sent[Place[1]].len + 1
    BY DEF Place, At
  <1>5. state'.n > 0
    BY <1>2, <1>4
  <1>6. PlaceOK'
    BY <1>1, <1>2, <1>3, <1>4, <1>5, SMTT(30) DEF PlaceOK
  <1>7. InFrames(sent, Given) /\ InFrames(sent, hold) /\ EndsWhole(sent, Given) /\ EndsWhole(sent, hold)
    BY <1>1 DEF FramesOK, Passing
  <1>8. FramesOK'
    <2>1. InFrames(sent, << >>) /\ EndsWhole(sent, << >>)
      BY DEF InFrames, EndsWhole
    <2>2. InFrames(sent, hold') /\ EndsWhole(sent, hold')
      BY <2>1, <1>7
    <2>3. InFrames(sent, Given \o hold) /\ EndsWhole(sent, Given \o hold)
      BY <1>2, <1>7, FramesJoin
    <2>4. InFrames(sent, Given') /\ EndsWhole(sent, Given')
      BY <2>3, <1>7
    <2>5. Fits(sent, Given', Place)
      BY <2>4, <1>3 DEF Fits
    <2> QED
      BY <2>2, <2>4, <2>5, <1>4, <1>5 DEF FramesOK, Passing
  <1>9. OrderOK'
    <2>1. /\ Sorted(sent, Given) /\ Sorted(sent, hold)
          /\ \A k \in 1..Len(Given) : Before(Given[k], Place)
          /\ \A k \in 1..Len(hold) : Before(hold[k], Place) /\ Data(sent, hold[k][1])
          /\ \A j \in 1..Len(Given), k \in 1..Len(hold) :
                Data(sent, Given[j][1]) => Before(Given[j], hold[k])
      BY <1>1 DEF OrderOK
    <2>2. CASE hold' = hold /\ Given' = Given /\ (Data(sent, Place[1]) => hold = << >>)
      BY <2>1, <2>2, <1>4 DEF OrderOK, Passing
    <2>3. CASE hold' = << >> /\ Given' = Given \o hold
      <3>1. Sorted(sent, Given')
        BY <2>1, <2>3, <1>2, SortedJoin
      <3>2. /\ Len(Given') = Len(Given) + Len(hold) /\ Len(Given) \in Nat
            /\ \A j \in 1..Len(Given') :
                  \/ j \in 1..Len(Given) /\ Given'[j] = Given[j]
                  \/ j - Len(Given) \in 1..Len(hold) /\ Given'[j] = hold[j - Len(Given)]
        BY <2>3, <1>2, Joined
      <3>3. \A k \in 1..Len(Given') : Before(Given'[k], Place')
        BY <3>2, <2>1, <1>4
      <3>4. Sorted(sent, hold')
        BY <2>3 DEF Sorted
      <3> QED
        BY <3>1, <3>3, <3>4, <2>3, <1>4 DEF OrderOK, Passing
    <2> QED
      BY <2>2, <2>3
  <1> QED
    BY <1>6, <1>8, <1>9

\* Units of the frame at Place are held, and what is held is released with
\* its last (hold_frame, end_hold and poll_read's Hold).
LEMMA HoldStep ==
    ASSUME FramingInv, ~Passing, Fits(sent, hold, Place), Data(sent, Place[1]),
           Stream # << >>, NEW k \in Nat \ {0},
           Place[2] + k <= sent[Place[1]].len + 1, sent' = sent, Stream' = Rest(Stream, k),
           \/ /\ Place[2] + k # sent[Place[1]].len + 1
              /\ state' = At("Hold", sent[Place[1]].len + 1 - (Place[2] + k))
              /\ hold' = hold \o Front(Stream, k) /\ msg'.m = "Holding" /\ Given' = Given
           \/ /\ Place[2] + k = sent[Place[1]].len + 1 /\ state' = AtHeader
              /\ hold' = hold \o Front(Stream, k) /\ msg'.m = "Holding" /\ Given' = Given
           \/ /\ Place[2] + k = sent[Place[1]].len + 1 /\ state' = AtHeader
              /\ hold' = << >> /\ Given' = Given \o (hold \o Front(Stream, k))
    PROVE  PlaceOK' /\ FramesOK' /\ OrderOK'
  <1> DEFINE F == Front(Stream, k)  L == sent[Place[1]].len  K == hold \o F
  <1>1. GuardTypes /\ PlaceOK /\ FramesOK /\ OrderOK
    BY DEF FramingInv
  <1>2. /\ Given \in Seq(UnitsIn(sent)) /\ Place[1] \in Nat /\ Place[2] \in Nat /\ L \in Nat
        /\ Place \in UnitsIn(sent) /\ Place \in Nat \X Nat
        /\ sent \in Seq(Frames) /\ hold \in Seq(UnitsIn(sent))
    BY <1>1, PlaceType DEF GuardTypes
  <1>3. /\ F \in Seq(UnitsIn(sent)) /\ Run(F, Place, k) /\ Streams(sent', Stream')
        /\ Place[2] + k = L + 1 => Place' = <<Place[1] + 1, 0>>
        /\ Place[2] + k # L + 1 => Stream' # << >> /\ Place' = <<Place[1], Place[2] + k>>
        /\ \A v \in Nat \X Nat : Before(v, Place) => Before(v, Place')
        /\ \A j \in 1..k : Before(F[j], Place')
    BY <1>1, TakeUnits DEF PlaceOK
  <1>4. /\ Place[2] + k # L + 1 => state'.in = "Hold" /\ state'.n = L + 1 - (Place[2] + k)
        /\ Place[2] + k = L + 1 => state'.in = "Header" /\ state'.n = 0
    BY DEF At, AtHeader
  <1>5. PlaceOK'
    <2>1. CASE Place[2] + k = L + 1
      BY <2>1, <1>3, <1>4 DEF PlaceOK
    <2>2. CASE Place[2] + k # L + 1
      <3>1. Place' = <<Place[1], Place[2] + k>> /\ Stream' # << >> /\ state'.in = "Hold"
        BY <2>2, <1>3, <1>4
      <3>2. state'.n > 0 /\ state'.n + (Place[2] + k) = L + 1 /\ Place[2] + k > 0
        <4>1. state'.n = L + 1 - (Place[2] + k) /\ Place[2] + k <= L + 1
          BY <2>2, <1>4
        <4> HIDE DEF L
        <4> QED
          BY <4>1, <2>2, <1>2
      <3>3. state'.n + Place'[2] = sent'[Place'[1]].len + 1 /\ Place'[2] > 0
        BY <3>1, <3>2
      <3> QED
        BY <3>1, <3>2, <3>3, <1>3 DEF PlaceOK
    <2> QED
      BY <2>1, <2>2
  <1>6. /\ InFrames(sent, K) /\ (EndsWhole(sent, K) <=> Place[2] + k = L + 1)
        /\ Place[2] + k # L + 1 => Fits(sent, K, <<Place[1], Place[2] + k>>)
    <2>1. InFrames(sent, hold)
      BY <1>1 DEF FramesOK
    <2> QED
      BY <2>1, <1>2, <1>3, FramesGrow
  <1>7. K \in Seq(UnitsIn(sent)) /\ Len(K) = Len(hold) + k /\ Len(hold) \in Nat /\ Len(F) = k
        /\ \A j \in 1..Len(K) :
              \/ j \in 1..Len(hold) /\ K[j] = hold[j]
              \/ j - Len(hold) \in 1..Len(F) /\ K[j] = F[j - Len(hold)]
    <2>1. Len(F) = k
      BY <1>3 DEF Run
    <2>2. /\ K \in Seq(UnitsIn(sent)) /\ Len(K) = Len(hold) + Len(F)
          /\ \A j \in 1..Len(K) :
                \/ j \in 1..Len(hold) /\ K[j] = hold[j]
                \/ j > Len(hold) /\ j - Len(hold) \in 1..Len(F) /\ K[j] = F[j - Len(hold)]
      <3>1. hold \in Seq(UnitsIn(sent)) /\ F \in Seq(UnitsIn(sent))
        BY <1>2, <1>3
      <3> HIDE DEF F
      <3> QED
        BY <3>1, Joined
    <2>3. Len(hold) \in Nat
      BY <1>2
    <2> HIDE DEF K, F
    <2> QED
      BY <2>1, <2>2, <2>3
  <1>8. /\ Sorted(sent, F) /\ (\A j \in 1..Len(F) : F[j][1] = Place[1])
        /\ \A v \in Nat \X Nat : Before(v, Place) => \A j \in 1..Len(F) : Before(v, F[j])
    BY <1>2, <1>3, RunSorted
  <1>9. \A j \in 1..Len(Given) : Given[j] \in Nat \X Nat /\ Before(Given[j], Place) /\ Before(Given[j], Place')
    <2>1. \A j \in 1..Len(Given) : Given[j] \in Nat \X Nat /\ Before(Given[j], Place)
      BY <1>1, <1>2 DEF OrderOK, UnitsIn
    <2> QED
      BY <2>1, <1>3
  <1>10. \A j \in 1..Len(hold) : /\ hold[j] \in Nat \X Nat /\ Before(hold[j], Place)
                                 /\ Before(hold[j], Place') /\ Data(sent, hold[j][1])
    <2>1. \A j \in 1..Len(hold) : hold[j] \in Nat \X Nat /\ Before(hold[j], Place) /\ Data(sent, hold[j][1])
      BY <1>1, <1>2 DEF OrderOK, UnitsIn
    <2> QED
      BY <2>1, <1>3
  <1>11. Sorted(sent, K)
    <2>1. Sorted(sent, hold)
      BY <1>1 DEF OrderOK
    <2> QED
      BY <2>1, <1>2, <1>3, <1>8, <1>10, SortedJoin
  <1>12. \A j \in 1..Len(K) : Before(K[j], Place') /\ Data(sent, K[j][1])
    BY <1>3, <1>7, <1>8, <1>10
  <1>13. \A j \in 1..Len(Given), i \in 1..Len(K) : Data(sent, Given[j][1]) => Before(Given[j], K[i])
    <2>1. \A j \in 1..Len(Given), i \in 1..Len(hold) : Data(sent, Given[j][1]) => Before(Given[j], hold[i])
      BY <1>1 DEF OrderOK
    <2> QED
      BY <2>1, <1>7, <1>8, <1>9
  <1>14. InFrames(sent, Given) /\ EndsWhole(sent, Given) /\ Sorted(sent, Given)
    BY <1>1 DEF FramesOK, OrderOK
  <1>15. CASE hold' = K /\ msg'.m = "Holding" /\ Given' = Given
    <2>1. FramesOK'
      BY <1>3, <1>4, <1>6, <1>14, <1>15 DEF FramesOK, Passing
    <2>2. Place[2] + k # L + 1 => Place'[1] = Place[1]
      BY <1>3
    <2>3. OrderOK'
      BY <1>4, <1>9, <1>11, <1>12, <1>13, <1>14, <1>15, <2>2 DEF OrderOK, Passing
    <2> QED
      BY <1>5, <2>1, <2>3
  <1>16. CASE Place[2] + k = L + 1 /\ hold' = << >> /\ Given' = Given \o K
    <2> HIDE DEF K
    <2>1. InFrames(sent, Given') /\ EndsWhole(sent, Given')
      BY <1>2, <1>6, <1>7, <1>14, <1>16, FramesJoin
    <2>2. InFrames(sent, << >>) /\ EndsWhole(sent, << >>) /\ Sorted(sent, << >>)
      BY DEF InFrames, EndsWhole, Sorted
    <2>3. Sorted(sent, Given')
      BY <1>2, <1>7, <1>11, <1>12, <1>13, <1>14, <1>16, SortedJoin
    <2>4. /\ Len(Given') = Len(Given) + Len(K) /\ Len(Given) \in Nat
          /\ \A j \in 1..Len(Given') :
                \/ j \in 1..Len(Given) /\ Given'[j] = Given[j]
                \/ j - Len(Given) \in 1..Len(K) /\ Given'[j] = K[j - Len(Given)]
      <3>1. Given \in Seq(UnitsIn(sent)) /\ K \in Seq(UnitsIn(sent)) /\ Given' = Given \o K
        BY <1>2, <1>7, <1>16
      <3> QED
        BY <3>1, Joined
    <2>5. \A j \in 1..Len(Given') : Before(Given'[j], Place')
      BY <2>4, <1>9, <1>12
    <2>6. FramesOK'
      BY <2>1, <2>2, <1>4, <1>16 DEF FramesOK, Passing
    <2>7. OrderOK'
      BY <2>2, <2>3, <2>5, <1>4, <1>16 DEF OrderOK, Passing
    <2> QED
      BY <1>5, <2>6, <2>7
  <1> QED
    BY <1>15, <1>16

\* One more frame sent leaves what is known of the units of the others.
LEMMA OneMoreFrame ==
    ASSUME NEW fs \in Seq(Frames), NEW f \in Frames, NEW q \in Seq(UnitsIn(fs))
    PROVE  /\ q \in Seq(UnitsIn(Append(fs, f)))
           /\ InFrames(fs, q) => InFrames(Append(fs, f), q)
           /\ EndsWhole(fs, q) => EndsWhole(Append(fs, f), q)
           /\ \A u : Fits(fs, q, u) => Fits(Append(fs, f), q, u)
           /\ Sorted(fs, q) => Sorted(Append(fs, f), q)
           /\ \A k \in 1..Len(q) : /\ Data(Append(fs, f), q[k][1]) <=> Data(fs, q[k][1])
                                   /\ IsLast(Append(fs, f), q[k]) <=> IsLast(fs, q[k])
  <1> DEFINE gs == Append(fs, f)
  <1>1. gs \in Seq(Frames) /\ Len(gs) = Len(fs) + 1 /\ \A i \in 1..Len(fs) : gs[i] = fs[i]
    OBVIOUS
  <1>2. DOMAIN fs = 1..Len(fs) /\ DOMAIN gs = 1..(Len(fs) + 1) /\ Len(fs) \in Nat
    BY <1>1
  <1> HIDE DEF gs
  <1>3. UnitsIn(fs) \subseteq UnitsIn(gs)
    BY <1>1, <1>2 DEF UnitsIn
  <1>4. q \in Seq(UnitsIn(gs))
    <2>1. \A k \in 1..Len(q) : q[k] \in UnitsIn(gs)
      BY <1>3
    <2> QED
      BY <2>1
  <1>5. ASSUME NEW k \in 1..Len(q)
        PROVE  /\ gs[q[k][1]] = fs[q[k][1]]
               /\ Data(gs, q[k][1]) <=> Data(fs, q[k][1])
               /\ IsLast(gs, q[k]) <=> IsLast(fs, q[k])
    <2>1. q[k] \in UnitsIn(fs)
      OBVIOUS
    <2>2. q[k][1] \in 1..Len(fs)
      BY <2>1, <1>2 DEF UnitsIn
    <2>3. gs[q[k][1]] = fs[q[k][1]]
      BY <2>2, <1>1
    <2> QED
      BY <2>3 DEF Data, IsLast
  <1>6. EndsWhole(gs, q) <=> EndsWhole(fs, q)
    <2>1. CASE q = << >>
      BY <2>1 DEF EndsWhole
    <2>2. CASE q # << >>
      <3>1. Len(q) \in 1..Len(q)
        BY <2>2
      <3> QED
        BY <3>1, <1>5 DEF EndsWhole
    <2> QED
      BY <2>1, <2>2
  <1>7. InFrames(fs, q) => InFrames(gs, q)
    <2>1. \A k \in 1..Len(q) : k # 1 => k - 1 \in 1..Len(q)
      OBVIOUS
    <2> QED
      BY <2>1, <1>5 DEF InFrames
  <1>8. Sorted(fs, q) => Sorted(gs, q)
    BY <1>5 DEF Sorted
  <1>9. \A u : Fits(fs, q, u) => Fits(gs, q, u)
    BY <1>6 DEF Fits
  <1> QED
    BY <1>4, <1>5, <1>6, <1>7, <1>8, <1>9 DEF gs

\* The stream goes on with the frame sent.
LEMMA StreamGrows ==
    ASSUME NEW fs \in Seq(Frames), NEW f \in Frames, NEW s \in Seq(UnitsIn(fs)), Streams(fs, s)
    PROVE  /\ Units(Len(fs) + 1, f) \in Seq(UnitsIn(Append(fs, f)))
           /\ Units(Len(fs) + 1, f) # << >>
           /\ Units(Len(fs) + 1, f)[1] = <<Len(fs) + 1, 0>>
           /\ Streams(Append(fs, f), s \o Units(Len(fs) + 1, f))
  <1> DEFINE gs == Append(fs, f)  n == Len(fs) + 1  U == Units(n, f)
  <1>1. gs \in Seq(Frames) /\ Len(gs) = n /\ gs[n] = f /\ n \in Nat /\ n \in DOMAIN gs /\ f.len \in Nat
    <2>1. gs \in Seq(Frames) /\ Len(gs) = n /\ gs[n] = f /\ n \in Nat /\ n \in DOMAIN gs
      OBVIOUS
    <2> QED
      BY <2>1, FramesType
  <1>2. Len(U) = f.len + 1 /\ \A j \in 1..(f.len + 1) : U[j] = <<n, j - 1>>
    <2> HIDE DEF n, gs
    <2> QED
      BY <1>1 DEF Units
  <1>3. U \in Seq(UnitsIn(gs))
    <2> HIDE DEF gs, n
    <2>1. \A j \in 1..(f.len + 1) : <<n, j - 1>> \in UnitsIn(gs)
      BY <1>1 DEF UnitsIn
    <2>2. U \in [1..(f.len + 1) -> UnitsIn(gs)]
      BY <2>1 DEF Units
    <2> QED
      <3>1. f.len + 1 \in Nat
        BY <1>1
      <3> HIDE DEF U
      <3> QED
        BY <2>2, <3>1, SeqDef
  <1> DEFINE w == s \o U
  <1>4. s \in Seq(UnitsIn(gs)) /\ \A k \in 1..Len(s) : IsLast(gs, s[k]) <=> IsLast(fs, s[k])
    BY OneMoreFrame
  <1>5. /\ w \in Seq(UnitsIn(gs)) /\ Len(w) = Len(s) + (f.len + 1) /\ Len(s) \in Nat
        /\ \A j \in 1..Len(s) : w[j] = s[j]
        /\ \A j \in 1..(f.len + 1) : w[Len(s) + j] = <<n, j - 1>>
    <2>1. s \in Seq(UnitsIn(gs)) /\ U \in Seq(UnitsIn(gs)) /\ Len(s) \in Nat
      BY <1>3, <1>4
    <2> HIDE DEF U, n, gs
    <2>2. /\ s \o U \in Seq(UnitsIn(gs)) /\ Len(s \o U) = Len(s) + Len(U)
          /\ \A j \in 1..Len(s) : (s \o U)[j] = s[j]
          /\ \A j \in 1..Len(U) : (s \o U)[Len(s) + j] = U[j]
      BY <2>1, Joined
    <2> HIDE DEF w
    <2>3. w = s \o U
      BY DEF w
    <2> QED
      BY <2>1, <2>2, <2>3, <1>2
  <1>6. Len(fs) \in DOMAIN fs \/ Len(s) = 0
    <2>1. CASE Len(s) # 0
      <3>1. s[1] \in UnitsIn(fs)
        BY <2>1
      <3> QED
        BY <3>1 DEF UnitsIn
    <2> QED
      BY <2>1
  <1> HIDE DEF gs, U, w
  <1>7. ASSUME NEW k \in 1..Len(w)
        PROVE  IF k = Len(w) THEN w[k] = <<Len(gs), gs[Len(gs)].len>>
               ELSE w[k + 1] = IF IsLast(gs, w[k]) THEN <<w[k][1] + 1, 0>>
                               ELSE <<w[k][1], w[k][2] + 1>>
    <2>1. CASE k < Len(s)
      <3>1. k \in 1..Len(s) /\ k + 1 \in 1..Len(s) /\ k # Len(w) /\ k # Len(s)
        BY <2>1, <1>1, <1>5
      <3>2. w[k] = s[k] /\ w[k + 1] = s[k + 1]
        BY <3>1, <1>5
      <3>3. s[k + 1] = IF IsLast(fs, s[k]) THEN <<s[k][1] + 1, 0>> ELSE <<s[k][1], s[k][2] + 1>>
        BY <3>1 DEF Streams
      <3> QED
        BY <3>1, <3>2, <3>3, <1>4
    <2>2. CASE k = Len(s)
      <3>1. k \in 1..Len(s) /\ k # Len(w) /\ Len(s) # 0
        BY <2>2, <1>1, <1>5
      <3>2. w[k] = s[k] /\ w[k + 1] = <<n, 0>>
        <4>1. 1 \in 1..(f.len + 1) /\ 1 - 1 = 0
          BY <1>1
        <4> QED
          BY <4>1, <3>1, <2>2, <1>5
      <3>3. s[k] = <<Len(fs), fs[Len(fs)].len>>
        BY <3>1, <2>2 DEF Streams
      <3>4. s[k][1] = Len(fs) /\ IsLast(fs, s[k])
        BY <3>3 DEF IsLast
      <3> QED
        BY <3>1, <3>2, <3>4, <1>4
    <2>3. CASE k > Len(s)
      <3> DEFINE j == k - Len(s)
      <3>1. j \in 1..(f.len + 1) /\ k = Len(s) + j /\ (k = Len(w) <=> j = f.len + 1)
        <4>1. k \in Nat /\ k <= Len(s) + (f.len + 1) /\ Len(s) \in Nat /\ f.len \in Nat
              /\ Len(w) = Len(s) + (f.len + 1)
          BY <1>1, <1>5
        <4> QED
          BY <4>1, <2>3
      <3> HIDE DEF j
      <3>2. w[k] = <<n, j - 1>>
        BY <3>1, <1>5
      <3>3. IsLast(gs, w[k]) <=> j = f.len + 1
        <4>1. w[k][1] = n /\ w[k][2] = j - 1
          BY <3>2
        <4>2. j \in Nat /\ f.len \in Nat
          BY <3>1, <1>1
        <4> QED
          BY <4>1, <4>2, <1>1 DEF IsLast
      <3>4. CASE k = Len(w)
        <4>1. j - 1 = f.len
          BY <3>4, <3>1, <1>1
        <4> QED
          BY <4>1, <3>4, <3>2, <1>1
      <3>5. CASE k # Len(w)
        <4>1. j + 1 \in 1..(f.len + 1) /\ k + 1 = Len(s) + (j + 1) /\ (j + 1) - 1 = (j - 1) + 1
          BY <3>5, <3>1, <1>1, <1>5, SMTT(30)
        <4>2. w[k + 1] = <<n, (j + 1) - 1>>
          BY <4>1, <1>5
        <4>3. w[k + 1] = <<n, (j - 1) + 1>>
          BY <4>1, <4>2
        <4>4. w[k][1] = n /\ w[k][2] = j - 1
          BY <3>2
        <4> QED
          BY <4>3, <4>4, <3>5, <3>3, <3>1
      <3> QED
        BY <3>4, <3>5
    <2> QED
      BY <2>1, <2>2, <2>3, <1>5
  <1>8. Streams(gs, w)
    BY <1>7 DEF Streams
  <1>9. U # << >> /\ U[1] = <<n, 0>>
    <2>1. 1 \in 1..(f.len + 1) /\ 1 - 1 = 0 /\ f.len + 1 # 0
      BY <1>1
    <2> QED
      BY <2>1, <1>2
  <1> QED
    BY <1>3, <1>8, <1>9 DEF gs, U, w

(***************************************************************************)
(* What each action does to the stream and to what is given: it begins to  *)
(* pass a frame, or takes k units of one and passes, holds or skips them.  *)
(***************************************************************************)
PassBegins ==
    /\ state.in = "Header" /\ Stream # << >>
    /\ sent' = sent /\ Stream' = Stream /\ state' = At("Pass", sent[Place[1]].len + 1)
    /\ \/ /\ hold' = hold /\ Given' = Given
          /\ Data(sent, Place[1]) => hold = << >>
       \/ hold' = << >> /\ Given' = Given \o hold
    /\ msg'.m # "Holding" => hold' = << >>
    /\ Data(sent, Place[1]) => msg'.m # "Holding"

UnitsTaken(k) ==
    /\ Stream # << >> /\ k \in Nat \ {0} /\ Place[2] + k <= sent[Place[1]].len + 1
    /\ sent' = sent /\ Stream' = Rest(Stream, k)

UnitsPass(k) ==
    /\ Passing /\ k \in 1..state.n /\ sent' = sent /\ Stream' = Rest(Stream, k)
    /\ Given' = Given \o Front(Stream, k) /\ state' = At("Pass", state.n - k)
    /\ hold' = hold /\ msg' = msg

UnitsSkip(k) ==
    /\ UnitsTaken(k) /\ ~Passing /\ state.in # "Hold" /\ Given' = Given
    /\ state' = At("Skip", sent[Place[1]].len + 1 - (Place[2] + k))
    /\ hold' = << >> \/ (hold' = hold /\ msg' = msg)

UnitsHold(k) ==
    /\ UnitsTaken(k) /\ ~Passing /\ Fits(sent, hold, Place) /\ Data(sent, Place[1])
    /\ \/ /\ Place[2] + k # sent[Place[1]].len + 1
          /\ state' = At("Hold", sent[Place[1]].len + 1 - (Place[2] + k))
          /\ hold' = hold \o Front(Stream, k) /\ msg'.m = "Holding" /\ Given' = Given
       \/ /\ Place[2] + k = sent[Place[1]].len + 1 /\ state' = AtHeader
          /\ hold' = hold \o Front(Stream, k) /\ msg'.m = "Holding" /\ Given' = Given
       \/ /\ Place[2] + k = sent[Place[1]].len + 1 /\ state' = AtHeader
          /\ hold' = << >> /\ Given' = Given \o (hold \o Front(Stream, k))

\* The header at the front of buf is the unit at Place.
LEMMA HeaderAtPlace ==
    ASSUME GuardTypes, buf # << >>
    PROVE  /\ Stream # << >> /\ Place = Head(buf) /\ Header = sent[Place[1]]
           /\ Tail(buf) \in Seq(UnitsIn(sent))
           /\ Tail(buf) \o wire = Rest(Stream, 1)
           /\ Head(buf) \in UnitsIn(sent) /\ Front(Stream, 1) = <<Head(buf)>>
           /\ Header.len \in Nat /\ Header.fin \in BOOLEAN /\ Header \in Frames
           /\ Place[1] \in DOMAIN sent
  <1>1. buf \in Seq(UnitsIn(sent)) /\ wire \in Seq(UnitsIn(sent)) /\ sent \in Seq(Frames)
    BY DEF GuardTypes
  <1>2. Len(buf) \in Nat \ {0} /\ Head(buf) = buf[1] /\ buf[1] \in UnitsIn(sent)
    BY <1>1
  <1>0. 1 \in 0..Len(buf)
    BY <1>2
  <1>3. /\ Stream \in Seq(UnitsIn(sent)) /\ Len(Stream) = Len(buf) + Len(wire) /\ Len(wire) \in Nat
        /\ \A j \in 1..Len(buf) : Stream[j] = buf[j]
    BY <1>1, Joined DEF Stream
  <1>4. Stream # << >> /\ Place = Head(buf) /\ Header = sent[Place[1]]
    <2>1. Len(Stream) # 0 /\ Stream[1] = buf[1]
      BY <1>2, <1>3
    <2>2. Stream # << >>
      BY <2>1
    <2> QED
      BY <2>1, <2>2, <1>2 DEF Place, Header
  <1>5. Tail(buf) \in Seq(UnitsIn(sent)) /\ Len(Tail(buf)) = Len(buf) - 1
        /\ \A j \in 1..(Len(buf) - 1) : Tail(buf)[j] = buf[j + 1]
    BY <1>1, <1>2
  <1>6. Tail(buf) = Rest(buf, 1)
    <2>1. Rest(buf, 1) \in Seq(UnitsIn(sent)) /\ Len(Rest(buf, 1)) = Len(buf) - 1
          /\ \A j \in 1..(Len(buf) - 1) : Rest(buf, 1)[j] = buf[1 + j]
      BY <1>0, <1>1, FrontRest
    <2> QED
      BY <2>1, <1>5, SeqEqual
  <1>7. Tail(buf) \o wire = Rest(Stream, 1)
    BY <1>0, <1>1, <1>6, RestJoined DEF Stream
  <1>8. Front(Stream, 1) = <<Head(buf)>>
    <2>1. Front(Stream, 1) \in Seq(UnitsIn(sent)) /\ Len(Front(Stream, 1)) = 1
          /\ \A j \in 1..1 : Front(Stream, 1)[j] = Stream[j]
      <3>1. 1 \in 0..Len(Stream)
        BY <1>2, <1>3
      <3> QED
        BY <3>1, <1>3, FrontRest
    <2>2. Front(Stream, 1)[1] = Head(buf)
      BY <2>1, <1>2, <1>3
    <2> QED
      BY <2>1, <2>2
  <1>9. Place[1] \in DOMAIN sent
    BY <1>4, <1>2 DEF UnitsIn
  <1>10. Header.len \in Nat /\ Header.fin \in BOOLEAN /\ Header \in Frames
    BY <1>1, <1>4, <1>9, FramesType
  <1> QED
    BY <1>2, <1>4, <1>5, <1>7, <1>8, <1>9, <1>10

\* decide's ways to Pass.
LEMMA DecidePasses ==
    ASSUME FramingInv, DecideControl \/ DecideStray \/ DecideNewWhole \/ DecideBroken
    PROVE  PassBegins /\ GuardTypes'
  <1>1. GuardTypes /\ OrderOK /\ Deciding
    BY DEF FramingInv, DecideControl, DecideStray, DecideNewWhole, DecideBroken
  <1>2. state.in = "Header" /\ buf # << >> /\ ready = << >> /\ sent' = sent /\ wire' = wire /\ out' = out
    BY <1>1 DEF Deciding
  <1>3. Stream # << >> /\ Header = sent[Place[1]] /\ Header.len \in Nat
    BY <1>1, <1>2, HeaderAtPlace
  <1>4. buf' = buf /\ state' = At("Pass", sent[Place[1]].len + 1)
    BY <1>3 DEF DecideControl, DecideStray, DecideNewWhole, DecideBroken, Pass
  <1>5. Stream' = Stream
    BY <1>2, <1>4 DEF Stream
  <1>6. msg.m # "Holding" => hold = << >>
    BY <1>1 DEF OrderOK
  <1>7. out \in Seq(UnitsIn(sent)) /\ hold \in Seq(UnitsIn(sent))
    BY <1>1 DEF GuardTypes
  <1>8. Data(sent, Place[1]) <=> Header.op \in {"cont", "data"}
    BY <1>3 DEF Data
  <1>9. At("Pass", sent[Place[1]].len + 1) \in [in : {"Header", "Pass", "Hold", "Skip"}, n : Nat]
    BY <1>3 DEF At
  <1>10. CASE DecideControl
    <2>1. hold' = hold /\ ready' = ready /\ msg' = msg /\ dropped' = dropped /\ ~Data(sent, Place[1])
      BY <1>8, <1>10 DEF DecideControl
    <2>2. Given' = Given
      BY <2>1, <1>2 DEF Given
    <2>3. GuardTypes'
      BY <2>1, <1>1, <1>2, <1>4, <1>9 DEF GuardTypes
    <2> QED
      BY <2>1, <2>2, <2>3, <1>2, <1>3, <1>4, <1>5, <1>6 DEF PassBegins
  <1>11. CASE DecideStray
    <2>1. /\ hold' = hold /\ ready' = ready /\ msg' = None /\ dropped' = dropped
          /\ msg.m # "Holding"
      BY <1>11 DEF DecideStray, None, Skipping
    <2>2. Given' = Given
      BY <2>1, <1>2 DEF Given
    <2>3. GuardTypes'
      BY <2>1, <1>1, <1>2, <1>4, <1>9 DEF GuardTypes, None
    <2> QED
      BY <2>1, <2>2, <2>3, <1>2, <1>3, <1>4, <1>5, <1>6 DEF PassBegins, None
  <1>12. CASE DecideNewWhole
    <2>1. hold' = hold /\ ready' = ready /\ msg' = msg /\ dropped' = dropped /\ msg.m # "Holding"
      BY <1>12 DEF DecideNewWhole, None
    <2>2. Given' = Given
      BY <2>1, <1>2 DEF Given
    <2>3. GuardTypes'
      BY <2>1, <1>1, <1>2, <1>4, <1>9 DEF GuardTypes
    <2> QED
      BY <2>1, <2>2, <2>3, <1>2, <1>3, <1>4, <1>5, <1>6 DEF PassBegins
  <1>13. CASE DecideBroken
    <2>1. hold' = << >> /\ ready' = ready \o hold /\ msg' = None /\ dropped' = dropped
      BY <1>13 DEF DecideBroken
    <2>2. Given = out /\ Given' = out \o hold
      <3>1. ready' = hold
        BY <2>1, <1>2, <1>7
      <3> QED
        BY <3>1, <1>2, <1>7 DEF Given
    <2>3. GuardTypes'
      BY <2>1, <1>1, <1>2, <1>4, <1>9 DEF GuardTypes, None
    <2> QED
      BY <2>1, <2>2, <2>3, <1>2, <1>3, <1>4, <1>5 DEF PassBegins, None
  <1> QED
    BY <1>10, <1>11, <1>12, <1>13

\* decide's ways to Skip: the header is the first unit skipped.
LEMMA DecideSkips ==
    ASSUME FramingInv, DecideSkipped \/ DecideGrown \/ DecideNewOver
    PROVE  UnitsSkip(1) /\ hold' = << >> /\ GuardTypes'
  <1>1. GuardTypes /\ OrderOK /\ PlaceOK /\ Deciding
    BY DEF FramingInv, DecideSkipped, DecideGrown, DecideNewOver
  <1>2. state.in = "Header" /\ buf # << >> /\ ready = << >> /\ sent' = sent /\ wire' = wire /\ out' = out
    BY <1>1 DEF Deciding
  <1>3. /\ Stream # << >> /\ Header = sent[Place[1]] /\ Header.len \in Nat /\ Tail(buf) \in Seq(UnitsIn(sent))
        /\ Tail(buf) \o wire = Rest(Stream, 1)
    BY <1>1, <1>2, HeaderAtPlace
  <1>4. buf' = Tail(buf) /\ state' = At("Skip", sent[Place[1]].len) /\ ready' = ready
    BY <1>3 DEF DecideSkipped, DecideGrown, DecideNewOver, Skip
  <1>5. Stream' = Rest(Stream, 1) /\ Given' = Given
    BY <1>2, <1>3, <1>4 DEF Stream, Given
  <1>6. hold' = << >>
    <2>1. msg.m # "Holding" => hold = << >>
      BY <1>1 DEF OrderOK
    <2> QED
      BY <2>1 DEF DecideSkipped, DecideGrown, DecideNewOver, Skipping, None
  <1>7. Place[2] = 0
    BY <1>1, <1>2 DEF PlaceOK
  <1>8. /\ Place[2] + 1 <= sent[Place[1]].len + 1
        /\ sent[Place[1]].len + 1 - (Place[2] + 1) = sent[Place[1]].len
    BY <1>3, <1>7
  <1>9. UnitsSkip(1)
    BY <1>2, <1>3, <1>4, <1>5, <1>6, <1>8 DEF UnitsSkip, UnitsTaken, Passing
  <1>10. msg' \in [m : {"None", "Holding", "Skipping"}, len : Nat] /\ dropped' \in Nat
    BY <1>1 DEF DecideSkipped, DecideGrown, DecideNewOver, Skipping, None, GuardTypes
  <1>11. At("Skip", sent[Place[1]].len) \in [in : {"Header", "Pass", "Hold", "Skip"}, n : Nat]
    BY <1>3 DEF At
  <1>12. GuardTypes'
    BY <1>1, <1>2, <1>3, <1>4, <1>6, <1>10, <1>11 DEF GuardTypes
  <1> QED
    BY <1>6, <1>9, <1>12

\* decide's ways to Hold: the header is the first unit held, and the last of
\* a frame with no payload.
LEMMA DecideHolds ==
    ASSUME FramingInv, DecideHeld \/ DecideNewHeld
    PROVE  UnitsHold(1) /\ GuardTypes' /\ dropped' = dropped
  <1>1. GuardTypes /\ OrderOK /\ PlaceOK /\ FramesOK /\ Deciding
    BY DEF FramingInv, DecideHeld, DecideNewHeld
  <1>2. state.in = "Header" /\ buf # << >> /\ ready = << >> /\ sent' = sent /\ wire' = wire /\ out' = out
    BY <1>1 DEF Deciding
  <1>3. /\ Stream # << >> /\ Header = sent[Place[1]] /\ Header.len \in Nat /\ Tail(buf) \in Seq(UnitsIn(sent))
        /\ Tail(buf) \o wire = Rest(Stream, 1)
        /\ Front(Stream, 1) = <<Head(buf)>> /\ Head(buf) \in UnitsIn(sent)
    BY <1>1, <1>2, HeaderAtPlace
  <1>4. hold \in Seq(UnitsIn(sent)) /\ out \in Seq(UnitsIn(sent)) /\ msg.len \in Nat
    BY <1>1 DEF GuardTypes
  <1>5. PICK len \in Nat : HoldFrame(Header, hold, len)
    <2>1. CASE DecideHeld
      <3>1. msg.len + Header.len \in Nat
        BY <1>3, <1>4
      <3>2. HoldFrame(Header, hold, msg.len + Header.len)
        BY <2>1 DEF DecideHeld
      <3> QED
        BY <3>1, <3>2
    <2>2. CASE DecideNewHeld
      <3>1. hold = << >>
        BY <2>2, <1>1 DEF DecideNewHeld, None, OrderOK
      <3> QED
        BY <2>2, <3>1, <1>3 DEF DecideNewHeld
    <2> QED
      BY <2>1, <2>2
  <1> DEFINE kept == hold \o Front(Stream, 1)
  <1>6. Append(hold, Head(buf)) = kept /\ kept \in Seq(UnitsIn(sent))
    <2>1. Append(hold, Head(buf)) = hold \o <<Head(buf)>>
      BY <1>3, <1>4, AppendIsConcat
    <2>2. Append(hold, Head(buf)) \in Seq(UnitsIn(sent))
      BY <1>3, <1>4
    <2> QED
      BY <2>1, <2>2, <1>3
  <1>7. Place[2] = 0
    BY <1>1, <1>2 DEF PlaceOK
  <1>8. /\ Place[2] + 1 <= Header.len + 1 /\ Header.len + 1 - (Place[2] + 1) = Header.len
        /\ Place[2] + 1 = Header.len + 1 <=> Header.len = 0
    BY <1>3, <1>7
  <1>9. Fits(sent, hold, Place) /\ ~Passing
    BY <1>1, <1>2, <1>7 DEF FramesOK, Fits, Passing
  <1>10. Data(sent, Place[1])
    BY <1>3 DEF Data, DecideHeld, DecideNewHeld
  <1>11. Given = out /\ Given' = out \o ready'
    BY <1>2, <1>4 DEF Given
  <1>12. buf' = Tail(buf)
    BY <1>5 DEF HoldFrame
  <1>13. Stream' = Rest(Stream, 1)
    BY <1>2, <1>3, <1>12 DEF Stream
  <1>14. UnitsTaken(1)
    BY <1>2, <1>3, <1>8, <1>13 DEF UnitsTaken
  <1>15. dropped' = dropped
    BY DEF DecideHeld, DecideNewHeld
  <1> HIDE DEF kept
  <1>16. CASE /\ Header.len > 0 /\ state' = At("Hold", Header.len)
              /\ hold' = kept /\ msg' = Holding(len) /\ ready' = ready
    <2>1. msg'.m = "Holding" /\ Given' = Given
      BY <1>2, <1>11, <1>16, <1>4 DEF Holding, Given
    <2>2. UnitsHold(1)
      BY <2>1, <1>3, <1>8, <1>9, <1>10, <1>14, <1>16 DEF UnitsHold, kept
    <2>3. GuardTypes'
      BY <1>1, <1>2, <1>3, <1>6, <1>12, <1>15, <1>16 DEF GuardTypes, At, Holding
    <2> QED
      BY <2>2, <2>3, <1>15
  <1>17. CASE /\ Header.len = 0 /\ state' = AtHeader
              /\ hold' = kept /\ msg' = Holding(len) /\ ready' = ready
    <2>1. msg'.m = "Holding" /\ Given' = Given
      BY <1>2, <1>11, <1>17, <1>4 DEF Holding, Given
    <2>2. UnitsHold(1)
      BY <2>1, <1>3, <1>8, <1>9, <1>10, <1>14, <1>17 DEF UnitsHold, kept
    <2>3. GuardTypes'
      BY <1>1, <1>2, <1>3, <1>6, <1>12, <1>15, <1>17 DEF GuardTypes, At, AtHeader, Holding
    <2> QED
      BY <2>2, <2>3, <1>15
  <1>18. CASE /\ Header.len = 0 /\ state' = AtHeader
              /\ hold' = << >> /\ msg' = None /\ ready' = ready \o kept
    <2>1. ready' = kept /\ Given' = Given \o kept
      <3>1. ready' = kept
        BY <1>2, <1>6, <1>18
      <3> QED
        BY <3>1, <1>11
    <2>2. UnitsHold(1)
      BY <2>1, <1>3, <1>8, <1>9, <1>10, <1>14, <1>18 DEF UnitsHold, kept
    <2>3. GuardTypes'
      BY <2>1, <1>1, <1>2, <1>3, <1>6, <1>12, <1>15, <1>18 DEF GuardTypes, At, AtHeader, None
    <2> QED
      BY <2>2, <2>3, <1>15
  <1> QED
    BY <1>5, <1>6, <1>16, <1>17, <1>18 DEF HoldFrame

\* Units read from buf are the first of the stream.
LEMMA ReadFromBuf ==
    ASSUME GuardTypes, NEW k \in 1..Len(buf), buf' = Rest(buf, k), wire' = wire, sent' = sent
    PROVE  /\ Stream # << >> /\ Stream' = Rest(Stream, k) /\ Front(Stream, k) = Front(buf, k)
           /\ buf' \in Seq(UnitsIn(sent)) /\ Front(buf, k) \in Seq(UnitsIn(sent))
  <1>1. buf \in Seq(UnitsIn(sent)) /\ wire \in Seq(UnitsIn(sent)) /\ Len(buf) \in Nat /\ k \in 0..Len(buf)
    BY DEF GuardTypes
  <1>2. Stream' = Rest(Stream, k) /\ Front(Stream, k) = Front(buf, k)
    BY <1>1, RestJoined DEF Stream
  <1>3. Rest(buf, k) \in Seq(UnitsIn(sent)) /\ Front(buf, k) \in Seq(UnitsIn(sent))
    BY <1>1, FrontRest
  <1>4. Stream # << >>
    <2>1. Len(buf) # 0
      BY <1>1
    <2>2. buf # << >>
      BY <2>1
    <2> QED
      BY <2>2, HeaderAtPlace
  <1> QED
    BY <1>2, <1>3, <1>4

\* What tungstenite reads of a passed frame, from buf or from the socket.
LEMMA PassReads ==
    ASSUME FramingInv, NEW k \in Nat, PassFromBuf(k) \/ PassFromWire(k)
    PROVE  UnitsPass(k) /\ GuardTypes' /\ dropped' = dropped
  <1>1. GuardTypes
    BY DEF FramingInv
  <1>2. /\ wire \in Seq(UnitsIn(sent)) /\ buf \in Seq(UnitsIn(sent)) /\ out \in Seq(UnitsIn(sent))
        /\ Len(wire) \in Nat /\ Len(buf) \in Nat /\ state.n \in Nat
    BY <1>1 DEF GuardTypes
  <1>3. /\ state.in = "Pass" /\ ready = << >> /\ ready' = ready /\ sent' = sent /\ hold' = hold
        /\ msg' = msg /\ dropped' = dropped /\ state' = At("Pass", state.n - k)
    BY DEF PassFromBuf, PassFromWire
  <1>4. k \in 1..state.n
    BY <1>2 DEF PassFromBuf, PassFromWire, Lesser
  <1>5. /\ Stream' = Rest(Stream, k) /\ out' = out \o Front(Stream, k)
        /\ wire' \in Seq(UnitsIn(sent)) /\ buf' \in Seq(UnitsIn(sent))
        /\ Front(Stream, k) \in Seq(UnitsIn(sent))
    <2>1. CASE PassFromBuf(k)
      <3>1. k \in 1..Len(buf) /\ buf' = Rest(buf, k) /\ wire' = wire /\ out' = out \o Front(buf, k)
        BY <2>1, <1>2 DEF PassFromBuf, Lesser
      <3> QED
        BY <3>1, <1>1, <1>2, <1>3, ReadFromBuf
    <2>2. CASE PassFromWire(k)
      <3>1. k \in 0..Len(wire) /\ wire' = Rest(wire, k) /\ buf = << >> /\ buf' = buf /\ out' = out \o Front(wire, k)
        BY <2>2, <1>2 DEF PassFromWire, Lesser
      <3>2. Rest(wire, k) \in Seq(UnitsIn(sent)) /\ Front(wire, k) \in Seq(UnitsIn(sent))
        BY <3>1, <1>2, FrontRest
      <3>3. Stream = wire /\ Stream' = wire'
        BY <3>1, <3>2, <1>2 DEF Stream
      <3> QED
        BY <3>1, <3>2, <3>3, <1>2
    <2> QED
      BY <2>1, <2>2
  <1>6. Given = out /\ Given' = Given \o Front(Stream, k) /\ out' \in Seq(UnitsIn(sent))
    <2>1. out' \in Seq(UnitsIn(sent))
      BY <1>2, <1>5
    <2> QED
      BY <2>1, <1>2, <1>3, <1>5 DEF Given
  <1>7. Passing
    BY <1>2, <1>3, <1>4 DEF Passing
  <1>8. At("Pass", state.n - k) \in [in : {"Header", "Pass", "Hold", "Skip"}, n : Nat]
    BY <1>2, <1>4 DEF At
  <1>9. GuardTypes'
    BY <1>1, <1>3, <1>5, <1>6, <1>8 DEF GuardTypes
  <1> QED
    BY <1>3, <1>4, <1>5, <1>6, <1>7, <1>9 DEF UnitsPass

\* A read of a held or skipped frame takes the less of what is left of the
\* frame and what is buffered.
LEMMA LeftTaken ==
    ASSUME FramingInv, state.n > 0, buf # << >>, NEW k, k = Lesser(state.n, Len(buf))
    PROVE  /\ k \in 1..Len(buf) /\ k \in Nat \ {0} /\ k <= state.n /\ state.n \in Nat
           /\ Place[2] + k <= sent[Place[1]].len + 1
           /\ Place[2] + k = sent[Place[1]].len + 1 <=> k = state.n
           /\ sent[Place[1]].len + 1 - (Place[2] + k) = state.n - k
  <1>1. GuardTypes /\ PlaceOK
    BY DEF FramingInv
  <1>2. Len(buf) \in Nat /\ Len(buf) # 0 /\ state.n \in Nat
    <2>1. buf \in Seq(UnitsIn(sent)) /\ state.n \in Nat
      BY <1>1 DEF GuardTypes
    <2> QED
      BY <2>1
  <1>3. k \in 1..Len(buf) /\ k \in Nat \ {0} /\ k <= state.n
    BY <1>2 DEF Lesser
  <1>4. Stream # << >> /\ state.n + Place[2] = sent[Place[1]].len + 1
    BY <1>1 DEF PlaceOK
  <1>5. Place[2] \in Nat /\ sent[Place[1]].len \in Nat
    BY <1>1, <1>4, PlaceType
  <1> DEFINE L == sent[Place[1]].len  p == Place[2]  n == state.n
  <1>6. n \in Nat /\ p \in Nat /\ L \in Nat /\ n + p = L + 1 /\ k \in Nat /\ k <= n
    BY <1>2, <1>3, <1>4, <1>5
  <1> HIDE DEF L, p, n
  <1>7. p + k <= L + 1 /\ (p + k = L + 1 <=> k = n) /\ (n - k) + (p + k) = L + 1
    BY <1>6, UnitsLeft
  <1>8. L + 1 - (p + k) = n - k
    BY <1>6
  <1> QED
    BY <1>2, <1>3, <1>7, <1>8 DEF L, p, n

\* What is buffered of a skipped frame is dropped.
LEMMA SkipReads ==
    ASSUME FramingInv, SkipFromBuf
    PROVE  /\ \E k \in Nat \ {0} : UnitsSkip(k)
           /\ GuardTypes' /\ dropped' = dropped /\ hold' = hold /\ msg' = msg
  <1> DEFINE k == Lesser(state.n, Len(buf))
  <1>1. GuardTypes
    BY DEF FramingInv
  <1>2. /\ state.in = "Skip" /\ state.n > 0 /\ buf # << >> /\ buf' = Rest(buf, k)
        /\ state' = At("Skip", state.n - k)
        /\ sent' = sent /\ wire' = wire /\ ready' = ready /\ out' = out
        /\ hold' = hold /\ msg' = msg /\ dropped' = dropped
    BY DEF SkipFromBuf
  <1>3. /\ k \in 1..Len(buf) /\ k \in Nat \ {0} /\ k <= state.n /\ state.n \in Nat
        /\ Place[2] + k <= sent[Place[1]].len + 1
        /\ sent[Place[1]].len + 1 - (Place[2] + k) = state.n - k
    BY <1>2, LeftTaken
  <1> HIDE DEF k
  <1>4. Stream # << >> /\ Stream' = Rest(Stream, k) /\ buf' \in Seq(UnitsIn(sent))
    BY <1>1, <1>2, <1>3, ReadFromBuf
  <1>5. Given' = Given
    BY <1>2 DEF Given
  <1>6. UnitsSkip(k)
    BY <1>2, <1>3, <1>4, <1>5 DEF UnitsSkip, UnitsTaken, Passing
  <1>7. At("Skip", state.n - k) \in [in : {"Header", "Pass", "Hold", "Skip"}, n : Nat]
    BY <1>3 DEF At
  <1>8. GuardTypes'
    BY <1>1, <1>2, <1>4, <1>7 DEF GuardTypes
  <1> QED
    BY <1>2, <1>3, <1>6, <1>8

\* What is buffered of a held frame is kept.
LEMMA HoldReads ==
    ASSUME FramingInv, HoldFromBuf
    PROVE  /\ \E k \in Nat \ {0} : UnitsHold(k)
           /\ GuardTypes' /\ dropped' = dropped
  <1> DEFINE k == Lesser(state.n, Len(buf))
  <1>1. GuardTypes /\ PlaceOK /\ FramesOK /\ OrderOK
    BY DEF FramingInv
  <1>2. /\ state.in = "Hold" /\ ready = << >> /\ buf # << >> /\ buf' = Rest(buf, k)
        /\ sent' = sent /\ wire' = wire /\ out' = out /\ dropped' = dropped
    BY DEF HoldFromBuf
  <1>3. state.n > 0 /\ Fits(sent, hold, Place) /\ Data(sent, Place[1]) /\ msg.m = "Holding" /\ ~Passing
    BY <1>1, <1>2 DEF PlaceOK, FramesOK, OrderOK, Passing
  <1>4. /\ k \in 1..Len(buf) /\ k \in Nat \ {0} /\ k <= state.n /\ state.n \in Nat
        /\ Place[2] + k <= sent[Place[1]].len + 1
        /\ Place[2] + k = sent[Place[1]].len + 1 <=> k = state.n
        /\ sent[Place[1]].len + 1 - (Place[2] + k) = state.n - k
    BY <1>2, <1>3, LeftTaken
  <1>5. /\ \/ /\ k < state.n /\ state' = At("Hold", state.n - k) /\ hold' = hold \o Front(buf, k)
              /\ ready' = ready /\ msg' = msg
           \/ /\ k = state.n /\ state' = AtHeader /\ hold' = hold \o Front(buf, k)
              /\ ready' = ready /\ msg' = msg
           \/ /\ k = state.n /\ state' = AtHeader /\ hold' = << >>
              /\ ready' = ready \o (hold \o Front(buf, k)) /\ msg' = None
    BY DEF HoldFromBuf
  <1> HIDE DEF k
  <1>6. /\ Stream # << >> /\ Stream' = Rest(Stream, k) /\ buf' \in Seq(UnitsIn(sent))
        /\ Front(Stream, k) = Front(buf, k) /\ Front(buf, k) \in Seq(UnitsIn(sent))
    BY <1>1, <1>2, <1>4, ReadFromBuf
  <1> DEFINE kept == hold \o Front(buf, k)
  <1>7. /\ kept \in Seq(UnitsIn(sent)) /\ out \in Seq(UnitsIn(sent))
        /\ ready \o kept = kept /\ Given = out
    <2>1. kept \in Seq(UnitsIn(sent)) /\ out \in Seq(UnitsIn(sent))
      BY <1>1, <1>6 DEF GuardTypes
    <2> HIDE DEF kept
    <2> QED
      BY <2>1, <1>2 DEF Given
  <1> HIDE DEF kept
  <1>8. UnitsTaken(k)
    BY <1>2, <1>4, <1>6 DEF UnitsTaken
  <1>9. At("Hold", state.n - k) \in [in : {"Header", "Pass", "Hold", "Skip"}, n : Nat]
    BY <1>4 DEF At
  <1>10. CASE /\ k < state.n /\ state' = At("Hold", state.n - k) /\ hold' = kept
              /\ ready' = ready /\ msg' = msg
    <2>1. Given' = Given
      BY <1>2, <1>10 DEF Given
    <2>2. k # state.n
      BY <1>4, <1>10
    <2>3. UnitsHold(k)
      BY <2>1, <2>2, <1>3, <1>4, <1>6, <1>8, <1>10 DEF UnitsHold, kept
    <2>4. GuardTypes'
      BY <1>1, <1>2, <1>6, <1>7, <1>9, <1>10 DEF GuardTypes
    <2> QED
      BY <2>3, <2>4, <1>2, <1>4
  <1>11. CASE /\ k = state.n /\ state' = AtHeader /\ hold' = kept
              /\ ready' = ready /\ msg' = msg
    <2>1. Given' = Given
      BY <1>2, <1>11 DEF Given
    <2>2. UnitsHold(k)
      BY <2>1, <1>3, <1>4, <1>6, <1>8, <1>11 DEF UnitsHold, kept
    <2>3. GuardTypes'
      BY <1>1, <1>2, <1>6, <1>7, <1>11 DEF GuardTypes, AtHeader, At
    <2> QED
      BY <2>2, <2>3, <1>2, <1>4
  <1>12. CASE /\ k = state.n /\ state' = AtHeader /\ hold' = << >>
              /\ ready' = ready \o kept /\ msg' = None
    <2>1. Given' = Given \o kept /\ ready' = kept
      BY <1>2, <1>7, <1>12 DEF Given
    <2>2. UnitsHold(k)
      BY <2>1, <1>3, <1>4, <1>6, <1>8, <1>12 DEF UnitsHold, kept
    <2>3. GuardTypes'
      BY <2>1, <1>1, <1>2, <1>6, <1>7, <1>12 DEF GuardTypes, AtHeader, At, None
    <2> QED
      BY <2>2, <2>3, <1>2, <1>4
  <1> QED
    BY <1>5, <1>10, <1>11, <1>12 DEF kept

\* The steps that take nothing and give nothing: released fragments read, a
\* frame's end noticed, more bytes buffered, and a refusal, which also lets
\* go of what is held.
Quiet == FrameDone \/ Refuse \/ (\E k \in Nat : HandReady(k) \/ Fill(k))

\* They leave the stream and what is given as they are.
LEMMA QuietSteps ==
    ASSUME GuardTypes, Quiet
    PROVE  /\ sent' = sent /\ Stream' = Stream /\ Given' = Given /\ Place' = Place
           /\ dropped' = dropped /\ msg' = msg /\ GuardTypes'
           /\ hold' = hold \/ hold' = << >>
           /\ state' = state \/ (state.in # "Hold" /\ state.n = 0 /\ state' = AtHeader)
  <1>1. /\ wire \in Seq(UnitsIn(sent)) /\ buf \in Seq(UnitsIn(sent)) /\ out \in Seq(UnitsIn(sent))
        /\ ready \in Seq(UnitsIn(sent))
    BY DEF GuardTypes
  <1>2. sent' = sent /\ Stream' = Stream => Place' = Place
    BY DEF Place
  <1>3. CASE FrameDone
    <2>1. sent' = sent /\ Stream' = Stream /\ Given' = Given
      BY <1>3 DEF FrameDone, Stream, Given
    <2>2. GuardTypes'
      BY <1>3 DEF FrameDone, GuardTypes, AtHeader, At
    <2> QED
      BY <2>1, <2>2, <1>2, <1>3 DEF FrameDone
  <1>4. CASE Refuse
    <2>1. sent' = sent /\ Stream' = Stream /\ Given' = Given
      BY <1>4 DEF Refuse, Stream, Given
    <2>2. GuardTypes'
      BY <1>4 DEF Refuse, GuardTypes
    <2> QED
      BY <2>1, <2>2, <1>2, <1>4 DEF Refuse
  <1>5. ASSUME NEW k \in Nat, HandReady(k)
        PROVE  /\ sent' = sent /\ Stream' = Stream /\ Given' = Given /\ GuardTypes'
               /\ hold' = hold /\ state' = state /\ msg' = msg /\ dropped' = dropped
    <2>1. /\ k \in 0..Len(ready) /\ out' = out \o Front(ready, k) /\ ready' = Rest(ready, k)
          /\ sent' = sent /\ wire' = wire /\ buf' = buf /\ hold' = hold /\ state' = state
          /\ msg' = msg /\ dropped' = dropped
      BY <1>5 DEF HandReady
    <2>2. /\ Front(ready, k) \in Seq(UnitsIn(sent)) /\ Rest(ready, k) \in Seq(UnitsIn(sent))
          /\ Front(ready, k) \o Rest(ready, k) = ready
      BY <1>1, <2>1, FrontRest
    <2>3. Given' = Given
      <3> DEFINE F == Front(ready, k)  R == Rest(ready, k)
      <3>1. out \in Seq(UnitsIn(sent)) /\ F \in Seq(UnitsIn(sent)) /\ R \in Seq(UnitsIn(sent))
        BY <1>1, <2>2
      <3> HIDE DEF F, R
      <3>2. (out \o F) \o R = out \o (F \o R)
        BY <3>1, ConcatAssociative
      <3> QED
        BY <3>2, <2>1, <2>2 DEF Given, F, R
    <2>4. GuardTypes'
      BY <2>1, <2>2 DEF GuardTypes
    <2> QED
      BY <2>1, <2>3, <2>4 DEF Stream
  <1>6. ASSUME NEW k \in Nat, Fill(k)
        PROVE  /\ sent' = sent /\ Stream' = Stream /\ Given' = Given /\ GuardTypes'
               /\ hold' = hold /\ state' = state /\ msg' = msg /\ dropped' = dropped
    <2>1. /\ k \in 0..Len(wire) /\ buf = << >> /\ buf' = Front(wire, k) /\ wire' = Rest(wire, k)
          /\ sent' = sent /\ out' = out /\ ready' = ready /\ hold' = hold /\ state' = state
          /\ msg' = msg /\ dropped' = dropped
      BY <1>6 DEF Fill
    <2>2. /\ Front(wire, k) \in Seq(UnitsIn(sent)) /\ Rest(wire, k) \in Seq(UnitsIn(sent))
          /\ Front(wire, k) \o Rest(wire, k) = wire
      BY <1>1, <2>1, FrontRest
    <2>3. Stream' = Stream
      BY <1>1, <2>1, <2>2 DEF Stream
    <2>4. GuardTypes'
      BY <2>1, <2>2 DEF GuardTypes
    <2> QED
      BY <2>1, <2>3, <2>4 DEF Given
  <1> QED
    BY <1>2, <1>3, <1>4, <1>5, <1>6 DEF Quiet

\* They keep the framing.
LEMMA QuietKeeps ==
    ASSUME FramingInv, Quiet
    PROVE  FramingInv'
  <1>1. GuardTypes /\ PlaceOK /\ FramesOK /\ OrderOK
    BY DEF FramingInv
  <1>2. /\ sent' = sent /\ Stream' = Stream /\ Given' = Given /\ Place' = Place
        /\ msg' = msg /\ GuardTypes'
        /\ hold' = hold \/ hold' = << >>
        /\ state' = state \/ (state.in # "Hold" /\ state.n = 0 /\ state' = AtHeader)
    BY <1>1, QuietSteps
  <1>3. Refuse => state' = state /\ state.in = "Header"
    BY DEF Refuse
  <1>4. hold' = hold \/ Refuse
    BY DEF Quiet, FrameDone, HandReady, Fill
  <1>5. PlaceOK'
    BY <1>1, <1>2 DEF PlaceOK, AtHeader, At
  <1>6. /\ Passing' <=> Passing
        /\ state'.in = "Hold" <=> state.in = "Hold"
    BY <1>2 DEF Passing, AtHeader, At
  <1>7. InFrames(sent, << >>) /\ EndsWhole(sent, << >>) /\ Sorted(sent, << >>)
    BY DEF InFrames, EndsWhole, Sorted
  <1>8. CASE hold' = hold
    <2>1. FramesOK'
      BY <1>1, <1>2, <1>6, <1>8 DEF FramesOK
    <2>2. OrderOK'
      BY <1>1, <1>2, <1>6, <1>8 DEF OrderOK
    <2> QED
      BY <2>1, <2>2, <1>2, <1>5 DEF FramingInv
  <1>9. CASE hold' = << >> /\ Refuse
    <2>1. FramesOK'
      BY <1>1, <1>2, <1>3, <1>6, <1>7, <1>9 DEF FramesOK
    <2>2. OrderOK'
      BY <1>1, <1>2, <1>3, <1>6, <1>7, <1>9 DEF OrderOK
    <2> QED
      BY <2>1, <2>2, <1>2, <1>5 DEF FramingInv
  <1> QED
    BY <1>2, <1>4, <1>8, <1>9

\* A frame sent: the stream grows at its end, and Place stays.
LEMMA SendGrows ==
    ASSUME FramingInv, NEW f \in Frames, Send(f)
    PROVE  /\ GuardTypes' /\ Streams(sent', Stream') /\ Place' = Place /\ Given' = Given
           /\ Stream # << >> => Stream' # << >>
           /\ sent' = Append(sent, f) /\ hold' = hold /\ state' = state /\ msg' = msg
           /\ dropped' = dropped
  <1>1. GuardTypes /\ Streams(sent, Stream)
    BY DEF FramingInv, PlaceOK
  <1> DEFINE U == Units(Len(sent) + 1, f)
  <1>2. /\ sent' = Append(sent, f) /\ wire' = wire \o U /\ Len(sent) < MaxFrames
        /\ buf' = buf /\ out' = out /\ ready' = ready /\ hold' = hold /\ state' = state
        /\ msg' = msg /\ dropped' = dropped
    BY DEF Send
  <1>3. /\ Stream \in Seq(UnitsIn(sent)) /\ sent \in Seq(Frames) /\ Given \in Seq(UnitsIn(sent))
    BY <1>1, PlaceType DEF GuardTypes
  <1>4. /\ U \in Seq(UnitsIn(sent')) /\ U # << >> /\ U[1] = <<Len(sent) + 1, 0>>
        /\ Streams(sent', Stream \o U)
    BY <1>1, <1>2, <1>3, StreamGrows
  <1>5. /\ wire \in Seq(UnitsIn(sent')) /\ buf \in Seq(UnitsIn(sent')) /\ ready \in Seq(UnitsIn(sent'))
        /\ hold \in Seq(UnitsIn(sent')) /\ out \in Seq(UnitsIn(sent')) /\ Stream \in Seq(UnitsIn(sent'))
    BY <1>1, <1>2, <1>3, OneMoreFrame DEF GuardTypes
  <1> HIDE DEF U
  <1>6. Stream' = Stream \o U
    <2>1. (buf \o wire) \o U = buf \o (wire \o U)
      <3>1. buf \in Seq(UnitsIn(sent')) /\ wire \in Seq(UnitsIn(sent')) /\ U \in Seq(UnitsIn(sent'))
        BY <1>4, <1>5
      <3> QED
        BY <3>1, ConcatAssociative
    <2> QED
      BY <2>1, <1>2 DEF Stream
  <1>7. Stream = << >> => Stream' = U
    BY <1>4, <1>6
  <1>8. Stream # << >> => Stream' # << >> /\ Stream'[1] = Stream[1]
    BY <1>4, <1>5, <1>6
  <1>9. Place' = Place
    BY <1>4, <1>7, <1>8 DEF Place
  <1>10. wire' \in Seq(UnitsIn(sent')) /\ sent' \in Seq(Frames) /\ Len(sent') = Len(sent) + 1
    BY <1>2, <1>3, <1>4, <1>5
  <1>11. Len(sent') <= MaxFrames
    BY <1>2, <1>3, <1>10, MaxFramesIsNat
  <1>12. GuardTypes'
    BY <1>1, <1>2, <1>5, <1>10, <1>11 DEF GuardTypes
  <1> QED
    BY <1>2, <1>4, <1>6, <1>8, <1>9, <1>12 DEF Given

\* It keeps the framing.
LEMMA SendKeeps ==
    ASSUME FramingInv, NEW f \in Frames, Send(f)
    PROVE  FramingInv'
  <1>1. GuardTypes /\ PlaceOK /\ FramesOK /\ OrderOK
    BY DEF FramingInv
  <1>2. /\ GuardTypes' /\ Streams(sent', Stream') /\ Place' = Place /\ Given' = Given
        /\ Stream # << >> => Stream' # << >>
        /\ sent' = Append(sent, f) /\ hold' = hold /\ state' = state /\ msg' = msg
    BY SendGrows
  <1>3. sent \in Seq(Frames) /\ Given \in Seq(UnitsIn(sent)) /\ hold \in Seq(UnitsIn(sent))
    BY <1>1, PlaceType DEF GuardTypes
  <1>4. state.n > 0 => sent'[Place[1]] = sent[Place[1]]
    <2>1. state.n > 0 => Place[1] \in DOMAIN sent
      BY <1>1, PlaceType DEF PlaceOK
    <2> QED
      BY <2>1, <1>2, <1>3
  <1>5. PlaceOK'
    BY <1>1, <1>2, <1>4 DEF PlaceOK
  <1>6. /\ InFrames(sent, Given) => InFrames(sent', Given)
        /\ EndsWhole(sent, Given) => EndsWhole(sent', Given)
        /\ Fits(sent, Given, Place) => Fits(sent', Given, Place)
        /\ Sorted(sent, Given) => Sorted(sent', Given)
        /\ \A k \in 1..Len(Given) : Data(sent', Given[k][1]) <=> Data(sent, Given[k][1])
    BY <1>2, <1>3, OneMoreFrame
  <1>7. /\ InFrames(sent, hold) => InFrames(sent', hold)
        /\ EndsWhole(sent, hold) => EndsWhole(sent', hold)
        /\ Fits(sent, hold, Place) => Fits(sent', hold, Place)
        /\ Sorted(sent, hold) => Sorted(sent', hold)
        /\ \A k \in 1..Len(hold) : Data(sent', hold[k][1]) <=> Data(sent, hold[k][1])
    BY <1>2, <1>3, OneMoreFrame
  <1>8. Passing' <=> Passing
    BY <1>2 DEF Passing
  <1>9. FramesOK'
    BY <1>1, <1>2, <1>6, <1>7, <1>8 DEF FramesOK
  <1>10. state.n > 0 => (Data(sent', Place[1]) <=> Data(sent, Place[1]))
    BY <1>4 DEF Data
  <1>11. OrderOK'
    <2>1. state.in = "Hold" => state.n > 0
      BY <1>1 DEF PlaceOK
    <2>2. Passing => state.n > 0
      BY DEF Passing
    <2> QED
      BY <2>1, <2>2, <1>1, <1>2, <1>6, <1>7, <1>8, <1>10 DEF OrderOK
  <1> QED
    BY <1>2, <1>5, <1>9, <1>11 DEF FramingInv

\* Every step keeps the framing.
LEMMA FramingStep ==
    ASSUME FramingInv, [GuardNext]_guardVars
    PROVE  FramingInv'
  <1>1. CASE DecideControl \/ DecideStray \/ DecideNewWhole \/ DecideBroken
    BY <1>1, DecidePasses, PassDecided DEF PassBegins, FramingInv
  <1>2. CASE DecideSkipped \/ DecideGrown \/ DecideNewOver
    <2>1. UnitsSkip(1) /\ GuardTypes'
      BY <1>2, DecideSkips
    <2> QED
      BY <2>1, SkipStep DEF UnitsSkip, UnitsTaken, FramingInv
  <1>3. CASE DecideHeld \/ DecideNewHeld
    <2>1. UnitsHold(1) /\ GuardTypes'
      BY <1>3, DecideHolds
    <2> QED
      BY <2>1, HoldStep DEF UnitsHold, UnitsTaken, FramingInv
  <1>4. ASSUME NEW k \in Nat, PassFromBuf(k) \/ PassFromWire(k) PROVE FramingInv'
    <2>1. UnitsPass(k) /\ GuardTypes'
      BY <1>4, PassReads
    <2> QED
      BY <2>1, PassStep DEF UnitsPass, FramingInv
  <1>5. CASE HoldFromBuf
    <2>1. GuardTypes' /\ \E k \in Nat \ {0} : UnitsHold(k)
      BY <1>5, HoldReads
    <2>2. PICK k \in Nat \ {0} : UnitsHold(k)
      BY <2>1
    <2> QED
      BY <2>1, <2>2, HoldStep DEF UnitsHold, UnitsTaken, FramingInv
  <1>6. CASE SkipFromBuf
    <2>1. GuardTypes' /\ \E k \in Nat \ {0} : UnitsSkip(k)
      BY <1>6, SkipReads
    <2>2. PICK k \in Nat \ {0} : UnitsSkip(k)
      BY <2>1
    <2> QED
      BY <2>1, <2>2, SkipStep DEF UnitsSkip, UnitsTaken, FramingInv
  <1>7. CASE Quiet
    BY <1>7, QuietKeeps
  <1>8. ASSUME NEW f \in Frames, Send(f) PROVE FramingInv'
    BY <1>8, SendKeeps
  <1>9. CASE UNCHANGED guardVars
    <2>1. sent' = sent /\ Stream' = Stream /\ Given' = Given /\ hold' = hold /\ state' = state /\ msg' = msg
      BY <1>9 DEF guardVars, Stream, Given
    <2>2. Place' = Place /\ (Passing' <=> Passing)
      BY <2>1 DEF Place, Passing
    <2>3. GuardTypes'
      BY <1>9 DEF guardVars, GuardTypes, FramingInv
    <2>4. PlaceOK' /\ FramesOK' /\ OrderOK'
      BY <2>1, <2>2 DEF PlaceOK, FramesOK, OrderOK, FramingInv
    <2> QED
      BY <2>3, <2>4 DEF FramingInv
  <1> QED
    BY <1>1, <1>2, <1>3, <1>4, <1>5, <1>6, <1>7, <1>8, <1>9
       DEF GuardNext, Read, Decide, Quiet

\* The framing at the start: nothing sent.
LEMMA FramingAtStart ==
    ASSUME GuardInit
    PROVE  FramingInv
  <1>1. /\ sent = << >> /\ wire = << >> /\ buf = << >> /\ ready = << >> /\ hold = << >> /\ out = << >>
        /\ state = AtHeader /\ msg = None /\ dropped = 0
    BY DEF GuardInit
  <1>2. Stream = << >> /\ Given = << >>
    BY <1>1 DEF Stream, Given
  <1>3. Place = <<1, 0>>
    BY <1>1, <1>2 DEF Place
  <1>4. GuardTypes
    BY <1>1, MaxFramesIsNat DEF GuardTypes, AtHeader, At, None
  <1>5. PlaceOK
    BY <1>1, <1>2, <1>3 DEF PlaceOK, Streams, AtHeader, At
  <1>6. FramesOK
    BY <1>1, <1>2 DEF FramesOK, InFrames, EndsWhole, AtHeader, At, Passing
  <1>7. OrderOK
    BY <1>1, <1>2 DEF OrderOK, Sorted, AtHeader, At, Passing
  <1> QED
    BY <1>4, <1>5, <1>6, <1>7 DEF FramingInv

\* The two flags, which are all that FramingInv leaves out of the types.
FlagsOK == release \in BOOLEAN /\ refused \in BOOLEAN

\* Every step keeps the flags' types: release is a header's fin bit or FALSE.
LEMMA FlagsStep ==
    ASSUME FramingInv, FlagsOK, [GuardNext]_guardVars
    PROVE  FlagsOK'
  <1>1. GuardTypes
    BY DEF FramingInv
  <1>2. CASE DecideHeld \/ DecideNewHeld
    <2>1. buf # << >> /\ refused' = refused
      BY <1>2 DEF DecideHeld, DecideNewHeld, Deciding
    <2>2. release' = Header.fin \/ release' = FALSE
      BY <1>2 DEF DecideHeld, DecideNewHeld, HoldFrame
    <2>3. Header.fin \in BOOLEAN
      BY <2>1, <1>1, HeaderAtPlace
    <2> QED
      BY <2>1, <2>2, <2>3 DEF FlagsOK
  <1>3. CASE Decide /\ ~(DecideHeld \/ DecideNewHeld)
    <2>1. release' = release /\ refused' = refused
      BY <1>3 DEF Decide, DecideControl, DecideSkipped, DecideGrown, DecideBroken, DecideStray,
                  DecideNewOver, DecideNewWhole, Deciding
    <2> QED
      BY <2>1 DEF FlagsOK
  <1>4. CASE Refuse
    <2>1. release' = release /\ refused' = TRUE
      BY <1>4 DEF Refuse
    <2> QED
      BY <2>1 DEF FlagsOK
  <1>5. CASE HoldFromBuf
    <2>1. (release' = release \/ release' = FALSE) /\ refused' = refused
      BY <1>5 DEF HoldFromBuf
    <2> QED
      BY <2>1 DEF FlagsOK
  <1>6. ASSUME release' = release, refused' = refused PROVE FlagsOK'
    BY <1>6 DEF FlagsOK
  <1>7. CASE FrameDone \/ SkipFromBuf \/ UNCHANGED guardVars
    BY <1>6, <1>7 DEF FrameDone, SkipFromBuf, guardVars
  <1>8. ASSUME NEW k, HandReady(k) \/ PassFromBuf(k) \/ PassFromWire(k) \/ Fill(k) PROVE FlagsOK'
    BY <1>6, <1>8 DEF HandReady, PassFromBuf, PassFromWire, Fill
  <1>9. ASSUME NEW f, Send(f) PROVE FlagsOK'
    BY <1>6, <1>9 DEF Send
  <1> QED
    BY <1>2, <1>3, <1>4, <1>5, <1>7, <1>8, <1>9 DEF GuardNext, Read

\* The framing, as the run checks it.
LEMMA FramingEnough ==
    ASSUME FramingInv, FlagsOK
    PROVE  FramingKept
  <1>1. GuardTypes /\ PlaceOK /\ FramesOK /\ OrderOK
    BY DEF FramingInv
  <1>2. /\ sent \in Seq(Frames) /\ out \in Seq(UnitsIn(sent)) /\ ready \in Seq(UnitsIn(sent))
    BY <1>1 DEF GuardTypes
  <1>3. /\ Len(Given) = Len(out) + Len(ready) /\ Len(out) \in Nat /\ Len(ready) \in Nat
        /\ \A j \in 1..Len(out) : Given[j] = out[j]
    BY <1>2, Joined DEF Given
  <1>4. GuardTypeOK
    <2>1. \A q \in {wire, buf, ready, hold, out} : q \in Seq(UnitsIn(sent))
      BY <1>1 DEF GuardTypes
    <2>2. ASSUME NEW q \in Seq(UnitsIn(sent)), NEW k \in DOMAIN q
          PROVE  q[k][1] \in DOMAIN sent /\ q[k][2] \in 0..sent[q[k][1]].len
      <3>1. q[k] \in UnitsIn(sent)
        OBVIOUS
      <3>2. q[k][1] \in DOMAIN sent /\ q[k][2] \in Nat /\ q[k][2] <= sent[q[k][1]].len
        BY <3>1 DEF UnitsIn
      <3>3. sent[q[k][1]].len \in Nat
        BY <3>2, <1>2, FramesType
      <3> QED
        BY <3>2, <3>3
    <2>3. \A q \in {wire, buf, ready, hold, out} :
            \A k \in DOMAIN q : q[k][1] \in DOMAIN sent /\ q[k][2] \in 0..sent[q[k][1]].len
      BY <2>1, <2>2
    <2>4. /\ sent \in Seq(Frames) /\ Len(sent) <= MaxFrames
          /\ state.in \in {"Header", "Pass", "Hold", "Skip"} /\ state.n \in Nat
          /\ msg.m \in {"None", "Holding", "Skipping"} /\ msg.len \in Nat
          /\ dropped \in Nat
      BY <1>1 DEF GuardTypes
    <2>5. release \in BOOLEAN /\ refused \in BOOLEAN
      BY DEF FlagsOK
    <2> QED
      BY <2>3, <2>4, <2>5 DEF GuardTypeOK
  <1>5. InStep
    <2>1. ASSUME state.in = "Header", buf \o wire # << >> PROVE Head(buf \o wire)[2] = 0
      <3>1. Place[2] = 0
        BY <2>1, <1>1 DEF PlaceOK
      <3>2. Stream \in Seq(UnitsIn(sent)) /\ Place = Stream[1] /\ Stream # << >>
        BY <2>1, <1>1, PlaceType DEF Stream
      <3>3. Head(Stream) = Stream[1]
        BY <3>2
      <3> QED
        BY <3>1, <3>2, <3>3 DEF Stream
    <2>2. ASSUME NEW k \in DOMAIN out
          PROVE  IF k = 1 \/ out[k - 1][2] = sent[out[k - 1][1]].len THEN out[k][2] = 0
                 ELSE out[k] = <<out[k - 1][1], out[k - 1][2] + 1>>
      <3>1. k \in 1..Len(out) /\ k \in 1..Len(Given) /\ (k # 1 => k - 1 \in 1..Len(out))
        BY <1>2, <1>3
      <3>2. Given[k] = out[k] /\ (k # 1 => Given[k - 1] = out[k - 1])
        BY <3>1, <1>3
      <3>3. IF k = 1 \/ IsLast(sent, Given[k - 1]) THEN Given[k][2] = 0
            ELSE Given[k] = <<Given[k - 1][1], Given[k - 1][2] + 1>>
        BY <3>1, <1>1 DEF FramesOK, InFrames
      <3> QED
        BY <3>2, <3>3 DEF IsLast
    <2> QED
      BY <2>1, <2>2 DEF InStep
  <1>6. OrderKept
    <2>1. SUFFICES ASSUME NEW j \in DOMAIN out, NEW k \in DOMAIN out, j < k,
                          out[j][2] = 0, out[k][2] = 0, IsData(out[j][1]) = IsData(out[k][1])
                   PROVE  out[j][1] < out[k][1]
      BY DEF OrderKept
    <2>2. /\ j \in 1..Len(out) /\ k \in 1..Len(out) /\ j \in 1..Len(Given) /\ k \in 1..Len(Given)
      BY <1>2, <1>3
    <2>3. Given[j] = out[j] /\ Given[k] = out[k]
      BY <2>2, <1>3
    <2>4. Data(sent, Given[j][1]) <=> Data(sent, Given[k][1])
      BY <2>1, <2>3 DEF Data, IsData
    <2>5. Before(Given[j], Given[k])
      BY <2>1, <2>2, <2>4, <1>1 DEF OrderOK, Sorted
    <2> QED
      BY <2>1, <2>3, <2>5 DEF Before
  <1> QED
    BY <1>4, <1>5, <1>6 DEF FramingKept

\* Whatever a peer sends and however the reads cut it, tungstenite's stream
\* is in step and in order (FramingKept): a header is read only where a frame
\* begins, frames are whole, and no data frame passes another.
THEOREM GuardKeepsFraming == GuardSpec => []FramingKept
  <1>1. GuardInit => FramingInv /\ FlagsOK
    <2>1. GuardInit => FlagsOK
      BY DEF GuardInit, FlagsOK
    <2> QED
      BY <2>1, FramingAtStart
  <1>2. FramingInv /\ FlagsOK /\ [GuardNext]_guardVars => FramingInv' /\ FlagsOK'
    BY FramingStep, FlagsStep
  <1>3. FramingInv /\ FlagsOK => FramingKept
    BY FramingEnough
  <1> QED
    BY <1>1, <1>2, <1>3, PTL DEF GuardSpec

(***************************************************************************)
(* The length of a message: what MapThenSumSet computes.                   *)
(***************************************************************************)
One(s) == CHOOSE x \in s : TRUE

\* f is the function the fold defines on the subsets of M.
Sums(fs, M, f) ==
    f = [s \in SUBSET M |-> IF s = {} THEN 0 ELSE fs[One(s)].len + f[s \ {One(s)}]]

\* What the fold does with the empty set.
LEMMA SumsNone ==
    ASSUME NEW fs, NEW M, NEW f, Sums(fs, M, f)
    PROVE  f[{}] = 0
  <1> DEFINE G == [t \in SUBSET M |-> IF t = {} THEN 0 ELSE fs[One(t)].len + f[t \ {One(t)}]]
  <1>1. f = G
    BY DEF Sums
  <1>2. G[{}] = 0
    OBVIOUS
  <1> HIDE DEF G
  <1> QED
    BY <1>1, <1>2

Splits(fs, M, f) ==
    \A s \in SUBSET M : s # {} => /\ f[s] = fs[One(s)].len + f[s \ {One(s)}]
                                  /\ One(s) \in s /\ s \ {One(s)} \in SUBSET M

\* What the fold does with a set that is not empty: one element, and the rest.
LEMMA SumsAt ==
    ASSUME NEW fs, NEW M, NEW f, Sums(fs, M, f)
    PROVE  Splits(fs, M, f)
  <1> DEFINE G == [t \in SUBSET M |-> IF t = {} THEN 0 ELSE fs[One(t)].len + f[t \ {One(t)}]]
  <1>1. f = G
    BY DEF Sums
  <1>2. SUFFICES ASSUME NEW s \in SUBSET M, s # {}
                 PROVE  f[s] = fs[One(s)].len + f[s \ {One(s)}] /\ One(s) \in s
    BY DEF Splits
  <1>3. G[s] = fs[One(s)].len + f[s \ {One(s)}]
    BY <1>2
  <1>4. One(s) \in s
    BY <1>2 DEF One
  <1> HIDE DEF G
  <1> QED
    BY <1>1, <1>3, <1>4

\* Two such functions agree on a set they both sum, if the lengths do.
LEMMA SumsAgree ==
    ASSUME NEW fs, NEW gs, NEW M, NEW N, NEW f, NEW g, Sums(fs, M, f), Sums(gs, N, g),
           NEW W, W \in SUBSET M, W \in SUBSET N, IsFiniteSet(W),
           \A i \in W : fs[i].len = gs[i].len
    PROVE  f[W] = g[W]
  <1>1. Splits(fs, M, f)
    BY SumsAt
  <1>2. Splits(gs, N, g)
    BY SumsAt
  <1> DEFINE Bad == {n \in Nat : \E V \in SUBSET W : Cardinality(V) = n /\ f[V] # g[V]}
  <1>3. SUFFICES ASSUME f[W] # g[W] PROVE FALSE
    OBVIOUS
  <1>4. Cardinality(W) \in Nat
    BY FS_CardinalityType
  <1>5. Bad # {}
    BY <1>3, <1>4
  <1>6. PICK n \in Bad : \A m \in Bad : n <= m
    BY <1>5, LeastNat
  <1>7. PICK V \in SUBSET W : Cardinality(V) = n /\ f[V] # g[V]
    BY <1>6
  <1>8. V \in SUBSET M /\ V \in SUBSET N
    BY <1>7
  <1>9. V # {}
    <2>1. f[{}] = 0
      BY SumsNone
    <2>2. g[{}] = 0
      BY SumsNone
    <2> QED
      BY <2>1, <2>2, <1>7
  <1> DEFINE x == One(V)
  <1>10. f[V] = fs[x].len + f[V \ {x}] /\ g[V] = gs[x].len + g[V \ {x}] /\ x \in V
    BY <1>1, <1>2, <1>8, <1>9 DEF Splits
  <1> HIDE DEF x
  <1>11. IsFiniteSet(V)
    BY <1>7, FS_Subset
  <1>12. Cardinality(V \ {x}) = n - 1 /\ n - 1 \in Nat
    <2>1. IsFiniteSet(V \ {x}) /\ Cardinality(V \ {x}) = Cardinality(V) - 1
      BY <1>10, <1>11, FS_RemoveElement
    <2>2. Cardinality(V \ {x}) \in Nat
      BY <2>1, FS_CardinalityType
    <2> QED
      BY <2>1, <2>2, <1>7
  <1>13. n - 1 \notin Bad
    <2>1. n - 1 \in Bad => n <= n - 1
      BY <1>6
    <2>2. n \in Nat
      BY <1>6
    <2> QED
      BY <2>1, <2>2
  <1>14. f[V \ {x}] = g[V \ {x}]
    BY <1>7, <1>12, <1>13
  <1>15. fs[x].len = gs[x].len
    BY <1>7, <1>10
  <1> QED
    BY <1>7, <1>10, <1>14, <1>15

\* There is such a function for a finite set.
LEMMA SumsExist ==
    ASSUME NEW fs, NEW M, IsFiniteSet(M)
    PROVE  \E f : Sums(fs, M, f)
  <1> DEFINE Bad == {n \in Nat : \E V \in SUBSET M : Cardinality(V) = n /\ ~\E f : Sums(fs, V, f)}
  <1>1. SUFFICES ASSUME ~\E f : Sums(fs, M, f) PROVE FALSE
    OBVIOUS
  <1>2. Cardinality(M) \in Nat
    BY FS_CardinalityType
  <1>3. Bad # {}
    BY <1>1, <1>2
  <1>4. PICK n \in Bad : \A m \in Bad : n <= m
    BY <1>3, LeastNat
  <1>5. PICK V \in SUBSET M : Cardinality(V) = n /\ ~\E f : Sums(fs, V, f)
    BY <1>4
  <1>6. IsFiniteSet(V) /\ n \in Nat
    BY <1>4, <1>5, FS_Subset
  <1>7. ASSUME NEW U \in SUBSET V, U # V PROVE IsFiniteSet(U) /\ \E f : Sums(fs, U, f)
    <2>1. IsFiniteSet(U) /\ Cardinality(U) \in Nat /\ Cardinality(U) <= n /\ Cardinality(U) # n
      BY <1>5, <1>6, <1>7, FS_Subset, FS_CardinalityType
    <2>2. Cardinality(U) \in Bad => n <= Cardinality(U)
      BY <1>4
    <2>3. Cardinality(U) \notin Bad
      BY <2>1, <2>2, <1>6
    <2>4. U \in SUBSET M
      BY <1>5
    <2> QED
      BY <2>1, <2>3, <2>4
  <1> DEFINE Of(U) == CHOOSE f : Sums(fs, U, f)
             Val(U) == Of(U)[U]
             F == [s \in SUBSET V |-> IF s = {} THEN 0 ELSE fs[One(s)].len + Val(s \ {One(s)})]
  <1>8. ASSUME NEW U \in SUBSET V, U # V PROVE Sums(fs, U, Of(U)) /\ IsFiniteSet(U)
    <2>1. IsFiniteSet(U) /\ \E f : Sums(fs, U, f)
      BY <1>7, <1>8
    <2> QED
      BY <2>1
  <1> HIDE DEF Of
  <1>9. ASSUME NEW s \in SUBSET V
        PROVE  /\ s = {} => F[s] = 0
               /\ s # {} => /\ F[s] = fs[One(s)].len + Val(s \ {One(s)}) /\ One(s) \in s
                            /\ s \ {One(s)} \in SUBSET V /\ s \ {One(s)} # V
    <2>1. s # {} => One(s) \in s
      BY DEF One
    <2>2. F[s] = IF s = {} THEN 0 ELSE fs[One(s)].len + Val(s \ {One(s)})
      OBVIOUS
    <2> HIDE DEF F, Val
    <2> QED
      BY <2>1, <2>2
  <1> HIDE DEF F
  <1>10. ASSUME NEW t \in SUBSET V, t # V PROVE F[t] = Val(t)
    <2> DEFINE h == Of(t)
    <2>1. Sums(fs, t, h) /\ IsFiniteSet(t) /\ t \in SUBSET t
      BY <1>8, <1>10
    <2> HIDE DEF h
    <2>2. CASE t = {}
      <3>1. h[t] = 0
        BY <2>1, <2>2, SumsNone
      <3> QED
        BY <3>1, <2>2, <1>9 DEF h
    <2>3. CASE t # {}
      <3> DEFINE y == One(t)  r == t \ {y}
      <3>1. h[t] = fs[y].len + h[r] /\ y \in t
        BY <2>1, <2>3, SumsAt DEF Splits
      <3>2. F[t] = fs[y].len + Val(r) /\ r \in SUBSET V /\ r # V
        BY <2>3, <1>9
      <3> HIDE DEF y
      <3>3. Sums(fs, r, Of(r)) /\ IsFiniteSet(r)
        BY <3>2, <1>8
      <3>4. r \in SUBSET t /\ r \in SUBSET r
        OBVIOUS
      <3> HIDE DEF r
      <3>5. h[r] = Of(r)[r]
        BY <3>3, <3>4, <2>1, SumsAgree
      <3> QED
        BY <3>1, <3>2, <3>5 DEF h
    <2> QED
      BY <2>2, <2>3
  <1> HIDE DEF Val
  <1>11. ASSUME NEW s \in SUBSET V
         PROVE  F[s] = IF s = {} THEN 0 ELSE fs[One(s)].len + F[s \ {One(s)}]
    BY <1>9, <1>10
  <1>12. F = [s \in SUBSET V |-> F[s]]
    BY DEF F
  <1>13. Sums(fs, V, F)
    BY <1>11, <1>12 DEF Sums
  <1> QED
    BY <1>13, <1>5

\* The sum of the lengths of the frames M.
SumOf(fs, M) == (CHOOSE f : Sums(fs, M, f))[M]

\* It is what Total computes.
LEMMA TotalIsSum ==
    ASSUME NEW M
    PROVE  Total(M) = SumOf(sent, M)
  BY DEF Total, MapThenSumSet, MapThenFoldSet, SumOf, Sums, One

\* The sum over a set that is not empty: one element, and the rest.
LEMMA SumStep ==
    ASSUME NEW fs, NEW M, IsFiniteSet(M), M # {}
    PROVE  SumOf(fs, M) = fs[One(M)].len + SumOf(fs, M \ {One(M)}) /\ One(M) \in M
  <1> DEFINE f == CHOOSE g : Sums(fs, M, g)
             R == M \ {One(M)}
             h == CHOOSE g : Sums(fs, R, g)
  <1>1. IsFiniteSet(R)
    BY FS_Subset
  <1>2. Sums(fs, M, f)
    BY SumsExist
  <1>3. Sums(fs, R, h)
    <2> HIDE DEF R
    <2>1. \E g : Sums(fs, R, g)
      BY <1>1, SumsExist
    <2> QED
      BY <2>1
  <1> HIDE DEF f, h
  <1>4. f[M] = fs[One(M)].len + f[R] /\ One(M) \in M /\ R \in SUBSET M /\ R \in SUBSET R
    BY <1>2, SumsAt DEF Splits
  <1> HIDE DEF R
  <1>5. f[R] = h[R]
    BY <1>1, <1>2, <1>3, <1>4, SumsAgree
  <1> QED
    BY <1>4, <1>5 DEF SumOf, f, h, R

\* The sum over no frames, and one more frame.
LEMMA SumAdd ==
    ASSUME NEW fs, NEW M, NEW z, z \notin M, IsFiniteSet(M),
           \A i \in M \cup {z} : fs[i].len \in Nat
    PROVE  /\ SumOf(fs, {}) = 0
           /\ SumOf(fs, M) \in Nat
           /\ SumOf(fs, M \cup {z}) = SumOf(fs, M) + fs[z].len
  <1> DEFINE U == M \cup {z}
             Good(V) == /\ SumOf(fs, V) \in Nat
                        /\ \A x \in U \ V : SumOf(fs, V \cup {x}) = SumOf(fs, V) + fs[x].len
             Bad == {n \in Nat : \E V \in SUBSET U : Cardinality(V) = n /\ ~Good(V)}
  <1>1. SumOf(fs, {}) = 0
    <2> DEFINE f == CHOOSE g : Sums(fs, {}, g)
    <2>1. \E g : Sums(fs, {}, g)
      BY SumsExist, FS_EmptySet
    <2>2. Sums(fs, {}, f)
      BY <2>1
    <2> HIDE DEF f
    <2>3. f[{}] = 0
      BY <2>2, SumsNone
    <2> QED
      BY <2>3 DEF SumOf, f
  <1>2. IsFiniteSet(U)
    BY FS_AddElement
  <1>3. Bad = {}
    <2>1. SUFFICES ASSUME Bad # {} PROVE FALSE
      OBVIOUS
    <2>2. PICK n \in Bad : \A m \in Bad : n <= m
      BY <2>1, LeastNat
    <2>3. PICK V \in SUBSET U : Cardinality(V) = n /\ ~Good(V)
      BY <2>2
    <2>4. IsFiniteSet(V) /\ n \in Nat
      BY <2>2, <2>3, <1>2, FS_Subset
    <2>5. ASSUME NEW c \in V PROVE Good(V \ {c})
      <3>1. IsFiniteSet(V \ {c}) /\ Cardinality(V \ {c}) = n - 1 /\ Cardinality(V \ {c}) \in Nat
        BY <2>3, <2>4, FS_RemoveElement, FS_CardinalityType
      <3>2. n - 1 \in Bad => n <= n - 1
        BY <2>2
      <3>3. n - 1 \notin Bad
        BY <3>2, <2>4
      <3>4. V \ {c} \in SUBSET U
        BY <2>3
      <3> HIDE DEF Good
      <3> QED
        BY <3>1, <3>3, <3>4
    <2>6. SumOf(fs, V) \in Nat
      <3>1. CASE V = {}
        BY <3>1, <1>1
      <3>2. CASE V # {}
        <4> DEFINE c == One(V)
        <4>1. SumOf(fs, V) = fs[c].len + SumOf(fs, V \ {c}) /\ c \in V
          BY <3>2, <2>4, SumStep
        <4> HIDE DEF c
        <4>2. SumOf(fs, V \ {c}) \in Nat
          BY <4>1, <2>5
        <4>3. fs[c].len \in Nat
          BY <4>1, <2>3
        <4> QED
          BY <4>1, <4>2, <4>3
      <3> QED
        BY <3>1, <3>2
    <2>7. ASSUME NEW x \in U \ V PROVE SumOf(fs, V \cup {x}) = SumOf(fs, V) + fs[x].len
      <3> DEFINE W == V \cup {x}  c == One(W)
      <3>1. IsFiniteSet(W) /\ W # {}
        BY <2>4, FS_AddElement
      <3>2. SumOf(fs, W) = fs[c].len + SumOf(fs, W \ {c}) /\ c \in W
        <4> HIDE DEF W
        <4> QED
          BY <3>1, SumStep
      <3> HIDE DEF c
      <3>3. fs[x].len \in Nat /\ fs[c].len \in Nat
        BY <3>2, <2>3, <2>7
      <3>4. CASE c = x
        <4>1. W \ {c} = V
          BY <3>4
        <4> QED
          <5>1. SumOf(fs, W) = fs[x].len + SumOf(fs, V)
            BY <4>1, <3>2, <3>4
          <5> HIDE DEF W
          <5>2. SumOf(fs, W) = SumOf(fs, V) + fs[x].len
            BY <5>1, <3>3, <2>6
          <5> QED
            BY <5>2 DEF W
      <3>5. CASE c # x
        <4>1. c \in V /\ W \ {c} = (V \ {c}) \cup {x} /\ x \in U \ (V \ {c}) /\ c \in U \ (V \ {c})
              /\ (V \ {c}) \cup {c} = V
          BY <3>5, <3>2, <2>3
        <4>2. Good(V \ {c})
          BY <4>1, <2>5
        <4>3. /\ SumOf(fs, (V \ {c}) \cup {x}) = SumOf(fs, V \ {c}) + fs[x].len
              /\ SumOf(fs, (V \ {c}) \cup {c}) = SumOf(fs, V \ {c}) + fs[c].len
              /\ SumOf(fs, V \ {c}) \in Nat
          BY <4>1, <4>2
        <4>4. /\ SumOf(fs, W) = fs[c].len + (SumOf(fs, V \ {c}) + fs[x].len)
              /\ SumOf(fs, V) = SumOf(fs, V \ {c}) + fs[c].len
          BY <4>1, <4>3, <3>2
        <4> HIDE DEF W
        <4>5. SumOf(fs, W) = SumOf(fs, V) + fs[x].len
          BY <4>3, <4>4, <3>3
        <4> QED
          BY <4>5 DEF W
      <3> QED
        BY <3>4, <3>5
    <2> QED
      BY <2>3, <2>6, <2>7
  <1>4. Cardinality(M) \in Nat /\ M \in SUBSET U
    BY FS_CardinalityType
  <1>5. Good(M)
    <2> HIDE DEF Good
    <2> QED
      BY <1>3, <1>4
  <1> QED
    BY <1>1, <1>5

\* The sum depends on the lengths of its frames only.
LEMMA SumSame ==
    ASSUME NEW fs, NEW gs, NEW M, IsFiniteSet(M), \A i \in M : fs[i].len = gs[i].len
    PROVE  SumOf(fs, M) = SumOf(gs, M)
  <1> DEFINE f == CHOOSE h : Sums(fs, M, h)
             g == CHOOSE h : Sums(gs, M, h)
  <1>1. (\E h : Sums(fs, M, h)) /\ (\E h : Sums(gs, M, h))
    BY SumsExist
  <1>2. Sums(fs, M, f) /\ Sums(gs, M, g)
    BY <1>1
  <1> HIDE DEF f, g
  <1>3. M \in SUBSET M
    OBVIOUS
  <1>4. f[M] = g[M]
    BY <1>2, <1>3, SumsAgree
  <1> QED
    BY <1>4 DEF SumOf, f, g

(***************************************************************************)
(* The messages of the frames fs, of which the guard has decided d.  A     *)
(* message is named by its first frame.                                    *)
(***************************************************************************)
Begun(fs, d) == {f \in 1..d : fs[f].op = "data"}

\* The frames of the message that f begins, among the first d.
SoFar(fs, f, d) ==
    {k \in f..d : Data(fs, k) /\ \A j \in f..(k - 1) : Data(fs, j) => ~fs[j].fin}

\* f begins the last message.
Latest(fs, f, d) == f \in Begun(fs, d) /\ \A k \in (f + 1)..d : fs[k].op # "data"

\* A message is open after the first d frames: the last data frame is not its
\* message's last.
OpenAt(fs, d) ==
    \E j \in 1..d : /\ Data(fs, j) /\ ~fs[j].fin
                    /\ \A k \in (j + 1)..d : ~Data(fs, k)

\* The first d frames are as RFC 6455 has them.
Formed(fs, d) ==
    \A i \in 1..d : Data(fs, i) => (fs[i].op = "cont" <=> OpenAt(fs, i - 1))

Whole(fs, m) == \E k \in m : fs[k].fin

\* A set of natural numbers with a bound has a greatest element.
LEMMA GreatestNat ==
    ASSUME NEW S \in SUBSET Nat, S # {}, NEW d \in Nat, \A x \in S : x <= d
    PROVE  \E n \in S : \A m \in S : m <= n
  <1> DEFINE B == {n \in Nat : \A x \in S : x <= n}
  <1>1. B # {}
    OBVIOUS
  <1>2. PICK n \in B : \A m \in B : n <= m
    BY <1>1, LeastNat
  <1>3. n \in Nat /\ \A x \in S : x <= n
    BY <1>2
  <1>4. n \in S
    <2>1. SUFFICES ASSUME n \notin S PROVE FALSE
      OBVIOUS
    <2>2. PICK x \in S : TRUE
      OBVIOUS
    <2>3. \A y \in S : y \in Nat /\ y <= n /\ y # n
      BY <2>1, <1>3
    <2>4. n - 1 \in Nat /\ \A y \in S : y <= n - 1
      BY <2>2, <2>3, <1>3
    <2>5. n - 1 \in B
      BY <2>4
    <2>6. n <= n - 1
      BY <2>5, <1>2
    <2> QED
      BY <2>6, <1>3
  <1> QED
    BY <1>3, <1>4

\* After a message's last frame, the next data frame begins a message.
LEMMA NextBegins ==
    ASSUME NEW fs, NEW d \in Nat, Formed(fs, d), NEW k \in 1..d, NEW i \in 1..d, k < i,
           Data(fs, k), fs[k].fin, Data(fs, i)
    PROVE  \E n \in (k + 1)..i : fs[n].op = "data"
  <1> DEFINE S == {n \in (k + 1)..i : Data(fs, n)}
  <1>1. S \in SUBSET Nat /\ i \in S
    OBVIOUS
  <1>2. PICK n \in S : \A m \in S : n <= m
    BY <1>1, LeastNat
  <1>3. n \in Nat /\ k + 1 <= n /\ n <= i /\ n \in 1..d /\ Data(fs, n)
    BY <1>2
  <1>4. ~OpenAt(fs, n - 1)
    <2>1. SUFFICES ASSUME NEW j \in 1..(n - 1), Data(fs, j), ~fs[j].fin,
                          \A m \in (j + 1)..(n - 1) : ~Data(fs, m)
                   PROVE  FALSE
      BY DEF OpenAt
    <2>2. j # k
      BY <2>1
    <2>3. CASE j < k
      <3>1. k \in (j + 1)..(n - 1)
        BY <2>3, <1>3
      <3> QED
        BY <3>1, <2>1
    <2>4. CASE j > k
      <3>1. j \in S /\ j < n
        BY <2>1, <2>4, <1>3
      <3>2. n <= j
        BY <3>1, <1>2
      <3> QED
        BY <3>1, <3>2, <1>3
    <2> QED
      BY <2>2, <2>3, <2>4
  <1>5. fs[n].op # "cont"
    BY <1>3, <1>4 DEF Formed
  <1> QED
    BY <1>3, <1>5 DEF Data

\* Every data frame is in the message that the last first frame begins.
LEMMA InMessage ==
    ASSUME NEW fs, NEW d \in Nat, Formed(fs, d), NEW i \in 1..d, Data(fs, i)
    PROVE  \E f \in 1..i : /\ fs[f].op = "data" /\ \A k \in (f + 1)..i : fs[k].op # "data"
                           /\ \A j \in f..(i - 1) : Data(fs, j) => ~fs[j].fin
  <1>1. \E g \in 1..i : fs[g].op = "data"
    <2> DEFINE S == {n \in 1..i : Data(fs, n)}
    <2>1. S \in SUBSET Nat /\ i \in S
      OBVIOUS
    <2>2. PICK n \in S : \A m \in S : n <= m
      BY <2>1, LeastNat
    <2>3. n \in 1..i /\ n \in 1..d /\ Data(fs, n) /\ n \in Nat
      BY <2>2
    <2>4. ~OpenAt(fs, n - 1)
      <3>1. SUFFICES ASSUME NEW j \in 1..(n - 1), Data(fs, j) PROVE FALSE
        BY DEF OpenAt
      <3>2. j \in S /\ j < n
        BY <3>1, <2>3
      <3>3. n <= j
        BY <3>2, <2>2
      <3> QED
        BY <3>2, <3>3, <2>3
    <2>5. fs[n].op # "cont"
      BY <2>3, <2>4 DEF Formed
    <2> QED
      BY <2>3, <2>5 DEF Data
  <1> DEFINE B == {g \in 1..i : fs[g].op = "data"}
  <1>2. B \in SUBSET Nat /\ B # {} /\ i \in Nat /\ \A g \in B : g <= i
    BY <1>1
  <1>3. PICK f \in B : \A g \in B : g <= f
    BY <1>2, GreatestNat
  <1>4. f \in 1..i /\ fs[f].op = "data" /\ f \in Nat
    BY <1>3
  <1>5. ASSUME NEW k \in (f + 1)..i PROVE fs[k].op # "data"
    <2>1. k \in B => k <= f
      BY <1>3
    <2>2. k \in 1..i /\ ~(k <= f)
      BY <1>4
    <2> QED
      BY <2>1, <2>2
  <1>6. ASSUME NEW j \in f..(i - 1), Data(fs, j), fs[j].fin PROVE FALSE
    <2>1. j \in 1..d /\ j < i
      BY <1>4
    <2>2. PICK n \in (j + 1)..i : fs[n].op = "data"
      BY <2>1, <1>6, NextBegins
    <2>3. n \in (f + 1)..i
      BY <2>2, <1>4
    <2> QED
      BY <2>2, <2>3, <1>5
  <1> QED
    BY <1>4, <1>5, <1>6

\* With no message open, every message has ended.
LEMMA AllEnded ==
    ASSUME NEW fs, NEW d \in Nat, ~OpenAt(fs, d), NEW f \in Begun(fs, d)
    PROVE  \E j \in f..d : Data(fs, j) /\ fs[j].fin
  <1> DEFINE S == {j \in 1..d : Data(fs, j)}
  <1>1. f \in 1..d /\ Data(fs, f)
    BY DEF Begun, Data
  <1>2. S \in SUBSET Nat /\ S # {} /\ \A x \in S : x <= d
    BY <1>1
  <1>3. PICK j \in S : \A m \in S : m <= j
    BY <1>2, GreatestNat
  <1>4. j \in 1..d /\ Data(fs, j) /\ j \in Nat
    BY <1>3
  <1>5. ASSUME NEW k \in (j + 1)..d PROVE ~Data(fs, k)
    <2>1. k \in S => k <= j
      BY <1>3
    <2>2. k \in 1..d /\ ~(k <= j)
      BY <1>4
    <2> QED
      BY <2>1, <2>2
  <1>6. fs[j].fin
    BY <1>4, <1>5 DEF OpenAt
  <1>7. f <= j
    BY <1>1, <1>3
  <1> QED
    BY <1>1, <1>4, <1>6, <1>7

\* What a message has so far: frames already decided, its first among them.
LEMMA SoFarType ==
    ASSUME NEW fs, NEW d \in Nat, NEW f \in Begun(fs, d)
    PROVE  /\ f \in SoFar(fs, f, d) /\ SoFar(fs, f, d) \in SUBSET (1..d)
           /\ IsFiniteSet(SoFar(fs, f, d)) /\ f \in 1..d
  <1>1. f \in 1..d /\ Data(fs, f)
    BY DEF Begun, Data
  <1>2. f \in SoFar(fs, f, d) /\ SoFar(fs, f, d) \in SUBSET (1..d)
    BY <1>1 DEF SoFar
  <1>3. IsFiniteSet(1..d)
    BY FS_Interval
  <1> QED
    BY <1>1, <1>2, <1>3, FS_Subset

\* No frame is in two messages.
LEMMA SoFarApart ==
    ASSUME NEW fs, NEW d \in Nat, Formed(fs, d),
           NEW f \in Begun(fs, d), NEW g \in Begun(fs, d), f # g
    PROVE  SoFar(fs, f, d) \cap SoFar(fs, g, d) = {}
  <1>1. ASSUME NEW a \in Begun(fs, d), NEW b \in Begun(fs, d), a < b
        PROVE  SoFar(fs, a, d) \cap SoFar(fs, b, d) = {}
    <2>1. a \in 1..d /\ b \in 1..d /\ fs[a].op = "data" /\ fs[b].op = "data" /\ Data(fs, b)
      BY DEF Begun, Data
    <2>2. ~OpenAt(fs, b - 1)
      BY <2>1 DEF Formed
    <2>3. b - 1 \in Nat /\ a \in Begun(fs, b - 1)
      BY <2>1, <1>1 DEF Begun
    <2>4. PICK j \in a..(b - 1) : Data(fs, j) /\ fs[j].fin
      BY <2>2, <2>3, AllEnded
    <2>5. SUFFICES ASSUME NEW k \in SoFar(fs, a, d), k \in SoFar(fs, b, d) PROVE FALSE
      OBVIOUS
    <2>6. k \in b..d /\ \A i \in a..(k - 1) : Data(fs, i) => ~fs[i].fin
      BY <2>5 DEF SoFar
    <2>7. j \in a..(k - 1)
      BY <2>1, <2>4, <2>6
    <2> QED
      BY <2>4, <2>6, <2>7
  <1>2. f \in Nat /\ g \in Nat
    BY DEF Begun
  <1>3. CASE f < g
    BY <1>1, <1>3
  <1>4. CASE g < f
    BY <1>1, <1>4
  <1> QED
    BY <1>2, <1>3, <1>4

\* One more frame, not of data: the messages are as they were.
LEMMA NextControl ==
    ASSUME NEW fs, NEW d \in Nat, ~Data(fs, d + 1)
    PROVE  /\ Begun(fs, d + 1) = Begun(fs, d)
           /\ \A f \in Begun(fs, d) : /\ SoFar(fs, f, d + 1) = SoFar(fs, f, d)
                                      /\ Latest(fs, f, d + 1) <=> Latest(fs, f, d)
           /\ OpenAt(fs, d + 1) <=> OpenAt(fs, d)
  <1>1. Begun(fs, d + 1) = Begun(fs, d)
    BY DEF Begun, Data
  <1>2. ASSUME NEW f \in Begun(fs, d) PROVE SoFar(fs, f, d + 1) = SoFar(fs, f, d)
    <2>1. f \in 1..d
      BY DEF Begun
    <2> QED
      BY <2>1 DEF SoFar
  <1>3. ASSUME NEW f \in Begun(fs, d) PROVE Latest(fs, f, d + 1) <=> Latest(fs, f, d)
    <2>1. f \in 1..d
      BY DEF Begun
    <2>2. fs[d + 1].op # "data"
      BY DEF Data
    <2>3. (\A k \in (f + 1)..(d + 1) : fs[k].op # "data") <=> \A k \in (f + 1)..d : fs[k].op # "data"
      BY <2>1, <2>2
    <2> QED
      BY <1>1, <2>3 DEF Latest
  <1>4. OpenAt(fs, d + 1) => OpenAt(fs, d)
    <2>1. SUFFICES ASSUME NEW j \in 1..(d + 1), Data(fs, j), ~fs[j].fin,
                          \A k \in (j + 1)..(d + 1) : ~Data(fs, k)
                   PROVE  OpenAt(fs, d)
      BY DEF OpenAt
    <2>2. j \in 1..d
      <3>1. j # d + 1
        BY <2>1
      <3> QED
        BY <3>1
    <2>3. \A k \in (j + 1)..d : ~Data(fs, k)
      BY <2>1, <2>2
    <2> QED
      BY <2>1, <2>2, <2>3 DEF OpenAt
  <1>5. OpenAt(fs, d) => OpenAt(fs, d + 1)
    <2>1. SUFFICES ASSUME NEW j \in 1..d, Data(fs, j), ~fs[j].fin,
                          \A k \in (j + 1)..d : ~Data(fs, k)
                   PROVE  OpenAt(fs, d + 1)
      BY DEF OpenAt
    <2>2. \A k \in (j + 1)..(d + 1) : ~Data(fs, k)
      BY <2>1
    <2> QED
      BY <2>1, <2>2 DEF OpenAt
  <1> QED
    BY <1>1, <1>2, <1>3, <1>4, <1>5

\* After a data frame a message is open unless that frame is final.
LEMMA OpenByFin ==
    ASSUME NEW fs, NEW d \in Nat, Data(fs, d + 1)
    PROVE  OpenAt(fs, d + 1) <=> ~fs[d + 1].fin
  <1>1. ASSUME OpenAt(fs, d + 1) PROVE ~fs[d + 1].fin
    <2>1. PICK j \in 1..(d + 1) : Data(fs, j) /\ ~fs[j].fin /\ \A k \in (j + 1)..(d + 1) : ~Data(fs, k)
      BY <1>1 DEF OpenAt
    <2>2. j # d + 1 => d + 1 \in (j + 1)..(d + 1)
      OBVIOUS
    <2> QED
      BY <2>1, <2>2
  <1>2. ASSUME ~fs[d + 1].fin PROVE OpenAt(fs, d + 1)
    BY <1>2 DEF OpenAt
  <1> QED
    BY <1>1, <1>2

\* One more frame, the first of a message: the others are as they were.
LEMMA NextNew ==
    ASSUME NEW fs, NEW d \in Nat, ~OpenAt(fs, d), fs[d + 1].op = "data"
    PROVE  /\ Begun(fs, d + 1) = Begun(fs, d) \cup {d + 1}
           /\ \A f \in Begun(fs, d) : /\ SoFar(fs, f, d + 1) = SoFar(fs, f, d)
                                      /\ ~Latest(fs, f, d + 1) /\ f # d + 1
           /\ SoFar(fs, d + 1, d + 1) = {d + 1} /\ Latest(fs, d + 1, d + 1)
  <1>1. Begun(fs, d + 1) = Begun(fs, d) \cup {d + 1}
    BY DEF Begun
  <1>2. ASSUME NEW f \in Begun(fs, d) PROVE SoFar(fs, f, d + 1) = SoFar(fs, f, d)
    <2>1. f \in 1..d
      BY DEF Begun
    <2>2. PICK j \in f..d : Data(fs, j) /\ fs[j].fin
      BY AllEnded
    <2>3. d + 1 \notin SoFar(fs, f, d + 1)
      BY <2>1, <2>2 DEF SoFar
    <2>4. ASSUME NEW k, k \in SoFar(fs, f, d + 1) PROVE k \in SoFar(fs, f, d)
      <3>1. k # d + 1
        BY <2>3, <2>4
      <3> QED
        BY <3>1, <2>1, <2>4 DEF SoFar
    <2>5. ASSUME NEW k, k \in SoFar(fs, f, d) PROVE k \in SoFar(fs, f, d + 1)
      BY <2>1, <2>5 DEF SoFar
    <2> QED
      BY <2>4, <2>5
  <1>3. ASSUME NEW f \in Begun(fs, d) PROVE ~Latest(fs, f, d + 1) /\ f # d + 1
    <2>1. f \in 1..d
      BY DEF Begun
    <2>2. d + 1 \in (f + 1)..(d + 1)
      BY <2>1
    <2> QED
      BY <2>1, <2>2 DEF Latest
  <1>4. SoFar(fs, d + 1, d + 1) = {d + 1}
    BY DEF SoFar, Data
  <1>5. Latest(fs, d + 1, d + 1)
    <2>1. ASSUME NEW k \in (d + 2)..(d + 1) PROVE FALSE
      OBVIOUS
    <2>2. d + 1 + 1 = d + 2
      OBVIOUS
    <2> QED
      BY <1>1, <2>1, <2>2 DEF Latest
  <1> QED
    BY <1>1, <1>2, <1>3, <1>4, <1>5

\* With a message open, it is the last one begun, none of its frames is
\* final, and every other has ended.
LEMMA OpenLatest ==
    ASSUME NEW fs, NEW d \in Nat, Formed(fs, d), OpenAt(fs, d)
    PROVE  \E f \in Begun(fs, d) :
              /\ Latest(fs, f, d)
              /\ \A j \in f..d : Data(fs, j) => ~fs[j].fin
              /\ \A g \in Begun(fs, d) : g # f =>
                    g < f /\ \E j \in g..(f - 1) : Data(fs, j) /\ fs[j].fin
  <1>1. PICK i \in 1..d : Data(fs, i) /\ ~fs[i].fin /\ \A k \in (i + 1)..d : ~Data(fs, k)
    BY DEF OpenAt
  <1>2. PICK f \in 1..i : /\ fs[f].op = "data" /\ \A k \in (f + 1)..i : fs[k].op # "data"
                          /\ \A j \in f..(i - 1) : Data(fs, j) => ~fs[j].fin
    BY <1>1, InMessage
  <1>3. f \in Begun(fs, d) /\ f \in 1..d /\ Data(fs, f)
    BY <1>2 DEF Begun, Data
  <1>4. Latest(fs, f, d)
    <2>1. ASSUME NEW k \in (f + 1)..d PROVE fs[k].op # "data"
      <3>1. CASE k <= i
        BY <3>1, <1>2
      <3>2. CASE k > i
        BY <3>2, <1>1 DEF Data
      <3> QED
        BY <3>1, <3>2
    <2> QED
      BY <2>1, <1>3 DEF Latest
  <1>5. ASSUME NEW j \in f..d, Data(fs, j) PROVE ~fs[j].fin
    <2>1. j <= i
      BY <1>1, <1>5, <1>2
    <2>2. j = i \/ j \in f..(i - 1)
      BY <2>1, <1>2
    <2> QED
      BY <2>2, <1>1, <1>2, <1>5
  <1>6. ASSUME NEW g \in Begun(fs, d), g # f
        PROVE  g < f /\ \E j \in g..(f - 1) : Data(fs, j) /\ fs[j].fin
    <2>1. g \in 1..d /\ fs[g].op = "data"
      BY DEF Begun
    <2>2. g < f
      <3>1. g \notin (f + 1)..d
        BY <2>1, <1>4 DEF Latest
      <3> QED
        BY <3>1, <2>1, <1>6, <1>3
    <2>3. ~OpenAt(fs, f - 1)
      BY <1>3, <1>2 DEF Formed
    <2>4. f - 1 \in Nat /\ g \in Begun(fs, f - 1)
      BY <2>1, <2>2, <1>3 DEF Begun
    <2> QED
      BY <2>2, <2>3, <2>4, AllEnded
  <1> QED
    BY <1>3, <1>4, <1>5, <1>6

\* One more frame, a continuation: the open message has it, the others are as
\* they were.
LEMMA NextCont ==
    ASSUME NEW fs, NEW d \in Nat, Formed(fs, d), OpenAt(fs, d), fs[d + 1].op = "cont"
    PROVE  /\ Begun(fs, d + 1) = Begun(fs, d)
           /\ \A f \in Begun(fs, d) : Latest(fs, f, d + 1) <=> Latest(fs, f, d)
           /\ \E f \in Begun(fs, d) :
                 /\ Latest(fs, f, d) /\ ~Whole(fs, SoFar(fs, f, d))
                 /\ SoFar(fs, f, d + 1) = SoFar(fs, f, d) \cup {d + 1}
                 /\ \A g \in Begun(fs, d) : g # f =>
                       ~Latest(fs, g, d) /\ SoFar(fs, g, d + 1) = SoFar(fs, g, d)
  <1>1. Begun(fs, d + 1) = Begun(fs, d)
    BY DEF Begun
  <1>2. ASSUME NEW f \in Begun(fs, d) PROVE Latest(fs, f, d + 1) <=> Latest(fs, f, d)
    <2>1. f \in 1..d
      BY DEF Begun
    <2>2. fs[d + 1].op # "data"
      OBVIOUS
    <2>3. (\A k \in (f + 1)..(d + 1) : fs[k].op # "data") <=> \A k \in (f + 1)..d : fs[k].op # "data"
      BY <2>1, <2>2
    <2> QED
      BY <1>1, <2>3 DEF Latest
  <1>3. PICK f \in Begun(fs, d) :
              /\ Latest(fs, f, d)
              /\ \A j \in f..d : Data(fs, j) => ~fs[j].fin
              /\ \A g \in Begun(fs, d) : g # f =>
                    g < f /\ \E j \in g..(f - 1) : Data(fs, j) /\ fs[j].fin
    BY OpenLatest
  <1>4. f \in 1..d /\ fs[f].op = "data"
    BY DEF Begun
  <1>5. ~Whole(fs, SoFar(fs, f, d))
    BY <1>3 DEF Whole, SoFar
  <1>6. SoFar(fs, f, d + 1) = SoFar(fs, f, d) \cup {d + 1}
    <2>1. d + 1 \in SoFar(fs, f, d + 1)
      BY <1>3, <1>4 DEF SoFar, Data
    <2>2. ASSUME NEW k \in SoFar(fs, f, d + 1), k # d + 1 PROVE k \in SoFar(fs, f, d)
      BY <2>2, <1>4 DEF SoFar
    <2>3. ASSUME NEW k \in SoFar(fs, f, d) PROVE k \in SoFar(fs, f, d + 1)
      BY <1>4 DEF SoFar
    <2> QED
      BY <2>1, <2>2, <2>3
  <1>7. ASSUME NEW g \in Begun(fs, d), g # f
        PROVE  ~Latest(fs, g, d) /\ SoFar(fs, g, d + 1) = SoFar(fs, g, d)
    <2>1. g \in 1..d /\ g < f
      BY <1>3, <1>7 DEF Begun
    <2>2. PICK j \in g..(f - 1) : Data(fs, j) /\ fs[j].fin
      BY <1>3, <1>7
    <2>3. ~Latest(fs, g, d)
      <3>1. f \in (g + 1)..d
        BY <2>1, <1>4
      <3> QED
        BY <3>1, <1>4 DEF Latest
    <2>4. d + 1 \notin SoFar(fs, g, d + 1)
      <3>1. j \in g..d
        BY <2>2, <1>4
      <3> QED
        BY <3>1, <2>2 DEF SoFar
    <2>5. ASSUME NEW k \in SoFar(fs, g, d + 1) PROVE k \in SoFar(fs, g, d)
      <3>1. k # d + 1
        BY <2>4, <2>5
      <3> QED
        BY <3>1, <2>1 DEF SoFar
    <2>6. ASSUME NEW k \in SoFar(fs, g, d) PROVE k \in SoFar(fs, g, d + 1)
      BY <2>1 DEF SoFar
    <2> QED
      BY <2>3, <2>5, <2>6
  <1> QED
    BY <1>1, <1>2, <1>3, <1>5, <1>6, <1>7

(***************************************************************************)
(* What the guard does with the messages, when the first d frames of fs    *)
(* are well formed: ph is where the last message stands, len and held what *)
(* is counted and held of it, given the frames handed on, and drops the    *)
(* count.  The last message is Closing from its last frame's header until  *)
(* it is released, and Lost when an illegal frame cuts it off.             *)
(***************************************************************************)
OverSet(fs, d) == {f \in Begun(fs, d) : SumOf(fs, SoFar(fs, f, d)) > Cap}

\* A message is held, or over the cap and none of it given, or within it and
\* given whole, or lost.
Fate(fs, f, d, ph, len, held, given) ==
    LET m == SoFar(fs, f, d) IN
    IF Latest(fs, f, d) /\ ph \in {"Holding", "Closing"}
    THEN /\ m = held /\ m \cap given = {}
         /\ SumOf(fs, m) = len /\ len <= Cap
         /\ Whole(fs, m) <=> ph = "Closing"
    ELSE \/ SumOf(fs, m) > Cap /\ m \cap given = {}
         \/ SumOf(fs, m) <= Cap /\ m \subseteq given /\ Whole(fs, m)
         \/ Latest(fs, f, d) /\ ph = "Lost" /\ m \cap given = {}

MessagesOK(fs, d, ph, len, held, given, drops) ==
    /\ given \subseteq 1..d
    /\ \A i \in 1..d : ~Data(fs, i) => i \in given
    /\ \A f \in Begun(fs, d) : Fate(fs, f, d, ph, len, held, given)
    /\ ph \in {"None", "Closing"} => ~OpenAt(fs, d)
    /\ ph \in {"Skipping", "Holding"} => OpenAt(fs, d)
    /\ ph \in {"Holding", "Closing"} => \E f \in Begun(fs, d) : Latest(fs, f, d)
    /\ drops = Cardinality(OverSet(fs, d))

LensTo(fs, d) == \A i \in 1..d : fs[i].len \in Nat

\* The bytes of a message are a number, and one more frame adds its length.
LEMMA SoFarSum ==
    ASSUME NEW fs, NEW d \in Nat, LensTo(fs, d + 1), NEW f \in Begun(fs, d)
    PROVE  /\ SumOf(fs, SoFar(fs, f, d)) \in Nat
           /\ SumOf(fs, SoFar(fs, f, d) \cup {d + 1}) = SumOf(fs, SoFar(fs, f, d)) + fs[d + 1].len
           /\ fs[d + 1].len \in Nat
  <1> DEFINE M == SoFar(fs, f, d)
  <1>1. M \in SUBSET (1..d) /\ IsFiniteSet(M)
    BY SoFarType
  <1> HIDE DEF M
  <1>2. d + 1 \notin M /\ \A i \in M \cup {d + 1} : fs[i].len \in Nat
    BY <1>1 DEF LensTo
  <1>3. SumOf(fs, M) \in Nat /\ SumOf(fs, M \cup {d + 1}) = SumOf(fs, M) + fs[d + 1].len
    BY <1>1, <1>2, SumAdd
  <1> QED
    BY <1>2, <1>3 DEF M

\* The sum of one frame.
LEMMA SumOne ==
    ASSUME NEW fs, NEW i, fs[i].len \in Nat
    PROVE  SumOf(fs, {i}) = fs[i].len
  <1>1. SumOf(fs, {}) = 0 /\ SumOf(fs, {} \cup {i}) = SumOf(fs, {}) + fs[i].len
    BY SumAdd, FS_EmptySet
  <1>2. {} \cup {i} = {i}
    OBVIOUS
  <1> QED
    BY <1>1, <1>2

\* The messages over the cap are finitely many.
LEMMA OverFinite ==
    ASSUME NEW fs, NEW d \in Nat
    PROVE  IsFiniteSet(OverSet(fs, d)) /\ Cardinality(OverSet(fs, d)) \in Nat
  <1>1. IsFiniteSet(1..d) /\ OverSet(fs, d) \subseteq 1..d
    BY FS_Interval DEF OverSet, Begun
  <1> QED
    BY <1>1, FS_Subset, FS_CardinalityType

\* A control frame is handed on.
LEMMA OnControl ==
    ASSUME NEW fs, NEW d \in Nat, NEW ph, NEW len, NEW held, NEW given, NEW drops,
           MessagesOK(fs, d, ph, len, held, given, drops), ~Data(fs, d + 1)
    PROVE  MessagesOK(fs, d + 1, ph, len, held, given \cup {d + 1}, drops)
  <1>1. /\ Begun(fs, d + 1) = Begun(fs, d)
        /\ \A f \in Begun(fs, d) : /\ SoFar(fs, f, d + 1) = SoFar(fs, f, d)
                                   /\ Latest(fs, f, d + 1) <=> Latest(fs, f, d)
        /\ OpenAt(fs, d + 1) <=> OpenAt(fs, d)
    BY NextControl
  <1>2. OverSet(fs, d + 1) = OverSet(fs, d)
    BY <1>1 DEF OverSet
  <1>3. ASSUME NEW f \in Begun(fs, d)
        PROVE  Fate(fs, f, d + 1, ph, len, held, given \cup {d + 1})
    <2>1. Fate(fs, f, d, ph, len, held, given)
      BY DEF MessagesOK
    <2>2. SoFar(fs, f, d) \in SUBSET (1..d) /\ d + 1 \notin 1..d
      BY SoFarType
    <2>3. SoFar(fs, f, d) \cap (given \cup {d + 1}) = SoFar(fs, f, d) \cap given
      BY <2>2
    <2>4. SoFar(fs, f, d) \subseteq given => SoFar(fs, f, d) \subseteq given \cup {d + 1}
      OBVIOUS
    <2> QED
      BY <2>1, <2>3, <2>4, <1>1 DEF Fate
  <1>4. given \cup {d + 1} \subseteq 1..(d + 1)
    BY DEF MessagesOK
  <1>5. ASSUME NEW i \in 1..(d + 1), ~Data(fs, i) PROVE i \in given \cup {d + 1}
    <2>1. i = d + 1 \/ i \in 1..d
      OBVIOUS
    <2> QED
      BY <2>1, <1>5 DEF MessagesOK
  <1> QED
    BY <1>1, <1>2, <1>3, <1>4, <1>5 DEF MessagesOK

\* What a first frame leaves as it was.
NewLeaves(fs, d, ph, len, held, given, given2) ==
    /\ given2 \subseteq 1..(d + 1)
    /\ \A i \in 1..(d + 1) : ~Data(fs, i) => i \in given2
    /\ \A f \in Begun(fs, d) : Fate(fs, f, d + 1, ph, len, held, given2)
    /\ Begun(fs, d + 1) = Begun(fs, d) \cup {d + 1}
    /\ \A f \in Begun(fs, d) : SoFar(fs, f, d + 1) = SoFar(fs, f, d) /\ f # d + 1
    /\ SoFar(fs, d + 1, d + 1) = {d + 1} /\ Latest(fs, d + 1, d + 1)
    /\ OpenAt(fs, d + 1) <=> ~fs[d + 1].fin
    /\ d + 1 \notin given

\* With no message open, a first frame leaves the others as they were.
LEMMA OthersOnNew ==
    ASSUME NEW fs, NEW d \in Nat, NEW len, NEW held, NEW given, NEW drops,
           MessagesOK(fs, d, "None", len, held, given, drops), fs[d + 1].op = "data",
           NEW ph, NEW len2, NEW held2, NEW given2,
           given2 = given \/ given2 = given \cup {d + 1}
    PROVE  NewLeaves(fs, d, ph, len2, held2, given, given2)
  <1>1. ~OpenAt(fs, d)
    BY DEF MessagesOK
  <1>2. /\ Begun(fs, d + 1) = Begun(fs, d) \cup {d + 1}
        /\ \A f \in Begun(fs, d) : /\ SoFar(fs, f, d + 1) = SoFar(fs, f, d)
                                   /\ ~Latest(fs, f, d + 1) /\ f # d + 1
        /\ SoFar(fs, d + 1, d + 1) = {d + 1} /\ Latest(fs, d + 1, d + 1)
    BY <1>1, NextNew
  <1>3. OpenAt(fs, d + 1) <=> ~fs[d + 1].fin
    BY OpenByFin DEF Data
  <1>4. given \subseteq 1..d /\ d + 1 \notin given
    BY DEF MessagesOK
  <1>5. given2 \subseteq 1..(d + 1)
    <2>1. 1..d \subseteq 1..(d + 1) /\ d + 1 \in 1..(d + 1)
      OBVIOUS
    <2> QED
      BY <2>1, <1>4
  <1>6. ASSUME NEW i \in 1..(d + 1), ~Data(fs, i) PROVE i \in given2
    <2>1. i # d + 1
      BY <1>6 DEF Data
    <2>2. i \in 1..d
      BY <2>1
    <2> QED
      BY <2>2, <1>6 DEF MessagesOK
  <1>7. ASSUME NEW f \in Begun(fs, d) PROVE Fate(fs, f, d + 1, ph, len2, held2, given2)
    <2>1. Fate(fs, f, d, "None", len, held, given)
      BY DEF MessagesOK
    <2> DEFINE m == SoFar(fs, f, d)
    <2>2. \/ SumOf(fs, m) > Cap /\ m \cap given = {}
          \/ SumOf(fs, m) <= Cap /\ m \subseteq given /\ Whole(fs, m)
      BY <2>1 DEF Fate
    <2>3. m \in SUBSET (1..d) /\ d + 1 \notin 1..d
      BY SoFarType
    <2>4. SoFar(fs, f, d + 1) = m /\ ~Latest(fs, f, d + 1)
      BY <1>2
    <2> HIDE DEF m
    <2>5. m \cap given2 = m \cap given /\ (m \subseteq given => m \subseteq given2)
      BY <2>3
    <2> QED
      BY <2>2, <2>4, <2>5 DEF Fate
  <1> QED
    BY <1>2, <1>3, <1>4, <1>5, <1>6, <1>7 DEF NewLeaves

\* A first frame over the cap: one more drop.
LEMMA OnNewOver ==
    ASSUME NEW fs, NEW d \in Nat, NEW len, NEW held, NEW given, NEW drops,
           MessagesOK(fs, d, "None", len, held, given, drops), fs[d + 1].op = "data",
           fs[d + 1].len \in Nat, fs[d + 1].len > Cap,
           NEW ph, ph = (IF fs[d + 1].fin THEN "None" ELSE "Skipping"),
           NEW len2, NEW held2
    PROVE  MessagesOK(fs, d + 1, ph, len2, held2, given, drops + 1)
  <1>0. NewLeaves(fs, d, ph, len2, held2, given, given)
    BY OthersOnNew
  <1>1. /\ given \subseteq 1..(d + 1)
        /\ \A i \in 1..(d + 1) : ~Data(fs, i) => i \in given
        /\ \A f \in Begun(fs, d) : Fate(fs, f, d + 1, ph, len2, held2, given)
        /\ Begun(fs, d + 1) = Begun(fs, d) \cup {d + 1}
        /\ \A f \in Begun(fs, d) : SoFar(fs, f, d + 1) = SoFar(fs, f, d) /\ f # d + 1
        /\ SoFar(fs, d + 1, d + 1) = {d + 1} /\ Latest(fs, d + 1, d + 1)
        /\ OpenAt(fs, d + 1) <=> ~fs[d + 1].fin
        /\ d + 1 \notin given
    BY <1>0 DEF NewLeaves
  <1>2. SumOf(fs, {d + 1}) = fs[d + 1].len
    BY SumOne
  <1>3. ph \notin {"Holding", "Closing"}
    OBVIOUS
  <1>4. Fate(fs, d + 1, d + 1, ph, len2, held2, given)
    BY <1>1, <1>2, <1>3 DEF Fate
  <1>5. OverSet(fs, d + 1) = OverSet(fs, d) \cup {d + 1} /\ d + 1 \notin OverSet(fs, d)
    BY <1>1, <1>2 DEF OverSet
  <1>6. Cardinality(OverSet(fs, d + 1)) = drops + 1
    <2>1. Cardinality(OverSet(fs, d)) = drops
      BY DEF MessagesOK
    <2> QED
      BY <2>1, <1>5, OverFinite, FS_AddElement
  <1> QED
    BY <1>1, <1>3, <1>4, <1>6 DEF MessagesOK

\* A first frame within the cap that is also the last: handed on as it is.
LEMMA OnNewWhole ==
    ASSUME NEW fs, NEW d \in Nat, NEW len, NEW held, NEW given, NEW drops,
           MessagesOK(fs, d, "None", len, held, given, drops), fs[d + 1].op = "data",
           fs[d + 1].len \in Nat, fs[d + 1].len <= Cap, fs[d + 1].fin,
           NEW len2, NEW held2
    PROVE  MessagesOK(fs, d + 1, "None", len2, held2, given \cup {d + 1}, drops)
  <1> DEFINE given2 == given \cup {d + 1}
  <1>0. NewLeaves(fs, d, "None", len2, held2, given, given2)
    BY OthersOnNew
  <1>1. /\ given2 \subseteq 1..(d + 1)
        /\ \A i \in 1..(d + 1) : ~Data(fs, i) => i \in given2
        /\ \A f \in Begun(fs, d) : Fate(fs, f, d + 1, "None", len2, held2, given2)
        /\ Begun(fs, d + 1) = Begun(fs, d) \cup {d + 1}
        /\ \A f \in Begun(fs, d) : SoFar(fs, f, d + 1) = SoFar(fs, f, d) /\ f # d + 1
        /\ SoFar(fs, d + 1, d + 1) = {d + 1} /\ Latest(fs, d + 1, d + 1)
        /\ OpenAt(fs, d + 1) <=> ~fs[d + 1].fin
    BY <1>0 DEF NewLeaves
  <1>2. SumOf(fs, {d + 1}) = fs[d + 1].len
    BY SumOne
  <1>3. Fate(fs, d + 1, d + 1, "None", len2, held2, given2)
    BY <1>1, <1>2 DEF Fate, Whole
  <1>4. OverSet(fs, d + 1) = OverSet(fs, d)
    <2>1. ~(SumOf(fs, {d + 1}) > Cap)
      BY <1>2, CapIsNat
    <2> QED
      BY <1>1, <2>1 DEF OverSet
  <1> HIDE DEF given2
  <1>5. MessagesOK(fs, d + 1, "None", len2, held2, given2, drops)
    BY <1>1, <1>3, <1>4 DEF MessagesOK
  <1> QED
    BY <1>5 DEF given2

\* A first frame within the cap with more to come: held.
LEMMA OnNewHeld ==
    ASSUME NEW fs, NEW d \in Nat, NEW len, NEW held, NEW given, NEW drops,
           MessagesOK(fs, d, "None", len, held, given, drops), fs[d + 1].op = "data",
           fs[d + 1].len \in Nat, fs[d + 1].len <= Cap, ~fs[d + 1].fin
    PROVE  MessagesOK(fs, d + 1, "Holding", fs[d + 1].len, {d + 1}, given, drops)
  <1> DEFINE F(f) == Fate(fs, f, d + 1, "Holding", fs[d + 1].len, {d + 1}, given)
  <1>0. NewLeaves(fs, d, "Holding", fs[d + 1].len, {d + 1}, given, given)
    BY OthersOnNew
  <1>1. /\ given \subseteq 1..(d + 1)
        /\ \A i \in 1..(d + 1) : ~Data(fs, i) => i \in given
        /\ \A f \in Begun(fs, d) : F(f)
        /\ Begun(fs, d + 1) = Begun(fs, d) \cup {d + 1}
        /\ \A f \in Begun(fs, d) : SoFar(fs, f, d + 1) = SoFar(fs, f, d) /\ f # d + 1
        /\ SoFar(fs, d + 1, d + 1) = {d + 1} /\ Latest(fs, d + 1, d + 1)
        /\ OpenAt(fs, d + 1) <=> ~fs[d + 1].fin
        /\ d + 1 \notin given
    BY <1>0 DEF NewLeaves
  <1>2. SumOf(fs, {d + 1}) = fs[d + 1].len
    BY SumOne
  <1>3. F(d + 1)
    BY <1>1, <1>2 DEF Fate, Whole
  <1>4. OverSet(fs, d + 1) = OverSet(fs, d)
    <2>1. ~(SumOf(fs, {d + 1}) > Cap)
      BY <1>2, CapIsNat
    <2> QED
      BY <1>1, <2>1 DEF OverSet
  <1> QED
    BY <1>1, <1>3, <1>4 DEF MessagesOK

\* What a continuation does to the open message f and leaves of the others.
ContLeaves(fs, d, f, ph, len, held, given) ==
    /\ f \in Begun(fs, d) /\ Latest(fs, f, d) /\ ~Whole(fs, SoFar(fs, f, d))
    /\ Latest(fs, f, d + 1) /\ Begun(fs, d + 1) = Begun(fs, d)
    /\ SoFar(fs, f, d + 1) = SoFar(fs, f, d) \cup {d + 1}
    /\ SumOf(fs, SoFar(fs, f, d)) \in Nat /\ fs[d + 1].len \in Nat
    /\ SumOf(fs, SoFar(fs, f, d + 1)) = SumOf(fs, SoFar(fs, f, d)) + fs[d + 1].len
    /\ Whole(fs, SoFar(fs, f, d + 1)) <=> fs[d + 1].fin
    /\ \A g \in Begun(fs, d) : g # f =>
          /\ SoFar(fs, g, d + 1) = SoFar(fs, g, d)
          /\ Fate(fs, g, d + 1, ph, len, held, given)
    /\ given \subseteq 1..(d + 1) /\ d + 1 \notin given
    /\ \A i \in 1..(d + 1) : ~Data(fs, i) => i \in given
    /\ OpenAt(fs, d + 1) <=> ~fs[d + 1].fin

\* With a message open and not lost, a continuation is its next frame and
\* leaves the others as they were.
LEMMA OthersOnCont ==
    ASSUME NEW fs, NEW d \in Nat, Formed(fs, d), LensTo(fs, d + 1),
           NEW ph, NEW len, NEW held, NEW given, NEW drops, ph \in {"Skipping", "Holding"},
           MessagesOK(fs, d, ph, len, held, given, drops), fs[d + 1].op = "cont",
           NEW ph2, NEW len2, NEW held2
    PROVE  \E f : ContLeaves(fs, d, f, ph2, len2, held2, given)
  <1>1. OpenAt(fs, d)
    BY DEF MessagesOK
  <1>2. /\ Begun(fs, d + 1) = Begun(fs, d)
        /\ \A f \in Begun(fs, d) : Latest(fs, f, d + 1) <=> Latest(fs, f, d)
        /\ \E f \in Begun(fs, d) :
              /\ Latest(fs, f, d) /\ ~Whole(fs, SoFar(fs, f, d))
              /\ SoFar(fs, f, d + 1) = SoFar(fs, f, d) \cup {d + 1}
              /\ \A g \in Begun(fs, d) : g # f =>
                    ~Latest(fs, g, d) /\ SoFar(fs, g, d + 1) = SoFar(fs, g, d)
    BY <1>1, NextCont
  <1>3. PICK f \in Begun(fs, d) :
              /\ Latest(fs, f, d) /\ ~Whole(fs, SoFar(fs, f, d))
              /\ SoFar(fs, f, d + 1) = SoFar(fs, f, d) \cup {d + 1}
              /\ \A g \in Begun(fs, d) : g # f =>
                    ~Latest(fs, g, d) /\ SoFar(fs, g, d + 1) = SoFar(fs, g, d)
    BY <1>2
  <1>4. /\ SumOf(fs, SoFar(fs, f, d)) \in Nat /\ fs[d + 1].len \in Nat
        /\ SumOf(fs, SoFar(fs, f, d + 1)) = SumOf(fs, SoFar(fs, f, d)) + fs[d + 1].len
    BY <1>3, SoFarSum
  <1>5. Whole(fs, SoFar(fs, f, d + 1)) <=> fs[d + 1].fin
    BY <1>3 DEF Whole
  <1>6. ASSUME NEW g \in Begun(fs, d), g # f PROVE Fate(fs, g, d + 1, ph2, len2, held2, given)
    <2>1. Fate(fs, g, d, ph, len, held, given)
      BY DEF MessagesOK
    <2>2. ~Latest(fs, g, d) /\ SoFar(fs, g, d + 1) = SoFar(fs, g, d) /\ ~Latest(fs, g, d + 1)
      BY <1>2, <1>3, <1>6
    <2> QED
      BY <2>1, <2>2 DEF Fate
  <1>7. given \subseteq 1..(d + 1) /\ d + 1 \notin given
    <2>1. 1..d \subseteq 1..(d + 1) /\ d + 1 \notin 1..d
      OBVIOUS
    <2> QED
      BY <2>1 DEF MessagesOK
  <1>8. ASSUME NEW i \in 1..(d + 1), ~Data(fs, i) PROVE i \in given
    <2>1. i # d + 1
      BY <1>8 DEF Data
    <2>2. i \in 1..d
      BY <2>1
    <2> QED
      BY <2>2, <1>8 DEF MessagesOK
  <1>9. OpenAt(fs, d + 1) <=> ~fs[d + 1].fin
    BY OpenByFin DEF Data
  <1>10. ContLeaves(fs, d, f, ph2, len2, held2, given)
    BY <1>2, <1>3, <1>4, <1>5, <1>6, <1>7, <1>8, <1>9 DEF ContLeaves
  <1> QED
    BY <1>10

\* A continuation of a message being dropped: nothing more is counted.
LEMMA OnSkipped ==
    ASSUME NEW fs, NEW d \in Nat, Formed(fs, d), LensTo(fs, d + 1),
           NEW len, NEW held, NEW given, NEW drops,
           MessagesOK(fs, d, "Skipping", len, held, given, drops), fs[d + 1].op = "cont",
           NEW ph, ph = (IF fs[d + 1].fin THEN "None" ELSE "Skipping"),
           NEW len2, NEW held2
    PROVE  MessagesOK(fs, d + 1, ph, len2, held2, given, drops)
  <1>1. PICK f : ContLeaves(fs, d, f, ph, len2, held2, given)
    BY OthersOnCont
  <1> DEFINE m == SoFar(fs, f, d)
             n == SoFar(fs, f, d + 1)
  <1>2. /\ f \in Begun(fs, d) /\ Latest(fs, f, d) /\ ~Whole(fs, m)
        /\ Latest(fs, f, d + 1) /\ Begun(fs, d + 1) = Begun(fs, d)
        /\ n = m \cup {d + 1}
        /\ SumOf(fs, m) \in Nat /\ fs[d + 1].len \in Nat /\ SumOf(fs, n) = SumOf(fs, m) + fs[d + 1].len
        /\ given \subseteq 1..(d + 1) /\ d + 1 \notin given
        /\ OpenAt(fs, d + 1) <=> ~fs[d + 1].fin
    BY <1>1 DEF ContLeaves
  <1>3. SumOf(fs, m) > Cap /\ m \cap given = {}
    <2>1. Fate(fs, f, d, "Skipping", len, held, given)
      BY <1>2 DEF MessagesOK
    <2> QED
      BY <2>1, <1>2 DEF Fate
  <1>4. SumOf(fs, n) > Cap /\ n \cap given = {}
    <2> HIDE DEF m, n
    <2>1. SumOf(fs, n) > Cap
      BY <1>2, <1>3, CapIsNat
    <2> QED
      BY <2>1, <1>2, <1>3
  <1>5. Fate(fs, f, d + 1, ph, len2, held2, given)
    BY <1>4 DEF Fate
  <1>6. \A g \in Begun(fs, d + 1) : Fate(fs, g, d + 1, ph, len2, held2, given)
    BY <1>1, <1>2, <1>5 DEF ContLeaves
  <1>7. OverSet(fs, d + 1) = OverSet(fs, d)
    <2>1. \A g \in Begun(fs, d) : g # f => SoFar(fs, g, d + 1) = SoFar(fs, g, d)
      BY <1>1 DEF ContLeaves
    <2> QED
      BY <2>1, <1>2, <1>3, <1>4 DEF OverSet
  <1>8. \A i \in 1..(d + 1) : ~Data(fs, i) => i \in given
    BY <1>1 DEF ContLeaves
  <1> QED
    BY <1>2, <1>6, <1>7, <1>8 DEF MessagesOK

\* A continuation within the cap of a held message: held with the rest.
LEMMA OnHeld ==
    ASSUME NEW fs, NEW d \in Nat, Formed(fs, d), LensTo(fs, d + 1),
           NEW len \in Nat, NEW held, NEW given, NEW drops,
           MessagesOK(fs, d, "Holding", len, held, given, drops), fs[d + 1].op = "cont",
           len + fs[d + 1].len <= Cap,
           NEW ph, ph = (IF fs[d + 1].fin THEN "Closing" ELSE "Holding")
    PROVE  MessagesOK(fs, d + 1, ph, len + fs[d + 1].len, held \cup {d + 1}, given, drops)
  <1> DEFINE len2 == len + fs[d + 1].len
             held2 == held \cup {d + 1}
  <1>1. PICK f : ContLeaves(fs, d, f, ph, len2, held2, given)
    BY OthersOnCont
  <1> DEFINE m == SoFar(fs, f, d)
             n == SoFar(fs, f, d + 1)
  <1>2. /\ f \in Begun(fs, d) /\ Latest(fs, f, d) /\ ~Whole(fs, m)
        /\ Latest(fs, f, d + 1) /\ Begun(fs, d + 1) = Begun(fs, d)
        /\ n = m \cup {d + 1}
        /\ SumOf(fs, m) \in Nat /\ fs[d + 1].len \in Nat /\ SumOf(fs, n) = SumOf(fs, m) + fs[d + 1].len
        /\ Whole(fs, n) <=> fs[d + 1].fin
        /\ given \subseteq 1..(d + 1) /\ d + 1 \notin given
        /\ OpenAt(fs, d + 1) <=> ~fs[d + 1].fin
    BY <1>1 DEF ContLeaves
  <1>3. m = held /\ m \cap given = {} /\ SumOf(fs, m) = len /\ len <= Cap
    <2>1. Fate(fs, f, d, "Holding", len, held, given)
      BY <1>2 DEF MessagesOK
    <2> QED
      BY <2>1, <1>2 DEF Fate
  <1>4. n = held2 /\ n \cap given = {} /\ SumOf(fs, n) = len2 /\ len2 <= Cap
    BY <1>2, <1>3
  <1>5. Fate(fs, f, d + 1, ph, len2, held2, given)
    BY <1>2, <1>4 DEF Fate
  <1> HIDE DEF len2, held2
  <1>6. \A g \in Begun(fs, d + 1) : Fate(fs, g, d + 1, ph, len2, held2, given)
    BY <1>1, <1>2, <1>5 DEF ContLeaves
  <1>7. OverSet(fs, d + 1) = OverSet(fs, d)
    <2>1. \A g \in Begun(fs, d) : g # f => SoFar(fs, g, d + 1) = SoFar(fs, g, d)
      BY <1>1 DEF ContLeaves
    <2>2. ~(SumOf(fs, n) > Cap) /\ ~(SumOf(fs, m) > Cap)
      <3>1. SumOf(fs, n) \in Nat
        BY <1>2
      <3> HIDE DEF m, n
      <3> QED
        BY <3>1, <1>2, <1>3, <1>4, CapIsNat
    <2> QED
      BY <2>1, <2>2, <1>2 DEF OverSet
  <1>8. \A i \in 1..(d + 1) : ~Data(fs, i) => i \in given
    BY <1>1 DEF ContLeaves
  <1>9. MessagesOK(fs, d + 1, ph, len2, held2, given, drops)
    BY <1>2, <1>6, <1>7, <1>8 DEF MessagesOK
  <1> QED
    BY <1>9 DEF len2, held2

\* A continuation that takes a held message past the cap: one more drop.
LEMMA OnGrown ==
    ASSUME NEW fs, NEW d \in Nat, Formed(fs, d), LensTo(fs, d + 1),
           NEW len \in Nat, NEW held, NEW given, NEW drops,
           MessagesOK(fs, d, "Holding", len, held, given, drops), fs[d + 1].op = "cont",
           len + fs[d + 1].len > Cap,
           NEW ph, ph = (IF fs[d + 1].fin THEN "None" ELSE "Skipping"),
           NEW len2, NEW held2
    PROVE  MessagesOK(fs, d + 1, ph, len2, held2, given, drops + 1)
  <1>1. PICK f : ContLeaves(fs, d, f, ph, len2, held2, given)
    BY OthersOnCont
  <1> DEFINE m == SoFar(fs, f, d)
             n == SoFar(fs, f, d + 1)
  <1>2. /\ f \in Begun(fs, d) /\ Latest(fs, f, d) /\ ~Whole(fs, m)
        /\ Latest(fs, f, d + 1) /\ Begun(fs, d + 1) = Begun(fs, d)
        /\ n = m \cup {d + 1}
        /\ SumOf(fs, m) \in Nat /\ fs[d + 1].len \in Nat /\ SumOf(fs, n) = SumOf(fs, m) + fs[d + 1].len
        /\ given \subseteq 1..(d + 1) /\ d + 1 \notin given
        /\ OpenAt(fs, d + 1) <=> ~fs[d + 1].fin
    BY <1>1 DEF ContLeaves
  <1>3. SumOf(fs, m) = len /\ len <= Cap /\ m \cap given = {}
    <2>1. Fate(fs, f, d, "Holding", len, held, given)
      BY <1>2 DEF MessagesOK
    <2> QED
      BY <2>1, <1>2 DEF Fate
  <1>4. SumOf(fs, n) > Cap /\ ~(SumOf(fs, m) > Cap) /\ n \cap given = {}
    <2>1. n \cap given = {}
      BY <1>2, <1>3
    <2> HIDE DEF m, n
    <2> QED
      BY <2>1, <1>2, <1>3, CapIsNat
  <1>5. Fate(fs, f, d + 1, ph, len2, held2, given)
    BY <1>4 DEF Fate
  <1>6. \A g \in Begun(fs, d + 1) : Fate(fs, g, d + 1, ph, len2, held2, given)
    BY <1>1, <1>2, <1>5 DEF ContLeaves
  <1>7. OverSet(fs, d + 1) = OverSet(fs, d) \cup {f} /\ f \notin OverSet(fs, d)
    <2>1. \A g \in Begun(fs, d) : g # f => SoFar(fs, g, d + 1) = SoFar(fs, g, d)
      BY <1>1 DEF ContLeaves
    <2> QED
      BY <2>1, <1>2, <1>4 DEF OverSet
  <1>8. Cardinality(OverSet(fs, d + 1)) = drops + 1
    <2>1. Cardinality(OverSet(fs, d)) = drops
      BY DEF MessagesOK
    <2> QED
      BY <2>1, <1>7, OverFinite, FS_AddElement
  <1>9. \A i \in 1..(d + 1) : ~Data(fs, i) => i \in given
    BY <1>1 DEF ContLeaves
  <1> QED
    BY <1>2, <1>6, <1>8, <1>9 DEF MessagesOK

\* The last frame of a held message has come: the message is given.
LEMMA OnRelease ==
    ASSUME NEW fs, NEW d \in Nat, Formed(fs, d),
           NEW len, NEW held, NEW given, NEW drops,
           MessagesOK(fs, d, "Closing", len, held, given, drops),
           NEW len2, NEW held2
    PROVE  MessagesOK(fs, d, "None", len2, held2, given \cup held, drops)
  <1>1. PICK f \in Begun(fs, d) : Latest(fs, f, d)
    BY DEF MessagesOK
  <1>2. /\ SoFar(fs, f, d) = held /\ SumOf(fs, held) = len /\ len <= Cap
        /\ Whole(fs, held)
    <2>1. Fate(fs, f, d, "Closing", len, held, given)
      BY <1>1 DEF MessagesOK
    <2> QED
      BY <2>1, <1>1 DEF Fate
  <1>3. held \in SUBSET (1..d)
    BY <1>1, <1>2, SoFarType
  <1>4. ASSUME NEW g \in Begun(fs, d) PROVE Fate(fs, g, d, "None", len2, held2, given \cup held)
    <2>1. CASE g = f
      BY <2>1, <1>2 DEF Fate
    <2>2. CASE g # f
      <3> DEFINE m == SoFar(fs, g, d)
      <3>1. m \cap held = {}
        BY <2>2, <1>2, SoFarApart
      <3>2. ~Latest(fs, g, d)
        <4>1. f \in 1..d /\ g \in 1..d /\ fs[f].op = "data" /\ fs[g].op = "data"
          BY DEF Begun
        <4>2. CASE g < f
          <5>1. f \in (g + 1)..d
            BY <4>1, <4>2
          <5> QED
            BY <5>1, <4>1 DEF Latest
        <4>3. CASE f < g
          <5>1. g \in (f + 1)..d
            BY <4>1, <4>3
          <5> QED
            BY <5>1, <4>1, <1>1 DEF Latest
        <4> QED
          BY <4>1, <4>2, <4>3, <2>2
      <3>3. Fate(fs, g, d, "Closing", len, held, given)
        BY DEF MessagesOK
      <3>4. \/ SumOf(fs, m) > Cap /\ m \cap given = {}
            \/ SumOf(fs, m) <= Cap /\ m \subseteq given /\ Whole(fs, m)
        BY <3>2, <3>3 DEF Fate
      <3>5. \/ SumOf(fs, m) > Cap /\ m \cap (given \cup held) = {}
            \/ SumOf(fs, m) <= Cap /\ m \subseteq (given \cup held) /\ Whole(fs, m)
        BY <3>1, <3>4
      <3> QED
        BY <3>5 DEF Fate
    <2> QED
      BY <2>1, <2>2
  <1> QED
    BY <1>3, <1>4 DEF MessagesOK

\* An illegal frame: what is held is lost.
LEMMA OnLost ==
    ASSUME NEW fs, NEW d \in Nat, NEW ph, NEW len, NEW held, NEW given, NEW drops,
           MessagesOK(fs, d, ph, len, held, given, drops),
           NEW len2, NEW held2
    PROVE  MessagesOK(fs, d, "Lost", len2, held2, given, drops)
  <1>1. ASSUME NEW g \in Begun(fs, d) PROVE Fate(fs, g, d, "Lost", len2, held2, given)
    <2>1. Fate(fs, g, d, ph, len, held, given)
      BY DEF MessagesOK
    <2> QED
      BY <2>1 DEF Fate
  <1> QED
    BY <1>1 DEF MessagesOK

\* Frames that come after the first d change nothing.
LEMMA MoreFrames ==
    ASSUME NEW fs, NEW gs, NEW d \in Nat, \A i \in 1..d : fs[i] = gs[i]
    PROVE  /\ Formed(gs, d) => Formed(fs, d)
           /\ \A ph, len, held, given, drops :
                 MessagesOK(fs, d, ph, len, held, given, drops)
                   => MessagesOK(gs, d, ph, len, held, given, drops)
  <1>1. \A i \in 1..d : Data(fs, i) <=> Data(gs, i)
    BY DEF Data
  <1>2. ASSUME NEW i \in 0..d PROVE OpenAt(fs, i) <=> OpenAt(gs, i)
    <2>1. ASSUME NEW j \in 1..i
          PROVE  (Data(fs, j) /\ ~fs[j].fin /\ \A k \in (j + 1)..i : ~Data(fs, k))
                   <=> (Data(gs, j) /\ ~gs[j].fin /\ \A k \in (j + 1)..i : ~Data(gs, k))
      <3>1. j \in 1..d /\ \A k \in (j + 1)..i : k \in 1..d
        OBVIOUS
      <3> QED
        BY <3>1, <1>1
    <2> QED
      BY <2>1 DEF OpenAt
  <1>3. Formed(gs, d) => Formed(fs, d)
    <2>1. \A i \in 1..d : i - 1 \in 0..d
      OBVIOUS
    <2> QED
      BY <2>1, <1>1, <1>2 DEF Formed
  <1>4. Begun(fs, d) = Begun(gs, d)
    BY DEF Begun
  <1>5. ASSUME NEW f \in Begun(fs, d)
        PROVE  /\ SoFar(fs, f, d) = SoFar(gs, f, d)
               /\ Latest(fs, f, d) <=> Latest(gs, f, d)
               /\ SumOf(fs, SoFar(fs, f, d)) = SumOf(gs, SoFar(gs, f, d))
               /\ Whole(fs, SoFar(fs, f, d)) <=> Whole(gs, SoFar(gs, f, d))
    <2>1. f \in 1..d
      BY DEF Begun
    <2>2. SoFar(fs, f, d) = SoFar(gs, f, d)
      <3>1. ASSUME NEW k \in f..d
            PROVE  (Data(fs, k) /\ \A j \in f..(k - 1) : Data(fs, j) => ~fs[j].fin)
                     <=> (Data(gs, k) /\ \A j \in f..(k - 1) : Data(gs, j) => ~gs[j].fin)
        <4>1. k \in 1..d /\ \A j \in f..(k - 1) : j \in 1..d
          BY <2>1
        <4> QED
          BY <4>1, <1>1
      <3> QED
        BY <3>1 DEF SoFar
    <2>3. Latest(fs, f, d) <=> Latest(gs, f, d)
      <3>1. \A k \in (f + 1)..d : k \in 1..d
        BY <2>1
      <3> QED
        BY <3>1, <1>4 DEF Latest
    <2> DEFINE m == SoFar(fs, f, d)
    <2>4. m \in SUBSET (1..d) /\ IsFiniteSet(m)
      BY SoFarType
    <2> HIDE DEF m
    <2>5. SumOf(fs, m) = SumOf(gs, m)
      BY <2>4, SumSame
    <2>6. Whole(fs, m) <=> Whole(gs, m)
      BY <2>4 DEF Whole
    <2> QED
      BY <2>2, <2>3, <2>5, <2>6 DEF m
  <1>6. OverSet(fs, d) = OverSet(gs, d)
    BY <1>4, <1>5 DEF OverSet
  <1>7. ASSUME NEW ph, NEW len, NEW held, NEW given, NEW drops,
               MessagesOK(fs, d, ph, len, held, given, drops)
        PROVE  MessagesOK(gs, d, ph, len, held, given, drops)
    <2>1. ASSUME NEW f \in Begun(gs, d) PROVE Fate(gs, f, d, ph, len, held, given)
      <3>1. f \in Begun(fs, d) /\ Fate(fs, f, d, ph, len, held, given)
        BY <1>4, <1>7 DEF MessagesOK
      <3> QED
        BY <3>1, <1>5 DEF Fate
    <2>2. OpenAt(fs, d) <=> OpenAt(gs, d)
      BY <1>2
    <2>3. (\E f \in Begun(fs, d) : Latest(fs, f, d)) => \E f \in Begun(gs, d) : Latest(gs, f, d)
      BY <1>4, <1>5
    <2> QED
      BY <2>1, <2>2, <2>3, <1>1, <1>6, <1>7 DEF MessagesOK
  <1> QED
    BY <1>3, <1>7

(***************************************************************************)
(* The guard's state against the messages.  A frame is decided when the    *)
(* guard has read its header, and handed on when any of it is given.       *)
(***************************************************************************)
FramesIn(q) == {q[k][1] : k \in 1..Len(q)}

Decided == IF state.n > 0 THEN Place[1] ELSE Place[1] - 1
Handed == FramesIn(Given) \cup (IF Passing THEN {Place[1]} ELSE {})
Phase ==
    IF refused THEN "Lost"
    ELSE IF state.in = "Hold" /\ release THEN "Closing" ELSE msg.m

MessagesInv ==
    Formed(sent, Decided)
      => MessagesOK(sent, Decided, Phase, msg.len, FramesIn(hold), Handed, dropped)

\* No frame decided is illegal, and after a refusal nothing is kept.
LegalInv ==
    /\ \A i \in 1..Decided : sent[i].op # "illegal"
    /\ refused => hold = << >> /\ ready = << >> /\ buf # << >>

\* The payload held, and what is left to hold of a frame, are counted.
Payload(q) == {k \in 1..Len(q) : q[k][2] # 0}
Left == IF state.in = "Hold" THEN state.n ELSE 0
HeldInv == msg.m = "Holding" => msg.len <= Cap /\ Cardinality(Payload(hold)) + Left <= msg.len

\* The frames of two sequences put together, and of a run.
LEMMA FramesInJoin ==
    ASSUME NEW S, NEW q \in Seq(S), NEW r \in Seq(S)
    PROVE  FramesIn(q \o r) = FramesIn(q) \cup FramesIn(r)
  <1> DEFINE w == q \o r
  <1>1. /\ Len(w) = Len(q) + Len(r) /\ Len(q) \in Nat /\ Len(r) \in Nat
        /\ \A j \in 1..Len(q) : w[j] = q[j]
        /\ \A j \in 1..Len(r) : w[Len(q) + j] = r[j]
        /\ \A j \in 1..Len(w) :
              \/ j \in 1..Len(q) /\ w[j] = q[j]
              \/ j > Len(q) /\ j - Len(q) \in 1..Len(r) /\ w[j] = r[j - Len(q)]
    BY Joined
  <1> HIDE DEF w
  <1>2. FramesIn(w) \subseteq FramesIn(q) \cup FramesIn(r)
    BY <1>1 DEF FramesIn
  <1>3. ASSUME NEW j \in 1..Len(q) PROVE q[j][1] \in FramesIn(w)
    BY <1>1 DEF FramesIn
  <1>4. ASSUME NEW j \in 1..Len(r) PROVE r[j][1] \in FramesIn(w)
    <2>1. Len(q) + j \in 1..Len(w) /\ w[Len(q) + j] = r[j]
      BY <1>1
    <2> QED
      BY <2>1 DEF FramesIn
  <1>5. FramesIn(w) = FramesIn(q) \cup FramesIn(r)
    BY <1>2, <1>3, <1>4 DEF FramesIn
  <1> QED
    BY <1>5 DEF w

\* A run is of one frame, and all payload when it begins in the payload.
LEMMA RunIsOne ==
    ASSUME NEW r, NEW u \in Nat \X Nat, NEW k \in Nat \ {0}, Run(r, u, k)
    PROVE  FramesIn(r) = {u[1]} /\ (u[2] > 0 => Payload(r) = 1..k)
  <1>1. Len(r) = k /\ \A j \in 1..k : r[j] = <<u[1], u[2] + j - 1>>
    BY DEF Run
  <1>2. \A j \in 1..k : r[j][1] = u[1] /\ r[j][2] = u[2] + j - 1
    BY <1>1
  <1>3. 1 \in 1..k
    OBVIOUS
  <1>4. FramesIn(r) = {u[1]}
    BY <1>1, <1>2, <1>3 DEF FramesIn
  <1>5. ASSUME u[2] > 0, NEW j \in 1..k PROVE r[j][2] # 0
    <2>1. u[2] + j - 1 # 0
      BY <1>5
    <2> QED
      BY <2>1, <1>2
  <1>6. u[2] > 0 => Payload(r) = 1..k
    BY <1>1, <1>5 DEF Payload
  <1> QED
    BY <1>4, <1>6

\* The payload of two sequences put together.
LEMMA PayloadJoin ==
    ASSUME NEW S, NEW q \in Seq(S), NEW r \in Seq(S)
    PROVE  /\ Cardinality(Payload(q \o r)) = Cardinality(Payload(q)) + Cardinality(Payload(r))
           /\ Cardinality(Payload(q)) \in Nat /\ Cardinality(Payload(r)) \in Nat
  <1> DEFINE w == q \o r
             a == Len(q)
             M == {a + j : j \in Payload(r)}
  <1>1. /\ Len(w) = a + Len(r) /\ a \in Nat /\ Len(r) \in Nat
        /\ \A j \in 1..a : w[j] = q[j]
        /\ \A j \in 1..Len(r) : w[a + j] = r[j]
        /\ \A j \in 1..Len(w) :
              \/ j \in 1..a /\ w[j] = q[j]
              \/ j > a /\ j - a \in 1..Len(r) /\ w[j] = r[j - a]
    BY Joined
  <1> HIDE DEF w
  <1>2. /\ IsFiniteSet(Payload(q)) /\ Cardinality(Payload(q)) \in Nat
        /\ IsFiniteSet(Payload(r)) /\ Cardinality(Payload(r)) \in Nat
    <2>1. IsFiniteSet(1..a) /\ IsFiniteSet(1..Len(r))
      BY <1>1, FS_Interval
    <2>2. Payload(q) \subseteq 1..a /\ Payload(r) \subseteq 1..Len(r)
      BY DEF Payload
    <2> QED
      BY <2>1, <2>2, FS_Subset, FS_CardinalityType
  <1> HIDE DEF a
  <1>3. Payload(w) = Payload(q) \cup M
    <2>1. ASSUME NEW j \in Payload(w) PROVE j \in Payload(q) \cup M
      <3>1. j \in 1..Len(w) /\ w[j][2] # 0
        BY DEF Payload
      <3>2. CASE j \in 1..a /\ w[j] = q[j]
        BY <3>1, <3>2 DEF Payload, a
      <3>3. CASE j > a /\ j - a \in 1..Len(r) /\ w[j] = r[j - a]
        <4>1. j - a \in Payload(r)
          BY <3>1, <3>3 DEF Payload
        <4>2. j = a + (j - a)
          BY <3>1, <1>1
        <4> QED
          BY <4>1, <4>2
      <3> QED
        BY <3>1, <3>2, <3>3, <1>1
    <2>2. ASSUME NEW j \in Payload(q) PROVE j \in Payload(w)
      <3>1. j \in 1..a /\ q[j][2] # 0
        BY DEF Payload, a
      <3> QED
        BY <3>1, <1>1 DEF Payload
    <2>3. ASSUME NEW i \in Payload(r) PROVE a + i \in Payload(w)
      <3>1. i \in 1..Len(r) /\ r[i][2] # 0
        BY DEF Payload
      <3>2. a + i \in 1..Len(w) /\ w[a + i] = r[i]
        BY <3>1, <1>1
      <3> QED
        BY <3>1, <3>2 DEF Payload
    <2> QED
      BY <2>1, <2>2, <2>3
  <1>4. Payload(q) \cap M = {}
    <2>1. SUFFICES ASSUME NEW j \in Payload(q), NEW i \in Payload(r), j = a + i PROVE FALSE
      OBVIOUS
    <2>2. j \in 1..a /\ i \in 1..Len(r)
      BY DEF Payload, a
    <2> QED
      BY <2>1, <2>2, <1>1
  <1>5. IsFiniteSet(M) /\ Cardinality(M) = Cardinality(Payload(r))
    <2> DEFINE f == [i \in Payload(r) |-> a + i]
    <2>1. \A i \in Payload(r) : i \in Nat
      BY DEF Payload
    <2>2. f \in Bijection(Payload(r), M)
      <3>1. f \in [Payload(r) -> M]
        OBVIOUS
      <3>2. ASSUME NEW x \in Payload(r), NEW y \in Payload(r), f[x] = f[y] PROVE x = y
        BY <3>2, <2>1, <1>1
      <3>3. \A t \in M : \E x \in Payload(r) : f[x] = t
        OBVIOUS
      <3> QED
        <4> HIDE DEF f, M
        <4> QED
          BY <3>1, <3>2, <3>3 DEF Bijection, Injection, Surjection, IsInjective
    <2>3. ExistsBijection(Payload(r), M)
      BY <2>2 DEF ExistsBijection
    <2> QED
      BY <2>3, <1>2, FS_Bijection
  <1> HIDE DEF M
  <1>6. Cardinality(Payload(w)) = Cardinality(Payload(q)) + Cardinality(M) - Cardinality(Payload(q) \cap M)
    BY <1>2, <1>3, <1>5, FS_Union
  <1>7. Cardinality({}) = 0
    BY FS_EmptySet
  <1>8. Cardinality(Payload(w)) = Cardinality(Payload(q)) + Cardinality(Payload(r))
    <2>1. Cardinality(Payload(q) \cap M) = 0
      BY <1>4, <1>7
    <2> QED
      BY <2>1, <1>2, <1>5, <1>6
  <1> QED
    BY <1>2, <1>8 DEF w

\* The frames decided are a number, no more than were sent.
LEMMA DecidedType ==
    ASSUME FramingInv
    PROVE  /\ Decided \in Nat /\ Decided <= Len(sent) /\ Len(sent) \in Nat
           /\ sent \in Seq(Frames) /\ DOMAIN sent = 1..Len(sent) /\ Place[1] \in Nat \ {0}
           /\ \A d \in Nat : d <= Len(sent) => LensTo(sent, d)
  <1>1. GuardTypes /\ PlaceOK /\ sent \in Seq(Frames) /\ Len(sent) \in Nat /\ DOMAIN sent = 1..Len(sent)
    BY DEF FramingInv, GuardTypes
  <1>2. /\ Stream # << >> => Place[1] \in 1..Len(sent)
        /\ Stream = << >> => Place[1] = Len(sent) + 1
    BY <1>1, PlaceType
  <1>3. state.n > 0 => Stream # << >>
    BY <1>1 DEF PlaceOK
  <1>4. ASSUME NEW i \in 1..Len(sent) PROVE sent[i].len \in Nat
    BY <1>1, FramesType
  <1>5. ASSUME NEW d \in Nat, d <= Len(sent) PROVE LensTo(sent, d)
    <2>1. \A i \in 1..d : i \in 1..Len(sent)
      BY <1>1, <1>5
    <2> QED
      BY <2>1, <1>4 DEF LensTo
  <1> QED
    BY <1>1, <1>2, <1>3, <1>5 DEF Decided

\* Only frames decided are handed on.
LEMMA HandedDecided ==
    ASSUME FramingInv
    PROVE  Handed \subseteq 1..Decided
  <1>1. GuardTypes /\ PlaceOK /\ OrderOK
    BY DEF FramingInv
  <1>2. Given \in Seq(UnitsIn(sent)) /\ Place[1] \in Nat /\ Place[2] \in Nat
    BY <1>1, PlaceType
  <1>3. DOMAIN sent = 1..Len(sent) /\ Place[1] \in Nat \ {0}
    BY DecidedType
  <1>4. ASSUME NEW k \in 1..Len(Given) PROVE Given[k][1] \in 1..Decided
    <2>1. Given[k] \in UnitsIn(sent) /\ Before(Given[k], Place)
      BY <1>1, <1>2 DEF OrderOK
    <2>2. Given[k][1] \in 1..Len(sent) /\ Given[k][2] \in Nat
      BY <2>1, <1>3 DEF UnitsIn
    <2>3. state.n = 0 => Place[2] = 0
      BY <1>1 DEF PlaceOK
    <2>4. state.n \in Nat
      BY <1>1 DEF GuardTypes
    <2> QED
      BY <2>1, <2>2, <2>3, <2>4, <1>2 DEF Before, Decided
  <1>5. Passing => Place[1] \in 1..Decided
    BY <1>3 DEF Passing, Decided
  <1> QED
    BY <1>4, <1>5 DEF Handed, FramesIn

\* Where the guard is when it decides: the header is of the next frame.
LEMMA AtDecide ==
    ASSUME FramingInv, Deciding
    PROVE  /\ Decided \in Nat /\ Place[1] = Decided + 1 /\ Place[2] = 0 /\ Header = sent[Decided + 1]
           /\ Decided + 1 <= Len(sent) /\ LensTo(sent, Decided + 1) /\ Header.len \in Nat
           /\ Handed = FramesIn(Given) /\ Phase = msg.m
           /\ Header.op # "illegal" /\ sent' = sent /\ ~refused /\ ~refused' /\ state.in = "Header"
  <1>1. GuardTypes /\ PlaceOK
    BY DEF FramingInv
  <1>2. ~refused /\ state.in = "Header" /\ buf # << >> /\ Header.op # "illegal" /\ sent' = sent /\ ~refused'
    BY DEF Deciding
  <1>3. state.n = 0 /\ Place[2] = 0
    BY <1>1, <1>2 DEF PlaceOK
  <1>4. Header = sent[Place[1]] /\ Place[1] \in DOMAIN sent /\ Header.len \in Nat
    BY <1>1, <1>2, HeaderAtPlace
  <1>5. DOMAIN sent = 1..Len(sent) /\ Len(sent) \in Nat /\ \A d \in Nat : d <= Len(sent) => LensTo(sent, d)
    BY DecidedType
  <1>6. Decided = Place[1] - 1
    BY <1>3 DEF Decided
  <1>7. Decided \in Nat /\ Place[1] = Decided + 1 /\ Decided + 1 <= Len(sent)
    BY <1>4, <1>5, <1>6
  <1>8. Handed = FramesIn(Given)
    BY <1>2 DEF Handed, Passing
  <1>9. Phase = msg.m
    BY <1>2 DEF Phase
  <1> QED
    BY <1>2, <1>3, <1>4, <1>5, <1>7, <1>8, <1>9

\* After a frame begins to pass: it is decided and handed on.
LEMMA PassesTo ==
    ASSUME FramingInv, DecideControl \/ DecideStray \/ DecideNewWhole \/ DecideBroken
    PROVE  /\ Decided' = Decided + 1 /\ Handed' = FramesIn(Given') \cup {Decided + 1}
           /\ Phase' = msg'.m /\ state'.in = "Pass"
  <1>1. Deciding
    BY DEF DecideControl, DecideStray, DecideNewWhole, DecideBroken
  <1>2. Place[1] = Decided + 1 /\ Header = sent[Decided + 1] /\ Header.len \in Nat /\ ~refused'
    BY <1>1, AtDecide
  <1>3. PassBegins
    BY DecidePasses
  <1>4. sent' = sent /\ Stream' = Stream /\ state' = At("Pass", Header.len + 1)
    BY <1>2, <1>3 DEF PassBegins
  <1>5. Place' = Place /\ state'.n = Header.len + 1 /\ state'.in = "Pass"
    BY <1>4 DEF Place, At
  <1>6. state'.n > 0
    BY <1>2, <1>5
  <1>7. Decided' = Place[1] /\ Passing'
    BY <1>5, <1>6 DEF Decided, Passing
  <1>8. Handed' = FramesIn(Given') \cup {Place[1]}
    BY <1>5, <1>7 DEF Handed
  <1>9. Phase' = msg'.m
    BY <1>2, <1>5 DEF Phase
  <1> QED
    BY <1>2, <1>5, <1>7, <1>8, <1>9

\* Units of a frame are taken: it is decided, whether or not it ends.
LEMMA TakenDecided ==
    ASSUME FramingInv, NEW k \in Nat \ {0}, UnitsTaken(k),
           state'.n = sent[Place[1]].len + 1 - (Place[2] + k)
    PROVE  /\ Decided' = Place[1] /\ (state'.n > 0 => Place'[1] = Place[1])
           /\ Run(Front(Stream, k), Place, k) /\ Front(Stream, k) \in Seq(UnitsIn(sent))
           /\ Place \in Nat \X Nat
  <1>1. GuardTypes /\ Streams(sent, Stream)
    BY DEF FramingInv, PlaceOK
  <1>2. /\ Stream # << >> /\ Place[2] + k <= sent[Place[1]].len + 1
        /\ sent' = sent /\ Stream' = Rest(Stream, k)
    BY DEF UnitsTaken
  <1>3. Place \in Nat \X Nat /\ Place[1] \in Nat /\ Place[2] \in Nat /\ sent[Place[1]].len \in Nat
    BY <1>1, <1>2, PlaceType
  <1>4. /\ Place[2] + k = sent[Place[1]].len + 1 => Place' = <<Place[1] + 1, 0>>
        /\ Place[2] + k # sent[Place[1]].len + 1 => Place' = <<Place[1], Place[2] + k>>
        /\ Run(Front(Stream, k), Place, k) /\ Front(Stream, k) \in Seq(UnitsIn(sent))
    BY <1>1, <1>2, TakeUnits
  <1>5. CASE Place[2] + k = sent[Place[1]].len + 1
    <2>1. ~(state'.n > 0)
      BY <1>3, <1>5
    <2>2. Place'[1] = Place[1] + 1
      BY <1>4, <1>5
    <2>3. Decided' = Place'[1] - 1
      BY <2>1 DEF Decided
    <2> QED
      BY <2>1, <2>2, <2>3, <1>3, <1>4
  <1>6. CASE Place[2] + k # sent[Place[1]].len + 1
    <2>1. state'.n > 0
      BY <1>2, <1>3, <1>6
    <2>2. Place'[1] = Place[1]
      BY <1>4, <1>6
    <2> QED
      BY <2>1, <2>2, <1>3, <1>4 DEF Decided
  <1> QED
    BY <1>5, <1>6

\* After a frame begins to be dropped.
LEMMA SkipsTo ==
    ASSUME FramingInv, DecideSkipped \/ DecideGrown \/ DecideNewOver
    PROVE  /\ Decided' = Decided + 1 /\ Handed' = Handed /\ Phase' = msg'.m
           /\ state'.in = "Skip" /\ hold' = << >>
  <1>1. Deciding
    BY DEF DecideSkipped, DecideGrown, DecideNewOver
  <1>2. /\ Place[1] = Decided + 1 /\ ~refused' /\ Handed = FramesIn(Given)
    BY <1>1, AtDecide
  <1>3. UnitsSkip(1) /\ hold' = << >>
    BY DecideSkips
  <1>4. /\ UnitsTaken(1) /\ Given' = Given
        /\ state' = At("Skip", sent[Place[1]].len + 1 - (Place[2] + 1))
    BY <1>3 DEF UnitsSkip
  <1>5. state'.in = "Skip" /\ state'.n = sent[Place[1]].len + 1 - (Place[2] + 1)
    BY <1>4 DEF At
  <1>6. Decided' = Place[1]
    BY <1>4, <1>5, TakenDecided
  <1>7. Handed' = FramesIn(Given)
    BY <1>4, <1>5 DEF Handed, Passing
  <1>8. Phase' = msg'.m
    BY <1>2, <1>5 DEF Phase
  <1> QED
    BY <1>2, <1>3, <1>5, <1>6, <1>7, <1>8

\* After a frame begins to be held: it is held with the rest, or it was its
\* message's last with no payload and all is given.
LEMMA HoldsTo ==
    ASSUME FramingInv, FlagsOK, DecideHeld \/ DecideNewHeld,
           NEW len, HoldFrame(Header, hold, len)
    PROVE  /\ Decided' = Decided + 1
           /\ \/ /\ Phase' = (IF Header.fin THEN "Closing" ELSE "Holding") /\ msg' = Holding(len)
                 /\ FramesIn(hold') = FramesIn(hold) \cup {Decided + 1} /\ Handed' = Handed
              \/ /\ Header.fin /\ Phase' = "None" /\ msg' = None
                 /\ Handed' = Handed \cup (FramesIn(hold) \cup {Decided + 1})
  <1>1. Deciding
    BY DEF DecideHeld, DecideNewHeld
  <1>2. /\ Place[1] = Decided + 1 /\ Place[2] = 0 /\ ~refused' /\ Handed = FramesIn(Given)
        /\ Header = sent[Decided + 1] /\ Header.len \in Nat
    BY <1>1, AtDecide
  <1>3. GuardTypes /\ buf # << >> /\ ready = << >> /\ out' = out
    BY <1>1 DEF FramingInv, Deciding
  <1>4. UnitsHold(1) /\ Front(Stream, 1) = <<Head(buf)>> /\ Head(buf) \in UnitsIn(sent)
    BY <1>3, DecideHolds, HeaderAtPlace
  <1>5. UnitsTaken(1)
    BY <1>4 DEF UnitsHold
  <1>6. state'.n = Header.len /\ (state'.in = "Hold" <=> Header.len > 0) /\ state'.in # "Pass"
    BY <1>2 DEF HoldFrame, AtHeader, At
  <1>7. sent[Place[1]].len + 1 - (Place[2] + 1) = Header.len
    BY <1>2
  <1>8. /\ Decided' = Place[1] /\ Run(Front(Stream, 1), Place, 1) /\ Front(Stream, 1) \in Seq(UnitsIn(sent))
        /\ Place \in Nat \X Nat
    BY <1>5, <1>6, <1>7, TakenDecided
  <1>9. FramesIn(Front(Stream, 1)) = {Place[1]}
    BY <1>8, RunIsOne
  <1> DEFINE kept == Append(hold, Head(buf))
  <1>10. /\ kept = hold \o Front(Stream, 1) /\ kept \in Seq(UnitsIn(sent)) /\ hold \in Seq(UnitsIn(sent))
         /\ out \in Seq(UnitsIn(sent))
    <2>1. hold \in Seq(UnitsIn(sent)) /\ out \in Seq(UnitsIn(sent))
      BY <1>3 DEF GuardTypes
    <2>2. Append(hold, Head(buf)) = hold \o <<Head(buf)>>
      BY <2>1, <1>4, AppendIsConcat
    <2>3. Append(hold, Head(buf)) \in Seq(UnitsIn(sent))
      BY <2>1, <1>4
    <2> QED
      BY <2>1, <2>2, <2>3, <1>4
  <1>11. FramesIn(kept) = FramesIn(hold) \cup {Decided + 1}
    <2>1. FramesIn(hold \o Front(Stream, 1)) = FramesIn(hold) \cup FramesIn(Front(Stream, 1))
      BY <1>8, <1>10, FramesInJoin
    <2> HIDE DEF kept
    <2> QED
      BY <2>1, <1>2, <1>9, <1>10
  <1>12. \/ /\ Header.len > 0 /\ release' = Header.fin /\ hold' = kept /\ msg' = Holding(len) /\ ready' = ready
         \/ /\ Header.len = 0 /\ ~Header.fin /\ hold' = kept /\ msg' = Holding(len) /\ ready' = ready
         \/ /\ Header.len = 0 /\ Header.fin /\ msg' = None /\ ready' = ready \o kept
    BY DEF HoldFrame
  <1> HIDE DEF kept
  <1>13. Given = out /\ Given' = out \o ready'
    BY <1>3, <1>10 DEF Given
  <1>14. Handed' = FramesIn(Given')
    BY <1>6 DEF Handed, Passing
  <1>15. Phase' = IF Header.len > 0 /\ release' THEN "Closing" ELSE msg'.m
    BY <1>2, <1>6 DEF Phase
  <1>16. CASE Header.len > 0 /\ release' = Header.fin /\ hold' = kept /\ msg' = Holding(len) /\ ready' = ready
    <2>1. Given' = Given
      BY <1>3, <1>13, <1>16, <1>10
    <2>2. Phase' = IF Header.fin THEN "Closing" ELSE "Holding"
      BY <1>15, <1>16 DEF Holding
    <2> QED
      BY <2>1, <2>2, <1>2, <1>8, <1>11, <1>14, <1>16
  <1>17. CASE Header.len = 0 /\ ~Header.fin /\ hold' = kept /\ msg' = Holding(len) /\ ready' = ready
    <2>1. Given' = Given
      BY <1>3, <1>13, <1>17, <1>10
    <2>2. Phase' = IF Header.fin THEN "Closing" ELSE "Holding"
      BY <1>15, <1>17 DEF Holding
    <2> QED
      BY <2>1, <2>2, <1>2, <1>8, <1>11, <1>14, <1>17
  <1>18. CASE Header.len = 0 /\ Header.fin /\ msg' = None /\ ready' = ready \o kept
    <2>1. ready' = kept
      BY <1>3, <1>10, <1>18
    <2>2. FramesIn(Given') = FramesIn(out) \cup FramesIn(kept)
      <3>1. FramesIn(out \o kept) = FramesIn(out) \cup FramesIn(kept)
        <4>1. out \in Seq(UnitsIn(sent)) /\ kept \in Seq(UnitsIn(sent))
          BY <1>10
        <4> QED
          BY <4>1, FramesInJoin
      <3> QED
        BY <3>1, <2>1, <1>13
    <2>3. Phase' = "None"
      BY <1>15, <1>18 DEF None
    <2> QED
      BY <2>2, <2>3, <1>2, <1>8, <1>11, <1>13, <1>14, <1>18
  <1> QED
    BY <1>12, <1>16, <1>17, <1>18

\* A frame that is read on, whether passed, skipped or held, is decided.
LEMMA LeftDecided ==
    ASSUME FramingInv, state.n > 0
    PROVE  /\ Decided = Place[1] /\ Stream # << >> /\ state.n + Place[2] = sent[Place[1]].len + 1
           /\ state.n \in Nat /\ Place[2] \in Nat /\ sent[Place[1]].len \in Nat
  <1>1. GuardTypes /\ PlaceOK
    BY DEF FramingInv
  <1>2. Stream # << >> /\ state.n + Place[2] = sent[Place[1]].len + 1
    BY <1>1 DEF PlaceOK
  <1>3. Place[2] \in Nat /\ sent[Place[1]].len \in Nat
    BY <1>1, <1>2, PlaceType
  <1> QED
    BY <1>1, <1>2, <1>3 DEF Decided, GuardTypes

\* Reading on a frame that is passed hands on nothing new.
LEMMA PassOn ==
    ASSUME FramingInv, NEW k \in Nat, PassFromBuf(k) \/ PassFromWire(k)
    PROVE  /\ Decided' = Decided /\ Handed' = Handed /\ Phase' = Phase
           /\ sent' = sent /\ hold' = hold /\ msg' = msg /\ dropped' = dropped
           /\ state.in = "Pass" /\ state'.in = "Pass"
  <1>1. UnitsPass(k) /\ dropped' = dropped
    BY PassReads
  <1>2. /\ Passing /\ k \in 1..state.n /\ sent' = sent /\ Stream' = Rest(Stream, k)
        /\ Given' = Given \o Front(Stream, k) /\ state' = At("Pass", state.n - k)
        /\ hold' = hold /\ msg' = msg
    BY <1>1 DEF UnitsPass
  <1>3. state.in = "Pass" /\ state.n > 0 /\ state'.in = "Pass" /\ state'.n = state.n - k
    BY <1>2 DEF Passing, At
  <1>4. /\ Decided = Place[1] /\ Stream # << >> /\ state.n + Place[2] = sent[Place[1]].len + 1
        /\ state.n \in Nat /\ Place[2] \in Nat /\ sent[Place[1]].len \in Nat
    BY <1>3, LeftDecided
  <1> DEFINE n == state.n  p == Place[2]  L == sent[Place[1]].len
  <1>5. k \in Nat \ {0} /\ k <= n /\ n \in Nat
    BY <1>2, <1>4
  <1>6. p + k <= L + 1 /\ n - k = L + 1 - (p + k)
    <2>1. n \in Nat /\ p \in Nat /\ L \in Nat /\ n + p = L + 1
      BY <1>4
    <2> HIDE DEF n, p, L
    <2> QED
      BY <2>1, <1>5
  <1>7. UnitsTaken(k) /\ state'.n = sent[Place[1]].len + 1 - (Place[2] + k)
    BY <1>2, <1>3, <1>4, <1>5, <1>6 DEF UnitsTaken
  <1> HIDE DEF n, p, L
  <1>8. /\ Decided' = Place[1] /\ (state'.n > 0 => Place'[1] = Place[1])
        /\ Run(Front(Stream, k), Place, k) /\ Front(Stream, k) \in Seq(UnitsIn(sent))
        /\ Place \in Nat \X Nat
    BY <1>5, <1>7, TakenDecided
  <1>9. FramesIn(Front(Stream, k)) = {Place[1]}
    BY <1>5, <1>8, RunIsOne
  <1>10. FramesIn(Given') = FramesIn(Given) \cup {Place[1]}
    <2>1. Given \in Seq(UnitsIn(sent))
      BY PlaceType DEF FramingInv
    <2>2. FramesIn(Given \o Front(Stream, k)) = FramesIn(Given) \cup FramesIn(Front(Stream, k))
      BY <2>1, <1>8, FramesInJoin
    <2> QED
      BY <2>2, <1>2, <1>9
  <1>11. Handed' = Handed
    <2>1. Handed = FramesIn(Given) \cup {Place[1]}
      BY <1>2 DEF Handed
    <2>2. Passing' => Place'[1] = Place[1]
      BY <1>8 DEF Passing
    <2> QED
      BY <2>1, <2>2, <1>10 DEF Handed
  <1>12. Phase' = Phase
    <2>1. refused' = refused
      BY DEF PassFromBuf, PassFromWire
    <2> QED
      BY <2>1, <1>2, <1>3 DEF Phase
  <1> QED
    BY <1>1, <1>2, <1>3, <1>4, <1>8, <1>11, <1>12

\* Reading on a frame that is dropped.
LEMMA SkipOn ==
    ASSUME FramingInv, SkipFromBuf
    PROVE  /\ Decided' = Decided /\ Handed' = Handed /\ Phase' = Phase
           /\ sent' = sent /\ hold' = hold /\ msg' = msg /\ dropped' = dropped
           /\ state.in = "Skip" /\ state'.in = "Skip"
  <1>1. /\ \E k \in Nat \ {0} : UnitsSkip(k)
        /\ dropped' = dropped /\ hold' = hold /\ msg' = msg
    BY SkipReads
  <1>2. PICK k \in Nat \ {0} : UnitsSkip(k)
    BY <1>1
  <1>3. /\ UnitsTaken(k) /\ Given' = Given /\ sent' = sent
        /\ state' = At("Skip", sent[Place[1]].len + 1 - (Place[2] + k))
    BY <1>2 DEF UnitsSkip, UnitsTaken
  <1>4. /\ state.in = "Skip" /\ state.n > 0 /\ refused' = refused
        /\ state'.in = "Skip" /\ state'.n = sent[Place[1]].len + 1 - (Place[2] + k)
    BY <1>3 DEF SkipFromBuf, At
  <1>5. Decided = Place[1] /\ Decided' = Place[1]
    BY <1>3, <1>4, LeftDecided, TakenDecided
  <1> QED
    BY <1>1, <1>3, <1>4, <1>5 DEF Handed, Passing, Phase

\* Reading on a frame that is held: it goes to the rest of its message, and
\* at the end of the last frame all is given.
LEMMA HoldOn ==
    ASSUME FramingInv, HoldFromBuf
    PROVE  /\ Decided' = Decided /\ sent' = sent /\ dropped' = dropped
           /\ \/ /\ Phase' = Phase /\ msg' = msg /\ FramesIn(hold') = FramesIn(hold)
                 /\ Handed' = Handed
                 /\ Cardinality(Payload(hold')) + Left' = Cardinality(Payload(hold)) + Left
              \/ /\ ~refused /\ Phase = "Closing" /\ Phase' = "None" /\ msg' = None
                 /\ Handed' = Handed \cup FramesIn(hold)
  <1> DEFINE k == Lesser(state.n, Len(buf))
  <1>1. GuardTypes /\ PlaceOK /\ FramesOK /\ OrderOK
    BY DEF FramingInv
  <1>2. /\ state.in = "Hold" /\ ready = << >> /\ buf # << >> /\ buf' = Rest(buf, k)
        /\ sent' = sent /\ wire' = wire /\ out' = out /\ dropped' = dropped
        /\ ~refused /\ ~refused'
    BY DEF HoldFromBuf
  <1>3. state.n > 0 /\ Fits(sent, hold, Place) /\ Place[2] > 0
    BY <1>1, <1>2 DEF PlaceOK, FramesOK
  <1>4. /\ k \in 1..Len(buf) /\ k \in Nat \ {0} /\ k <= state.n /\ state.n \in Nat
        /\ Place[2] + k <= sent[Place[1]].len + 1
        /\ sent[Place[1]].len + 1 - (Place[2] + k) = state.n - k
    BY <1>2, <1>3, LeftTaken
  <1>5. \/ /\ k < state.n /\ state' = At("Hold", state.n - k) /\ hold' = hold \o Front(buf, k)
           /\ ready' = ready /\ msg' = msg /\ release' = release
        \/ /\ k = state.n /\ ~release /\ state' = AtHeader /\ hold' = hold \o Front(buf, k)
           /\ ready' = ready /\ msg' = msg
        \/ /\ k = state.n /\ release /\ state' = AtHeader
           /\ ready' = ready \o (hold \o Front(buf, k)) /\ msg' = None
    BY DEF HoldFromBuf
  <1> HIDE DEF k
  <1>6. state'.n = state.n - k /\ (state'.in = "Hold" <=> k < state.n) /\ state'.in # "Pass"
    BY <1>4, <1>5 DEF AtHeader, At
  <1>7. Stream # << >> /\ Stream' = Rest(Stream, k) /\ Front(Stream, k) = Front(buf, k)
    BY <1>1, <1>2, <1>4, ReadFromBuf
  <1>8. UnitsTaken(k)
    BY <1>2, <1>4, <1>7 DEF UnitsTaken
  <1>9. /\ Decided' = Place[1] /\ Run(Front(Stream, k), Place, k)
        /\ Front(Stream, k) \in Seq(UnitsIn(sent)) /\ Place \in Nat \X Nat
    BY <1>4, <1>6, <1>8, TakenDecided
  <1>10. Decided = Place[1]
    BY <1>3, LeftDecided
  <1>11. FramesIn(Front(buf, k)) = {Place[1]} /\ Payload(Front(buf, k)) = 1..k
    BY <1>3, <1>4, <1>7, <1>9, RunIsOne
  <1> DEFINE F == Front(buf, k)
             kept == hold \o F
  <1>12. /\ F \in Seq(UnitsIn(sent)) /\ hold \in Seq(UnitsIn(sent)) /\ out \in Seq(UnitsIn(sent))
         /\ kept \in Seq(UnitsIn(sent))
    <2>1. F \in Seq(UnitsIn(sent)) /\ hold \in Seq(UnitsIn(sent)) /\ out \in Seq(UnitsIn(sent))
      BY <1>1, <1>7, <1>9 DEF GuardTypes
    <2> HIDE DEF F
    <2> QED
      BY <2>1
  <1>13. Place[1] \in FramesIn(hold)
    <2>1. hold # << >> /\ Place = <<hold[Len(hold)][1], hold[Len(hold)][2] + 1>>
      BY <1>3 DEF Fits, EndsWhole
    <2>2. Len(hold) \in 1..Len(hold) /\ Place[1] = hold[Len(hold)][1]
      BY <2>1, <1>12
    <2> QED
      BY <2>2 DEF FramesIn
  <1>14. FramesIn(kept) = FramesIn(hold)
    <2>1. FramesIn(hold \o F) = FramesIn(hold) \cup FramesIn(F)
      <3> HIDE DEF F
      <3> QED
        BY <1>12, FramesInJoin
    <2> QED
      BY <2>1, <1>11, <1>13
  <1>15. Cardinality(Payload(kept)) = Cardinality(Payload(hold)) + k /\ Cardinality(Payload(hold)) \in Nat
    <2>1. /\ Cardinality(Payload(hold \o F)) = Cardinality(Payload(hold)) + Cardinality(Payload(F))
          /\ Cardinality(Payload(hold)) \in Nat
      <3> HIDE DEF F
      <3> QED
        BY <1>12, PayloadJoin
    <2>2. Cardinality(1..k) = k
      BY <1>4, FS_Interval
    <2> QED
      BY <2>1, <2>2, <1>11
  <1> HIDE DEF kept, F
  <1>16. Handed = FramesIn(Given) /\ Handed' = FramesIn(Given') /\ Given = out /\ Given' = out \o ready'
    BY <1>2, <1>6, <1>12 DEF Handed, Passing, Given
  <1>17. CASE /\ k < state.n /\ state' = At("Hold", state.n - k) /\ hold' = kept
              /\ ready' = ready /\ msg' = msg /\ release' = release
    <2>1. Given' = Given
      BY <1>2, <1>12, <1>16, <1>17
    <2>2. Phase' = Phase
      BY <1>2, <1>6, <1>17 DEF Phase
    <2>3. Left = state.n /\ Left' = state.n - k
      BY <1>2, <1>6, <1>17 DEF Left
    <2>4. Cardinality(Payload(hold')) + Left' = Cardinality(Payload(hold)) + Left
      BY <2>3, <1>4, <1>15, <1>17
    <2> QED
      BY <2>1, <2>2, <2>4, <1>2, <1>9, <1>10, <1>14, <1>16, <1>17
  <1>18. CASE /\ k = state.n /\ ~release /\ state' = AtHeader /\ hold' = kept
              /\ ready' = ready /\ msg' = msg
    <2>1. Given' = Given
      BY <1>2, <1>12, <1>16, <1>18
    <2>2. ~(k < state.n)
      BY <1>4, <1>18
    <2>3. Phase' = Phase
      BY <2>2, <1>2, <1>6, <1>18 DEF Phase
    <2>4. Left = state.n /\ Left' = 0
      BY <2>2, <1>2, <1>6 DEF Left
    <2>5. Cardinality(Payload(hold')) + Left' = Cardinality(Payload(hold)) + Left
      BY <2>4, <1>4, <1>15, <1>18
    <2> QED
      BY <2>1, <2>3, <2>5, <1>2, <1>9, <1>10, <1>14, <1>16, <1>18
  <1>19. CASE /\ k = state.n /\ release /\ state' = AtHeader
              /\ ready' = ready \o kept /\ msg' = None
    <2>1. ready' = kept
      BY <1>2, <1>12, <1>19
    <2>2. FramesIn(Given') = FramesIn(out) \cup FramesIn(kept)
      <3>1. out \in Seq(UnitsIn(sent)) /\ kept \in Seq(UnitsIn(sent))
        BY <1>12
      <3>2. FramesIn(out \o kept) = FramesIn(out) \cup FramesIn(kept)
        BY <3>1, FramesInJoin
      <3> QED
        BY <3>2, <2>1, <1>16
    <2>3. ~(k < state.n)
      BY <1>4, <1>19
    <2>4. Phase = "Closing" /\ Phase' = "None"
      BY <2>3, <1>2, <1>6, <1>19 DEF Phase, None
    <2> QED
      BY <2>2, <2>4, <1>2, <1>9, <1>10, <1>14, <1>16, <1>19
  <1> QED
    BY <1>5, <1>17, <1>18, <1>19 DEF kept, F

\* The steps that take nothing: only a refusal changes where a message
\* stands.
LEMMA QuietOn ==
    ASSUME FramingInv, FlagsOK, Quiet
    PROVE  /\ Decided' = Decided /\ Handed' = Handed
           /\ sent' = sent /\ msg' = msg /\ dropped' = dropped /\ Left' = Left
           /\ \/ Phase' = Phase /\ hold' = hold /\ refused' = refused
              \/ Refuse /\ Phase' = "Lost" /\ hold' = << >> /\ Left' = 0
  <1>1. GuardTypes
    BY DEF FramingInv
  <1>2. /\ sent' = sent /\ Given' = Given /\ Place' = Place
        /\ dropped' = dropped /\ msg' = msg
        /\ state' = state \/ (state.in # "Hold" /\ state.n = 0 /\ state' = AtHeader)
    BY <1>1, QuietSteps
  <1>3. Decided' = Decided /\ Handed' = Handed /\ Left' = Left
    BY <1>2 DEF Decided, Handed, Passing, AtHeader, At, Left
  <1>4. CASE Refuse
    <2>1. refused' /\ hold' = << >> /\ state' = state /\ state.in = "Header"
      BY <1>4 DEF Refuse
    <2> QED
      BY <2>1, <1>2, <1>3, <1>4 DEF Phase, Left
  <1>5. CASE ~Refuse
    <2>1. refused' = refused /\ release' = release /\ hold' = hold
      BY <1>5 DEF Quiet, FrameDone, HandReady, Fill
    <2>2. Phase' = Phase
      BY <2>1, <1>2 DEF Phase, AtHeader, At
    <2> QED
      BY <2>1, <2>2, <1>2, <1>3
  <1> QED
    BY <1>4, <1>5

\* A frame sent is not decided yet.
LEMMA SendOn ==
    ASSUME FramingInv, NEW f \in Frames, Send(f)
    PROVE  /\ Decided' = Decided /\ Handed' = Handed /\ Phase' = Phase
           /\ hold' = hold /\ msg' = msg /\ dropped' = dropped /\ Left' = Left
           /\ \A i \in 1..Decided : sent'[i] = sent[i]
  <1>1. /\ Place' = Place /\ Given' = Given /\ sent' = Append(sent, f)
        /\ hold' = hold /\ state' = state /\ msg' = msg /\ dropped' = dropped
    BY SendGrows
  <1>2. release' = release /\ refused' = refused
    BY DEF Send
  <1>3. Decided' = Decided /\ Handed' = Handed /\ Phase' = Phase /\ Left' = Left
    BY <1>1, <1>2 DEF Decided, Handed, Passing, Phase, Left
  <1>4. Decided \in Nat /\ Decided <= Len(sent) /\ Len(sent) \in Nat /\ sent \in Seq(Frames)
    BY DecidedType
  <1>5. ASSUME NEW i \in 1..Decided PROVE sent'[i] = sent[i]
    <2>1. i \in 1..Len(sent)
      BY <1>4
    <2> QED
      BY <2>1, <1>1, <1>4
  <1> QED
    BY <1>1, <1>3, <1>5

\* What a message held counts with the frame being decided.
HoldLen == IF msg.m = "Holding" THEN msg.len + Header.len ELSE Header.len

\* decide's two ways to Hold are one: what is held is empty when a message
\* begins.
LEMMA HoldsWith ==
    ASSUME FramingInv, DecideHeld \/ DecideNewHeld
    PROVE  /\ HoldFrame(Header, hold, HoldLen) /\ HoldLen \in Nat /\ HoldLen <= Cap
           /\ DecideNewHeld => hold = << >>
  <1>1. Deciding /\ GuardTypes /\ OrderOK
    BY DEF FramingInv, DecideHeld, DecideNewHeld
  <1>2. Header.len \in Nat
    BY <1>1, AtDecide
  <1>3. msg.len \in Nat
    BY <1>1 DEF GuardTypes
  <1>4. CASE DecideHeld
    <2>1. msg.m = "Holding" /\ msg.len + Header.len <= Cap /\ HoldFrame(Header, hold, msg.len + Header.len)
      BY <1>4 DEF DecideHeld
    <2>2. ~DecideNewHeld
      BY <2>1 DEF DecideNewHeld, None
    <2> QED
      BY <2>1, <2>2, <1>2, <1>3 DEF HoldLen
  <1>5. CASE DecideNewHeld
    <2>1. msg = None /\ Header.len <= Cap /\ HoldFrame(Header, << >>, Header.len)
      BY <1>5 DEF DecideNewHeld
    <2>2. msg.m # "Holding"
      BY <2>1 DEF None
    <2>3. hold = << >>
      BY <2>2, <1>1 DEF OrderOK
    <2> QED
      BY <2>1, <2>2, <2>3, <1>2 DEF HoldLen
  <1> QED
    BY <1>4, <1>5

\* A step of decide decides one frame, which is not illegal.
LEMMA DecideOne ==
    ASSUME FramingInv, FlagsOK, Decide
    PROVE  /\ Deciding /\ Decided' = Decided + 1
  <1>1. CASE DecideControl \/ DecideStray \/ DecideNewWhole \/ DecideBroken
    BY <1>1, PassesTo DEF DecideControl, DecideStray, DecideNewWhole, DecideBroken
  <1>2. CASE DecideSkipped \/ DecideGrown \/ DecideNewOver
    BY <1>2, SkipsTo DEF DecideSkipped, DecideGrown, DecideNewOver
  <1>3. CASE DecideHeld \/ DecideNewHeld
    <2>1. HoldFrame(Header, hold, HoldLen)
      BY <1>3, HoldsWith
    <2>2. Decided' = Decided + 1
      BY <2>1, <1>3, HoldsTo
    <2> QED
      BY <2>2, <1>3 DEF DecideHeld, DecideNewHeld
  <1> QED
    BY <1>1, <1>2, <1>3 DEF Decide

\* Every step keeps LegalInv.
LEMMA LegalStep ==
    ASSUME FramingInv, FlagsOK, LegalInv, [GuardNext]_guardVars
    PROVE  LegalInv'
  <1>1. CASE Decide
    <2>1. Deciding /\ Decided' = Decided + 1
      BY <1>1, DecideOne
    <2>2. /\ Header = sent[Decided + 1] /\ Header.op # "illegal" /\ sent' = sent /\ ~refused'
          /\ Decided \in Nat
      BY <2>1, AtDecide
    <2>3. ASSUME NEW i \in 1..Decided' PROVE sent'[i].op # "illegal"
      <3>1. i \in 1..Decided \/ i = Decided + 1
        BY <2>1, <2>2
      <3> QED
        BY <3>1, <2>2 DEF LegalInv
    <2> QED
      BY <2>2, <2>3 DEF LegalInv
  <1>2. ASSUME Decided' = Decided, \A i \in 1..Decided : sent'[i] = sent[i],
               ~refused'
        PROVE  LegalInv'
    BY <1>2 DEF LegalInv
  <1>3. ASSUME NEW k \in Nat, PassFromBuf(k) \/ PassFromWire(k) PROVE LegalInv'
    <2>1. ~refused'
      BY <1>3 DEF PassFromBuf, PassFromWire
    <2> QED
      BY <2>1, <1>2, <1>3, PassOn
  <1>4. CASE SkipFromBuf
    <2>1. ~refused'
      BY <1>4 DEF SkipFromBuf
    <2> QED
      BY <2>1, <1>2, <1>4, SkipOn
  <1>5. CASE HoldFromBuf
    <2>1. ~refused'
      BY <1>5 DEF HoldFromBuf
    <2> QED
      BY <2>1, <1>2, <1>5, HoldOn
  <1>6. CASE Quiet
    <2>1. Decided' = Decided /\ sent' = sent
      BY <1>6, QuietOn
    <2>2. CASE ~Refuse
      <3>1. ~refused'
        BY <2>2, <1>6 DEF Quiet, FrameDone, HandReady, Fill
      <3> QED
        BY <3>1, <2>1, <1>2
    <2>3. CASE Refuse
      <3>1. hold' = << >> /\ ready' = << >> /\ buf' # << >>
        BY <2>3 DEF Refuse
      <3> QED
        BY <3>1, <2>1 DEF LegalInv
    <2> QED
      BY <2>2, <2>3
  <1>7. ASSUME NEW f \in Frames, Send(f) PROVE LegalInv'
    <2>1. Decided' = Decided /\ \A i \in 1..Decided : sent'[i] = sent[i]
      BY <1>7, SendOn
    <2>2. refused' = refused /\ hold' = hold /\ ready' = ready /\ buf' = buf
      BY <1>7 DEF Send
    <2> QED
      BY <2>1, <2>2 DEF LegalInv
  <1>8. CASE UNCHANGED guardVars
    <2>1. /\ sent' = sent /\ Stream' = Stream /\ state' = state
          /\ refused' = refused /\ hold' = hold /\ ready' = ready /\ buf' = buf
      BY <1>8 DEF guardVars, Stream
    <2>2. Decided' = Decided
      BY <2>1 DEF Decided, Place
    <2> QED
      BY <2>1, <2>2 DEF LegalInv
  <1> QED
    BY <1>1, <1>3, <1>4, <1>5, <1>6, <1>7, <1>8 DEF GuardNext, Read, Quiet

\* The payload held with the header of one more frame.
LEMMA HoldsCount ==
    ASSUME FramingInv, HeldInv, DecideHeld \/ DecideNewHeld, msg'.m = "Holding"
    PROVE  msg'.len <= Cap /\ Cardinality(Payload(hold')) + Left' <= msg'.len
  <1>1. /\ HoldFrame(Header, hold, HoldLen) /\ HoldLen \in Nat /\ HoldLen <= Cap
        /\ DecideNewHeld => hold = << >>
    BY HoldsWith
  <1>2. Deciding /\ GuardTypes /\ buf # << >>
    BY DEF FramingInv, DecideHeld, DecideNewHeld, Deciding
  <1>3. Header.len \in Nat /\ Place[2] = 0 /\ state.in = "Header"
    BY <1>2, AtDecide
  <1>4. Place = Head(buf) /\ Head(buf) \in UnitsIn(sent)
    BY <1>2, HeaderAtPlace
  <1> DEFINE u == Head(buf)
  <1>5. hold' = Append(hold, u) /\ msg' = Holding(HoldLen) /\ Left' = Header.len
    BY <1>1, <1>3 DEF HoldFrame, None, Left, At, AtHeader
  <1>6. hold \in Seq(UnitsIn(sent)) /\ msg.len \in Nat /\ u \in UnitsIn(sent) /\ u[2] = 0
    BY <1>2, <1>3, <1>4 DEF GuardTypes
  <1> HIDE DEF u
  <1>7. Append(hold, u) = hold \o <<u>> /\ <<u>> \in Seq(UnitsIn(sent))
    <2>1. Append(hold, u) = hold \o <<u>>
      BY <1>6, AppendIsConcat
    <2> QED
      BY <2>1, <1>6
  <1>8. /\ Cardinality(Payload(hold \o <<u>>)) = Cardinality(Payload(hold)) + Cardinality(Payload(<<u>>))
        /\ Cardinality(Payload(hold)) \in Nat
    BY <1>6, <1>7, PayloadJoin
  <1>9. Cardinality(Payload(<<u>>)) = 0
    <2>1. Payload(<<u>>) = {}
      BY <1>6 DEF Payload
    <2> QED
      BY <2>1, FS_EmptySet
  <1>10. Cardinality(Payload(hold')) = Cardinality(Payload(hold))
    BY <1>5, <1>7, <1>8, <1>9
  <1>11. Cardinality(Payload(hold)) + Header.len <= HoldLen
    <2>1. CASE msg.m = "Holding"
      <3>1. Cardinality(Payload(hold)) + Left <= msg.len /\ Left = 0
        BY <2>1, <1>3 DEF HeldInv, Left
      <3>2. HoldLen = msg.len + Header.len
        BY <2>1 DEF HoldLen
      <3> QED
        BY <3>1, <3>2, <1>3, <1>6, <1>8
    <2>2. CASE msg.m # "Holding"
      <3>1. hold = << >>
        BY <2>2, <1>1 DEF DecideHeld
      <3>2. Payload(hold) = {}
        BY <3>1 DEF Payload
      <3>3. Cardinality(Payload(hold)) = 0 /\ HoldLen = Header.len
        BY <3>2, <2>2, FS_EmptySet DEF HoldLen
      <3> QED
        BY <3>3, <1>3
    <2> QED
      BY <2>1, <2>2
  <1>12. msg'.len = HoldLen
    BY <1>5 DEF Holding
  <1> QED
    BY <1>1, <1>5, <1>10, <1>11, <1>12

\* Every step keeps HeldInv.
LEMMA HeldStep ==
    ASSUME FramingInv, FlagsOK, HeldInv, [GuardNext]_guardVars
    PROVE  HeldInv'
  <1>1. CASE DecideControl \/ DecideStray \/ DecideNewWhole \/ DecideBroken
    <2>1. state'.in = "Pass"
      BY <1>1, PassesTo
    <2>2. Left' = 0
      BY <2>1 DEF Left
    <2>3. CASE DecideControl
      <3>1. hold' = hold /\ msg' = msg /\ state.in = "Header"
        BY <2>3 DEF DecideControl, Deciding
      <3>2. Left = 0
        BY <3>1 DEF Left
      <3> QED
        BY <3>1, <3>2, <2>2 DEF HeldInv
    <2>4. CASE DecideStray \/ DecideNewWhole \/ DecideBroken
      <3>1. msg'.m = "None"
        BY <2>4 DEF DecideStray, DecideNewWhole, DecideBroken, None
      <3> QED
        BY <3>1 DEF HeldInv
    <2> QED
      BY <1>1, <2>3, <2>4
  <1>2. CASE DecideSkipped \/ DecideGrown \/ DecideNewOver
    <2>1. msg'.m # "Holding"
      BY <1>2 DEF DecideSkipped, DecideGrown, DecideNewOver, None, Skipping
    <2> QED
      BY <2>1 DEF HeldInv
  <1>3. CASE DecideHeld \/ DecideNewHeld
    BY <1>3, HoldsCount DEF HeldInv
  <1>4. ASSUME NEW k \in Nat, PassFromBuf(k) \/ PassFromWire(k) PROVE HeldInv'
    <2>1. hold' = hold /\ msg' = msg /\ state.in = "Pass" /\ state'.in = "Pass"
      BY <1>4, PassOn
    <2> QED
      BY <2>1 DEF HeldInv, Left
  <1>5. CASE SkipFromBuf
    <2>1. hold' = hold /\ msg' = msg /\ state.in = "Skip" /\ state'.in = "Skip"
      BY <1>5, SkipOn
    <2> QED
      BY <2>1 DEF HeldInv, Left
  <1>6. CASE HoldFromBuf
    <2>1. \/ msg' = msg /\ Cardinality(Payload(hold')) + Left' = Cardinality(Payload(hold)) + Left
          \/ msg' = None
      BY <1>6, HoldOn
    <2> QED
      BY <2>1 DEF HeldInv, None
  <1>7. CASE Quiet
    <2>1. msg' = msg /\ Left' = Left /\ (hold' = hold \/ (hold' = << >> /\ Left' = 0))
      BY <1>7, QuietOn
    <2>2. CASE hold' = hold
      BY <2>1, <2>2 DEF HeldInv
    <2>3. CASE hold' = << >> /\ Left' = 0
      <3>1. Payload(hold') = {}
        BY <2>3 DEF Payload
      <3>2. Cardinality(Payload(hold')) = 0
        BY <3>1, FS_EmptySet
      <3>3. msg.len \in Nat
        BY DEF FramingInv, GuardTypes
      <3> QED
        BY <3>2, <3>3, <2>1, <2>3 DEF HeldInv
    <2> QED
      BY <2>1, <2>2, <2>3
  <1>8. ASSUME NEW f \in Frames, Send(f) PROVE HeldInv'
    <2>1. hold' = hold /\ msg' = msg /\ Left' = Left
      BY <1>8, SendOn
    <2> QED
      BY <2>1 DEF HeldInv
  <1>9. CASE UNCHANGED guardVars
    BY <1>9 DEF guardVars, HeldInv, Left
  <1> QED
    BY <1>1, <1>2, <1>3, <1>4, <1>5, <1>6, <1>7, <1>8, <1>9
       DEF GuardNext, Read, Decide, Quiet

\* What is well formed to a frame is well formed before it, and the frame
\* itself continues a message just when one is open.
LEMMA FormedBefore ==
    ASSUME NEW fs, NEW d \in Nat, Formed(fs, d + 1)
    PROVE  /\ Formed(fs, d)
           /\ Data(fs, d + 1) => (fs[d + 1].op = "cont" <=> OpenAt(fs, d))
  <1>1. \A i \in 1..d : i \in 1..(d + 1)
    OBVIOUS
  <1>2. d + 1 \in 1..(d + 1) /\ (d + 1) - 1 = d
    OBVIOUS
  <1> QED
    BY <1>1, <1>2 DEF Formed

\* A step of decide keeps the messages: what it does with a frame is what the
\* message that the frame is of calls for, and a frame of no message is not
\* well formed.
LEMMA MessagesDecide ==
    ASSUME FramingInv, FlagsOK, MessagesInv, Decide
    PROVE  MessagesInv'
  <1> DEFINE d == Decided
             h == FramesIn(hold)
  <1>1. Deciding /\ Decided' = d + 1
    BY DecideOne
  <1>2. /\ d \in Nat /\ Header = sent[d + 1] /\ LensTo(sent, d + 1) /\ Header.len \in Nat
        /\ Handed = FramesIn(Given) /\ Phase = msg.m /\ sent' = sent /\ ~refused
    BY <1>1, AtDecide
  <1> HIDE DEF d
  <1>3. SUFFICES ASSUME Formed(sent, d + 1)
                 PROVE  MessagesOK(sent, d + 1, Phase', msg'.len, FramesIn(hold'), Handed', dropped')
    BY <1>1, <1>2 DEF MessagesInv
  <1>4. Formed(sent, d) /\ (Data(sent, d + 1) => (sent[d + 1].op = "cont" <=> OpenAt(sent, d)))
    BY <1>2, <1>3, FormedBefore
  <1>5. MessagesOK(sent, d, msg.m, msg.len, h, Handed, dropped)
    BY <1>2, <1>4 DEF MessagesInv, d
  <1>6. /\ msg.m = "None" => ~OpenAt(sent, d)
        /\ msg.m \in {"Skipping", "Holding"} => OpenAt(sent, d)
    BY <1>5 DEF MessagesOK
  <1>7. out' = out /\ msg.len \in Nat /\ dropped \in Nat
    BY <1>1 DEF Deciding, FramingInv, GuardTypes
  <1>8. ready' = ready => Given' = Given
    BY <1>7 DEF Given
  <1> HIDE DEF h
  <1>9. CASE DecideControl
    <2>1. /\ Header.op = "control" /\ hold' = hold /\ msg' = msg /\ dropped' = dropped /\ ready' = ready
      BY <1>9 DEF DecideControl
    <2>2. Handed' = Handed \cup {d + 1} /\ Phase' = msg.m
      BY <2>1, <1>2, <1>8, <1>9, PassesTo DEF d
    <2>3. ~Data(sent, d + 1)
      BY <2>1, <1>2 DEF Data
    <2>4. MessagesOK(sent, d + 1, msg.m, msg.len, h, Handed \cup {d + 1}, dropped)
      BY <2>3, <1>2, <1>5, OnControl
    <2> QED
      BY <2>1, <2>2, <2>4 DEF h
  <1>10. CASE DecideStray
    <2>1. \/ sent[d + 1].op = "cont" /\ msg.m = "None"
          \/ sent[d + 1].op = "data" /\ msg.m = "Skipping"
      BY <1>2, <1>10 DEF DecideStray, None, Skipping
    <2> QED
      BY <2>1, <1>4, <1>6 DEF Data
  <1>11. CASE DecideBroken
    <2>1. sent[d + 1].op = "data" /\ msg.m = "Holding"
      BY <1>2, <1>11 DEF DecideBroken
    <2> QED
      BY <2>1, <1>4, <1>6 DEF Data
  <1>12. CASE DecideNewWhole
    <2>1. /\ sent[d + 1].op = "data" /\ sent[d + 1].len <= Cap /\ sent[d + 1].fin /\ msg = None
          /\ hold' = hold /\ msg' = msg /\ dropped' = dropped /\ ready' = ready
      BY <1>2, <1>12 DEF DecideNewWhole
    <2>2. Handed' = Handed \cup {d + 1} /\ Phase' = "None" /\ msg.m = "None"
      BY <2>1, <1>2, <1>8, <1>12, PassesTo DEF d, None
    <2>3. MessagesOK(sent, d, "None", msg.len, h, Handed, dropped) /\ sent[d + 1].len \in Nat
      BY <2>2, <1>2, <1>5
    <2>4. MessagesOK(sent, d + 1, "None", msg.len, h, Handed \cup {d + 1}, dropped)
      BY <2>1, <2>3, <1>2, OnNewWhole
    <2> QED
      BY <2>1, <2>2, <2>4 DEF h
  <1>13. CASE DecideNewOver
    <2>1. /\ sent[d + 1].op = "data" /\ sent[d + 1].len > Cap /\ msg = None
          /\ msg' = (IF sent[d + 1].fin THEN None ELSE Skipping) /\ dropped' = dropped + 1
      BY <1>2, <1>13 DEF DecideNewOver
    <2>2. Handed' = Handed /\ Phase' = msg'.m /\ msg.m = "None"
      BY <2>1, <1>13, SkipsTo DEF None
    <2>3. MessagesOK(sent, d, "None", msg.len, h, Handed, dropped) /\ sent[d + 1].len \in Nat
      BY <2>2, <1>2, <1>5
    <2>4. Phase' = IF sent[d + 1].fin THEN "None" ELSE "Skipping"
      BY <2>1, <2>2 DEF None, Skipping
    <2>5. MessagesOK(sent, d + 1, Phase', msg'.len, FramesIn(hold'), Handed, dropped + 1)
      BY <2>1, <2>3, <2>4, <1>2, OnNewOver
    <2> QED
      BY <2>1, <2>2, <2>5
  <1>14. CASE DecideSkipped
    <2>1. /\ sent[d + 1].op = "cont" /\ msg = Skipping
          /\ msg' = (IF sent[d + 1].fin THEN None ELSE Skipping) /\ dropped' = dropped
      BY <1>2, <1>14 DEF DecideSkipped
    <2>2. Handed' = Handed /\ Phase' = msg'.m /\ msg.m = "Skipping"
      BY <2>1, <1>14, SkipsTo DEF Skipping
    <2>3. MessagesOK(sent, d, "Skipping", msg.len, h, Handed, dropped)
      BY <2>2, <1>5
    <2>4. Phase' = IF sent[d + 1].fin THEN "None" ELSE "Skipping"
      BY <2>1, <2>2 DEF None, Skipping
    <2>5. MessagesOK(sent, d + 1, Phase', msg'.len, FramesIn(hold'), Handed, dropped)
      BY <2>1, <2>3, <2>4, <1>2, <1>4, OnSkipped
    <2> QED
      BY <2>1, <2>2, <2>5
  <1>15. CASE DecideGrown
    <2>1. /\ sent[d + 1].op = "cont" /\ msg.m = "Holding" /\ msg.len + sent[d + 1].len > Cap
          /\ msg' = (IF sent[d + 1].fin THEN None ELSE Skipping) /\ dropped' = dropped + 1
      BY <1>2, <1>15 DEF DecideGrown
    <2>2. Handed' = Handed /\ Phase' = msg'.m
      BY <1>15, SkipsTo
    <2>3. MessagesOK(sent, d, "Holding", msg.len, h, Handed, dropped)
      BY <2>1, <1>5
    <2>4. Phase' = IF sent[d + 1].fin THEN "None" ELSE "Skipping"
      BY <2>1, <2>2 DEF None, Skipping
    <2>5. MessagesOK(sent, d + 1, Phase', msg'.len, FramesIn(hold'), Handed, dropped + 1)
      BY <2>1, <2>3, <2>4, <1>2, <1>4, <1>7, OnGrown
    <2> QED
      BY <2>1, <2>2, <2>5
  <1>16. CASE DecideHeld \/ DecideNewHeld
    <2> DEFINE L == HoldLen
               ph == IF sent[d + 1].fin THEN "Closing" ELSE "Holding"
               h2 == h \cup {d + 1}
    <2>1. HoldFrame(Header, hold, L) /\ (DecideNewHeld => hold = << >>)
      BY <1>16, HoldsWith
    <2>2. /\ \/ Phase' = ph /\ msg' = Holding(L) /\ FramesIn(hold') = h2 /\ Handed' = Handed
             \/ sent[d + 1].fin /\ Phase' = "None" /\ msg' = None /\ Handed' = Handed \cup h2
      BY <2>1, <1>2, <1>16, HoldsTo DEF d, h
    <2>3. dropped' = dropped
      BY <1>16, DecideHolds
    <2>4. MessagesOK(sent, d + 1, ph, L, h2, Handed, dropped)
      <3>1. CASE DecideHeld
        <4>1. /\ sent[d + 1].op = "cont" /\ msg.m = "Holding" /\ msg.len + sent[d + 1].len <= Cap
              /\ L = msg.len + sent[d + 1].len
          BY <3>1, <1>2 DEF DecideHeld, HoldLen
        <4>2. MessagesOK(sent, d, "Holding", msg.len, h, Handed, dropped)
          BY <4>1, <1>5
        <4>3. MessagesOK(sent, d + 1, ph, msg.len + sent[d + 1].len, h2, Handed, dropped)
          BY <4>1, <4>2, <1>2, <1>4, <1>7, OnHeld
        <4> QED
          BY <4>1, <4>3
      <3>2. CASE DecideNewHeld
        <4>1. /\ sent[d + 1].op = "data" /\ msg = None /\ sent[d + 1].len <= Cap /\ ~sent[d + 1].fin
              /\ hold = << >>
          BY <3>2, <2>1, <1>2 DEF DecideNewHeld
        <4>2. msg.m = "None" /\ L = sent[d + 1].len
          BY <4>1, <1>2 DEF HoldLen, None
        <4>3. h = {}
          BY <4>1 DEF h, FramesIn
        <4>4. MessagesOK(sent, d, "None", msg.len, h, Handed, dropped) /\ sent[d + 1].len \in Nat
          BY <4>2, <1>2, <1>5
        <4>5. MessagesOK(sent, d + 1, "Holding", sent[d + 1].len, {d + 1}, Handed, dropped)
          BY <4>1, <4>4, <1>2, OnNewHeld
        <4>6. h2 = {d + 1} /\ ph = "Holding"
          BY <4>1, <4>3
        <4> QED
          BY <4>2, <4>5, <4>6
      <3> QED
        BY <1>16, <3>1, <3>2
    <2> HIDE DEF L, h2
    <2>5. CASE Phase' = ph /\ msg' = Holding(L) /\ FramesIn(hold') = h2 /\ Handed' = Handed
      <3>1. msg'.len = L
        BY <2>5 DEF Holding
      <3> QED
        BY <3>1, <2>3, <2>4, <2>5
    <2>6. CASE sent[d + 1].fin /\ Phase' = "None" /\ Handed' = Handed \cup h2
      <3>1. MessagesOK(sent, d + 1, "Closing", L, h2, Handed, dropped)
        BY <2>4, <2>6
      <3>2. d + 1 \in Nat
        BY <1>2
      <3>3. MessagesOK(sent, d + 1, "None", msg'.len, FramesIn(hold'), Handed \cup h2, dropped)
        BY <3>1, <3>2, <1>3, OnRelease
      <3> QED
        BY <3>3, <2>3, <2>6
    <2> QED
      BY <2>2, <2>5, <2>6
  <1> QED
    BY <1>9, <1>10, <1>11, <1>12, <1>13, <1>14, <1>15, <1>16 DEF Decide

\* Every step keeps MessagesInv.
LEMMA MessagesStep ==
    ASSUME FramingInv, FlagsOK, MessagesInv, [GuardNext]_guardVars
    PROVE  MessagesInv'
  <1>1. CASE Decide
    BY <1>1, MessagesDecide
  <1>2. ASSUME Decided' = Decided, Handed' = Handed, Phase' = Phase, sent' = sent,
               FramesIn(hold') = FramesIn(hold), msg' = msg, dropped' = dropped
        PROVE  MessagesInv'
    BY <1>2 DEF MessagesInv
  <1>3. ASSUME NEW k \in Nat, PassFromBuf(k) \/ PassFromWire(k) PROVE MessagesInv'
    BY <1>2, <1>3, PassOn
  <1>4. CASE SkipFromBuf
    BY <1>2, <1>4, SkipOn
  <1>5. Decided \in Nat
    BY DecidedType
  <1>6. CASE HoldFromBuf
    <2>1. /\ Decided' = Decided /\ sent' = sent /\ dropped' = dropped
          /\ \/ /\ Phase' = Phase /\ msg' = msg /\ FramesIn(hold') = FramesIn(hold)
                /\ Handed' = Handed
             \/ /\ Phase = "Closing" /\ Phase' = "None" /\ Handed' = Handed \cup FramesIn(hold)
      BY <1>6, HoldOn
    <2>2. CASE Phase' = Phase /\ msg' = msg /\ FramesIn(hold') = FramesIn(hold) /\ Handed' = Handed
      BY <2>1, <2>2, <1>2
    <2>3. CASE Phase = "Closing" /\ Phase' = "None" /\ Handed' = Handed \cup FramesIn(hold)
      <3>1. SUFFICES ASSUME Formed(sent, Decided)
                     PROVE  MessagesOK(sent, Decided, "None", msg'.len, FramesIn(hold'),
                                       Handed \cup FramesIn(hold), dropped)
        BY <2>1, <2>3 DEF MessagesInv
      <3>2. MessagesOK(sent, Decided, "Closing", msg.len, FramesIn(hold), Handed, dropped)
        BY <3>1, <2>3 DEF MessagesInv
      <3> QED
        BY <3>1, <3>2, <1>5, OnRelease
    <2> QED
      BY <2>1, <2>2, <2>3
  <1>7. CASE Quiet
    <2>1. /\ Decided' = Decided /\ Handed' = Handed
          /\ sent' = sent /\ msg' = msg /\ dropped' = dropped
          /\ (Phase' = Phase /\ hold' = hold) \/ Phase' = "Lost"
      BY <1>7, QuietOn
    <2>2. CASE Phase' = Phase /\ hold' = hold
      BY <2>1, <2>2, <1>2
    <2>3. CASE Phase' = "Lost"
      <3>1. SUFFICES ASSUME Formed(sent, Decided)
                     PROVE  MessagesOK(sent, Decided, "Lost", msg'.len, FramesIn(hold'), Handed, dropped)
        BY <2>1, <2>3 DEF MessagesInv
      <3>2. MessagesOK(sent, Decided, Phase, msg.len, FramesIn(hold), Handed, dropped)
        BY <3>1 DEF MessagesInv
      <3> QED
        BY <3>2, <1>5, OnLost
    <2> QED
      BY <2>1, <2>2, <2>3
  <1>8. ASSUME NEW f \in Frames, Send(f) PROVE MessagesInv'
    <2>1. /\ Decided' = Decided /\ Handed' = Handed /\ Phase' = Phase
          /\ hold' = hold /\ msg' = msg /\ dropped' = dropped
          /\ \A i \in 1..Decided : sent'[i] = sent[i]
      BY <1>8, SendOn
    <2> DEFINE d == Decided
               gs == sent'
    <2>2. d \in Nat /\ \A i \in 1..d : sent[i] = gs[i]
      BY <2>1, <1>5
    <2> HIDE DEF d, gs
    <2>3. /\ Formed(gs, d) => Formed(sent, d)
          /\ \A ph, len, held, given, drops :
                MessagesOK(sent, d, ph, len, held, given, drops)
                  => MessagesOK(gs, d, ph, len, held, given, drops)
      BY <2>2, MoreFrames
    <2>4. Formed(gs, d) => MessagesOK(gs, d, Phase, msg.len, FramesIn(hold), Handed, dropped)
      BY <2>3 DEF MessagesInv, d
    <2> QED
      BY <2>1, <2>4 DEF MessagesInv, d, gs
  <1>9. CASE UNCHANGED guardVars
    <2>1. /\ sent' = sent /\ Stream' = Stream /\ Given' = Given /\ hold' = hold /\ state' = state
          /\ msg' = msg /\ dropped' = dropped /\ release' = release /\ refused' = refused
      BY <1>9 DEF guardVars, Stream, Given
    <2>2. Place' = Place /\ (Passing' <=> Passing)
      BY <2>1 DEF Place, Passing
    <2>3. Decided' = Decided /\ Handed' = Handed /\ Phase' = Phase
      BY <2>1, <2>2 DEF Decided, Handed, Phase
    <2> QED
      BY <2>1, <2>3, <1>2
  <1> QED
    BY <1>1, <1>3, <1>4, <1>6, <1>7, <1>8, <1>9 DEF GuardNext, Read, Quiet

\* The three at the start.
LEMMA MessagesAtStart ==
    ASSUME GuardInit
    PROVE  MessagesInv /\ LegalInv /\ HeldInv
  <1>1. /\ sent = << >> /\ wire = << >> /\ buf = << >> /\ ready = << >> /\ hold = << >> /\ out = << >>
        /\ state = AtHeader /\ msg = None /\ dropped = 0 /\ refused = FALSE /\ release = FALSE
    BY DEF GuardInit
  <1>2. Stream = << >> /\ Given = << >>
    BY <1>1 DEF Stream, Given
  <1>3. Place = <<1, 0>>
    BY <1>1, <1>2 DEF Place
  <1>4. Decided = 0 /\ Handed = {} /\ Phase = "None"
    BY <1>1, <1>2, <1>3 DEF Decided, Handed, FramesIn, Phase, Passing, AtHeader, At, None
  <1>5. Begun(sent, 0) = {} /\ OverSet(sent, 0) = {} /\ ~OpenAt(sent, 0)
    BY DEF Begun, OverSet, OpenAt
  <1>6. Cardinality(OverSet(sent, 0)) = 0
    BY <1>5, FS_EmptySet
  <1>7. MessagesOK(sent, 0, "None", msg.len, FramesIn(hold), {}, 0)
    BY <1>5, <1>6 DEF MessagesOK
  <1> QED
    BY <1>1, <1>4, <1>7 DEF MessagesInv, LegalInv, HeldInv, None

(***************************************************************************)
(* From the messages as SoFar has them to the messages as MessageOf does.  *)
(***************************************************************************)

\* The greatest of a bounded set of numbers is in it and bounds it.
LEMMA MaxIs ==
    ASSUME NEW S \in SUBSET Nat, S # {}, NEW d \in Nat, \A x \in S : x <= d
    PROVE  Max(S) \in S /\ \A y \in S : y <= Max(S)
  <1>1. PICK n \in S : \A m \in S : m <= n
    BY GreatestNat
  <1>2. \A y \in S : n >= y
    BY <1>1
  <1>3. Max(S) \in S /\ \A y \in S : Max(S) >= y
    BY <1>2 DEF Max
  <1> QED
    BY <1>3

\* The two ways to say that a message is open.
LEMMA OpenAfterIs ==
    ASSUME NEW i \in Nat
    PROVE  OpenAfter(i) <=> OpenAt(sent, i)
  <1> DEFINE B == {j \in 1..i : IsData(j)}
  <1>1. OpenAfter(i) <=> B # {} /\ ~sent[Max(B)].fin
    BY DEF OpenAfter
  <1>2. \A j \in 1..i : IsData(j) <=> Data(sent, j)
    BY DEF IsData, Data
  <1>3. CASE B = {}
    <2>1. ~OpenAt(sent, i)
      BY <1>2, <1>3 DEF OpenAt
    <2> QED
      BY <2>1, <1>1, <1>3
  <1>4. CASE B # {}
    <2>1. B \in SUBSET Nat /\ \A x \in B : x <= i
      OBVIOUS
    <2>2. Max(B) \in B /\ \A y \in B : y <= Max(B)
      <3> HIDE DEF B
      <3> QED
        BY <2>1, <1>4, MaxIs
    <2> DEFINE n == Max(B)
    <2>3. n \in 1..i /\ Data(sent, n) /\ \A y \in 1..i : Data(sent, y) => y <= n
      BY <2>2, <1>2
    <2> HIDE DEF n
    <2>4. \A k \in (n + 1)..i : ~Data(sent, k)
      BY <2>3
    <2>5. ~sent[n].fin => OpenAt(sent, i)
      BY <2>3, <2>4 DEF OpenAt
    <2>6. ASSUME OpenAt(sent, i) PROVE ~sent[n].fin
      <3>1. PICK j \in 1..i : Data(sent, j) /\ ~sent[j].fin /\ \A k \in (j + 1)..i : ~Data(sent, k)
        BY <2>6 DEF OpenAt
      <3>2. j = n
        <4>1. j <= n
          BY <3>1, <2>3
        <4>2. ~(j < n)
          <5>1. j < n => n \in (j + 1)..i
            BY <2>3
          <5> QED
            BY <5>1, <3>1, <2>3
        <4> QED
          BY <4>1, <4>2, <2>3
      <3> QED
        BY <3>1, <3>2
    <2> QED
      BY <2>5, <2>6, <1>1, <1>4 DEF n
  <1> QED
    BY <1>3, <1>4

\* The frames decided are legal, and well formed when the peer's are.
LEMMA DecidedLegal ==
    ASSUME FramingInv, LegalInv
    PROVE  1..Decided \subseteq Legal /\ (WellFormed => Formed(sent, Decided))
  <1>1. Decided \in Nat /\ Decided <= Len(sent) /\ Len(sent) \in Nat /\ DOMAIN sent = 1..Len(sent)
    BY DecidedType
  <1>2. ASSUME NEW i \in 1..Decided PROVE i \in Legal
    <2>1. i \in DOMAIN sent /\ \A j \in 1..i : j \in 1..Decided
      BY <1>1
    <2> QED
      BY <2>1 DEF Legal, LegalInv
  <1>3. ASSUME WellFormed, NEW i \in 1..Decided, Data(sent, i)
        PROVE  sent[i].op = "cont" <=> OpenAt(sent, i - 1)
    <2>1. i \in Legal /\ IsData(i) /\ i - 1 \in Nat
      BY <1>1, <1>2, <1>3 DEF IsData, Data
    <2>2. (sent[i].op = "cont") = OpenAfter(i - 1)
      BY <2>1, <1>3 DEF WellFormed
    <2>3. OpenAfter(i - 1) <=> OpenAt(sent, i - 1)
      BY <2>1, OpenAfterIs
    <2> QED
      BY <2>2, <2>3
  <1> QED
    BY <1>2, <1>3 DEF Formed

\* A data frame decided is in the message that some frame f begins; once that
\* message is whole, or when no legal frame is left, it is MessageOf.
LEMMA MessageIs ==
    ASSUME FramingInv, LegalInv, Formed(sent, Decided), NEW i \in 1..Decided, IsData(i)
    PROVE  \E f \in Begun(sent, Decided) :
              /\ i \in SoFar(sent, f, Decided)
              /\ Whole(sent, SoFar(sent, f, Decided)) \/ Legal = 1..Decided
                    => MessageOf(i) = SoFar(sent, f, Decided)
  <1> DEFINE d == Decided
  <1>1. d \in Nat /\ 1..d \subseteq Legal /\ Legal \in SUBSET Nat
    <2>1. d \in Nat /\ DOMAIN sent = 1..Len(sent) /\ Len(sent) \in Nat
      BY DecidedType
    <2>2. Legal \in SUBSET Nat
      BY <2>1 DEF Legal
    <2> QED
      BY <2>1, <2>2, DecidedLegal
  <1>2. Data(sent, i) /\ i \in 1..d
    BY DEF IsData, Data
  <1>3. Formed(sent, d)
    OBVIOUS
  <1> HIDE DEF d
  <1>4. PICK f \in 1..i : /\ sent[f].op = "data" /\ \A k \in (f + 1)..i : sent[k].op # "data"
                          /\ \A j \in f..(i - 1) : Data(sent, j) => ~sent[j].fin
    BY <1>1, <1>2, <1>3, InMessage
  <1>5. f \in Begun(sent, d) /\ f \in Nat /\ i \in Nat
    BY <1>1, <1>2, <1>4 DEF Begun
  <1>6. i \in SoFar(sent, f, d)
    BY <1>2, <1>4 DEF SoFar
  <1>7. Max({j \in 1..i : sent[j].op = "data"}) = f
    <2> DEFINE B == {j \in 1..i : sent[j].op = "data"}
    <2>1. B \in SUBSET Nat /\ f \in B /\ \A x \in B : x <= i
      BY <1>4
    <2>2. \A y \in B : y <= f
      BY <1>4, <1>5
    <2> HIDE DEF B
    <2>3. Max(B) \in B /\ \A y \in B : y <= Max(B)
      BY <2>1, <1>5, MaxIs
    <2>4. Max(B) <= f /\ f <= Max(B) /\ Max(B) \in Nat
      BY <2>1, <2>2, <2>3
    <2>5. Max(B) = f
      BY <2>4, <1>5
    <2> QED
      BY <2>5 DEF B
  <1>8. MessageOf(i) = {k \in Legal : /\ k >= f /\ IsData(k)
                                      /\ \A j \in f..(k - 1) : IsData(j) => ~sent[j].fin}
    BY <1>7 DEF MessageOf
  <1>9. \A k : IsData(k) <=> Data(sent, k)
    BY DEF IsData, Data
  <1>10. SoFar(sent, f, d) \subseteq MessageOf(i)
    <2>1. SUFFICES ASSUME NEW k \in SoFar(sent, f, d) PROVE k \in MessageOf(i)
      OBVIOUS
    <2>2. k \in f..d /\ Data(sent, k) /\ \A j \in f..(k - 1) : Data(sent, j) => ~sent[j].fin
      BY DEF SoFar
    <2>3. k \in Legal /\ k >= f
      BY <2>2, <1>1, <1>4
    <2> QED
      BY <2>2, <2>3, <1>8, <1>9
  <1>11. ASSUME Whole(sent, SoFar(sent, f, d)) \/ Legal = 1..d, NEW k \in MessageOf(i)
         PROVE  k \in SoFar(sent, f, d)
    <2>1. k \in Legal /\ k >= f /\ Data(sent, k) /\ \A j \in f..(k - 1) : Data(sent, j) => ~sent[j].fin
      BY <1>8, <1>9, <1>11
    <2>2. k \in Nat
      BY <2>1, <1>1
    <2>3. k <= d
      <3>1. CASE Legal = 1..d
        BY <3>1, <2>1
      <3>2. CASE Whole(sent, SoFar(sent, f, d))
        <4>1. PICK w \in SoFar(sent, f, d) : sent[w].fin
          BY <3>2 DEF Whole
        <4>2. w \in f..d /\ Data(sent, w)
          BY DEF SoFar
        <4>3. ~(w \in f..(k - 1))
          BY <4>1, <4>2, <2>1
        <4> QED
          BY <4>2, <4>3, <2>2, <1>1, <1>5
      <3> QED
        BY <1>11, <3>1, <3>2
    <2>4. k \in f..d
      BY <2>1, <2>2, <2>3, <1>1, <1>5
    <2> QED
      BY <2>1, <2>4 DEF SoFar
  <1>12. Whole(sent, SoFar(sent, f, d)) \/ Legal = 1..d => MessageOf(i) = SoFar(sent, f, d)
    BY <1>10, <1>11
  <1>13. /\ f \in Begun(sent, Decided) /\ i \in SoFar(sent, f, Decided)
         /\ Whole(sent, SoFar(sent, f, Decided)) \/ Legal = 1..Decided
                => MessageOf(i) = SoFar(sent, f, Decided)
    BY <1>5, <1>6, <1>12 DEF d
  <1> QED
    BY <1>13

\* What tungstenite has read is handed on.
LEMMA SeenHanded ==
    ASSUME FramingInv
    PROVE  /\ Seen \subseteq Handed
           /\ ready = << >> /\ ~Passing => Seen = Handed
  <1>1. out \in Seq(UnitsIn(sent)) /\ ready \in Seq(UnitsIn(sent))
    BY DEF FramingInv, GuardTypes
  <1>2. Seen = FramesIn(out)
    <2>1. DOMAIN out = 1..Len(out)
      BY <1>1
    <2> QED
      BY <2>1 DEF Seen, FramesIn
  <1>3. FramesIn(Given) = FramesIn(out) \cup FramesIn(ready)
    BY <1>1, FramesInJoin DEF Given
  <1>4. ready = << >> => FramesIn(ready) = {}
    BY DEF FramesIn
  <1> QED
    BY <1>2, <1>3, <1>4 DEF Handed

\* A message is handed on whole, legal and within the cap, or not at all.
LEMMA MessagesWhole ==
    ASSUME FramingInv, MessagesInv, LegalInv, HeldInv
    PROVE  WholeOrNothing
  <1>1. /\ Seen \subseteq Handed /\ Handed \subseteq 1..Decided /\ 1..Decided \subseteq Legal
        /\ WellFormed => Formed(sent, Decided)
    BY SeenHanded, HandedDecided, DecidedLegal
  <1>2. NeverHalfSeen
    <2>1. SUFFICES ASSUME WellFormed, NEW i \in Seen, IsData(i) PROVE MessageOf(i) \in WithinCap
      BY DEF NeverHalfSeen
    <2>2. i \in Handed /\ i \in 1..Decided /\ i \in Legal /\ Formed(sent, Decided)
      BY <2>1, <1>1
    <2>3. PICK f \in Begun(sent, Decided) :
              /\ i \in SoFar(sent, f, Decided)
              /\ Whole(sent, SoFar(sent, f, Decided)) \/ Legal = 1..Decided
                    => MessageOf(i) = SoFar(sent, f, Decided)
      BY <2>1, <2>2, MessageIs
    <2> DEFINE m == SoFar(sent, f, Decided)
    <2>4. Fate(sent, f, Decided, Phase, msg.len, FramesIn(hold), Handed)
      BY <2>2 DEF MessagesInv, MessagesOK
    <2>5. m \cap Handed # {}
      BY <2>2, <2>3
    <2>6. SumOf(sent, m) <= Cap /\ Whole(sent, m)
      BY <2>4, <2>5 DEF Fate
    <2>7. MessageOf(i) = m
      BY <2>3, <2>6
    <2> HIDE DEF m
    <2>8. Total(m) <= Cap /\ Complete(m)
      BY <2>6, TotalIsSum DEF Complete, Whole
    <2>9. MessageOf(i) \in Messages
      BY <2>1, <2>2 DEF Messages
    <2> QED
      BY <2>7, <2>8, <2>9 DEF WithinCap
  <1>3. RefusedKeepsNothing
    BY <1>1 DEF RefusedKeepsNothing, LegalInv
  <1>4. HoldWithinCap
    <2>1. hold \in Seq(UnitsIn(sent)) /\ msg.len \in Nat /\ state.n \in Nat /\ (msg.m # "Holding" => hold = << >>)
      BY DEF FramingInv, GuardTypes, OrderOK
    <2>2. DOMAIN hold = 1..Len(hold)
      BY <2>1
    <2>3. {k \in DOMAIN hold : hold[k][2] # 0} = Payload(hold)
      BY <2>2 DEF Payload
    <2>4. Cardinality(Payload(hold)) \in Nat
      BY <2>1, PayloadJoin
    <2>5. CASE msg.m = "Holding"
      <3>1. msg.len <= Cap /\ Cardinality(Payload(hold)) + Left <= msg.len /\ Left \in Nat
        BY <2>1, <2>5 DEF HeldInv, Left
      <3>2. Cardinality(Payload(hold)) <= Cap
        BY <3>1, <2>1, <2>4, CapIsNat
      <3> QED
        BY <3>2, <2>3 DEF HoldWithinCap
    <2>6. CASE msg.m # "Holding"
      <3>1. Payload(hold) = {}
        BY <2>1, <2>6 DEF Payload
      <3>2. Cardinality(Payload(hold)) = 0
        BY <3>1, FS_EmptySet
      <3> QED
        BY <3>2, <2>3, CapIsNat DEF HoldWithinCap
    <2> QED
      BY <2>5, <2>6
  <1> QED
    BY <1>2, <1>3, <1>4 DEF WholeOrNothing

\* With nothing left to read every frame sent is decided, nothing was refused
\* and no frame is half passed or held.
LEMMA AllRead ==
    ASSUME FramingInv, LegalInv, wire = << >>, buf = << >>
    PROVE  /\ Decided = Len(sent) /\ ~Passing /\ ~refused /\ Phase = msg.m
           /\ Phase \notin {"Closing", "Lost"}
  <1>1. GuardTypes /\ PlaceOK
    BY DEF FramingInv
  <1>2. Stream = << >>
    BY DEF Stream
  <1>3. state.n \in Nat /\ ~(state.n > 0) /\ msg.m \in {"None", "Holding", "Skipping"}
    BY <1>1, <1>2 DEF PlaceOK, GuardTypes
  <1>4. state.in # "Hold"
    BY <1>1, <1>3 DEF PlaceOK
  <1>5. Decided = Len(sent)
    <2>1. Place = <<Len(sent) + 1, 0>>
      BY <1>2 DEF Place
    <2>2. Len(sent) \in Nat
      BY DecidedType
    <2>3. Decided = Place[1] - 1
      BY <1>3 DEF Decided
    <2>4. Place[1] = Len(sent) + 1
      BY <2>1
    <2> QED
      BY <2>2, <2>3, <2>4
  <1>6. ~refused
    BY DEF LegalInv
  <1>7. Phase = msg.m
    BY <1>4, <1>6 DEF Phase
  <1> QED
    BY <1>3, <1>5, <1>6, <1>7 DEF Passing

\* With every frame decided and legal, the messages are those that the first
\* frames begin.
LEMMA MessagesAre ==
    ASSUME FramingInv, LegalInv, Formed(sent, Decided), Legal = 1..Decided
    PROVE  Messages = {SoFar(sent, f, Decided) : f \in Begun(sent, Decided)}
  <1>1. Decided \in Nat
    BY DecidedType
  <1>2. ASSUME NEW i \in Legal, IsData(i)
        PROVE  \E f \in Begun(sent, Decided) : /\ i \in SoFar(sent, f, Decided)
                                               /\ MessageOf(i) = SoFar(sent, f, Decided)
    <2>1. i \in 1..Decided
      BY <1>2
    <2> QED
      BY <2>1, <1>2, MessageIs
  <1>3. ASSUME NEW f \in Begun(sent, Decided) PROVE SoFar(sent, f, Decided) \in Messages
    <2>1. f \in SoFar(sent, f, Decided) /\ f \in 1..Decided
      BY <1>1, SoFarType
    <2>2. f \in Legal /\ IsData(f)
      BY <2>1 DEF Begun, IsData
    <2>3. PICK g \in Begun(sent, Decided) : /\ f \in SoFar(sent, g, Decided)
                                            /\ MessageOf(f) = SoFar(sent, g, Decided)
      BY <2>2, <1>2
    <2>4. g = f
      <3>1. g # f => SoFar(sent, f, Decided) \cap SoFar(sent, g, Decided) = {}
        BY <1>1, SoFarApart
      <3> QED
        BY <3>1, <2>1, <2>3
    <2> QED
      BY <2>2, <2>3, <2>4 DEF Messages
  <1>4. ASSUME NEW m \in Messages PROVE \E f \in Begun(sent, Decided) : m = SoFar(sent, f, Decided)
    <2>1. PICK i \in Legal : IsData(i) /\ m = MessageOf(i)
      BY DEF Messages
    <2> QED
      BY <2>1, <1>2
  <1> QED
    BY <1>3, <1>4

\* The bytes of a message are a number.
LEMMA SumNat ==
    ASSUME NEW fs, NEW d \in Nat, LensTo(fs, d), NEW f \in Begun(fs, d)
    PROVE  SumOf(fs, SoFar(fs, f, d)) \in Nat
  <1> DEFINE m == SoFar(fs, f, d)
             r == m \ {f}
  <1>1. f \in m /\ m \in SUBSET (1..d) /\ IsFiniteSet(m)
    BY SoFarType
  <1>2. r \cup {f} = m /\ f \notin r /\ IsFiniteSet(r)
    BY <1>1, FS_Subset
  <1>3. \A i \in r \cup {f} : fs[i].len \in Nat
    BY <1>1, <1>2 DEF LensTo
  <1> HIDE DEF m, r
  <1>4. SumOf(fs, r) \in Nat /\ SumOf(fs, r \cup {f}) = SumOf(fs, r) + fs[f].len
    BY <1>2, <1>3, SumAdd
  <1>5. fs[f].len \in Nat
    BY <1>3
  <1>6. SumOf(fs, m) \in Nat
    <2>1. SumOf(fs, r \cup {f}) \in Nat
      BY <1>4, <1>5
    <2>2. r \cup {f} = m
      BY <1>2
    <2> QED
      BY <2>1, <2>2
  <1> QED
    BY <1>6 DEF m

\* With all read, tungstenite has the control frames and the messages within
\* the cap.
LEMMA AllHanded ==
    ASSUME FramingInv, MessagesInv, LegalInv
    PROVE  HandedOnExact
  <1> DEFINE d == Decided
             S(f) == SoFar(sent, f, d)
  <1>1. Len(sent) \in Nat /\ DOMAIN sent = 1..Len(sent) /\ d \in Nat /\ d <= Len(sent) /\ LensTo(sent, d)
    BY DecidedType
  <1>2. SUFFICES ASSUME WellFormed, Legal = DOMAIN sent, wire \o buf \o ready = << >>
                 PROVE  Seen = (UNION WithinCap) \cup {i \in Legal : ~IsData(i)}
    BY DEF HandedOnExact
  <1>3. wire = << >> /\ buf = << >> /\ ready = << >>
    <2>1. wire \in Seq(UnitsIn(sent)) /\ buf \in Seq(UnitsIn(sent)) /\ ready \in Seq(UnitsIn(sent))
      BY DEF FramingInv, GuardTypes
    <2>2. /\ Len((wire \o buf) \o ready) = Len(wire) + Len(buf) + Len(ready)
          /\ Len(wire) \in Nat /\ Len(buf) \in Nat /\ Len(ready) \in Nat
      BY <2>1
    <2>3. Len((wire \o buf) \o ready) = 0
      BY <1>2
    <2>4. Len(wire) = 0 /\ Len(buf) = 0 /\ Len(ready) = 0
      BY <2>2, <2>3
    <2> QED
      BY <2>1, <2>4
  <1>4. d = Len(sent) /\ ~Passing /\ Phase \notin {"Closing", "Lost"}
    BY <1>3, AllRead
  <1>5. Legal = 1..d /\ Formed(sent, d)
    BY <1>1, <1>2, <1>4, DecidedLegal
  <1>6. Messages = {S(f) : f \in Begun(sent, d)}
    BY <1>5, MessagesAre
  <1>7. MessagesOK(sent, d, Phase, msg.len, FramesIn(hold), Handed, dropped)
    BY <1>5 DEF MessagesInv
  <1>8. Seen = Handed /\ Handed \subseteq 1..d
    BY <1>3, <1>4, SeenHanded, HandedDecided
  <1>9. ASSUME NEW f \in Begun(sent, d)
        PROVE  /\ S(f) \in WithinCap <=> Whole(sent, S(f)) /\ SumOf(sent, S(f)) <= Cap
               /\ SumOf(sent, S(f)) <= Cap => ~(SumOf(sent, S(f)) > Cap)
    <2> DEFINE m == S(f)
    <2>1. m \in Messages
      BY <1>6
    <2>2. SumOf(sent, m) \in Nat
      BY <1>1, SumNat
    <2> HIDE DEF m
    <2>3. Total(m) = SumOf(sent, m) /\ (Complete(m) <=> Whole(sent, m))
      BY TotalIsSum DEF Complete, Whole
    <2>4. m \in WithinCap <=> Whole(sent, m) /\ SumOf(sent, m) <= Cap
      BY <2>1, <2>3 DEF WithinCap
    <2>5. SumOf(sent, m) <= Cap => ~(SumOf(sent, m) > Cap)
      BY <2>2, CapIsNat
    <2> QED
      BY <2>4, <2>5 DEF m
  <1>10. ASSUME NEW i \in Handed, IsData(i) PROVE i \in UNION WithinCap
    <2>1. PICK f \in Begun(sent, d) : i \in S(f)
      BY <1>5, <1>8, <1>10, MessageIs
    <2>2. Fate(sent, f, d, Phase, msg.len, FramesIn(hold), Handed)
      BY <1>7 DEF MessagesOK
    <2>3. S(f) \cap Handed # {}
      BY <2>1
    <2>4. Whole(sent, S(f)) /\ SumOf(sent, S(f)) <= Cap
      BY <2>2, <2>3 DEF Fate
    <2>5. S(f) \in WithinCap
      BY <2>4, <1>9
    <2> QED
      BY <2>1, <2>5
  <1>11. ASSUME NEW m \in WithinCap PROVE m \subseteq Handed
    <2>1. PICK f \in Begun(sent, d) : m = S(f)
      BY <1>6 DEF WithinCap
    <2>2. Whole(sent, m) /\ SumOf(sent, m) <= Cap /\ ~(SumOf(sent, m) > Cap)
      BY <2>1, <1>9
    <2>3. Fate(sent, f, d, Phase, msg.len, FramesIn(hold), Handed)
      BY <1>7 DEF MessagesOK
    <2> QED
      BY <2>1, <2>2, <2>3, <1>4 DEF Fate
  <1>12. ASSUME NEW i \in Legal, ~IsData(i) PROVE i \in Handed
    <2>1. i \in 1..d /\ ~Data(sent, i)
      BY <1>5, <1>12 DEF IsData, Data
    <2> QED
      BY <2>1, <1>7 DEF MessagesOK
  <1> DEFINE W == UNION WithinCap
             C == {i \in Legal : ~IsData(i)}
  <1>13. ASSUME NEW i \in Handed PROVE i \in W \/ i \in C
    <2>1. i \in Legal
      BY <1>5, <1>8
    <2>2. IsData(i) => i \in W
      BY <1>10
    <2>3. ~IsData(i) => i \in C
      BY <2>1
    <2> QED
      BY <2>2, <2>3
  <1>14. \A i \in W : i \in Handed
    BY <1>11
  <1>15. \A i \in C : i \in Handed
    BY <1>12
  <1>16. Seen = W \cup C
    <2> HIDE DEF W, C
    <2> QED
      BY <1>8, <1>13, <1>14, <1>15
  <1> QED
    BY <1>16 DEF W, C

\* With all decided, each message over the cap has been counted once.
LEMMA AllCounted ==
    ASSUME FramingInv, MessagesInv, LegalInv
    PROVE  DropsExact
  <1> DEFINE d == Decided
             S(f) == SoFar(sent, f, d)
             O == OverSet(sent, d)
  <1>1. Len(sent) \in Nat /\ DOMAIN sent = 1..Len(sent) /\ d \in Nat
    BY DecidedType
  <1>2. SUFFICES ASSUME WellFormed, Legal = DOMAIN sent, wire = << >>, buf = << >>
                 PROVE  dropped = Cardinality(OverCap)
    BY DEF DropsExact
  <1>3. d = Len(sent)
    BY <1>2, AllRead
  <1>4. Legal = 1..d /\ Formed(sent, d)
    BY <1>1, <1>2, <1>3, DecidedLegal
  <1>5. Messages = {S(f) : f \in Begun(sent, d)}
    BY <1>4, MessagesAre
  <1>6. dropped = Cardinality(O)
    BY <1>4 DEF MessagesInv, MessagesOK
  <1>7. O \subseteq Begun(sent, d)
    BY DEF OverSet
  <1>8. \A f \in Begun(sent, d) : f \in O <=> Total(S(f)) > Cap
    BY TotalIsSum DEF OverSet
  <1>9. \A f \in O : S(f) \in OverCap
    BY <1>5, <1>7, <1>8 DEF OverCap
  <1>10. \A m \in OverCap : \E f \in O : m = S(f)
    BY <1>5, <1>8 DEF OverCap
  <1>11. ASSUME NEW f \in O, NEW g \in O, S(f) = S(g) PROVE f = g
    <2>1. f \in S(f) /\ f \in Begun(sent, d) /\ g \in Begun(sent, d)
      BY <1>1, <1>7, SoFarType
    <2>2. f # g => S(f) \cap S(g) = {}
      BY <2>1, <1>1, <1>4, SoFarApart
    <2> QED
      BY <2>1, <2>2, <1>11
  <1> DEFINE F == [f \in O |-> S(f)]
  <1>12. F \in [O -> OverCap] /\ \A f \in O : F[f] = S(f)
    BY <1>9
  <1>13. /\ \A f, g \in O : F[f] = F[g] => f = g
         /\ \A m \in OverCap : \E f \in O : F[f] = m
    BY <1>10, <1>11, <1>12
  <1>14. IsFiniteSet(O)
    BY <1>1, OverFinite
  <1> HIDE DEF F, O, S, d
  <1>15. F \in Bijection(O, OverCap)
    BY <1>12, <1>13, Fun_IsBij
  <1>16. ExistsBijection(O, OverCap)
    BY <1>15 DEF ExistsBijection
  <1>17. Cardinality(OverCap) = Cardinality(O)
    BY <1>14, <1>16, FS_Bijection
  <1> QED
    BY <1>6, <1>17

\* The inductive invariant of the guard: the framing, and over it what is
\* legal, what is held and what becomes of each message.
GuardInv == FramingInv /\ FlagsOK /\ LegalInv /\ HeldInv /\ MessagesInv

\* It holds of every behaviour.
LEMMA GuardInvHolds == GuardSpec => []GuardInv
  <1>1. GuardInit => GuardInv
    <2>1. GuardInit => FlagsOK
      BY DEF GuardInit, FlagsOK
    <2> QED
      BY <2>1, FramingAtStart, MessagesAtStart DEF GuardInv
  <1>2. GuardInv /\ [GuardNext]_guardVars => GuardInv'
    BY FramingStep, FlagsStep, LegalStep, HeldStep, MessagesStep DEF GuardInv
  <1> QED
    BY <1>1, <1>2, PTL DEF GuardSpec

\* A message is handed on whole and within the cap or not at all, nothing
\* after an illegal frame goes on or is kept, and the payload the guard holds
\* is within the cap, the headers held with it not counted (Guard::decide,
\* hold_frame, illegal_length).
THEOREM NothingHalfSeen == GuardSpec => []WholeOrNothing
  <1>1. GuardInv => WholeOrNothing
    BY MessagesWhole DEF GuardInv
  <1> QED
    BY <1>1, GuardInvHolds, PTL

\* Once all that was sent is read, tungstenite has every control frame and
\* every message within the cap, nothing else, and the messages dropped are
\* the messages over it, each counted once (Guard::decide, Dropped::count).
THEOREM EachAccounted == GuardSpec => []AllAccounted
  <1>1. GuardInv => AllAccounted
    BY AllHanded, AllCounted DEF GuardInv, AllAccounted
  <1> QED
    BY <1>1, GuardInvHolds, PTL
=============================================================================
