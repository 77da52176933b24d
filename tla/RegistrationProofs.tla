------------------------- MODULE RegistrationProofs -------------------------
(***************************************************************************)
(* For every number of processes and of attempts: what a process takes for *)
(* its registration is the registry's entry, and what it took back is not  *)
(* listed, unless a request was taken late or two processes overlapped.    *)
(***************************************************************************)
EXTENDS Registration, TLAPS

(***************************************************************************)
(* The inductive invariant.                                                *)
(***************************************************************************)
Messages == [kind : {"register", "deregister"}, by : Procs, n : 0..RegisterAttempts]
Main == {"down", "serving", "leaving", "deregistering", "deregister_sent", "returned", "gone"}
Task == {"none", "connecting", "asking", "backoff", "done", "warned"}

Types ==
    /\ main \in [Procs -> Main] /\ task \in [Procs -> Task]
    /\ attempt \in [Procs -> 0..RegisterAttempts] /\ item \in [Procs -> {"awaited", "came"}]
    /\ registered \in [Procs -> BOOLEAN] /\ stopping \in [Procs -> BOOLEAN]
    /\ mail \subseteq Messages /\ answered \subseteq Messages
    /\ entry \in [by : Procs \cup {0}, active : BOOLEAN]
    /\ deregistered \in [Procs -> BOOLEAN]
    /\ late \in BOOLEAN /\ overlap \in BOOLEAN

\* A process before its start has done nothing; the flag is stored at the end
\* of its task, and only serve that found it set takes the entry back.
ProcsOK ==
    \A p \in Procs :
        /\ main[p] = "down" => task[p] = "none"
        /\ registered[p] => task[p] = "done"
        /\ main[p] \in {"deregistering", "deregister_sent"} => registered[p]
        /\ task[p] = "backoff" => attempt[p] < RegisterAttempts
        /\ deregistered[p] => Deregister(p) \in answered

\* A register that was sent is of the attempt under way or of an earlier one,
\* and a deregister is of a process that has stopped serving.
MailOK ==
    \A m \in mail \cup answered :
        /\ main[m.by] # "down"
        /\ m.kind = "register" =>
              /\ m.n <= attempt[m.by]
              /\ task[m.by] = "connecting" => m.n < attempt[m.by]
        /\ m.kind = "deregister" =>
              /\ m.n = 0 /\ registered[m.by]
              /\ main[m.by] \in {"deregister_sent", "returned", "gone"}

\* Without an overlap one process runs at a time.
OneRuns == ~overlap => \A p, q \in Procs : Runs(p) /\ Runs(q) => p = q

\* The register under way is answered, or was.
Listed(p) == registered[p] \/ (task[p] = "asking" /\ Register(p) \in answered)

EntryOK ==
    ~late => \A p \in Procs :
        /\ main[p] = "serving" /\ Listed(p) /\ ~overlap => entry = [by |-> p, active |-> TRUE]
        /\ Deregister(p) \in answered => ~(entry.active /\ entry.by = p)

IInv == Types /\ ProcsOK /\ MailOK /\ OneRuns /\ EntryOK
-----------------------------------------------------------------------------
\* Initially the invariant holds.
LEMMA InitIInv == Init => IInv
  <1> SUFFICES ASSUME Init PROVE IInv
    OBVIOUS
  <1>0. entry \in [by : Procs \cup {0}, active : BOOLEAN] /\ late \in BOOLEAN /\ overlap \in BOOLEAN
    BY DEF Init, NoEntry
  <1>1. Types
    BY <1>0, AttemptsPositive DEF Init, Types, Main, Task
  <1>2. ProcsOK /\ MailOK /\ OneRuns
    BY DEF Init, ProcsOK, MailOK, OneRuns, Runs
  <1>3. EntryOK
    BY DEF Init, EntryOK, Listed
  <1> QED
    BY <1>1, <1>2, <1>3 DEF IInv

\* Every step keeps the invariant.
LEMMA NextIInv == IInv /\ [Next]_vars => IInv'
  <1> SUFFICES ASSUME IInv, [Next]_vars PROVE IInv'
    OBVIOUS
  <1> USE ProcsAreNat, AttemptsPositive DEF procVars, registryVars, history
  <1>t. Types /\ ProcsOK /\ MailOK /\ OneRuns /\ EntryOK
    BY DEF IInv
  <1>1. ASSUME NEW p \in Procs, NEW enabled \in BOOLEAN, Start(p, enabled)
        PROVE  IInv'
    <2>1. Types'
      BY <1>1, <1>t DEF Start, Types, Main, Task, Messages, Register, Deregister
    <2>2. ProcsOK'
      BY <1>1, <1>t DEF Start, Types, ProcsOK, Deregister
    <2>3. MailOK'
      BY <1>1, <1>t DEF Start, Types, Messages, ProcsOK, MailOK, Register, Deregister
    <2>4. OneRuns'
      BY <1>1, <1>t DEF Start, Types, OneRuns, Runs
    <2>5. EntryOK'
      BY <1>1, <1>t DEF Start, Types, Messages, ProcsOK, MailOK, OneRuns, Runs, EntryOK, Listed, Register, Deregister
    <2> QED
      BY <2>1, <2>2, <2>3, <2>4, <2>5 DEF IInv
  <1>2. ASSUME NEW p \in Procs, Sends(p)
        PROVE  IInv'
    <2>1. Types'
      BY <1>2, <1>t DEF Sends, Types, Main, Task, Messages, Register, Deregister
    <2>2. ProcsOK'
      BY <1>2, <1>t DEF Sends, Types, ProcsOK, Deregister
    <2>r. Register(p).kind = "register" /\ Register(p).by = p /\ Register(p).n = attempt[p]
      BY DEF Register
    <2>m. \A m \in mail' \cup answered' : m \in mail \cup answered \/ m = Register(p)
      BY <1>2 DEF Sends
    <2>3. MailOK'
      <3> SUFFICES ASSUME NEW m \in mail' \cup answered'
                   PROVE  MailOK!(m)'
        BY DEF MailOK
      <3>1. CASE m \in mail \cup answered
        BY <1>2, <1>t, <3>1 DEF Sends, Types, Messages, MailOK
      <3>2. CASE m = Register(p)
        BY <1>2, <1>t, <2>r, <3>2 DEF Sends, Types, Runs
      <3> QED
        BY <2>m, <3>1, <3>2
    <2>4. OneRuns'
      BY <1>2, <1>t DEF Sends, Types, OneRuns, Runs
    <2>5. EntryOK'
      \* The attempt's register is new: it cannot have been answered.
      <3>1. Register(p) \notin answered
        <4> SUFFICES ASSUME Register(p) \in answered PROVE FALSE
          OBVIOUS
        <4>1. attempt[p] < attempt[p]
          BY <1>2, <1>t, <2>r DEF Sends, MailOK
        <4>2. attempt[p] \in Nat
          BY <1>t DEF Types
        <4> QED
          BY <4>1, <4>2
      <3>2. \A q \in Procs : Register(q)' = Register(q) /\ Deregister(q)' = Deregister(q)
        BY <1>2 DEF Sends, Register, Deregister
      <3>3. \A q \in Procs : Listed(q)' => Listed(q)
        BY <1>2, <1>t, <3>1, <3>2 DEF Sends, Types, Listed
      <3> QED
        BY <1>2, <1>t, <3>2, <3>3 DEF Sends, EntryOK
    <2> QED
      BY <2>1, <2>2, <2>3, <2>4, <2>5 DEF IInv
  <1>3. ASSUME NEW p \in Procs, Confirmed(p)
        PROVE  IInv'
    <2>1. Types'
      BY <1>3, <1>t DEF Confirmed, Types, Main, Task, Messages, Register, Deregister
    <2>2. ProcsOK'
      BY <1>3, <1>t DEF Confirmed, Types, ProcsOK, Deregister
    <2>3. MailOK'
      BY <1>3, <1>t DEF Confirmed, Types, Messages, ProcsOK, MailOK, Register, Deregister
    <2>4. OneRuns'
      BY <1>3, <1>t DEF Confirmed, Types, OneRuns, Runs
    <2>5. EntryOK'
      BY <1>3, <1>t DEF Confirmed, Types, Messages, ProcsOK, MailOK, OneRuns, Runs, EntryOK, Listed, Register, Deregister
    <2> QED
      BY <2>1, <2>2, <2>3, <2>4, <2>5 DEF IInv
  <1>4. ASSUME NEW p \in Procs, AttemptFails(p)
        PROVE  IInv'
    <2>1. Types'
      BY <1>4, <1>t DEF AttemptFails, Types, Main, Task, Messages, Register, Deregister
    <2>2. ProcsOK'
      BY <1>4, <1>t DEF AttemptFails, Types, ProcsOK, Deregister
    <2>3. MailOK'
      BY <1>4, <1>t DEF AttemptFails, Types, Messages, ProcsOK, MailOK, Register, Deregister
    <2>4. OneRuns'
      BY <1>4, <1>t DEF AttemptFails, Types, OneRuns, Runs
    <2>5. EntryOK'
      BY <1>4, <1>t DEF AttemptFails, Types, Messages, ProcsOK, MailOK, OneRuns, Runs, EntryOK, Listed, Register, Deregister
    <2> QED
      BY <2>1, <2>2, <2>3, <2>4, <2>5 DEF IInv
  <1>5. ASSUME NEW p \in Procs, BackedOff(p)
        PROVE  IInv'
    <2>1. Types'
      <3>1. attempt[p] + 1 \in 0..RegisterAttempts
        BY <1>5, <1>t DEF BackedOff, Types, ProcsOK
      <3> QED
        BY <1>5, <1>t, <3>1 DEF BackedOff, Types, Task
    <2>2. ProcsOK'
      BY <1>5, <1>t DEF BackedOff, Types, ProcsOK, Deregister
    <2>3. MailOK'
      BY <1>5, <1>t DEF BackedOff, Types, Messages, ProcsOK, MailOK, Register, Deregister
    <2>4. OneRuns'
      BY <1>5, <1>t DEF BackedOff, Types, OneRuns, Runs
    <2>5. EntryOK'
      BY <1>5, <1>t DEF BackedOff, Types, Messages, ProcsOK, MailOK, OneRuns, Runs, EntryOK, Listed, Register, Deregister
    <2> QED
      BY <2>1, <2>2, <2>3, <2>4, <2>5 DEF IInv
  <1>6. ASSUME NEW p \in Procs, TransportEnds(p)
        PROVE  IInv'
    <2>1. Types'
      BY <1>6, <1>t DEF TransportEnds, Types, Main, Task, Messages, Register, Deregister
    <2>2. ProcsOK'
      BY <1>6, <1>t DEF TransportEnds, Types, ProcsOK, Deregister
    <2>3. MailOK'
      BY <1>6, <1>t DEF TransportEnds, Types, Messages, ProcsOK, MailOK, Register, Deregister
    <2>4. OneRuns'
      BY <1>6, <1>t DEF TransportEnds, Types, OneRuns, Runs
    <2>5. EntryOK'
      BY <1>6, <1>t, ZenonT(60) DEF TransportEnds, Types, Messages, ProcsOK, MailOK, OneRuns, Runs, EntryOK, Listed, Register, Deregister
    <2> QED
      BY <2>1, <2>2, <2>3, <2>4, <2>5 DEF IInv
  <1>7. ASSUME NEW p \in Procs, Signal(p)
        PROVE  IInv'
    <2>1. Types'
      BY <1>7, <1>t DEF Signal, Types, Main, Task, Messages, Register, Deregister
    <2>2. ProcsOK'
      BY <1>7, <1>t DEF Signal, Types, ProcsOK, Deregister
    <2>3. MailOK'
      BY <1>7, <1>t DEF Signal, Types, Messages, ProcsOK, MailOK, Register, Deregister
    <2>4. OneRuns'
      BY <1>7, <1>t DEF Signal, Types, OneRuns, Runs
    <2>5. EntryOK'
      BY <1>7, <1>t DEF Signal, Types, Messages, ProcsOK, MailOK, OneRuns, Runs, EntryOK, Listed, Register, Deregister
    <2> QED
      BY <2>1, <2>2, <2>3, <2>4, <2>5 DEF IInv
  <1>8. ASSUME NEW p \in Procs, Leave(p)
        PROVE  IInv'
    <2>1. Types'
      BY <1>8, <1>t DEF Leave, Returns, Types, Main, Task, Messages, Register, Deregister
    <2>2. ProcsOK'
      BY <1>8, <1>t DEF Leave, Returns, Types, ProcsOK, Deregister
    <2>3. MailOK'
      BY <1>8, <1>t DEF Leave, Returns, Types, Messages, ProcsOK, MailOK, Register, Deregister
    <2>4. OneRuns'
      BY <1>8, <1>t DEF Leave, Returns, Types, OneRuns, Runs
    <2>5. EntryOK'
      BY <1>8, <1>t DEF Leave, Returns, Types, Messages, ProcsOK, MailOK, OneRuns, Runs, EntryOK, Listed, Register, Deregister
    <2> QED
      BY <2>1, <2>2, <2>3, <2>4, <2>5 DEF IInv
  <1>9. ASSUME NEW p \in Procs, TakesBack(p)
        PROVE  IInv'
    <2>1. Types'
      BY <1>9, <1>t DEF TakesBack, Types, Main, Task, Messages, Register, Deregister
    <2>2. ProcsOK'
      BY <1>9, <1>t DEF TakesBack, Types, ProcsOK, Deregister
    <2>3. MailOK'
      BY <1>9, <1>t DEF TakesBack, Types, Messages, ProcsOK, MailOK, Register, Deregister
    <2>4. OneRuns'
      BY <1>9, <1>t DEF TakesBack, Types, OneRuns, Runs
    <2>5. EntryOK'
      BY <1>9, <1>t DEF TakesBack, Types, Messages, ProcsOK, MailOK, OneRuns, Runs, EntryOK, Listed, Register, Deregister
    <2> QED
      BY <2>1, <2>2, <2>3, <2>4, <2>5 DEF IInv
  <1>10. ASSUME NEW p \in Procs, DeregisterSends(p)
        PROVE  IInv'
    <2>1. Types'
      BY <1>10, <1>t DEF DeregisterSends, Types, Main, Task, Messages, Register, Deregister
    <2>2. ProcsOK'
      BY <1>10, <1>t DEF DeregisterSends, Types, ProcsOK, Deregister
    <2>3. MailOK'
      BY <1>10, <1>t DEF DeregisterSends, Types, Messages, ProcsOK, MailOK, Register, Deregister
    <2>4. OneRuns'
      BY <1>10, <1>t DEF DeregisterSends, Types, OneRuns, Runs
    <2>5. EntryOK'
      BY <1>10, <1>t, ZenonT(60) DEF DeregisterSends, Types, Messages, ProcsOK, MailOK, OneRuns, Runs, EntryOK, Listed, Register, Deregister
    <2> QED
      BY <2>1, <2>2, <2>3, <2>4, <2>5 DEF IInv
  <1>11. ASSUME NEW p \in Procs, DeregisterConfirmed(p)
        PROVE  IInv'
    <2>1. Types'
      BY <1>11, <1>t DEF DeregisterConfirmed, Returns, Types, Main, Task, Messages, Register, Deregister
    <2>2. ProcsOK'
      BY <1>11, <1>t DEF DeregisterConfirmed, Returns, Types, ProcsOK, Deregister
    <2>3. MailOK'
      BY <1>11, <1>t DEF DeregisterConfirmed, Returns, Types, Messages, ProcsOK, MailOK, Register, Deregister
    <2>4. OneRuns'
      BY <1>11, <1>t DEF DeregisterConfirmed, Returns, Types, OneRuns, Runs
    <2>5. EntryOK'
      BY <1>11, <1>t, ZenonT(60) DEF DeregisterConfirmed, Returns, Types, Messages, ProcsOK, MailOK, OneRuns, Runs, EntryOK, Listed, Register, Deregister
    <2> QED
      BY <2>1, <2>2, <2>3, <2>4, <2>5 DEF IInv
  <1>12. ASSUME NEW p \in Procs, DeregisterFails(p)
        PROVE  IInv'
    <2>1. Types'
      BY <1>12, <1>t DEF DeregisterFails, Returns, Types, Main, Task, Messages, Register, Deregister
    <2>2. ProcsOK'
      BY <1>12, <1>t DEF DeregisterFails, Returns, Types, ProcsOK, Deregister
    <2>3. MailOK'
      BY <1>12, <1>t DEF DeregisterFails, Returns, Types, Messages, ProcsOK, MailOK, Register, Deregister
    <2>4. OneRuns'
      BY <1>12, <1>t DEF DeregisterFails, Returns, Types, OneRuns, Runs
    <2>5. EntryOK'
      BY <1>12, <1>t, ZenonT(60) DEF DeregisterFails, Returns, Types, Messages, ProcsOK, MailOK, OneRuns, Runs, EntryOK, Listed, Register, Deregister
    <2> QED
      BY <2>1, <2>2, <2>3, <2>4, <2>5 DEF IInv
  <1>13. ASSUME NEW p \in Procs, Exit(p)
        PROVE  IInv'
    <2>1. Types'
      BY <1>13, <1>t DEF Exit, Types, Main, Task, Messages, Register, Deregister
    <2>2. ProcsOK'
      BY <1>13, <1>t DEF Exit, Types, ProcsOK, Deregister
    <2>3. MailOK'
      BY <1>13, <1>t DEF Exit, Types, Messages, ProcsOK, MailOK, Register, Deregister
    <2>4. OneRuns'
      BY <1>13, <1>t DEF Exit, Types, OneRuns, Runs
    <2>5. EntryOK'
      BY <1>13, <1>t DEF Exit, Types, Messages, ProcsOK, MailOK, OneRuns, Runs, EntryOK, Listed, Register, Deregister
    <2> QED
      BY <2>1, <2>2, <2>3, <2>4, <2>5 DEF IInv
  <1>14. ASSUME NEW m \in mail, Takes(m)
        PROVE  IInv'
    <2>1. Types'
      BY <1>14, <1>t DEF Takes, Types, Main, Task, Messages, Register, Deregister
    <2>2. ProcsOK'
      BY <1>14, <1>t DEF Takes, Types, ProcsOK, Deregister
    <2>3. MailOK'
      BY <1>14, <1>t DEF Takes, Types, Messages, ProcsOK, MailOK, Register, Deregister
    <2>4. OneRuns'
      BY <1>14, <1>t DEF Takes, Types, OneRuns, Runs
    <2>5. EntryOK'
      <3> SUFFICES ASSUME ~late', NEW p \in Procs
                   PROVE  /\ (main[p] = "serving" /\ Listed(p) /\ ~overlap)' => entry' = [by |-> p, active |-> TRUE]
                          /\ Deregister(p)' \in answered' => ~(entry'.active /\ entry'.by = p)
        BY DEF EntryOK
      <3>1. ~late /\ Waited(m)
        BY <1>14, <1>t DEF Takes, Types
      <3>2. m.by \in Procs /\ m.kind \in {"register", "deregister"} /\ Runs(m.by)
        BY <1>14, <1>t, <3>1 DEF Types, Messages, Waited
      <3>3. ASSUME main[p] = "serving", Listed(p)', ~overlap
            PROVE  entry' = [by |-> p, active |-> TRUE]
        \* The only process that runs is the one that serves.
        <4>1. m.by = p
          BY <1>t, <3>2, <3>3 DEF OneRuns, Runs
        <4>2. m.kind = "register"
          BY <1>t, <3>2, <3>3, <4>1 DEF MailOK
        <4> QED
          BY <1>14, <4>1, <4>2 DEF Takes
      <3>4. ASSUME Deregister(p)' \in answered', entry'.active, entry'.by = p
            PROVE  FALSE
        <4>1. CASE m.kind = "deregister"
          BY <1>14, <1>t, <3>4, <4>1 DEF Takes, Types
        <4>2. CASE m.kind = "register"
          <5>1. m.by = p
            BY <1>14, <3>4, <4>2 DEF Takes
          <5>2. Deregister(p) \in answered
            BY <1>14, <3>4, <4>2 DEF Takes, Deregister
          <5>3. registered[p]
            BY <1>t, <5>2 DEF MailOK, Deregister
          <5> QED
            BY <1>t, <3>1, <4>2, <5>1, <5>3 DEF ProcsOK, Waited
        <4> QED
          BY <3>2, <4>1, <4>2
      <3> QED
        BY <1>14, <3>3, <3>4 DEF Takes
    <2> QED
      BY <2>1, <2>2, <2>3, <2>4, <2>5 DEF IInv
  <1>15. ASSUME NEW p \in Procs, NothingSaid(p) \/ ReadsOn(p)
         PROVE  IInv'
    <2>1. Types'
      BY <1>15, <1>t DEF NothingSaid, ReadsOn, Types
    <2>2. UNCHANGED <<main, task, attempt, registered, mail, answered, entry, deregistered, late, overlap>>
      BY <1>15 DEF NothingSaid, ReadsOn
    <2>3. ProcsOK' /\ MailOK' /\ OneRuns' /\ EntryOK'
      BY <1>t, <2>2 DEF ProcsOK, MailOK, OneRuns, Runs, EntryOK, Listed, Register, Deregister
    <2> QED
      BY <2>1, <2>3 DEF IInv
  <1>16. CASE UNCHANGED vars
    BY <1>16 DEF vars, IInv, Types, ProcsOK, MailOK, OneRuns, Runs, EntryOK, Listed, Register, Deregister
  <1> QED
    BY <1>1, <1>2, <1>3, <1>4, <1>5, <1>6, <1>7, <1>8, <1>9, <1>10, <1>11, <1>12, <1>13, <1>14, <1>15, <1>16 DEF Next, TaskStep, ServeStep

\* The invariant holds always.
LEMMA InvariantHolds == Spec => []IInv
  BY InitIInv, NextIInv, PTL DEF Spec

\* The flag that register_with_retry stores says what the registry has, for
\* as long as the process serves, through any attempts that failed before.
THEOREM FlagTellsTheEntry == Spec => []RegisteredIsListed
  <1>1. IInv => TypeOK
    BY DEF IInv, Types, TypeOK, Messages, Main, Task
  <1>2. IInv => RegisteredIsListed
    BY <1>1 DEF IInv, EntryOK, Listed, RegisteredIsListed
  <1> QED
    BY <1>2, InvariantHolds, PTL

\* What deregister was confirmed for is taken back: no later register of the
\* process makes its entry active again.
THEOREM TakenBackStaysUnlisted == Spec => []DeregisteredIsUnlisted
  <1>1. IInv => DeregisteredIsUnlisted
    BY DEF IInv, ProcsOK, EntryOK, DeregisteredIsUnlisted
  <1> QED
    BY <1>1, InvariantHolds, PTL
=============================================================================
