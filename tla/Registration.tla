---------------------------- MODULE Registration ----------------------------
(***************************************************************************)
(* A backend's entry in the registry (src/registry.rs and the end of       *)
(* TransportServer::serve in src/server.rs): a spawned task announces the  *)
(* process at boot, with retries; serve, when it ends, takes the entry     *)
(* back if that task says it was made.  Processes of one name follow one   *)
(* another, or overlap, and the registry keys its entry on the name.       *)
(*                                                                         *)
(* A request is one register or deregister.  Once sent it is on its way    *)
(* until the registry takes it, also after its sender has given up on it   *)
(* or is gone; it may never be taken.                                      *)
(***************************************************************************)
EXTENDS Naturals

CONSTANTS
    Procs,              \* bound: the processes, 1..N, in the order they start
    RegisterAttempts    \* REGISTER_ATTEMPTS

ASSUME ProcsAreNat == Procs \subseteq Nat
ASSUME AttemptsPositive == RegisterAttempts \in Nat \ {0}

VARIABLES
    main,           \* where serve is, in each process
    task,           \* where its register_with_retry is
    attempt,        \* register_with_retry's attempt
    item,           \* the stream's item the attempt waits for: awaited, or come
    registered,     \* the flag the two share
    stopping,       \* the WebSocket server is told to stop
    mail,           \* requests on their way
    answered,       \* requests the registry has confirmed to their sender
    entry,          \* the registry's entry of the name
    deregistered,   \* history: its deregister was confirmed
    late,           \* history: a request was taken that its sender gave up on
    overlap         \* history: a process started while another ran

vars == <<main, task, attempt, item, registered, stopping, mail, answered, entry,
          deregistered, late, overlap>>

procVars == <<main, task, attempt, item, registered, stopping>>
registryVars == <<mail, answered, entry>>
history == <<deregistered, late, overlap>>

NoEntry == [by |-> 0, active |-> FALSE]
Register(p) == [kind |-> "register", by |-> p, n |-> attempt[p]]
Deregister(p) == [kind |-> "deregister", by |-> p, n |-> 0]

Init ==
    /\ main = [p \in Procs |-> "down"]
    /\ task = [p \in Procs |-> "none"]
    /\ attempt = [p \in Procs |-> 0] /\ item = [p \in Procs |-> "awaited"]
    /\ registered = [p \in Procs |-> FALSE]
    /\ stopping = [p \in Procs |-> FALSE]
    /\ mail = {} /\ answered = {} /\ entry = NoEntry
    /\ deregistered = [p \in Procs |-> FALSE]
    /\ late = FALSE /\ overlap = FALSE

Runs(p) == main[p] \notin {"down", "gone"}
-----------------------------------------------------------------------------
(***************************************************************************)
(* serve, up to its wait: the registration is spawned, unless it is opted  *)
(* out of.                                                                 *)
(***************************************************************************)
Start(p, enabled) ==
    /\ main[p] = "down"
    /\ \A q \in Procs : q < p => main[q] # "down"
    /\ main' = [main EXCEPT ![p] = "serving"]
    /\ task' = [task EXCEPT ![p] = IF enabled THEN "connecting" ELSE "none"]
    /\ attempt' = [attempt EXCEPT ![p] = IF enabled THEN 1 ELSE 0]
    /\ overlap' = (overlap \/ \E q \in Procs : Runs(q))
    /\ UNCHANGED <<item, registered, stopping, registryVars, deregistered, late>>
-----------------------------------------------------------------------------
(***************************************************************************)
(* register_with_retry, in its own task, for as long as the process runs.  *)
(***************************************************************************)

\* The registry sends an item of the stream awaited (_info's, or the call's)
\* that neither ends the attempt nor moves it on.
NothingSaid(p) ==
    /\ Runs(p) /\ task[p] \in {"connecting", "asking"} /\ item[p] = "awaited"
    /\ item' = [item EXCEPT ![p] = "came"]
    /\ UNCHANGED <<main, task, attempt, registered, stopping, registryVars, history>>

\* The loop goes on to the next item, with a timeout of its own.
ReadsOn(p) ==
    /\ Runs(p) /\ item[p] = "came"
    /\ item' = [item EXCEPT ![p] = "awaited"]
    /\ UNCHANGED <<main, task, attempt, registered, stopping, registryVars, history>>

\* connect and discover_namespace succeed, and the register is sent.
Sends(p) ==
    /\ Runs(p) /\ task[p] = "connecting" /\ item[p] = "awaited"
    /\ task' = [task EXCEPT ![p] = "asking"]
    /\ mail' = mail \cup {Register(p)}
    /\ UNCHANGED <<main, attempt, item, registered, stopping, answered, entry, history>>

\* Mutant of Confirmed: the stream's end taken for a confirmation.
ConfirmedUnseen(p) ==
    /\ Runs(p) /\ task[p] = "asking"
    /\ task' = [task EXCEPT ![p] = "done"]
    /\ registered' = [registered EXCEPT ![p] = TRUE]
    /\ UNCHANGED <<main, attempt, item, stopping, registryVars, history>>

\* backend_registered came and the stream's end: true, and the flag is stored.
Confirmed(p) ==
    /\ Runs(p) /\ task[p] = "asking" /\ item[p] = "awaited" /\ Register(p) \in answered
    /\ task' = [task EXCEPT ![p] = "done"]
    /\ registered' = [registered EXCEPT ![p] = TRUE]
    /\ UNCHANGED <<main, attempt, item, stopping, registryVars, history>>

\* Mutant of AttemptFails: no timeout of the wait for an answer.
AttemptWaits(p) ==
    /\ Runs(p) /\ task[p] = "connecting" /\ item[p] = "awaited"
    /\ task' = [task EXCEPT ![p] = IF attempt[p] < RegisterAttempts THEN "backoff" ELSE "warned"]
    /\ UNCHANGED <<main, attempt, item, registered, stopping, registryVars, history>>

\* The attempt fails: no connection, an error, no confirmation, or the timeout
\* of the item awaited.  The last of them is the one warned of.
AttemptFails(p) ==
    /\ Runs(p) /\ task[p] \in {"connecting", "asking"} /\ item[p] = "awaited"
    /\ task' = [task EXCEPT ![p] = IF attempt[p] < RegisterAttempts THEN "backoff" ELSE "warned"]
    /\ UNCHANGED <<main, attempt, item, registered, stopping, registryVars, history>>

BackedOff(p) ==
    /\ Runs(p) /\ task[p] = "backoff"
    /\ task' = [task EXCEPT ![p] = "connecting"]
    /\ attempt' = [attempt EXCEPT ![p] = @ + 1]
    /\ UNCHANGED <<main, item, registered, stopping, registryVars, history>>
-----------------------------------------------------------------------------
(***************************************************************************)
(* serve, from its wait to its return, and the end of the process.         *)
(***************************************************************************)

\* A transport has ended.
TransportEnds(p) ==
    /\ main[p] = "serving"
    /\ main' = [main EXCEPT ![p] = "leaving"]
    /\ UNCHANGED <<task, attempt, item, registered, stopping, registryVars, history>>

\* SIGTERM or ctrl-c, listened for only when there is a registration.
Signal(p) ==
    /\ main[p] = "serving" /\ task[p] # "none"
    /\ main' = [main EXCEPT ![p] = "leaving"]
    /\ stopping' = [stopping EXCEPT ![p] = TRUE]
    /\ UNCHANGED <<task, attempt, item, registered, registryVars, history>>

\* serve returns, and the handles it held stop the WebSocket server.
Returns(p) ==
    /\ main' = [main EXCEPT ![p] = "returned"]
    /\ stopping' = [stopping EXCEPT ![p] = TRUE]

\* The flag is read: not registered, nothing to take back.
Leave(p) ==
    /\ main[p] = "leaving" /\ ~registered[p]
    /\ Returns(p)
    /\ UNCHANGED <<task, attempt, item, registered, registryVars, history>>

\* Registered: deregister connects, and sends its request.
TakesBack(p) ==
    /\ main[p] = "leaving" /\ registered[p]
    /\ main' = [main EXCEPT ![p] = "deregistering"]
    /\ UNCHANGED <<task, attempt, item, registered, stopping, registryVars, history>>

DeregisterSends(p) ==
    /\ main[p] = "deregistering"
    /\ main' = [main EXCEPT ![p] = "deregister_sent"]
    /\ mail' = mail \cup {Deregister(p)}
    /\ UNCHANGED <<task, attempt, item, registered, stopping, answered, entry, history>>

\* Mutant of DeregisterConfirmed: sent is taken for confirmed.
DeregisterUnconfirmed(p) ==
    /\ main[p] = "deregister_sent"
    /\ Returns(p)
    /\ deregistered' = [deregistered EXCEPT ![p] = TRUE]
    /\ UNCHANGED <<task, attempt, item, registered, registryVars, late, overlap>>

DeregisterConfirmed(p) ==
    /\ main[p] = "deregister_sent" /\ Deregister(p) \in answered
    /\ Returns(p)
    /\ deregistered' = [deregistered EXCEPT ![p] = TRUE]
    /\ UNCHANGED <<task, attempt, item, registered, registryVars, late, overlap>>

\* It fails, or its three seconds have passed.
DeregisterFails(p) ==
    /\ main[p] \in {"deregistering", "deregister_sent"}
    /\ Returns(p)
    /\ UNCHANGED <<task, attempt, item, registered, registryVars, history>>

\* The process ends: after serve has returned, or by a crash or a kill (a
\* signal that nobody listens for is one).  Its registration task goes with it.
Exit(p) ==
    /\ Runs(p)
    /\ main' = [main EXCEPT ![p] = "gone"]
    /\ UNCHANGED <<task, attempt, item, registered, stopping, registryVars, history>>
-----------------------------------------------------------------------------
(***************************************************************************)
(* The registry: an upsert and a deactivation, by name.                    *)
(***************************************************************************)
Waited(m) ==
    /\ Runs(m.by)
    /\ \/ m.kind = "register" /\ task[m.by] = "asking" /\ attempt[m.by] = m.n
       \/ m.kind = "deregister" /\ main[m.by] = "deregister_sent"

Takes(m) ==
    /\ m \in mail
    /\ mail' = mail \ {m}
    /\ answered' = answered \cup {m}
    /\ entry' = IF m.kind = "register" THEN [by |-> m.by, active |-> TRUE]
                ELSE [entry EXCEPT !.active = FALSE]
    /\ late' = (late \/ ~Waited(m))
    /\ UNCHANGED <<procVars, deregistered, overlap>>
-----------------------------------------------------------------------------
TaskStep(p) == ReadsOn(p) \/ Sends(p) \/ Confirmed(p) \/ AttemptFails(p) \/ BackedOff(p)

ServeStep(p) ==
    \/ Leave(p) \/ TakesBack(p) \/ DeregisterSends(p)
    \/ DeregisterConfirmed(p) \/ DeregisterFails(p)

Next ==
    \/ \E p \in Procs :
          \/ \E enabled \in BOOLEAN : Start(p, enabled)
          \/ TaskStep(p) \/ NothingSaid(p)
          \/ TransportEnds(p) \/ Signal(p)
          \/ ServeStep(p)
          \/ Exit(p)
    \/ \E m \in mail : Takes(m)

\* A process that runs takes its steps, and its timeouts pass: of each item of
\* an attempt, of the deregister as a whole.  Nothing is assumed of the
\* registry.
Fairness == \A p \in Procs : WF_vars(TaskStep(p)) /\ WF_vars(ServeStep(p))

Spec == Init /\ [][Next]_vars /\ Fairness
-----------------------------------------------------------------------------
TypeOK ==
    /\ main \in [Procs -> {"down", "serving", "leaving", "deregistering",
                           "deregister_sent", "returned", "gone"}]
    /\ task \in [Procs -> {"none", "connecting", "asking", "backoff", "done", "warned"}]
    /\ attempt \in [Procs -> 0..RegisterAttempts] /\ item \in [Procs -> {"awaited", "came"}]
    /\ \A m \in mail \cup answered : m.by \in Procs /\ m.n \in 0..RegisterAttempts
    /\ entry.by \in Procs \cup {0}
    /\ \A p \in Procs : {registered[p], stopping[p], deregistered[p]} \subseteq BOOLEAN
    /\ {late, overlap, entry.active} \subseteq BOOLEAN

\* The flag says what the registry has: a process that serves and is
\* registered is the one the entry names, and the entry is active, through
\* failed attempts, crashes and restarts.  It takes a request that was given
\* up on and taken all the same, or a process that overlapped another, to
\* make it otherwise (deregister names the backend, not the process).
\* The types are right with it.
RegisteredIsListed ==
    TypeOK /\ \A p \in Procs :
        main[p] = "serving" /\ registered[p] /\ ~late /\ ~overlap
            => entry = [by |-> p, active |-> TRUE]

\* A process whose deregister was confirmed leaves no active entry of its own.
DeregisteredIsUnlisted ==
    \A p \in Procs : deregistered[p] /\ ~late => ~(entry.active /\ entry.by = p)

Attempting(p) == task[p] = "connecting"
AttemptsOver(p) == task[p] \in {"done", "warned"} \/ ~Runs(p)

\* Registration is fail-open: whatever the registry does or does not answer, a
\* serve that is leaving returns (a deregister has three seconds in all), and
\* the attempts come to an end, unless the registry goes on sending items that
\* say nothing (CALL_TIMEOUT is of each item).
RegistryNeverHolds ==
    \A p \in Procs :
        /\ []<>(item[p] = "came") \/ (Attempting(p) ~> AttemptsOver(p))
        /\ (main[p] = "leaving") ~> (main[p] \in {"returned", "gone"})
=============================================================================
