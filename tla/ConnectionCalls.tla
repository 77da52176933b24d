--------------------------- MODULE ConnectionCalls ---------------------------
(***************************************************************************)
(* The calls open on one connection (src/calls.rs): one atomic counter     *)
(* that every clone shares, raised by a compare-exchange loop and lowered  *)
(* when a place is dropped.  The callers are tasks on different threads,   *)
(* so the load, each compare-exchange and each drop are separate steps.    *)
(***************************************************************************)
EXTENDS Naturals, FiniteSets

CONSTANTS
    Callers,    \* the tasks that open calls on this connection
    MaxOpen,    \* ConnectionCalls::max
    Limits      \* what try_open_within is called with (try_open: MaxOpen itself)

ASSUME CallersFinite == IsFiniteSet(Callers)
ASSUME MaxIsNat == MaxOpen \in Nat
ASSUME LimitsAreNat == Limits \subseteq Nat

VARIABLES
    open,       \* the shared AtomicUsize
    pc,         \* where each caller is: idle, in try_open_within, holding
    max,        \* try_open_within's own max: min(self.max, limit)
    now         \* try_open_within's last reading of open

vars == <<open, pc, max, now>>

Pcs == {"idle", "load", "loop", "held"}

Init ==
    /\ open = 0
    /\ pc = [c \in Callers |-> "idle"]
    /\ max = [c \in Callers |-> 0]
    /\ now = [c \in Callers |-> 0]

\* Mutant: a module's own limit taken instead of the smaller of the two.
TryOpenWider(c, limit) ==
    /\ pc[c] = "idle"
    /\ pc' = [pc EXCEPT ![c] = "load"]
    /\ max' = [max EXCEPT ![c] = limit]
    /\ UNCHANGED <<open, now>>

\* try_open_within is entered: its max is settled before the count is read.
TryOpen(c, limit) ==
    /\ pc[c] = "idle"
    /\ pc' = [pc EXCEPT ![c] = "load"]
    /\ max' = [max EXCEPT ![c] = IF MaxOpen <= limit THEN MaxOpen ELSE limit]
    /\ UNCHANGED <<open, now>>

Load(c) ==
    /\ pc[c] = "load"
    /\ pc' = [pc EXCEPT ![c] = "loop"]
    /\ now' = [now EXCEPT ![c] = open]
    /\ UNCHANGED <<open, max>>

\* now >= max: Err(TooManyCalls), decided on the reading, not on the count.
TooMany(c) ==
    /\ pc[c] = "loop"
    /\ now[c] >= max[c]
    /\ pc' = [pc EXCEPT ![c] = "idle"]
    /\ UNCHANGED <<open, max, now>>

\* Mutant: a store of what was read plus one, whatever the count is by now.
ExchangeBlind(c) ==
    /\ pc[c] = "loop"
    /\ now[c] < max[c]
    /\ open' = now[c] + 1
    /\ pc' = [pc EXCEPT ![c] = "held"]
    /\ UNCHANGED <<max, now>>

\* The compare-exchange finds the count as it was read.
ExchangeOk(c) ==
    /\ pc[c] = "loop"
    /\ now[c] < max[c]
    /\ open = now[c]
    /\ open' = now[c] + 1
    /\ pc' = [pc EXCEPT ![c] = "held"]
    /\ UNCHANGED <<max, now>>

\* The count moved in between: the loop goes round with what was seen.
ExchangeSeen(c) ==
    /\ pc[c] = "loop"
    /\ now[c] < max[c]
    /\ open # now[c]
    /\ now' = [now EXCEPT ![c] = open]
    /\ UNCHANGED <<open, pc, max>>

\* Mutant: the place's drop runs and the call's end lowers the count again.
DropTwice(c) ==
    /\ pc[c] = "held"
    /\ open' = open - 2
    /\ pc' = [pc EXCEPT ![c] = "idle"]
    /\ UNCHANGED <<max, now>>

\* The place (Held) is dropped.
DropPlace(c) ==
    /\ pc[c] = "held"
    /\ open' = open - 1
    /\ pc' = [pc EXCEPT ![c] = "idle"]
    /\ UNCHANGED <<max, now>>

Next ==
    \E c \in Callers :
        \/ \E limit \in Limits : TryOpen(c, limit)
        \/ Load(c)
        \/ TooMany(c)
        \/ ExchangeOk(c)
        \/ ExchangeSeen(c)
        \/ DropPlace(c)

Spec == Init /\ [][Next]_vars
------------------------------------------------------------------------------
Holders == {c \in Callers : pc[c] = "held"}

\* The count is a usize that never goes below zero, and every local of
\* try_open_within is a count too.
TypeOK ==
    /\ open \in Nat
    /\ pc \in [Callers -> Pcs]
    /\ max \in [Callers -> Nat]
    /\ now \in [Callers -> Nat]

\* The shared count is the number of places held, however the loads,
\* exchanges and drops of the callers interleave: no place is lost and none
\* is counted twice.
OpenIsPlacesHeld == open = Cardinality(Holders)

\* At most max_calls_per_connection places are held at once.
WithinMax == Cardinality(Holders) <= MaxOpen

\* A caller holding a reading it may still exchange on has it within its own
\* max: what makes the exchange safe without reading the count again.
ReadingWithinMax ==
    \A c \in Callers : pc[c] \in {"load", "loop", "held"} => max[c] <= MaxOpen

\* The inductive invariant the proofs use.
IInv == TypeOK /\ OpenIsPlacesHeld /\ WithinMax /\ ReadingWithinMax

\* try_open_within as its caller sees it: a refusal is decided when the
\* reading at or past its max is made, a place when the exchange succeeds.
callStatus ==
    [c \in Callers |->
        CASE pc[c] = "idle" -> "idle"
          [] pc[c] = "load" -> "asking"
          [] pc[c] = "loop" -> IF now[c] >= max[c] THEN "refused" ELSE "asking"
          [] OTHER -> "held"]

Places == INSTANCE CallPlaces WITH status <- callStatus, bound <- max

\* The compare-exchange loop implements the indivisible one: every place is
\* taken while fewer than the caller's bound are held, and every refusal
\* answers a moment, after the call asked, at which its bound was reached.
PlacesSpec == Places!Spec
==============================================================================
