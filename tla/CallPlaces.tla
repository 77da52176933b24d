----------------------------- MODULE CallPlaces -----------------------------
(***************************************************************************)
(* What a connection's call count promises, with no count in it: a call    *)
(* asks for a place under a bound, and in one indivisible step either      *)
(* takes one while fewer than its bound are held or is refused while at    *)
(* least its bound are.  ConnectionCalls implements this with an atomic    *)
(* counter and a compare-exchange loop.                                    *)
(***************************************************************************)
EXTENDS Naturals, FiniteSets

CONSTANTS
    Callers,    \* the tasks that open calls on one connection
    MaxOpen,    \* the connection's max_calls_per_connection
    Limits      \* the stricter limits a module may bring of its own

VARIABLES
    status,     \* where each caller's call stands
    bound       \* the smaller of MaxOpen and the caller's limit, while it asks

avars == <<status, bound>>

Statuses == {"idle", "asking", "held", "refused"}

Smaller(a, b) == IF a <= b THEN a ELSE b

Holders == {c \in Callers : status[c] = "held"}

Init ==
    /\ status = [c \in Callers |-> "idle"]
    /\ bound = [c \in Callers |-> 0]

Ask(c, limit) ==
    /\ status[c] = "idle"
    /\ status' = [status EXCEPT ![c] = "asking"]
    /\ bound' = [bound EXCEPT ![c] = Smaller(MaxOpen, limit)]

Take(c) ==
    /\ status[c] = "asking"
    /\ Cardinality(Holders) < bound[c]
    /\ status' = [status EXCEPT ![c] = "held"]
    /\ UNCHANGED bound

Refuse(c) ==
    /\ status[c] = "asking"
    /\ Cardinality(Holders) >= bound[c]
    /\ status' = [status EXCEPT ![c] = "refused"]
    /\ UNCHANGED bound

Return(c) ==
    /\ status[c] = "refused"
    /\ status' = [status EXCEPT ![c] = "idle"]
    /\ UNCHANGED bound

GiveBack(c) ==
    /\ status[c] = "held"
    /\ status' = [status EXCEPT ![c] = "idle"]
    /\ UNCHANGED bound

Next ==
    \E c \in Callers :
        \/ \E limit \in Limits : Ask(c, limit)
        \/ Take(c)
        \/ Refuse(c)
        \/ Return(c)
        \/ GiveBack(c)

Spec == Init /\ [][Next]_avars
=============================================================================
