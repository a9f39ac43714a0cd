--------------------------- MODULE ClientOwnership ---------------------------
(***************************************************************************)
(* What the pool of blx/fbclient.go promises the API calls: a client is    *)
(* with nobody, shared (any call may take it) or owned by one goroutine.   *)
(* Once the pool is shut nothing becomes shared any more.                  *)
(***************************************************************************)
CONSTANTS Goroutines, Clients

VARIABLES
    shared,  \* clients that wait in the pool
    owned,   \* the clients each goroutine uses
    shut     \* whether Close has begun

vars == <<shared, owned, shut>>

Free == Clients \ (shared \cup UNION {owned[g] : g \in Goroutines})

Init ==
    /\ shared = {}
    /\ owned = [g \in Goroutines |-> {}]
    /\ shut = FALSE

\* NewJk stocks the pool with a new client.
Stock(c) ==
    /\ ~shut
    /\ c \in Free
    /\ shared' = shared \cup {c}
    /\ UNCHANGED <<owned, shut>>

\* A call takes a shared client, also while the pool is being drained.
Take(g, c) ==
    /\ c \in shared
    /\ shared' = shared \ {c}
    /\ owned' = [owned EXCEPT ![g] = @ \cup {c}]
    /\ UNCHANGED shut

\* A call gets a client of its own, dialled for it.
Dial(g, c) ==
    /\ c \in Free
    /\ owned' = [owned EXCEPT ![g] = @ \cup {c}]
    /\ UNCHANGED <<shared, shut>>

\* A call hands its client back to a pool that is not shut.
GiveBack(g, c) ==
    /\ ~shut
    /\ c \in owned[g]
    /\ owned' = [owned EXCEPT ![g] = @ \ {c}]
    /\ shared' = shared \cup {c}
    /\ UNCHANGED shut

\* A call's client is closed: the pool is full or shut.
Discard(g, c) ==
    /\ c \in owned[g]
    /\ owned' = [owned EXCEPT ![g] = @ \ {c}]
    /\ UNCHANGED <<shared, shut>>

Shut ==
    /\ ~shut
    /\ shut' = TRUE
    /\ UNCHANGED <<shared, owned>>

Drain(c) ==
    /\ shut
    /\ c \in shared
    /\ shared' = shared \ {c}
    /\ UNCHANGED <<owned, shut>>

Next ==
    \/ Shut
    \/ \E c \in Clients : Stock(c) \/ Drain(c)
    \/ \E g \in Goroutines, c \in Clients :
        Take(g, c) \/ Dial(g, c) \/ GiveBack(g, c) \/ Discard(g, c)

Spec == Init /\ [][Next]_vars
=============================================================================
