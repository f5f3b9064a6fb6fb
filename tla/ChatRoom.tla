------------------------------ MODULE ChatRoom ------------------------------
(***************************************************************************)
(* What the chat of src/lab7 promises its users, without sockets, buffers, *)
(* tables or processes: one log of lines in the order the server took them *)
(* in; somebody who has joined is shown the lines of the others from then  *)
(* on, in that order, each exactly once and in clear.  Labels are not part *)
(* of the promise: Chat says separately what can be said of them.          *)
(***************************************************************************)
EXTENDS Naturals, Sequences, FiniteSets

CONSTANTS
    Clients,
    Numbers  \* the numbers a line can have, a subset of Nat

VARIABLES
    joined,  \* the clients that have ever joined
    joinAt,  \* joinAt[c]: Len(log) when c joined
    log,     \* the lines posted
    shown    \* shown[c]: the lines c has been shown

vars == <<joined, joinAt, log, shown>>

Init ==
    /\ joined = {}
    /\ joinAt = [c \in Clients |-> 0]
    /\ log = <<>>
    /\ shown = [c \in Clients |-> <<>>]

\* The places of s behind the first that hold somebody else's lines.
OthersFrom(s, first, c) == {k \in first + 1 .. Len(s) : s[k].from # c}

\* The n-th of these places, the one with n of them up to it, and what s has there.
Place(places, n) == CHOOSE k \in places : Cardinality({m \in places : m <= k}) = n
InOrder(s, places) == [n \in 1..Cardinality(places) |-> s[Place(places, n)]]

Owed(c) == InOrder(log, OthersFrom(log, joinAt[c], c))

Join(c) ==
    /\ c \notin joined
    /\ joined' = joined \cup {c}
    /\ joinAt' = [joinAt EXCEPT ![c] = Len(log)]
    /\ UNCHANGED <<log, shown>>

\* A member's next line enters the log; lines of one member are numbered in
\* the order they were typed.
Post(c) ==
    /\ c \in joined
    /\ \E n \in Numbers :
         /\ \A k \in DOMAIN log : log[k].from = c => log[k].no < n
         /\ log' = Append(log, [from |-> c, no |-> n, enc |-> FALSE])
    /\ UNCHANGED <<joined, joinAt, shown>>

Show(c) ==
    /\ c \in joined
    /\ Len(shown[c]) < Len(Owed(c))
    /\ shown' = [shown EXCEPT ![c] = Append(@, Owed(c)[Len(@) + 1])]
    /\ UNCHANGED <<joined, joinAt, log>>

Next == \E c \in Clients : Join(c) \/ Post(c) \/ Show(c)

Spec == Init /\ [][Next]_vars
=============================================================================
