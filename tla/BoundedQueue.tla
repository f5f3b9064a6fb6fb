---------------------------- MODULE BoundedQueue ----------------------------
(***************************************************************************)
(* What the bounded buffer of src/lab8/q1 promises: the items 0, 1, 2, ... *)
(* go through a first-in first-out queue of at most Capacity items.        *)
(***************************************************************************)
EXTENDS Naturals, Sequences

CONSTANTS Capacity, Items

VARIABLES
    queue,  \* produced and not yet consumed
    got     \* consumed, in order

vars == <<queue, got>>

Init == queue = <<>> /\ got = <<>>

Put ==
    /\ Len(queue) < Capacity
    /\ Len(got) + Len(queue) < Items
    /\ queue' = Append(queue, Len(got) + Len(queue))
    /\ UNCHANGED got

Get ==
    /\ queue # <<>>
    /\ got' = Append(got, Head(queue))
    /\ queue' = Tail(queue)

Next == Put \/ Get

Spec == Init /\ [][Next]_vars /\ WF_vars(Put) /\ WF_vars(Get)
=============================================================================
