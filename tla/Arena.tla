------------------------------- MODULE Arena -------------------------------
(***************************************************************************)
(* What the allocator of src/lab10/q1 promises: a piece of memory is taken *)
(* at the lowest place where it fits, a request fails only if it fits      *)
(* nowhere, and a piece stays where it is until it is given back.          *)
(***************************************************************************)
EXTENDS Integers

CONSTANTS Size, Nowhere

VARIABLES
    taken,  \* the pieces given out: [at, size]
    answer  \* where the last request was placed, or Nowhere

vars == <<taken, answer>>

Cells(piece) == piece.at .. piece.at + piece.size - 1

Init == taken = {} /\ answer = Nowhere

\* The places for a piece of this size.
Fits(size) ==
    {at \in 0 .. Size - size :
       \A piece \in taken : Cells(piece) \cap (at .. at + size - 1) = {}}

Take(size) ==
    /\ Fits(size) # {}
    /\ answer' = CHOOSE at \in Fits(size) : \A other \in Fits(size) : at <= other
    /\ taken' = taken \cup {[at |-> answer', size |-> size]}

Refuse(size) ==
    /\ Fits(size) = {}
    /\ answer' = Nowhere
    /\ UNCHANGED taken

GiveBack(piece) ==
    /\ taken' = taken \ {piece}
    /\ UNCHANGED answer

Next ==
    \/ \E size \in 1..Size : Take(size) \/ Refuse(size)
    \/ \E piece \in taken : GiveBack(piece)

Spec == Init /\ [][Next]_vars
=============================================================================
