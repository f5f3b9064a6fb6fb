--------------------------- MODULE DiskScheduling ---------------------------
(***************************************************************************)
(* fcfs and sstf of src/lab11/q3 as functions of the request list and the  *)
(* first position of the head.  The result names the requests served, by   *)
(* their index, where the program prints their cylinders.                  *)
(***************************************************************************)
EXTENDS Integers, Sequences, FiniteSetsExt

CONSTANT INT_MAX  \* the largest int, 2^31 - 1 in the program

Served == -1      \* what replaces a request in req_copy

\* Sums and differences of ints wrap, as in the builds; so does abs of the lowest.
Wrap(x) == ((x + INT_MAX + 1) % (2 * (INT_MAX + 1))) - (INT_MAX + 1)
Distance(a, b) == IF Wrap(a - b) < 0 THEN Wrap(-Wrap(a - b)) ELSE Wrap(a - b)

Start(requests, head) == [left |-> requests, head |-> head, total_seek |-> 0, order |-> <<>>]

\* The head goes to request i.
Serve(s, i, cylinder) ==
    [s EXCEPT !.head = cylinder,
              !.total_seek = Wrap(@ + Distance(cylinder, s.head)),
              !.order = Append(@, i)]

Fcfs(requests, head) ==
    LET after[k \in 0..Len(requests)] ==
          IF k = 0 THEN Start(requests, head) ELSE Serve(after[k - 1], k, requests[k])
    IN  after[Len(requests)]

\* The inner loop of sstf: the first of the nearest requests that are left, 0
\* for none.  min_diff starts from INT_MAX and only less than that counts.
Closer(s, i, j) == Distance(s.left[i], s.head) < Distance(s.left[j], s.head)
Candidates(s) == {j \in DOMAIN s.left : s.left[j] # Served /\ Distance(s.left[j], s.head) < INT_MAX}
NearestLast(s) ==                             \* faulty variant: <= for <
    IF Candidates(s) = {} THEN 0
    ELSE Max({j \in Candidates(s) : \A k \in Candidates(s) : ~Closer(s, k, j)})
Nearest(s) ==
    IF Candidates(s) = {} THEN 0
    ELSE Min({j \in Candidates(s) : \A k \in Candidates(s) : ~Closer(s, k, j)})

\* One turn of the outer loop.
Turn(s) ==
    LET next == Nearest(s) IN
    IF next = 0 THEN s
    ELSE [Serve(s, next, s.left[next]) EXCEPT !.left[next] = Served]

Sstf(requests, head) ==
    LET after[k \in 0..Len(requests)] ==
          IF k = 0 THEN Start(requests, head) ELSE Turn(after[k - 1])
    IN  after[Len(requests)]

-----------------------------------------------------------------------------
\* Reference definitions, from the order of service and the cylinders alone.
At(requests, head, order, k) == IF k = 0 THEN head ELSE requests[order[k]]

Waiting(requests, order, k) ==
    {i \in DOMAIN requests : requests[i] # Served /\ \A earlier \in 1..k : order[earlier] # i}

\* The total is right modulo the width of an int.
TotalOf(requests, head, order, total) ==
    LET moves[k \in 0..Len(order)] ==
          IF k = 0 THEN 0
          ELSE moves[k - 1] + Distance(requests[order[k]], At(requests, head, order, k - 1))
    IN  (moves[Len(order)] - total) % (2 * (INT_MAX + 1)) = 0

\* Each request served is the nearest of those waiting, the first of several.
ShortestFirst(requests, head, order) ==
    \A k \in DOMAIN order :
        LET from == At(requests, head, order, k - 1)
            far(i) == Distance(requests[i], from)
        IN  /\ order[k] \in Waiting(requests, order, k - 1)
            /\ \A i \in Waiting(requests, order, k - 1) :
                 far(order[k]) < far(i) \/ (far(order[k]) = far(i) /\ order[k] <= i)
=============================================================================
