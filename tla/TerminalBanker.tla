--------------------------- MODULE TerminalBanker ---------------------------
(***************************************************************************)
(* The banker of src/lab11/q1, which answers the requests typed at the     *)
(* terminal: its two functions as operators on the three tables            *)
(* [available, allocation, need].                                          *)
(***************************************************************************)
EXTENDS Integers

CONSTANTS num_processes, num_resources

Processes == 0 .. num_processes - 1
Covers(v, w) == \A j \in 0 .. num_resources - 1 : w[j] <= v[j]
VectorPlus(v, w) == [j \in DOMAIN v |-> v[j] + w[j]]
VectorMinus(v, w) == [j \in DOMAIN v |-> v[j] - w[j]]

\* One turn of the inner loop of isSafe: process p, if it has not finished and can
\* with work, finishes and gives back what it has.
VisitNothingBack(tables, scan, p) ==          \* faulty variant
    IF p \in scan.finish \/ ~Covers(scan.work, tables.need[p]) THEN scan
    ELSE [scan EXCEPT !.finish = @ \cup {p}]
Visit(tables, scan, p) ==
    IF p \in scan.finish \/ ~Covers(scan.work, tables.need[p]) THEN scan
    ELSE [work |-> VectorPlus(scan.work, tables.allocation[p]),
          finish |-> scan.finish \cup {p}]

\* The inner loop: once through the processes in their order.
Pass(tables, scan) ==
    LET after[k \in 0..num_processes] ==
          IF k = 0 THEN scan ELSE Visit(tables, after[k - 1], k - 1)
    IN  after[num_processes]

\* The outer loop ends when all have finished or a pass finds nobody; a pass
\* that finds nobody changes nothing, so as many passes as processes will do.
IsSafe(tables) ==
    LET after[k \in 0..num_processes] ==
          IF k = 0 THEN [work |-> tables.available, finish |-> {}]
          ELSE Pass(tables, after[k - 1])
    IN  after[num_processes].finish = Processes

\* The copies with the request granted.
Granted(tables, p, request) ==
    [available |-> VectorMinus(tables.available, request),
     allocation |-> [tables.allocation EXCEPT ![p] = VectorPlus(@, request)],
     need |-> [tables.need EXCEPT ![p] = VectorMinus(@, request)]]

\* The copies replace the tables if they are safe.
ResourceRequest(tables, p, request) ==
    IF /\ Covers(tables.need[p], request)
       /\ Covers(tables.available, request)
       /\ IsSafe(Granted(tables, p, request))
    THEN Granted(tables, p, request)
    ELSE tables

\* main: need is computed from the tables typed, and a request is answered if it
\* is for a process that there is.
Typed(allocation, max, available) ==
    [available |-> available, allocation |-> allocation,
     need |-> [p \in Processes |-> VectorMinus(max[p], allocation[p])]]

Answer(tables, p, request) ==
    IF p \in Processes THEN ResourceRequest(tables, p, request) ELSE tables
=============================================================================
