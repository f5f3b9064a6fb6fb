--------------------------- MODULE MultilevelQueue ---------------------------
(***************************************************************************)
(* simulate_scheduler of src/lab10/q2 as a function of the burst times of  *)
(* the processes 1, 2, ...: three queues, each served when those before it *)
(* are empty, with slices of 4, of 8 and without limit.                    *)
(***************************************************************************)
EXTENDS Integers, Sequences

CONSTANTS TIME_SLICE_Q1, TIME_SLICE_Q2

Lesser(a, b) == IF a < b THEN a ELSE b

\* create_process and enqueue for every process.
Start(bursts) ==
    [queues |-> <<[pid \in 1..Len(bursts) |-> [pid |-> pid, remaining_time |-> bursts[pid]]],
                  <<>>, <<>>>>,
     time |-> 0,
     finished |-> <<>>]  \* when which process finished, in order

EnqueueFront(queue, p) == <<p>> \o queue       \* faulty variant
Enqueue(queue, p) == Append(queue, p)

\* The first of queue q runs, and finishes or goes to the end of the next queue.
Run(s, q, slice) ==
    LET p == Head(s.queues[q])
        run_time == Lesser(p.remaining_time, slice)
        later == [p EXCEPT !.remaining_time = @ - run_time]
    IN  [s EXCEPT !.queues[q] = Tail(@),
                  !.queues[q + 1] = IF later.remaining_time > 0 THEN Enqueue(@, later) ELSE @,
                  !.time = @ + run_time,
                  !.finished = IF later.remaining_time > 0 THEN @
                               ELSE Append(@, [pid |-> p.pid, at |-> s.time + run_time])]

\* The last queue is first come, first served.
RunToEnd(s) ==
    LET p == Head(s.queues[3]) IN
    [s EXCEPT !.queues[3] = Tail(@),
              !.time = @ + p.remaining_time,
              !.finished = Append(@, [pid |-> p.pid, at |-> s.time + p.remaining_time])]

\* One turn of the loop, which ends when all have finished; with nobody to run
\* the time passes.
TurnOf(s, num_processes) ==
    IF Len(s.finished) = num_processes THEN s
    ELSE IF s.queues[1] # <<>> THEN Run(s, 1, TIME_SLICE_Q1)
    ELSE IF s.queues[2] # <<>> THEN Run(s, 2, TIME_SLICE_Q2)
    ELSE IF s.queues[3] # <<>> THEN RunToEnd(s)
    ELSE [s EXCEPT !.time = @ + 1]

\* Nobody runs more than three times.
Schedule(bursts) ==
    LET after[turn \in 0 .. 3 * Len(bursts)] ==
          IF turn = 0 THEN Start(bursts) ELSE TurnOf(after[turn - 1], Len(bursts))
    IN  after[3 * Len(bursts)]

-----------------------------------------------------------------------------
\* Reference definition: when process pid finishes, in closed form.  Its last
\* run is at its level, after everybody's runs at the levels before and those of
\* the processes before it at its own.
UpTo(level, burst) ==
    CASE level = 0 -> 0
      [] level = 1 -> Lesser(burst, TIME_SLICE_Q1)
      [] level = 2 -> Lesser(burst, TIME_SLICE_Q1 + TIME_SLICE_Q2)
      [] level = 3 -> burst

TimeAt(bursts, level, pid) ==
    LET sum[i \in 0..Len(bursts)] ==
          IF i = 0 THEN 0 ELSE sum[i - 1] + UpTo(IF i <= pid THEN level ELSE level - 1, bursts[i])
    IN  sum[Len(bursts)]

FinishTime(bursts, pid) ==
    LET last == CHOOSE level \in 1..3 :
                  /\ UpTo(level, bursts[pid]) = bursts[pid]
                  /\ \A lower \in 1 .. level - 1 : UpTo(lower, bursts[pid]) # bursts[pid]
    IN  TimeAt(bursts, last, pid)
=============================================================================
