---------------------------- MODULE ChildThreads ----------------------------
(***************************************************************************)
(* What the child threads of src/lab9 compute for main, which joins them   *)
(* before it reads the result; no two threads write the same variable.     *)
(***************************************************************************)
EXTENDS Integers, Sequences, FiniteSetsExt

CONSTANTS
    INT_MAX,  \* the largest integer, of an int or a long long; overflow wraps, as in the builds
    Crash     \* main uses a pointer that is still NULL

Wrap(x) == ((x + INT_MAX + 1) % (2 * (INT_MAX + 1))) - (INT_MAX + 1)

\* q1: the series that main prints.  A child asked for none leaves sequence at
\* NULL, and main prints sequence[0] all the same.
Fibonacci(count) ==
    LET sequence[i \in 0 .. count - 1] ==
          IF i <= 1 THEN i ELSE Wrap(sequence[i - 1] + sequence[i - 2])
    IN  IF count = 0 THEN Crash ELSE sequence

\* The loops of q2 and q3 run while their variable is at most end.  The turns
\* before which it is past the end; in C the step from the largest integer is
\* undefined, and neither wrapped nor assumed away does it get past the end.
PastEnd(start, end) == {k \in 0 .. 2 * (INT_MAX + 1) : Wrap(start + k) > end}
LoopEnds(start, end) == PastEnd(start, end) # {}

\* q2: the sum of the integers up to limit, if the loop ends.
SumRunner(limit) ==
    LET sum[i \in 0..limit] == IF i = 0 THEN 0 ELSE Wrap(sum[i - 1] + i)
    IN  sum[limit]

\* q3: the loop of is_prime ends with the first i that divides n or whose square is larger.
IsPrimeStrict(n) ==                           \* faulty variant: i * i < n
    n > 1 /\ LET i == Min({i \in 2..n : Wrap(i * i) >= n \/ n % i = 0})
             IN  Wrap(i * i) >= n
IsPrime(n) ==
    n > 1 /\ LET i == Min({i \in 2..n : Wrap(i * i) > n \/ n % i = 0})
             IN  Wrap(i * i) > n

\* The numbers that the child prints, if its loop ends.
FindPrimes(start, end) ==
    LET turns == Min(PastEnd(start, end))
    IN  {i \in {Wrap(start + k) : k \in 0 .. turns - 1} : IsPrime(i)}

\* q4: each thread adds up its half.  In C, an odd negative number has the
\* remainder -1, which is not 0 either.
SumOf(array, remainder) ==
    LET sum[i \in 0..Len(array)] ==
          IF i = 0 THEN 0
          ELSE IF (array[i] % 2 = 0) = (remainder = 0) THEN Wrap(sum[i - 1] + array[i])
          ELSE sum[i - 1]
    IN  sum[Len(array)]
=============================================================================
