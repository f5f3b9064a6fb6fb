---------------------------- MODULE MCSimulators ----------------------------
(***************************************************************************)
(* The sequential programs on every input up to a length.  A state is the  *)
(* start of one of the programs and what has been typed into it so far;    *)
(* the calls of the allocator change its state instead.                    *)
(***************************************************************************)
EXTENDS Allocator, SequencesExt

CONSTANTS
    MAX_FRAMES, MAX_PAGES,
    TIME_SLICE_Q1, TIME_SLICE_Q2,
    MAX_BLOCKS, SPARE_BLOCKS,
    DiskMax, IntMax,              \* the largest int, for the disk and the threads
    BYTE, NewLine, INITIAL_BUF_SIZE,
    Bursts, Cylinders, Numbers,   \* bounds: the numbers to choose from
    MaxReferences, MaxProcesses, MaxRequests, MaxFiles, MaxText, MaxSeries  \* bounds: lengths

ASSUME FramesAssumption == MAX_FRAMES \in Nat \ {0} /\ MAX_PAGES \in Nat
ASSUME BlocksAssumption == MAX_BLOCKS \in Nat /\ SPARE_BLOCKS \in Nat
ASSUME SlicesAssumption ==
    /\ TIME_SLICE_Q1 \in Nat \ {0} /\ TIME_SLICE_Q2 \in Nat \ {0}
    /\ Bursts \subseteq Nat \ {0}
ASSUME DiskAssumption == DiskMax \in Nat /\ Cylinders \subseteq Int
ASSUME WireAssumption ==
    /\ BYTE \in Nat /\ NewLine \in 0 .. BYTE - 1 /\ INITIAL_BUF_SIZE \in Nat \ {0}
    /\ MaxText \in Nat /\ MaxText < BYTE * BYTE * BYTE * BYTE
ASSUME ThreadsAssumption ==
    /\ IntMax \in Nat /\ Numbers \subseteq 0..IntMax /\ MaxSeries \in Nat
    /\ \A count \in 1..MaxSeries : NULL \notin [0 .. count - 1 -> Int]

Paging == INSTANCE SecondChance
Scheduler == INSTANCE MultilevelQueue
Disk == INSTANCE DiskScheduling WITH INT_MAX <- DiskMax
Blocks == INSTANCE BlockAllocation
Lines == INSTANCE Wire
Threads == INSTANCE ChildThreads WITH INT_MAX <- IntMax, Crash <- NULL
Segments == INSTANCE Segmentation WITH Invalid <- NULL

VARIABLES program, input

mcVars == <<vars, program, input>>

\* The second element of the input of "disk" and all after it are requests, the
\* first is the head; the first of "blocks" is the set of bad blocks.
Typeable ==
    CASE program = "paging" -> IF Len(input) < MaxReferences THEN Paging!Pages ELSE {}
      [] program = "scheduler" -> IF Len(input) < MaxProcesses THEN Bursts ELSE {}
      [] program = "disk" ->
           IF input = <<>> THEN Cylinders
           ELSE IF Len(input) <= MaxRequests THEN Cylinders \cup {Disk!Served} ELSE {}
      [] program = "blocks" ->
           IF input = <<>> THEN SUBSET (0..MAX_BLOCKS)
           ELSE IF Len(input) <= MaxFiles THEN -1 .. MAX_BLOCKS + 1 ELSE {}
      [] program = "wire" -> IF Len(input) < MaxText THEN 0 .. BYTE - 1 ELSE {}
      [] program = "threads" -> IF Len(input) < 2 THEN Numbers \cup {-1 - n : n \in Numbers} ELSE {}
      [] OTHER -> {}

MCInit ==
    /\ Init
    /\ program \in {"allocator", "paging", "scheduler", "disk", "blocks", "wire", "threads",
                    "segments"}
    /\ input = <<>>

Type ==
    /\ \E x \in Typeable : input' = Append(input, x)
    /\ UNCHANGED <<vars, program>>

Call ==
    /\ program = "allocator"
    /\ Next
    /\ UNCHANGED <<program, input>>

MCNext == Type \/ Call

MCSpec == MCInit /\ [][MCNext]_mcVars

-----------------------------------------------------------------------------
\* Frames, page table and pointer tell one story, that of the queue: read from
\* the pointer on, the frames hold the pages in the order in which they would be
\* considered for leaving, with the bits of the queue, and as many faults were
\* counted.
SecondChanceRight ==
    program = "paging" =>
    LET s == Paging!Simulate(input)
        ref == Paging!Queue(input)
        size == Len(ref.queue)
        first == IF size = MAX_FRAMES THEN s.frame_pointer ELSE 0
    IN  /\ s.page_faults = ref.faults
        /\ \A i \in 1..size :
             LET k == (first + i - 1) % MAX_FRAMES
                 page == s.frames[k]
             IN  /\ page = ref.queue[i][1]
                 /\ s.page_table[page] =
                      [frame_num |-> k, valid |-> TRUE, reference_bit |-> ref.queue[i][2]]
        /\ Cardinality({p \in Paging!Pages : s.page_table[p].valid}) = size

\* No process is lost between two queues, the processor never idles, and every
\* process finishes exactly when the closed form says.
ScheduleRight ==
    program = "scheduler" =>
    LET s == Scheduler!Schedule(input) IN
    /\ Len(s.finished) = Len(input)
    /\ \A i \in DOMAIN s.finished :
         s.finished[i].at = Scheduler!FinishTime(input, s.finished[i].pid)
    /\ {s.finished[i].pid : i \in DOMAIN s.finished} = DOMAIN input

\* sstf goes to the nearest waiting request each time, the first typed of several,
\* and to none twice; both totals are right up to overflow.  What sstf leaves out
\* are requests for cylinder -1, its own mark for a request served, and requests
\* that are the largest int away from where the head stopped, which is never less
\* than the distance its search starts from (lines 34 and 40).
DiskRight ==
    program = "disk" /\ Len(input) > 1 =>
    LET head == Head(input)
        requests == Tail(input)
        fcfs == Disk!Fcfs(requests, head)
        sstf == Disk!Sstf(requests, head)
    IN  /\ fcfs.order = [i \in DOMAIN requests |-> i]
        /\ Disk!TotalOf(requests, head, fcfs.order, fcfs.total_seek)
        /\ Disk!TotalOf(requests, head, sstf.order, sstf.total_seek)
        /\ Disk!ShortestFirst(requests, head, sstf.order)
        /\ \A i \in Disk!Waiting(requests, sstf.order, Len(sstf.order)) :
             Disk!Distance(requests[i], sstf.head) = DiskMax

\* Files lie apart from each other and from the bad blocks, each at the lowest
\* place there was for it, and one for which there was a place is not refused;
\* the map of the disk says the same as the file table.  So no spare block is
\* ever used, and the table cannot overflow unless files of no block are entered.
BlocksRight ==
    program = "blocks" /\ input # <<>> =>
    LET bad == Head(input)
        lengths == Tail(input)
        s == Blocks!Run(bad, lengths)
    IN  /\ \A b \in Blocks!Blocks :
             s.disk[b] = IF b \in bad THEN Blocks!Bad
                         ELSE Max({0} \cup {f \in DOMAIN s.file_table :
                                               b \in Blocks!BlocksOf(s.file_table[f])})
        /\ \A f \in DOMAIN s.file_table : Blocks!BlocksOf(s.file_table[f]) \subseteq Blocks!Blocks
        /\ lengths # <<>> =>
             s.file_table = Blocks!NextFile(bad, Blocks!Run(bad, Front(lengths)).file_table,
                                            Last(lengths))
        /\ s.spare_pool_idx = 0
        /\ (\A k \in DOMAIN lengths : lengths[k] > 0) => Len(s.file_table) <= MAX_BLOCKS

\* The server gets the lines typed, up to the first empty one, whatever portions
\* the bytes arrive in.  If they end early, within a header or within a message,
\* by an end of file or a reset, it gets those that had arrived as a whole and
\* nothing else.  No line is stored beyond the end of its buffer, however often
\* that grows.
LinesArrive ==
    program = "wire" =>
    LET bodies == Lines!Bodies(input)
        sizes == Lines!Sizes(bodies)
        out == Lines!Send(input)
        upTo == Min({k \in DOMAIN bodies : bodies[k] = <<>>} \cup {Len(bodies) + 1}) - 1
    IN  /\ out.inside
        /\ \A cut \in 0 .. Len(out.sent), odd, even \in {1, 3}, reset \in BOOLEAN :
             LET pace == [k \in 1 .. MaxText + 4 |-> IF k % 2 = 0 THEN even ELSE odd]
                 arrived == Max({k \in 0..upTo : sizes[k] <= cut})
             IN  Lines!Receive(SubSeq(out.sent, 1, cut), pace, reset).messages
                   = SubSeq(bodies, 1, arrived)

\* A number called prime is one, and a prime is called one as long as the next
\* larger square fits into an int; beyond that i * i overflows before the loop can
\* end.  That holds of every number of a range, and no other is printed, unless
\* the range goes up to the largest int: then the loop does not end, as a sum up to
\* the largest long long does not.  The series begins with 0 and 1, and each further
\* number is one more than the sum of all but the one before it, up to overflow, as
\* the sums are of closed form; the two halves of a sum leave no number out.  main
\* crashes for a series of no numbers, which it accepts, and for no other.
ThreadsRight ==
    program = "threads" /\ input # <<>> =>
    LET n == Head(input)
        to == Last(input)
        same(x, y) == (x - y) % (2 * (IntMax + 1)) = 0
        prime(x) == x > 1 /\ \A d \in 2 .. x - 1 : x % d # 0
        fits(x) == \E root \in 0 .. x + 1 : root * root > x /\ root * root <= IntMax
        right(x, called) == (called => prime(x)) /\ (fits(x) => called = prime(x))
        count == IF n \in 0..MaxSeries THEN n ELSE 0
        series == Threads!Fibonacci(count)
        before[k \in 0..count] == IF k = 0 THEN 0 ELSE before[k - 1] + series[k - 1]
        total[k \in 0..Len(input)] == IF k = 0 THEN 0 ELSE total[k - 1] + input[k]
    IN  /\ right(n, Threads!IsPrime(n))
        /\ 0 <= n /\ n <= to =>
             /\ Threads!LoopEnds(n, to) = (to # IntMax)
             /\ LET found == Threads!FindPrimes(n, to) IN
                to # IntMax =>
                  found \subseteq n..to /\ \A x \in n..to : right(x, x \in found)
        /\ (series = NULL) <=> (count = 0)
        /\ count > 0 => DOMAIN series = 0 .. count - 1 /\ series[0] = 0
        /\ count > 1 => series[1] = 1
        /\ \A k \in 2 .. count - 1 : same(series[k], before[k - 1] + 1)
        /\ n >= 0 => Threads!LoopEnds(0, n) = (n # IntMax)
        /\ same(Threads!SumRunner(count), (count * (count + 1)) \div 2)
        /\ same(Threads!SumOf(input, 0) + Threads!SumOf(input, 1), total[Len(input)])

\* No two logical addresses are one physical address.
SegmentsApart ==
    program = "segments" =>
    LET logical == {l \in (DOMAIN Segments!segment_table) \X (-1 .. 1101) :
                      Segments!Translate(l[1], l[2]) # NULL}
    IN  Cardinality({Segments!Translate(l[1], l[2]) : l \in logical}) = Cardinality(logical)
=============================================================================
