--------------------------- MODULE BoundedBuffer ---------------------------
(***************************************************************************)
(* The producer and the consumer of src/lab8/q1: a circular buffer and     *)
(* three semaphores.  One action per semaphore call, and one per critical  *)
(* section.                                                                *)
(***************************************************************************)
EXTENDS Integers, Sequences

CONSTANTS BUFFER_SIZE, MAX_ITEMS

ASSUME SizeAssumption == BUFFER_SIZE \in Nat \ {0} /\ MAX_ITEMS \in Nat

VARIABLES
    buffer, in, out,
    mutex, empty, full,  \* the values of the semaphores
    ppc, pi,             \* the producer: where it is, its i
    cpc, ci,             \* the consumer
    got                  \* history: the items consumed, in order

vars == <<buffer, in, out, mutex, empty, full, ppc, pi, cpc, ci, got>>

Slots == 0..(BUFFER_SIZE - 1)

Init ==
    /\ buffer = [s \in Slots |-> 0]
    /\ in = 0 /\ out = 0
    /\ mutex = 1 /\ empty = BUFFER_SIZE /\ full = 0
    /\ ppc = "reserve" /\ pi = 0
    /\ cpc = "reserve" /\ ci = 0
    /\ got = <<>>

-----------------------------------------------------------------------------
\* The slot after s.
NextSlotClamped(s) == IF s + 1 = BUFFER_SIZE THEN s ELSE s + 1  \* faulty variant
NextSlot(s) == (s + 1) % BUFFER_SIZE

\* sem_wait(&empty) in produce; the loop ends after MAX_ITEMS items.
ProduceReserve ==
    /\ ppc = "reserve" /\ pi < MAX_ITEMS
    /\ empty > 0
    /\ empty' = empty - 1
    /\ ppc' = "lock"
    /\ UNCHANGED <<buffer, in, out, mutex, full, pi, cpc, ci, got>>

ProduceLock ==
    /\ ppc = "lock"
    /\ mutex > 0
    /\ mutex' = mutex - 1
    /\ ppc' = "put"
    /\ UNCHANGED <<buffer, in, out, empty, full, pi, cpc, ci, got>>

ProducePut ==
    /\ ppc = "put"
    /\ buffer' = [buffer EXCEPT ![in] = pi]
    /\ in' = NextSlot(in)
    /\ ppc' = "unlock"
    /\ UNCHANGED <<out, mutex, empty, full, pi, cpc, ci, got>>

ProduceUnlock ==
    /\ ppc = "unlock"
    /\ mutex' = mutex + 1
    /\ ppc' = "signal"
    /\ UNCHANGED <<buffer, in, out, empty, full, pi, cpc, ci, got>>

\* sem_post(&full), and the next turn of the loop.
ProduceSignal ==
    /\ ppc = "signal"
    /\ full' = full + 1
    /\ pi' = pi + 1
    /\ ppc' = "reserve"
    /\ UNCHANGED <<buffer, in, out, mutex, empty, cpc, ci, got>>

ConsumeReserve ==
    /\ cpc = "reserve" /\ ci < MAX_ITEMS
    /\ full > 0
    /\ full' = full - 1
    /\ cpc' = "lock"
    /\ UNCHANGED <<buffer, in, out, mutex, empty, ppc, pi, ci, got>>

ConsumeLock ==
    /\ cpc = "lock"
    /\ mutex > 0
    /\ mutex' = mutex - 1
    /\ cpc' = "get"
    /\ UNCHANGED <<buffer, in, out, empty, full, ppc, pi, ci, got>>

ConsumeGet ==
    /\ cpc = "get"
    /\ got' = Append(got, buffer[out])
    /\ out' = NextSlot(out)
    /\ cpc' = "unlock"
    /\ UNCHANGED <<buffer, in, mutex, empty, full, ppc, pi, ci>>

ConsumeUnlock ==
    /\ cpc = "unlock"
    /\ mutex' = mutex + 1
    /\ cpc' = "signal"
    /\ UNCHANGED <<buffer, in, out, empty, full, ppc, pi, ci, got>>

\* sem_post on the wrong semaphore.
ConsumeSignal ==
    /\ cpc = "signal"
    /\ empty' = empty + 1
    /\ ci' = ci + 1
    /\ cpc' = "reserve"
    /\ UNCHANGED <<buffer, in, out, mutex, full, ppc, pi, got>>

Produce ==
    \/ ProduceReserve \/ ProduceLock \/ ProducePut \/ ProduceUnlock \/ ProduceSignal

Consume ==
    \/ ConsumeReserve \/ ConsumeLock \/ ConsumeGet \/ ConsumeUnlock \/ ConsumeSignal

\* main has joined both threads.
Joined ==
    /\ ppc = "reserve" /\ pi = MAX_ITEMS
    /\ cpc = "reserve" /\ ci = MAX_ITEMS
    /\ UNCHANGED vars

Next == Produce \/ Consume \/ Joined

\* Each thread runs when it can.  The mutex is never handed back and forth
\* without an item changing hands, so weak fairness is enough.
Spec == Init /\ [][Next]_vars /\ WF_vars(Produce) /\ WF_vars(Consume)

-----------------------------------------------------------------------------
\* Items put into and taken out of the buffer so far.
Puts == IF ppc \in {"unlock", "signal"} THEN pi + 1 ELSE pi
Gets == IF cpc \in {"unlock", "signal"} THEN ci + 1 ELSE ci

\* The type of the state; the semaphores count what they should and the two
\* critical sections exclude each other.
TypeOK ==
    /\ buffer \in [Slots -> Int]
    /\ in \in Slots /\ out \in Slots
    /\ mutex \in 0..1 /\ empty \in 0..BUFFER_SIZE /\ full \in 0..BUFFER_SIZE
    /\ ppc \in {"reserve", "lock", "put", "unlock", "signal"}
    /\ cpc \in {"reserve", "lock", "get", "unlock", "signal"}
    /\ pi \in 0..MAX_ITEMS /\ ci \in 0..MAX_ITEMS
    /\ got \in Seq(Int)
    /\ ~(ppc \in {"put", "unlock"} /\ cpc \in {"get", "unlock"})

\* "a producer can produce at the most 10 items more than what the consumer
\* has consumed" (lines 4-6), and it never consumes what was not produced.
\* The queue below implies it; here for its own theorem.
AtMostAhead == Puts - Gets \in 0..BUFFER_SIZE

\* The slots from out on, as many as are filled, are the queue.
Queue == INSTANCE BoundedQueue WITH
    Capacity <- BUFFER_SIZE,
    Items <- MAX_ITEMS,
    queue <- [k \in 1..(Puts - Gets) |-> buffer[(out + k - 1) % BUFFER_SIZE]]

\* Through every interleaving of the semaphore calls the items come out in the
\* order they went in, none overwritten or read twice, and all of them do.
QueueSpec == Queue!Spec
=============================================================================
