------------------------ MODULE BoundedBufferProofs ------------------------
(***************************************************************************)
(* Theorems about the bounded buffer (module BoundedBuffer), for any size  *)
(* of the buffer and any number of items: the semaphores keep the threads  *)
(* apart, and what passes through the buffer is a first-in first-out queue *)
(* (the safety part of BoundedQueue).                                      *)
(*                                                                         *)
(* The argument counts.  Each semaphore is tied to the places of the two   *)
(* threads by a linear equation (Semaphores); that no semaphore is         *)
(* negative bounds Puts - Gets; and the slots from out on, as many as that *)
(* difference, hold consecutive items (Contents).                          *)
(***************************************************************************)
EXTENDS BoundedBuffer, TLAPS, SequenceTheorems

Filled == Puts - Gets

\* The slot k places after out, without a remainder.
SlotAfter(k) == IF out + k < BUFFER_SIZE THEN out + k ELSE out + k - BUFFER_SIZE

PutsInside == ppc \in {"put", "unlock"}
GetsInside == cpc \in {"get", "unlock"}

Types ==
    /\ buffer \in [Slots -> Int]
    /\ in \in Slots /\ out \in Slots
    /\ mutex \in Int /\ empty \in Int /\ full \in Int
    /\ ppc \in {"reserve", "lock", "put", "unlock", "signal"}
    /\ cpc \in {"reserve", "lock", "get", "unlock", "signal"}
    /\ pi \in Nat /\ ci \in Nat
    /\ got \in Seq(Int)

Semaphores ==
    /\ mutex >= 0 /\ empty >= 0 /\ full >= 0
    /\ mutex = 1 - (IF PutsInside THEN 1 ELSE 0) - (IF GetsInside THEN 1 ELSE 0)
    /\ empty = BUFFER_SIZE + ci - (IF ppc = "reserve" THEN pi ELSE pi + 1)
    /\ full = pi - (IF cpc = "reserve" THEN ci ELSE ci + 1)
    /\ pi <= MAX_ITEMS /\ (ppc # "reserve" => pi < MAX_ITEMS)
    /\ ci <= MAX_ITEMS /\ (cpc # "reserve" => ci < MAX_ITEMS)

Contents ==
    /\ in = SlotAfter(Filled)
    /\ \A k \in 0..(Filled - 1) : buffer[SlotAfter(k)] = Gets + k
    /\ Len(got) = Gets

IInv == Types /\ Semaphores /\ Contents

-----------------------------------------------------------------------------
\* NextSlot is the next place round the buffer.
LEMMA NextSlotRound ==
  \A s \in Slots : /\ s + 1 < BUFFER_SIZE => NextSlot(s) = s + 1
                   /\ s + 1 >= BUFFER_SIZE => NextSlot(s) = 0
<1> TAKE s \in Slots
<1>1. BUFFER_SIZE \in Nat \ {0} /\ s \in Nat /\ s < BUFFER_SIZE
  BY SizeAssumption DEF Slots
<1>2. CASE s + 1 < BUFFER_SIZE
  <2>1. (s + 1) % BUFFER_SIZE = s + 1
    BY <1>1, <1>2
  <2> QED
    BY <1>1, <1>2, <2>1 DEF NextSlot
<1>3. CASE s + 1 >= BUFFER_SIZE
  <2>1. s + 1 = BUFFER_SIZE
    BY <1>1, <1>3
  <2>2. BUFFER_SIZE % BUFFER_SIZE = 0
    BY <1>1
  <2>3. (s + 1) % BUFFER_SIZE = 0
    BY <2>1, <2>2
  <2> QED
    BY <1>1, <1>3, <2>3 DEF NextSlot
<1> QED
  BY <1>1, <1>2, <1>3

LEMMA NextSlotInSlots == \A s \in Slots : NextSlot(s) \in Slots
  BY NextSlotRound, SizeAssumption DEF Slots

\* The bound of the program's header: never more than BUFFER_SIZE items ahead.
LEMMA FilledBound ==
  ASSUME Types, Semaphores
  PROVE  /\ Filled \in 0..BUFFER_SIZE
         /\ Puts \in Nat /\ Gets \in Nat
         /\ cpc = "get" => Filled >= 1
         /\ ppc = "put" => Filled < BUFFER_SIZE
  BY SizeAssumption DEF Types, Semaphores, Filled, Puts, Gets, PutsInside, GetsInside

\* A place round the buffer is a slot, and different places are different slots.
LEMMA SlotsApart ==
  ASSUME Types
  PROVE  /\ \A k \in 0..BUFFER_SIZE : SlotAfter(k) \in Slots
         /\ \A k, m \in 0..(BUFFER_SIZE - 1) :
                k # m => SlotAfter(k) # SlotAfter(m)
  BY SizeAssumption DEF Types, SlotAfter, Slots

-----------------------------------------------------------------------------
LEMMA InitInv == Init => IInv
<1> SUFFICES ASSUME Init PROVE IInv
  OBVIOUS
<1>1. Types
  BY SizeAssumption DEF Init, Types, Slots
<1>2. Semaphores
  BY SizeAssumption DEF Init, Semaphores, PutsInside, GetsInside
<1>3. Contents
  BY SizeAssumption DEF Init, Contents, Filled, Puts, Gets, SlotAfter
<1> QED
  BY <1>1, <1>2, <1>3 DEF IInv

LEMMA StepTypes == IInv /\ [Next]_vars => Types'
<1> SUFFICES ASSUME IInv, [Next]_vars PROVE Types'
  OBVIOUS
<1> USE DEF IInv, Types
<1>1. CASE ProducePut
  <2>1. in' \in Slots
    BY <1>1, NextSlotInSlots DEF ProducePut
  <2> QED
    BY <1>1, <2>1 DEF ProducePut
<1>2. CASE ConsumeGet
  <2>1. out' \in Slots
    BY <1>2, NextSlotInSlots DEF ConsumeGet
  <2>2. got' \in Seq(Int)
    BY <1>2 DEF ConsumeGet
  <2> QED
    BY <1>2, <2>1, <2>2 DEF ConsumeGet
<1>3. CASE ProduceReserve \/ ProduceLock \/ ProduceUnlock \/ ProduceSignal
  BY <1>3, SMTT(60) DEF ProduceReserve, ProduceLock, ProduceUnlock, ProduceSignal
<1>4. CASE ConsumeReserve \/ ConsumeLock \/ ConsumeUnlock \/ ConsumeSignal
  BY <1>4, SMTT(60) DEF ConsumeReserve, ConsumeLock, ConsumeUnlock, ConsumeSignal
<1>5. CASE UNCHANGED vars
  BY <1>5 DEF vars
<1> QED
  BY <1>1, <1>2, <1>3, <1>4, <1>5 DEF Next, Produce, Consume, Joined

LEMMA StepSemaphores == IInv /\ [Next]_vars => Semaphores'
<1> SUFFICES ASSUME IInv, [Next]_vars PROVE Semaphores'
  OBVIOUS
<1> USE SizeAssumption DEF IInv, Types, Semaphores, PutsInside, GetsInside
<1>1. CASE ProduceReserve
  BY <1>1 DEF ProduceReserve
<1>2. CASE ProduceLock
  BY <1>2 DEF ProduceLock
<1>3. CASE ProducePut
  BY <1>3 DEF ProducePut
<1>4. CASE ProduceUnlock
  BY <1>4 DEF ProduceUnlock
<1>5. CASE ProduceSignal
  BY <1>5 DEF ProduceSignal
<1>6. CASE ConsumeReserve
  BY <1>6 DEF ConsumeReserve
<1>7. CASE ConsumeLock
  BY <1>7 DEF ConsumeLock
<1>8. CASE ConsumeGet
  BY <1>8 DEF ConsumeGet
<1>9. CASE ConsumeUnlock
  BY <1>9 DEF ConsumeUnlock
<1>10. CASE ConsumeSignal
  BY <1>10 DEF ConsumeSignal
<1>11. CASE UNCHANGED vars
  BY <1>11 DEF vars
<1> QED
  BY <1>1, <1>2, <1>3, <1>4, <1>5, <1>6, <1>7, <1>8, <1>9, <1>10, <1>11
  DEF Next, Produce, Consume, Joined

\* Only ProducePut and ConsumeGet move Puts, Gets, in, out, the buffer or got.
LEMMA QuietSteps ==
  ASSUME Types, [Next]_vars, ~ProducePut, ~ConsumeGet
  PROVE  UNCHANGED <<buffer, in, out, got, Puts, Gets>>
<1> USE DEF Types, Puts, Gets
<1>1. CASE ProduceReserve \/ ProduceLock \/ ProduceUnlock \/ ProduceSignal
  BY <1>1 DEF ProduceReserve, ProduceLock, ProduceUnlock, ProduceSignal
<1>2. CASE ConsumeReserve \/ ConsumeLock \/ ConsumeUnlock \/ ConsumeSignal
  BY <1>2 DEF ConsumeReserve, ConsumeLock, ConsumeUnlock, ConsumeSignal
<1>3. CASE UNCHANGED vars
  BY <1>3 DEF vars
<1> QED
  BY <1>1, <1>2, <1>3 DEF Next, Produce, Consume, Joined

\* A put appends: the next slot gets the next number.
LEMMA PutStep ==
  ASSUME IInv, ProducePut
  PROVE  /\ Contents'
         /\ Filled' = Filled + 1 /\ Gets' = Gets /\ Puts' = Puts + 1
<1>1. /\ Filled \in 0..(BUFFER_SIZE - 1) /\ Puts \in Nat /\ Gets \in Nat
      /\ Puts = pi
  BY FilledBound, SizeAssumption DEF IInv, ProducePut, Puts, Types
<1>2. Puts' = Puts + 1 /\ Gets' = Gets /\ Filled' = Filled + 1
  BY <1>1 DEF ProducePut, Puts, Gets, Filled
<1>3. \A k : SlotAfter(k)' = SlotAfter(k)
  BY DEF ProducePut, SlotAfter
<1>4. in' = SlotAfter(Filled + 1)
  BY <1>1, NextSlotRound, SizeAssumption
  DEF IInv, Types, Contents, ProducePut, SlotAfter, Slots
<1>5. ASSUME NEW k \in 0..Filled PROVE buffer'[SlotAfter(k)] = Gets + k
  <2>1. SlotAfter(k) \in Slots
    BY <1>1, SlotsApart, SizeAssumption DEF IInv
  <2>2. CASE k = Filled
    <3>1. Gets + Filled = pi
      BY <1>1 DEF Filled
    <3> QED
      BY <2>1, <2>2, <3>1 DEF IInv, Types, Contents, ProducePut
  <2>3. CASE k # Filled
    <3>1. SlotAfter(k) # in
      BY <1>1, <2>3, SlotsApart, SizeAssumption DEF IInv, Contents
    <3>2. buffer[SlotAfter(k)] = Gets + k
      BY <1>1, <2>3 DEF IInv, Contents
    <3> QED
      BY <2>1, <3>1, <3>2 DEF IInv, Types, ProducePut
  <2> QED
    BY <2>2, <2>3
<1>6. Contents'
  <2>1. Len(got') = Gets'
    BY <1>2 DEF IInv, Contents, ProducePut
  <2>2. ASSUME NEW k \in 0..(Filled' - 1)
        PROVE  buffer'[SlotAfter(k)'] = Gets' + k
    BY <1>1, <1>2, <1>3, <1>5
  <2>3. in' = SlotAfter(Filled)'
    BY <1>2, <1>4 DEF ProducePut, SlotAfter
  <2> QED
    BY <2>1, <2>2, <2>3 DEF Contents
<1> QED
  BY <1>2, <1>6

\* A get removes the oldest item, whose number is that of the get.
LEMMA GetStep ==
  ASSUME IInv, ConsumeGet
  PROVE  /\ Contents'
         /\ Filled' = Filled - 1 /\ Gets' = Gets + 1 /\ Puts' = Puts
         /\ got' = Append(got, Gets)
<1>0. /\ out \in Nat /\ out < BUFFER_SIZE
      /\ out' = IF out + 1 < BUFFER_SIZE THEN out + 1 ELSE 0
  <2>1. out \in Slots /\ out' = NextSlot(out)
    BY DEF IInv, Types, ConsumeGet
  <2> QED
    BY <2>1, NextSlotRound, SizeAssumption DEF Slots
<1>1. Filled \in 1..BUFFER_SIZE /\ Puts \in Nat /\ Gets \in Nat
  BY FilledBound, SizeAssumption DEF IInv, ConsumeGet
<1>2. Gets' = Gets + 1 /\ Puts' = Puts /\ Filled' = Filled - 1
  BY <1>1 DEF ConsumeGet, Puts, Gets, Filled, IInv, Types
<1>3. ASSUME NEW k \in 0..BUFFER_SIZE, k < BUFFER_SIZE
      PROVE  SlotAfter(k)' = SlotAfter(k + 1)
  <2>1. SlotAfter(k)' = IF out' + k < BUFFER_SIZE THEN out' + k
                        ELSE out' + k - BUFFER_SIZE
    BY DEF SlotAfter
  <2> QED
    BY <1>0, <1>3, <2>1, SizeAssumption DEF SlotAfter
<1>4. buffer[out] = Gets
  <2>1. SlotAfter(0) = out
    BY SizeAssumption DEF IInv, Types, SlotAfter, Slots
  <2>2. buffer[SlotAfter(0)] = Gets + 0
    BY <1>1 DEF IInv, Contents
  <2> QED
    BY <1>1, <2>1, <2>2
<1>5. got' = Append(got, Gets)
  BY <1>4 DEF ConsumeGet
<1>6. Contents'
  <2>1. Len(got') = Gets'
    BY <1>1, <1>2, <1>5 DEF IInv, Contents, Types
  <2>2. ASSUME NEW k \in 0..(Filled' - 1)
        PROVE  buffer'[SlotAfter(k)'] = Gets' + k
    <3>1. k \in 0..BUFFER_SIZE /\ k < BUFFER_SIZE /\ k + 1 \in 0..(Filled - 1)
      BY <1>1, <1>2, SizeAssumption
    <3>2. buffer[SlotAfter(k + 1)] = Gets + (k + 1)
      BY <3>1 DEF IInv, Contents
    <3> QED
      BY <1>1, <1>2, <1>3, <3>1, <3>2 DEF ConsumeGet
  <2>3. in' = SlotAfter(Filled)'
    <3>1. Filled' \in 0..BUFFER_SIZE /\ Filled' < BUFFER_SIZE /\ Filled' + 1 = Filled
      BY <1>1, <1>2, SizeAssumption
    <3>2. in' = SlotAfter(Filled' + 1)
      BY <3>1 DEF IInv, Contents, ConsumeGet
    <3>3. SlotAfter(Filled)' = IF out' + Filled' < BUFFER_SIZE THEN out' + Filled'
                               ELSE out' + Filled' - BUFFER_SIZE
      BY DEF SlotAfter
    <3>4. ASSUME NEW f \in 0..BUFFER_SIZE, f < BUFFER_SIZE
          PROVE  SlotAfter(f + 1) = IF out' + f < BUFFER_SIZE THEN out' + f
                                    ELSE out' + f - BUFFER_SIZE
      BY <1>0, <3>4, SizeAssumption DEF SlotAfter
    <3> QED
      BY <3>1, <3>2, <3>3, <3>4
  <2> QED
    BY <2>1, <2>2, <2>3 DEF Contents
<1> QED
  BY <1>2, <1>5, <1>6

LEMMA StepContents == IInv /\ [Next]_vars => Contents'
<1> SUFFICES ASSUME IInv, [Next]_vars, ~ProducePut, ~ConsumeGet PROVE Contents'
  BY PutStep, GetStep
<1>1. UNCHANGED <<buffer, in, out, got, Puts, Gets>>
  BY QuietSteps DEF IInv
<1> QED
  BY <1>1 DEF IInv, Contents, Filled, SlotAfter

\* The numbers of the items and the places of the threads agree, always.
THEOREM Inductive == Spec => []IInv
<1>1. Init => IInv
  BY InitInv
<1>2. IInv /\ [Next]_vars => IInv'
  BY StepTypes, StepSemaphores, StepContents DEF IInv
<1> QED
  BY <1>1, <1>2, PTL DEF Spec

-----------------------------------------------------------------------------
\* The semaphores count slots and items and the critical sections exclude each
\* other (the sem_wait and sem_post calls of produce and consume).
THEOREM TypeCorrect == Spec => []TypeOK
<1>1. IInv => TypeOK
  <2> SUFFICES ASSUME IInv PROVE TypeOK
    OBVIOUS
  <2>1. /\ mutex \in 0..1 /\ empty \in 0..BUFFER_SIZE /\ full \in 0..BUFFER_SIZE
        /\ pi \in 0..MAX_ITEMS /\ ci \in 0..MAX_ITEMS
        /\ ~(PutsInside /\ GetsInside)
    BY SizeAssumption DEF IInv, Types, Semaphores, PutsInside, GetsInside
  <2> QED
    BY <2>1 DEF IInv, Types, TypeOK, PutsInside, GetsInside
<1> QED
  BY <1>1, Inductive, PTL

\* The requirement in the header of the program: the producer is never more
\* than BUFFER_SIZE items ahead of the consumer, nor behind it.
THEOREM NeverTooFarAhead == Spec => []AtMostAhead
<1>1. IInv => AtMostAhead
  BY FilledBound DEF IInv, AtMostAhead, Filled
<1> QED
  BY <1>1, Inductive, PTL

-----------------------------------------------------------------------------
\* What the slots from out on hold, written without the buffer.
LEMMA QueueIs ==
  IInv => [k \in 1..(Puts - Gets) |-> buffer[(out + k - 1) % BUFFER_SIZE]]
            = [k \in 1..Filled |-> Gets + k - 1]
<1> SUFFICES ASSUME IInv, NEW k \in 1..Filled
             PROVE  buffer[(out + k - 1) % BUFFER_SIZE] = Gets + k - 1
  BY DEF Filled
<1>1. Filled \in 0..BUFFER_SIZE /\ Gets \in Nat
  BY FilledBound DEF IInv
<1>2. (out + k - 1) % BUFFER_SIZE = SlotAfter(k - 1)
  <2>1. /\ out \in Nat /\ out < BUFFER_SIZE /\ BUFFER_SIZE \in Nat \ {0}
        /\ k \in Nat \ {0} /\ k <= BUFFER_SIZE
    BY <1>1, SizeAssumption DEF IInv, Types, Slots
  <2>2. CASE out + k - 1 < BUFFER_SIZE
    BY <2>1, <2>2 DEF SlotAfter
  <2>3. CASE out + k - 1 >= BUFFER_SIZE
    BY <2>1, <2>3 DEF SlotAfter
  <2> QED
    BY <2>1, <2>2, <2>3
<1>3. buffer[SlotAfter(k - 1)] = Gets + (k - 1)
  BY <1>1 DEF IInv, Contents
<1> QED
  BY <1>1, <1>2, <1>3

\* The circular buffer implements the first-in first-out queue (safety part):
\* ProducePut is a Put, ConsumeGet is a Get and every other step is a stutter.
THEOREM ImplementsQueue == Spec => Queue!Init /\ [][Queue!Next]_(Queue!vars)
<1> DEFINE Q == [k \in 1..(Puts - Gets) |-> buffer[(out + k - 1) % BUFFER_SIZE]]
<1>1. Init => Queue!Init
  BY DEF Init, Queue!Init, Puts, Gets
<1>2. IInv /\ IInv' /\ [Next]_vars => [Queue!Next]_(Queue!vars)
  <2> SUFFICES ASSUME IInv, IInv', [Next]_vars
               PROVE  Queue!Next \/ UNCHANGED <<Q, got>>
    BY DEF Queue!vars
  <2> DEFINE R == [k \in 1..Filled |-> Gets + k - 1]
  <2>1. Q = R
    BY QueueIs
  <2>2. (Q = R)'
    BY QueueIs, PTL
  <2>3. Filled \in Nat /\ Gets \in Nat /\ Len(got) = Gets /\ got \in Seq(Int)
    BY FilledBound, SizeAssumption DEF IInv, Contents, Types
  <2>4. R \in Seq(Int) /\ Len(R) = Filled
    BY <2>3
  <2>5. CASE ProducePut
    <3>1. Filled < BUFFER_SIZE /\ Puts < MAX_ITEMS /\ Puts = Gets + Filled
      BY <2>5, <2>3, FilledBound, SizeAssumption
      DEF ProducePut, IInv, Semaphores, Types, Puts, Filled
    <3>2. Filled' = Filled + 1 /\ Gets' = Gets /\ got' = got
      BY <2>5, PutStep DEF ProducePut
    <3>3. Q' = [k \in 1..(Filled + 1) |-> Gets + k - 1]
      BY <2>2, <3>2
    <3>4. Append(R, Gets + Filled) = [k \in 1..(Filled + 1) |-> Gets + k - 1]
      BY <2>3, <2>4
    <3>5. Q' = Append(Q, Len(got) + Len(Q))
      BY <2>1, <2>3, <2>4, <3>3, <3>4
    <3>6. Len(Q) < BUFFER_SIZE /\ Len(got) + Len(Q) < MAX_ITEMS
      BY <2>1, <2>3, <2>4, <3>1
    <3> QED
      BY <3>2, <3>5, <3>6 DEF Queue!Next, Queue!Put
  <2>6. CASE ConsumeGet
    <3>1. Filled \in Nat \ {0}
      BY <2>6, <2>3, FilledBound DEF ConsumeGet, IInv
    <3>2. Filled' = Filled - 1 /\ Gets' = Gets + 1 /\ got' = Append(got, Gets)
      BY <2>6, GetStep
    <3>3. Q' = [k \in 1..(Filled - 1) |-> Gets + 1 + k - 1]
      BY <2>2, <3>2
    <3>4. Head(R) = Gets /\ Tail(R) = [k \in 1..(Filled - 1) |-> Gets + 1 + k - 1]
      <4>1. R # <<>> /\ Head(R) = R[1]
        BY <2>4, <3>1, Len(<<>>) = 0
      <4>2. \A k \in 1..(Filled - 1) : R[k + 1] = Gets + 1 + k - 1
        BY <2>3, <3>1
      <4>3. R[1] = Gets
        BY <2>3, <3>1
      <4> HIDE DEF R
      <4>4. /\ Tail(R) \in Seq(Int) /\ Len(Tail(R)) = Filled - 1
            /\ \A k \in 1..(Filled - 1) : Tail(R)[k] = R[k + 1]
        BY <2>4, <3>1, <4>1, HeadTailProperties
      <4>5. ASSUME NEW s \in Seq(Int)
            PROVE  s = [k \in 1..Len(s) |-> s[k]]
        BY <4>5
      <4>6. Tail(R) = [k \in 1..(Filled - 1) |-> Tail(R)[k]]
        BY <4>4, <4>5, Zenon
      <4> QED
        BY <4>1, <4>2, <4>3, <4>4, <4>6
    <3>5. Q # <<>>
      <4> HIDE DEF Q, R
      <4> QED
        BY <2>1, <2>4, <3>1
    <3> QED
      BY <2>1, <3>2, <3>3, <3>4, <3>5 DEF Queue!Next, Queue!Get
  <2>7. CASE ~ProducePut /\ ~ConsumeGet
    <3>1. UNCHANGED <<buffer, in, out, got, Puts, Gets>>
      BY <2>7, QuietSteps DEF IInv
    <3> QED
      BY <3>1
  <2> QED
    BY <2>5, <2>6, <2>7
<1> QED
  BY <1>1, <1>2, Inductive, PTL DEF Spec
=============================================================================
