------------------------ MODULE SleepingBarberProofs ------------------------
(***************************************************************************)
(* Theorems about the sleeping barber (module SleepingBarber), for any     *)
(* number of customers and chairs.                                         *)
(***************************************************************************)
EXTENDS SleepingBarber, FiniteSetTheorems, TLAPS

\* Where a customer or the barber holds mutex, and where a customer sits.
CustomerHolds == {"look", "tell", "unlock"}
BarberHolds == {"call", "ready", "unlock"}
Sits == {"tell", "unlock", "wait"}

\* mutex is taken by the barber, or by one customer, or it is free.
MutexInv ==
    LET Nobody == \A c \in Customers : cpc[c] \notin CustomerHolds
        OneCustomer == \E c \in Customers :
                          /\ cpc[c] \in CustomerHolds
                          /\ \A d \in Customers : cpc[d] \in CustomerHolds => d = c
    IN  \/ mutex = 1 /\ bpc \notin BarberHolds /\ Nobody
        \/ mutex = 0 /\ bpc \in BarberHolds /\ Nobody
        \/ mutex = 0 /\ bpc \notin BarberHolds /\ OneCustomer

\* main cancels the barber when nobody is left.
GoneInv == cancelled \/ mpc # "join" => \A c \in Customers : cpc[c] = "gone"

\* TypeOK but for the upper bounds of customers and barber, which follow from
\* SeatsAccounted.
StateOK ==
    /\ customers \in Nat /\ barber \in Nat
    /\ mutex \in 0..1
    /\ waiting_customers \in 0..WAITING_CHAIRS
    /\ bpc \in {"sleep", "lock", "cut", "ended"} \cup BarberHolds
    /\ cpc \in [Customers -> {"arrive", "wait", "haircut", "gone"} \cup CustomerHolds]
    /\ mpc \in {"join", "destroy", "return"}
    /\ cancelled \in BOOLEAN

IInv == StateOK /\ SeatsAccounted /\ MutexInv /\ GoneInv

-----------------------------------------------------------------------------
\* The customers at a place are a finite set.
LEMMA CustomersFinite ==
  ASSUME NEW places
  PROVE  /\ IsFiniteSet(CustomersAt(places))
         /\ Cardinality(CustomersAt(places)) \in Nat
         /\ Cardinality(CustomersAt(places)) <= Cardinality(Customers)
         /\ Cardinality(CustomersAt(places)) = 0 <=> CustomersAt(places) = {}
<1>1. CustomersAt(places) \subseteq Customers
  BY DEF CustomersAt
<1> QED
  BY <1>1, CustomersAssumption, FS_Subset, FS_CardinalityType, FS_EmptySet

\* What a customer's going from one place to another does to their numbers.
LEMMA CountMoves ==
  ASSUME StateOK, NEW c \in Customers, NEW from, NEW to, CustomerGoes(c, from, to),
         NEW places
  PROVE  Cardinality(CustomersAt(places)') =
            Cardinality(CustomersAt(places))
              + (IF to \in places THEN 1 ELSE 0) - (IF from \in places THEN 1 ELSE 0)
<1>1. cpc[c] = from /\ \A d \in Customers : cpc'[d] = IF d = c THEN to ELSE cpc[d]
  BY DEF CustomerGoes, StateOK
<1>2. /\ IsFiniteSet(CustomersAt(places))
      /\ Cardinality(CustomersAt(places)) \in Nat
  BY CustomersFinite
<1>3. CASE to \in places /\ from \notin places
  <2>1. CustomersAt(places)' = CustomersAt(places) \cup {c} /\ c \notin CustomersAt(places)
    BY <1>1, <1>3 DEF CustomersAt
  <2>2. Cardinality(CustomersAt(places) \cup {c}) = Cardinality(CustomersAt(places)) + 1
    BY <1>2, <2>1, FS_AddElement
  <2> QED
    BY <1>2, <1>3, <2>1, <2>2
<1>4. CASE to \notin places /\ from \in places
  <2>1. CustomersAt(places)' = CustomersAt(places) \ {c} /\ c \in CustomersAt(places)
    BY <1>1, <1>4 DEF CustomersAt
  <2>2. Cardinality(CustomersAt(places) \ {c}) = Cardinality(CustomersAt(places)) - 1
    BY <1>2, <2>1, FS_RemoveElement
  <2> QED
    BY <1>2, <1>4, <2>1, <2>2
<1>5. CASE to \in places <=> from \in places
  <2>1. CustomersAt(places)' = CustomersAt(places)
    BY <1>1, <1>5 DEF CustomersAt
  <2> QED
    BY <1>2, <1>5, <2>1
<1> QED
  BY <1>3, <1>4, <1>5

LEMMA InitIInv == Init => IInv
<1> SUFFICES ASSUME Init PROVE IInv
  OBVIOUS
<1> USE DEF Init
<1>1. CustomersAt(Sits) = {} /\ CustomersAt({"tell"}) = {}
  BY DEF CustomersAt, Sits
<1>2. SeatsAccounted
  BY <1>1, FS_EmptySet DEF SeatsAccounted, Sits
<1>3. MutexInv
  BY DEF MutexInv, CustomerHolds, BarberHolds
<1>4. GoneInv /\ cancelled \in BOOLEAN
  BY DEF GoneInv
<1>5. StateOK
  BY <1>4, ChairsAssumption DEF StateOK, CustomerHolds, BarberHolds
<1> QED
  BY <1>2, <1>3, <1>4, <1>5 DEF IInv

-----------------------------------------------------------------------------
\* With nobody left, nobody sits and nobody has been called or is being called.
LEMMA NobodyLeft ==
  ASSUME StateOK, SeatsAccounted, \A c \in Customers : cpc[c] = "gone"
  PROVE  bpc \notin {"lock", "call", "ready"}
<1>1. CustomersAt(Sits) = {} /\ CustomersAt({"tell"}) = {}
  BY DEF CustomersAt, Sits
<1>2. Cardinality(CustomersAt(Sits)) = 0 /\ Cardinality(CustomersAt({"tell"})) = 0
  BY <1>1, FS_EmptySet
<1> QED
  BY <1>2 DEF StateOK, SeatsAccounted, Sits

LEMMA BarberKeeps ==
  ASSUME IInv, Barber
  PROVE  IInv'
<1> USE DEF Sits, CustomerHolds, BarberHolds
<1>0. StateOK /\ SeatsAccounted /\ MutexInv /\ GoneInv
  BY DEF IInv
<1>1. /\ Cardinality(CustomersAt(Sits)) \in Nat
      /\ Cardinality(CustomersAt({"tell"})) \in Nat
  BY CustomersFinite
<1>2. UNCHANGED <<cpc, mpc, cancelled>>
  BY DEF Barber, BarberWake, BarberLock, BarberCall, BarberReady, BarberUnlock, BarberCut,
         BarberEnd, BarberGoes
<1>3. GoneInv' /\ CustomersAt(Sits)' = CustomersAt(Sits)
      /\ CustomersAt({"tell"})' = CustomersAt({"tell"})
  BY <1>0, <1>2 DEF GoneInv, CustomersAt
<1>4. CASE BarberWake
  <2>1. /\ bpc = "sleep" /\ bpc' = "lock"
        /\ customers > 0 /\ customers' = customers - 1
        /\ UNCHANGED <<barber, mutex, waiting_customers>>
    BY <1>0, <1>4 DEF BarberWake, BarberGoes, Wait
  <2>2. StateOK' /\ SeatsAccounted'
    BY <1>0, <1>1, <1>2, <1>3, <2>1, ChairsAssumption DEF StateOK, SeatsAccounted
  <2>3. MutexInv'
    BY <1>0, <1>2, <2>1 DEF MutexInv
  <2> QED
    BY <1>3, <2>2, <2>3 DEF IInv
<1>5. CASE BarberLock
  <2>1. /\ bpc = "lock" /\ bpc' = "call"
        /\ mutex = 1 /\ mutex' = 0
        /\ UNCHANGED <<customers, barber, waiting_customers>>
    BY <1>0, <1>5 DEF BarberLock, BarberGoes, Wait, StateOK
  <2>2. StateOK' /\ SeatsAccounted'
    BY <1>0, <1>1, <1>2, <1>3, <2>1, ChairsAssumption DEF StateOK, SeatsAccounted
  <2>3. MutexInv'
    BY <1>0, <1>2, <2>1 DEF MutexInv
  <2> QED
    BY <1>3, <2>2, <2>3 DEF IInv
<1>6. CASE BarberCall
  <2>1. /\ bpc = "call" /\ bpc' = "ready"
        /\ waiting_customers' = waiting_customers - 1
        /\ UNCHANGED <<customers, barber, mutex>>
    BY <1>0, <1>6 DEF BarberCall, BarberGoes
  <2>2. StateOK' /\ SeatsAccounted'
    BY <1>0, <1>1, <1>2, <1>3, <2>1, ChairsAssumption DEF StateOK, SeatsAccounted
  <2>3. MutexInv'
    BY <1>0, <1>2, <2>1 DEF MutexInv
  <2> QED
    BY <1>3, <2>2, <2>3 DEF IInv
<1>7. CASE BarberReady
  <2>1. /\ bpc = "ready" /\ bpc' = "unlock"
        /\ barber' = barber + 1
        /\ UNCHANGED <<customers, mutex, waiting_customers>>
    BY <1>0, <1>7 DEF BarberReady, BarberGoes, Post
  <2>2. StateOK' /\ SeatsAccounted'
    BY <1>0, <1>1, <1>2, <1>3, <2>1, ChairsAssumption DEF StateOK, SeatsAccounted
  <2>3. MutexInv'
    BY <1>0, <1>2, <2>1 DEF MutexInv
  <2> QED
    BY <1>3, <2>2, <2>3 DEF IInv
<1>8. CASE BarberUnlock
  <2>1. /\ bpc = "unlock" /\ bpc' = "cut"
        /\ mutex = 0 /\ mutex' = 1
        /\ UNCHANGED <<customers, barber, waiting_customers>>
    BY <1>0, <1>8 DEF BarberUnlock, BarberGoes, Post, MutexInv
  <2>2. StateOK' /\ SeatsAccounted'
    BY <1>0, <1>1, <1>2, <1>3, <2>1, ChairsAssumption DEF StateOK, SeatsAccounted
  <2>3. MutexInv'
    BY <1>0, <1>2, <2>1 DEF MutexInv
  <2> QED
    BY <1>3, <2>2, <2>3 DEF IInv
<1>9. CASE BarberCut
  <2>1. /\ bpc = "cut" /\ bpc' = "sleep"
        /\ UNCHANGED <<customers, barber, mutex, waiting_customers>>
    BY <1>0, <1>9 DEF BarberCut, BarberGoes
  <2>2. StateOK' /\ SeatsAccounted'
    BY <1>0, <1>1, <1>2, <1>3, <2>1, ChairsAssumption DEF StateOK, SeatsAccounted
  <2>3. MutexInv'
    BY <1>0, <1>2, <2>1 DEF MutexInv
  <2> QED
    BY <1>3, <2>2, <2>3 DEF IInv
<1>10. CASE BarberEnd
  <2>1. /\ bpc \in {"sleep", "cut"} /\ bpc' = "ended"
        /\ UNCHANGED <<customers, barber, mutex, waiting_customers>>
    BY <1>0, <1>10, NobodyLeft DEF BarberEnd, GoneInv
  <2>2. StateOK' /\ MutexInv'
    BY <1>0, <1>2, <2>1 DEF StateOK, MutexInv
  <2>3. SeatsAccounted'
    BY <1>0, <1>3, <2>1 DEF SeatsAccounted
  <2> QED
    BY <1>3, <2>2, <2>3 DEF IInv
<1> QED
  BY <1>4, <1>5, <1>6, <1>7, <1>8, <1>9, <1>10 DEF Barber

\* What is left to show of a customer's step, its places being known.
LEMMA CustomerMoves ==
  ASSUME IInv, NEW c \in Customers, NEW from, NEW to, CustomerGoes(c, from, to), from # "gone"
  PROVE  /\ GoneInv'
         /\ cpc[c] = from /\ cpc' = [cpc EXCEPT ![c] = to] /\ UNCHANGED <<bpc, mpc, cancelled>>
         /\ \A d \in Customers : cpc'[d] = IF d = c THEN to ELSE cpc[d]
BY DEF IInv, GoneInv, CustomerGoes, StateOK

LEMMA CustomerKeeps ==
  ASSUME IInv, NEW c \in Customers, Customer(c)
  PROVE  IInv'
<1> USE DEF Sits, CustomerHolds, BarberHolds
<1>0. StateOK /\ SeatsAccounted /\ MutexInv /\ GoneInv
  BY DEF IInv
<1>00. /\ Cardinality(CustomersAt(Sits)) \in Nat
       /\ Cardinality(CustomersAt({"tell"})) \in Nat
  BY CustomersFinite
<1>1. CASE CustomerLock(c)
  <2>1. /\ CustomerGoes(c, "arrive", "look")
        /\ mutex = 1 /\ mutex' = 0
        /\ UNCHANGED <<customers, barber, waiting_customers>>
    BY <1>0, <1>1 DEF CustomerLock, CustomerGoes, Wait, StateOK
  <2>2. /\ GoneInv'
        /\ cpc[c] = "arrive" /\ cpc' = [cpc EXCEPT ![c] = "look"] /\ UNCHANGED <<bpc, mpc, cancelled>>
        /\ \A d \in Customers : cpc'[d] = IF d = c THEN "look" ELSE cpc[d]
    BY <2>1, CustomerMoves
  <2>3. /\ Cardinality(CustomersAt(Sits)') = Cardinality(CustomersAt(Sits))
        /\ Cardinality(CustomersAt({"tell"})') = Cardinality(CustomersAt({"tell"}))
    BY <1>0, <1>00, <2>1, CountMoves
  <2>4. StateOK' /\ SeatsAccounted'
    BY <1>0, <1>00, <2>1, <2>2, <2>3, ChairsAssumption DEF StateOK, SeatsAccounted
  <2>5. MutexInv'
    BY <1>0, <2>1, <2>2 DEF MutexInv
  <2> QED
    BY <2>2, <2>4, <2>5 DEF IInv
<1>2. CASE CustomerSit(c)
  <2>1. /\ CustomerGoes(c, "look", "tell")
        /\ waiting_customers < WAITING_CHAIRS /\ waiting_customers' = waiting_customers + 1
        /\ UNCHANGED <<customers, barber, mutex>>
    BY <1>0, <1>2 DEF CustomerSit, CustomerGoes, ChairFree
  <2>2. /\ GoneInv'
        /\ cpc[c] = "look" /\ cpc' = [cpc EXCEPT ![c] = "tell"] /\ UNCHANGED <<bpc, mpc, cancelled>>
        /\ \A d \in Customers : cpc'[d] = IF d = c THEN "tell" ELSE cpc[d]
    BY <2>1, CustomerMoves
  <2>3. /\ Cardinality(CustomersAt(Sits)') = Cardinality(CustomersAt(Sits)) + 1
        /\ Cardinality(CustomersAt({"tell"})') = Cardinality(CustomersAt({"tell"})) + 1
    BY <1>0, <1>00, <2>1, CountMoves
  <2>4. StateOK' /\ SeatsAccounted'
    BY <1>0, <1>00, <2>1, <2>2, <2>3, ChairsAssumption DEF StateOK, SeatsAccounted
  <2>5. MutexInv'
    BY <1>0, <2>1, <2>2 DEF MutexInv
  <2> QED
    BY <2>2, <2>4, <2>5 DEF IInv
<1>3. CASE CustomerTell(c)
  <2>1. /\ CustomerGoes(c, "tell", "unlock")
        /\ customers' = customers + 1
        /\ UNCHANGED <<barber, mutex, waiting_customers>>
    BY <1>0, <1>3 DEF CustomerTell, CustomerGoes, Post
  <2>2. /\ GoneInv'
        /\ cpc[c] = "tell" /\ cpc' = [cpc EXCEPT ![c] = "unlock"] /\ UNCHANGED <<bpc, mpc, cancelled>>
        /\ \A d \in Customers : cpc'[d] = IF d = c THEN "unlock" ELSE cpc[d]
    BY <2>1, CustomerMoves
  <2>3. /\ Cardinality(CustomersAt(Sits)') = Cardinality(CustomersAt(Sits))
        /\ Cardinality(CustomersAt({"tell"})') = Cardinality(CustomersAt({"tell"})) - 1
    BY <1>0, <1>00, <2>1, CountMoves
  <2>4. StateOK' /\ SeatsAccounted'
    BY <1>0, <1>00, <2>1, <2>2, <2>3, ChairsAssumption DEF StateOK, SeatsAccounted
  <2>5. MutexInv'
    BY <1>0, <2>1, <2>2 DEF MutexInv
  <2> QED
    BY <2>2, <2>4, <2>5 DEF IInv
<1>4. CASE CustomerUnlock(c)
  <2>1. /\ CustomerGoes(c, "unlock", "wait")
        /\ mutex = 0 /\ mutex' = 1
        /\ UNCHANGED <<customers, barber, waiting_customers>>
    BY <1>0, <1>4 DEF CustomerUnlock, CustomerGoes, Post, MutexInv
  <2>2. /\ GoneInv'
        /\ cpc[c] = "unlock" /\ cpc' = [cpc EXCEPT ![c] = "wait"] /\ UNCHANGED <<bpc, mpc, cancelled>>
        /\ \A d \in Customers : cpc'[d] = IF d = c THEN "wait" ELSE cpc[d]
    BY <2>1, CustomerMoves
  <2>3. /\ Cardinality(CustomersAt(Sits)') = Cardinality(CustomersAt(Sits))
        /\ Cardinality(CustomersAt({"tell"})') = Cardinality(CustomersAt({"tell"}))
    BY <1>0, <1>00, <2>1, CountMoves
  <2>4. StateOK' /\ SeatsAccounted'
    BY <1>0, <1>00, <2>1, <2>2, <2>3, ChairsAssumption DEF StateOK, SeatsAccounted
  <2>5. MutexInv'
    BY <1>0, <2>1, <2>2 DEF MutexInv
  <2> QED
    BY <2>2, <2>4, <2>5 DEF IInv
<1>5. CASE CustomerCalled(c)
  <2>1. /\ CustomerGoes(c, "wait", "haircut")
        /\ barber > 0 /\ barber' = barber - 1
        /\ UNCHANGED <<customers, mutex, waiting_customers>>
    BY <1>0, <1>5 DEF CustomerCalled, CustomerGoes, Wait
  <2>2. /\ GoneInv'
        /\ cpc[c] = "wait" /\ cpc' = [cpc EXCEPT ![c] = "haircut"] /\ UNCHANGED <<bpc, mpc, cancelled>>
        /\ \A d \in Customers : cpc'[d] = IF d = c THEN "haircut" ELSE cpc[d]
    BY <2>1, CustomerMoves
  <2>3. /\ Cardinality(CustomersAt(Sits)') = Cardinality(CustomersAt(Sits)) - 1
        /\ Cardinality(CustomersAt({"tell"})') = Cardinality(CustomersAt({"tell"}))
    BY <1>0, <1>00, <2>1, CountMoves
  <2>4. StateOK' /\ SeatsAccounted'
    BY <1>0, <1>00, <2>1, <2>2, <2>3, ChairsAssumption DEF StateOK, SeatsAccounted
  <2>5. MutexInv'
    BY <1>0, <2>1, <2>2 DEF MutexInv
  <2> QED
    BY <2>2, <2>4, <2>5 DEF IInv
<1>6. CASE CustomerDone(c)
  <2>1. /\ CustomerGoes(c, "haircut", "gone")
        /\ UNCHANGED <<customers, barber, mutex, waiting_customers>>
    BY <1>0, <1>6 DEF CustomerDone, CustomerGoes
  <2>2. /\ GoneInv'
        /\ cpc[c] = "haircut" /\ cpc' = [cpc EXCEPT ![c] = "gone"] /\ UNCHANGED <<bpc, mpc, cancelled>>
        /\ \A d \in Customers : cpc'[d] = IF d = c THEN "gone" ELSE cpc[d]
    BY <2>1, CustomerMoves
  <2>3. /\ Cardinality(CustomersAt(Sits)') = Cardinality(CustomersAt(Sits))
        /\ Cardinality(CustomersAt({"tell"})') = Cardinality(CustomersAt({"tell"}))
    BY <1>0, <1>00, <2>1, CountMoves
  <2>4. StateOK' /\ SeatsAccounted'
    BY <1>0, <1>00, <2>1, <2>2, <2>3, ChairsAssumption DEF StateOK, SeatsAccounted
  <2>5. MutexInv'
    BY <1>0, <2>1, <2>2 DEF MutexInv
  <2> QED
    BY <2>2, <2>4, <2>5 DEF IInv
<1>7. CASE CustomerTurnedAway(c)
  <2>1. /\ CustomerGoes(c, "look", "gone")
        /\ mutex = 0 /\ mutex' = 1
        /\ UNCHANGED <<customers, barber, waiting_customers>>
    BY <1>0, <1>7 DEF CustomerTurnedAway, CustomerGoes, Post, MutexInv
  <2>2. /\ GoneInv'
        /\ cpc[c] = "look" /\ cpc' = [cpc EXCEPT ![c] = "gone"] /\ UNCHANGED <<bpc, mpc, cancelled>>
        /\ \A d \in Customers : cpc'[d] = IF d = c THEN "gone" ELSE cpc[d]
    BY <2>1, CustomerMoves
  <2>3. /\ Cardinality(CustomersAt(Sits)') = Cardinality(CustomersAt(Sits))
        /\ Cardinality(CustomersAt({"tell"})') = Cardinality(CustomersAt({"tell"}))
    BY <1>0, <1>00, <2>1, CountMoves
  <2>4. StateOK' /\ SeatsAccounted'
    BY <1>0, <1>00, <2>1, <2>2, <2>3, ChairsAssumption DEF StateOK, SeatsAccounted
  <2>5. MutexInv'
    BY <1>0, <2>1, <2>2 DEF MutexInv
  <2> QED
    BY <2>2, <2>4, <2>5 DEF IInv
<1> QED
  BY <1>1, <1>2, <1>3, <1>4, <1>5, <1>6, <1>7 DEF Customer

LEMMA MainKeeps ==
  ASSUME IInv, Main
  PROVE  IInv'
<1>1. /\ UNCHANGED <<customers, barber, mutex, waiting_customers, bpc, cpc>>
      /\ mpc' \in {"join", "destroy", "return"} /\ cancelled' \in BOOLEAN
      /\ \A c \in Customers : cpc[c] = "gone"
  BY DEF IInv, StateOK, GoneInv, Main, MainCancel, MainDestroy, MainGoes
<1>2. StateOK'
  BY <1>1 DEF IInv, StateOK
<1>3. SeatsAccounted' /\ MutexInv' /\ GoneInv'
  BY <1>1 DEF IInv, SeatsAccounted, MutexInv, GoneInv, CustomersAt
<1> QED
  BY <1>2, <1>3 DEF IInv

LEMMA StepKeeps ==
  ASSUME IInv, [Next]_vars
  PROVE  IInv'
<1>1. CASE UNCHANGED vars
  BY <1>1 DEF vars, IInv, StateOK, SeatsAccounted, MutexInv, GoneInv, CustomersAt
<1> QED
  BY <1>1, BarberKeeps, CustomerKeeps, MainKeeps DEF Next, Closed

LEMMA Inductive == Spec => []IInv
BY InitIInv, StepKeeps, PTL DEF Spec

-----------------------------------------------------------------------------
\* mutex is binary, no more chairs are taken than there are, and neither
\* semaphore counts more than the chairs or the customers.
THEOREM TypeCorrect == Spec => []TypeOK
<1>1. IInv => TypeOK
  <2> SUFFICES ASSUME IInv PROVE TypeOK
    OBVIOUS
  <2>1. /\ Cardinality(CustomersAt(Sits)) \in Nat
        /\ Cardinality(CustomersAt(Sits)) <= Cardinality(Customers)
        /\ Cardinality(CustomersAt({"tell"})) \in Nat /\ Cardinality(Customers) \in Nat
    BY CustomersFinite, CustomersAssumption, FS_CardinalityType
  <2>2. customers \in 0..WAITING_CHAIRS /\ barber \in 0..Cardinality(Customers)
    BY <2>1, ChairsAssumption DEF IInv, StateOK, SeatsAccounted, Sits
  <2> QED
    BY <2>2 DEF IInv, StateOK, TypeOK, CustomerHolds, BarberHolds
<1> QED
  BY <1>1, Inductive, PTL

\* Nobody who sits is forgotten, however the calls on the semaphores interleave.
THEOREM SeatsRight == Spec => []SeatsAccounted
BY Inductive, PTL DEF IInv

\* A customer is turned away only by chairs taken by customers not yet called.
THEOREM TurnedAwayRight == Spec => TurnedAwayWhenFull
<1>1. ASSUME IInv, NEW c \in Customers, CustomerTurnedAway(c)
      PROVE  Cardinality(CustomersAt({"unlock", "wait"})) >= WAITING_CHAIRS + barber
  <2>1. cpc[c] = "look" /\ waiting_customers >= WAITING_CHAIRS
    BY <1>1, ChairsAssumption DEF CustomerTurnedAway, CustomerGoes, ChairFree, IInv, StateOK
  <2>2. bpc \notin BarberHolds /\ \A d \in Customers : cpc[d] # "tell"
    BY <1>1, <2>1 DEF IInv, MutexInv, CustomerHolds
  <2>3. CustomersAt({"unlock", "wait"}) = CustomersAt(Sits)
    BY <2>2 DEF CustomersAt, Sits
  <2>4. Cardinality(CustomersAt(Sits)) = waiting_customers + barber
    BY <1>1, <2>2 DEF IInv, StateOK, SeatsAccounted, Sits, BarberHolds
  <2> QED
    BY <1>1, <2>1, <2>3, <2>4, ChairsAssumption DEF IInv, StateOK
<1>2. IInv => \A c \in Customers : CustomerTurnedAway(c) =>
          Cardinality(CustomersAt({"unlock", "wait"})) >= WAITING_CHAIRS + barber
  BY <1>1
<1> QED
  BY <1>2, Inductive, PTL DEF TurnedAwayWhenFull
=============================================================================
