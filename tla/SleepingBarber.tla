--------------------------- MODULE SleepingBarber ---------------------------
(***************************************************************************)
(* The sleeping barber of src/lab8/q4: customers that find a chair post    *)
(* customers and wait for barber, the barber does the reverse, and mutex   *)
(* guards waiting_customers.  main joins the customers, cancels the barber *)
(* and destroys the semaphores.                                            *)
(*                                                                         *)
(* One action per semaphore call, and one per critical section.            *)
(***************************************************************************)
EXTENDS Integers, FiniteSets

CONSTANTS Customers, WAITING_CHAIRS

ASSUME CustomersAssumption == IsFiniteSet(Customers)
ASSUME ChairsAssumption == WAITING_CHAIRS \in Nat

VARIABLES
    customers, barber, mutex,  \* the values of the semaphores
    waiting_customers,
    bpc,       \* where the barber is
    cpc,       \* cpc[c]: where customer c is
    mpc,       \* where main is
    cancelled  \* pthread_cancel(barber_thread) has been called

vars == <<customers, barber, mutex, waiting_customers, bpc, cpc, mpc, cancelled>>

Init ==
    /\ customers = 0 /\ barber = 0 /\ mutex = 1
    /\ waiting_customers = 0
    /\ bpc = "sleep"
    /\ cpc = [c \in Customers |-> "arrive"]
    /\ mpc = "join"
    /\ cancelled = FALSE

-----------------------------------------------------------------------------
\* sem_wait and sem_post.
Wait(sem) == sem > 0 /\ sem' = sem - 1
Post(sem) == sem' = sem + 1

BarberGoes(from, to) ==
    /\ bpc = from /\ mpc # "return"
    /\ bpc' = to
    /\ UNCHANGED <<cpc, mpc, cancelled>>

BarberWake ==
    /\ BarberGoes("sleep", "lock")
    /\ Wait(customers)
    /\ UNCHANGED <<barber, mutex, waiting_customers>>

BarberLock ==
    /\ BarberGoes("lock", "call")
    /\ Wait(mutex)
    /\ UNCHANGED <<customers, barber, waiting_customers>>

\* One chair less is taken ...
BarberCall ==
    /\ BarberGoes("call", "ready")
    /\ waiting_customers' = waiting_customers - 1
    /\ UNCHANGED <<customers, barber, mutex>>

\* ... and one customer, whichever, may come.
BarberReadyTwice ==                           \* faulty variant
    /\ BarberGoes("ready", "unlock")
    /\ barber' = barber + 2
    /\ UNCHANGED <<customers, mutex, waiting_customers>>
BarberReady ==
    /\ BarberGoes("ready", "unlock")
    /\ Post(barber)
    /\ UNCHANGED <<customers, mutex, waiting_customers>>

BarberUnlock ==
    /\ BarberGoes("unlock", "cut")
    /\ Post(mutex)
    /\ UNCHANGED <<customers, barber, waiting_customers>>

\* sleep(3): the haircut.
BarberCut ==
    /\ BarberGoes("cut", "sleep")
    /\ UNCHANGED <<customers, barber, mutex, waiting_customers>>

\* A cancelled thread ends in its next sem_wait, sleep or printf: "ready" is
\* the printf before the sem_post, in "call" and "unlock" there is none.
BarberEnd ==
    /\ cancelled /\ mpc # "return"
    /\ bpc \in {"sleep", "lock", "ready", "cut"}
    /\ bpc' = "ended"
    /\ UNCHANGED <<customers, barber, mutex, waiting_customers, cpc, mpc, cancelled>>

Barber ==
    \/ BarberWake \/ BarberLock \/ BarberCall \/ BarberReady \/ BarberUnlock
    \/ BarberCut \/ BarberEnd

-----------------------------------------------------------------------------
CustomerGoes(c, from, to) ==
    /\ cpc[c] = from
    /\ cpc' = [cpc EXCEPT ![c] = to]
    /\ UNCHANGED <<bpc, mpc, cancelled>>

CustomerLock(c) ==
    /\ CustomerGoes(c, "arrive", "look")
    /\ Wait(mutex)
    /\ UNCHANGED <<customers, barber, waiting_customers>>

ChairFree == waiting_customers < WAITING_CHAIRS

CustomerSit(c) ==
    /\ CustomerGoes(c, "look", "tell")
    /\ ChairFree
    /\ waiting_customers' = waiting_customers + 1
    /\ UNCHANGED <<customers, barber, mutex>>

\* Waking the barber, which a sleeping barber needs.
CustomerTellNobody(c) ==                      \* faulty variant
    /\ CustomerGoes(c, "tell", "unlock")
    /\ customers' = IF waiting_customers = 1 THEN customers + 1 ELSE customers
    /\ UNCHANGED <<barber, mutex, waiting_customers>>
CustomerTell(c) ==
    /\ CustomerGoes(c, "tell", "unlock")
    /\ Post(customers)
    /\ UNCHANGED <<barber, mutex, waiting_customers>>

CustomerUnlock(c) ==
    /\ CustomerGoes(c, "unlock", "wait")
    /\ Post(mutex)
    /\ UNCHANGED <<customers, barber, waiting_customers>>

CustomerCalled(c) ==
    /\ CustomerGoes(c, "wait", "haircut")
    /\ Wait(barber)
    /\ UNCHANGED <<customers, mutex, waiting_customers>>

CustomerDone(c) ==
    /\ CustomerGoes(c, "haircut", "gone")
    /\ UNCHANGED <<customers, barber, mutex, waiting_customers>>

\* No chair: the customer leaves.
CustomerTurnedAway(c) ==
    /\ CustomerGoes(c, "look", "gone")
    /\ ~ChairFree
    /\ Post(mutex)
    /\ UNCHANGED <<customers, barber, waiting_customers>>

Customer(c) ==
    \/ CustomerLock(c) \/ CustomerSit(c) \/ CustomerTell(c) \/ CustomerUnlock(c)
    \/ CustomerCalled(c) \/ CustomerDone(c) \/ CustomerTurnedAway(c)

-----------------------------------------------------------------------------
MainGoes(from, to) ==
    /\ mpc = from
    /\ mpc' = to
    /\ UNCHANGED <<customers, barber, mutex, waiting_customers, bpc, cpc>>

MainCancel ==
    /\ MainGoes("join", "destroy")
    /\ \A c \in Customers : cpc[c] = "gone"
    /\ cancelled' = TRUE

\* sem_destroy on the three semaphores, and the return; the barber is not joined.
MainDestroy ==
    /\ MainGoes("destroy", "return")
    /\ UNCHANGED cancelled

\* The return from main ends the barber, wherever it is.
Closed == mpc = "return" /\ UNCHANGED vars

Main == MainCancel \/ MainDestroy

Next ==
    \/ Barber
    \/ \E c \in Customers : Customer(c)
    \/ Main \/ Closed

\* Threads that can go on do; the semaphores may overtake a thread for ever.
Spec ==
    /\ Init /\ [][Next]_vars
    /\ WF_vars(Barber)
    /\ WF_vars(Main)
    /\ \A c \in Customers : WF_vars(Customer(c))

-----------------------------------------------------------------------------
CustomersAt(places) == {c \in Customers : cpc[c] \in places}

\* The type of the state: mutex is binary, and no more chairs are taken than
\* there are.
TypeOK ==
    /\ customers \in 0..WAITING_CHAIRS
    /\ barber \in 0..Cardinality(Customers)
    /\ mutex \in 0..1
    /\ waiting_customers \in 0..WAITING_CHAIRS
    /\ bpc \in {"sleep", "lock", "call", "ready", "unlock", "cut", "ended"}
    /\ cpc \in [Customers -> {"arrive", "look", "tell", "unlock", "wait",
                              "haircut", "gone"}]
    /\ mpc \in {"join", "destroy", "return"}
    /\ cancelled \in BOOLEAN

\* Nobody who sits is forgotten: those who sit and have not been called are
\* counted by waiting_customers, the called are counted by barber, and every
\* one not called has told the barber, or is about to, or has its token in his
\* hand.
SeatsAccounted ==
    /\ Cardinality(CustomersAt({"tell", "unlock", "wait"}))
         = waiting_customers + barber + (IF bpc = "ready" THEN 1 ELSE 0)
    /\ waiting_customers
         = customers + Cardinality(CustomersAt({"tell"}))
             + (IF bpc \in {"lock", "call"} THEN 1 ELSE 0)

\* A customer leaves without a haircut only if the chairs are all taken by
\* customers that the barber has not called.
TurnedAwayWhenFull ==
    [][\A c \in Customers :
         CustomerTurnedAway(c) =>
             Cardinality(CustomersAt({"unlock", "wait"})) >= WAITING_CHAIRS + barber]_vars

\* Everybody who comes leaves: no customer waits for a barber who sleeps.
AllCustomersLeave == <>(CustomersAt({"gone"}) = Customers)
=============================================================================
