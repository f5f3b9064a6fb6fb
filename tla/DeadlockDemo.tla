---------------------------- MODULE DeadlockDemo ----------------------------
(***************************************************************************)
(* src/lab8/q3: two threads take the same two semaphores in opposite order *)
(* in order to show a deadlock; main joins them.                           *)
(***************************************************************************)
EXTENDS Naturals

VARIABLES
    sem,  \* sem[r]: the value of semaphore r
    tpc,  \* tpc[t]: where thread t is
    main  \* whether main has joined them ("joined") or not ("join")

vars == <<sem, tpc, main>>

Threads == {1, 2}
First == <<"resource_A", "resource_B">>
Second == <<"resource_B", "resource_A">>
Resources == {First[t] : t \in Threads}

Init ==
    /\ sem = [r \in Resources |-> 1]
    /\ tpc = [t \in Threads |-> "first"]
    /\ main = "join"

-----------------------------------------------------------------------------
Lock(t, from, r, to) ==
    /\ tpc[t] = from /\ sem[r] > 0
    /\ sem' = [sem EXCEPT ![r] = @ - 1]
    /\ tpc' = [tpc EXCEPT ![t] = to]
    /\ UNCHANGED main

Unlock(t, from, r, to) ==
    /\ tpc[t] = from
    /\ sem' = [sem EXCEPT ![r] = @ + 1]
    /\ tpc' = [tpc EXCEPT ![t] = to]
    /\ UNCHANGED main

LockFirst(t) == Lock(t, "first", First[t], "second")

LockSecond(t) == Lock(t, "second", Second[t], "critical")

UnlockSecond(t) == Unlock(t, "critical", Second[t], "unlock")

UnlockFirstMistaken(t) == Unlock(t, "unlock", Second[t], "ended")  \* faulty variant
UnlockFirst(t) == Unlock(t, "unlock", First[t], "ended")

Thread(t) == LockFirst(t) \/ LockSecond(t) \/ UnlockSecond(t) \/ UnlockFirst(t)

Join ==
    /\ main = "join"
    /\ \A t \in Threads : tpc[t] = "ended"
    /\ main' = "joined"
    /\ UNCHANGED <<sem, tpc>>

Next == (\E t \in Threads : Thread(t)) \/ Join

\* Threads that can go on do.
Fairness == (\A t \in Threads : WF_vars(Thread(t))) /\ WF_vars(Join)

Spec == Init /\ [][Next]_vars /\ Fairness

-----------------------------------------------------------------------------
\* Each thread has locked its first resource and wants the other's.
CircularWait == \A t \in Threads : tpc[t] = "second"

\* The circular wait of lines 23-25, once reached, is for good, and nothing else
\* keeps the simulation from its end.
EndsOrDeadlocks == <>(main = "joined") \/ <>[]CircularWait
=============================================================================
