-------------------------------- MODULE Bank --------------------------------
(***************************************************************************)
(* The threaded banker of src/lab11/q2: one thread per process asks for    *)
(* random parts of its claim; bank_mutex guards the three tables; a grant  *)
(* must leave a state that isSafe accepts, else it is rolled back.         *)
(*                                                                         *)
(* isSafe runs with the mutex held but not atomically: the other threads   *)
(* go on with what they do outside the mutex.                              *)
(***************************************************************************)
EXTENDS Integers

CONSTANTS
    NUM_PROCESSES,
    NUM_RESOURCES,
    Total,    \* Total[j]: instances of resource j read into available
    Maximum,  \* Maximum[t][j]: the claim of thread t
    Rounds,   \* requests of one thread (3 in process_thread)
    NoThread  \* nobody holds bank_mutex

Threads == 0..(NUM_PROCESSES - 1)
Resources == 0..(NUM_RESOURCES - 1)
Vectors == [Resources -> Nat]

ASSUME SizesAssumption == NUM_PROCESSES \in Nat /\ NUM_RESOURCES \in Nat /\ Rounds \in Nat
ASSUME TotalAssumption == Total \in Vectors
ASSUME MaximumAssumption == Maximum \in [Threads -> Vectors]
ASSUME NoThreadAssumption == NoThread \notin Threads

VARIABLES
    available, allocation, need,
    bank_mutex,  \* the thread that holds it, or NoThread
    pc,          \* pc[t]: where thread t is
    request,     \* request[t]: what it asks for or holds
    round,       \* round[t]: i in process_thread
    work, finish, found,  \* isSafe's locals
    visit        \* p in isSafe

vars == <<available, allocation, need, bank_mutex, pc, request, round,
          work, finish, found, visit>>

safetyVars == <<work, finish, found, visit>>

Pcs == {"idle", "request", "safety", "holding", "done"}

Zero == [j \in Resources |-> 0]
Plus(v, w) == [j \in Resources |-> v[j] + w[j]]
Minus(v, w) == [j \in Resources |-> v[j] - w[j]]
AtMost(v, w) == \A j \in Resources : v[j] <= w[j]
UpTo(v) == {r \in [Resources -> UNION {0..v[j] : j \in Resources}] : AtMost(r, v)}

Init ==
    /\ available = Total
    /\ allocation = [t \in Threads |-> Zero]
    /\ need = Maximum
    /\ bank_mutex = NoThread
    /\ pc = [t \in Threads |-> "idle"]
    /\ request = [t \in Threads |-> Zero]
    /\ round = [t \in Threads |-> 0]
    /\ work = Zero
    /\ finish = [p \in Threads |-> FALSE]
    /\ found = FALSE
    /\ visit = 0

-----------------------------------------------------------------------------
\* A random request within the thread's own need, read without the mutex.
Pick(t) ==
    /\ pc[t] = "idle" /\ round[t] < Rounds
    /\ \E r \in UpTo(need[t]) : request' = [request EXCEPT ![t] = r]
    /\ pc' = [pc EXCEPT ![t] = "request"]
    /\ UNCHANGED <<available, allocation, need, bank_mutex, round, safetyVars>>

Finish(t) ==
    /\ pc[t] = "idle" /\ round[t] = Rounds
    /\ pc' = [pc EXCEPT ![t] = "done"]
    /\ UNCHANGED <<available, allocation, need, bank_mutex, request, round,
                   safetyVars>>

\* The next round of process_thread, with nothing held.
BackToIdle(t) ==
    /\ pc' = [pc EXCEPT ![t] = "idle"]
    /\ round' = [round EXCEPT ![t] = @ + 1]
    /\ request' = [request EXCEPT ![t] = Zero]

\* The check at the top of request_resources.
CanTry(t) == AtMost(request[t], need[t]) /\ AtMost(request[t], available)

\* An early return that forgets the mutex.
DenyStillLocked(t) ==                         \* faulty variant
    /\ pc[t] = "request"
    /\ bank_mutex = NoThread
    /\ ~CanTry(t)
    /\ BackToIdle(t)
    /\ bank_mutex' = t
    /\ UNCHANGED <<available, allocation, need, safetyVars>>

\* request_resources refuses at once: mutex taken and given back.
Deny(t) ==
    /\ pc[t] = "request"
    /\ bank_mutex = NoThread
    /\ ~CanTry(t)
    /\ BackToIdle(t)
    /\ UNCHANGED <<available, allocation, need, bank_mutex, safetyVars>>

\* request_resources allocates tentatively and calls isSafe.
Try(t) ==
    /\ pc[t] = "request"
    /\ bank_mutex = NoThread
    /\ CanTry(t)
    /\ bank_mutex' = t
    /\ available' = Minus(available, request[t])
    /\ allocation' = [allocation EXCEPT ![t] = Plus(@, request[t])]
    /\ need' = [need EXCEPT ![t] = Minus(@, request[t])]
    /\ pc' = [pc EXCEPT ![t] = "safety"]
    /\ work' = available'
    /\ finish' = [p \in Threads |-> FALSE]
    /\ found' = FALSE
    /\ visit' = 0
    /\ UNCHANGED <<request, round>>

\* One turn of isSafe's inner loop: process visit can finish with work ...
Possible(p) == ~finish[p] /\ AtMost(need[p], work)

VisitFinish(t) ==
    /\ pc[t] = "safety"
    /\ visit < NUM_PROCESSES
    /\ Possible(visit)
    /\ work' = Plus(work, allocation[visit])
    /\ finish' = [finish EXCEPT ![visit] = TRUE]
    /\ found' = TRUE
    /\ visit' = visit + 1
    /\ UNCHANGED <<available, allocation, need, bank_mutex, pc, request, round>>

\* ... or has finished, or cannot.
VisitSkip(t) ==
    /\ pc[t] = "safety"
    /\ visit < NUM_PROCESSES
    /\ ~Possible(visit)
    /\ visit' = visit + 1
    /\ UNCHANGED <<available, allocation, need, bank_mutex, pc, request, round,
                   work, finish, found>>

\* count = NUM_PROCESSES: isSafe returns true.
AllFinished == \A p \in Threads : finish[p]

\* The inner loop found somebody but not everybody: once more.
NextPass(t) ==
    /\ pc[t] = "safety"
    /\ visit = NUM_PROCESSES
    /\ ~AllFinished /\ found
    /\ visit' = 0
    /\ found' = FALSE
    /\ UNCHANGED <<available, allocation, need, bank_mutex, pc, request, round,
                   work, finish>>

\* What the verdict is taken from once a pass is over.
SafeVerdictFound == found                    \* faulty variant
SafeVerdict == AllFinished
UnsafeVerdictUnlucky == ~AllFinished         \* faulty variant
UnsafeVerdict == ~AllFinished /\ ~found

Grant(t) ==
    /\ pc[t] = "safety"
    /\ visit = NUM_PROCESSES
    /\ SafeVerdict
    /\ pc' = [pc EXCEPT ![t] = "holding"]
    /\ bank_mutex' = NoThread
    /\ UNCHANGED <<available, allocation, need, request, round, safetyVars>>

\* isSafe returned false: the three tables get back what they had.
NeedKept(t) == need                          \* faulty variant
NeedBack(t) == [need EXCEPT ![t] = Plus(@, request[t])]
AvailableKept(t) == available                \* faulty variant
AvailableBack(t) == Plus(available, request[t])

Rollback(t) ==
    /\ pc[t] = "safety"
    /\ visit = NUM_PROCESSES
    /\ UnsafeVerdict
    /\ available' = AvailableBack(t)
    /\ allocation' = [allocation EXCEPT ![t] = Minus(@, request[t])]
    /\ need' = NeedBack(t)
    /\ bank_mutex' = NoThread
    /\ BackToIdle(t)
    /\ UNCHANGED safetyVars

\* release_resources.
Release(t) ==
    /\ pc[t] = "holding"
    /\ bank_mutex = NoThread
    /\ allocation' = [allocation EXCEPT ![t] = Minus(@, request[t])]
    /\ available' = Plus(available, request[t])
    /\ need' = [need EXCEPT ![t] = Plus(@, request[t])]
    /\ BackToIdle(t)
    /\ UNCHANGED <<bank_mutex, safetyVars>>

Step(t) ==
    \/ Pick(t) \/ Finish(t)
    \/ Deny(t) \/ Try(t)
    \/ VisitFinish(t) \/ VisitSkip(t) \/ NextPass(t)
    \/ Grant(t) \/ Rollback(t)
    \/ Release(t)

\* main joins every thread and ends.
Joined ==
    /\ \A t \in Threads : pc[t] = "done"
    /\ UNCHANGED vars

Next == Joined \/ \E t \in Threads : Step(t)

Spec == Init /\ [][Next]_vars

\* Threads that are not blocked run.  Nothing is assumed of bank_mutex being
\* handed out fairly: every thread asks for it finitely often.
FairSpec == Spec /\ \A t \in Threads : WF_vars(Step(t))

-----------------------------------------------------------------------------
\* Nothing is ever negative, and one thread at most runs isSafe.
TypeOK ==
    /\ available \in Vectors
    /\ allocation \in [Threads -> Vectors]
    /\ need \in [Threads -> Vectors]
    /\ bank_mutex \in Threads \cup {NoThread}
    /\ pc \in [Threads -> Pcs]
    /\ request \in [Threads -> Vectors]
    /\ round \in [Threads -> 0..Rounds]
    /\ work \in Vectors
    /\ finish \in [Threads -> BOOLEAN]
    /\ found \in BOOLEAN
    /\ visit \in 0..NUM_PROCESSES
    /\ \A t \in Threads : pc[t] = "safety" <=> bank_mutex = t

\* A thread holds what it asked for and was granted (or is being tried), and
\* otherwise nothing: a denial and a rollback leave no trace, and claim and
\* need tell the same story.
Accounts ==
    \A t \in Threads :
        /\ allocation[t] = IF pc[t] \in {"safety", "holding"} THEN request[t] ELSE Zero
        /\ Plus(need[t], allocation[t]) = Maximum[t]

\* The sum of one amount for each thread.
TotalOf(amount) ==
    LET upTo[k \in 0..NUM_PROCESSES] == IF k = 0 THEN 0 ELSE upTo[k - 1] + amount[k - 1]
    IN  upTo[NUM_PROCESSES]

\* What the threads of S have of resource j.
Held(held, S, j) == TotalOf([t \in Threads |-> IF t \in S THEN held[t][j] ELSE 0])

\* No instance is lost or made by interleaved requests and releases.
Conservation ==
    \A j \in Resources : available[j] + Held(allocation, Threads, j) = Total[j]

\* Reference definition of safe tables: in every group of processes there is
\* one that can get its whole need from what the group does not hold.
SafeTables(free, held, wanted) ==
    \A S \in SUBSET Threads :
        S # {} =>
            \E p \in S : \A j \in Resources :
                wanted[p][j] <= free[j] + Held(held, Threads \ S, j)

Safe == SafeTables(available, allocation, need)

\* The banker's promise: whenever the mutex is free and somebody holds
\* something, the state is safe.  Releases are not checked by isSafe, and the
\* safety of a grant outlives the grants and releases of the others.
SafeWhenFree ==
    bank_mutex = NoThread /\ (\E t \in Threads : allocation[t] # Zero) => Safe

\* isSafe's loop answers what the reference definition says, for a tentative
\* state it may only partly have scanned: no safe request is rolled back.
VerdictRight ==
    [][\A t \in Threads : Rollback(t) => ~Safe]_vars

\* Nobody waits for ever: all threads end, for every outcome of the requests.
AllFinish == <>(\A t \in Threads : pc[t] = "done")
=============================================================================
