----------------------------- MODULE BankProofs -----------------------------
(***************************************************************************)
(* Theorems about the threaded banker (module Bank), for any number of     *)
(* threads, resources and rounds and any totals and claims.  First types   *)
(* and accounts; then the banker's promise: no instance is lost, whenever  *)
(* bank_mutex is free the state is safe, and no safe request is rolled     *)
(* back.  Last the banker at the terminal, who is right about all of these *)
(* tables (module BothBankers).                                            *)
(*                                                                         *)
(* The sums over threads are the values of a recursive function.  What is  *)
(* needed of it is proved from the least-number principle, which follows   *)
(* from finite sets being well-founded.                                    *)
(***************************************************************************)
EXTENDS BothBankers, TLAPS, FiniteSetTheorems

\* Arithmetic of vectors of amounts.
LEMMA PlusType ==
  ASSUME NEW v \in Vectors, NEW w \in Vectors
  PROVE  Plus(v, w) \in Vectors
BY DEF Plus, Vectors

LEMMA MinusType ==
  ASSUME NEW v \in Vectors, NEW w \in Vectors, AtMost(w, v)
  PROVE  Minus(v, w) \in Vectors
BY DEF Minus, Vectors, AtMost

LEMMA ZeroType == Zero \in Vectors
BY DEF Zero, Vectors

LEMMA MinusSelf ==
  ASSUME NEW v \in Vectors
  PROVE  Minus(v, v) = Zero /\ AtMost(v, v) /\ Plus(Zero, v) = v /\ Plus(v, Zero) = v
BY DEF Minus, Plus, Zero, Vectors, AtMost

\* Moving r from one side of a sum to the other.
LEMMA Move ==
  ASSUME NEW v \in Vectors, NEW r \in Vectors, AtMost(r, v)
  PROVE  Plus(Minus(v, r), r) = v
BY DEF Minus, Plus, Vectors, AtMost

-----------------------------------------------------------------------------
\* A thread that has started a round has not used them up.
RoundInv ==
    \A t \in Threads : pc[t] \in {"request", "safety", "holding"} => round[t] < Rounds

IInv == TypeOK /\ Accounts /\ RoundInv

\* What Accounts says of one thread.
Account(t) ==
    /\ allocation[t] = IF pc[t] \in {"safety", "holding"} THEN request[t] ELSE Zero
    /\ Plus(need[t], allocation[t]) = Maximum[t]

LEMMA InitIInv == Init => IInv
<1> SUFFICES ASSUME Init PROVE IInv
  OBVIOUS
<1> USE SizesAssumption, TotalAssumption, MaximumAssumption, NoThreadAssumption DEF Init
<1>1. TypeOK
  <2>1. 0 \in 0..Rounds /\ 0 \in 0..NUM_PROCESSES
    OBVIOUS
  <2> QED
    BY <2>1, ZeroType DEF TypeOK, Pcs
<1>2. ASSUME NEW t \in Threads PROVE Account(t)
  <2>1. Plus(Maximum[t], Zero) = Maximum[t]
    BY MinusSelf
  <2> QED
    BY <2>1 DEF Account
<1> QED
  BY <1>1, <1>2 DEF IInv, Accounts, Account, RoundInv

\* Steps of thread t that leave every table, and whether t holds, alone.
LEMMA TablesKept ==
  ASSUME IInv, NEW t \in Threads, NEW to \in Pcs,
         UNCHANGED <<available, allocation, need, round>>,
         pc' = [pc EXCEPT ![t] = to],
         pc[t] \in {"safety", "holding"} <=> to \in {"safety", "holding"},
         to \in {"request", "safety", "holding"} => round[t] < Rounds,
         request' \in [Threads -> Vectors],
         \A u \in Threads : u # t \/ to \in {"safety", "holding"} =>
             request'[u] = request[u],
         bank_mutex' \in Threads \cup {NoThread},
         \A u \in Threads : pc'[u] = "safety" <=> bank_mutex' = u,
         work' \in Vectors, finish' \in [Threads -> BOOLEAN],
         found' \in BOOLEAN, visit' \in 0..NUM_PROCESSES
  PROVE  IInv'
<1>1. TypeOK'
  BY DEF IInv, TypeOK
<1>2. \A u \in Threads : pc'[u] = IF u = t THEN to ELSE pc[u]
  BY DEF IInv, TypeOK
<1>3. ASSUME NEW u \in Threads PROVE Account(u)'
  <2>1. Account(u)
    BY DEF IInv, Accounts, Account
  <2>2. CASE u = t
    BY <1>2, <2>1, <2>2 DEF Account
  <2>3. CASE u # t
    BY <1>2, <2>1, <2>3 DEF Account
  <2> QED
    BY <2>2, <2>3
<1>4. RoundInv'
  BY <1>2 DEF IInv, RoundInv
<1> QED
  BY <1>1, <1>3, <1>4 DEF IInv, Accounts, Account

\* Giving back: thread t moves its request from its allocation to available
\* and need, and goes on with nothing held (Rollback and Release).
LEMMA GiveBack ==
  ASSUME IInv, NEW t \in Threads, pc[t] \in {"safety", "holding"},
         available' = Plus(available, request[t]),
         allocation' = [allocation EXCEPT ![t] = Minus(@, request[t])],
         need' = [need EXCEPT ![t] = Plus(@, request[t])],
         BackToIdle(t), bank_mutex' = NoThread, bank_mutex \in {t, NoThread},
         UNCHANGED safetyVars
  PROVE  IInv'
<1> USE NoThreadAssumption, SizesAssumption DEF BackToIdle, safetyVars
<1>1. /\ TypeOK /\ Account(t) /\ request[t] \in Vectors /\ need[t] \in Vectors
      /\ available \in Vectors
  BY DEF IInv, Accounts, Account, TypeOK
<1>2. allocation[t] = request[t] /\ Plus(need[t], request[t]) = Maximum[t]
  BY <1>1 DEF Account
<1>3. /\ Minus(allocation[t], request[t]) = Zero
      /\ Plus(need[t], request[t]) \in Vectors
      /\ available' \in Vectors /\ Zero \in Vectors
      /\ Plus(Plus(need[t], request[t]), Zero) = Plus(need[t], request[t])
  <2>1. Plus(need[t], request[t]) \in Vectors
    BY <1>1, PlusType
  <2> QED
    BY <1>1, <1>2, <2>1, PlusType, ZeroType, MinusSelf
<1>4. /\ allocation' = [allocation EXCEPT ![t] = Zero]
      /\ need' = [need EXCEPT ![t] = Maximum[t]]
      /\ Maximum[t] \in Vectors /\ Plus(Maximum[t], Zero) = Maximum[t]
  BY <1>1, <1>2, <1>3 DEF TypeOK
<1>5. TypeOK'
  <2>1. allocation' \in [Threads -> Vectors] /\ need' \in [Threads -> Vectors]
        /\ request' \in [Threads -> Vectors]
    BY <1>1, <1>3, <1>4 DEF TypeOK
  <2>2. pc' \in [Threads -> Pcs]
    BY <1>1 DEF TypeOK, Pcs
  <2>3. round' \in [Threads -> 0..Rounds]
    <3>1. round[t] < Rounds /\ round \in [Threads -> 0..Rounds]
      BY DEF IInv, RoundInv, TypeOK
    <3>2. round[t] + 1 \in 0..Rounds
      BY <3>1
    <3> QED
      BY <3>1, <3>2
  <2>4. \A u \in Threads : pc'[u] = "safety" <=> bank_mutex' = u
    BY <1>1 DEF TypeOK
  <2> QED
    BY <1>1, <1>3, <2>1, <2>2, <2>3, <2>4 DEF TypeOK
<1>6. ASSUME NEW u \in Threads PROVE Account(u)'
  <2>1. Account(u)
    BY DEF IInv, Accounts, Account
  <2>2. CASE u = t
    <3>1. allocation'[u] = Zero /\ need'[u] = Maximum[u] /\ pc'[u] = "idle"
      BY <1>1, <1>4, <2>2 DEF TypeOK
    <3> QED
      BY <1>4, <2>2, <3>1 DEF Account
  <2>3. CASE u # t
    <3>1. /\ allocation'[u] = allocation[u] /\ need'[u] = need[u]
          /\ pc'[u] = pc[u] /\ request'[u] = request[u]
      BY <1>1, <1>4, <2>3 DEF TypeOK
    <3> QED
      BY <2>1, <3>1 DEF Account
  <2> QED
    BY <2>2, <2>3
<1>7. RoundInv'
  BY <1>1 DEF IInv, RoundInv, TypeOK
<1> QED
  BY <1>5, <1>6, <1>7 DEF IInv, Accounts, Account

\* Trying: thread t moves its request from available and need to its
\* allocation.
LEMMA TryKeeps ==
  ASSUME IInv, NEW t \in Threads, Try(t)
  PROVE  IInv'
<1> USE NoThreadAssumption, SizesAssumption DEF Try
<1>1. /\ TypeOK /\ Account(t) /\ request[t] \in Vectors /\ need[t] \in Vectors
      /\ available \in Vectors /\ pc[t] = "request" /\ round[t] < Rounds
  BY DEF IInv, Accounts, Account, TypeOK, RoundInv
<1>2. /\ allocation[t] = Zero /\ Plus(need[t], Zero) = Maximum[t]
      /\ need[t] = Maximum[t]
      /\ AtMost(request[t], need[t]) /\ AtMost(request[t], available)
  BY <1>1, MinusSelf DEF Account, CanTry
<1>3. /\ available' = Minus(available, request[t])
      /\ available' \in Vectors
      /\ Plus(Zero, request[t]) = request[t]
      /\ Minus(need[t], request[t]) \in Vectors
      /\ Plus(Minus(need[t], request[t]), request[t]) = Maximum[t]
  BY <1>1, <1>2, MinusType, MinusSelf, Move
<1>4. /\ allocation' = [allocation EXCEPT ![t] = request[t]]
      /\ need' = [need EXCEPT ![t] = Minus(need[t], request[t])]
      /\ pc' = [pc EXCEPT ![t] = "safety"]
      /\ bank_mutex' = t /\ bank_mutex = NoThread
      /\ UNCHANGED <<request, round>>
  BY <1>1, <1>2, <1>3 DEF TypeOK
<1>5. TypeOK'
  <2>1. allocation' \in [Threads -> Vectors] /\ need' \in [Threads -> Vectors]
    BY <1>1, <1>3, <1>4 DEF TypeOK
  <2>2. pc' \in [Threads -> Pcs]
    BY <1>1, <1>4 DEF TypeOK, Pcs
  <2>3. \A u \in Threads : pc'[u] = "safety" <=> bank_mutex' = u
    BY <1>1, <1>4 DEF TypeOK
  <2>4. work' \in Vectors /\ finish' \in [Threads -> BOOLEAN]
        /\ found' \in BOOLEAN /\ visit' \in 0..NUM_PROCESSES
    <3>1. work' \in Vectors
      BY <1>3
    <3>2. finish' \in [Threads -> BOOLEAN]
      OBVIOUS
    <3>3. found' \in BOOLEAN
      OBVIOUS
    <3>4. visit' = 0 /\ 0 \in 0..NUM_PROCESSES
      OBVIOUS
    <3> QED
      BY <3>1, <3>2, <3>3, <3>4
  <2> QED
    BY <1>1, <1>3, <1>4, <2>1, <2>2, <2>3, <2>4 DEF TypeOK
<1>6. ASSUME NEW u \in Threads PROVE Account(u)'
  <2>1. Account(u)
    BY DEF IInv, Accounts, Account
  <2>2. CASE u = t
    <3>1. /\ allocation'[u] = request[u] /\ need'[u] = Minus(need[t], request[t])
          /\ pc'[u] = "safety" /\ request'[u] = request[u]
      BY <1>1, <1>4, <2>2 DEF TypeOK
    <3> QED
      BY <1>3, <2>2, <3>1 DEF Account
  <2>3. CASE u # t
    <3>1. /\ allocation'[u] = allocation[u] /\ need'[u] = need[u]
          /\ pc'[u] = pc[u] /\ request'[u] = request[u]
      BY <1>1, <1>4, <2>3 DEF TypeOK
    <3> QED
      BY <2>1, <3>1 DEF Account
  <2> QED
    BY <2>2, <2>3
<1>7. RoundInv'
  BY <1>1, <1>4 DEF IInv, RoundInv, TypeOK
<1> QED
  BY <1>5, <1>6, <1>7 DEF IInv, Accounts, Account

\* Denial: nothing was held and nothing is.
LEMMA DenyKeeps ==
  ASSUME IInv, NEW t \in Threads, Deny(t)
  PROVE  IInv'
<1> USE NoThreadAssumption, SizesAssumption DEF Deny, BackToIdle, safetyVars
<1>1. /\ TypeOK /\ pc[t] = "request" /\ round[t] < Rounds
  BY DEF IInv, TypeOK, RoundInv
<1>2. TypeOK'
  <2>1. round[t] + 1 \in 0..Rounds
    BY <1>1 DEF TypeOK
  <2>2. /\ round' \in [Threads -> 0..Rounds]
        /\ pc' \in [Threads -> Pcs]
        /\ request' \in [Threads -> Vectors]
    BY <1>1, <2>1, ZeroType DEF TypeOK, Pcs
  <2>3. \A u \in Threads : pc'[u] = "safety" <=> bank_mutex' = u
    BY <1>1 DEF TypeOK
  <2> QED
    BY <1>1, <2>2, <2>3 DEF TypeOK
<1>3. ASSUME NEW u \in Threads PROVE Account(u)'
  <2>1. Account(u)
    BY DEF IInv, Accounts, Account
  <2>2. CASE u = t
    BY <1>1, <2>1, <2>2 DEF Account, TypeOK
  <2>3. CASE u # t
    BY <1>1, <2>1, <2>3 DEF Account, TypeOK
  <2> QED
    BY <2>2, <2>3
<1>4. RoundInv'
  BY <1>1 DEF IInv, RoundInv, TypeOK
<1> QED
  BY <1>2, <1>3, <1>4 DEF IInv, Accounts, Account

LEMMA StepKeeps ==
  ASSUME IInv, NEW t \in Threads, Step(t)
  PROVE  IInv'
<1> USE NoThreadAssumption, SizesAssumption
<1>0. TypeOK /\ RoundInv
  BY DEF IInv
<1>1. CASE Pick(t)
  <2>1. PICK r \in UpTo(need[t]) : request' = [request EXCEPT ![t] = r]
    BY <1>1 DEF Pick
  <2>2. r \in Vectors
    <3>1. r \in [Resources -> UNION {0..need[t][j] : j \in Resources}]
      BY DEF UpTo
    <3>2. \A j \in Resources : need[t][j] \in Nat
      BY <1>0 DEF TypeOK, Vectors
    <3> QED
      BY <3>1, <3>2 DEF Vectors
  <2>3. /\ pc[t] = "idle" /\ round[t] < Rounds
        /\ pc' = [pc EXCEPT ![t] = "request"]
        /\ UNCHANGED <<available, allocation, need, bank_mutex, round, safetyVars>>
    BY <1>1 DEF Pick
  <2>4. /\ request' \in [Threads -> Vectors]
        /\ \A u \in Threads : u # t => request'[u] = request[u]
    BY <1>0, <2>1, <2>2 DEF TypeOK
  <2>5. \A u \in Threads : pc'[u] = "safety" <=> bank_mutex' = u
    BY <1>0, <2>3 DEF TypeOK
  <2> QED
    BY <1>0, <2>3, <2>4, <2>5, TablesKept DEF TypeOK, Pcs, safetyVars
<1>2. CASE Finish(t)
  <2>1. /\ pc[t] = "idle"
        /\ pc' = [pc EXCEPT ![t] = "done"]
        /\ UNCHANGED <<available, allocation, need, bank_mutex, request, round, safetyVars>>
    BY <1>2 DEF Finish
  <2>2. \A u \in Threads : pc'[u] = "safety" <=> bank_mutex' = u
    BY <1>0, <2>1 DEF TypeOK
  <2> QED
    BY <1>0, <2>1, <2>2, TablesKept DEF TypeOK, Pcs, safetyVars
<1>3. CASE Deny(t)
  BY <1>3, DenyKeeps
<1>4. CASE Try(t)
  BY <1>4, TryKeeps
<1>5. CASE VisitFinish(t) \/ VisitSkip(t) \/ NextPass(t)
  <2>1. /\ pc[t] = "safety" /\ pc' = pc
        /\ UNCHANGED <<available, allocation, need, bank_mutex, request, round>>
    BY <1>5 DEF VisitFinish, VisitSkip, NextPass
  <2>2. /\ work' \in Vectors /\ finish' \in [Threads -> BOOLEAN]
        /\ found' \in BOOLEAN /\ visit' \in 0..NUM_PROCESSES
    <3>1. CASE VisitFinish(t)
      <4>1. visit \in Threads /\ visit + 1 \in 0..NUM_PROCESSES
        BY <1>0, <3>1 DEF VisitFinish, TypeOK, Threads
      <4>2. Plus(work, allocation[visit]) \in Vectors
        BY <1>0, <4>1, PlusType DEF TypeOK
      <4> QED
        BY <1>0, <3>1, <4>1, <4>2 DEF VisitFinish, TypeOK
    <3>2. CASE VisitSkip(t)
      BY <1>0, <3>2 DEF VisitSkip, TypeOK
    <3>3. CASE NextPass(t)
      <4>1. visit' = 0 /\ 0 \in 0..NUM_PROCESSES
        BY <3>3 DEF NextPass
      <4>2. found' \in BOOLEAN /\ UNCHANGED <<work, finish>>
        BY <3>3 DEF NextPass
      <4> QED
        BY <1>0, <4>1, <4>2 DEF TypeOK
    <3> QED
      BY <1>5, <3>1, <3>2, <3>3
  <2>3. pc' = [pc EXCEPT ![t] = "safety"] /\ "safety" \in Pcs
    BY <1>0, <2>1 DEF TypeOK, Pcs
  <2>4. \A u \in Threads : pc'[u] = "safety" <=> bank_mutex' = u
    BY <1>0, <2>1 DEF TypeOK
  <2>5. round[t] < Rounds
    BY <1>0, <2>1 DEF RoundInv
  <2> QED
    BY <1>0, <2>1, <2>2, <2>3, <2>4, <2>5, TablesKept DEF TypeOK
<1>6. CASE Grant(t)
  <2>1. /\ pc[t] = "safety" /\ pc' = [pc EXCEPT ![t] = "holding"]
        /\ bank_mutex' = NoThread
        /\ UNCHANGED <<available, allocation, need, request, round, safetyVars>>
    BY <1>6 DEF Grant
  <2>2. \A u \in Threads : pc'[u] = "safety" <=> bank_mutex' = u
    BY <1>0, <2>1 DEF TypeOK
  <2>3. round[t] < Rounds
    BY <1>0, <2>1 DEF RoundInv
  <2> QED
    BY <1>0, <2>1, <2>2, <2>3, TablesKept DEF TypeOK, Pcs, safetyVars
<1>7. CASE Rollback(t)
  <2>1. bank_mutex = t
    BY <1>0, <1>7 DEF Rollback, TypeOK
  <2> QED
    BY <1>7, <2>1, GiveBack DEF Rollback, AvailableBack, NeedBack
<1>8. CASE Release(t)
  BY <1>8, GiveBack DEF Release
<1> QED
  BY <1>1, <1>2, <1>3, <1>4, <1>5, <1>6, <1>7, <1>8 DEF Step

LEMMA Inductive == Spec => []IInv
<1>1. IInv /\ [Next]_vars => IInv'
  <2> SUFFICES ASSUME IInv, [Next]_vars PROVE IInv'
    OBVIOUS
  <2>1. CASE \E t \in Threads : Step(t)
    BY <2>1, StepKeeps
  <2>2. CASE UNCHANGED vars
    BY <2>2 DEF vars, safetyVars, IInv, TypeOK, Accounts, RoundInv
  <2> QED
    BY <2>1, <2>2 DEF Next, Joined
<1> QED
  BY <1>1, InitIInv, PTL DEF Spec

\* No table entry and no work vector ever becomes negative, and isSafe runs
\* in one thread at a time.
THEOREM TypeCorrect == Spec => []TypeOK
BY Inductive, PTL DEF IInv

\* A thread holds exactly what it was granted, and claim = need + allocation,
\* through tentative grants, rollbacks and releases.
THEOREM AccountsRight == Spec => []Accounts
BY Inductive, PTL DEF IInv

-----------------------------------------------------------------------------
\* A set of natural numbers that is not empty has a least element.
LEMMA LeastNumber ==
  ASSUME NEW B, B \subseteq Nat, B # {}
  PROVE  \E m \in B : \A k \in B : m <= k
<1> DEFINE T == {0..n : n \in B}
<1>1. T \subseteq FiniteSubsetsOf(Nat) /\ T # {}
  <2>1. \A n \in B : IsFiniteSet(0..n) /\ 0..n \subseteq Nat
    BY FS_Interval
  <2> QED
    BY <2>1 DEF FiniteSubsetsOf
<1>2. \E x \in T : \A y \in T : ~ (<<y, x>> \in StrictSubsetOrdering(Nat))
  <2> HIDE DEF T
  <2> QED
    BY <1>1, FS_StrictSubsetOrderingWellFounded, WFMin
<1>3. PICK m \in B : \A y \in T : ~ (<<y, 0..m>> \in StrictSubsetOrdering(Nat))
  BY <1>2
<1>4. ASSUME NEW k \in B, k < m PROVE FALSE
  <2>1. ~ (<<0..k, 0..m>> \in StrictSubsetOrdering(Nat))
    BY <1>3
  <2>2. m \in Nat /\ k \in Nat
    OBVIOUS
  <2>3. 0..k \subseteq 0..m /\ 0..k \in SUBSET Nat /\ 0..m \in SUBSET Nat
    BY <1>4, <2>2
  <2>4. m \in 0..m /\ m \notin 0..k
    BY <1>4, <2>2
  <2> QED
    BY <2>1, <2>3, <2>4 DEF StrictSubsetOrdering
<1> QED
  BY <1>4

\* The running totals of amounts a, up to n.
Ledger(s, a, n) == s[0] = 0 /\ \A k \in 0 .. n - 1 : s[k + 1] = s[k] + a[k]

Amounts == [Threads -> Int]

LEMMA LedgerExists ==
  ASSUME NEW a \in Amounts
  PROVE  \E s \in [0..NUM_PROCESSES -> Int] : Ledger(s, a, NUM_PROCESSES)
<1> USE SizesAssumption
<1> DEFINE Good(n) == \E s \in [0..n -> Int] : Ledger(s, a, n)
           B == {n \in 0..NUM_PROCESSES : ~Good(n)}
<1>1. SUFFICES ASSUME B # {} PROVE FALSE
  <2>1. NUM_PROCESSES \in 0..NUM_PROCESSES
    OBVIOUS
  <2> QED
    BY <2>1
<1>2. PICK m \in B : \A k \in B : m <= k
  <2>1. B \subseteq Nat
    OBVIOUS
  <2> HIDE DEF B
  <2> QED
    BY <1>1, <2>1, LeastNumber
<1>3. m \in 0..NUM_PROCESSES /\ ~Good(m)
  OBVIOUS
<1>4. CASE m = 0
  <2> DEFINE s == [k \in 0..m |-> 0]
  <2>1. s \in [0..m -> Int] /\ Ledger(s, a, m)
    BY <1>4 DEF Ledger
  <2> QED
    BY <1>3, <2>1
<1>5. CASE m # 0
  <2>1. m - 1 \in 0..NUM_PROCESSES /\ m - 1 \in Threads /\ m - 1 < m
    BY <1>3, <1>5 DEF Threads
  <2>2. Good(m - 1)
    BY <1>2, <2>1
  <2>3. PICK s \in [0 .. m - 1 -> Int] : Ledger(s, a, m - 1)
    BY <2>2
  <2> DEFINE u == [k \in 0..m |-> IF k < m THEN s[k] ELSE s[m - 1] + a[m - 1]]
  <2>4. a[m - 1] \in Int /\ s[m - 1] \in Int
    BY <2>1, <2>3 DEF Amounts
  <2>5. u \in [0..m -> Int]
    BY <1>3, <2>3, <2>4
  <2>6. Ledger(u, a, m)
    <3>1. u[0] = 0
      BY <1>3, <1>5, <2>3 DEF Ledger
    <3>2. ASSUME NEW k \in 0 .. m - 1 PROVE u[k + 1] = u[k] + a[k]
      <4>1. CASE k < m - 1
        BY <1>3, <2>3, <4>1 DEF Ledger
      <4>2. CASE k = m - 1
        BY <1>3, <1>5, <4>2
      <4> QED
        BY <1>3, <3>2, <4>1, <4>2
    <3> QED
      BY <3>1, <3>2 DEF Ledger
  <2> QED
    BY <1>3, <2>5, <2>6
<1> QED
  BY <1>4, <1>5

\* Two ledgers of the same amounts agree.
LEMMA LedgerUnique ==
  ASSUME NEW a, NEW s, NEW u,
         Ledger(s, a, NUM_PROCESSES), Ledger(u, a, NUM_PROCESSES)
  PROVE  \A n \in 0..NUM_PROCESSES : s[n] = u[n]
<1> USE SizesAssumption
<1> DEFINE B == {n \in 0..NUM_PROCESSES : s[n] # u[n]}
<1>1. SUFFICES ASSUME B # {} PROVE FALSE
  OBVIOUS
<1>2. PICK m \in B : \A k \in B : m <= k
  <2>1. B \subseteq Nat
    OBVIOUS
  <2> HIDE DEF B
  <2> QED
    BY <1>1, <2>1, LeastNumber
<1>3. m \in 0..NUM_PROCESSES /\ s[m] # u[m]
  OBVIOUS
<1>4. m # 0
  BY <1>3 DEF Ledger
<1>5. m - 1 \in 0 .. NUM_PROCESSES - 1 /\ m - 1 \in 0..NUM_PROCESSES /\ m - 1 < m /\ (m - 1) + 1 = m
  BY <1>3, <1>4
<1>6. s[m - 1] = u[m - 1]
  BY <1>2, <1>5
<1>7. s[m] = s[m - 1] + a[m - 1] /\ u[m] = u[m - 1] + a[m - 1]
  BY <1>5 DEF Ledger
<1> QED
  BY <1>3, <1>6, <1>7

\* The sum is what any ledger ends with.
LEMMA TotalIs ==
  ASSUME NEW a, NEW s \in [0..NUM_PROCESSES -> Int], Ledger(s, a, NUM_PROCESSES)
  PROVE  TotalOf(a) = s[NUM_PROCESSES]
<1> USE SizesAssumption
<1> DEFINE F(f) == [k \in 0..NUM_PROCESSES |-> IF k = 0 THEN 0 ELSE f[k - 1] + a[k - 1]]
           upTo == CHOOSE f : f = F(f)
<1>1. s = F(s)
  <2>1. \A k \in 0..NUM_PROCESSES : s[k] = IF k = 0 THEN 0 ELSE s[k - 1] + a[k - 1]
    BY DEF Ledger
  <2> QED
    BY <2>1
<1>2. upTo = F(upTo)
  <2> HIDE DEF F
  <2> QED
    BY <1>1
<1>3. Ledger(upTo, a, NUM_PROCESSES)
  <2> HIDE DEF upTo
  <2>1. \A k \in 0..NUM_PROCESSES : upTo[k] = IF k = 0 THEN 0 ELSE upTo[k - 1] + a[k - 1]
    BY <1>2
  <2>2. \A k \in 0 .. NUM_PROCESSES - 1 : upTo[k + 1] = upTo[k] + a[k]
    BY <2>1
  <2> QED
    BY <2>1, <2>2 DEF Ledger
<1>4. TotalOf(a) = upTo[NUM_PROCESSES]
  BY DEF TotalOf
<1> QED
  <2> HIDE DEF upTo
  <2> QED
    BY <1>3, <1>4, LedgerUnique

LEMMA TotalType ==
  ASSUME NEW a \in Amounts
  PROVE  TotalOf(a) \in Int
<1>1. PICK s \in [0..NUM_PROCESSES -> Int] : Ledger(s, a, NUM_PROCESSES)
  BY LedgerExists
<1>2. NUM_PROCESSES \in 0..NUM_PROCESSES
  BY SizesAssumption
<1> QED
  BY <1>1, <1>2, TotalIs

LEMMA Exchange ==
  ASSUME NEW p \in Int, NEW q \in Int, NEW x \in Int, NEW y \in Int
  PROVE  (p + q) + (x + y) = (p + x) + (q + y)
OBVIOUS

\* Sums of sums.
LEMMA TotalPlus ==
  ASSUME NEW a \in Amounts, NEW b \in Amounts
  PROVE  TotalOf([t \in Threads |-> a[t] + b[t]]) = TotalOf(a) + TotalOf(b)
<1> USE SizesAssumption
<1> DEFINE c == [t \in Threads |-> a[t] + b[t]]
<1>1. PICK s \in [0..NUM_PROCESSES -> Int] : Ledger(s, a, NUM_PROCESSES)
  BY LedgerExists
<1>2. PICK u \in [0..NUM_PROCESSES -> Int] : Ledger(u, b, NUM_PROCESSES)
  BY LedgerExists
<1> DEFINE v == [k \in 0..NUM_PROCESSES |-> s[k] + u[k]]
<1>3. v \in [0..NUM_PROCESSES -> Int]
  OBVIOUS
<1>4. Ledger(v, c, NUM_PROCESSES)
  <2>1. v[0] = 0
    BY <1>1, <1>2 DEF Ledger
  <2>2. ASSUME NEW k \in 0 .. NUM_PROCESSES - 1 PROVE v[k + 1] = v[k] + c[k]
    <3>1. /\ k \in Threads /\ k \in 0..NUM_PROCESSES /\ k + 1 \in 0..NUM_PROCESSES
          /\ a[k] \in Int /\ b[k] \in Int
      BY DEF Threads, Amounts
    <3>2. s[k + 1] = s[k] + a[k] /\ u[k + 1] = u[k] + b[k] /\ s[k] \in Int /\ u[k] \in Int
      BY <1>1, <1>2, <3>1 DEF Ledger
    <3>3. /\ v[k + 1] = s[k + 1] + u[k + 1] /\ v[k] = s[k] + u[k]
          /\ c[k] = a[k] + b[k]
      BY <3>1
    <3>4. s[k + 1] + u[k + 1] = (s[k] + u[k]) + (a[k] + b[k])
      <4>1. (s[k] + a[k]) + (u[k] + b[k]) = (s[k] + u[k]) + (a[k] + b[k])
        BY <3>1, <3>2, Exchange DEF Amounts
      <4> QED
        BY <3>2, <4>1
    <3> HIDE DEF v, c
    <3> QED
      BY <3>3, <3>4
  <2> QED
    BY <2>1, <2>2 DEF Ledger
<1>5. TotalOf(c) = v[NUM_PROCESSES]
  <2> HIDE DEF v, c
  <2> QED
    BY <1>3, <1>4, TotalIs
<1>6. TotalOf(a) = s[NUM_PROCESSES] /\ TotalOf(b) = u[NUM_PROCESSES]
  BY <1>1, <1>2, TotalIs
<1> QED
  BY <1>5, <1>6

\* The sum of one amount.
LEMMA TotalOne ==
  ASSUME NEW t \in Threads, NEW x \in Int
  PROVE  TotalOf([u \in Threads |-> IF u = t THEN x ELSE 0]) = x
<1> USE SizesAssumption DEF Threads
<1> DEFINE a == [u \in Threads |-> IF u = t THEN x ELSE 0]
           s == [k \in 0..NUM_PROCESSES |-> IF k > t THEN x ELSE 0]
<1>1. s \in [0..NUM_PROCESSES -> Int]
  OBVIOUS
<1>2. Ledger(s, a, NUM_PROCESSES)
  <2>1. s[0] = 0
    OBVIOUS
  <2>2. ASSUME NEW k \in 0 .. NUM_PROCESSES - 1 PROVE s[k + 1] = s[k] + a[k]
    OBVIOUS
  <2> QED
    BY <2>1, <2>2 DEF Ledger
<1>3. TotalOf(a) = s[NUM_PROCESSES]
  <2> HIDE DEF s, a
  <2> QED
    BY <1>1, <1>2, TotalIs
<1> QED
  BY <1>3

LEMMA TotalZero == TotalOf([t \in Threads |-> 0]) = 0
<1> USE SizesAssumption
<1> DEFINE a == [t \in Threads |-> 0]
           s == [k \in 0..NUM_PROCESSES |-> 0]
<1>1. s \in [0..NUM_PROCESSES -> Int] /\ Ledger(s, a, NUM_PROCESSES)
  BY DEF Ledger, Threads
<1>2. TotalOf(a) = s[NUM_PROCESSES]
  <2> HIDE DEF s, a
  <2> QED
    BY <1>1, TotalIs
<1> QED
  BY <1>2

\* A sum of amounts that are not negative is not negative.
LEMMA TotalNat ==
  ASSUME NEW a \in [Threads -> Nat]
  PROVE  TotalOf(a) \in Nat
<1> USE SizesAssumption
<1>1. a \in Amounts
  BY DEF Amounts
<1>2. PICK s \in [0..NUM_PROCESSES -> Int] : Ledger(s, a, NUM_PROCESSES)
  BY <1>1, LedgerExists
<1> DEFINE B == {n \in 0..NUM_PROCESSES : s[n] < 0}
<1>3. ASSUME B # {} PROVE FALSE
  <2>1. PICK m \in B : \A k \in B : m <= k
    <3>1. B \subseteq Nat
      OBVIOUS
    <3> HIDE DEF B
    <3> QED
      BY <1>3, <3>1, LeastNumber
  <2>2. m \in 0..NUM_PROCESSES /\ s[m] < 0 /\ m # 0
    BY <1>2 DEF Ledger
  <2>3. /\ m - 1 \in 0 .. NUM_PROCESSES - 1 /\ m - 1 \in 0..NUM_PROCESSES /\ m - 1 < m
        /\ (m - 1) + 1 = m /\ m - 1 \in Threads
    BY <2>2 DEF Threads
  <2>4. s[m] = s[m - 1] + a[m - 1] /\ a[m - 1] \in Nat /\ s[m - 1] \in Int
    BY <1>2, <2>3 DEF Ledger
  <2>5. ~ (s[m - 1] < 0)
    BY <2>1, <2>3
  <2> QED
    BY <2>2, <2>4, <2>5, SMTT(60)
<1>4. NUM_PROCESSES \in 0..NUM_PROCESSES
  OBVIOUS
<1>5. s[NUM_PROCESSES] \in Int /\ ~ (s[NUM_PROCESSES] < 0)
  BY <1>2, <1>3, <1>4
<1> QED
  BY <1>1, <1>2, <1>5, TotalIs

-----------------------------------------------------------------------------
\* Tables of what the threads have.
Tables == [Threads -> Vectors]

\* The rows of the sums in Held.
Row(held, S, j) == [t \in Threads |-> IF t \in S THEN held[t][j] ELSE 0]

LEMMA RowType ==
  ASSUME NEW held \in Tables, NEW S, NEW j \in Resources
  PROVE  Row(held, S, j) \in [Threads -> Nat] /\ Row(held, S, j) \in Amounts
BY DEF Row, Tables, Vectors, Amounts

LEMMA HeldNat ==
  ASSUME NEW held \in Tables, NEW S, NEW j \in Resources
  PROVE  Held(held, S, j) \in Nat
BY RowType, TotalNat DEF Held, Row

LEMMA HeldByNobody ==
  ASSUME NEW held, NEW j
  PROVE  Held(held, {}, j) = 0
<1>1. [t \in Threads |-> IF t \in {} THEN held[t][j] ELSE 0] = [t \in Threads |-> 0]
  OBVIOUS
<1> QED
  BY <1>1, TotalZero DEF Held

\* Two groups that have nobody in common hold the sum of what they hold.
LEMMA HeldTogether ==
  ASSUME NEW held \in Tables, NEW S, NEW T, NEW j \in Resources, S \cap T = {}
  PROVE  Held(held, S \cup T, j) = Held(held, S, j) + Held(held, T, j)
<1> DEFINE a == Row(held, S, j)
           b == Row(held, T, j)
           c == [t \in Threads |-> a[t] + b[t]]
<1>1. Row(held, S \cup T, j) = c
  <2>1. ASSUME NEW t \in Threads
        PROVE  Row(held, S \cup T, j)[t] = a[t] + b[t]
    <3>1. held[t][j] \in Nat
      BY DEF Tables, Vectors
    <3> QED
      BY <3>1 DEF Row
  <2> QED
    BY <2>1 DEF Row
<1>2. a \in Amounts /\ b \in Amounts
  BY RowType
<1>3. TotalOf(c) = TotalOf(a) + TotalOf(b)
  <2> HIDE DEF a, b
  <2> QED
    BY <1>2, TotalPlus
<1>4. /\ Held(held, S \cup T, j) = TotalOf(Row(held, S \cup T, j))
      /\ Held(held, S, j) = TotalOf(a) /\ Held(held, T, j) = TotalOf(b)
  BY DEF Held, Row
<1> QED
  <2> HIDE DEF a, b, c
  <2> QED
    BY <1>1, <1>3, <1>4

\* A larger group holds no less.
LEMMA HeldMore ==
  ASSUME NEW held \in Tables, NEW S, NEW T, NEW j \in Resources, S \subseteq T
  PROVE  Held(held, S, j) <= Held(held, T, j)
<1>1. S \cup (T \ S) = T /\ S \cap (T \ S) = {}
  OBVIOUS
<1>2. Held(held, S \cup (T \ S), j) = Held(held, S, j) + Held(held, T \ S, j)
  BY <1>1, HeldTogether
<1>3. Held(held, S, j) \in Nat /\ Held(held, T \ S, j) \in Nat
  BY HeldNat
<1>4. Held(held, T, j) = Held(held, S \cup (T \ S), j)
  BY <1>1
<1> QED
  BY <1>2, <1>3, <1>4

\* One thread of a group gets, or gives back, x; one that is not in it does not
\* matter.
LEMMA HeldChanged ==
  ASSUME NEW held \in Tables, NEW new \in Tables, NEW S, NEW t \in Threads, NEW j \in Resources,
         \A u \in Threads : u # t => new[u] = held[u]
  PROVE  /\ t \in S => Held(new, S, j) = Held(held, S, j) + (new[t][j] - held[t][j])
         /\ t \notin S => Held(new, S, j) = Held(held, S, j)
<1> DEFINE x == IF t \in S THEN new[t][j] - held[t][j] ELSE 0
           one == [u \in Threads |-> IF u = t THEN x ELSE 0]
<1>1. /\ new[t][j] \in Nat /\ held[t][j] \in Nat
      /\ x \in Int /\ one \in Amounts
  BY DEF Tables, Vectors, Amounts
<1>2. Row(new, S, j) = [u \in Threads |-> Row(held, S, j)[u] + one[u]]
  <2>1. ASSUME NEW u \in Threads
        PROVE  Row(new, S, j)[u] = Row(held, S, j)[u] + one[u]
    <3>1. held[u][j] \in Nat /\ new[u][j] \in Nat
      BY DEF Tables, Vectors
    <3> QED
      BY <1>1, <3>1 DEF Row
  <2> QED
    BY <2>1 DEF Row
<1>3. TotalOf(one) = x
  <2> HIDE DEF x
  <2> QED
    BY <1>1, TotalOne
<1>4. /\ Row(held, S, j) \in Amounts
      /\ Held(new, S, j) = TotalOf(Row(new, S, j)) /\ Held(held, S, j) = TotalOf(Row(held, S, j))
  BY RowType DEF Held, Row
<1> QED
  <2> HIDE DEF one, x
  <2>1. Held(new, S, j) = Held(held, S, j) + x
    BY <1>1, <1>2, <1>3, <1>4, TotalPlus
  <2>2. CASE t \in S
    BY <2>1, <2>2 DEF x
  <2>3. CASE t \notin S
    <3>1. Held(held, S, j) + 0 = Held(held, S, j)
      BY HeldNat
    <3> QED
      BY <2>1, <2>3, <3>1 DEF x
  <2> QED
    BY <2>2, <2>3

LEMMA HeldByOne ==
  ASSUME NEW held \in Tables, NEW t \in Threads, NEW j \in Resources
  PROVE  Held(held, {t}, j) = held[t][j]
<1>1. held[t][j] \in Int
  BY DEF Tables, Vectors
<1>2. Row(held, {t}, j) = [u \in Threads |-> IF u = t THEN held[t][j] ELSE 0]
  BY DEF Row
<1>3. TotalOf(Row(held, {t}, j)) = held[t][j]
  BY <1>1, <1>2, TotalOne
<1> QED
  BY <1>3 DEF Held, Row

-----------------------------------------------------------------------------
\* One of the group can get its whole need from what the group does not hold.
Escape(free, held, wanted, S) ==
    \E p \in S : \A j \in Resources : wanted[p][j] <= free[j] + Held(held, Threads \ S, j)

\* The arithmetic of giving x back.
LEMMA Given ==
  ASSUME NEW f \in Nat, NEW x \in Nat, NEW h \in Int
  PROVE  /\ (f + x) + (h + (0 - x)) = f + h
         /\ (f + x) + (h + 0) = (f + h) + x
         /\ f + (h + x) = (f + h) + x
         /\ \A w \in Nat : w <= f + h => w + x <= (f + h) + x
OBVIOUS

\* A thread that gives everything back leaves safe tables safe.
LEMMA GivenBackSafe ==
  ASSUME NEW free \in Vectors, NEW held \in Tables, NEW wanted \in Tables, NEW t \in Threads,
         SafeTables(free, held, wanted)
  PROVE  SafeTables(Plus(free, held[t]), [held EXCEPT ![t] = Zero],
                    [wanted EXCEPT ![t] = Plus(wanted[t], held[t])])
<1> DEFINE free2 == Plus(free, held[t])
           held2 == [held EXCEPT ![t] = Zero]
           wanted2 == [wanted EXCEPT ![t] = Plus(wanted[t], held[t])]
<1>1. /\ held2 \in Tables /\ \A u \in Threads : u # t => held2[u] = held[u]
      /\ \A u \in Threads : u # t => wanted2[u] = wanted[u]
      /\ held2[t] = Zero /\ wanted2[t] = Plus(wanted[t], held[t])
  BY ZeroType DEF Tables
<1>2. ASSUME NEW S \in SUBSET Threads, S # {}
      PROVE  Escape(free2, held2, wanted2, S)
  <2>1. \A G \in SUBSET Threads : G # {} => Escape(free, held, wanted, G)
    BY DEF SafeTables, Escape
  <2>2. ASSUME NEW j \in Resources
        PROVE  /\ free[j] \in Nat /\ held[t][j] \in Nat /\ wanted[t][j] \in Nat
               /\ Held(held, Threads \ S, j) \in Int
               /\ wanted2[t][j] = wanted[t][j] + held[t][j]
               /\ t \notin S => free2[j] + Held(held2, Threads \ S, j)
                                  = free[j] + Held(held, Threads \ S, j)
               /\ t \in S => free2[j] + Held(held2, Threads \ S, j)
                               = (free[j] + Held(held, Threads \ S, j)) + held[t][j]
    <3>1. /\ free[j] \in Nat /\ held[t][j] \in Nat /\ wanted[t][j] \in Nat
          /\ free2[j] = free[j] + held[t][j]
          /\ wanted2[t][j] = wanted[t][j] + held[t][j]
          /\ held2[t][j] = 0
      BY <1>1 DEF Tables, Vectors, Plus, Zero
    <3>2. Held(held, Threads \ S, j) \in Int
      BY HeldNat
    <3>3. /\ t \notin S => Held(held2, Threads \ S, j)
                               = Held(held, Threads \ S, j) + (held2[t][j] - held[t][j])
          /\ t \in S => Held(held2, Threads \ S, j) = Held(held, Threads \ S, j)
      <4> HIDE DEF held2
      <4>1. \A G : /\ t \in G => Held(held2, G, j) = Held(held, G, j) + (held2[t][j] - held[t][j])
                   /\ t \notin G => Held(held2, G, j) = Held(held, G, j)
        BY <1>1, HeldChanged
      <4>2. t \in S <=> t \notin Threads \ S
        OBVIOUS
      <4> QED
        BY <4>1, <4>2
    <3> HIDE DEF held2, free2, wanted2
    <3>4. /\ (free[j] + held[t][j]) + (Held(held, Threads \ S, j) + (0 - held[t][j]))
               = free[j] + Held(held, Threads \ S, j)
          /\ (free[j] + held[t][j]) + (Held(held, Threads \ S, j) + 0)
               = (free[j] + Held(held, Threads \ S, j)) + held[t][j]
      BY <3>1, <3>2, Given
    <3>5. CASE t \in S
      BY <3>1, <3>2, <3>3, <3>4, <3>5
    <3>6. CASE t \notin S
      BY <3>1, <3>2, <3>3, <3>4, <3>6
    <3> QED
      BY <3>5, <3>6
  <2> HIDE DEF held2, free2, wanted2
  <2>3. CASE t \notin S
    <3>1. PICK p \in S : \A j \in Resources :
              wanted[p][j] <= free[j] + Held(held, Threads \ S, j)
      BY <1>2, <2>1 DEF Escape
    <3>2. p \in Threads /\ p # t /\ wanted2[p] = wanted[p]
      BY <1>1, <2>3
    <3>3. ASSUME NEW j \in Resources
          PROVE  wanted2[p][j] <= free2[j] + Held(held2, Threads \ S, j)
      BY <2>2, <2>3, <3>1, <3>2
    <3> QED
      BY <3>3 DEF Escape
  <2>4. CASE t \in S /\ S # {t}
    <3>1. S \ {t} \in SUBSET Threads /\ S \ {t} # {}
      BY <1>2, <2>4
    <3>2. PICK p \in S \ {t} : \A j \in Resources :
              wanted[p][j] <= free[j] + Held(held, Threads \ (S \ {t}), j)
      BY <2>1, <3>1 DEF Escape
    <3>3. p \in S /\ p \in Threads /\ p # t /\ wanted2[p] = wanted[p]
      BY <1>1
    <3>4. /\ Threads \ (S \ {t}) = (Threads \ S) \cup {t}
          /\ (Threads \ S) \cap {t} = {}
      BY <2>4
    <3>5. ASSUME NEW j \in Resources
          PROVE  wanted2[p][j] <= free2[j] + Held(held2, Threads \ S, j)
      <4>1. Held(held, (Threads \ S) \cup {t}, j) = Held(held, Threads \ S, j) + held[t][j]
        <5>1. Held(held, (Threads \ S) \cup {t}, j) = Held(held, Threads \ S, j) + Held(held, {t}, j)
          BY <3>4, HeldTogether
        <5>2. Held(held, {t}, j) = held[t][j]
          BY HeldByOne
        <5> QED
          BY <5>1, <5>2
      <4>2. free[j] + (Held(held, Threads \ S, j) + held[t][j])
              = (free[j] + Held(held, Threads \ S, j)) + held[t][j]
        <5>1. free[j] \in Nat /\ held[t][j] \in Nat /\ Held(held, Threads \ S, j) \in Int
          BY <2>2
        <5> QED
          BY <5>1, Given
      <4>3. (free[j] + Held(held, Threads \ S, j)) + held[t][j]
              = free2[j] + Held(held2, Threads \ S, j)
        BY <2>2, <2>4
      <4>4. Held(held, Threads \ (S \ {t}), j) = Held(held, (Threads \ S) \cup {t}, j)
        BY <3>4
      <4>5. wanted2[p][j] <= free[j] + Held(held, Threads \ (S \ {t}), j)
        BY <3>2, <3>3
      <4> QED
        BY <4>1, <4>2, <4>3, <4>4, <4>5
    <3> QED
      BY <3>3, <3>5 DEF Escape
  <2>5. CASE S = {t}
    <3>1. \A j \in Resources : wanted[t][j] <= free[j] + Held(held, Threads \ S, j)
      BY <1>2, <2>1, <2>5 DEF Escape
    <3>2. ASSUME NEW j \in Resources
          PROVE  wanted2[t][j] <= free2[j] + Held(held2, Threads \ S, j)
      <4>1. wanted[t][j] + held[t][j] <= (free[j] + Held(held, Threads \ S, j)) + held[t][j]
        BY <2>2, <3>1, Given
      <4> QED
        BY <2>2, <2>5, <4>1
    <3> QED
      BY <2>5, <3>2 DEF Escape
  <2> QED
    BY <2>3, <2>4, <2>5
<1> QED
  BY <1>2 DEF SafeTables, Escape

-----------------------------------------------------------------------------
\* Tables with nothing held, or safe ones.
Fine(free, held, wanted) ==
    (\E t \in Threads : held[t] # Zero) => SafeTables(free, held, wanted)

\* The tables as they were before thread t, which is being tried, got anything.
Undone(t) == Fine(Plus(available, allocation[t]), [allocation EXCEPT ![t] = Zero],
                  [need EXCEPT ![t] = Plus(need[t], allocation[t])])

Finished == {p \in Threads : finish[p]}

\* The loop invariant of isSafe: work is what there is once those that finish
\* have given back what they hold; of a group with one of those, one could get
\* its need; and a pass that has found nobody has passed nobody who could finish.
ScanInv ==
    bank_mutex # NoThread =>
        /\ \A j \in Resources : work[j] = available[j] + Held(allocation, Finished, j)
        /\ \A S \in SUBSET Threads :
             S \cap Finished # {} => Escape(available, allocation, need, S)
        /\ ~found => \A p \in Threads : p < visit => ~Possible(p)

TablesInv ==
    /\ bank_mutex = NoThread => Fine(available, allocation, need)
    /\ \A t \in Threads : pc[t] = "safety" => Undone(t)

SafetyInv == Conservation /\ TablesInv /\ ScanInv

\* The parts of IInv in the form the sums need.
LEMMA TablesType ==
  ASSUME TypeOK
  PROVE  available \in Vectors /\ allocation \in Tables /\ need \in Tables
BY DEF TypeOK, Tables

\* Steps that leave the tables, the mutex and isSafe's variables alone.
LEMMA AloneKeeps ==
  ASSUME SafetyInv, UNCHANGED <<available, allocation, need, bank_mutex, safetyVars>>,
         \A t \in Threads : pc'[t] = "safety" => pc[t] = "safety"
  PROVE  SafetyInv'
<1>1. Conservation'
  BY DEF SafetyInv, Conservation
<1>2. TablesInv'
  BY DEF SafetyInv, TablesInv, Undone
<1>3. Finished' = Finished
  BY DEF Finished, safetyVars
<1>4. ScanInv'
  BY <1>3 DEF SafetyInv, ScanInv, safetyVars, Possible
<1> QED
  BY <1>1, <1>2, <1>4 DEF SafetyInv

LEMMA InitSafety == Init => SafetyInv
<1> SUFFICES ASSUME Init PROVE SafetyInv
  OBVIOUS
<1> USE DEF Init
<1>1. ASSUME NEW j \in Resources
      PROVE  available[j] + Held(allocation, Threads, j) = Total[j]
  <2>1. Row(allocation, Threads, j) = [t \in Threads |-> 0]
    BY DEF Row, Zero
  <2>2. Held(allocation, Threads, j) = 0
    BY <2>1, TotalZero DEF Held, Row
  <2>3. available[j] \in Nat /\ available[j] = Total[j]
    BY TotalAssumption DEF Vectors
  <2> QED
    BY <2>2, <2>3
<1>2. TablesInv
  BY DEF TablesInv, Fine
<1>3. ScanInv
  BY DEF ScanInv
<1> QED
  BY <1>1, <1>2, <1>3 DEF SafetyInv, Conservation

\* What thread t gets or gives back leaves the sum as it is.
LEMMA Conserved ==
  ASSUME TypeOK, TypeOK', Conservation, NEW t \in Threads,
         \A u \in Threads : u # t => allocation'[u] = allocation[u],
         \A j \in Resources : available'[j] + allocation'[t][j] = available[j] + allocation[t][j]
  PROVE  Conservation'
<1>1. ASSUME NEW j \in Resources
      PROVE  available'[j] + Held(allocation', Threads, j) = Total[j]
  <2>1. /\ allocation \in Tables /\ allocation' \in Tables
        /\ available[j] \in Nat /\ available'[j] \in Nat
        /\ allocation[t][j] \in Nat /\ allocation'[t][j] \in Nat
    BY DEF TypeOK, Tables, Vectors
  <2>2. Held(allocation', Threads, j)
          = Held(allocation, Threads, j) + (allocation'[t][j] - allocation[t][j])
    BY <2>1, HeldChanged
  <2>3. Held(allocation, Threads, j) \in Nat
    BY <2>1, HeldNat
  <2>4. available[j] + Held(allocation, Threads, j) = Total[j]
    BY DEF Conservation
  <2>5. available'[j] + allocation'[t][j] = available[j] + allocation[t][j]
    OBVIOUS
  <2> QED
    BY <2>1, <2>2, <2>3, <2>4, <2>5
<1> QED
  BY <1>1 DEF Conservation

\* Trying: the tables before are those of Undone, and the scan starts with
\* nobody finished.
LEMMA TrySafe ==
  ASSUME IInv, IInv', SafetyInv, NEW t \in Threads, Try(t)
  PROVE  SafetyInv'
<1> USE NoThreadAssumption
<1>1. /\ TypeOK /\ TypeOK' /\ request[t] \in Vectors
      /\ allocation[t] = Zero /\ need[t] = Plus(need[t], Zero)
      /\ bank_mutex = NoThread /\ bank_mutex' = t
  <2>1. TypeOK /\ TypeOK' /\ Accounts /\ bank_mutex = NoThread /\ bank_mutex' = t /\ pc[t] = "request"
    BY DEF IInv, Try
  <2>2. request[t] \in Vectors /\ need[t] \in Vectors
    BY <2>1 DEF TypeOK
  <2> QED
    BY <2>1, <2>2, MinusSelf DEF Accounts
<1>2. /\ available' = Minus(available, request[t])
      /\ allocation' = [allocation EXCEPT ![t] = request[t]]
      /\ need' = [need EXCEPT ![t] = Minus(need[t], request[t])]
      /\ AtMost(request[t], need[t]) /\ AtMost(request[t], available)
  <2>1. Plus(Zero, request[t]) = request[t]
    BY <1>1, MinusSelf
  <2> QED
    BY <1>1, <2>1 DEF Try, CanTry, TypeOK
<1>3. Plus(available', allocation'[t]) = available /\ Plus(need'[t], allocation'[t]) = need[t]
  BY <1>1, <1>2, Move DEF TypeOK
<1>4. Conservation'
  <2>1. \A j \in Resources : available'[j] + allocation'[t][j] = available[j] + allocation[t][j]
    <3>1. ASSUME NEW j \in Resources
          PROVE  available'[j] + allocation'[t][j] = available[j] + allocation[t][j]
      <4>1. /\ available[j] \in Nat /\ request[t][j] \in Nat
            /\ available'[j] = available[j] - request[t][j]
            /\ allocation'[t][j] = request[t][j] /\ allocation[t][j] = 0
        BY <1>1, <1>2 DEF TypeOK, Vectors, Minus, Zero
      <4> QED
        BY <4>1
    <3> QED
      BY <3>1
  <2>2. \A u \in Threads : u # t => allocation'[u] = allocation[u]
    BY <1>1, <1>2 DEF TypeOK
  <2> QED
    BY <1>1, <2>1, <2>2, Conserved DEF SafetyInv
<1>5. TablesInv'
  <2>1. /\ [allocation' EXCEPT ![t] = Zero] = allocation
        /\ [need' EXCEPT ![t] = need[t]] = need
    BY <1>1, <1>2 DEF TypeOK
  <2>2. Fine(available, allocation, need)
    BY <1>1 DEF SafetyInv, TablesInv
  <2>3. Undone(t)'
    BY <1>3, <2>1, <2>2 DEF Undone
  <2>4. \A u \in Threads : pc'[u] = "safety" => u = t
    BY <1>1 DEF TypeOK
  <2> QED
    BY <1>1, <2>3, <2>4 DEF TablesInv
<1>6. ScanInv'
  <2>1. /\ work' = available' /\ visit' = 0 /\ Finished' = {}
    BY DEF Try, Finished
  <2>2. ASSUME NEW j \in Resources
        PROVE  work'[j] = available'[j] + Held(allocation', {}, j)
    <3>1. available'[j] \in Nat
      BY <1>1 DEF TypeOK, Vectors
    <3> QED
      BY <2>1, <3>1, HeldByNobody
  <2>3. \A p \in Threads : ~ (p < visit')
    BY <2>1 DEF Threads
  <2> QED
    BY <2>1, <2>2, <2>3 DEF ScanInv
<1> QED
  BY <1>4, <1>5, <1>6 DEF SafetyInv

\* One more process finishes.
LEMMA VisitSafe ==
  ASSUME IInv, IInv', SafetyInv, NEW t \in Threads, VisitFinish(t)
  PROVE  SafetyInv'
<1>1. /\ TypeOK /\ TypeOK' /\ pc[t] = "safety" /\ bank_mutex = t /\ bank_mutex # NoThread
      /\ UNCHANGED <<available, allocation, need, bank_mutex, pc>>
      /\ visit \in Threads /\ Possible(visit) /\ found' = TRUE
      /\ work' = Plus(work, allocation[visit])
      /\ finish' = [finish EXCEPT ![visit] = TRUE]
  <2>1. TypeOK /\ TypeOK'
    BY DEF IInv
  <2> QED
    BY <2>1, NoThreadAssumption DEF VisitFinish, TypeOK, Threads
<1>2. Conservation' /\ TablesInv'
  BY <1>1 DEF SafetyInv, Conservation, TablesInv, Undone
<1>3. /\ Finished' = Finished \cup {visit} /\ visit \notin Finished
      /\ \A j \in Resources : work[j] = available[j] + Held(allocation, Finished, j)
      /\ \A S \in SUBSET Threads :
           S \cap Finished # {} => Escape(available, allocation, need, S)
  BY <1>1 DEF SafetyInv, ScanInv, Finished, Possible, TypeOK
<1>4. allocation \in Tables /\ Finished \subseteq Threads
  BY <1>1, TablesType DEF Finished
<1>5. ASSUME NEW j \in Resources
      PROVE  work'[j] = available[j] + Held(allocation, Finished \cup {visit}, j)
  <2>1. Held(allocation, Finished \cup {visit}, j)
          = Held(allocation, Finished, j) + Held(allocation, {visit}, j)
    BY <1>3, <1>4, HeldTogether
  <2>2. Held(allocation, {visit}, j) = allocation[visit][j]
    BY <1>1, <1>4, HeldByOne
  <2>3. /\ available[j] \in Nat /\ allocation[visit][j] \in Nat
        /\ work'[j] = work[j] + allocation[visit][j]
    BY <1>1 DEF TypeOK, Vectors, Plus
  <2>4. Held(allocation, Finished, j) \in Nat
    BY <1>4, HeldNat
  <2> QED
    BY <1>3, <2>1, <2>2, <2>3, <2>4
<1>6. ASSUME NEW S \in SUBSET Threads, S \cap (Finished \cup {visit}) # {}
      PROVE  Escape(available, allocation, need, S)
  <2>1. CASE S \cap Finished # {}
    BY <1>3, <2>1
  <2>2. CASE S \cap Finished = {}
    <3>1. visit \in S /\ Finished \subseteq Threads \ S
      BY <1>4, <1>6, <2>2
    <3>2. ASSUME NEW j \in Resources
          PROVE  need[visit][j] <= available[j] + Held(allocation, Threads \ S, j)
      <4>1. need[visit][j] <= work[j] /\ work[j] = available[j] + Held(allocation, Finished, j)
        BY <1>1, <1>3 DEF Possible, AtMost
      <4>2. Held(allocation, Finished, j) <= Held(allocation, Threads \ S, j)
        BY <1>4, <3>1, HeldMore
      <4>3. /\ need[visit][j] \in Nat /\ available[j] \in Nat
            /\ Held(allocation, Finished, j) \in Nat /\ Held(allocation, Threads \ S, j) \in Nat
        BY <1>1, <1>4, HeldNat DEF TypeOK, Vectors
      <4> QED
        BY <4>1, <4>2, <4>3
    <3> QED
      BY <3>1, <3>2 DEF Escape
  <2> QED
    BY <2>1, <2>2
<1>7. ScanInv'
  BY <1>1, <1>3, <1>5, <1>6 DEF ScanInv
<1> QED
  BY <1>2, <1>7 DEF SafetyInv

\* The other turns of isSafe's loops.
LEMMA ScanSafe ==
  ASSUME IInv, SafetyInv, NEW t \in Threads, VisitSkip(t) \/ NextPass(t)
  PROVE  SafetyInv'
<1>1. /\ UNCHANGED <<available, allocation, need, bank_mutex, pc, work, finish>>
      /\ TypeOK
  BY DEF VisitSkip, NextPass, IInv
<1>2. Conservation' /\ TablesInv' /\ Finished' = Finished
  BY <1>1 DEF SafetyInv, Conservation, TablesInv, Undone, Finished
<1>3. ~found' /\ bank_mutex # NoThread => \A p \in Threads : p < visit' => ~Possible(p)'
  <2>1. Threads \subseteq Nat /\ visit \in Nat
    BY <1>1 DEF TypeOK, Threads
  <2>2. \A p \in Threads : Possible(p)' <=> Possible(p)
    BY <1>1 DEF Possible
  <2>3. CASE VisitSkip(t)
    BY <2>1, <2>2, <2>3 DEF VisitSkip, SafetyInv, ScanInv
  <2>4. CASE NextPass(t)
    BY <2>1, <2>4 DEF NextPass, Threads
  <2> QED
    BY <2>3, <2>4
<1>4. ScanInv'
  BY <1>1, <1>2, <1>3 DEF SafetyInv, ScanInv
<1> QED
  BY <1>2, <1>4 DEF SafetyInv

\* Everybody can finish: the state is safe.
LEMMA GrantSafe ==
  ASSUME IInv, SafetyInv, NEW t \in Threads, Grant(t)
  PROVE  SafetyInv'
<1>1. /\ UNCHANGED <<available, allocation, need>>
      /\ bank_mutex = t /\ bank_mutex # NoThread /\ bank_mutex' = NoThread
      /\ \A u \in Threads : pc'[u] # "safety"
      /\ Finished = Threads
  <2>1. TypeOK
    BY DEF IInv
  <2> QED
    BY <2>1, NoThreadAssumption DEF Grant, TypeOK, SafeVerdict, AllFinished, Finished
<1>2. SafeTables(available, allocation, need)
  BY <1>1 DEF SafetyInv, ScanInv, SafeTables, Escape
<1>3. Conservation' /\ TablesInv' /\ ScanInv'
  BY <1>1, <1>2 DEF SafetyInv, Conservation, TablesInv, ScanInv, Fine
<1> QED
  BY <1>3 DEF SafetyInv

\* What Rollback and Release have in common.
LEMMA GivenBack ==
  ASSUME IInv, IInv', SafetyInv, NEW t \in Threads, Rollback(t) \/ Release(t)
  PROVE  /\ TypeOK /\ TypeOK' /\ bank_mutex' = NoThread
         /\ \A u \in Threads : pc'[u] # "safety"
         /\ available' = Plus(available, allocation[t])
         /\ allocation' = [allocation EXCEPT ![t] = Zero]
         /\ need' = [need EXCEPT ![t] = Plus(need[t], allocation[t])]
         /\ Conservation'
<1>1. /\ TypeOK /\ TypeOK' /\ bank_mutex' = NoThread
      /\ available' = Plus(available, request[t])
      /\ allocation' = [allocation EXCEPT ![t] = Minus(allocation[t], request[t])]
      /\ need' = [need EXCEPT ![t] = Plus(need[t], request[t])]
      /\ pc[t] \in {"safety", "holding"}
  <2>1. TypeOK /\ TypeOK'
    BY DEF IInv
  <2>2. CASE Rollback(t)
    BY <2>1, <2>2 DEF Rollback, AvailableBack, NeedBack, TypeOK
  <2>3. CASE Release(t)
    BY <2>1, <2>3 DEF Release, TypeOK
  <2> QED
    BY <2>2, <2>3
<1>2. allocation[t] = request[t] /\ Minus(allocation[t], request[t]) = Zero
  <2>1. allocation[t] = request[t] /\ allocation[t] \in Vectors
    BY <1>1 DEF IInv, Accounts, TypeOK
  <2> QED
    BY <2>1, MinusSelf
<1>3. \A u \in Threads : pc'[u] # "safety"
  BY <1>1, NoThreadAssumption DEF TypeOK
<1>4. Conservation'
  <2>1. ASSUME NEW j \in Resources
        PROVE  available'[j] + allocation'[t][j] = available[j] + allocation[t][j]
    <3>1. /\ available[j] \in Nat /\ allocation[t][j] \in Nat
          /\ available'[j] = available[j] + allocation[t][j] /\ allocation'[t][j] = 0
      BY <1>1, <1>2 DEF TypeOK, Vectors, Plus, Zero
    <3> QED
      BY <3>1
  <2>2. \A u \in Threads : u # t => allocation'[u] = allocation[u]
    BY <1>1 DEF TypeOK
  <2> QED
    BY <1>1, <2>1, <2>2, Conserved DEF SafetyInv
<1> QED
  BY <1>1, <1>2, <1>3, <1>4

\* A rollback restores the tables of Undone.
LEMMA RollbackSafe ==
  ASSUME IInv, IInv', SafetyInv, NEW t \in Threads, Rollback(t)
  PROVE  SafetyInv'
<1>1. /\ bank_mutex' = NoThread /\ Conservation'
      /\ \A u \in Threads : pc'[u] # "safety"
      /\ available' = Plus(available, allocation[t])
      /\ allocation' = [allocation EXCEPT ![t] = Zero]
      /\ need' = [need EXCEPT ![t] = Plus(need[t], allocation[t])]
  BY GivenBack
<1>2. Undone(t)
  BY DEF SafetyInv, TablesInv, Rollback
<1>3. Fine(available', allocation', need')
  BY <1>1, <1>2 DEF Undone
<1>4. Fine(available, allocation, need)'
  BY <1>3 DEF Fine, SafeTables
<1>5. TablesInv' /\ ScanInv'
  BY <1>1, <1>4 DEF TablesInv, ScanInv
<1> QED
  BY <1>1, <1>5 DEF SafetyInv

\* A release leaves a safe state safe.
LEMMA ReleaseSafe ==
  ASSUME IInv, IInv', SafetyInv, NEW t \in Threads, Release(t)
  PROVE  SafetyInv'
<1>1. /\ TypeOK /\ bank_mutex' = NoThread /\ Conservation'
      /\ \A u \in Threads : pc'[u] # "safety"
      /\ available' = Plus(available, allocation[t])
      /\ allocation' = [allocation EXCEPT ![t] = Zero]
      /\ need' = [need EXCEPT ![t] = Plus(need[t], allocation[t])]
  BY GivenBack
<1>2. Fine(available, allocation, need)
  BY DEF Release, SafetyInv, TablesInv
<1>3. ASSUME NEW u \in Threads, allocation'[u] # Zero
      PROVE  SafeTables(available', allocation', need')
  <2>1. u # t /\ allocation[u] # Zero
    BY <1>1, <1>3 DEF TypeOK
  <2>2. SafeTables(available, allocation, need)
    BY <1>2, <2>1 DEF Fine
  <2>3. SafeTables(Plus(available, allocation[t]), [allocation EXCEPT ![t] = Zero],
                   [need EXCEPT ![t] = Plus(need[t], allocation[t])])
    BY <1>1, <2>2, TablesType, GivenBackSafe
  <2> QED
    BY <1>1, <2>3
<1>4. Fine(available, allocation, need)'
  BY <1>3 DEF Fine, SafeTables
<1>5. TablesInv' /\ ScanInv'
  BY <1>1, <1>4 DEF TablesInv, ScanInv
<1> QED
  BY <1>1, <1>5 DEF SafetyInv

LEMMA StepSafe ==
  ASSUME IInv, IInv', SafetyInv, NEW t \in Threads, Step(t)
  PROVE  SafetyInv'
<1>0. TypeOK /\ TypeOK'
  BY DEF IInv
<1>1. CASE Pick(t) \/ Finish(t) \/ Deny(t)
  <2>1. /\ UNCHANGED <<available, allocation, need, bank_mutex, safetyVars>>
        /\ \A u \in Threads : pc'[u] = "safety" => pc[u] = "safety"
    BY <1>0, <1>1 DEF Pick, Finish, Deny, BackToIdle, TypeOK
  <2> QED
    BY <2>1, AloneKeeps
<1> QED
  BY <1>1, TrySafe, VisitSafe, ScanSafe, GrantSafe, RollbackSafe, ReleaseSafe DEF Step

LEMMA SafetyInductive == Spec => [](IInv /\ SafetyInv)
<1>1. IInv /\ IInv' /\ SafetyInv /\ [Next]_vars => SafetyInv'
  <2> SUFFICES ASSUME IInv, IInv', SafetyInv, [Next]_vars PROVE SafetyInv'
    OBVIOUS
  <2>1. CASE \E t \in Threads : Step(t)
    BY <2>1, StepSafe
  <2>2. CASE UNCHANGED vars
    BY <2>2, AloneKeeps DEF vars, safetyVars
  <2> QED
    BY <2>1, <2>2 DEF Next, Joined
<1> QED
  BY <1>1, InitSafety, Inductive, PTL DEF Spec

-----------------------------------------------------------------------------
\* No instance of a resource is lost or made, however requests, rollbacks and
\* releases of any number of threads interleave.
THEOREM ConservationHolds == Spec => []Conservation
BY SafetyInductive, PTL DEF SafetyInv

\* The banker's promise for any claims and totals: whenever the mutex is free and
\* somebody holds something, the state is safe.
THEOREM BankerPromise == Spec => []SafeWhenFree
<1>1. SafetyInv => SafeWhenFree
  BY DEF SafetyInv, TablesInv, Fine, SafeWhenFree, Safe
<1> QED
  BY <1>1, SafetyInductive, PTL

\* isSafe rolls nothing back that leaves a safe state.
THEOREM NoSafeRollback == Spec => VerdictRight
<1>1. ASSUME IInv, SafetyInv, NEW t \in Threads, Rollback(t), Safe
      PROVE  FALSE
  <2>1. /\ TypeOK /\ bank_mutex # NoThread
        /\ visit = NUM_PROCESSES /\ ~found /\ \E p \in Threads : ~finish[p]
    BY <1>1, NoThreadAssumption DEF IInv, TypeOK, Rollback, UnsafeVerdict, AllFinished
  <2>2. /\ \A j \in Resources : work[j] = available[j] + Held(allocation, Finished, j)
        /\ \A p \in Threads : ~Possible(p)
    BY <1>1, <2>1, SizesAssumption DEF SafetyInv, ScanInv, Threads
  <2> DEFINE S == Threads \ Finished
  <2>3. S \in SUBSET Threads /\ S # {} /\ Threads \ S = Finished
    BY <2>1 DEF Finished
  <2>4. PICK p \in S : \A j \in Resources :
            need[p][j] <= available[j] + Held(allocation, Threads \ S, j)
    BY <1>1, <2>3 DEF Safe, SafeTables
  <2>5. \A j \in Resources : need[p][j] <= work[j]
    BY <2>2, <2>3, <2>4
  <2>6. p \in Threads /\ ~finish[p]
    BY DEF Finished
  <2> QED
    BY <2>2, <2>5, <2>6 DEF Possible, AtMost
<1>2. IInv /\ SafetyInv => \A t \in Threads : Rollback(t) => ~Safe
  BY <1>1
<1> QED
  BY <1>2, SafetyInductive, PTL DEF VerdictRight

-----------------------------------------------------------------------------
(***************************************************************************)
(* The banker at the terminal, for any tables: his loops are recursive     *)
(* functions of the number of turns.                                       *)
(***************************************************************************)
\* What holds at the start of a loop and after each turn holds at its end.
LEMMA AfterEachTurn ==
  ASSUME NEW n \in Nat, NEW G, 0 \in G, \A k \in 0 .. n - 1 : k \in G => k + 1 \in G
  PROVE  \A k \in 0..n : k \in G
<1> DEFINE B == {k \in 0..n : k \notin G}
<1>1. SUFFICES ASSUME B # {} PROVE FALSE
  OBVIOUS
<1>2. PICK m \in B : \A k \in B : m <= k
  <2>1. B \subseteq Nat
    OBVIOUS
  <2> HIDE DEF B
  <2> QED
    BY <1>1, <2>1, LeastNumber
<1>3. m \in 0..n /\ m \notin G /\ m # 0
  OBVIOUS
<1>4. m - 1 \in 0 .. n - 1 /\ m - 1 \in 0..n /\ m - 1 < m /\ (m - 1) + 1 = m
  BY <1>3
<1>5. m - 1 \in G
  BY <1>2, <1>4
<1> QED
  BY <1>3, <1>4, <1>5

\* n turns of a loop over a state of type T.
Turns(s, n, base, next) ==
    s[0] = base /\ \A k \in 0 .. n - 1 : s[k + 1] = next[<<k, s[k]>>]

LEMMA TurnsExist ==
  ASSUME NEW n \in Nat, NEW T, NEW base \in T, NEW next \in [(0 .. n - 1) \X T -> T]
  PROVE  \E s \in [0..n -> T] : Turns(s, n, base, next)
<1> DEFINE G == {m \in 0..n : \E s \in [0..m -> T] : Turns(s, m, base, next)}
<1>1. 0 \in G
  <2> DEFINE s == [k \in 0..0 |-> base]
  <2>1. s \in [0..0 -> T] /\ Turns(s, 0, base, next)
    BY DEF Turns
  <2> QED
    BY <2>1
<1>2. ASSUME NEW m \in 0 .. n - 1, m \in G PROVE m + 1 \in G
  <2>1. PICK s \in [0..m -> T] : Turns(s, m, base, next)
    BY <1>2
  <2> DEFINE u == [k \in 0 .. m + 1 |-> IF k <= m THEN s[k] ELSE next[<<m, s[m]>>]]
  <2>2. s[m] \in T /\ next[<<m, s[m]>>] \in T
    OBVIOUS
  <2>3. u \in [0 .. m + 1 -> T]
    BY <2>2
  <2>4. u[0] = base
    BY <2>1 DEF Turns
  <2>5. ASSUME NEW k \in 0 .. (m + 1) - 1 PROVE u[k + 1] = next[<<k, u[k]>>]
    <3>1. CASE k = m
      <4>1. m \in 0 .. m + 1 /\ m + 1 \in 0 .. m + 1 /\ m <= m /\ ~(m + 1 <= m)
        OBVIOUS
      <4>2. u[m] = s[m] /\ u[m + 1] = next[<<m, s[m]>>]
        BY <4>1
      <4> QED
        BY <3>1, <4>2
    <3>2. CASE k < m
      <4>1. k \in 0 .. m - 1 /\ k <= m /\ k + 1 <= m /\ k \in 0 .. m + 1 /\ k + 1 \in 0 .. m + 1
        BY <3>2
      <4>2. u[k] = s[k] /\ u[k + 1] = s[k + 1] /\ s[k + 1] = next[<<k, s[k]>>]
        BY <2>1, <4>1 DEF Turns
      <4> QED
        BY <4>2
    <3> QED
      BY <3>1, <3>2
  <2>6. Turns(u, m + 1, base, next)
    BY <2>4, <2>5 DEF Turns
  <2> QED
    BY <2>3, <2>6
<1>3. n \in G
  <2> HIDE DEF G
  <2> QED
    BY <1>1, <1>2, AfterEachTurn
<1> QED
  BY <1>3

-----------------------------------------------------------------------------
\* The tables of the terminal, and what isSafe knows of them.
TerminalTables == [available : Vectors, allocation : Tables, need : Tables]
Scans == [work : Vectors, finish : SUBSET Threads]

\* What ScanInv says of the threaded isSafe.
GoodScan(tb, s) ==
    /\ s \in Scans
    /\ \A j \in Resources : s.work[j] = tb.available[j] + Held(tb.allocation, s.finish, j)
    /\ \A S \in SUBSET Threads :
         S \cap s.finish # {} => Escape(tb.available, tb.allocation, tb.need, S)

CanFinish(tb, s, p) == p \notin s.finish /\ Terminal!Covers(s.work, tb.need[p])

\* The two programs count alike.
LEMMA SameVectors ==
  /\ Terminal!Processes = Threads
  /\ \A v, w : Terminal!Covers(v, w) <=> AtMost(w, v)
  /\ \A v \in Vectors : \A w : Terminal!VectorPlus(v, w) = Plus(v, w)
  /\ \A v \in Vectors : \A w : Terminal!VectorMinus(v, w) = Minus(v, w)
BY DEF Terminal!Processes, Threads, Terminal!Covers, AtMost, Resources, Terminal!VectorPlus,
       Terminal!VectorMinus, Plus, Minus, Vectors

LEMMA VisitGood ==
  ASSUME NEW tb \in TerminalTables, NEW s, GoodScan(tb, s), NEW p \in Threads
  PROVE  LET v == Terminal!Visit(tb, s, p)
         IN  /\ GoodScan(tb, v)
             /\ s.finish \subseteq v.finish
             /\ CanFinish(tb, s, p) => p \in v.finish
             /\ ~CanFinish(tb, s, p) => v = s
<1> DEFINE v == Terminal!Visit(tb, s, p)
           free == tb.available
           held == tb.allocation
           need0 == tb.need
<1>1. /\ free \in Vectors /\ held \in Tables /\ need0 \in Tables
      /\ s.work \in Vectors /\ s.finish \subseteq Threads
      /\ held[p] \in Vectors
  BY DEF TerminalTables, GoodScan, Scans, Tables
<1>2. CASE ~CanFinish(tb, s, p)
  BY <1>2 DEF CanFinish, Terminal!Visit
<1>3. CASE CanFinish(tb, s, p)
  <2>1. v = [work |-> Plus(s.work, held[p]), finish |-> s.finish \cup {p}]
    BY <1>1, <1>3, SameVectors DEF CanFinish, Terminal!Visit
  <2>2. v.work = Plus(s.work, held[p]) /\ v.finish = s.finish \cup {p}
    BY <2>1
  <2>3. v \in Scans
    BY <1>1, <2>1, PlusType DEF Scans
  <2> HIDE DEF v
  <2>4. ASSUME NEW j \in Resources
        PROVE  v.work[j] = free[j] + Held(held, v.finish, j)
    <3>1. p \notin s.finish /\ s.work[j] = free[j] + Held(held, s.finish, j)
      BY <1>3 DEF CanFinish, GoodScan
    <3>2. Held(held, s.finish \cup {p}, j) = Held(held, s.finish, j) + Held(held, {p}, j)
      BY <1>1, <3>1, HeldTogether
    <3>3. Held(held, {p}, j) = held[p][j]
      BY <1>1, HeldByOne
    <3>4. /\ free[j] \in Nat /\ held[p][j] \in Nat /\ Held(held, s.finish, j) \in Nat
          /\ v.work[j] = s.work[j] + held[p][j]
      BY <1>1, <2>2, HeldNat DEF Vectors, Plus
    <3> QED
      BY <2>2, <3>1, <3>2, <3>3, <3>4
  <2>5. ASSUME NEW S \in SUBSET Threads, S \cap v.finish # {}
        PROVE  Escape(free, held, need0, S)
    <3>1. CASE S \cap s.finish # {}
      BY <3>1 DEF GoodScan
    <3>2. CASE S \cap s.finish = {}
      <4>1. p \in S /\ s.finish \subseteq Threads \ S
        BY <1>1, <2>2, <2>5, <3>2
      <4>2. ASSUME NEW j \in Resources
            PROVE  need0[p][j] <= free[j] + Held(held, Threads \ S, j)
        <5>1. need0[p][j] <= s.work[j] /\ s.work[j] = free[j] + Held(held, s.finish, j)
          BY <1>3, SameVectors DEF CanFinish, GoodScan, AtMost
        <5>2. Held(held, s.finish, j) <= Held(held, Threads \ S, j)
          BY <1>1, <4>1, HeldMore
        <5>3. /\ need0[p][j] \in Nat /\ free[j] \in Nat
              /\ Held(held, s.finish, j) \in Nat /\ Held(held, Threads \ S, j) \in Nat
          BY <1>1, HeldNat DEF Vectors, Tables
        <5> QED
          BY <5>1, <5>2, <5>3
      <4> QED
        BY <4>1, <4>2 DEF Escape
    <3> QED
      BY <3>1, <3>2
  <2>6. GoodScan(tb, v)
    BY <2>3, <2>4, <2>5 DEF GoodScan
  <2> QED
    BY <1>3, <2>2, <2>6 DEF v
<1> QED
  BY <1>2, <1>3

\* The inner loop turn by turn.
LEMMA PassTurns ==
  ASSUME NEW tb \in TerminalTables, NEW s, GoodScan(tb, s)
  PROVE  \E f : /\ f[0] = s /\ f[NUM_PROCESSES] = Terminal!Pass(tb, s)
                /\ \A k \in 0..NUM_PROCESSES : GoodScan(tb, f[k])
                /\ \A k \in Threads : f[k + 1] = Terminal!Visit(tb, f[k], k)
<1> USE SizesAssumption
<1> DEFINE T == {x \in Scans : GoodScan(tb, x)}
           next == [q \in (0 .. NUM_PROCESSES - 1) \X T |-> Terminal!Visit(tb, q[2], q[1])]
           F(f) == [k \in 0..NUM_PROCESSES |->
                      IF k = 0 THEN s ELSE Terminal!Visit(tb, f[k - 1], k - 1)]
           after == CHOOSE f : f = F(f)
<1>1. s \in T
  BY DEF GoodScan
<1>2. \A k \in 0 .. NUM_PROCESSES - 1, x \in T : Terminal!Visit(tb, x, k) \in T
  <2> SUFFICES ASSUME NEW k \in 0 .. NUM_PROCESSES - 1, NEW x \in T
               PROVE  Terminal!Visit(tb, x, k) \in T
    OBVIOUS
  <2>1. GoodScan(tb, Terminal!Visit(tb, x, k))
    BY VisitGood DEF Threads
  <2> QED
    BY <2>1 DEF GoodScan
<1>3. next \in [(0 .. NUM_PROCESSES - 1) \X T -> T]
  <2> HIDE DEF T
  <2> QED
    BY <1>2
<1>4. PICK u \in [0..NUM_PROCESSES -> T] : Turns(u, NUM_PROCESSES, s, next)
  <2> HIDE DEF T, next
  <2> QED
    BY <1>1, <1>3, TurnsExist
<1>5. \A k \in 0 .. NUM_PROCESSES - 1 : u[k + 1] = Terminal!Visit(tb, u[k], k)
  <2> HIDE DEF T
  <2> SUFFICES ASSUME NEW k \in 0 .. NUM_PROCESSES - 1
               PROVE  u[k + 1] = Terminal!Visit(tb, u[k], k)
    OBVIOUS
  <2>1. u[k] \in T
    OBVIOUS
  <2>2. next[<<k, u[k]>>] = Terminal!Visit(tb, u[k], k)
    BY <2>1
  <2> HIDE DEF next
  <2> QED
    BY <1>4, <2>2 DEF Turns
<1>6. u = F(u)
  <2>1. \A k \in 0..NUM_PROCESSES :
          u[k] = IF k = 0 THEN s ELSE Terminal!Visit(tb, u[k - 1], k - 1)
    <3> SUFFICES ASSUME NEW k \in 0..NUM_PROCESSES, k # 0
                 PROVE  u[k] = Terminal!Visit(tb, u[k - 1], k - 1)
      BY <1>4 DEF Turns
    <3>1. k - 1 \in 0 .. NUM_PROCESSES - 1 /\ (k - 1) + 1 = k
      OBVIOUS
    <3> QED
      BY <1>5, <3>1
  <2> HIDE DEF T
  <2> QED
    BY <2>1
<1>7. after = F(after)
  <2> HIDE DEF F
  <2> QED
    BY <1>6
<1> HIDE DEF after
<1>8. after[0] = s /\ \A k \in 0 .. NUM_PROCESSES - 1 : after[k + 1] = Terminal!Visit(tb, after[k], k)
  <2>1. \A k \in 0..NUM_PROCESSES :
          after[k] = IF k = 0 THEN s ELSE Terminal!Visit(tb, after[k - 1], k - 1)
    BY <1>7
  <2>2. ASSUME NEW k \in 0 .. NUM_PROCESSES - 1
        PROVE  after[k + 1] = Terminal!Visit(tb, after[k], k)
    <3>1. k + 1 \in 0..NUM_PROCESSES /\ k + 1 # 0 /\ (k + 1) - 1 = k
      OBVIOUS
    <3> QED
      BY <2>1, <3>1
  <2> QED
    BY <2>1, <2>2
<1>9. \A k \in 0..NUM_PROCESSES : GoodScan(tb, after[k])
  <2> DEFINE G == {k \in 0..NUM_PROCESSES : GoodScan(tb, after[k])}
  <2>1. 0 \in G
    BY <1>8
  <2>2. ASSUME NEW k \in 0 .. NUM_PROCESSES - 1, k \in G PROVE k + 1 \in G
    <3>1. k \in Threads /\ k + 1 \in 0..NUM_PROCESSES /\ GoodScan(tb, after[k])
      BY <2>2 DEF Threads
    <3>2. GoodScan(tb, after[k + 1])
      BY <1>8, <3>1, VisitGood
    <3> QED
      BY <3>1, <3>2
  <2>3. \A k \in 0..NUM_PROCESSES : k \in G
    <3> HIDE DEF G
    <3> QED
      BY <2>1, <2>2, AfterEachTurn
  <2> QED
    BY <2>3
<1>10. after[NUM_PROCESSES] = Terminal!Pass(tb, s)
  BY DEF after, Terminal!Pass
<1> QED
  BY <1>8, <1>9, <1>10 DEF Threads

\* A pass goes on from what is good, and finds somebody if anybody can finish.
LEMMA PassGood ==
  ASSUME NEW tb \in TerminalTables, NEW s, GoodScan(tb, s)
  PROVE  LET t == Terminal!Pass(tb, s)
         IN  /\ GoodScan(tb, t)
             /\ s.finish \subseteq t.finish
             /\ t.finish = s.finish => \A p \in Threads : ~CanFinish(tb, s, p)
<1> USE SizesAssumption
<1>1. PICK f : /\ f[0] = s /\ f[NUM_PROCESSES] = Terminal!Pass(tb, s)
               /\ \A k \in 0..NUM_PROCESSES : GoodScan(tb, f[k])
               /\ \A k \in Threads : f[k + 1] = Terminal!Visit(tb, f[k], k)
  BY PassTurns
<1>2. NUM_PROCESSES \in 0..NUM_PROCESSES /\ 0 \in 0..NUM_PROCESSES
  OBVIOUS
<1>3. ASSUME NEW k \in Threads
      PROVE  /\ f[k].finish \subseteq f[k + 1].finish
             /\ CanFinish(tb, f[k], k) => k \in f[k + 1].finish
             /\ ~CanFinish(tb, f[k], k) => f[k + 1] = f[k]
  <2>1. k \in 0..NUM_PROCESSES
    BY DEF Threads
  <2> QED
    BY <1>1, <2>1, VisitGood
<1>4. \A k \in 0..NUM_PROCESSES : s.finish \subseteq f[k].finish
  <2> DEFINE G == {k \in 0..NUM_PROCESSES : s.finish \subseteq f[k].finish}
  <2>1. 0 \in G
    BY <1>1
  <2>2. \A k \in 0 .. NUM_PROCESSES - 1 : k \in G => k + 1 \in G
    BY <1>3 DEF Threads
  <2> HIDE DEF G
  <2>3. \A k \in 0..NUM_PROCESSES : k \in G
    BY <2>1, <2>2, AfterEachTurn
  <2> QED
    BY <2>3 DEF G
\* What has not finished at the end has not finished before.
<1>5. \A p : \A k \in 0..NUM_PROCESSES : p \in f[k].finish => p \in f[NUM_PROCESSES].finish
  <2> SUFFICES ASSUME NEW p, NEW k \in 0..NUM_PROCESSES, p \in f[k].finish
               PROVE  p \in f[NUM_PROCESSES].finish
    OBVIOUS
  <2> DEFINE G == {m \in 0..NUM_PROCESSES : m >= k => p \in f[m].finish}
  <2>1. 0 \in G
    BY <1>2
  <2>2. ASSUME NEW m \in 0 .. NUM_PROCESSES - 1, m \in G PROVE m + 1 \in G
    <3>1. CASE m >= k
      BY <1>3, <2>2, <3>1 DEF Threads
    <3>2. CASE m + 1 = k
      BY <3>2
    <3>3. CASE m + 1 < k
      BY <3>3
    <3> QED
      BY <3>1, <3>2, <3>3
  <2> HIDE DEF G
  <2>3. \A m \in 0..NUM_PROCESSES : m \in G
    BY <2>1, <2>2, AfterEachTurn
  <2> QED
    BY <1>2, <2>3 DEF G
<1>6. ASSUME f[NUM_PROCESSES].finish = s.finish, NEW p \in Threads
      PROVE  ~CanFinish(tb, s, p)
  <2> DEFINE G == {k \in 0..NUM_PROCESSES : f[k] = s}
  <2>1. 0 \in G
    BY <1>1, <1>2
  <2>2. ASSUME NEW k \in 0 .. NUM_PROCESSES - 1, k \in G PROVE k + 1 \in G /\ ~CanFinish(tb, s, k)
    <3>1. k \in Threads /\ k + 1 \in 0..NUM_PROCESSES /\ f[k] = s
      BY <2>2 DEF Threads
    <3>2. ~CanFinish(tb, s, k)
      BY <1>3, <1>5, <1>6, <3>1 DEF CanFinish
    <3> QED
      BY <1>3, <3>1, <3>2
  <2> HIDE DEF G
  <2>3. \A k \in 0..NUM_PROCESSES : k \in G
    BY <2>1, <2>2, AfterEachTurn
  <2> QED
    BY <2>2, <2>3 DEF Threads
<1> QED
  BY <1>1, <1>2, <1>4, <1>6

\* The outer loop pass by pass.
LEMMA OuterTurns ==
  ASSUME NEW tb \in TerminalTables
  PROVE  \E f : /\ f[0] = [work |-> tb.available, finish |-> {}]
                /\ Terminal!IsSafe(tb) <=> f[NUM_PROCESSES].finish = Threads
                /\ \A k \in 0..NUM_PROCESSES : GoodScan(tb, f[k])
                /\ \A k \in 0 .. NUM_PROCESSES - 1 : f[k + 1] = Terminal!Pass(tb, f[k])
<1> USE SizesAssumption
<1> DEFINE s == [work |-> tb.available, finish |-> {}]
           T == {x \in Scans : GoodScan(tb, x)}
           next == [q \in (0 .. NUM_PROCESSES - 1) \X T |-> Terminal!Pass(tb, q[2])]
           F(f) == [k \in 0..NUM_PROCESSES |-> IF k = 0 THEN s ELSE Terminal!Pass(tb, f[k - 1])]
           after == CHOOSE f : f = F(f)
<1>1. GoodScan(tb, s)
  <2>1. tb.available \in Vectors /\ tb.allocation \in Tables
    BY DEF TerminalTables
  <2>2. \A j \in Resources : tb.available[j] = tb.available[j] + Held(tb.allocation, {}, j)
    <3> SUFFICES ASSUME NEW j \in Resources
                 PROVE  tb.available[j] = tb.available[j] + Held(tb.allocation, {}, j)
      OBVIOUS
    <3>1. tb.available[j] \in Nat
      BY <2>1 DEF Vectors
    <3>2. Held(tb.allocation, {}, j) = 0
      BY HeldByNobody
    <3> QED
      BY <3>1, <3>2
  <2> QED
    BY <2>1, <2>2 DEF GoodScan, Scans
<1>2. \A x \in T : Terminal!Pass(tb, x) \in T
  <2> SUFFICES ASSUME NEW x \in T PROVE Terminal!Pass(tb, x) \in T
    OBVIOUS
  <2>1. GoodScan(tb, Terminal!Pass(tb, x))
    BY PassGood
  <2> QED
    BY <2>1 DEF GoodScan
<1>3. next \in [(0 .. NUM_PROCESSES - 1) \X T -> T] /\ s \in T
  <2>1. s \in T
    BY <1>1 DEF GoodScan
  <2> HIDE DEF T
  <2> QED
    BY <1>2, <2>1
<1>4. PICK u \in [0..NUM_PROCESSES -> T] : Turns(u, NUM_PROCESSES, s, next)
  <2> HIDE DEF T, next
  <2> QED
    BY <1>3, TurnsExist
<1>5. \A k \in 0 .. NUM_PROCESSES - 1 : u[k + 1] = Terminal!Pass(tb, u[k])
  <2> HIDE DEF T
  <2> SUFFICES ASSUME NEW k \in 0 .. NUM_PROCESSES - 1
               PROVE  u[k + 1] = Terminal!Pass(tb, u[k])
    OBVIOUS
  <2>1. u[k] \in T
    OBVIOUS
  <2>2. next[<<k, u[k]>>] = Terminal!Pass(tb, u[k])
    BY <2>1
  <2> HIDE DEF next
  <2> QED
    BY <1>4, <2>2 DEF Turns
<1>6. u = F(u)
  <2> HIDE DEF T, s
  <2>1. \A k \in 0..NUM_PROCESSES : u[k] = IF k = 0 THEN s ELSE Terminal!Pass(tb, u[k - 1])
    <3> SUFFICES ASSUME NEW k \in 0..NUM_PROCESSES, k # 0
                 PROVE  u[k] = Terminal!Pass(tb, u[k - 1])
      BY <1>4 DEF Turns
    <3>1. k - 1 \in 0 .. NUM_PROCESSES - 1 /\ (k - 1) + 1 = k
      OBVIOUS
    <3> QED
      BY <1>5, <3>1
  <2> QED
    BY <2>1
<1>7. after = F(after)
  <2> HIDE DEF F
  <2> QED
    BY <1>6
<1> HIDE DEF after
<1>8. after[0] = s /\ \A k \in 0 .. NUM_PROCESSES - 1 : after[k + 1] = Terminal!Pass(tb, after[k])
  <2> HIDE DEF s
  <2>1. \A k \in 0..NUM_PROCESSES :
          after[k] = IF k = 0 THEN s ELSE Terminal!Pass(tb, after[k - 1])
    BY <1>7
  <2>2. ASSUME NEW k \in 0 .. NUM_PROCESSES - 1
        PROVE  after[k + 1] = Terminal!Pass(tb, after[k])
    <3>1. k + 1 \in 0..NUM_PROCESSES /\ k + 1 # 0 /\ (k + 1) - 1 = k
      OBVIOUS
    <3> QED
      BY <2>1, <3>1
  <2> QED
    BY <2>1, <2>2
<1>9. \A k \in 0..NUM_PROCESSES : GoodScan(tb, after[k])
  <2> HIDE DEF s
  <2> DEFINE G == {k \in 0..NUM_PROCESSES : GoodScan(tb, after[k])}
  <2>1. 0 \in G
    BY <1>1, <1>8
  <2>2. ASSUME NEW k \in 0 .. NUM_PROCESSES - 1, k \in G PROVE k + 1 \in G
    <3>1. k + 1 \in 0..NUM_PROCESSES /\ GoodScan(tb, after[k])
      BY <2>2
    <3>2. GoodScan(tb, after[k + 1])
      BY <1>8, <3>1, PassGood
    <3> QED
      BY <3>1, <3>2
  <2>3. \A k \in 0..NUM_PROCESSES : k \in G
    <3> HIDE DEF G
    <3> QED
      BY <2>1, <2>2, AfterEachTurn
  <2> QED
    BY <2>3
<1>10. Terminal!IsSafe(tb) <=> after[NUM_PROCESSES].finish = Threads
  BY SameVectors DEF after, Terminal!IsSafe
<1> QED
  BY <1>8, <1>9, <1>10

\* The terminal's isSafe answers by the definition of safety.
LEMMA IsSafeRight ==
  ASSUME NEW tb \in TerminalTables
  PROVE  Terminal!IsSafe(tb) <=> SafeTables(tb.available, tb.allocation, tb.need)
<1> USE SizesAssumption
<1>1. PICK f : /\ f[0] = [work |-> tb.available, finish |-> {}]
               /\ Terminal!IsSafe(tb) <=> f[NUM_PROCESSES].finish = Threads
               /\ \A k \in 0..NUM_PROCESSES : GoodScan(tb, f[k])
               /\ \A k \in 0 .. NUM_PROCESSES - 1 : f[k + 1] = Terminal!Pass(tb, f[k])
  BY OuterTurns
<1>2. NUM_PROCESSES \in 0..NUM_PROCESSES
  OBVIOUS
<1>3. ASSUME Terminal!IsSafe(tb)
      PROVE  SafeTables(tb.available, tb.allocation, tb.need)
  BY <1>1, <1>2, <1>3 DEF GoodScan, SafeTables, Escape
<1>4. ASSUME SafeTables(tb.available, tb.allocation, tb.need)
      PROVE  Terminal!IsSafe(tb)
  \* Of those who have not finished one can.
  <2>1. ASSUME NEW s, GoodScan(tb, s), s.finish # Threads
        PROVE  \E p \in Threads : CanFinish(tb, s, p)
    <3> DEFINE S == Threads \ s.finish
    <3>1. S \in SUBSET Threads /\ S # {} /\ Threads \ S = s.finish
      BY <2>1 DEF GoodScan, Scans
    <3>2. PICK p \in S : \A j \in Resources :
              tb.need[p][j] <= tb.available[j] + Held(tb.allocation, Threads \ S, j)
      <4> HIDE DEF S
      <4> QED
        BY <1>4, <3>1 DEF SafeTables
    <3>3. \A j \in Resources : tb.need[p][j] <= s.work[j]
      <4> HIDE DEF S
      <4> QED
        BY <2>1, <3>1, <3>2 DEF GoodScan
    <3> QED
      BY <3>1, <3>2, <3>3, SameVectors DEF CanFinish, AtMost
  <2>2. IsFiniteSet(Threads) /\ Cardinality(Threads) = NUM_PROCESSES
    <3>1. IsFiniteSet(0 .. NUM_PROCESSES - 1)
      BY FS_Interval
    <3>2. Cardinality(0 .. NUM_PROCESSES - 1) = IF 0 > NUM_PROCESSES - 1 THEN 0 ELSE (NUM_PROCESSES - 1) - 0 + 1
      BY FS_Interval
    <3> QED
      BY <3>1, <3>2 DEF Threads
  <2> DEFINE G == {k \in 0..NUM_PROCESSES :
                     f[k].finish = Threads \/ Cardinality(f[k].finish) >= k}
  <2>3. \A k \in 0..NUM_PROCESSES :
          /\ GoodScan(tb, f[k]) /\ f[k].finish \subseteq Threads
          /\ IsFiniteSet(f[k].finish) /\ Cardinality(f[k].finish) \in Nat
    <3> SUFFICES ASSUME NEW k \in 0..NUM_PROCESSES
                 PROVE  /\ GoodScan(tb, f[k]) /\ f[k].finish \subseteq Threads
                        /\ IsFiniteSet(f[k].finish) /\ Cardinality(f[k].finish) \in Nat
      OBVIOUS
    <3>1. GoodScan(tb, f[k]) /\ f[k].finish \subseteq Threads
      BY <1>1 DEF GoodScan, Scans
    <3> QED
      BY <2>2, <3>1, FS_Subset, FS_CardinalityType
  <2>4. 0 \in G
    BY <2>3
  <2>5. ASSUME NEW k \in 0 .. NUM_PROCESSES - 1, k \in G PROVE k + 1 \in G
    <3> DEFINE a == f[k].finish
               b == f[k + 1].finish
    <3>1. /\ k \in 0..NUM_PROCESSES /\ k + 1 \in 0..NUM_PROCESSES
          /\ f[k + 1] = Terminal!Pass(tb, f[k])
          /\ a = Threads \/ Cardinality(a) >= k
      BY <1>1, <2>5
    <3>2. a \subseteq b /\ (b = a => \A p \in Threads : ~CanFinish(tb, f[k], p))
      BY <2>3, <3>1, PassGood
    <3>3. CASE a = Threads
      BY <2>3, <3>1, <3>2, <3>3
    <3>4. CASE a # Threads
      <4>1. b # a
        BY <2>1, <2>3, <3>1, <3>2, <3>4
      <4>2. Cardinality(a) < Cardinality(b)
        <5> HIDE DEF a, b
        <5>1. IsFiniteSet(b) /\ Cardinality(a) \in Nat /\ Cardinality(b) \in Nat
          BY <2>3, <3>1 DEF a, b
        <5>2. Cardinality(a) <= Cardinality(b) /\ (Cardinality(a) = Cardinality(b) => a = b)
          BY <3>2, <5>1, FS_Subset
        <5> QED
          BY <4>1, <5>1, <5>2
      <4> QED
        BY <2>3, <3>1, <3>4, <4>2
    <3> QED
      BY <3>3, <3>4
  <2>6. NUM_PROCESSES \in G
    <3> HIDE DEF G
    <3>1. \A k \in 0..NUM_PROCESSES : k \in G
      BY <2>4, <2>5, AfterEachTurn
    <3> QED
      BY <1>2, <3>1
  <2> DEFINE last == f[NUM_PROCESSES].finish
  <2>7. last = Threads \/ Cardinality(last) >= NUM_PROCESSES
    BY <2>6
  <2>8. last \subseteq Threads /\ Cardinality(last) <= Cardinality(Threads)
        /\ (Cardinality(last) = Cardinality(Threads) => last = Threads)
    <3> HIDE DEF last
    <3>1. last \subseteq Threads
      BY <1>2, <2>3 DEF last
    <3> QED
      BY <2>2, <3>1, FS_Subset
  <2>9. last = Threads
    BY <1>2, <2>2, <2>3, <2>7, <2>8
  <2> QED
    BY <1>1, <2>9
<1> QED
  BY <1>3, <1>4

-----------------------------------------------------------------------------
\* The banker at the terminal is right about the tables of every state of the
\* threaded one, for any number of processes and resources and any claims.
THEOREM TerminalIsRight == Spec => []TerminalRight
<1>1. TypeOK /\ Accounts => TerminalRight
  <2> SUFFICES ASSUME TypeOK, Accounts PROVE TerminalRight
    OBVIOUS
  <2> DEFINE tables == Terminal!Typed(allocation, Maximum, available)
             safe(t) == SafeTables(t.available, t.allocation, t.need)
  <2>1. tables = [available |-> available, allocation |-> allocation, need |-> need]
    <3>1. \A t \in Threads : Terminal!VectorMinus(Maximum[t], allocation[t]) = need[t]
      <4> SUFFICES ASSUME NEW t \in Threads
                   PROVE  Terminal!VectorMinus(Maximum[t], allocation[t]) = need[t]
        OBVIOUS
      <4>1. /\ Maximum[t] = Plus(need[t], allocation[t])
            /\ need[t] \in Vectors /\ allocation[t] \in Vectors /\ Maximum[t] \in Vectors
        BY MaximumAssumption DEF Accounts, TypeOK
      <4>2. Terminal!VectorMinus(Maximum[t], allocation[t]) = Minus(Maximum[t], allocation[t])
        BY <4>1, SameVectors
      <4>3. Minus(Plus(need[t], allocation[t]), allocation[t]) = need[t]
        BY <4>1 DEF Minus, Plus, Vectors
      <4> QED
        BY <4>1, <4>2, <4>3
    <3>2. need = [t \in Threads |-> need[t]]
      BY DEF TypeOK
    <3>3. tables.need = need
      BY <3>1, <3>2, SameVectors DEF Terminal!Typed
    <3> QED
      BY <3>3 DEF Terminal!Typed
  <2>2. /\ tables \in TerminalTables
        /\ tables.available = available /\ tables.allocation = allocation /\ tables.need = need
    BY <2>1, TablesType DEF TerminalTables
  <2>3. Terminal!IsSafe(tables) <=> safe(tables)
    <3> HIDE DEF tables
    <3> QED
      BY <2>2, IsSafeRight
  <2>4. ASSUME NEW t \in -1..NUM_PROCESSES, NEW r \in UpTo(Total)
        PROVE  Terminal!Answer(tables, t, r) =
                 IF /\ t \in Threads /\ AtMost(r, need[t]) /\ AtMost(r, available)
                    /\ safe(Terminal!Granted(tables, t, r))
                 THEN Terminal!Granted(tables, t, r) ELSE tables
    <3> DEFINE granted == Terminal!Granted(tables, t, r)
    <3>1. r \in Vectors
      <4>1. r \in [Resources -> UNION {0..Total[j] : j \in Resources}]
        BY DEF UpTo
      <4>2. UNION {0..Total[j] : j \in Resources} \subseteq Nat
        BY TotalAssumption DEF Vectors
      <4> QED
        BY <4>1, <4>2 DEF Vectors
    <3>2. ASSUME t \in Threads, AtMost(r, need[t]), AtMost(r, available)
          PROVE  Terminal!IsSafe(granted) <=> safe(granted)
      <4>1. /\ available \in Vectors /\ allocation \in Tables /\ need \in Tables
            /\ allocation[t] \in Vectors /\ need[t] \in Vectors
        BY <3>2, TablesType DEF Tables
      <4>2. granted = [available |-> Minus(available, r),
                       allocation |-> [allocation EXCEPT ![t] = Plus(allocation[t], r)],
                       need |-> [need EXCEPT ![t] = Minus(need[t], r)]]
        <5>1. /\ Terminal!VectorMinus(available, r) = Minus(available, r)
              /\ Terminal!VectorPlus(allocation[t], r) = Plus(allocation[t], r)
              /\ Terminal!VectorMinus(need[t], r) = Minus(need[t], r)
          BY <4>1, SameVectors
        <5> HIDE DEF tables
        <5> QED
          BY <2>2, <5>1 DEF Terminal!Granted
      <4>3. /\ Minus(available, r) \in Vectors /\ Plus(allocation[t], r) \in Vectors
            /\ Minus(need[t], r) \in Vectors
        BY <3>1, <3>2, <4>1, PlusType, MinusType
      <4>4. granted \in TerminalTables
        <5>1. /\ [allocation EXCEPT ![t] = Plus(allocation[t], r)] \in Tables
              /\ [need EXCEPT ![t] = Minus(need[t], r)] \in Tables
          BY <4>1, <4>3 DEF Tables
        <5> QED
          BY <4>2, <4>3, <5>1 DEF TerminalTables
      <4> HIDE DEF granted
      <4> QED
        BY <4>4, IsSafeRight
    <3> HIDE DEF tables, granted, safe
    <3>3. /\ Terminal!Covers(tables.need[t], r) <=> AtMost(r, need[t])
          /\ Terminal!Covers(tables.available, r) <=> AtMost(r, available)
          /\ t \in Terminal!Processes <=> t \in Threads
      BY <2>2, SameVectors
    <3> QED
      BY <3>2, <3>3 DEF Terminal!Answer, Terminal!ResourceRequest, granted
  <2> HIDE DEF tables, safe
  <2> QED
    BY <2>3, <2>4 DEF TerminalRight, tables, safe
<1> QED
  BY <1>1, TypeCorrect, AccountsRight, PTL
=============================================================================
