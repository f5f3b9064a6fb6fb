------------------------ MODULE ReadersWritersProofs ------------------------
(***************************************************************************)
(* Theorems about the readers and writers (module ReadersWriters), for any *)
(* number of readers and writers and any size of an int.                   *)
(***************************************************************************)
EXTENDS ReadersWriters, FiniteSetTheorems, TLAPS

\* Where a reader holds mutex; where it is counted; where it shares in the
\* first reader's hold on wrt, which it has itself only in "post" and "counted".
HoldsMutex == {"count", "wrt", "counted", "uncount", "post", "uncounted"}
Counts == {"wrt", "counted", "read", "uncount"}
Shares == {"counted", "read", "uncount", "post"}
Writes == {"load", "store", "post"}

\* read_count is what its name says.
CountInv == read_count = Cardinality(ReadersAt(Counts))

\* mutex is taken by one reader and by no other.
MutexInv ==
    \/ mutex = 1 /\ \A r \in Readers : rpc[r] \notin HoldsMutex
    \/ mutex = 0 /\ \E r \in Readers : /\ rpc[r] \in HoldsMutex
                                       /\ \A q \in Readers : rpc[q] \in HoldsMutex => q = r

\* The reader that takes wrt is the only one counted, behind the one that gives
\* it back there is none.
FirstLastInv ==
    \A r, q \in Readers :
        /\ rpc[r] = "wrt" /\ rpc[q] \in Counts => q = r
        /\ rpc[r] = "post" => rpc[q] \notin Counts

\* wrt is free, or the group of readers has it, or one writer.
WrtInv ==
    LET Group == \E r \in Readers : rpc[r] \in Shares
        NoWriter == \A w \in Writers : wpc[w] \notin Writes
        OneWriter == \E w \in Writers : /\ wpc[w] \in Writes
                                        /\ \A v \in Writers : wpc[v] \in Writes => v = w
    IN  \/ wrt = 1 /\ ~Group /\ NoWriter
        \/ wrt = 0 /\ Group /\ NoWriter
        \/ wrt = 0 /\ ~Group /\ OneWriter

\* What a writer has loaded is still there when it stores.
DataInv ==
    /\ WritesNotLost
    /\ \A w \in Writers : wpc[w] = "store" => loaded[w] = shared_data

\* TypeOK but for read_count, whose bound follows from CountInv.
StateOK ==
    /\ mutex \in 0..1 /\ wrt \in 0..1
    /\ shared_data \in 0..(IntSize - 1)
    /\ read_count \in Nat
    /\ rpc \in [Readers -> HoldsMutex \cup {"idle", "read"}]
    /\ wpc \in [Writers -> Writes \cup {"idle"}]
    /\ loaded \in [Writers -> 0..(IntSize - 1)]
    /\ product \in 0..(IntSize - 1)

IInv == StateOK /\ CountInv /\ MutexInv /\ FirstLastInv /\ WrtInv /\ DataInv

-----------------------------------------------------------------------------
\* The readers counted are a finite set, and none of them is counted as zero.
LEMMA CountedFinite ==
  /\ IsFiniteSet(ReadersAt(Counts))
  /\ Cardinality(ReadersAt(Counts)) \in Nat
  /\ Cardinality(ReadersAt(Counts)) = 0 <=> ReadersAt(Counts) = {}
  /\ Cardinality(ReadersAt(Counts)) <= Cardinality(Readers)
<1>1. ReadersAt(Counts) \subseteq Readers
  BY DEF ReadersAt
<1> QED
  BY <1>1, ThreadsAssumption, FS_Subset, FS_CardinalityType, FS_EmptySet

LEMMA DoubledType ==
  ASSUME NEW x \in Nat
  PROVE  Doubled(x) \in 0..(IntSize - 1)
BY IntSizeAssumption DEF Doubled

LEMMA InitIInv == Init => IInv
<1> SUFFICES ASSUME Init PROVE IInv
  OBVIOUS
<1> USE DEF Init
<1>1. StateOK
  BY IntSizeAssumption DEF StateOK, HoldsMutex, Writes
<1>2. CountInv
  <2>1. ReadersAt(Counts) = {}
    BY DEF ReadersAt, Counts
  <2> QED
    BY <2>1, FS_EmptySet DEF CountInv
<1>3. MutexInv /\ FirstLastInv /\ WrtInv /\ DataInv
  BY DEF MutexInv, FirstLastInv, WrtInv, DataInv, WritesNotLost, HoldsMutex, Counts, Shares, Writes
<1> QED
  BY <1>1, <1>2, <1>3 DEF IInv

-----------------------------------------------------------------------------
\* A reader that goes on is counted before and after, or neither, or starts or
\* ceases to be counted.
LEMMA CountMoves ==
  ASSUME StateOK, NEW r \in Readers, NEW from, NEW to, ReaderGoes(r, from, to)
  PROVE  /\ \A q \in Readers : rpc'[q] = IF q = r THEN to ELSE rpc[q]
         /\ ReadersAt(Counts)' = IF to \in Counts THEN ReadersAt(Counts) \cup {r}
                                 ELSE ReadersAt(Counts) \ {r}
<1>1. \A q \in Readers : rpc'[q] = IF q = r THEN to ELSE rpc[q]
  BY DEF ReaderGoes, StateOK
<1> QED
  BY <1>1 DEF ReadersAt

\* Steps that leave read_count alone and nobody's being counted changed.
LEMMA CountKept ==
  ASSUME StateOK, CountInv, NEW r \in Readers, NEW from, NEW to, ReaderGoes(r, from, to),
         from \in Counts <=> to \in Counts, read_count' = read_count
  PROVE  CountInv'
<1>1. ReadersAt(Counts)' = ReadersAt(Counts)
  BY CountMoves DEF ReaderGoes, ReadersAt
<1> QED
  BY <1>1 DEF CountInv

\* Readers do not touch the writers' data.
LEMMA DataKept ==
  ASSUME DataInv, UNCHANGED <<wpc, dataVars>>
  PROVE  DataInv'
BY DEF DataInv, WritesNotLost, dataVars

LEMMA ReaderKeeps ==
  ASSUME IInv, NEW r \in Readers, Reader(r)
  PROVE  IInv'
<1> USE DEF HoldsMutex, Counts, Shares, Writes
<1>0. StateOK /\ CountInv /\ MutexInv /\ FirstLastInv /\ WrtInv /\ DataInv
  BY DEF IInv
<1>1. CASE ReaderEnter(r)
  <2>1. ReaderGoes(r, "idle", "count") /\ mutex = 1 /\ mutex' = 0 /\ UNCHANGED <<wrt, read_count>>
    BY <1>0, <1>1 DEF ReaderEnter, Wait, StateOK
  <2>2. \A q \in Readers : rpc'[q] = IF q = r THEN "count" ELSE rpc[q]
    BY <1>0, <2>1, CountMoves
  <2>3. CountInv' /\ DataInv'
    BY <1>0, <2>1, CountKept, DataKept DEF ReaderGoes
  <2>4. StateOK'
    BY <1>0, <2>1 DEF StateOK, ReaderGoes, dataVars
  <2>5. MutexInv' /\ FirstLastInv' /\ WrtInv'
    BY <1>0, <2>1, <2>2 DEF ReaderGoes, MutexInv, FirstLastInv, WrtInv
  <2> QED
    BY <2>3, <2>4, <2>5 DEF IInv
<1>2. CASE ReaderCount(r)
  <2> DEFINE to == IF FirstIn THEN "wrt" ELSE "counted"
  <2>1. ReaderGoes(r, "count", to) /\ read_count' = read_count + 1 /\ UNCHANGED <<mutex, wrt>>
    BY <1>2 DEF ReaderCount
  <2>2. to \in Counts /\ rpc[r] = "count"
    BY <2>1 DEF ReaderGoes
  <2>3. /\ \A q \in Readers : rpc'[q] = IF q = r THEN to ELSE rpc[q]
        /\ ReadersAt(Counts)' = ReadersAt(Counts) \cup {r}
    BY <1>0, <2>1, <2>2, CountMoves
  <2>4. FirstIn <=> ReadersAt(Counts) = {}
    BY <1>0, CountedFinite DEF FirstIn, CountInv
  <2>5. CountInv'
    <3>1. r \notin ReadersAt(Counts)
      BY <2>2 DEF ReadersAt
    <3> QED
      BY <1>0, <2>1, <2>3, <3>1, CountedFinite, FS_AddElement DEF CountInv
  <2>6. StateOK' /\ DataInv'
    BY <1>0, <2>1, <2>2, DataKept DEF StateOK, ReaderGoes, dataVars
  <2>7. MutexInv'
    BY <1>0, <2>1, <2>2, <2>3 DEF MutexInv
  <2>8. \A q \in Readers : q # r => rpc[q] \notin {"wrt", "counted", "post"}
    BY <1>0, <2>2 DEF MutexInv
  <2>9. CASE FirstIn
    <3>1. \A q \in Readers : rpc[q] \notin Counts
      BY <2>4, <2>9 DEF ReadersAt
    <3>2. FirstLastInv'
      BY <2>2, <2>3, <2>8, <2>9, <3>1 DEF FirstLastInv
    <3>3. WrtInv'
      BY <1>0, <2>1, <2>2, <2>3, <2>8, <2>9, <3>1 DEF WrtInv, ReaderGoes
    <3> QED
      BY <2>5, <2>6, <2>7, <3>2, <3>3 DEF IInv
  <2>10. CASE ~FirstIn
    <3>1. PICK q \in Readers : rpc[q] \in Counts
      BY <2>4, <2>10 DEF ReadersAt
    <3>2. FirstLastInv'
      BY <2>2, <2>3, <2>8, <2>10 DEF FirstLastInv
    <3>3. rpc[q] \in Shares /\ q # r
      BY <2>2, <2>8, <3>1
    <3>4. WrtInv'
      BY <1>0, <2>1, <2>3, <2>10, <3>3 DEF WrtInv, ReaderGoes
    <3> QED
      BY <2>5, <2>6, <2>7, <3>2, <3>4 DEF IInv
  <2> QED
    BY <2>9, <2>10
<1>3. CASE ReaderLockWrt(r)
  <2>1. ReaderGoes(r, "wrt", "counted") /\ wrt = 1 /\ wrt' = 0 /\ UNCHANGED <<mutex, read_count>>
    BY <1>0, <1>3 DEF ReaderLockWrt, Wait, StateOK
  <2>2. \A q \in Readers : rpc'[q] = IF q = r THEN "counted" ELSE rpc[q]
    BY <1>0, <2>1, CountMoves
  <2>3. CountInv' /\ DataInv'
    BY <1>0, <2>1, CountKept, DataKept DEF ReaderGoes
  <2>4. StateOK'
    BY <1>0, <2>1 DEF StateOK, ReaderGoes, dataVars
  <2>5. MutexInv' /\ FirstLastInv' /\ WrtInv'
    BY <1>0, <2>1, <2>2 DEF ReaderGoes, MutexInv, FirstLastInv, WrtInv
  <2> QED
    BY <2>3, <2>4, <2>5 DEF IInv
<1>4. CASE ReaderCounted(r)
  <2>1. ReaderGoes(r, "counted", "read") /\ mutex = 0 /\ mutex' = 1 /\ UNCHANGED <<wrt, read_count>>
    BY <1>0, <1>4 DEF ReaderCounted, ReaderGoes, Post, MutexInv
  <2>2. \A q \in Readers : rpc'[q] = IF q = r THEN "read" ELSE rpc[q]
    BY <1>0, <2>1, CountMoves
  <2>3. CountInv' /\ DataInv'
    BY <1>0, <2>1, CountKept, DataKept DEF ReaderGoes
  <2>4. StateOK'
    BY <1>0, <2>1 DEF StateOK, ReaderGoes, dataVars
  <2>5. MutexInv' /\ FirstLastInv' /\ WrtInv'
    BY <1>0, <2>1, <2>2 DEF ReaderGoes, MutexInv, FirstLastInv, WrtInv
  <2> QED
    BY <2>3, <2>4, <2>5 DEF IInv
<1>5. CASE ReaderLeave(r)
  <2>1. ReaderGoes(r, "read", "uncount") /\ mutex = 1 /\ mutex' = 0 /\ UNCHANGED <<wrt, read_count>>
    BY <1>0, <1>5 DEF ReaderLeave, Wait, StateOK
  <2>2. \A q \in Readers : rpc'[q] = IF q = r THEN "uncount" ELSE rpc[q]
    BY <1>0, <2>1, CountMoves
  <2>3. CountInv' /\ DataInv'
    BY <1>0, <2>1, CountKept, DataKept DEF ReaderGoes
  <2>4. StateOK'
    BY <1>0, <2>1 DEF StateOK, ReaderGoes, dataVars
  <2>5. MutexInv' /\ FirstLastInv' /\ WrtInv'
    BY <1>0, <2>1, <2>2 DEF ReaderGoes, MutexInv, FirstLastInv, WrtInv
  <2> QED
    BY <2>3, <2>4, <2>5 DEF IInv
<1>6. CASE ReaderUncount(r)
  <2> DEFINE to == IF LastOut THEN "post" ELSE "uncounted"
  <2>1. ReaderGoes(r, "uncount", to) /\ read_count' = read_count - 1 /\ UNCHANGED <<mutex, wrt>>
    BY <1>6 DEF ReaderUncount
  <2>2. to \notin Counts /\ rpc[r] = "uncount" /\ r \in ReadersAt(Counts)
    BY <2>1 DEF ReaderGoes, ReadersAt
  <2>3. /\ \A q \in Readers : rpc'[q] = IF q = r THEN to ELSE rpc[q]
        /\ ReadersAt(Counts)' = ReadersAt(Counts) \ {r}
    BY <1>0, <2>1, <2>2, CountMoves
  <2>4. /\ IsFiniteSet(ReadersAt(Counts)') /\ Cardinality(ReadersAt(Counts)') \in Nat
        /\ Cardinality(ReadersAt(Counts)') = read_count - 1
        /\ LastOut <=> ReadersAt(Counts)' = {}
    BY <1>0, <2>2, <2>3, CountedFinite, FS_RemoveElement, FS_CardinalityType, FS_EmptySet
    DEF LastOut, CountInv
  <2>5. CountInv' /\ read_count' \in Nat
    BY <2>1, <2>4 DEF CountInv
  <2>6. StateOK' /\ DataInv'
    BY <1>0, <2>1, <2>2, <2>5, DataKept DEF StateOK, ReaderGoes, dataVars
  <2>7. MutexInv'
    BY <1>0, <2>1, <2>2, <2>3 DEF MutexInv
  <2>8. \A q \in Readers : q # r => rpc[q] \notin {"wrt", "counted", "uncount", "post"}
    BY <1>0, <2>2 DEF MutexInv
  <2>9. CASE LastOut
    <3>1. \A q \in Readers : rpc'[q] \notin Counts
      BY <2>4, <2>9 DEF ReadersAt
    <3>2. FirstLastInv' /\ WrtInv'
      BY <1>0, <2>1, <2>2, <2>3, <2>8, <2>9, <3>1 DEF FirstLastInv, WrtInv, ReaderGoes
    <3> QED
      BY <2>5, <2>6, <2>7, <3>2 DEF IInv
  <2>10. CASE ~LastOut
    <3>1. PICK q \in Readers : rpc'[q] \in Counts
      BY <2>4, <2>10 DEF ReadersAt
    <3>2. rpc[q] = "read" /\ rpc'[q] = "read"
      BY <2>2, <2>3, <2>8, <3>1
    <3>3. FirstLastInv' /\ WrtInv'
      BY <1>0, <2>1, <2>2, <2>3, <2>8, <2>10, <3>2 DEF FirstLastInv, WrtInv, ReaderGoes
    <3> QED
      BY <2>5, <2>6, <2>7, <3>3 DEF IInv
  <2> QED
    BY <2>9, <2>10
<1>7. CASE ReaderUnlockWrt(r)
  <2>1. ReaderGoes(r, "post", "uncounted") /\ wrt = 0 /\ wrt' = 1 /\ UNCHANGED <<mutex, read_count>>
    BY <1>0, <1>7 DEF ReaderUnlockWrt, ReaderGoes, Post, WrtInv
  <2>2. \A q \in Readers : rpc'[q] = IF q = r THEN "uncounted" ELSE rpc[q]
    BY <1>0, <2>1, CountMoves
  <2>3. CountInv' /\ DataInv'
    BY <1>0, <2>1, CountKept, DataKept DEF ReaderGoes
  <2>4. StateOK'
    BY <1>0, <2>1 DEF StateOK, ReaderGoes, dataVars
  <2>5. MutexInv' /\ FirstLastInv' /\ WrtInv'
    BY <1>0, <2>1, <2>2 DEF ReaderGoes, MutexInv, FirstLastInv, WrtInv
  <2> QED
    BY <2>3, <2>4, <2>5 DEF IInv
<1>8. CASE ReaderUncounted(r)
  <2>1. ReaderGoes(r, "uncounted", "idle") /\ mutex = 0 /\ mutex' = 1 /\ UNCHANGED <<wrt, read_count>>
    BY <1>0, <1>8 DEF ReaderUncounted, ReaderGoes, Post, MutexInv
  <2>2. \A q \in Readers : rpc'[q] = IF q = r THEN "idle" ELSE rpc[q]
    BY <1>0, <2>1, CountMoves
  <2>3. CountInv' /\ DataInv'
    BY <1>0, <2>1, CountKept, DataKept DEF ReaderGoes
  <2>4. StateOK'
    BY <1>0, <2>1 DEF StateOK, ReaderGoes, dataVars
  <2>5. MutexInv' /\ FirstLastInv' /\ WrtInv'
    BY <1>0, <2>1, <2>2 DEF ReaderGoes, MutexInv, FirstLastInv, WrtInv
  <2> QED
    BY <2>3, <2>4, <2>5 DEF IInv
<1> QED
  BY <1>1, <1>2, <1>3, <1>4, <1>5, <1>6, <1>7, <1>8 DEF Reader

-----------------------------------------------------------------------------
\* Writers do not touch what the readers are counted by.
LEMMA ReadersKept ==
  ASSUME CountInv, MutexInv, FirstLastInv, UNCHANGED <<mutex, read_count, rpc>>
  PROVE  CountInv' /\ MutexInv' /\ FirstLastInv'
<1>1. ReadersAt(Counts)' = ReadersAt(Counts)
  BY DEF ReadersAt
<1> QED
  BY <1>1 DEF CountInv, MutexInv, FirstLastInv

LEMMA WriterKeeps ==
  ASSUME IInv, NEW w \in Writers, Writer(w)
  PROVE  IInv'
<1>0. StateOK /\ CountInv /\ MutexInv /\ FirstLastInv /\ WrtInv /\ DataInv
  BY DEF IInv
<1>1. UNCHANGED <<mutex, read_count, rpc>>
  BY DEF Writer, WriterLock, WriterLoad, WriterStore, WriterUnlock, WriterGoes
<1>2. CountInv' /\ MutexInv' /\ FirstLastInv'
  BY <1>0, <1>1, ReadersKept
<1>3. loaded[w] \in Nat /\ product \in Nat /\ shared_data \in Nat
  BY <1>0 DEF StateOK
<1>4. StateOK'
  BY <1>0, <1>3, DoubledType
  DEF Writer, WriterLock, WriterLoad, WriterStore, WriterUnlock, WriterGoes, Wait, Post, dataVars,
      StateOK, Writes, WrtInv
<1>5. WrtInv'
  BY <1>0, <1>1
  DEF Writer, WriterLock, WriterLoad, WriterStore, WriterUnlock, WriterGoes, Wait, Post,
      StateOK, WrtInv, Writes
<1>6. DataInv'
  BY <1>0
  DEF Writer, WriterLock, WriterLoad, WriterStore, WriterUnlock, WriterGoes, dataVars,
      StateOK, WrtInv, Writes, DataInv, WritesNotLost
<1> QED
  BY <1>2, <1>4, <1>5, <1>6 DEF IInv

LEMMA Inductive == Spec => []IInv
<1>1. IInv /\ [Next]_vars => IInv'
  <2> SUFFICES ASSUME IInv, [Next]_vars PROVE IInv'
    OBVIOUS
  <2>1. CASE Next
    BY <2>1, ReaderKeeps, WriterKeeps DEF Next
  <2>2. CASE UNCHANGED vars
    <3>1. CountInv' /\ MutexInv' /\ FirstLastInv'
      BY <2>2, ReadersKept DEF vars, IInv
    <3> QED
      BY <2>2, <3>1 DEF vars, IInv, StateOK, WrtInv, DataInv, WritesNotLost
  <2> QED
    BY <2>1, <2>2
<1> QED
  BY <1>1, InitIInv, PTL DEF Spec

\* Both semaphores are binary, and read_count is a number of readers.
THEOREM TypeCorrect == Spec => []TypeOK
<1>1. IInv => TypeOK
  BY CountedFinite DEF IInv, StateOK, CountInv, TypeOK, HoldsMutex, Writes
<1> QED
  BY <1>1, Inductive, PTL

\* One writer at most, and no reader with a writer, for any number of both.
THEOREM ExclusionHolds == Spec => []Exclusion
<1>1. IInv => Exclusion
  <2> SUFFICES ASSUME IInv PROVE Exclusion
    OBVIOUS
  <2>1. WrtInv
    BY DEF IInv
  <2>2. ReadersIn = {} \/ WritersIn = {}
    BY <2>1 DEF WrtInv, ReadersIn, WritersIn, ReadersAt, WritersAt, Shares, Writes
  <2>3. Cardinality(WritersIn) <= 1
    <3>1. WritersIn = {} \/ \E w \in Writers : WritersIn = {w}
      BY <2>1 DEF WrtInv, WritersIn, WritersAt, Writes
    <3>2. Cardinality(WritersIn) = 0 \/ Cardinality(WritersIn) = 1
      BY <3>1, FS_EmptySet, FS_Singleton
    <3> QED
      BY <3>2
  <2> QED
    BY <2>2, <2>3 DEF Exclusion
<1> QED
  BY <1>1, Inductive, PTL

\* A reader is kept waiting by a writer that has wrt, or by readers, but not by
\* a writer that waits.
THEOREM ReadersFirst == Spec => []ReaderPreference
<1>1. IInv => ReaderPreference
  BY DEF IInv, MutexInv, FirstLastInv, WrtInv, ReaderPreference, WritersIn, ReadersAt, WritersAt,
         HoldsMutex, Counts, Shares, Writes
<1> QED
  BY <1>1, Inductive, PTL

\* No doubling of shared_data is lost.
THEOREM NoWriteLost == Spec => []WritesNotLost
BY Inductive, PTL DEF IInv, DataInv
=============================================================================
