--------------------------- MODULE ReadersWriters ---------------------------
(***************************************************************************)
(* The first readers-writers problem of src/lab8/q2: a writer holds wrt,   *)
(* the first reader in takes it for all readers and the last one out gives *)
(* it back; mutex guards read_count.                                       *)
(*                                                                         *)
(* One action per semaphore call and per update of read_count; the         *)
(* doubling of shared_data is a load and a store.                          *)
(***************************************************************************)
EXTENDS Integers, FiniteSets

CONSTANTS
    Readers, Writers,
    IntSize  \* how many values an int has, 2^32 in the program

ASSUME ThreadsAssumption == IsFiniteSet(Readers) /\ IsFiniteSet(Writers)
ASSUME IntSizeAssumption == IntSize \in Nat \ {0, 1}

VARIABLES
    mutex, wrt,  \* the values of the semaphores
    shared_data, read_count,
    rpc,         \* rpc[r]: where reader r is
    wpc,         \* wpc[w]: where writer w is
    loaded,      \* loaded[w]: shared_data as writer w read it
    product      \* history: what the doublings finished, one by one, make of 1

vars == <<mutex, wrt, shared_data, read_count, rpc, wpc, loaded, product>>

dataVars == <<shared_data, loaded, product>>

Init ==
    /\ mutex = 1 /\ wrt = 1
    /\ shared_data = 1 /\ read_count = 0
    /\ rpc = [r \in Readers |-> "idle"]
    /\ wpc = [w \in Writers |-> "idle"]
    /\ loaded = [w \in Writers |-> 0]
    /\ product = 1

-----------------------------------------------------------------------------
\* sem_wait and sem_post.
Wait(sem) == sem > 0 /\ sem' = sem - 1
Post(sem) == sem' = sem + 1

ReaderGoes(r, from, to) ==
    /\ rpc[r] = from
    /\ rpc' = [rpc EXCEPT ![r] = to]
    /\ UNCHANGED <<wpc, dataVars>>

ReaderEnter(r) ==
    /\ ReaderGoes(r, "idle", "count")
    /\ Wait(mutex)
    /\ UNCHANGED <<wrt, read_count>>

\* read_count++, and the test that follows it.
FirstInStale == read_count = 1               \* faulty variant
FirstInAlways == TRUE                        \* faulty variant
FirstIn == read_count + 1 = 1

ReaderCount(r) ==
    /\ ReaderGoes(r, "count", IF FirstIn THEN "wrt" ELSE "counted")
    /\ read_count' = read_count + 1
    /\ UNCHANGED <<mutex, wrt>>

\* The first reader waits for the writers with mutex held.
ReaderLockWrt(r) ==
    /\ ReaderGoes(r, "wrt", "counted")
    /\ Wait(wrt)
    /\ UNCHANGED <<mutex, read_count>>

ReaderCounted(r) ==
    /\ ReaderGoes(r, "counted", "read")
    /\ Post(mutex)
    /\ UNCHANGED <<wrt, read_count>>

\* Having printed shared_data, while it was in "read".
ReaderLeave(r) ==
    /\ ReaderGoes(r, "read", "uncount")
    /\ Wait(mutex)
    /\ UNCHANGED <<wrt, read_count>>

LastOut == read_count - 1 = 0

ReaderUncount(r) ==
    /\ ReaderGoes(r, "uncount", IF LastOut THEN "post" ELSE "uncounted")
    /\ read_count' = read_count - 1
    /\ UNCHANGED <<mutex, wrt>>

ReaderUnlockWrt(r) ==
    /\ ReaderGoes(r, "post", "uncounted")
    /\ Post(wrt)
    /\ UNCHANGED <<mutex, read_count>>

ReaderUncounted(r) ==
    /\ ReaderGoes(r, "uncounted", "idle")
    /\ Post(mutex)
    /\ UNCHANGED <<wrt, read_count>>

Reader(r) ==
    \/ ReaderEnter(r) \/ ReaderCount(r) \/ ReaderLockWrt(r) \/ ReaderCounted(r)
    \/ ReaderLeave(r) \/ ReaderUncount(r) \/ ReaderUnlockWrt(r) \/ ReaderUncounted(r)

-----------------------------------------------------------------------------
WriterGoes(w, from, to) ==
    /\ wpc[w] = from
    /\ wpc' = [wpc EXCEPT ![w] = to]
    /\ UNCHANGED <<mutex, read_count, rpc>>

WriterLockUnasked(w) ==                       \* faulty variant
    /\ WriterGoes(w, "idle", "load")
    /\ UNCHANGED <<wrt, dataVars>>
WriterLock(w) ==
    /\ WriterGoes(w, "idle", "load")
    /\ Wait(wrt)
    /\ UNCHANGED dataVars

WriterLoad(w) ==
    /\ WriterGoes(w, "load", "store")
    /\ loaded' = [loaded EXCEPT ![w] = shared_data]
    /\ UNCHANGED <<wrt, shared_data, product>>

\* An int keeps the lowest bits of a product, as the builds do (in C it is
\* undefined from the 31st doubling on).
Doubled(x) == (x * 2) % IntSize

WriterStore(w) ==
    /\ WriterGoes(w, "store", "post")
    /\ shared_data' = Doubled(loaded[w])
    /\ product' = Doubled(product)
    /\ UNCHANGED <<wrt, loaded>>

WriterUnlock(w) ==
    /\ WriterGoes(w, "post", "idle")
    /\ Post(wrt)
    /\ UNCHANGED dataVars

Writer(w) == WriterLock(w) \/ WriterLoad(w) \/ WriterStore(w) \/ WriterUnlock(w)

Next == (\E r \in Readers : Reader(r)) \/ (\E w \in Writers : Writer(w))

\* A thread that can go on does.  sem_wait is not assumed to be fair: a thread
\* may be overtaken at a semaphore for ever.
Spec ==
    /\ Init /\ [][Next]_vars
    /\ \A r \in Readers : WF_vars(Reader(r))
    /\ \A w \in Writers : WF_vars(Writer(w))

-----------------------------------------------------------------------------
ReadersAt(places) == {r \in Readers : rpc[r] \in places}
WritersAt(places) == {w \in Writers : wpc[w] \in places}

\* Who is between the semaphore calls on wrt, or shares in what the first
\* reader did there.
ReadersIn == ReadersAt({"read"})
WritersIn == WritersAt({"load", "store", "post"})

\* The type of the state: both semaphores are binary and read_count is never
\* negative.
TypeOK ==
    /\ mutex \in 0..1 /\ wrt \in 0..1
    /\ shared_data \in 0..(IntSize - 1)
    /\ read_count \in 0..Cardinality(Readers)
    /\ rpc \in [Readers -> {"idle", "count", "wrt", "counted", "read",
                            "uncount", "post", "uncounted"}]
    /\ wpc \in [Writers -> {"idle", "load", "store", "post"}]
    /\ loaded \in [Writers -> 0..(IntSize - 1)]
    /\ product \in 0..(IntSize - 1)

\* One writer at most, and no reader with a writer ("only one writer can be
\* active at a time", lines 22-23).
Exclusion ==
    /\ Cardinality(WritersIn) <= 1
    /\ ReadersIn = {} \/ WritersIn = {}

\* "A reader should not be kept waiting unless a writer has already obtained
\* permission" (lines 8-9): with wrt taken, a reader that waits for it waits
\* for a writer, and one that finds mutex taken is behind a reader that can
\* go on or waits for a writer.
ReaderPreference ==
    /\ ReadersAt({"wrt"}) # {} /\ wrt = 0 => WritersIn # {}
    /\ mutex = 0 =>
          ReadersAt({"count", "wrt", "counted", "uncount", "post", "uncounted"}) # {}

\* Every doubling counts: none is lost between the load and the store of another.
WritesNotLost == shared_data = product

\* No deadlock and no livelock: again and again somebody comes to read, past both
\* semaphores, or has written.  Which thread it is cannot be said, a writer may be
\* overtaken for ever.
Comes == (\E r \in Readers : ReaderCounted(r)) \/ (\E w \in Writers : WriterStore(w))

SomebodyWorks == []<><<Comes>>_vars
=============================================================================
