------------------------------- MODULE Shelf -------------------------------
(***************************************************************************)
(* The shelf of src/lab6: producers and consumers pass a count of items    *)
(* round through two named FIFOs, "p2c" and "c2p".  Any number of each may *)
(* be started and killed; the FIFOs outlive them, and a producer removes   *)
(* them on its way out.                                                    *)
(*                                                                         *)
(* A name can be removed and made again while others still hold the FIFO   *)
(* it had: a FIFO is known by its name and the producer that made it.      *)
(* A count (4 bytes) is written and read at once.                          *)
(***************************************************************************)
EXTENDS Naturals, Sequences, FiniteSets, Functions

CONSTANTS
    Producers, Consumers,
    MAX_SHELF,
    MaxKills,   \* bound: kill(1) is used on so many
    None

ASSUME RolesAssumption == Producers \cap Consumers = {} /\ None \notin Producers
ASSUME ProcsFinite == IsFiniteSet(Producers) /\ IsFiniteSet(Consumers)
ASSUME ShelfAssumption == MAX_SHELF \in Nat \ {0}

Names == {"p2c", "c2p"}
Procs == Producers \cup Consumers

VARIABLES
    fifo,         \* fifo[f]: which FIFO has the name f
    contents,     \* contents[f][n]: what is in the FIFO f made by n
    fd,           \* fd[p][f]: the FIFO of the name f that p has open
    pc,           \* where process p is
    shelf_count,  \* as in both programs
    killed,       \* the processes killed
    lost          \* history: one of them had both FIFOs open

vars == <<fifo, contents, fd, pc, shelf_count, killed, lost>>

Init ==
    /\ fifo = [f \in Names |-> None]
    /\ contents = [f \in Names |-> [n \in Producers |-> <<>>]]
    /\ fd = [p \in Procs |-> [f \in Names |-> None]]
    /\ pc = [p \in Procs |-> "off"]
    /\ shelf_count = [p \in Procs |-> MAX_SHELF]
    /\ killed = {} /\ lost = FALSE

-----------------------------------------------------------------------------
Goes(p, from, to) == pc[p] = from /\ pc' = [pc EXCEPT ![p] = to]

\* The processes that hold the other end of p's FIFO of name f.
Others(p) == IF p \in Producers THEN Consumers ELSE Producers
Partners(p, f) == {q \in Others(p) : fd[q][f] = fd[p][f]}

\* p closes the FIFOs of these names; what is in a FIFO is gone once nobody holds
\* an end of it.
Closing(p, names) ==
    /\ fd' = [fd EXCEPT ![p] = [f \in Names |-> IF f \in names THEN None ELSE @[f]]]
    /\ contents' = [f \in Names |-> [n \in Producers |->
                      IF \E q \in Procs : fd'[q][f] = n THEN contents[f][n] ELSE <<>>]]

\* The end of a process, wherever it is: exit, SIGPIPE or kill.
Ends(p) ==
    /\ pc' = [pc EXCEPT ![p] = "done"]
    /\ Closing(p, Names)
    /\ UNCHANGED <<fifo, shelf_count>>

-----------------------------------------------------------------------------
\* A user starts a program.
Start(p) ==
    /\ Goes(p, "off", IF p \in Producers THEN "make1" ELSE "open1")
    /\ UNCHANGED <<fifo, contents, fd, shelf_count, killed, lost>>

\* mkfifo; that the name is there already (EEXIST) is fine.
Make(p, f, from, to) ==
    /\ Goes(p, from, to)
    /\ fifo' = [fifo EXCEPT ![f] = IF @ = None THEN p ELSE @]
    /\ UNCHANGED <<contents, fd, shelf_count, killed, lost>>

\* open waits until the other end is open too; opening an end lets everybody
\* go on who waits for it.  Both programs open p2c first.
Waiting(f) == IF f = "p2c" THEN "wait1" ELSE "wait2"
OpenedSilent(p, f) == IF f = "p2c" THEN "open2" ELSE "read"  \* faulty variant
Opened(p, f) ==
    CASE f = "p2c" -> "open2"
      [] f = "c2p" /\ p \in Producers -> "send"
      [] f = "c2p" /\ p \in Consumers -> "read"

Open(p, f, from) ==
    /\ pc[p] = from /\ fifo[f] # None
    /\ fd' = [fd EXCEPT ![p][f] = fifo[f]]
    /\ LET partners == {q \in Others(p) : fd[q][f] = fifo[f]} IN
       pc' = [q \in Procs |->
                CASE q = p -> IF partners = {} THEN Waiting(f) ELSE Opened(p, f)
                  [] q \in partners /\ pc[q] = Waiting(f) -> Opened(q, f)
                  [] OTHER -> pc[q]]
    /\ UNCHANGED <<fifo, contents, shelf_count, killed, lost>>

OpenFails(p, f, from) ==
    /\ pc[p] = from /\ fifo[f] = None
    /\ Ends(p)
    /\ UNCHANGED <<killed, lost>>

-----------------------------------------------------------------------------
In(p) == IF p \in Producers THEN "c2p" ELSE "p2c"
Out(p) == IF p \in Producers THEN "p2c" ELSE "c2p"

Add(count) == IF count < MAX_SHELF THEN count + 1 ELSE count
Take(count) == IF count > 0 THEN count - 1 ELSE count

\* A read waits while the FIFO is empty and somebody could write.
Read(p) ==
    LET f == In(p)
        n == fd[p][f] IN
    /\ Goes(p, "read", "write")
    /\ contents[f][n] # <<>>
    /\ shelf_count' = [shelf_count EXCEPT ![p] =
          IF p \in Producers THEN Add(Head(contents[f][n])) ELSE Take(Head(contents[f][n]))]
    /\ contents' = [contents EXCEPT ![f][n] = Tail(@)]
    /\ UNCHANGED <<fifo, fd, killed, lost>>

\* The end of file, which ends the loop.
ReadEofUnchecked(p) ==                                \* faulty variant
    /\ Goes(p, "read", "write")
    /\ contents[In(p)][fd[p][In(p)]] = <<>> /\ Partners(p, In(p)) = {}
    /\ shelf_count' = [shelf_count EXCEPT ![p] = IF p \in Producers THEN Add(@) ELSE Take(@)]
    /\ UNCHANGED <<fifo, contents, fd, killed, lost>>
ReadEofAgain(p) ==                                    \* faulty variant
    /\ Goes(p, "read", "read")
    /\ contents[In(p)][fd[p][In(p)]] = <<>> /\ Partners(p, In(p)) = {}
    /\ UNCHANGED <<fifo, contents, fd, shelf_count, killed, lost>>
ReadEof(p) ==
    /\ Goes(p, "read", "close1")
    /\ contents[In(p)][fd[p][In(p)]] = <<>> /\ Partners(p, In(p)) = {}
    /\ UNCHANGED <<fifo, contents, fd, shelf_count, killed, lost>>

\* The first count of a producer ("send"), or the answer to a count.
Write(p) ==
    /\ pc[p] \in {"send", "write"}
    /\ Partners(p, Out(p)) # {}
    /\ contents' = [contents EXCEPT ![Out(p)][fd[p][Out(p)]] = Append(@, shelf_count[p])]
    /\ pc' = [pc EXCEPT ![p] = "read"]
    /\ UNCHANGED <<fifo, fd, shelf_count, killed, lost>>

\* SIGPIPE: nobody can read.
WriteFails(p) ==
    /\ pc[p] \in {"send", "write"}
    /\ Partners(p, Out(p)) = {}
    /\ Ends(p)
    /\ UNCHANGED <<killed, lost>>

Close(p, f, from, to) ==
    /\ Goes(p, from, to)
    /\ Closing(p, {f})
    /\ UNCHANGED <<fifo, shelf_count, killed, lost>>

\* unlink takes away the name only, whoever made it.
Unlink(p, f, from, to) ==
    /\ Goes(p, from, to)
    /\ fifo' = [fifo EXCEPT ![f] = None]
    /\ UNCHANGED <<contents, fd, shelf_count, killed, lost>>

Kill(p) ==
    /\ Cardinality(killed) < MaxKills /\ pc[p] \notin {"off", "done"}
    /\ Ends(p)
    /\ killed' = killed \cup {p}
    /\ lost' = (lost \/ \A f \in Names : fd[p][f] # None)

-----------------------------------------------------------------------------
Both(p) ==
    \/ Open(p, "p2c", "open1") \/ OpenFails(p, "p2c", "open1")
    \/ Open(p, "c2p", "open2") \/ OpenFails(p, "c2p", "open2")
    \/ Read(p) \/ ReadEof(p) \/ Write(p) \/ WriteFails(p)
    \/ Close(p, "p2c", "close1", "close2")

ProducerLeak(p) ==                                    \* faulty variant
    \/ Make(p, "p2c", "make1", "make2") \/ Make(p, "c2p", "make2", "open1")
    \/ Both(p)
    \/ Close(p, "p2c", "close2", "remove1")
    \/ Unlink(p, "p2c", "remove1", "remove2") \/ Unlink(p, "c2p", "remove2", "done")
Producer(p) ==
    \/ Make(p, "p2c", "make1", "make2") \/ Make(p, "c2p", "make2", "open1")
    \/ Both(p)
    \/ Close(p, "c2p", "close2", "remove1")
    \/ Unlink(p, "p2c", "remove1", "remove2") \/ Unlink(p, "c2p", "remove2", "done")

Consumer(p) == Both(p) \/ Close(p, "c2p", "close2", "done")

Users == \E p \in Procs : Start(p) \/ Kill(p)

\* Those that are left wait for partners that never come.
Stopped == (\A p \in Procs : pc[p] \in {"wait1", "wait2", "read", "done"}) /\ UNCHANGED vars

Next ==
    \/ \E p \in Producers : Producer(p)
    \/ \E p \in Consumers : Consumer(p)
    \/ Users \/ Stopped

\* A process that can go on does; nobody has to be started or killed.
Spec ==
    /\ Init /\ [][Next]_vars
    /\ \A p \in Producers : WF_vars(Producer(p))
    /\ \A p \in Consumers : WF_vars(Consumer(p))
-----------------------------------------------------------------------------
\* The type of the state; a process that waits in open or is in its loop has
\* the FIFOs open that it should.
TypeOK ==
    /\ fifo \in [Names -> Producers \cup {None}]
    /\ contents \in [Names -> [Producers -> Seq(0..MAX_SHELF)]]
    /\ fd \in [Procs -> [Names -> Producers \cup {None}]]
    /\ shelf_count \in [Procs -> 0..MAX_SHELF]
    /\ killed \subseteq Procs /\ lost \in BOOLEAN
    /\ \A p \in Procs :
         /\ pc[p] \in {"wait1", "open2"} =>
              fd[p]["p2c"] # None /\ fd[p]["c2p"] = None
         /\ pc[p] \in {"wait2", "send", "read", "write", "close1"} =>
              \A f \in Names : fd[p][f] # None
         /\ pc[p] \in {"off", "make1", "make2", "open1", "remove1", "remove2", "done"} =>
              \A f \in Names : fd[p][f] = None

\* The counts on their way: in a FIFO, each at its place, or in the hands of a
\* process that has read one and not yet written; and the producers that have
\* sent their first.
InFifos ==
    UNION {{<<f, n, k>> : k \in DOMAIN contents[f][n]} : f \in Names, n \in Producers}

InHand == {p \in Procs : pc[p] = "write"}

HaveSent ==
    {p \in Producers : pc[p] \notin {"off", "make1", "make2", "open1", "wait1", "open2",
                                     "wait2", "send"}}

\* The counts in flight: what goes to a consumer is a full shelf and what comes
\* back is one short of it, however many processes share the FIFOs, and there
\* are never more counts than producers that have sent their first; so no FIFO
\* fills up, and neither program ever takes its "full" or "empty" branch.
ShelfCounts ==
    /\ Cardinality(InFifos) + Cardinality(InHand) <= Cardinality(HaveSent)
    /\ \A n \in Producers :
         /\ Range(contents["p2c"][n]) \subseteq {MAX_SHELF}
         /\ Range(contents["c2p"][n]) \subseteq {MAX_SHELF - 1}

\* "The order is important to prevent deadlock": a producer and a consumer that
\* have got to their FIFOs pass counts to and fro, for ever, unless one of
\* the two is killed, somebody is killed with a count on its way, or a producer
\* has removed the FIFOs.
KeepsGoing ==
    \A p \in Producers, c \in Consumers :
        (/\ pc[p] \in {"open1", "wait1", "open2", "wait2", "send", "read", "write"}
         /\ pc[c] \in {"wait1", "open2", "wait2", "read", "write"})
          ~> (\/ \E q \in Consumers : pc[q] = "write"
              \/ {p, c} \cap killed # {} \/ lost
              \/ \E q \in Producers : pc[q] \in {"remove1", "remove2", "done"})

\* A process in its loop ends once its partners have ended: by the end of file
\* or by SIGPIPE.
PartnerGoneEnds ==
    \A p \in Procs :
        (/\ pc[p] \in {"send", "read", "write"}
         /\ \A q \in Others(p) : pc[q] = "done") ~> (pc[p] = "done")

-----------------------------------------------------------------------------
\* "it means another process (or a previous run) created it" (producer, line
\* 23): a producer may take the FIFOs it finds, and waits where a consumer can
\* come.  It fails: the one that created them may be about to remove them.
WaitsAtTheName ==
    \A p \in Producers : pc[p] = "wait1" => fifo["p2c"] = fd[p]["p2c"]
=============================================================================
