----------------------------- MODULE ShelfProofs -----------------------------
(***************************************************************************)
(* The counts of the shelf (module Shelf), for any number of producers and *)
(* consumers, any size of the shelf, and kills at any point.               *)
(***************************************************************************)
EXTENDS Shelf, SequenceTheorems, FiniteSetTheorems, TLAPS

Pcs == {"off", "make1", "make2", "open1", "wait1", "open2", "wait2", "send", "read", "write",
        "close1", "close2", "remove1", "remove2", "done"}

\* Where a producer has not sent its first count yet.
Early == {"off", "make1", "make2", "open1", "wait1", "open2", "wait2", "send"}

Types ==
    /\ fifo \in [Names -> Producers \cup {None}]
    /\ contents \in [Names -> [Producers -> Seq(0..MAX_SHELF)]]
    /\ fd \in [Procs -> [Names -> Producers \cup {None}]]
    /\ pc \in [Procs -> Pcs]
    /\ shelf_count \in [Procs -> 0..MAX_SHELF]
    /\ killed \subseteq Procs /\ lost \in BOOLEAN

\* What a process at s has open.
Fits(d, s) ==
    /\ s \in {"wait1", "open2"} => d["p2c"] # None /\ d["c2p"] = None
    /\ s \in {"wait2", "send", "read", "write", "close1"} => \A f \in Names : d[f] # None
    /\ s = "close2" => d["p2c"] = None
    /\ s \in {"off", "make1", "make2", "open1", "remove1", "remove2", "done"} =>
         \A f \in Names : d[f] = None

\* The count that travels in the FIFOs of the name f: a full shelf to the
\* consumers, and one short of it back.
Travels(f) == IF f = "p2c" THEN MAX_SHELF ELSE MAX_SHELF - 1

\* A process answers what it reads with what travels in the other direction,
\* and the first count a producer sends is a full shelf.
Values ==
    /\ \A f \in Names, n \in Producers :
         \A k \in 1..Len(contents[f][n]) : contents[f][n][k] = Travels(f)
    /\ \A p \in Producers : shelf_count[p] = MAX_SHELF
    /\ \A p \in Procs : pc[p] = "write" => shelf_count[p] = Travels(Out(p))
    /\ \A p \in Procs : pc[p] = "send" => p \in Producers

Counts ==
    /\ IsFiniteSet(InFifos)
    /\ Cardinality(InFifos) + Cardinality(InHand) <= Cardinality(HaveSent)

IInv == Types /\ (\A p \in Procs : Fits(fd[p], pc[p])) /\ Values /\ Counts

-----------------------------------------------------------------------------
\* The counts in the FIFOs are where the contents are.
LEMMA OnItsWay ==
  /\ \A f \in Names, n \in Producers :
       \A k : <<f, n, k>> \in InFifos <=> k \in DOMAIN contents[f][n]
  /\ \A t \in InFifos : \E f \in Names, n \in Producers :
       \E k \in DOMAIN contents[f][n] : t = <<f, n, k>>
<1> DEFINE At(f, n) == {<<f, n, k>> : k \in DOMAIN contents[f][n]}
<1>1. InFifos = UNION {At(f, n) : f \in Names, n \in Producers}
  BY DEF InFifos
<1>2. \A f, n, t : t \in At(f, n) <=> \E k \in DOMAIN contents[f][n] : t = <<f, n, k>>
  OBVIOUS
<1> HIDE DEF At
<1>3. \A t : t \in InFifos <=> \E f \in Names, n \in Producers : t \in At(f, n)
  BY <1>1
<1> QED
  BY <1>2, <1>3

\* And so they are after a step.
LEMMA LaterOnItsWay ==
  /\ \A f \in Names, n \in Producers :
       \A k : <<f, n, k>> \in InFifos' <=> k \in DOMAIN contents'[f][n]
  /\ \A t \in InFifos' : \E f \in Names, n \in Producers :
       \E k \in DOMAIN contents'[f][n] : t = <<f, n, k>>
<1> DEFINE At(f, n) == {<<f, n, k>> : k \in DOMAIN contents'[f][n]}
<1>1. InFifos' = UNION {At(f, n) : f \in Names, n \in Producers}
  BY DEF InFifos
<1>2. \A f, n, t : t \in At(f, n) <=> \E k \in DOMAIN contents'[f][n] : t = <<f, n, k>>
  OBVIOUS
<1> HIDE DEF At
<1>3. \A t : t \in InFifos' <=> \E f \in Names, n \in Producers : t \in At(f, n)
  BY <1>1
<1> QED
  BY <1>2, <1>3

\* There are finitely many hands, and finitely many who have sent.
LEMMA HandsFinite ==
  /\ IsFiniteSet(InHand) /\ IsFiniteSet(HaveSent)
  /\ Cardinality(InHand) \in Nat /\ Cardinality(HaveSent) \in Nat
<1>1. IsFiniteSet(Procs)
  BY ProcsFinite, FS_Union DEF Procs
<1>2. InHand \subseteq Procs /\ HaveSent \subseteq Producers
  BY DEF InHand, HaveSent
<1> QED
  BY <1>1, <1>2, ProcsFinite, FS_Subset, FS_CardinalityType

\* Counts may be lost, but none appears: nobody has a count in hand that had
\* none, and nobody is back where it has not sent.
LEMMA CountsShrink ==
  ASSUME Types, Types', Counts,
         \A f \in Names, n \in Producers : contents'[f][n] \in {contents[f][n], <<>>},
         \A p \in Procs : pc'[p] = "write" => pc[p] = "write",
         \A p \in Producers : pc'[p] \in Early => pc[p] \in Early
  PROVE  Counts'
<1>1. InFifos' \subseteq InFifos
  <2> SUFFICES ASSUME NEW f \in Names, NEW n \in Producers, NEW k \in DOMAIN contents'[f][n]
               PROVE  <<f, n, k>> \in InFifos
    BY DEF InFifos
  <2>1. DOMAIN <<>> = {}
    OBVIOUS
  <2>2. k \in DOMAIN contents[f][n]
    BY <2>1
  <2> QED
    BY <2>2, OnItsWay
<1>2. InHand' \subseteq InHand
  BY DEF InHand
<1>3. HaveSent \subseteq HaveSent'
  BY DEF HaveSent, Early
<1>4. IsFiniteSet(InFifos') /\ Cardinality(InFifos') <= Cardinality(InFifos)
      /\ Cardinality(InFifos') \in Nat /\ Cardinality(InFifos) \in Nat
  BY <1>1, FS_Subset, FS_CardinalityType DEF Counts
<1>5. Cardinality(InHand') <= Cardinality(InHand) /\ Cardinality(InHand') \in Nat
  BY <1>2, HandsFinite, FS_Subset, FS_CardinalityType
<1>6. Cardinality(HaveSent) <= Cardinality(HaveSent') /\ Cardinality(HaveSent') \in Nat
  <2>1. IsFiniteSet(HaveSent')
    <3>1. HaveSent' \subseteq Producers
      BY DEF HaveSent
    <3> QED
      BY <3>1, ProcsFinite, FS_Subset
  <2> QED
    BY <1>3, <2>1, FS_Subset, FS_CardinalityType
<1>7. Cardinality(InFifos) + Cardinality(InHand) <= Cardinality(HaveSent)
      /\ Cardinality(InHand) \in Nat /\ Cardinality(HaveSent) \in Nat
  BY HandsFinite DEF Counts
<1> QED
  BY <1>4, <1>5, <1>6, <1>7 DEF Counts

\* A process goes on, and a name may be made or removed.
LEMMA MoveKeeps ==
  ASSUME IInv, NEW p \in Procs, NEW to \in Pcs \ {"write", "send"},
         pc' = [pc EXCEPT ![p] = to], to \in Early => pc[p] \in Early, Fits(fd[p], to),
         fifo' \in [Names -> Producers \cup {None}],
         UNCHANGED <<contents, fd, shelf_count, killed, lost>>
  PROVE  IInv'
<1>1. /\ pc' \in [Procs -> Pcs] /\ pc'[p] = to
      /\ \A q \in Procs : q # p => pc'[q] = pc[q]
  BY DEF IInv, Types
<1>2. Types'
  BY <1>1 DEF IInv, Types
<1>3. \A q \in Procs : Fits(fd[q], pc'[q])
  BY <1>1 DEF IInv
<1>4. Values'
  BY <1>1 DEF IInv, Values
<1>5. Counts'
  <2>1. \A q \in Producers : q \in Procs
    BY DEF Procs
  <2> QED
    BY <1>1, <1>2, <2>1, CountsShrink DEF IInv
<1> QED
  BY <1>2, <1>3, <1>4, <1>5 DEF IInv

\* A process closes FIFOs of these names, and may leave them empty.
LEMMA CloseKeeps ==
  ASSUME IInv, NEW p \in Procs, NEW to \in Pcs \ (Early \cup {"write"}), NEW names,
         pc' = [pc EXCEPT ![p] = to], Closing(p, names),
         Fits([f \in Names |-> IF f \in names THEN None ELSE fd[p][f]], to),
         UNCHANGED <<fifo, shelf_count>>, killed' \subseteq Procs, lost' \in BOOLEAN
  PROVE  IInv'
<1> DEFINE d == [f \in Names |-> IF f \in names THEN None ELSE fd[p][f]]
<1>1. /\ pc' \in [Procs -> Pcs] /\ pc'[p] = to
      /\ \A q \in Procs : q # p => pc'[q] = pc[q]
  BY DEF IInv, Types
<1>2. d \in [Names -> Producers \cup {None}]
  BY DEF IInv, Types
<1>3. fd' = [fd EXCEPT ![p] = d]
  BY DEF Closing
<1>4. Fits(d, to)
  OBVIOUS
<1> HIDE DEF d
<1>5. /\ fd' \in [Procs -> [Names -> Producers \cup {None}]]
      /\ fd'[p] = d /\ \A q \in Procs : q # p => fd'[q] = fd[q]
  BY <1>2, <1>3 DEF IInv, Types
<1>6. /\ contents' \in [Names -> [Producers -> Seq(0..MAX_SHELF)]]
      /\ \A f \in Names, n \in Producers : contents'[f][n] \in {contents[f][n], <<>>}
  <2>1. <<>> \in Seq(0..MAX_SHELF)
    OBVIOUS
  <2>2. contents' = [f \in Names |-> [n \in Producers |->
                      IF \E q \in Procs : fd'[q][f] = n THEN contents[f][n] ELSE <<>>]]
    BY DEF Closing
  <2>3. contents \in [Names -> [Producers -> Seq(0..MAX_SHELF)]]
    BY DEF IInv, Types
  <2> QED
    BY <2>1, <2>2, <2>3
<1>7. Types'
  BY <1>1, <1>5, <1>6 DEF IInv, Types
<1>8. \A q \in Procs : Fits(fd'[q], pc'[q])
  BY <1>1, <1>4, <1>5 DEF IInv
<1>9. Values'
  <2>1. Len(<<>>) = 0
    OBVIOUS
  <2>2. ASSUME NEW f \in Names, NEW n \in Producers, NEW k \in 1..Len(contents'[f][n])
        PROVE  contents'[f][n][k] = Travels(f)
    <3>1. contents'[f][n] = contents[f][n]
      BY <1>6, <2>1
    <3> QED
      BY <3>1 DEF IInv, Values
  <2> QED
    BY <1>1, <2>2 DEF IInv, Values, Early
<1>10. Counts'
  <2>1. \A q \in Producers : q \in Procs
    BY DEF Procs
  <2> QED
    BY <1>1, <1>6, <1>7, <2>1, CountsShrink DEF IInv
<1> QED
  BY <1>7, <1>8, <1>9, <1>10 DEF IInv

\* Opening lets the process and those who wait for it go on.
LEMMA OpenKeeps ==
  ASSUME IInv, NEW p \in Procs,
         Open(p, "p2c", "open1") \/ Open(p, "c2p", "open2")
  PROVE  IInv'
<1>1. PICK f \in Names : /\ Open(p, f, IF f = "p2c" THEN "open1" ELSE "open2")
                         /\ Waiting(f) = IF f = "p2c" THEN "wait1" ELSE "wait2"
  BY DEF Names, Waiting
<1> DEFINE partners == {q \in Others(p) : fd[q][f] = fifo[f]}
<1>2. /\ pc[p] = IF f = "p2c" THEN "open1" ELSE "open2"
      /\ fifo[f] # None /\ fd' = [fd EXCEPT ![p][f] = fifo[f]]
      /\ pc' = [q \in Procs |->
                CASE q = p -> IF partners = {} THEN Waiting(f) ELSE Opened(p, f)
                  [] q \in partners /\ pc[q] = Waiting(f) -> Opened(q, f)
                  [] OTHER -> pc[q]]
      /\ UNCHANGED <<fifo, contents, shelf_count, killed, lost>>
  BY <1>1 DEF Open
<1> HIDE DEF partners
<1>3. \A q \in Procs :
        Opened(q, f) = IF f = "p2c" THEN "open2" ELSE IF q \in Producers THEN "send" ELSE "read"
  <2>1. \A q \in Procs : ~(q \in Producers /\ q \in Consumers)
    BY RolesAssumption
  <2>2. CASE f = "p2c"
    BY <2>2 DEF Opened
  <2>3. CASE f = "c2p"
    BY <2>1, <2>3 DEF Opened, Procs
  <2> QED
    BY <2>2, <2>3 DEF Names
\* Whoever goes on does so from where it opens or waits.
<1>4. ASSUME NEW q \in Procs
      PROVE  \/ q # p /\ pc'[q] = pc[q]
             \/ q # p /\ pc[q] = Waiting(f) /\ pc'[q] = Opened(q, f)
             \/ q = p /\ pc'[q] \in {Waiting(f), Opened(q, f)}
  BY <1>2
<1>5. pc' \in [Procs -> Pcs]
  <2>1. \A q \in Procs : pc'[q] \in Pcs
    BY <1>1, <1>3, <1>4 DEF IInv, Types, Pcs
  <2> QED
    BY <1>2, <2>1
<1>6. /\ fd' \in [Procs -> [Names -> Producers \cup {None}]]
      /\ fd'[p][f] = fifo[f] /\ \A g \in Names : g # f => fd'[p][g] = fd[p][g]
      /\ \A q \in Procs : q # p => fd'[q] = fd[q]
  BY <1>2 DEF IInv, Types
<1>7. Types'
  BY <1>2, <1>5, <1>6 DEF IInv, Types
<1>8. ASSUME NEW q \in Procs PROVE Fits(fd'[q], pc'[q])
  <2>1. CASE q # p /\ pc'[q] = pc[q]
    BY <1>6, <2>1 DEF IInv
  <2>2. CASE q # p /\ pc[q] = Waiting(f) /\ pc'[q] = Opened(q, f)
    <3>1. Fits(fd[q], pc[q]) /\ fd'[q] = fd[q]
      BY <1>6, <2>2 DEF IInv
    <3>2. CASE f = "p2c"
      BY <1>1, <1>3, <2>2, <3>1, <3>2 DEF Fits
    <3>3. CASE f # "p2c"
      BY <1>1, <1>3, <2>2, <3>1, <3>3 DEF Fits
    <3> QED
      BY <3>2, <3>3
  <2>3. CASE q = p /\ pc'[q] \in {Waiting(f), Opened(q, f)}
    <3>1. Fits(fd[p], pc[p])
      BY DEF IInv
    <3>2. CASE f = "p2c"
      <4>1. fd'[p]["p2c"] # None /\ fd'[p]["c2p"] = None
        BY <1>2, <1>6, <3>1, <3>2 DEF Fits, Names
      <4>2. pc'[q] \in {"wait1", "open2"}
        BY <1>1, <1>3, <2>3, <3>2
      <4> QED
        BY <2>3, <4>1, <4>2 DEF Fits
    <3>3. CASE f = "c2p"
      <4>1. \A g \in Names : fd'[p][g] # None
        BY <1>2, <1>6, <3>1, <3>3 DEF Fits, Names
      <4>2. pc'[q] \in {"wait2", "send", "read"}
        BY <1>1, <1>3, <2>3, <3>3
      <4> QED
        BY <2>3, <4>1, <4>2 DEF Fits
    <3> QED
      BY <3>2, <3>3 DEF Names
  <2> QED
    BY <1>4, <2>1, <2>2, <2>3
<1>9. \A q \in Procs : /\ pc'[q] = "write" => pc[q] = "write"
                       /\ pc'[q] = "send" => pc[q] = "send" \/ q \in Producers
                       /\ pc'[q] \in Early => pc[q] \in Early
  <2> SUFFICES ASSUME NEW q \in Procs
               PROVE  /\ pc'[q] = "write" => pc[q] = "write"
                      /\ pc'[q] = "send" => pc[q] = "send" \/ q \in Producers
                      /\ pc'[q] \in Early => pc[q] \in Early
    OBVIOUS
  <2>1. CASE pc'[q] = pc[q]
    BY <2>1
  <2>2. CASE pc[q] \in Early /\ pc'[q] \in {Waiting(f), Opened(q, f)}
    BY <1>1, <1>3, <2>2
  <2>3. Waiting(f) \in Early /\ (q = p => pc[q] \in Early)
    BY <1>1, <1>2 DEF Early
  <2> QED
    BY <1>4, <2>1, <2>2, <2>3
<1>10. Values'
  BY <1>2, <1>9 DEF IInv, Values
<1>11. Counts'
  <2>1. \A q \in Producers : q \in Procs
    BY DEF Procs
  <2> QED
    BY <1>2, <1>7, <1>9, <2>1, CountsShrink DEF IInv
<1> QED
  BY <1>7, <1>8, <1>10, <1>11 DEF IInv

-----------------------------------------------------------------------------
\* What a process in its loop reads and writes.
LEMMA Loop ==
  ASSUME IInv, NEW p \in Procs, pc[p] \in {"send", "read", "write"}
  PROVE  /\ In(p) \in Names /\ Out(p) \in Names /\ In(p) # Out(p)
         /\ fd[p][In(p)] \in Producers /\ fd[p][Out(p)] \in Producers
<1>1. In(p) \in Names /\ Out(p) \in Names /\ In(p) # Out(p)
  BY DEF In, Out, Names
<1>2. \A f \in Names : fd[p][f] \in Producers
  BY DEF IInv, Types, Fits
<1> QED
  BY <1>1, <1>2

\* A count goes from its FIFO into the hands of its reader.
LEMMA ReadKeeps ==
  ASSUME IInv, NEW p \in Procs, Read(p)
  PROVE  IInv'
<1> DEFINE f == In(p)
           n == fd[p][f]
           s == contents[f][n]
<1>1. /\ pc[p] = "read" /\ pc' = [pc EXCEPT ![p] = "write"] /\ s # <<>>
      /\ shelf_count' = [shelf_count EXCEPT ![p] =
            IF p \in Producers THEN Add(Head(s)) ELSE Take(Head(s))]
      /\ contents' = [contents EXCEPT ![f][n] = Tail(s)]
      /\ UNCHANGED <<fifo, fd, killed, lost>>
  BY DEF Read, Goes
<1>2. f \in Names /\ n \in Producers /\ f = In(p)
  BY <1>1, Loop
<1>3. /\ contents \in [Names -> [Producers -> Seq(0..MAX_SHELF)]]
      /\ s \in Seq(0..MAX_SHELF) /\ MAX_SHELF \in Nat \ {0}
  BY <1>2, ShelfAssumption DEF IInv, Types
<1> HIDE DEF n, f
<1>4. /\ Len(s) \in Nat \ {0} /\ Head(s) = s[1] /\ DOMAIN s = 1..Len(s)
      /\ Tail(s) \in Seq(0..MAX_SHELF) /\ Len(Tail(s)) = Len(s) - 1
      /\ DOMAIN Tail(s) = 1..(Len(s) - 1)
      /\ \A k \in 1..(Len(s) - 1) : Tail(s)[k] = s[k + 1]
  <2> HIDE DEF s
  <2>1. Len(s) \in Nat \ {0} /\ Head(s) = s[1] /\ DOMAIN s = 1..Len(s)
    BY <1>1, <1>3
  <2>2. /\ Tail(s) \in Seq(0..MAX_SHELF) /\ Len(Tail(s)) = Len(s) - 1
        /\ \A k \in 1..(Len(s) - 1) : Tail(s)[k] = s[k + 1]
    BY <1>1, <1>3
  <2> QED
    BY <2>1, <2>2
<1>5. /\ contents' \in [Names -> [Producers -> Seq(0..MAX_SHELF)]]
      /\ contents'[f][n] = Tail(s)
      /\ \A g \in Names, m \in Producers :
           <<g, m>> # <<f, n>> => contents'[g][m] = contents[g][m]
  <2>1. Tail(s) \in Seq(0..MAX_SHELF)
    BY <1>4
  <2> DEFINE rest == Tail(s)
  <2> HIDE DEF rest, s
  <2>2. rest \in Seq(0..MAX_SHELF) /\ contents' = [contents EXCEPT ![f][n] = rest]
    BY <1>1, <2>1 DEF rest
  <2>3. /\ contents' \in [Names -> [Producers -> Seq(0..MAX_SHELF)]]
        /\ contents'[f][n] = rest
        /\ \A g \in Names, m \in Producers :
             (g # f \/ m # n) => contents'[g][m] = contents[g][m]
    BY <1>2, <1>3, <2>2
  <2> QED
    BY <2>3 DEF rest
<1>6. /\ pc' \in [Procs -> Pcs] /\ pc'[p] = "write"
      /\ \A q \in Procs : q # p => pc'[q] = pc[q]
  BY <1>1 DEF IInv, Types, Pcs
\* The answer: a full shelf is taken from, and filled up again.
<1>7. shelf_count'[p] = Travels(Out(p)) /\ shelf_count'[p] \in 0..MAX_SHELF
  <2>1. s[1] = Travels(f)
    BY <1>2, <1>4 DEF IInv, Values
  <2>2. shelf_count'[p] = IF p \in Producers THEN Add(Travels(f)) ELSE Take(Travels(f))
    BY <1>1, <1>4, <2>1 DEF IInv, Types
  <2>3. CASE p \in Producers
    BY <1>2, <1>3, <2>2, <2>3 DEF In, Out, Travels, Add
  <2>4. CASE p \notin Producers
    BY <1>2, <1>3, <2>2, <2>4 DEF In, Out, Travels, Take
  <2> QED
    BY <2>3, <2>4
<1>8. /\ shelf_count' \in [Procs -> 0..MAX_SHELF]
      /\ \A q \in Procs : q # p => shelf_count'[q] = shelf_count[q]
  <2> DEFINE x == IF p \in Producers THEN Add(Head(s)) ELSE Take(Head(s))
  <2>1. shelf_count \in [Procs -> 0..MAX_SHELF] /\ shelf_count' = [shelf_count EXCEPT ![p] = x]
    BY <1>1 DEF IInv, Types
  <2> HIDE DEF x
  <2> QED
    BY <1>7, <2>1
<1>9. Types'
  BY <1>1, <1>5, <1>6, <1>8 DEF IInv, Types
<1>10. \A q \in Procs : Fits(fd'[q], pc'[q])
  <2>1. Fits(fd[p], "write")
    BY <1>1 DEF IInv, Fits
  <2> QED
    BY <1>1, <1>6, <2>1 DEF IInv
<1>11. Values'
  <2>1. ASSUME NEW g \in Names, NEW m \in Producers, NEW k \in 1..Len(contents'[g][m])
        PROVE  contents'[g][m][k] = Travels(g)
    <3>1. CASE g = f /\ m = n
      <4>1. k \in 1..(Len(s) - 1) /\ contents'[g][m][k] = s[k + 1]
        BY <1>4, <1>5, <3>1
      <4>2. k + 1 \in 1..Len(contents[f][n])
        BY <1>4, <4>1
      <4> QED
        BY <1>2, <3>1, <4>1, <4>2 DEF IInv, Values
    <3>2. CASE ~(g = f /\ m = n)
      <4>1. contents'[g][m] = contents[g][m]
        BY <1>5, <3>2
      <4> QED
        BY <4>1 DEF IInv, Values
    <3> QED
      BY <3>1, <3>2
  <2>2. ASSUME NEW q \in Producers PROVE shelf_count'[q] = MAX_SHELF
    <3>1. q \in Procs
      BY DEF Procs
    <3>2. q = p => Travels(Out(p)) = MAX_SHELF
      BY DEF Travels, Out
    <3> QED
      BY <1>7, <1>8, <3>1, <3>2 DEF IInv, Values
  <2>3. ASSUME NEW q \in Procs, pc'[q] = "write" PROVE shelf_count'[q] = Travels(Out(q))
    BY <1>6, <1>7, <1>8, <2>3 DEF IInv, Values
  <2>4. ASSUME NEW q \in Procs, pc'[q] = "send" PROVE q \in Producers
    BY <1>6, <2>4 DEF IInv, Values
  <2> QED
    BY <2>1, <2>2, <2>3, <2>4 DEF Values
<1>12. Counts'
  <2> DEFINE t == <<f, n, Len(s)>>
  <2>1. InFifos' = InFifos \ {t}
    <3>1. ASSUME NEW g \in Names, NEW m \in Producers, NEW k
          PROVE  <<g, m, k>> \in InFifos' <=> <<g, m, k>> \in InFifos /\ <<g, m, k>> # t
      <4>1. /\ <<g, m, k>> \in InFifos' <=> k \in DOMAIN contents'[g][m]
            /\ <<g, m, k>> \in InFifos <=> k \in DOMAIN contents[g][m]
        BY OnItsWay, LaterOnItsWay
      <4>2. CASE g = f /\ m = n
        <5>1. k \in 1..(Len(s) - 1) <=> k \in 1..Len(s) /\ k # Len(s)
          BY <1>4
        <5> QED
          BY <1>4, <1>5, <4>1, <4>2, <5>1
      <4>3. CASE ~(g = f /\ m = n)
        BY <1>5, <4>1, <4>3
      <4> QED
        BY <4>2, <4>3
    <3> HIDE DEF t
    <3> QED
      BY <3>1, OnItsWay, LaterOnItsWay
  <2>2. t \in InFifos
    BY <1>2, <1>4, OnItsWay
  <2>3. InHand' = InHand \cup {p} /\ p \notin InHand
    BY <1>1, <1>6 DEF InHand
  <2>4. HaveSent' = HaveSent
    <3>1. \A q \in Producers : pc'[q] \in Early <=> pc[q] \in Early
      BY <1>1, <1>6 DEF Procs, Early
    <3> QED
      BY <3>1 DEF HaveSent, Early
  <2> HIDE DEF t
  <2>5. /\ IsFiniteSet(InFifos') /\ Cardinality(InFifos') = Cardinality(InFifos) - 1
        /\ Cardinality(InFifos) \in Nat
    BY <2>1, <2>2, FS_RemoveElement, FS_CardinalityType DEF IInv, Counts
  <2>6. Cardinality(InHand') = Cardinality(InHand) + 1 /\ Cardinality(InHand) \in Nat
    BY <2>3, HandsFinite, FS_AddElement
  <2>7. /\ Cardinality(InFifos) + Cardinality(InHand) <= Cardinality(HaveSent)
        /\ Cardinality(HaveSent) \in Nat
    BY HandsFinite DEF IInv, Counts
  <2> QED
    BY <2>4, <2>5, <2>6, <2>7 DEF Counts
<1> QED
  BY <1>9, <1>10, <1>11, <1>12 DEF IInv

\* A count goes into a FIFO, from the hands of its writer or as a producer's first.
LEMMA WriteKeeps ==
  ASSUME IInv, NEW p \in Procs, Write(p)
  PROVE  IInv'
<1> DEFINE f == Out(p)
           n == fd[p][f]
           s == contents[f][n]
           x == shelf_count[p]
           w == Append(s, x)
<1>1. /\ pc[p] \in {"send", "write"} /\ pc' = [pc EXCEPT ![p] = "read"]
      /\ contents' = [contents EXCEPT ![f][n] = w]
      /\ UNCHANGED <<fifo, fd, shelf_count, killed, lost>>
  BY DEF Write
<1>2. f \in Names /\ n \in Producers /\ f = Out(p)
  BY <1>1, Loop
<1>3. /\ contents \in [Names -> [Producers -> Seq(0..MAX_SHELF)]]
      /\ s \in Seq(0..MAX_SHELF) /\ x \in 0..MAX_SHELF
  BY <1>2 DEF IInv, Types
<1>4. x = Travels(f)
  <2>1. CASE pc[p] = "write"
    BY <2>1 DEF IInv, Values
  <2>2. CASE pc[p] = "send"
    BY <2>2 DEF IInv, Values, Out, Travels
  <2> QED
    BY <1>1, <2>1, <2>2
<1> HIDE DEF n, f, x
<1>5. /\ Len(s) \in Nat /\ DOMAIN s = 1..Len(s)
      /\ w \in Seq(0..MAX_SHELF) /\ Len(w) = Len(s) + 1 /\ DOMAIN w = 1..(Len(s) + 1)
      /\ w[Len(s) + 1] = x /\ \A k \in 1..Len(s) : w[k] = s[k]
  <2> HIDE DEF s
  <2> QED
    BY <1>3
<1> HIDE DEF w
<1>6. /\ contents' \in [Names -> [Producers -> Seq(0..MAX_SHELF)]]
      /\ contents'[f][n] = w
      /\ \A g \in Names, m \in Producers :
           (g # f \/ m # n) => contents'[g][m] = contents[g][m]
  BY <1>1, <1>2, <1>3, <1>5
<1>7. /\ pc' \in [Procs -> Pcs] /\ pc'[p] = "read"
      /\ \A q \in Procs : q # p => pc'[q] = pc[q]
  BY <1>1 DEF IInv, Types, Pcs
<1>8. Types'
  BY <1>1, <1>6, <1>7 DEF IInv, Types
<1>9. \A q \in Procs : Fits(fd'[q], pc'[q])
  <2>1. Fits(fd[p], "read")
    BY <1>1 DEF IInv, Fits
  <2> QED
    BY <1>1, <1>7, <2>1 DEF IInv
<1>10. Values'
  <2>1. ASSUME NEW g \in Names, NEW m \in Producers, NEW k \in 1..Len(contents'[g][m])
        PROVE  contents'[g][m][k] = Travels(g)
    <3>1. CASE g = f /\ m = n
      <4>1. k \in 1..Len(s) \/ k = Len(s) + 1
        BY <1>5, <1>6, <3>1
      <4>2. CASE k \in 1..Len(s)
        BY <1>2, <1>5, <1>6, <3>1, <4>2 DEF IInv, Values
      <4>3. CASE k = Len(s) + 1
        BY <1>4, <1>5, <1>6, <3>1, <4>3
      <4> QED
        BY <4>1, <4>2, <4>3
    <3>2. CASE g # f \/ m # n
      <4>1. contents'[g][m] = contents[g][m]
        BY <1>6, <3>2
      <4> QED
        BY <4>1 DEF IInv, Values
    <3> QED
      BY <3>1, <3>2
  <2>2. \A q \in Procs : pc'[q] \in {"write", "send"} => pc'[q] = pc[q]
    BY <1>7
  <2> QED
    BY <1>1, <2>1, <2>2 DEF IInv, Values
<1>11. Counts'
  <2> DEFINE t == <<f, n, Len(s) + 1>>
  <2>1. InFifos' = InFifos \cup {t}
    <3>1. ASSUME NEW g \in Names, NEW m \in Producers, NEW k
          PROVE  <<g, m, k>> \in InFifos' <=> <<g, m, k>> \in InFifos \/ <<g, m, k>> = t
      <4>1. /\ <<g, m, k>> \in InFifos' <=> k \in DOMAIN contents'[g][m]
            /\ <<g, m, k>> \in InFifos <=> k \in DOMAIN contents[g][m]
        BY OnItsWay, LaterOnItsWay
      <4>2. CASE g = f /\ m = n
        <5>1. k \in 1..(Len(s) + 1) <=> k \in 1..Len(s) \/ k = Len(s) + 1
          BY <1>5
        <5> QED
          BY <1>5, <1>6, <4>1, <4>2, <5>1
      <4>3. CASE g # f \/ m # n
        BY <1>6, <4>1, <4>3
      <4> QED
        BY <4>2, <4>3
    <3>2. t = <<f, n, Len(s) + 1>>
      OBVIOUS
    <3> HIDE DEF t
    <3> QED
      BY <1>2, <3>1, <3>2, OnItsWay, LaterOnItsWay
  <2>2. t \notin InFifos
    <3>1. Len(s) + 1 \notin DOMAIN contents[f][n]
      BY <1>5
    <3> QED
      BY <1>2, <3>1, OnItsWay
  <2> HIDE DEF t
  <2>3. /\ IsFiniteSet(InFifos') /\ Cardinality(InFifos') = Cardinality(InFifos) + 1
        /\ Cardinality(InFifos) \in Nat
    BY <2>1, <2>2, FS_AddElement, FS_CardinalityType DEF IInv, Counts
  <2>4. /\ Cardinality(InFifos) + Cardinality(InHand) <= Cardinality(HaveSent)
        /\ Cardinality(HaveSent) \in Nat /\ Cardinality(InHand) \in Nat
    BY HandsFinite DEF IInv, Counts
  <2>5. CASE pc[p] = "write"
    <3>1. InHand' = InHand \ {p} /\ p \in InHand
      BY <1>7, <2>5 DEF InHand
    <3>2. Cardinality(InHand') = Cardinality(InHand) - 1
      BY <3>1, HandsFinite, FS_RemoveElement
    <3>3. HaveSent' = HaveSent
      <4>1. \A q \in Producers : pc'[q] \in Early <=> pc[q] \in Early
        BY <1>7, <2>5 DEF Procs, Early
      <4> QED
        BY <4>1 DEF HaveSent, Early
    <3> QED
      BY <2>3, <2>4, <3>2, <3>3 DEF Counts
  <2>6. CASE pc[p] = "send"
    <3>1. InHand' = InHand
      BY <1>7, <2>6 DEF InHand
    <3>2. p \in Producers
      BY <2>6 DEF IInv, Values
    <3>3. HaveSent' = HaveSent \cup {p} /\ p \notin HaveSent
      <4>1. \A q \in Producers : pc'[q] \in Early <=> pc[q] \in Early /\ q # p
        BY <1>7, <2>6 DEF Procs, Early
      <4>2. pc[p] \in Early
        BY <2>6 DEF Early
      <4> QED
        BY <3>2, <4>1, <4>2 DEF HaveSent, Early
    <3>4. Cardinality(HaveSent') = Cardinality(HaveSent) + 1
      BY <3>3, HandsFinite, FS_AddElement
    <3> QED
      BY <2>3, <2>4, <3>1, <3>4 DEF Counts
  <2> QED
    BY <1>1, <2>5, <2>6
<1> QED
  BY <1>8, <1>9, <1>10, <1>11 DEF IInv

-----------------------------------------------------------------------------
\* At first nothing is on its way.
LEMMA InitIInv == Init => IInv
<1> SUFFICES ASSUME Init PROVE IInv
  OBVIOUS
<1>1. <<>> \in Seq(0..MAX_SHELF) /\ Len(<<>>) = 0 /\ DOMAIN <<>> = {}
      /\ MAX_SHELF \in 0..MAX_SHELF
  BY ShelfAssumption
<1>2. Types
  BY <1>1 DEF Init, Types, Pcs
<1>3. \A p \in Procs : Fits(fd[p], pc[p])
  BY DEF Init, Fits
<1>4. Values
  BY <1>1 DEF Init, Values, Procs
<1>5. Counts
  <2>1. InFifos = {}
    BY <1>1, OnItsWay DEF Init
  <2>2. InHand = {}
    BY DEF Init, InHand
  <2> QED
    BY <2>1, <2>2, HandsFinite, FS_EmptySet DEF Counts
<1> QED
  BY <1>2, <1>3, <1>4, <1>5 DEF IInv

\* The end of a process, from where it is.
LEMMA EndKeeps ==
  ASSUME IInv, NEW p \in Procs, Ends(p), killed' \subseteq Procs, lost' \in BOOLEAN
  PROVE  IInv'
<1>1. "done" \in Pcs \ (Early \cup {"write"})
  BY DEF Pcs, Early
<1>2. Fits([f \in Names |-> IF f \in Names THEN None ELSE fd[p][f]], "done")
  BY DEF Fits
<1> QED
  BY <1>1, <1>2, CloseKeeps DEF Ends

\* What producers and consumers do alike.
LEMMA BothKeeps ==
  ASSUME IInv, NEW p \in Procs, Both(p)
  PROVE  IInv'
<1>0. killed \subseteq Procs /\ lost \in BOOLEAN /\ Fits(fd[p], pc[p])
  BY DEF IInv, Types
<1>1. CASE Open(p, "p2c", "open1") \/ Open(p, "c2p", "open2")
  BY <1>1, OpenKeeps
<1>2. CASE OpenFails(p, "p2c", "open1") \/ OpenFails(p, "c2p", "open2") \/ WriteFails(p)
  <2>1. Ends(p) /\ UNCHANGED <<killed, lost>>
    BY <1>2 DEF OpenFails, WriteFails
  <2> QED
    BY <1>0, <2>1, EndKeeps
<1>3. CASE Read(p)
  BY <1>3, ReadKeeps
<1>4. CASE Write(p)
  BY <1>4, WriteKeeps
<1>5. CASE ReadEof(p)
  <2>1. /\ pc[p] = "read" /\ pc' = [pc EXCEPT ![p] = "close1"]
        /\ UNCHANGED <<fifo, contents, fd, shelf_count, killed, lost>>
    BY <1>5 DEF ReadEof, Goes
  <2>2. "close1" \in Pcs \ {"write", "send"} /\ "close1" \notin Early
    BY DEF Pcs, Early
  <2>3. Fits(fd[p], "close1")
    BY <1>0, <2>1 DEF Fits
  <2>4. fifo' \in [Names -> Producers \cup {None}]
    BY <2>1 DEF IInv, Types
  <2> QED
    BY <2>1, <2>2, <2>3, <2>4, MoveKeeps
<1>6. CASE Close(p, "p2c", "close1", "close2")
  <2>1. /\ pc' = [pc EXCEPT ![p] = "close2"] /\ Closing(p, {"p2c"})
        /\ UNCHANGED <<fifo, shelf_count, killed, lost>>
    BY <1>6 DEF Close, Goes
  <2>2. "close2" \in Pcs \ (Early \cup {"write"})
    BY DEF Pcs, Early
  <2>3. Fits([f \in Names |-> IF f \in {"p2c"} THEN None ELSE fd[p][f]], "close2")
    BY DEF Fits, Names
  <2> QED
    BY <1>0, <2>1, <2>2, <2>3, CloseKeeps
<1> QED
  BY <1>1, <1>2, <1>3, <1>4, <1>5, <1>6 DEF Both

\* Closing c2p, the last that is open.
LEMMA CloseLastKeeps ==
  ASSUME IInv, NEW p \in Procs, NEW to \in {"remove1", "done"}, Close(p, "c2p", "close2", to)
  PROVE  IInv'
<1>1. /\ pc[p] = "close2" /\ pc' = [pc EXCEPT ![p] = to] /\ Closing(p, {"c2p"})
      /\ UNCHANGED <<fifo, shelf_count, killed, lost>>
  BY DEF Close, Goes
<1>2. to \in Pcs \ (Early \cup {"write"})
  BY DEF Pcs, Early
<1>3. Fits([f \in Names |-> IF f \in {"c2p"} THEN None ELSE fd[p][f]], to)
  <2>1. fd[p]["p2c"] = None
    BY <1>1 DEF IInv, Fits
  <2> QED
    BY <2>1 DEF Fits, Names
<1>4. killed \subseteq Procs /\ lost \in BOOLEAN
  BY DEF IInv, Types
<1> QED
  BY <1>1, <1>2, <1>3, <1>4, CloseKeeps

\* Making and removing names, while nothing is open.
LEMMA NameKeeps ==
  ASSUME IInv, NEW p \in Producers,
         \/ Make(p, "p2c", "make1", "make2") \/ Make(p, "c2p", "make2", "open1")
         \/ Unlink(p, "p2c", "remove1", "remove2") \/ Unlink(p, "c2p", "remove2", "done")
  PROVE  IInv'
<1>1. PICK f \in Names, to \in {"make2", "open1", "remove2", "done"} :
        /\ pc[p] \in {"make1", "make2", "remove1", "remove2"}
        /\ pc' = [pc EXCEPT ![p] = to]
        /\ to \in {"make2", "open1"} => pc[p] \in {"make1", "make2"}
        /\ fifo' = [fifo EXCEPT ![f] = IF fifo[f] = None THEN p ELSE fifo[f]]
             \/ fifo' = [fifo EXCEPT ![f] = None]
        /\ UNCHANGED <<contents, fd, shelf_count, killed, lost>>
  BY DEF Make, Unlink, Goes, Names
<1>2. p \in Procs /\ to \in Pcs \ {"write", "send"} /\ (to \in Early => pc[p] \in Early)
  BY <1>1 DEF Procs, Pcs, Early
<1>3. Fits(fd[p], to)
  BY <1>1, <1>2 DEF IInv, Fits
<1>4. fifo' \in [Names -> Producers \cup {None}]
  BY <1>1 DEF IInv, Types
<1> QED
  BY <1>1, <1>2, <1>3, <1>4, MoveKeeps

\* Every step, of a process or of whoever starts and kills it.
LEMMA InductiveStep == IInv /\ [Next]_vars => IInv'
<1> SUFFICES ASSUME IInv, [Next]_vars PROVE IInv'
  OBVIOUS
<1>1. CASE \E p \in Producers : Producer(p)
  <2>1. PICK p \in Producers : Producer(p)
    BY <1>1
  <2> QED
    BY <2>1, BothKeeps, CloseLastKeeps, NameKeeps DEF Producer, Procs
<1>2. CASE \E p \in Consumers : Consumer(p)
  <2>1. PICK p \in Consumers : Consumer(p)
    BY <1>2
  <2> QED
    BY <2>1, BothKeeps, CloseLastKeeps DEF Consumer, Procs
<1>3. CASE \E p \in Procs : Start(p)
  <2>1. PICK p \in Procs : Start(p)
    BY <1>3
  <2> DEFINE to == IF p \in Producers THEN "make1" ELSE "open1"
  <2>2. /\ pc[p] = "off" /\ pc' = [pc EXCEPT ![p] = to]
        /\ UNCHANGED <<fifo, contents, fd, shelf_count, killed, lost>>
    BY <2>1 DEF Start, Goes
  <2>3. to \in Pcs \ {"write", "send"} /\ (to \in Early => pc[p] \in Early)
    BY <2>2 DEF Pcs, Early
  <2>4. Fits(fd[p], to)
    BY <2>2 DEF IInv, Fits
  <2>5. fifo' \in [Names -> Producers \cup {None}]
    BY <2>2 DEF IInv, Types
  <2> HIDE DEF to
  <2> QED
    BY <2>2, <2>3, <2>4, <2>5, MoveKeeps
<1>4. CASE \E p \in Procs : Kill(p)
  <2>1. PICK p \in Procs : Kill(p)
    BY <1>4
  <2>2. Ends(p) /\ killed' \subseteq Procs /\ lost' \in BOOLEAN
    BY <2>1 DEF Kill, IInv, Types
  <2> QED
    BY <2>2, EndKeeps
<1>5. CASE UNCHANGED vars
  <2>1. UNCHANGED <<fifo, contents, fd, pc, shelf_count, killed, lost>>
    BY <1>5 DEF vars
  <2>2. Types' /\ Values' /\ Counts' /\ \A p \in Procs : Fits(fd'[p], pc'[p])
    BY <2>1 DEF IInv, Types, Values, Counts, InFifos, InHand, HaveSent
  <2> QED
    BY <2>2 DEF IInv
<1> QED
  BY <1>1, <1>2, <1>3, <1>4, <1>5 DEF Next, Users, Stopped

\* IInv is an invariant of the shelf.
THEOREM Inductive == Spec => []IInv
BY InitIInv, InductiveStep, PTL DEF Spec

-----------------------------------------------------------------------------
\* A process has the FIFOs open that it should where it is, however many
\* processes there are and wherever they are killed.
THEOREM TypesHold == Spec => []TypeOK
<1>1. IInv => TypeOK
  BY DEF IInv, Types, Fits, TypeOK
<1> QED
  BY <1>1, Inductive, PTL

\* No more counts travel than producers have sent one, whatever is shared, closed
\* or killed; what goes to a consumer is a full shelf, and one short of it comes
\* back.
THEOREM CountsHold == Spec => []ShelfCounts
<1>1. IInv => ShelfCounts
  <2> SUFFICES ASSUME IInv PROVE ShelfCounts
    OBVIOUS
  <2>1. ASSUME NEW n \in Producers, NEW f \in Names, NEW x \in Range(contents[f][n])
        PROVE  x = Travels(f)
    <3>1. contents[f][n] \in Seq(0..MAX_SHELF)
      BY DEF IInv, Types
    <3>2. PICK k \in 1..Len(contents[f][n]) : x = contents[f][n][k]
      BY <3>1 DEF Range
    <3> QED
      BY <3>2 DEF IInv, Values
  <2>2. /\ "p2c" \in Names /\ Travels("p2c") = MAX_SHELF
        /\ "c2p" \in Names /\ Travels("c2p") = MAX_SHELF - 1
    BY DEF Names, Travels
  <2> QED
    BY <2>1, <2>2 DEF ShelfCounts, IInv, Counts
<1> QED
  BY <1>1, Inductive, PTL
=============================================================================
