-------------------------- MODULE SimulatorsProofs --------------------------
(***************************************************************************)
(* The sequential programs, on input of any length.  The allocator keeps   *)
(* its list in order and implements the arena for a memory of any size;    *)
(* second chance is a queue, contiguous files lie apart, sstf serves the   *)
(* nearest request, segments do not overlap, the multilevel queue loses    *)
(* nobody, the child threads compute up to overflow what they are asked,   *)
(* and a line typed into a client is a message at the server.              *)
(***************************************************************************)
EXTENDS MCSimulators, SequenceTheorems, FunctionTheorems, FiniteSetTheorems, TLAPS

-----------------------------------------------------------------------------
\* A set of natural numbers that is not empty has a least element.
LEMMA LeastNumber ==
  ASSUME NEW B, B \subseteq Nat, B # {}
  PROVE  \E n \in B : \A k \in B : n <= k
<1> DEFINE T == {0..n : n \in B}
<1>1. T \subseteq FiniteSubsetsOf(Nat) /\ T # {}
  <2>1. \A n \in B : IsFiniteSet(0..n) /\ 0..n \subseteq Nat
    BY FS_Interval
  <2> QED
    BY <2>1 DEF FiniteSubsetsOf
<1>2. \E x \in T : \A y \in T : ~ (<<y, x>> \in StrictSubsetOrdering(Nat))
  <2> HIDE DEF T
  <2> QED
    BY <1>1, FS_StrictSubsetOrderingWellFounded, WFMin
<1>3. PICK n \in B : \A y \in T : ~ (<<y, 0..n>> \in StrictSubsetOrdering(Nat))
  BY <1>2
<1>4. ASSUME NEW k \in B, k < n PROVE FALSE
  <2>1. ~ (<<0..k, 0..n>> \in StrictSubsetOrdering(Nat))
    BY <1>3
  <2>2. n \in Nat /\ k \in Nat
    OBVIOUS
  <2>3. 0..k \subseteq 0..n /\ 0..k \in SUBSET Nat /\ 0..n \in SUBSET Nat
    BY <1>4, <2>2
  <2>4. n \in 0..n /\ n \notin 0..k
    BY <1>4, <2>2
  <2> QED
    BY <2>1, <2>3, <2>4 DEF StrictSubsetOrdering
<1> QED
  BY <1>4

\* A bounded one has a greatest.
LEMMA GreatestNumber ==
  ASSUME NEW B, NEW top \in Nat, B \subseteq 0..top, B # {}
  PROVE  \E n \in B : \A k \in B : k <= n
<1> DEFINE T == {top - n : n \in B}
<1>1. PICK x \in T : \A y \in T : x <= y
  <2>1. \A n \in B : top - n \in Nat
    OBVIOUS
  <2>2. T \subseteq Nat /\ T # {}
    BY <2>1
  <2> HIDE DEF T
  <2> QED
    BY <2>2, LeastNumber
<1>2. PICK n \in B : x = top - n
  OBVIOUS
<1>3. ASSUME NEW k \in B PROVE k <= n
  <2>1. top - n <= top - k
    BY <1>1, <1>2
  <2> QED
    BY <2>1
<1> QED
  BY <1>3

-----------------------------------------------------------------------------
Block == [size : Nat, allocated : BOOLEAN, next : Nat \cup {NULL}, prev : Nat \cup {NULL}]

\* The cell behind a block.
End(b, o) == o + b[o].size

\* The blocks b tile the memory and are linked both ways.
Tiles(b) ==
    /\ DOMAIN b \subseteq Nat /\ b \in [DOMAIN b -> Block]
    /\ 0 \in DOMAIN b /\ b[0].prev = NULL
    /\ \A o \in DOMAIN b :
         /\ b[o].size > 0 /\ End(b, o) <= Size
         /\ \A q \in DOMAIN b : q <= o \/ q >= End(b, o)
         /\ b[o].next = (IF End(b, o) = Size THEN NULL ELSE End(b, o))
         /\ End(b, o) < Size => End(b, o) \in DOMAIN b /\ b[End(b, o)].prev = o

\* Not both the block at o and the one behind it are free.
Apart(b, o) == End(b, o) < Size => b[o].allocated \/ b[End(b, o)].allocated

IInv ==
    /\ Tiles(m) /\ (\A o \in DOMAIN m : Apart(m, o))
    /\ answer \in Nat \cup {NULL}

LEMMA ListFollows == IInv => ListOK
BY DEF IInv, Tiles, Apart, End, ListOK

LEMMA InitIInv == Init => IInv
BY SizeAssumption, NullAssumption DEF Init, IInv, Tiles, Apart, End, Block

LEMMA TileFacts ==
  ASSUME NEW b, Tiles(b), NEW o \in DOMAIN b
  PROVE  /\ o \in Nat /\ b[o] \in Block /\ b[o].size \in Nat \ {0}
         /\ b[o].next \in Nat \cup {NULL} /\ b[o].prev \in Nat \cup {NULL}
         /\ End(b, o) \in Nat /\ o < End(b, o) /\ End(b, o) <= Size
         /\ b[o].next = NULL <=> End(b, o) = Size
         /\ b[o].next # NULL =>
              /\ b[o].next = End(b, o) /\ End(b, o) < Size
              /\ End(b, o) \in DOMAIN b /\ b[End(b, o)].prev = o
<1>1. o \in Nat /\ b[o] \in Block
  BY DEF Tiles
<1>2. b[o].size \in Nat /\ b[o].next \in Nat \cup {NULL} /\ b[o].prev \in Nat \cup {NULL}
  BY <1>1 DEF Block
<1>3. b[o].size > 0 /\ End(b, o) <= Size
  BY DEF Tiles
<1>4. End(b, o) \in Nat /\ o < End(b, o)
  BY <1>1, <1>2, <1>3 DEF End
<1>5. b[o].next = (IF End(b, o) = Size THEN NULL ELSE End(b, o))
  BY DEF Tiles
<1>6. End(b, o) < Size => End(b, o) \in DOMAIN b /\ b[End(b, o)].prev = o
  BY DEF Tiles
<1> QED
  BY <1>1, <1>2, <1>3, <1>4, <1>5, <1>6, SizeAssumption, NullAssumption

\* Every cell is in a block.
LEMMA Covered ==
  ASSUME NEW b, Tiles(b), NEW x \in 0 .. Size - 1
  PROVE  \E o \in DOMAIN b : o <= x /\ x < End(b, o)
<1> USE SizeAssumption
<1> DEFINE B == {o \in DOMAIN b : o <= x}
<1>1. PICK o \in B : \A k \in B : k <= o
  <2>1. B \subseteq 0..x /\ B # {} /\ x \in Nat
    BY DEF Tiles
  <2> HIDE DEF B
  <2> QED
    BY <2>1, GreatestNumber
<1>2. o \in DOMAIN b /\ o \in Nat /\ b[o].size \in Nat \ {0} /\ o <= x
  BY DEF Tiles, Block
<1>3. ASSUME End(b, o) <= x PROVE FALSE
  <2>1. End(b, o) > o /\ End(b, o) < Size
    BY <1>2, <1>3 DEF End
  <2>2. End(b, o) \in DOMAIN b
    BY <1>2, <2>1 DEF Tiles
  <2>3. End(b, o) <= o
    BY <1>1, <1>3, <2>2
  <2> QED
    BY <1>2, <2>1, <2>3 DEF End
<1> QED
  BY <1>2, <1>3 DEF End

\* What prev names is the block before.
LEMMA Before ==
  ASSUME NEW b, Tiles(b), NEW o \in DOMAIN b, b[o].prev # NULL
  PROVE  b[o].prev \in DOMAIN b /\ End(b, b[o].prev) = o
<1> USE SizeAssumption
<1>1. o \in Nat /\ o # 0 /\ o < Size /\ o - 1 \in 0 .. Size - 1
  BY DEF Tiles, Block, End
<1>2. PICK p \in DOMAIN b : p <= o - 1 /\ o - 1 < End(b, p)
  BY <1>1, Covered
<1>3. p \in Nat /\ End(b, p) \in Nat
  BY DEF Tiles, Block, End
<1>4. End(b, p) = o
  BY <1>1, <1>2, <1>3 DEF Tiles
<1> QED
  BY <1>1, <1>4 DEF Tiles

-----------------------------------------------------------------------------
\* What Swallow makes of blocks b when g is the block behind o.
Swallowed(b, o, g) ==
    [q \in DOMAIN b \ {g} |->
       [size |-> IF q = o THEN b[o].size + b[g].size ELSE b[q].size,
        allocated |-> b[q].allocated,
        next |-> IF q = o THEN b[g].next ELSE b[q].next,
        prev |-> IF q = b[g].next THEN o ELSE b[q].prev]]

LEMMA BlockIs ==
  ASSUME NEW r \in Block
  PROVE  r = [size |-> r.size, allocated |-> r.allocated, next |-> r.next, prev |-> r.prev]
BY DEF Block

LEMMA CutIs ==
  ASSUME NEW r \in Block, NEW s \in Nat, NEW n \in Nat
  PROVE  [r EXCEPT !.next = n, !.size = s]
           = [size |-> s, allocated |-> r.allocated, next |-> n, prev |-> r.prev]
<1> DEFINE c == [r EXCEPT !.next = n, !.size = s]
<1>1. c \in Block
  BY DEF Block
<1>2. c.next = n
  BY DEF Block
<1>3. c.size = s
  BY DEF Block
<1>4. c.allocated = r.allocated
  BY DEF Block
<1>5. c.prev = r.prev
  BY DEF Block
<1> QED
  BY <1>1, <1>2, <1>3, <1>4, <1>5, BlockIs

\* Block o gets size s and next n.
Grown(b, o, s, n) == [b EXCEPT ![o].size = s, ![o].next = n]

LEMMA GrowIs ==
  ASSUME NEW D, NEW b \in [D -> Block], NEW o \in D, NEW s \in Nat, NEW n \in Nat \cup {NULL}
  PROVE  /\ Grown(b, o, s, n) \in [D -> Block]
         /\ Grown(b, o, s, n)[o] = [size |-> s, allocated |-> b[o].allocated,
                                    next |-> n, prev |-> b[o].prev]
         /\ \A q \in D \ {o} : Grown(b, o, s, n)[q] = b[q]
<1> DEFINE grown == [b EXCEPT ![o].size = s, ![o].next = n]
           rec == [size |-> s, allocated |-> b[o].allocated, next |-> n, prev |-> b[o].prev]
<1>1. b[o] \in Block /\ rec \in Block
  BY DEF Block
<1>2. b[o] = [size |-> b[o].size, allocated |-> b[o].allocated, next |-> b[o].next, prev |-> b[o].prev]
  BY <1>1, BlockIs
<1>3. b = [q \in D |-> b[q]]
  OBVIOUS
<1>4. grown[o] = rec
  BY <1>2, <1>3
<1>5. \A q \in D \ {o} : grown[q] = b[q]
  BY <1>3
<1>6. DOMAIN grown = D /\ grown = [q \in D |-> grown[q]]
  BY <1>3
<1>7. grown \in [D -> Block]
  <2>1. \A q \in D : grown[q] \in Block
    BY <1>1, <1>4, <1>5
  <2> HIDE DEF grown
  <2> QED
    BY <1>6, <2>1
<1> QED
  BY <1>4, <1>5, <1>7 DEF Grown

LEMMA SwallowIs ==
  ASSUME NEW b, Tiles(b), NEW o \in DOMAIN b, b[o].next # NULL
  PROVE  /\ End(b, o) \in DOMAIN b
         /\ Swallow(b, o) = Swallowed(b, o, End(b, o))
<1> USE SizeAssumption, NullAssumption
<1> DEFINE g == End(b, o)
           D == DOMAIN b
           grown == [b EXCEPT ![o].size = @ + b[g].size, ![o].next = b[g].next]
           kept == Restrict(grown, D \ {g})
<1>1. /\ g \in D /\ g < Size /\ b[o].next = g /\ o < g
      /\ o \in Nat /\ g \in Nat /\ D \subseteq Nat
  BY TileFacts DEF Tiles
<1>2. b \in [D -> Block]
  BY DEF Tiles
<1>3. b[g].next \in D \cup {NULL} /\ b[g].next # g /\ b[g].next # o
  <2>1. b[g].next # NULL => b[g].next \in D /\ b[g].next > g /\ b[g].next \in Nat
    BY <1>1, TileFacts
  <2> QED
    BY <1>1, <2>1
<1>4. /\ grown \in [D -> Block]
      /\ grown[o] = [size |-> b[o].size + b[g].size, allocated |-> b[o].allocated,
                     next |-> b[g].next, prev |-> b[o].prev]
      /\ \A q \in D \ {o} : grown[q] = b[q]
  <2> DEFINE s == b[o].size + b[g].size
             n == b[g].next
  <2>1. s \in Nat /\ n \in Nat \cup {NULL} /\ o \in D
    BY <1>1, TileFacts
  <2>2. grown = Grown(b, o, s, n)
    BY DEF Grown
  <2> HIDE DEF s, n, grown, D
  <2>3. /\ grown \in [D -> Block]
        /\ grown[o] = [size |-> s, allocated |-> b[o].allocated, next |-> n, prev |-> b[o].prev]
        /\ \A q \in D \ {o} : grown[q] = b[q]
    BY <1>2, <2>1, <2>2, GrowIs
  <2> QED
    BY <2>3 DEF s, n
<1>5. kept = [q \in D \ {g} |-> grown[q]]
  BY DEF Restrict
<1>6. Swallow(b, o) = BackLink(kept, b[g].next, o)
  BY <1>1 DEF Swallow
<1>7. CASE b[g].next = NULL
  <2>1. Swallow(b, o) = kept
    BY <1>6, <1>7 DEF BackLink
  <2>2. \A q \in D \ {g} : kept[q] = Swallowed(b, o, g)[q]
    BY <1>1, <1>2, <1>4, <1>5, <1>7 DEF Swallowed, Block
  <2> QED
    BY <1>1, <1>5, <2>1, <2>2 DEF Swallowed
<1>8. CASE b[g].next # NULL
  <2> DEFINE n == b[g].next
  <2>1. Swallow(b, o) = [kept EXCEPT ![n].prev = o]
    BY <1>6, <1>8 DEF BackLink
  <2>2. \A q \in D \ {g} : [kept EXCEPT ![n].prev = o][q] = Swallowed(b, o, g)[q]
    BY <1>1, <1>2, <1>3, <1>4, <1>5, <1>8 DEF Swallowed, Block
  <2> QED
    BY <1>1, <1>5, <2>1, <2>2 DEF Swallowed
<1> QED
  BY <1>1, <1>7, <1>8

\* Blocks r tile the memory and differ from b in o, which has swallowed g.
Swallows(b, o, g, r) ==
    /\ Tiles(r)
    /\ g \in DOMAIN b /\ g # o /\ DOMAIN r = DOMAIN b \ {g}
    /\ End(r, o) = End(b, g)
    /\ \A q \in DOMAIN r : r[q].allocated = b[q].allocated
    /\ \A q \in DOMAIN r \ {o} : r[q].size = b[q].size /\ End(r, q) = End(b, q)

LEMMA SwallowTiles ==
  ASSUME NEW b, Tiles(b), NEW o \in DOMAIN b, b[o].next # NULL
  PROVE  Swallows(b, o, End(b, o), Swallow(b, o))
<1> USE SizeAssumption, NullAssumption
<1> DEFINE g == End(b, o)
           r == Swallow(b, o)
<1>1. /\ g \in DOMAIN b /\ o \in Nat /\ g \in Nat /\ o < g /\ b[o].next = g /\ b[g].prev = o
      /\ b[o].size \in Nat \ {0} /\ b[g].size \in Nat \ {0} /\ g = o + b[o].size
      /\ b[g].next \in Nat \cup {NULL} /\ End(b, g) \in Nat /\ End(b, g) = g + b[g].size
  BY TileFacts DEF End
<1>2. r = Swallowed(b, o, g)
  BY SwallowIs
<1> HIDE DEF g, r
<1>3. /\ DOMAIN r = DOMAIN b \ {g}
      /\ \A q \in DOMAIN r :
           /\ r[q].size = (IF q = o THEN b[o].size + b[g].size ELSE b[q].size)
           /\ r[q].allocated = b[q].allocated
           /\ r[q].next = (IF q = o THEN b[g].next ELSE b[q].next)
           /\ r[q].prev = (IF q = b[g].next THEN o ELSE b[q].prev)
  BY <1>2 DEF Swallowed
<1>4. End(r, o) = End(b, g)
  BY <1>1, <1>3 DEF End
<1>5. \A q \in DOMAIN r \ {o} : r[q].size = b[q].size /\ End(r, q) = End(b, q)
  BY <1>3 DEF End
<1>6. DOMAIN r \subseteq Nat /\ r \in [DOMAIN r -> Block]
  <2>1. DOMAIN b \subseteq Nat /\ \A q \in DOMAIN b : b[q] \in Block
    BY DEF Tiles
  <2>2. \A q \in DOMAIN r : r[q] \in Block
    BY <1>1, <1>2, <1>3, <2>1 DEF Swallowed, Block
  <2>3. r = [q \in DOMAIN r |-> r[q]]
    BY <1>2 DEF Swallowed
  <2> QED
    BY <1>3, <2>1, <2>2, <2>3
<1>7. 0 \in DOMAIN r /\ r[0].prev = NULL
  <2>1. 0 \in DOMAIN b /\ b[0].prev = NULL
    BY DEF Tiles
  <2>2. b[g].next # 0
    BY <1>1, TileFacts
  <2> QED
    BY <1>1, <1>3, <2>1, <2>2
<1>8. ASSUME NEW q \in DOMAIN r
      PROVE  /\ r[q].size > 0 /\ End(r, q) <= Size
             /\ \A x \in DOMAIN r : x <= q \/ x >= End(r, q)
             /\ r[q].next = (IF End(r, q) = Size THEN NULL ELSE End(r, q))
             /\ End(r, q) < Size => End(r, q) \in DOMAIN r /\ r[End(r, q)].prev = q
  <2>1. CASE q = o
    <3>1. r[q].size > 0 /\ End(r, q) <= Size
      BY <1>1, <1>3, <1>4, <2>1, TileFacts
    <3>2. ASSUME NEW x \in DOMAIN r PROVE x <= q \/ x >= End(r, q)
      <4>1. x \in DOMAIN b /\ x # g /\ x \in Nat
        BY <1>3, TileFacts
      <4>2. (x <= o \/ x >= g) /\ (x <= g \/ x >= End(b, g))
        BY <1>1, <4>1 DEF Tiles
      <4> QED
        BY <1>1, <1>4, <2>1, <4>1, <4>2
    <3>3. r[q].next = (IF End(r, q) = Size THEN NULL ELSE End(r, q))
      BY <1>1, <1>3, <1>4, <2>1 DEF Tiles
    <3>4. ASSUME End(r, q) < Size PROVE End(r, q) \in DOMAIN r /\ r[End(r, q)].prev = q
      <4>1. End(b, g) \in DOMAIN b /\ End(b, g) # g /\ b[g].next = End(b, g)
        BY <1>1, <1>4, <2>1, <3>4 DEF Tiles
      <4> QED
        BY <1>3, <1>4, <2>1, <4>1
    <3> QED
      BY <3>1, <3>2, <3>3, <3>4
  <2>2. CASE q # o
    <3>1. q \in DOMAIN b /\ q # g /\ End(r, q) = End(b, q) /\ r[q].next = b[q].next /\ r[q].size = b[q].size
      BY <1>3, <1>5, <2>2
    <3>2. ASSUME End(b, q) < Size PROVE End(b, q) \in DOMAIN r /\ r[End(b, q)].prev = q
      <4>1. End(b, q) \in DOMAIN b /\ b[End(b, q)].prev = q
        BY <3>1, <3>2 DEF Tiles
      <4>2. End(b, q) # g
        BY <1>1, <2>2, <4>1
      <4>3. End(b, q) # b[g].next
        <5>1. b[g].next # NULL => b[b[g].next].prev = g
          BY <1>1, TileFacts
        <5>2. End(b, q) \in Nat
          BY <3>1, TileFacts
        <5> QED
          BY <3>1, <4>1, <5>1, <5>2
      <4> QED
        BY <1>3, <4>1, <4>2, <4>3
    <3>3. \A x \in DOMAIN r : x <= q \/ x >= End(b, q)
      BY <1>3, <3>1 DEF Tiles
    <3>4. /\ b[q].size > 0 /\ End(b, q) <= Size
          /\ b[q].next = (IF End(b, q) = Size THEN NULL ELSE End(b, q))
      BY <3>1 DEF Tiles
    <3> QED
      BY <3>1, <3>2, <3>3, <3>4
  <2> QED
    BY <2>1, <2>2
<1>9. Tiles(r)
  BY <1>6, <1>7, <1>8 DEF Tiles
<1>10. Swallows(b, o, g, r)
  BY <1>1, <1>3, <1>4, <1>5, <1>9 DEF Swallows
<1> QED
  BY <1>10 DEF g, r

-----------------------------------------------------------------------------
\* Marking a block changes nothing of the list.
Mark(b, o, v) == [b EXCEPT ![o].allocated = v]

Marked(b, o, v, r) ==
    /\ Tiles(r) /\ DOMAIN r = DOMAIN b
    /\ \A q \in DOMAIN b : /\ r[q].size = b[q].size /\ End(r, q) = End(b, q)
                           /\ r[q].allocated = (IF q = o THEN v ELSE b[q].allocated)

LEMMA MarkTiles ==
  ASSUME NEW b, Tiles(b), NEW o \in DOMAIN b, NEW v \in BOOLEAN
  PROVE  Marked(b, o, v, Mark(b, o, v))
<1> DEFINE r == Mark(b, o, v)
<1>0. r = [b EXCEPT ![o].allocated = v]
  BY DEF Mark
<1> HIDE DEF r
<1>1. b[o] \in Block /\ b \in [DOMAIN b -> Block]
  BY DEF Tiles
<1>2. b[o] = [size |-> b[o].size, allocated |-> b[o].allocated, next |-> b[o].next, prev |-> b[o].prev]
  BY <1>1, BlockIs
<1>3. DOMAIN r = DOMAIN b /\ r = [q \in DOMAIN r |-> r[q]]
  BY <1>0, <1>1
<1>4. r[o] = [size |-> b[o].size, allocated |-> v, next |-> b[o].next, prev |-> b[o].prev]
  BY <1>0, <1>1, <1>2
<1>5. \A q \in DOMAIN b : q # o => r[q] = b[q]
  BY <1>0, <1>1
<1>6. \A q \in DOMAIN b : r[q] \in Block
  BY <1>1, <1>4, <1>5 DEF Block
<1>7. \A q \in DOMAIN b : /\ r[q].size = b[q].size /\ r[q].next = b[q].next /\ r[q].prev = b[q].prev
                          /\ r[q].allocated = (IF q = o THEN v ELSE b[q].allocated)
  BY <1>4, <1>5
<1>8. \A q \in DOMAIN b : End(r, q) = End(b, q)
  BY <1>7 DEF End
<1>9. DOMAIN r \subseteq Nat /\ r \in [DOMAIN r -> Block] /\ 0 \in DOMAIN r /\ r[0].prev = NULL
  <2>1. DOMAIN b \subseteq Nat /\ 0 \in DOMAIN b /\ b[0].prev = NULL
    BY DEF Tiles
  <2> QED
    BY <1>3, <1>6, <1>7, <2>1
<1>10. ASSUME NEW q \in DOMAIN r
       PROVE  /\ r[q].size > 0 /\ End(r, q) <= Size
              /\ \A x \in DOMAIN r : x <= q \/ x >= End(r, q)
              /\ r[q].next = (IF End(r, q) = Size THEN NULL ELSE End(r, q))
              /\ End(r, q) < Size => End(r, q) \in DOMAIN r /\ r[End(r, q)].prev = q
  <2>1. q \in DOMAIN b /\ End(r, q) = End(b, q)
    BY <1>3, <1>8
  <2>2. /\ b[q].size > 0 /\ End(b, q) <= Size
        /\ \A x \in DOMAIN b : x <= q \/ x >= End(b, q)
        /\ b[q].next = (IF End(b, q) = Size THEN NULL ELSE End(b, q))
        /\ End(b, q) < Size => End(b, q) \in DOMAIN b /\ b[End(b, q)].prev = q
    BY <2>1 DEF Tiles
  <2> QED
    BY <1>3, <1>7, <2>1, <2>2
<1>11. Tiles(r)
  BY <1>9, <1>10 DEF Tiles
<1>12. Marked(b, o, v, r)
  BY <1>3, <1>7, <1>8, <1>11 DEF Marked
<1> QED
  BY <1>12 DEF r

-----------------------------------------------------------------------------
\* What MemSplit makes of blocks b when o is larger than size.
SplitUp(b, o, size) ==
    LET new == o + size
    IN  [q \in DOMAIN b \cup {new} |->
           IF q = new
           THEN [size |-> b[o].size - size, allocated |-> FALSE, next |-> b[o].next, prev |-> o]
           ELSE [size |-> IF q = o THEN size ELSE b[q].size,
                 allocated |-> b[q].allocated,
                 next |-> IF q = o THEN new ELSE b[q].next,
                 prev |-> IF q = b[o].next THEN new ELSE b[q].prev]]

LEMMA SplitIs ==
  ASSUME NEW b, Tiles(b), NEW o \in DOMAIN b, NEW size \in Nat \ {0}, size < b[o].size
  PROVE  /\ o + size \notin DOMAIN b
         /\ MemSplit(b, o, size) = SplitUp(b, o, size)
<1> USE SizeAssumption, NullAssumption
<1> DEFINE D == DOMAIN b
           new == o + size
           n == b[o].next
           rest == [size |-> b[o].size - size, allocated |-> FALSE, next |-> n, prev |-> o]
           linked == BackLink(b, n, new)
           cut == [linked[o] EXCEPT !.next = new, !.size = size]
<1>1. /\ o \in Nat /\ D \subseteq Nat /\ new \in Nat /\ b[o].size \in Nat /\ b[o] \in Block
      /\ End(b, o) \in Nat /\ o < new /\ new < End(b, o) /\ b \in [D -> Block]
  BY TileFacts DEF Tiles, End
<1>2. new \notin D
  <2>1. \A x \in D : x <= o \/ x >= End(b, o)
    BY DEF Tiles
  <2> QED
    BY <1>1, <2>1
<1>3. (n = NULL \/ n \in D) /\ n # o /\ n # new
  BY <1>1, <1>2, TileFacts
<1>4. \A q \in D : linked[q] = [size |-> b[q].size, allocated |-> b[q].allocated, next |-> b[q].next,
                                prev |-> IF q = n THEN new ELSE b[q].prev]
  <2>1. \A q \in D : b[q] = [size |-> b[q].size, allocated |-> b[q].allocated,
                             next |-> b[q].next, prev |-> b[q].prev]
    BY <1>1, BlockIs
  <2>2. CASE n = NULL
    BY <1>1, <2>1, <2>2 DEF BackLink
  <2>3. CASE n # NULL
    <3>1. linked = [b EXCEPT ![n].prev = new] /\ n \in D
      BY <1>3, <2>3 DEF BackLink
    <3>2. linked[n] = [size |-> b[n].size, allocated |-> b[n].allocated, next |-> b[n].next, prev |-> new]
      BY <1>1, <2>1, <3>1
    <3>3. \A q \in D : q # n => linked[q] = b[q]
      BY <1>1, <3>1
    <3> QED
      BY <2>1, <3>2, <3>3
  <2> QED
    BY <2>2, <2>3
<1>5. cut = [size |-> size, allocated |-> b[o].allocated, next |-> new, prev |-> b[o].prev]
  <2>1. linked[o] = b[o]
    <3>1. o # n
      BY <1>1, <1>3, NullAssumption
    <3> QED
      BY <1>1, <1>4, <3>1, BlockIs
  <2> HIDE DEF linked
  <2> QED
    BY <1>1, <2>1, CutIs
<1>6. MemSplit(b, o, size) = [q \in D \cup {new} |->
                               IF q = new THEN rest ELSE IF q = o THEN cut ELSE linked[q]]
  BY <1>1 DEF MemSplit
<1>7. SplitUp(b, o, size) = [q \in D \cup {new} |->
                               IF q = new THEN rest ELSE IF q = o THEN cut ELSE linked[q]]
  <2> HIDE DEF linked, cut
  <2>1. \A q \in D : q # new /\ (q = o => q # n)
    BY <1>2, <1>3
  <2> QED
    BY <1>4, <1>5, <2>1 DEF SplitUp
<1> QED
  BY <1>2, <1>6, <1>7

\* Splitting leaves the memory tiled and adds one free block.
LEMMA SplitTiles ==
  ASSUME NEW b, Tiles(b), NEW o \in DOMAIN b, NEW size \in Nat \ {0}, size < b[o].size,
         NEW new, new = o + size, NEW r, r = MemSplit(b, o, size)
  PROVE  /\ Tiles(r)
         /\ new \notin DOMAIN b /\ DOMAIN r = DOMAIN b \cup {new}
         /\ r[o].size = size /\ End(r, o) = new /\ ~r[new].allocated /\ End(r, new) = End(b, o)
         /\ \A q \in DOMAIN b : r[q].allocated = b[q].allocated
         /\ \A q \in DOMAIN b \ {o} : r[q].size = b[q].size /\ End(r, q) = End(b, q)
<1> USE SizeAssumption, NullAssumption
<1> DEFINE n == b[o].next
<1>1. /\ o \in Nat /\ new \in Nat /\ b[o].size \in Nat /\ b[o] \in Block /\ n \in Nat \cup {NULL}
      /\ End(b, o) \in Nat /\ End(b, o) <= Size /\ End(b, o) = o + b[o].size /\ o < new /\ new < End(b, o)
  BY TileFacts DEF End
<1>2. new \notin DOMAIN b /\ r = SplitUp(b, o, size)
  BY SplitIs
<1>3. /\ DOMAIN r = DOMAIN b \cup {new}
      /\ r[new] = [size |-> b[o].size - size, allocated |-> FALSE, next |-> n, prev |-> o]
      /\ \A q \in DOMAIN b :
           r[q] = [size |-> IF q = o THEN size ELSE b[q].size,
                   allocated |-> b[q].allocated,
                   next |-> IF q = o THEN new ELSE b[q].next,
                   prev |-> IF q = n THEN new ELSE b[q].prev]
  BY <1>2 DEF SplitUp
<1>4. End(r, o) = new /\ End(r, new) = End(b, o)
  BY <1>1, <1>3 DEF End
<1>5. \A q \in DOMAIN b \ {o} : r[q].size = b[q].size /\ End(r, q) = End(b, q)
  BY <1>3 DEF End
<1>6. DOMAIN r \subseteq Nat /\ r \in [DOMAIN r -> Block]
  <2>1. DOMAIN b \subseteq Nat /\ \A q \in DOMAIN b : b[q] \in Block
    BY DEF Tiles
  <2>2. r[new] \in Block
    BY <1>1, <1>3 DEF Block
  <2>3. \A q \in DOMAIN b : r[q] \in Block
    BY <1>1, <1>3, <2>1 DEF Block
  <2>4. r = [q \in DOMAIN r |-> r[q]]
    BY <1>2 DEF SplitUp
  <2> QED
    BY <1>1, <1>3, <2>1, <2>2, <2>3, <2>4
<1>7. 0 \in DOMAIN r /\ r[0].prev = NULL
  <2>1. 0 \in DOMAIN b /\ b[0].prev = NULL
    BY DEF Tiles
  <2>2. n # 0
    BY <1>1, TileFacts
  <2> QED
    BY <1>1, <1>3, <2>1, <2>2
<1>8. ASSUME NEW q \in DOMAIN r
      PROVE  /\ r[q].size > 0 /\ End(r, q) <= Size
             /\ \A x \in DOMAIN r : x <= q \/ x >= End(r, q)
             /\ r[q].next = (IF End(r, q) = Size THEN NULL ELSE End(r, q))
             /\ End(r, q) < Size => End(r, q) \in DOMAIN r /\ r[End(r, q)].prev = q
  <2>0. \A x \in DOMAIN b : x \in Nat /\ (x <= o \/ x >= End(b, o))
    BY DEF Tiles
  <2>1. CASE q = o
    <3>1. \A x \in DOMAIN r : x <= q \/ x >= new
      BY <1>1, <1>3, <2>0, <2>1
    <3> QED
      BY <1>1, <1>3, <1>4, <2>1, <3>1
  <2>2. CASE q = new
    <3>1. \A x \in DOMAIN r : x <= new \/ x >= End(b, o)
      BY <1>1, <1>3, <2>0
    <3>2. r[new].next = (IF End(b, o) = Size THEN NULL ELSE End(b, o))
      BY <1>3 DEF Tiles
    <3>3. ASSUME End(b, o) < Size PROVE End(b, o) \in DOMAIN r /\ r[End(b, o)].prev = new
      <4>1. End(b, o) \in DOMAIN b /\ n = End(b, o)
        BY <1>1, <3>3 DEF Tiles
      <4> QED
        BY <1>3, <4>1
    <3>4. r[new].size > 0
      BY <1>1, <1>3
    <3> QED
      BY <1>1, <1>4, <2>2, <3>1, <3>2, <3>3, <3>4
  <2>3. CASE q # o /\ q # new
    <3>1. q \in DOMAIN b /\ q \in Nat /\ End(r, q) = End(b, q) /\ r[q].next = b[q].next
          /\ r[q].size = b[q].size /\ End(b, q) \in Nat
      BY <1>3, <1>5, <2>3, TileFacts
    <3>2. \A x \in DOMAIN b : x \in Nat /\ (x <= q \/ x >= End(b, q))
      BY <3>1 DEF Tiles
    <3>3. new <= q \/ new >= End(b, q)
      BY <1>1, <2>0, <2>3, <3>1, <3>2
    <3>4. /\ b[q].size > 0 /\ End(b, q) <= Size
          /\ b[q].next = (IF End(b, q) = Size THEN NULL ELSE End(b, q))
      BY <3>1 DEF Tiles
    <3>5. ASSUME End(b, q) < Size PROVE End(b, q) \in DOMAIN r /\ r[End(b, q)].prev = q
      <4>1. End(b, q) \in DOMAIN b /\ b[End(b, q)].prev = q
        BY <3>1, <3>5 DEF Tiles
      <4>2. End(b, q) # n
        <5>1. n # NULL => b[n].prev = o
          BY TileFacts
        <5> QED
          BY <2>3, <3>1, <4>1, <5>1
      <4> QED
        BY <1>3, <4>1, <4>2
    <3> QED
      BY <1>3, <3>1, <3>2, <3>3, <3>4, <3>5
  <2> QED
    BY <2>1, <2>2, <2>3
<1>9. Tiles(r)
  BY <1>6, <1>7, <1>8 DEF Tiles
<1> QED
  BY <1>2, <1>3, <1>4, <1>5, <1>9

-----------------------------------------------------------------------------
\* Blocks c are blocks b without some free ones, and no piece given out changed.
Keeps(b, c) ==
    /\ \A q \in DOMAIN c : q \in DOMAIN b /\ c[q].allocated = b[q].allocated
    /\ \A q \in DOMAIN b : b[q].allocated => q \in DOMAIN c /\ c[q].size = b[q].size

LEMMA SwallowKeeps ==
  ASSUME NEW b, Tiles(b), NEW o \in DOMAIN b, b[o].next # NULL,
         ~b[o].allocated, ~b[End(b, o)].allocated
  PROVE  Keeps(b, Swallow(b, o))
<1>1. Swallows(b, o, End(b, o), Swallow(b, o))
  BY SwallowTiles
<1> QED
  BY <1>1 DEF Swallows, Keeps

\* A free block swallows the one behind it if that is free: no two free ones meet
\* there any more.
LEMMA MergeNext ==
  ASSUME NEW b, Tiles(b), NEW x \in DOMAIN b, ~b[x].allocated,
         \A o \in DOMAIN b \ {x} : End(b, o) # x => Apart(b, o),
         NEW c, c = IF IsFree(b, b[x].next) THEN Swallow(b, x) ELSE b
  PROVE  /\ Tiles(c) /\ x \in DOMAIN c /\ ~c[x].allocated /\ Keeps(b, c)
         /\ \A o \in DOMAIN c : End(c, o) # x => Apart(c, o)
<1> DEFINE g == End(b, x)
<1>1. CASE ~IsFree(b, b[x].next)
  <2>1. c = b
    BY <1>1
  <2>2. Apart(b, x)
    BY <1>1, TileFacts, SizeAssumption DEF IsFree, Apart
  <2> QED
    BY <2>1, <2>2 DEF Keeps
<1>2. CASE IsFree(b, b[x].next)
  <2>1. b[x].next # NULL /\ b[x].next = g /\ ~b[g].allocated
    BY <1>2, TileFacts DEF IsFree
  <2>2. c = Swallow(b, x)
    BY <1>2
  <2>3. /\ Tiles(c) /\ g \in DOMAIN b /\ g # x /\ DOMAIN c = DOMAIN b \ {g}
        /\ End(c, x) = End(b, g)
        /\ \A q \in DOMAIN c : c[q].allocated = b[q].allocated
        /\ \A q \in DOMAIN c \ {x} : c[q].size = b[q].size /\ End(c, q) = End(b, q)
    <3>1. Swallows(b, x, g, c)
      BY <2>1, <2>2, SwallowTiles
    <3> QED
      BY <3>1 DEF Swallows
  <2>4. ASSUME NEW o \in DOMAIN c, End(c, o) # x, End(c, o) < Size
        PROVE  c[o].allocated \/ c[End(c, o)].allocated
    <3>1. End(c, o) \in DOMAIN c
      BY <2>3, <2>4 DEF Tiles
    <3>2. CASE o = x
      <4>1. End(b, g) # x
        BY <2>1, <2>3, TileFacts
      <4>2. Apart(b, g)
        BY <2>3, <4>1
      <4> QED
        BY <2>1, <2>3, <2>4, <3>1, <3>2, <4>2 DEF Apart
    <3>3. CASE o # x
      <4>1. o \in DOMAIN b /\ End(c, o) = End(b, o) /\ Apart(b, o)
        BY <2>3, <2>4, <3>3
      <4> QED
        BY <2>3, <2>4, <3>1, <4>1 DEF Apart
    <3> QED
      BY <3>2, <3>3
  <2>5. Keeps(b, c)
    BY <2>1, <2>2, SwallowKeeps
  <2> QED
    BY <2>3, <2>4, <2>5 DEF Apart
<1> QED
  BY <1>1, <1>2

\* Then the one before it, if free, swallows it.
LEMMA MergePrev ==
  ASSUME NEW b, Tiles(b), NEW x \in DOMAIN b, ~b[x].allocated,
         \A o \in DOMAIN b : End(b, o) # x => Apart(b, o),
         NEW c, c = IF IsFree(b, b[x].prev) THEN Swallow(b, b[x].prev) ELSE b
  PROVE  Tiles(c) /\ Keeps(b, c) /\ \A o \in DOMAIN c : Apart(c, o)
<1> DEFINE p == b[x].prev
<1>1. CASE ~IsFree(b, p)
  <2>1. c = b
    BY <1>1
  <2>2. ASSUME NEW o \in DOMAIN b PROVE Apart(b, o)
    <3>1. CASE End(b, o) = x
      <4>1. p = o /\ p # NULL
        <5>1. End(b, o) < Size
          BY <3>1, TileFacts, SizeAssumption
        <5> QED
          BY <3>1, <5>1, TileFacts, NullAssumption DEF Tiles
      <4> QED
        BY <1>1, <4>1 DEF IsFree, Apart
    <3> QED
      BY <3>1
  <2> QED
    BY <2>1, <2>2 DEF Keeps
<1>2. CASE IsFree(b, p)
  <2>1. p \in DOMAIN b /\ End(b, p) = x /\ ~b[p].allocated
    BY <1>2, Before DEF IsFree
  <2>2. b[p].next # NULL
    <3>1. x \in Nat /\ x < Size
      BY TileFacts, SizeAssumption
    <3> QED
      BY <2>1, <3>1, TileFacts
  <2>3. c = Swallow(b, p)
    BY <1>2
  <2>4. /\ Tiles(c) /\ x # p /\ DOMAIN c = DOMAIN b \ {x}
        /\ End(c, p) = End(b, x)
        /\ \A q \in DOMAIN c : c[q].allocated = b[q].allocated
        /\ \A q \in DOMAIN c \ {p} : c[q].size = b[q].size /\ End(c, q) = End(b, q)
    <3>1. Swallows(b, p, x, c)
      BY <2>1, <2>2, <2>3, SwallowTiles
    <3> QED
      BY <3>1 DEF Swallows
  <2>5. ASSUME NEW o \in DOMAIN c, End(c, o) < Size
        PROVE  c[o].allocated \/ c[End(c, o)].allocated
    <3>1. End(c, o) \in DOMAIN c
      BY <2>4, <2>5 DEF Tiles
    <3>2. CASE o = p
      <4>1. Apart(b, x)
        BY TileFacts
      <4> QED
        BY <2>4, <2>5, <3>1, <3>2, <4>1 DEF Apart
    <3>3. CASE o # p
      <4>1. o \in DOMAIN b /\ End(c, o) = End(b, o) /\ End(b, o) # x
        BY <2>4, <3>1, <3>3
      <4> QED
        BY <2>4, <2>5, <3>1, <4>1 DEF Apart
    <3> QED
      BY <3>2, <3>3
  <2>6. Keeps(b, c)
    BY <2>1, <2>2, <2>3, SwallowKeeps
  <2> QED
    BY <2>4, <2>5, <2>6 DEF Apart
<1> QED
  BY <1>1, <1>2

LEMMA MergeTiles ==
  ASSUME NEW b, Tiles(b), NEW x \in DOMAIN b, ~b[x].allocated,
         \A o \in DOMAIN b \ {x} : End(b, o) # x => Apart(b, o)
  PROVE  /\ Tiles(MemMerge(b, x)) /\ Keeps(b, MemMerge(b, x))
         /\ \A o \in DOMAIN MemMerge(b, x) : Apart(MemMerge(b, x), o)
<1> DEFINE c == IF IsFree(b, b[x].next) THEN Swallow(b, x) ELSE b
           r == IF IsFree(c, c[x].prev) THEN Swallow(c, c[x].prev) ELSE c
<1>1. /\ Tiles(c) /\ x \in DOMAIN c /\ ~c[x].allocated /\ Keeps(b, c)
      /\ \A o \in DOMAIN c : End(c, o) # x => Apart(c, o)
  BY MergeNext
<1>2. MemMerge(b, x) = r
  BY DEF MemMerge
<1> HIDE DEF c
<1>3. Tiles(r) /\ Keeps(c, r) /\ \A o \in DOMAIN r : Apart(r, o)
  BY <1>1, MergePrev
<1> HIDE DEF r
<1>4. Keeps(b, r)
  BY <1>1, <1>3 DEF Keeps
<1> QED
  BY <1>2, <1>3, <1>4

-----------------------------------------------------------------------------
\* The free blocks that are large enough, those from o on, and the first of some.
Fitting(size) == {o \in DOMAIN m : ~m[o].allocated /\ m[o].size >= size}
From(size, o) == {q \in Fitting(size) : q >= o}
First(S) == IF S = {} THEN NULL ELSE CHOOSE n \in S : \A k \in S : n <= k

LEMMA FirstIs ==
  ASSUME NEW S, S \subseteq Nat
  PROVE  /\ S = {} => First(S) = NULL
         /\ S # {} => First(S) \in S /\ \A k \in S : First(S) <= k
BY LeastNumber DEF First

\* One step of the walk.
LEMMA WalkStep ==
  ASSUME Tiles(m), NEW size \in Nat, NEW o \in DOMAIN m
  PROVE  First(From(size, o)) =
           IF ~m[o].allocated /\ m[o].size >= size THEN o
           ELSE IF m[o].next = NULL THEN NULL ELSE First(From(size, m[o].next))
<1> DEFINE S == From(size, o)
<1>0. /\ o \in Nat /\ m[o].size \in Nat /\ End(m, o) \in Nat /\ o < End(m, o)
      /\ \A q \in DOMAIN m : q \in Nat /\ (q <= o \/ q >= End(m, o))
  BY TileFacts DEF Tiles
<1>1. S \subseteq Nat
  BY <1>0 DEF From, Fitting
<1>2. CASE ~m[o].allocated /\ m[o].size >= size
  <2>1. o \in S /\ \A k \in S : k >= o
    BY <1>0, <1>2 DEF From, Fitting
  <2>2. First(S) \in S /\ First(S) <= o
    <3> HIDE DEF S
    <3> QED
      BY <1>1, <2>1, FirstIs
  <2>3. First(S) = o
    <3>1. First(S) >= o /\ First(S) \in Nat
      BY <1>1, <2>1, <2>2
    <3> QED
      BY <1>0, <2>2, <3>1
  <2> QED
    BY <1>2, <2>3
<1>3. CASE ~ (~m[o].allocated /\ m[o].size >= size)
  <2>1. \A q \in S : q \in Fitting(size) /\ q \in DOMAIN m /\ q >= End(m, o)
    BY <1>0, <1>3 DEF From, Fitting
  <2>2. CASE m[o].next = NULL
    <3>1. End(m, o) = Size
      BY <2>2, TileFacts
    <3>2. \A q \in DOMAIN m : q < Size /\ q \in Nat
      BY TileFacts, SizeAssumption
    <3>3. S = {}
      BY <2>1, <3>1, <3>2, SizeAssumption
    <3>4. First(S) = NULL
      <4> HIDE DEF S
      <4> QED
        BY <1>1, <3>3, FirstIs
    <3> QED
      BY <1>3, <2>2, <3>4
  <2>3. CASE m[o].next # NULL
    <3>1. m[o].next = End(m, o)
      BY <2>3, TileFacts
    <3>2. S \subseteq From(size, End(m, o))
      BY <2>1 DEF From
    <3>3. From(size, End(m, o)) \subseteq S
      BY <1>0 DEF From, Fitting
    <3>4. S = From(size, m[o].next)
      BY <3>1, <3>2, <3>3
    <3> QED
      BY <1>3, <2>3, <3>4
  <2> QED
    BY <2>2, <2>3
<1> QED
  BY <1>2, <1>3

\* memChk finds the first free block that is large enough.
LEMMA FirstFit ==
  ASSUME Tiles(m), NEW size \in Nat
  PROVE  MemChk(size) = First(Fitting(size))
<1> DEFINE F(f) == [o \in DOMAIN m |->
                      IF ~m[o].allocated /\ m[o].size >= size THEN o
                      ELSE IF m[o].next = NULL THEN NULL ELSE f[m[o].next]]
           chk == CHOOSE f : f = F(f)
           s == [o \in DOMAIN m |-> First(From(size, o))]
<1>1. s = F(s)
  <2>1. \A o \in DOMAIN m : m[o].next # NULL => m[o].next \in DOMAIN m
    BY TileFacts
  <2>2. \A o \in DOMAIN m : s[o] = IF ~m[o].allocated /\ m[o].size >= size THEN o
                                  ELSE IF m[o].next = NULL THEN NULL ELSE s[m[o].next]
    BY <2>1, WalkStep
  <2> HIDE DEF s
  <2>3. s = [o \in DOMAIN m |-> s[o]]
    BY DEF s
  <2> QED
    BY <2>2, <2>3
<1>2. chk = F(chk)
  <2> HIDE DEF F, s
  <2> QED
    BY <1>1
<1>3. MemChk(size) = chk[0]
  BY DEF MemChk
<1> HIDE DEF chk
<1>4. \A o \in DOMAIN m : chk[o] = IF ~m[o].allocated /\ m[o].size >= size THEN o
                                  ELSE IF m[o].next = NULL THEN NULL ELSE chk[m[o].next]
  BY <1>2
<1>5. \A o \in DOMAIN m : s[o] = IF ~m[o].allocated /\ m[o].size >= size THEN o
                                ELSE IF m[o].next = NULL THEN NULL ELSE s[m[o].next]
  <2> HIDE DEF s
  <2> QED
    BY <1>1
<1> HIDE DEF F, s
<1>6. \A o \in DOMAIN m : chk[o] = s[o]
  <2> DEFINE B == {o \in DOMAIN m : chk[o] # s[o]}
  <2>1. SUFFICES ASSUME B # {} PROVE FALSE
    OBVIOUS
  <2>2. PICK o \in B : \A k \in B : k <= o
    <3>1. B \subseteq 0..Size /\ Size \in Nat
      BY TileFacts, SizeAssumption
    <3> HIDE DEF B
    <3> QED
      BY <2>1, <3>1, GreatestNumber
  <2>3. o \in DOMAIN m /\ chk[o] # s[o]
    OBVIOUS
  <2>4. m[o].next # NULL /\ chk[m[o].next] # s[m[o].next]
    BY <1>4, <1>5, <2>3
  <2>5. m[o].next \in DOMAIN m /\ m[o].next > o /\ o \in Nat /\ m[o].next \in Nat
    BY <2>3, <2>4, TileFacts
  <2>6. m[o].next <= o
    BY <2>2, <2>4, <2>5
  <2> QED
    BY <2>5, <2>6
<1>7. 0 \in DOMAIN m /\ From(size, 0) = Fitting(size)
  BY DEF From, Fitting, Tiles
<1> QED
  BY <1>3, <1>6, <1>7 DEF s

-----------------------------------------------------------------------------
\* The pieces given out, as the refinement mapping of TheArena has them.
PiecesOf(b) == {[at |-> o, size |-> b[o].size] : o \in {q \in DOMAIN b : b[q].allocated}}

\* A piece fits where a free block has room for it, and nowhere else: no two free
\* blocks are neighbours.
LEMMA Room ==
  ASSUME IInv, NEW size \in 1..Size, NEW at \in 0 .. Size - size
  PROVE  at \in TheArena!Fits(size)
           <=> \E o \in Fitting(size) : o <= at /\ at + size <= End(m, o)
<1> USE SizeAssumption
<1>1. Tiles(m) /\ \A o \in DOMAIN m : Apart(m, o)
  BY DEF IInv
<1>2. at \in TheArena!Fits(size)
        <=> \A q \in DOMAIN m :
              m[q].allocated => \A x \in at .. at + size - 1 : x < q \/ x >= End(m, q)
  <2>1. at \in TheArena!Fits(size)
          <=> \A piece \in PiecesOf(m) : TheArena!Cells(piece) \cap (at .. at + size - 1) = {}
    BY DEF TheArena!Fits, PiecesOf
  <2>2. ASSUME NEW q \in DOMAIN m
        PROVE  TheArena!Cells([at |-> q, size |-> m[q].size]) = q .. End(m, q) - 1
    <3>1. q \in Nat /\ m[q].size \in Nat
      BY <1>1, TileFacts
    <3> QED
      BY <3>1 DEF TheArena!Cells, End
  <2>3. ASSUME NEW q \in DOMAIN m
        PROVE  (q .. End(m, q) - 1) \cap (at .. at + size - 1) = {}
                 <=> \A x \in at .. at + size - 1 : x < q \/ x >= End(m, q)
    <3>1. q \in Nat /\ End(m, q) \in Nat
      BY <1>1, TileFacts
    <3> QED
      BY <3>1
  <2>4. (\A piece \in PiecesOf(m) : TheArena!Cells(piece) \cap (at .. at + size - 1) = {})
          <=> \A q \in DOMAIN m :
                m[q].allocated =>
                  TheArena!Cells([at |-> q, size |-> m[q].size]) \cap (at .. at + size - 1) = {}
    BY DEF PiecesOf
  <2> QED
    BY <2>1, <2>2, <2>3, <2>4
<1>3. ASSUME NEW o \in Fitting(size), o <= at, at + size <= End(m, o),
             NEW q \in DOMAIN m, m[q].allocated, NEW x \in at .. at + size - 1
      PROVE  x < q \/ x >= End(m, q)
  <2>1. o \in DOMAIN m /\ q # o
    BY <1>3 DEF Fitting
  <2>2. o \in Nat /\ q \in Nat /\ End(m, o) \in Nat /\ End(m, q) \in Nat
    BY <1>1, <1>3, <2>1, TileFacts
  <2>3. (q <= o \/ q >= End(m, o)) /\ (o <= q \/ o >= End(m, q))
    BY <1>1, <1>3, <2>1 DEF Tiles
  <2> QED
    BY <1>3, <2>1, <2>2, <2>3
<1>4. ASSUME \A q \in DOMAIN m :
               m[q].allocated => \A x \in at .. at + size - 1 : x < q \/ x >= End(m, q)
      PROVE  \E o \in Fitting(size) : o <= at /\ at + size <= End(m, o)
  <2>1. at \in 0 .. Size - 1 /\ at \in at .. at + size - 1 /\ at + size <= Size
    OBVIOUS
  <2>2. PICK o \in DOMAIN m : o <= at /\ at < End(m, o)
    BY <1>1, <2>1, Covered
  <2>3. o \in Nat /\ m[o].size \in Nat /\ End(m, o) \in Nat /\ End(m, o) = o + m[o].size
    BY <1>1, TileFacts DEF End
  <2>4. ~m[o].allocated
    BY <1>4, <2>1, <2>2, <2>3
  <2>5. ASSUME End(m, o) < at + size PROVE FALSE
    <3>1. End(m, o) < Size /\ End(m, o) \in at .. at + size - 1
      BY <2>1, <2>2, <2>3, <2>5
    <3>2. End(m, o) \in DOMAIN m /\ m[End(m, o)].allocated
      BY <1>1, <2>4, <3>1 DEF Tiles, Apart
    <3>3. End(m, o) < End(m, End(m, o))
      BY <1>1, <3>2, TileFacts
    <3>4. End(m, End(m, o)) \in Nat
      BY <1>1, <3>2, TileFacts
    <3> QED
      BY <1>4, <2>3, <3>1, <3>2, <3>3, <3>4
  <2>6. at + size <= End(m, o) /\ m[o].size >= size
    BY <2>1, <2>2, <2>3, <2>5
  <2> QED
    BY <2>2, <2>4, <2>6 DEF Fitting
<1> QED
  BY <1>2, <1>3, <1>4

\* The lowest place for a piece is the first free block that is large enough.
LEMMA LowestPlace ==
  ASSUME IInv, NEW size \in 1..Size
  PROVE  /\ TheArena!Fits(size) = {} <=> Fitting(size) = {}
         /\ Fitting(size) # {} =>
              First(Fitting(size))
                = CHOOSE at \in TheArena!Fits(size) : \A other \in TheArena!Fits(size) : at <= other
<1> USE SizeAssumption
<1> DEFINE Fits == TheArena!Fits(size)
<1>1. /\ Tiles(m) /\ size \in Nat
      /\ Fits \subseteq 0 .. Size - size
  BY DEF IInv, TheArena!Fits
<1>2. ASSUME NEW o \in Fitting(size) PROVE o \in Fits /\ o \in Nat
  <2>1. /\ o \in DOMAIN m /\ o \in Nat /\ m[o].size \in Nat /\ m[o].size >= size
        /\ End(m, o) <= Size /\ End(m, o) = o + m[o].size
    BY <1>1, TileFacts DEF Fitting, End
  <2>2. o \in 0 .. Size - size /\ o <= o /\ o + size <= End(m, o)
    BY <1>1, <2>1
  <2> QED
    BY <2>1, <2>2, Room
<1>3. ASSUME NEW at \in Fits PROVE \E o \in Fitting(size) : o <= at
  BY <1>1, Room
<1>4. Fits = {} <=> Fitting(size) = {}
  BY <1>2, <1>3
<1>5. ASSUME Fitting(size) # {}
      PROVE  First(Fitting(size)) = CHOOSE at \in Fits : \A other \in Fits : at <= other
  <2> DEFINE f == First(Fitting(size))
  <2> HIDE DEF Fits
  <2>1. f \in Fitting(size) /\ \A k \in Fitting(size) : f <= k
    <3>1. Fitting(size) \subseteq Nat
      BY <1>2
    <3> QED
      BY <1>5, <3>1, FirstIs
  <2> HIDE DEF f
  <2>2. f \in Fits /\ f \in Nat
    BY <1>2, <2>1
  <2>3. ASSUME NEW other \in Fits PROVE f <= other
    <3>1. PICK o \in Fitting(size) : o <= other
      BY <1>3
    <3>2. o \in Nat /\ other \in Nat
      BY <1>1, <1>2
    <3> QED
      BY <2>1, <2>2, <3>1, <3>2
  <2>4. ASSUME NEW at \in Fits, \A other \in Fits : at <= other PROVE at = f
    <3>1. at <= f /\ f <= at /\ at \in Nat
      BY <1>1, <2>2, <2>3, <2>4
    <3> QED
      BY <2>2, <3>1
  <2>5. f = CHOOSE at \in Fits : \A other \in Fits : at <= other
    BY <2>2, <2>3, <2>4
  <2> QED
    BY <2>5 DEF f
<1> QED
  BY <1>4, <1>5

-----------------------------------------------------------------------------
\* Where memAlloc finds a block it takes the first one, and that is the lowest place.
LEMMA AllocStep ==
  ASSUME IInv, NEW size \in 1..Size, MemAlloc(size)
  PROVE  IInv' /\ TheArena!Take(size)
<1> USE SizeAssumption, NullAssumption
<1> DEFINE f == First(Fitting(size))
           r == MemSplit(m, f, size)
<1>1. Tiles(m) /\ (\A o \in DOMAIN m : Apart(m, o)) /\ size \in Nat \ {0}
  BY DEF IInv
<1>2. MemChk(size) = f
  BY <1>1, FirstFit
<1>3. f \in Fitting(size)
  <2>1. Fitting(size) \subseteq Nat
    BY <1>1, TileFacts DEF Fitting
  <2> QED
    BY <1>2, <2>1, FirstIs DEF MemAlloc
<1>4. answer' = f /\ m' = [r EXCEPT ![f].allocated = TRUE]
  BY <1>2 DEF MemAlloc
<1> HIDE DEF f
<1>5. /\ f \in DOMAIN m /\ ~m[f].allocated /\ f \in Nat /\ m[f].size \in Nat /\ m[f].size >= size
  BY <1>1, <1>3, TileFacts DEF Fitting
\* Only the cells of block f have been divided anew, with a free block behind it.
<1>6. /\ Tiles(r) /\ f \in DOMAIN r /\ r[f].size = size
      /\ \A q \in DOMAIN r : q \in DOMAIN m \/ ~r[q].allocated
      /\ \A q \in DOMAIN m \ {f} : /\ q \in DOMAIN r /\ r[q].size = m[q].size
                                   /\ r[q].allocated = m[q].allocated
      /\ \A q \in DOMAIN r \ {f} : Apart(r, q)
  <2>1. CASE size = m[f].size
    <3>1. r = m
      BY <1>5, <2>1 DEF MemSplit
    <3> QED
      BY <1>1, <1>5, <2>1, <3>1
  <2>2. CASE size # m[f].size
    <3> DEFINE new == f + size
    <3>1. size < m[f].size
      BY <1>1, <1>5, <2>2
    <3>2. /\ Tiles(r)
          /\ new \notin DOMAIN m /\ DOMAIN r = DOMAIN m \cup {new}
          /\ r[f].size = size /\ End(r, f) = new /\ ~r[new].allocated /\ End(r, new) = End(m, f)
          /\ \A q \in DOMAIN m : r[q].allocated = m[q].allocated
          /\ \A q \in DOMAIN m \ {f} : r[q].size = m[q].size /\ End(r, q) = End(m, q)
      BY <1>1, <1>5, <3>1, SplitTiles, SMTT(30)
    <3> HIDE DEF r, new
    <3>3. ASSUME NEW q \in DOMAIN r \ {f}, End(r, q) < Size
          PROVE  r[q].allocated \/ r[End(r, q)].allocated
      <4>1. CASE q = new
        <5>1. End(r, q) = End(m, f) /\ End(m, f) \in DOMAIN m /\ m[End(m, f)].allocated
          BY <1>1, <1>5, <3>2, <3>3, <4>1 DEF Apart, Tiles
        <5> QED
          BY <3>2, <5>1
      <4>2. CASE q # new
        <5>1. /\ q \in DOMAIN m /\ End(r, q) = End(m, q) /\ End(m, q) \in DOMAIN m
              /\ m[q].allocated \/ m[End(m, q)].allocated
          BY <1>1, <3>2, <3>3, <4>2 DEF Apart, Tiles
        <5> QED
          BY <3>2, <5>1
      <4> QED
        BY <4>1, <4>2
    <3> QED
      BY <1>5, <3>2, <3>3 DEF Apart
  <2> QED
    BY <2>1, <2>2
<1> HIDE DEF r
<1>7. /\ Tiles(m') /\ DOMAIN m' = DOMAIN r
      /\ \A q \in DOMAIN r : /\ m'[q].size = r[q].size /\ End(m', q) = End(r, q)
                             /\ m'[q].allocated = (IF q = f THEN TRUE ELSE r[q].allocated)
  <2>1. m' = Mark(r, f, TRUE)
    BY <1>4 DEF Mark
  <2>2. Marked(r, f, TRUE, m')
    BY <1>6, <2>1, MarkTiles
  <2> QED
    BY <2>2 DEF Marked
<1>8. ASSUME NEW q \in DOMAIN m', End(m', q) < Size
      PROVE  m'[q].allocated \/ m'[End(m', q)].allocated
  <2>1. CASE q = f
    BY <1>6, <1>7, <2>1
  <2>2. CASE q # f
    <3>1. q \in DOMAIN r /\ End(m', q) = End(r, q) /\ Apart(r, q)
      BY <1>6, <1>7, <2>2
    <3>2. End(r, q) \in DOMAIN r
      BY <1>6, <1>8, <3>1 DEF Tiles
    <3> QED
      BY <1>7, <1>8, <3>1, <3>2 DEF Apart
  <2> QED
    BY <2>1, <2>2
<1>9. IInv'
  BY <1>4, <1>5, <1>7, <1>8 DEF IInv, Apart
<1>10. PiecesOf(m') = PiecesOf(m) \cup {[at |-> f, size |-> size]}
  <2>1. {q \in DOMAIN m' : m'[q].allocated} = {q \in DOMAIN m : m[q].allocated} \cup {f}
    BY <1>5, <1>6, <1>7
  <2>2. m'[f].size = size /\ \A q \in DOMAIN m : m[q].allocated => m'[q].size = m[q].size
    BY <1>5, <1>6, <1>7
  <2> QED
    BY <2>1, <2>2 DEF PiecesOf
<1>11. TheArena!Take(size)
  <2>1. /\ TheArena!Fits(size) # {}
        /\ f = CHOOSE at \in TheArena!Fits(size) : \A other \in TheArena!Fits(size) : at <= other
    BY <1>3, LowestPlace DEF f
  <2> QED
    BY <1>4, <1>10, <2>1 DEF TheArena!Take, PiecesOf
<1> QED
  BY <1>9, <1>11

LEMMA FailStep ==
  ASSUME IInv, NEW size \in 1..Size, MemAllocFails(size)
  PROVE  IInv' /\ TheArena!Refuse(size)
<1>1. Tiles(m) /\ size \in Nat
  BY SizeAssumption DEF IInv
<1>2. First(Fitting(size)) = NULL
  BY <1>1, FirstFit DEF MemAllocFails
<1>3. Fitting(size) = {}
  <2>1. Fitting(size) \subseteq Nat
    BY <1>1, TileFacts DEF Fitting
  <2> QED
    BY <1>2, <2>1, FirstIs, NullAssumption
<1>4. TheArena!Fits(size) = {}
  BY <1>3, LowestPlace
<1>5. m' = m /\ answer' = NULL
  BY DEF MemAllocFails
<1>6. IInv'
  BY <1>5 DEF IInv, Tiles, Apart, End
<1> QED
  BY <1>4, <1>5, <1>6 DEF TheArena!Refuse

LEMMA FreeStep ==
  ASSUME IInv, NEW o \in DOMAIN m, MemFree(o)
  PROVE  IInv' /\ TheArena!Next
<1> DEFINE b == [m EXCEPT ![o].allocated = FALSE]
           piece == [at |-> o, size |-> m[o].size]
<1>1. /\ Tiles(m) /\ (\A q \in DOMAIN m : Apart(m, q)) /\ m[o].allocated
      /\ m' = MemMerge(b, o) /\ answer' = answer
  BY DEF IInv, MemFree
<1>2. /\ Tiles(b) /\ DOMAIN b = DOMAIN m
      /\ \A q \in DOMAIN m : /\ b[q].size = m[q].size /\ End(b, q) = End(m, q)
                             /\ b[q].allocated = (IF q = o THEN FALSE ELSE m[q].allocated)
  <2>1. b = Mark(m, o, FALSE)
    BY DEF Mark
  <2> HIDE DEF b
  <2>2. Marked(m, o, FALSE, b)
    BY <1>1, <2>1, MarkTiles
  <2> QED
    BY <2>2 DEF Marked
<1> HIDE DEF b
<1>3. ASSUME NEW q \in DOMAIN b \ {o}, End(b, q) # o PROVE Apart(b, q)
  <2>1. Apart(m, q) /\ End(b, q) = End(m, q) /\ (End(m, q) < Size => End(m, q) \in DOMAIN m)
    BY <1>1, <1>2, <1>3 DEF Tiles
  <2> QED
    BY <1>2, <1>3, <2>1 DEF Apart
<1>4. Tiles(m') /\ Keeps(b, m') /\ \A q \in DOMAIN m' : Apart(m', q)
  BY <1>1, <1>2, <1>3, MergeTiles
<1>5. IInv'
  BY <1>1, <1>4 DEF IInv
<1>6. PiecesOf(m') = PiecesOf(m) \ {piece}
  <2>1. {q \in DOMAIN m' : m'[q].allocated} = {q \in DOMAIN m : m[q].allocated} \ {o}
    BY <1>2, <1>4 DEF Keeps
  <2>2. \A q \in DOMAIN m : m[q].allocated /\ q # o => m'[q].size = m[q].size
    BY <1>2, <1>4 DEF Keeps
  <2> QED
    BY <2>1, <2>2 DEF PiecesOf
<1>7. piece \in PiecesOf(m)
  BY <1>1 DEF PiecesOf
<1> HIDE DEF piece
<1>8. \E p \in PiecesOf(m) : PiecesOf(m') = PiecesOf(m) \ {p} /\ answer' = answer
  BY <1>1, <1>6, <1>7
<1>9. TheArena!Next
  BY <1>8 DEF TheArena!Next, TheArena!GiveBack, PiecesOf
<1> QED
  BY <1>5, <1>9

LEMMA Step ==
  ASSUME IInv, [Next]_vars
  PROVE  IInv' /\ [TheArena!Next]_TheArena!vars
<1>1. ASSUME NEW size \in 1..Size, MemAlloc(size) \/ MemAllocFails(size)
      PROVE  IInv' /\ TheArena!Next
  BY <1>1, AllocStep, FailStep DEF TheArena!Next
<1>2. ASSUME NEW o \in DOMAIN m, MemFree(o)
      PROVE  IInv' /\ TheArena!Next
  BY <1>2, FreeStep
<1>3. CASE UNCHANGED vars
  <2>1. IInv'
    BY <1>3 DEF vars, IInv, Tiles, Apart, End
  <2>2. UNCHANGED TheArena!vars
    BY <1>3 DEF vars, TheArena!vars
  <2> QED
    BY <2>1, <2>2
<1> QED
  BY <1>1, <1>2, <1>3 DEF Next

-----------------------------------------------------------------------------
\* Through any sequence of calls the blocks tile the memory in the order of the
\* list, linked both ways, and no two free ones are neighbours (memSplit and
\* memMerge of src/lab10/q1).
THEOREM ListInOrder == Spec => []ListOK
<1>1. IInv /\ [Next]_vars => IInv'
  BY Step
<1> QED
  BY InitIInv, <1>1, ListFollows, PTL DEF Spec

\* The allocator implements the arena: memAlloc places a piece at the lowest place
\* where it fits and fails only if there is none, whoever has freed what before,
\* and a piece given out is not moved or resized by any other call.
THEOREM ImplementsArena == Spec => ArenaSpec
<1>1. Init => TheArena!Init
  BY DEF Init, TheArena!Init
<1>2. IInv /\ [Next]_vars => IInv' /\ [TheArena!Next]_TheArena!vars
  BY Step
<1> QED
  BY InitIInv, <1>1, <1>2, PTL DEF Spec, ArenaSpec, TheArena!Spec

-----------------------------------------------------------------------------
(***************************************************************************)
(* The loops of the sequential programs are recursive functions of the     *)
(* number of turns.                                                        *)
(***************************************************************************)
\* What holds at the start of a loop and after each turn holds at its end.
LEMMA AfterEachTurn ==
  ASSUME NEW n \in Nat, NEW G, 0 \in G, \A k \in 0 .. n - 1 : k \in G => k + 1 \in G
  PROVE  \A k \in 0..n : k \in G
<1> DEFINE B == {k \in 0..n : k \notin G}
<1>1. SUFFICES ASSUME B # {} PROVE FALSE
  OBVIOUS
<1>2. PICK b \in B : \A k \in B : b <= k
  <2>1. B \subseteq Nat
    OBVIOUS
  <2> HIDE DEF B
  <2> QED
    BY <1>1, <2>1, LeastNumber
<1>3. b \in 0..n /\ b \notin G /\ b # 0
  OBVIOUS
<1>4. b - 1 \in 0 .. n - 1 /\ b - 1 \in 0..n /\ b - 1 < b /\ (b - 1) + 1 = b
  BY <1>3
<1>5. b - 1 \in G
  BY <1>2, <1>4
<1> QED
  BY <1>3, <1>4, <1>5

\* n turns of a loop over a state of type T; turn k + 1 starts from what turn k left.
Turns(s, n, base, next) == s = [k \in 0..n |-> IF k = 0 THEN base ELSE next[<<k - 1, s[k - 1]>>]]

LEMMA TurnsExist ==
  ASSUME NEW n \in Nat, NEW T, NEW base \in T, NEW next \in [(0 .. n - 1) \X T -> T]
  PROVE  \E s \in [0..n -> T] : Turns(s, n, base, next)
<1> DEFINE G == {j \in 0..n : \E s \in [0..j -> T] : Turns(s, j, base, next)}
<1>1. 0 \in G
  <2> DEFINE s == [k \in 0..0 |-> base]
  <2>1. s \in [0..0 -> T] /\ \A k \in 0..0 : k = 0
    OBVIOUS
  <2>2. Turns(s, 0, base, next)
    BY <2>1 DEF Turns
  <2> QED
    BY <2>1, <2>2
<1>2. ASSUME NEW j \in 0 .. n - 1, j \in G PROVE j + 1 \in G
  <2>1. PICK s \in [0..j -> T] : Turns(s, j, base, next)
    BY <1>2
  <2> DEFINE u == [k \in 0 .. j + 1 |-> IF k <= j THEN s[k] ELSE next[<<j, s[j]>>]]
  <2>2. s[j] \in T /\ next[<<j, s[j]>>] \in T
    OBVIOUS
  <2>3. u \in [0 .. j + 1 -> T]
    BY <2>2
  <2>4. ASSUME NEW k \in 0 .. j + 1
        PROVE  u[k] = IF k = 0 THEN base ELSE next[<<k - 1, u[k - 1]>>]
    <3>1. \A i \in 0..j : u[i] = s[i] /\ s[i] = IF i = 0 THEN base ELSE next[<<i - 1, s[i - 1]>>]
      <4>1. \A i \in 0..j : s[i] = IF i = 0 THEN base ELSE next[<<i - 1, s[i - 1]>>]
        BY <2>1 DEF Turns
      <4>2. \A i \in 0..j : i \in 0 .. j + 1 /\ i <= j
        OBVIOUS
      <4> QED
        BY <4>1, <4>2
    <3> HIDE DEF u
    <3>2. CASE k = 0
      <4>1. 0 \in 0..j
        OBVIOUS
      <4>2. u[0] = base
        BY <3>1, <4>1
      <4> QED
        BY <3>2, <4>2
    <3>3. CASE k = j + 1
      <4>1. k - 1 = j /\ j \in 0..j /\ k # 0
        BY <3>3
      <4>2. u[k] = next[<<j, s[j]>>]
        BY <3>3 DEF u
      <4> QED
        BY <3>1, <4>1, <4>2
    <3>4. CASE k # 0 /\ k # j + 1
      <4>1. k \in 0..j /\ k - 1 \in 0..j
        BY <3>4
      <4> QED
        BY <3>1, <3>4, <4>1
    <3> QED
      BY <3>2, <3>3, <3>4
  <2>5. Turns(u, j + 1, base, next)
    <3>1. u = [k \in 0 .. j + 1 |-> u[k]]
      OBVIOUS
    <3> HIDE DEF u
    <3> QED
      BY <2>4, <3>1 DEF Turns
  <2> QED
    BY <2>3, <2>5
<1>3. n \in G
  <2> HIDE DEF G
  <2> QED
    BY <1>1, <1>2, AfterEachTurn
<1> QED
  BY <1>3

-----------------------------------------------------------------------------
\* What can have been typed.
InputOK ==
    /\ program = "paging" => input \in Seq(Paging!Pages)
    /\ program = "blocks" => /\ input \in Seq((SUBSET Int) \cup Int)
                             /\ input # <<>> => Tail(input) \in Seq(Int)
    /\ program = "disk" => input \in Seq(Int)
    /\ program = "scheduler" => input \in Seq(Nat \ {0})
    /\ program = "threads" => input \in Seq(-(IntMax + 1) .. IntMax)
    /\ program = "wire" => input \in Seq(Int) /\ Len(input) <= MaxText

LEMMA Typed == MCSpec => []InputOK
<1>1. MCInit => InputOK
  BY WireAssumption DEF MCInit, InputOK
<1>2. InputOK /\ [MCNext]_mcVars => InputOK'
  <2> SUFFICES ASSUME InputOK, [MCNext]_mcVars PROVE InputOK'
    OBVIOUS
  <2>1. CASE Type
    <3>1. PICK x \in Typeable : input' = Append(input, x)
      BY <2>1 DEF Type
    <3>2. program' = program
      BY <2>1 DEF Type
    <3>3. ASSUME program = "paging" PROVE input' \in Seq(Paging!Pages)
      <4>1. x \in Paging!Pages
        BY <3>1, <3>3 DEF Typeable
      <4> QED
        BY <3>1, <3>3, <4>1 DEF InputOK
    <3>4. ASSUME program = "disk" PROVE input' \in Seq(Int)
      <4>1. x \in Int
        BY <3>1, <3>4, DiskAssumption DEF Typeable, Disk!Served
      <4> QED
        BY <3>1, <3>4, <4>1 DEF InputOK
    <3>6. ASSUME program = "scheduler" PROVE input' \in Seq(Nat \ {0})
      <4>1. x \in Nat \ {0}
        BY <3>1, <3>6, SlicesAssumption DEF Typeable
      <4> QED
        BY <3>1, <3>6, <4>1 DEF InputOK
    <3>7. ASSUME program = "threads" PROVE input' \in Seq(-(IntMax + 1) .. IntMax)
      <4>1. x \in -(IntMax + 1) .. IntMax
        BY <3>1, <3>7, ThreadsAssumption DEF Typeable
      <4> QED
        BY <3>1, <3>7, <4>1 DEF InputOK
    <3>8. ASSUME program = "wire" PROVE input' \in Seq(Int) /\ Len(input') <= MaxText
      <4>1. Len(input) < MaxText /\ x \in Int
        <5>1. Typeable = IF Len(input) < MaxText THEN 0 .. BYTE - 1 ELSE {}
          BY <3>8 DEF Typeable
        <5>2. Len(input) < MaxText /\ x \in 0 .. BYTE - 1
          BY <5>1
        <5>3. BYTE \in Int
          BY WireAssumption
        <5> QED
          BY <5>2, <5>3
      <4>2. input \in Seq(Int) /\ MaxText \in Int
        BY <3>8, WireAssumption DEF InputOK
      <4>3. input' \in Seq(Int) /\ Len(input') = Len(input) + 1 /\ Len(input) \in Nat
        BY <3>1, <4>1, <4>2
      <4> DEFINE l == Len(input)
      <4>4. Len(input') = l + 1 /\ l \in Nat /\ l < MaxText
        BY <4>1, <4>3
      <4> HIDE DEF l
      <4>5. l + 1 <= MaxText
        BY <4>2, <4>4
      <4> QED
        BY <4>3, <4>4, <4>5
    <3>5. ASSUME program = "blocks"
          PROVE  input' \in Seq((SUBSET Int) \cup Int) /\ Tail(input') \in Seq(Int)
      <4> DEFINE Both == (SUBSET Int) \cup Int
      <4>1. input \in Seq(Both)
        BY <3>5 DEF InputOK
      <4>2. CASE input = <<>>
        <5>1. x \in Both
          BY <3>1, <3>5, <4>2, BlocksAssumption DEF Typeable
        <5> HIDE DEF Both
        <5>2. input' \in Seq(Both) /\ Tail(input') = <<>>
          BY <3>1, <4>1, <4>2, <5>1
        <5>3. <<>> \in Seq(Int)
          OBVIOUS
        <5> QED
          BY <5>2, <5>3 DEF Both
      <4>3. CASE input # <<>>
        <5>1. x \in Int
          BY <3>1, <3>5, <4>3, BlocksAssumption DEF Typeable
        <5>2. x \in Both /\ Tail(input) \in Seq(Int)
          BY <3>5, <4>3, <5>1 DEF InputOK
        <5> HIDE DEF Both
        <5>3. input' \in Seq(Both)
          BY <3>1, <4>1, <5>2
        <5>4. Tail(input') = Append(Tail(input), x)
          BY <3>1, <4>1, <4>3, <5>2
        <5>5. Append(Tail(input), x) \in Seq(Int)
          BY <5>1, <5>2
        <5> QED
          BY <5>3, <5>4, <5>5 DEF Both
      <4> QED
        BY <4>2, <4>3
    <3> QED
      BY <3>2, <3>3, <3>4, <3>5, <3>6, <3>7, <3>8 DEF InputOK
  <2>2. CASE Call \/ UNCHANGED mcVars
    <3>1. input' = input /\ program' = program
      BY <2>2 DEF Call, mcVars
    <3> QED
      BY <3>1 DEF InputOK
  <2> QED
    BY <2>1, <2>2 DEF MCNext
<1> QED
  BY <1>1, <1>2, PTL DEF MCSpec

-----------------------------------------------------------------------------
(***************************************************************************)
(* Second chance, for any number of frames and pages: what the simulator   *)
(* keeps in frames, page table and pointer is the queue.                   *)
(***************************************************************************)
Frames == 0 .. MAX_FRAMES - 1

PageEntries == [frame_num : Frames \cup {-1}, valid : BOOLEAN, reference_bit : {0, 1}]

PagingStates == [page_table : [Paging!Pages -> PageEntries],
                 frames : [Frames -> Paging!Pages \cup {-1}],
                 frame_pointer : Frames,
                 page_faults : Nat]

PageQueues == {q \in Seq(Paging!Pages \X {0, 1}) :
                 /\ Len(q) <= MAX_FRAMES
                 /\ \A i, j \in 1..Len(q) : q[i][1] = q[j][1] => i = j}

\* The frame of the i-th page of a queue.
FrameOf(s, q, i) == ((IF Len(q) = MAX_FRAMES THEN s.frame_pointer ELSE 0) + i - 1) % MAX_FRAMES

Holds(s, q) ==
    /\ s \in PagingStates /\ q \in PageQueues
    /\ Len(q) < MAX_FRAMES => s.frame_pointer = Len(q)
    /\ \A i \in 1..Len(q) :
         /\ s.frames[FrameOf(s, q, i)] = q[i][1]
         /\ s.page_table[q[i][1]] =
              [frame_num |-> FrameOf(s, q, i), valid |-> TRUE, reference_bit |-> q[i][2]]
    /\ \A p \in Paging!Pages : s.page_table[p].valid => \E i \in 1..Len(q) : q[i][1] = p

\* The pointer goes round.
LEMMA Round ==
  \A x \in 0 .. 2 * MAX_FRAMES - 1 :
    x % MAX_FRAMES = IF x < MAX_FRAMES THEN x ELSE x - MAX_FRAMES
<1> USE FramesAssumption
<1> TAKE x \in 0 .. 2 * MAX_FRAMES - 1
<1>1. CASE x < MAX_FRAMES
  BY <1>1
<1>2. CASE x >= MAX_FRAMES
  <2>1. x = 1 * MAX_FRAMES + (x - MAX_FRAMES) /\ x - MAX_FRAMES \in 0 .. MAX_FRAMES - 1
    BY <1>2
  <2>2. x \div MAX_FRAMES = 1
    BY <2>1
  <2> QED
    BY <1>2, <2>1, <2>2
<1> QED
  BY <1>1, <1>2

LEMMA PagingType ==
  ASSUME NEW s \in PagingStates
  PROVE  /\ s.page_table \in [Paging!Pages -> PageEntries]
         /\ s.frames \in [Frames -> Paging!Pages \cup {-1}]
         /\ s.frame_pointer \in Nat /\ s.frame_pointer < MAX_FRAMES
         /\ s.page_faults \in Nat
         /\ \A p \in Paging!Pages :
              /\ s.page_table[p].frame_num \in Frames \cup {-1}
              /\ s.page_table[p].valid \in BOOLEAN
              /\ s.page_table[p].reference_bit \in {0, 1}
  BY FramesAssumption DEF PagingStates, PageEntries, Frames

LEMMA QueueType ==
  ASSUME NEW q \in PageQueues
  PROVE  /\ q \in Seq(Paging!Pages \X {0, 1}) /\ Len(q) \in 0..MAX_FRAMES
         /\ DOMAIN q = 1..Len(q)
         /\ \A i \in 1..Len(q) :
              /\ q[i] = <<q[i][1], q[i][2]>>
              /\ q[i][1] \in Paging!Pages /\ q[i][2] \in {0, 1}
         /\ \A i, j \in 1..Len(q) : q[i][1] = q[j][1] => i = j
<1>1. q \in Seq(Paging!Pages \X {0, 1}) /\ Len(q) <= MAX_FRAMES
  BY DEF PageQueues
<1>2. Len(q) \in Nat /\ DOMAIN q = 1..Len(q)
  BY <1>1
<1>3. \A i \in 1..Len(q) : q[i] \in Paging!Pages \X {0, 1}
  BY <1>1, ElementOfSeq
<1> QED
  BY <1>1, <1>2, <1>3, FramesAssumption DEF PageQueues

LEMMA FrameIs ==
  ASSUME NEW s \in PagingStates, NEW q \in PageQueues, NEW i \in 1..Len(q)
  PROVE  /\ FrameOf(s, q, i) \in Frames
         /\ Len(q) < MAX_FRAMES => FrameOf(s, q, i) = i - 1
         /\ Len(q) = MAX_FRAMES =>
              FrameOf(s, q, i) = IF s.frame_pointer + i - 1 < MAX_FRAMES
                                 THEN s.frame_pointer + i - 1
                                 ELSE s.frame_pointer + i - 1 - MAX_FRAMES
<1> USE FramesAssumption
<1>1. Len(q) \in 0..MAX_FRAMES /\ s.frame_pointer \in Nat /\ s.frame_pointer < MAX_FRAMES
  BY PagingType, QueueType
<1> DEFINE x == (IF Len(q) = MAX_FRAMES THEN s.frame_pointer ELSE 0) + i - 1
<1>2. x \in 0 .. 2 * MAX_FRAMES - 1
  BY <1>1
<1>3. x % MAX_FRAMES = IF x < MAX_FRAMES THEN x ELSE x - MAX_FRAMES
  <2> HIDE DEF x
  <2> QED
    BY <1>2, Round
<1> QED
  BY <1>1, <1>2, <1>3, SMTT(30) DEF FrameOf, Frames

LEMMA EntryIs ==
  ASSUME NEW s, NEW q, Holds(s, q), NEW i \in 1..Len(q), NEW page, q[i][1] = page
  PROVE  /\ s.frames[FrameOf(s, q, i)] = page
         /\ s.page_table[page].frame_num = FrameOf(s, q, i)
         /\ s.page_table[page].valid
         /\ s.page_table[page].reference_bit = q[i][2]
<1>1. /\ s.frames[FrameOf(s, q, i)] = page
      /\ s.page_table[page] =
           [frame_num |-> FrameOf(s, q, i), valid |-> TRUE, reference_bit |-> q[i][2]]
  BY DEF Holds
<1> QED
  BY <1>1

\* A page is in a frame if and only if it is in the queue.
LEMMA Present ==
  ASSUME NEW s, NEW q, Holds(s, q), NEW page \in Paging!Pages
  PROVE  Paging!Valid(s, page) <=> \E i \in 1..Len(q) : q[i][1] = page
<1>1. s \in PagingStates /\ q \in PageQueues
  BY DEF Holds
<1>2. s.page_table[page].valid \in BOOLEAN
  BY <1>1, PagingType
<1>3. \A i \in 1..Len(q) : q[i][1] = page => s.page_table[page].valid
  BY EntryIs
<1> QED
  BY <1>2, <1>3 DEF Holds, Paging!Valid

\* The frame at the pointer is empty before all are in use, and has the oldest
\* page after that.
LEMMA VictimsAre ==
  ASSUME NEW s, NEW q, Holds(s, q)
  PROVE  Paging!Victims(s) = IF Len(q) < MAX_FRAMES THEN {} ELSE {q[1][1]}
<1> USE FramesAssumption
<1>1. s \in PagingStates /\ q \in PageQueues
  BY DEF Holds
<1>2. Len(q) \in 0..MAX_FRAMES /\ s.frame_pointer \in Nat /\ s.frame_pointer < MAX_FRAMES
  BY <1>1, PagingType, QueueType
<1>3. ASSUME NEW p \in Paging!Victims(s)
      PROVE  Len(q) = MAX_FRAMES /\ p = q[1][1]
  <2>1. p \in Paging!Pages /\ Paging!Valid(s, p) /\ s.page_table[p].frame_num = s.frame_pointer
    BY <1>3 DEF Paging!Victims
  <2>2. PICK i \in 1..Len(q) : q[i][1] = p
    BY <2>1, Present
  <2>3. FrameOf(s, q, i) = s.frame_pointer
    BY <2>1, <2>2, EntryIs
  <2>4. Len(q) < MAX_FRAMES => s.frame_pointer = Len(q)
    BY DEF Holds
  <2>5. i = 1 /\ Len(q) = MAX_FRAMES
    BY <1>1, <1>2, <2>3, <2>4, FrameIs
  <2> QED
    BY <2>2, <2>5
<1>4. ASSUME Len(q) = MAX_FRAMES PROVE q[1][1] \in Paging!Victims(s)
  <2>1. 1 \in 1..Len(q)
    BY <1>2, <1>4
  <2>2. FrameOf(s, q, 1) = s.frame_pointer
    BY <1>1, <1>2, <1>4, <2>1, FrameIs
  <2>3. q[1][1] \in Paging!Pages
    BY <1>1, <2>1, QueueType
  <2>4. s.page_table[q[1][1]].frame_num = s.frame_pointer /\ s.page_table[q[1][1]].valid
    BY <2>1, <2>2, EntryIs
  <2> QED
    BY <2>3, <2>4 DEF Paging!Victims, Paging!Valid
<1> QED
  BY <1>2, <1>3, <1>4

NextFrame(k) == IF k + 1 < MAX_FRAMES THEN k + 1 ELSE 0

LEMMA NextFrameIs == \A k \in Frames : (k + 1) % MAX_FRAMES = NextFrame(k) /\ NextFrame(k) \in Frames
<1> USE FramesAssumption
<1> SUFFICES ASSUME NEW k \in Frames
             PROVE  (k + 1) % MAX_FRAMES = NextFrame(k) /\ NextFrame(k) \in Frames
  OBVIOUS
<1>1. k \in 0 .. MAX_FRAMES - 1
  BY DEF Frames
<1> DEFINE x == k + 1
<1>2. x \in 0 .. 2 * MAX_FRAMES - 1
  BY <1>1
<1>3. x % MAX_FRAMES = IF x < MAX_FRAMES THEN x ELSE x - MAX_FRAMES
  <2> HIDE DEF x
  <2> QED
    BY <1>2, Round
<1> QED
  BY <1>1, <1>3 DEF NextFrame, Frames

LEMMA PlacedIs ==
  ASSUME NEW s \in PagingStates, NEW page \in Paging!Pages
  PROVE  /\ Paging!Placed(s, page) \in PagingStates
         /\ Paging!Placed(s, page).page_table =
              [s.page_table EXCEPT ![page] =
                 [frame_num |-> s.frame_pointer, valid |-> TRUE, reference_bit |-> 0]]
         /\ Paging!Placed(s, page).frames = [s.frames EXCEPT ![s.frame_pointer] = page]
         /\ Paging!Placed(s, page).frame_pointer = NextFrame(s.frame_pointer)
         /\ Paging!Placed(s, page).page_faults = s.page_faults
<1> DEFINE entry == [frame_num |-> s.frame_pointer, valid |-> TRUE, reference_bit |-> 0]
           table == [s.page_table EXCEPT ![page] = entry]
           frames == [s.frames EXCEPT ![s.frame_pointer] = page]
           pointer == (s.frame_pointer + 1) % MAX_FRAMES
<1>1. Paging!Placed(s, page) = [page_table |-> table, frames |-> frames,
                                frame_pointer |-> pointer, page_faults |-> s.page_faults]
  <2>1. s = [page_table |-> s.page_table, frames |-> s.frames,
             frame_pointer |-> s.frame_pointer, page_faults |-> s.page_faults]
    BY DEF PagingStates
  <2>2. DOMAIN Paging!Placed(s, page) = {"page_table", "frames", "frame_pointer", "page_faults"}
    BY <2>1 DEF Paging!Placed
  <2>3. Paging!Placed(s, page).page_table = table
    BY <2>1 DEF Paging!Placed
  <2>4. Paging!Placed(s, page).frames = frames
    BY <2>1 DEF Paging!Placed
  <2>5. Paging!Placed(s, page).frame_pointer = pointer
    BY <2>1 DEF Paging!Placed
  <2>6. Paging!Placed(s, page).page_faults = s.page_faults
    BY <2>1 DEF Paging!Placed
  <2>7. Paging!Placed(s, page) = [k \in DOMAIN Paging!Placed(s, page) |-> Paging!Placed(s, page)[k]]
    BY <2>1 DEF Paging!Placed
  <2> HIDE DEF table, frames, pointer
  <2> QED
    BY <2>2, <2>3, <2>4, <2>5, <2>6, <2>7
<1>2. s.frame_pointer \in Frames
  BY DEF PagingStates
<1>3. pointer = NextFrame(s.frame_pointer) /\ pointer \in Frames
  BY <1>2, NextFrameIs
<1>4. entry \in PageEntries
  BY <1>2 DEF PageEntries
<1>5. table \in [Paging!Pages -> PageEntries]
  <2> HIDE DEF entry
  <2> QED
    BY <1>4, PagingType
<1>6. frames \in [Frames -> Paging!Pages \cup {-1}]
  BY PagingType
<1>7. s.page_faults \in Nat
  BY PagingType
<1> HIDE DEF table, frames, pointer
<1>8. Paging!Placed(s, page) \in PagingStates
  BY <1>1, <1>3, <1>5, <1>6, <1>7 DEF PagingStates
<1> QED
  BY <1>1, <1>3, <1>8 DEF table, frames

\* What one more page at the end of the queue is to the frames: the one at the
\* pointer has it.
LEMMA AppendedIs ==
  ASSUME NEW q \in Seq(Paging!Pages \X {0, 1}), NEW p \in Paging!Pages, NEW bit \in {0, 1}
  PROVE  /\ Append(q, <<p, bit>>) \in Seq(Paging!Pages \X {0, 1})
         /\ Len(Append(q, <<p, bit>>)) = Len(q) + 1
         /\ \A i \in 1..Len(q) : Append(q, <<p, bit>>)[i] = q[i]
         /\ Append(q, <<p, bit>>)[Len(q) + 1] = <<p, bit>>
<1>1. <<p, bit>> \in Paging!Pages \X {0, 1}
  OBVIOUS
<1> QED
  BY <1>1, AppendProperties

LEMMA PlaceInEmpty ==
  ASSUME NEW s, NEW q, Holds(s, q), Len(q) < MAX_FRAMES,
         NEW page \in Paging!Pages, \A i \in 1..Len(q) : q[i][1] # page
  PROVE  Holds(Paging!Placed(s, page), Append(q, <<page, 0>>))
<1> USE FramesAssumption
<1> DEFINE t == Paging!Placed(s, page)
           r == Append(q, <<page, 0>>)
           n == Len(q)
<1>1. s \in PagingStates /\ q \in PageQueues /\ s.frame_pointer = n
  BY DEF Holds
<1>2. n \in Nat /\ n \in Frames /\ q \in Seq(Paging!Pages \X {0, 1})
  BY <1>1, QueueType DEF Frames
<1>3. /\ t \in PagingStates
      /\ t.page_table = [s.page_table EXCEPT ![page] =
                           [frame_num |-> n, valid |-> TRUE, reference_bit |-> 0]]
      /\ t.frames = [s.frames EXCEPT ![n] = page]
      /\ t.frame_pointer = NextFrame(n)
  BY <1>1, PlacedIs
<1>4. /\ r \in Seq(Paging!Pages \X {0, 1}) /\ Len(r) = n + 1
      /\ \A i \in 1..n : r[i] = q[i]
      /\ r[n + 1] = <<page, 0>>
  BY <1>2, AppendedIs
<1>5. s.page_table \in [Paging!Pages -> PageEntries]
      /\ s.frames \in [Frames -> Paging!Pages \cup {-1}]
  BY <1>1, PagingType
<1> HIDE DEF t, r
<1>6. r \in PageQueues
  <2>1. ASSUME NEW i \in 1..Len(r), NEW j \in 1..Len(r), r[i][1] = r[j][1] PROVE i = j
    <3>1. \A k \in 1..n : r[k][1] = q[k][1] /\ q[k][1] # page
      BY <1>4
    <3>2. r[n + 1][1] = page
      BY <1>4
    <3>3. i \in 1..n \/ i = n + 1
      BY <1>2, <1>4
    <3>4. j \in 1..n \/ j = n + 1
      BY <1>2, <1>4
    <3> QED
      BY <1>1, <2>1, <3>1, <3>2, <3>3, <3>4, QueueType
  <2> QED
    BY <1>2, <1>4, <2>1 DEF PageQueues, Frames
<1>7. Len(r) < MAX_FRAMES => t.frame_pointer = Len(r)
  BY <1>2, <1>3, <1>4 DEF NextFrame
<1>8. ASSUME NEW i \in 1..Len(r)
      PROVE  FrameOf(t, r, i) = i - 1
  <2>1. Len(r) = MAX_FRAMES => t.frame_pointer = 0
    BY <1>3, <1>4 DEF NextFrame
  <2> QED
    BY <1>2, <1>3, <1>4, <1>6, <2>1, FrameIs DEF Frames
<1>9. ASSUME NEW i \in 1..Len(r)
      PROVE  /\ t.frames[FrameOf(t, r, i)] = r[i][1]
             /\ t.page_table[r[i][1]] =
                  [frame_num |-> FrameOf(t, r, i), valid |-> TRUE, reference_bit |-> r[i][2]]
  <2>1. CASE i = n + 1
    <3>1. r[i][1] = page /\ r[i][2] = 0 /\ FrameOf(t, r, i) = n
      BY <1>2, <1>4, <1>8, <2>1
    <3> QED
      BY <1>2, <1>3, <1>5, <3>1
  <2>2. CASE i \in 1..n
    <3>1. r[i] = q[i] /\ FrameOf(t, r, i) = i - 1 /\ FrameOf(s, q, i) = i - 1
      BY <1>1, <1>4, <1>8, <2>2, FrameIs
    <3>2. /\ s.frames[i - 1] = q[i][1]
          /\ s.page_table[q[i][1]] =
               [frame_num |-> i - 1, valid |-> TRUE, reference_bit |-> q[i][2]]
      BY <2>2, <3>1 DEF Holds
    <3>3. q[i][1] \in Paging!Pages /\ q[i][1] # page /\ i - 1 \in Frames /\ i - 1 # n
      BY <1>1, <1>2, <2>2, QueueType DEF Frames
    <3>4. t.frames[i - 1] = s.frames[i - 1] /\ t.page_table[q[i][1]] = s.page_table[q[i][1]]
      BY <1>3, <1>5, <3>3
    <3> QED
      BY <3>1, <3>2, <3>4
  <2> QED
    BY <1>2, <1>4, <2>1, <2>2
<1>10. ASSUME NEW p \in Paging!Pages, t.page_table[p].valid
       PROVE  \E i \in 1..Len(r) : r[i][1] = p
  <2>1. CASE p = page
    <3>1. n + 1 \in 1..Len(r) /\ r[n + 1][1] = p
      BY <1>2, <1>4, <2>1
    <3> QED
      BY <3>1
  <2>2. CASE p # page
    <3>1. s.page_table[p].valid
      BY <1>3, <1>5, <1>10, <2>2
    <3>2. PICK i \in 1..n : q[i][1] = p
      BY <3>1 DEF Holds
    <3>3. i \in 1..Len(r) /\ r[i] = q[i]
      BY <1>2, <1>4
    <3> QED
      BY <3>2, <3>3
  <2> QED
    BY <2>1, <2>2
<1>11. Holds(t, r)
  BY <1>3, <1>6, <1>7, <1>9, <1>10 DEF Holds
<1> QED
  BY <1>11 DEF t, r

\* The queue without its first page.
LEMMA TailIs ==
  ASSUME NEW q \in PageQueues, Len(q) = MAX_FRAMES
  PROVE  /\ Tail(q) \in Seq(Paging!Pages \X {0, 1})
         /\ Len(Tail(q)) = MAX_FRAMES - 1
         /\ \A i \in 1 .. MAX_FRAMES - 1 : Tail(q)[i] = q[i + 1]
<1>1. q \in Seq(Paging!Pages \X {0, 1}) /\ q # <<>>
  BY QueueType, FramesAssumption
<1> QED
  BY <1>1, HeadTailProperties

\* In the frame at the pointer the first page of a full queue gives way to p, which
\* goes to the end; p may be that page itself.
LEMMA Rotated ==
  ASSUME NEW s, NEW q, Holds(s, q), Len(q) = MAX_FRAMES,
         NEW p \in Paging!Pages, \A i \in 2..MAX_FRAMES : q[i][1] # p,
         NEW t \in PagingStates,
         t.frame_pointer = NextFrame(s.frame_pointer),
         t.frames = [s.frames EXCEPT ![s.frame_pointer] = p],
         t.page_table[p] =
           [frame_num |-> s.frame_pointer, valid |-> TRUE, reference_bit |-> 0],
         \A i \in 2..MAX_FRAMES : t.page_table[q[i][1]] = s.page_table[q[i][1]],
         \A x \in Paging!Pages :
           t.page_table[x].valid => x = p \/ (x # q[1][1] /\ s.page_table[x].valid)
  PROVE  Holds(t, Append(Tail(q), <<p, 0>>))
<1> USE FramesAssumption
<1> DEFINE r == Append(Tail(q), <<p, 0>>)
<1>1. s \in PagingStates /\ q \in PageQueues
  BY DEF Holds
<1>2. /\ r \in Seq(Paging!Pages \X {0, 1}) /\ Len(r) = MAX_FRAMES
      /\ \A i \in 1 .. MAX_FRAMES - 1 : r[i] = q[i + 1]
      /\ r[MAX_FRAMES] = <<p, 0>>
  <2> DEFINE u == Tail(q)
  <2>1. /\ u \in Seq(Paging!Pages \X {0, 1}) /\ Len(u) = MAX_FRAMES - 1
        /\ \A i \in 1 .. MAX_FRAMES - 1 : u[i] = q[i + 1]
    BY <1>1, TailIs
  <2> HIDE DEF u
  <2>2. /\ Append(u, <<p, 0>>) \in Seq(Paging!Pages \X {0, 1})
        /\ Len(Append(u, <<p, 0>>)) = Len(u) + 1
        /\ \A i \in 1..Len(u) : Append(u, <<p, 0>>)[i] = u[i]
        /\ Append(u, <<p, 0>>)[Len(u) + 1] = <<p, 0>>
    BY <2>1, AppendedIs
  <2>3. Len(u) + 1 = MAX_FRAMES
    BY <2>1
  <2> QED
    BY <2>1, <2>2, <2>3 DEF u
<1>3. /\ s.frame_pointer \in Nat /\ s.frame_pointer < MAX_FRAMES
      /\ s.frames \in [Frames -> Paging!Pages \cup {-1}]
  BY <1>1, PagingType
<1> HIDE DEF r
<1>4. \A i \in 1..MAX_FRAMES : i \in 1 .. MAX_FRAMES - 1 \/ i = MAX_FRAMES
  OBVIOUS
<1>5. r \in PageQueues
  <2>1. ASSUME NEW i \in 1..MAX_FRAMES, NEW j \in 1..MAX_FRAMES, r[i][1] = r[j][1] PROVE i = j
    <3>1. \A k \in 1 .. MAX_FRAMES - 1 :
            k + 1 \in 2..MAX_FRAMES /\ k + 1 \in 1..Len(q) /\ r[k][1] = q[k + 1][1]
      BY <1>2
    <3>2. r[MAX_FRAMES][1] = p
      BY <1>2
    <3>3. \A a, b \in 1..Len(q) : q[a][1] = q[b][1] => a = b
      BY <1>1, QueueType
    <3>4. CASE i < MAX_FRAMES /\ j < MAX_FRAMES
      <4>1. i + 1 \in 1..Len(q) /\ j + 1 \in 1..Len(q) /\ q[i + 1][1] = q[j + 1][1]
        BY <1>4, <2>1, <3>1, <3>4
      <4>2. i + 1 = j + 1
        BY <3>3, <4>1
      <4> QED
        BY <4>2
    <3>5. \A k \in 1 .. MAX_FRAMES - 1 : r[k][1] # p
      BY <3>1
    <3> QED
      BY <1>4, <2>1, <3>2, <3>4, <3>5
  <2> QED
    BY <1>2, <2>1 DEF PageQueues
<1>6. ASSUME NEW i \in 1..MAX_FRAMES
      PROVE  /\ i = MAX_FRAMES => FrameOf(t, r, i) = s.frame_pointer
             /\ i < MAX_FRAMES => /\ FrameOf(t, r, i) = FrameOf(s, q, i + 1)
                                  /\ FrameOf(t, r, i) # s.frame_pointer
                                  /\ FrameOf(t, r, i) \in Frames
  <2>0. t.frame_pointer = IF s.frame_pointer + 1 < MAX_FRAMES THEN s.frame_pointer + 1 ELSE 0
    BY DEF NextFrame
  <2>1. /\ FrameOf(t, r, i) \in Frames
        /\ FrameOf(t, r, i) = IF t.frame_pointer + i - 1 < MAX_FRAMES
                              THEN t.frame_pointer + i - 1
                              ELSE t.frame_pointer + i - 1 - MAX_FRAMES
    BY <1>2, <1>5, FrameIs
  <2>2. i < MAX_FRAMES =>
          FrameOf(s, q, i + 1) = IF s.frame_pointer + (i + 1) - 1 < MAX_FRAMES
                                 THEN s.frame_pointer + (i + 1) - 1
                                 ELSE s.frame_pointer + (i + 1) - 1 - MAX_FRAMES
    <3> DEFINE k == i + 1
    <3>1. i < MAX_FRAMES => k \in 1..Len(q)
      OBVIOUS
    <3> HIDE DEF k
    <3>2. i < MAX_FRAMES =>
            FrameOf(s, q, k) = IF s.frame_pointer + k - 1 < MAX_FRAMES
                               THEN s.frame_pointer + k - 1
                               ELSE s.frame_pointer + k - 1 - MAX_FRAMES
      BY <1>1, <3>1, FrameIs
    <3> QED
      BY <3>2 DEF k
  <2> QED
    BY <1>3, <2>0, <2>1, <2>2, SMTT(30)
<1>7. ASSUME NEW i \in 1..MAX_FRAMES
      PROVE  /\ t.frames[FrameOf(t, r, i)] = r[i][1]
             /\ t.page_table[r[i][1]] =
                  [frame_num |-> FrameOf(t, r, i), valid |-> TRUE, reference_bit |-> r[i][2]]
  <2>1. CASE i = MAX_FRAMES
    <3>1. r[i][1] = p /\ r[i][2] = 0 /\ FrameOf(t, r, i) = s.frame_pointer /\ s.frame_pointer \in Frames
      BY <1>1, <1>2, <1>6, <2>1 DEF PagingStates
    <3> QED
      BY <1>3, <3>1
  <2>2. CASE i < MAX_FRAMES
    <3>1. i \in 1 .. MAX_FRAMES - 1 /\ i + 1 \in 2..MAX_FRAMES /\ i + 1 \in 1..Len(q)
      BY <2>2
    <3>2. r[i] = q[i + 1]
      BY <1>2, <3>1
    <3>3. /\ FrameOf(t, r, i) = FrameOf(s, q, i + 1)
          /\ FrameOf(t, r, i) # s.frame_pointer /\ FrameOf(t, r, i) \in Frames
      BY <1>6, <2>2
    <3>4. /\ s.frames[FrameOf(s, q, i + 1)] = q[i + 1][1]
          /\ s.page_table[q[i + 1][1]] =
               [frame_num |-> FrameOf(s, q, i + 1), valid |-> TRUE, reference_bit |-> q[i + 1][2]]
      BY <3>1 DEF Holds
    <3>5. t.page_table[q[i + 1][1]] = s.page_table[q[i + 1][1]]
      BY <3>1
    <3>6. t.frames[FrameOf(t, r, i)] = s.frames[FrameOf(t, r, i)]
      BY <1>3, <3>3
    <3> QED
      BY <3>2, <3>3, <3>4, <3>5, <3>6
  <2> QED
    BY <2>1, <2>2
<1>8. ASSUME NEW x \in Paging!Pages, t.page_table[x].valid
      PROVE  \E i \in 1..MAX_FRAMES : r[i][1] = x
  <2>1. CASE x = p
    BY <1>2, <2>1
  <2>2. CASE x # q[1][1] /\ s.page_table[x].valid
    <3>1. PICK i \in 1..MAX_FRAMES : q[i][1] = x
      BY <2>2 DEF Holds
    <3>2. i - 1 \in 1 .. MAX_FRAMES - 1 /\ (i - 1) + 1 = i
      BY <2>2, <3>1
    <3>3. r[i - 1] = q[i]
      BY <1>2, <3>2
    <3> QED
      BY <3>1, <3>2, <3>3
  <2> QED
    BY <1>8, <2>1, <2>2
<1>9. Holds(t, r)
  BY <1>2, <1>5, <1>7, <1>8 DEF Holds
<1> QED
  BY <1>9 DEF r

\* A page leaves its frame, or is spared and loses its bit.
LEMMA LeaveIs ==
  ASSUME NEW s \in PagingStates, NEW v \in Paging!Pages
  PROVE  LET t == [s EXCEPT !.page_table[v].valid = FALSE]
         IN  /\ t \in PagingStates
             /\ t.page_table[v].valid = FALSE
             /\ \A x \in Paging!Pages : x # v => t.page_table[x] = s.page_table[x]
             /\ t.frames = s.frames /\ t.frame_pointer = s.frame_pointer
             /\ t.page_faults = s.page_faults
<1> DEFINE entry == [s.page_table[v] EXCEPT !.valid = FALSE]
           table == [s.page_table EXCEPT ![v] = entry]
           t == [s EXCEPT !.page_table[v].valid = FALSE]
<1>1. /\ s.page_table \in [Paging!Pages -> PageEntries] /\ s.page_table[v] \in PageEntries
      /\ s.frames \in [Frames -> Paging!Pages \cup {-1}] /\ s.frame_pointer \in Frames
      /\ s.page_faults \in Nat
  BY DEF PagingStates
<1>2. entry \in PageEntries /\ entry.valid = FALSE
  BY <1>1 DEF PageEntries
<1>3. t = [s EXCEPT !.page_table = table]
  BY <1>1 DEF PagingStates
<1> HIDE DEF t, entry
<1>4. table \in [Paging!Pages -> PageEntries] /\ table[v] = entry
      /\ \A x \in Paging!Pages : x # v => table[x] = s.page_table[x]
  BY <1>1, <1>2
<1> HIDE DEF table
<1>5. /\ t \in PagingStates /\ t.page_table = table
      /\ t.frames = s.frames /\ t.frame_pointer = s.frame_pointer /\ t.page_faults = s.page_faults
  BY <1>3, <1>4 DEF PagingStates
<1> QED
  BY <1>2, <1>4, <1>5 DEF t

LEMMA SpareIs ==
  ASSUME NEW s \in PagingStates, NEW v \in Paging!Pages
  PROVE  LET t == [s EXCEPT !.page_table[v].reference_bit = 0,
                            !.frame_pointer = (@ + 1) % MAX_FRAMES]
         IN  /\ t \in PagingStates
             /\ t.page_table[v] = [frame_num |-> s.page_table[v].frame_num,
                                   valid |-> s.page_table[v].valid, reference_bit |-> 0]
             /\ \A x \in Paging!Pages : x # v => t.page_table[x] = s.page_table[x]
             /\ t.frames = s.frames /\ t.frame_pointer = NextFrame(s.frame_pointer)
             /\ t.page_faults = s.page_faults
<1> DEFINE entry == [s.page_table[v] EXCEPT !.reference_bit = 0]
           table == [s.page_table EXCEPT ![v] = entry]
           pointer == (s.frame_pointer + 1) % MAX_FRAMES
           t == [s EXCEPT !.page_table[v].reference_bit = 0,
                          !.frame_pointer = (@ + 1) % MAX_FRAMES]
<1>1. /\ s.page_table \in [Paging!Pages -> PageEntries] /\ s.page_table[v] \in PageEntries
      /\ s.frames \in [Frames -> Paging!Pages \cup {-1}] /\ s.frame_pointer \in Frames
      /\ s.page_faults \in Nat
  BY DEF PagingStates
<1>2. /\ entry \in PageEntries
      /\ entry = [frame_num |-> s.page_table[v].frame_num,
                  valid |-> s.page_table[v].valid, reference_bit |-> 0]
  BY <1>1 DEF PageEntries
<1>3. t = [s EXCEPT !.page_table = table, !.frame_pointer = pointer]
  BY <1>1 DEF PagingStates
<1>4. pointer = NextFrame(s.frame_pointer) /\ pointer \in Frames
  BY <1>1, NextFrameIs
<1> HIDE DEF t, entry, pointer
<1>5. table \in [Paging!Pages -> PageEntries] /\ table[v] = entry
      /\ \A x \in Paging!Pages : x # v => table[x] = s.page_table[x]
  BY <1>1, <1>2
<1> HIDE DEF table
<1>6. /\ t \in PagingStates /\ t.page_table = table
      /\ t.frames = s.frames /\ t.frame_pointer = pointer /\ t.page_faults = s.page_faults
  BY <1>3, <1>4, <1>5 DEF PagingStates
<1> QED
  BY <1>2, <1>4, <1>5, <1>6 DEF t

LEMMA HitIs ==
  ASSUME NEW s \in PagingStates, NEW v \in Paging!Pages
  PROVE  LET t == [s EXCEPT !.page_table[v].reference_bit = 1]
         IN  /\ t \in PagingStates
             /\ t.page_table[v] = [frame_num |-> s.page_table[v].frame_num,
                                   valid |-> s.page_table[v].valid, reference_bit |-> 1]
             /\ \A x \in Paging!Pages : x # v => t.page_table[x] = s.page_table[x]
             /\ t.frames = s.frames /\ t.frame_pointer = s.frame_pointer
             /\ t.page_faults = s.page_faults
<1> DEFINE entry == [s.page_table[v] EXCEPT !.reference_bit = 1]
           table == [s.page_table EXCEPT ![v] = entry]
           t == [s EXCEPT !.page_table[v].reference_bit = 1]
<1>1. /\ s.page_table \in [Paging!Pages -> PageEntries] /\ s.page_table[v] \in PageEntries
      /\ s.frames \in [Frames -> Paging!Pages \cup {-1}] /\ s.frame_pointer \in Frames
      /\ s.page_faults \in Nat
  BY DEF PagingStates
<1>2. /\ entry \in PageEntries
      /\ entry = [frame_num |-> s.page_table[v].frame_num,
                  valid |-> s.page_table[v].valid, reference_bit |-> 1]
  BY <1>1 DEF PageEntries
<1>3. t = [s EXCEPT !.page_table = table]
  BY <1>1 DEF PagingStates
<1> HIDE DEF t, entry
<1>4. table \in [Paging!Pages -> PageEntries] /\ table[v] = entry
      /\ \A x \in Paging!Pages : x # v => table[x] = s.page_table[x]
  BY <1>1, <1>2
<1> HIDE DEF table
<1>5. /\ t \in PagingStates /\ t.page_table = table
      /\ t.frames = s.frames /\ t.frame_pointer = s.frame_pointer /\ t.page_faults = s.page_faults
  BY <1>3, <1>4 DEF PagingStates
<1> QED
  BY <1>2, <1>4, <1>5 DEF t

LEMMA TurnType ==
  ASSUME NEW s \in PagingStates, NEW page \in Paging!Pages
  PROVE  Paging!Turn(s, page) \in PagingStates
<1> DEFINE v == CHOOSE p \in Paging!Victims(s) : \A x \in Paging!Victims(s) : p <= x
<1>1. ASSUME Paging!Victims(s) # {} PROVE v \in Paging!Pages
  <2>1. Paging!Victims(s) \subseteq Nat /\ Paging!Victims(s) \subseteq Paging!Pages
    BY FramesAssumption DEF Paging!Victims, Paging!Pages
  <2>2. \E p \in Paging!Victims(s) : \A x \in Paging!Victims(s) : p <= x
    BY <1>1, <2>1, LeastNumber
  <2> QED
    BY <2>1, <2>2
<1> HIDE DEF v
<1>2. ASSUME v \in Paging!Pages
      PROVE  /\ Paging!Placed([s EXCEPT !.page_table[v].valid = FALSE], page) \in PagingStates
             /\ [s EXCEPT !.page_table[v].reference_bit = 0,
                          !.frame_pointer = (@ + 1) % MAX_FRAMES] \in PagingStates
  <2>1. [s EXCEPT !.page_table[v].valid = FALSE] \in PagingStates
    BY <1>2, LeaveIs
  <2> QED
    BY <1>2, <2>1, PlacedIs, SpareIs
<1>3. Paging!Placed(s, page) \in PagingStates
  BY PlacedIs
<1> QED
  BY <1>1, <1>2, <1>3 DEF v, Paging!Turn

\* A turn of the inner loop while the page is not there: into an empty frame, in
\* place of the oldest page, or sparing that one.
LEMMA TurnIs ==
  ASSUME NEW s, NEW q, Holds(s, q), NEW page \in Paging!Pages,
         \A i \in 1..Len(q) : q[i][1] # page
  PROVE  LET t == Paging!Turn(s, page)
         IN  /\ t.page_faults = s.page_faults
             /\ Len(q) < MAX_FRAMES => Holds(t, Append(q, <<page, 0>>))
             /\ Len(q) = MAX_FRAMES /\ q[1][2] = 0 => Holds(t, Append(Tail(q), <<page, 0>>))
             /\ Len(q) = MAX_FRAMES /\ q[1][2] # 0 => Holds(t, Append(Tail(q), <<q[1][1], 0>>))
<1> USE FramesAssumption
<1> DEFINE t == Paging!Turn(s, page)
<1>1. s \in PagingStates /\ q \in PageQueues /\ Len(q) \in 0..MAX_FRAMES
  BY QueueType DEF Holds
<1>2. ~Paging!Valid(s, page)
  BY Present
<1>3. CASE Len(q) < MAX_FRAMES
  <2>1. t = Paging!Placed(s, page)
    BY <1>2, <1>3, VictimsAre DEF Paging!Turn
  <2> HIDE DEF t
  <2>2. Holds(t, Append(q, <<page, 0>>))
    BY <1>3, <2>1, PlaceInEmpty
  <2>3. t.page_faults = s.page_faults
    BY <1>1, <2>1, PlacedIs
  <2> QED
    BY <1>1, <1>3, <2>2, <2>3 DEF t
<1>4. CASE Len(q) = MAX_FRAMES
  <2> DEFINE v == q[1][1]
  <2>1. v \in Paging!Pages /\ 1 \in 1..Len(q) /\ v # page
    BY <1>1, <1>4, QueueType
  <2>2. /\ s.page_table[v].frame_num = s.frame_pointer
        /\ s.page_table[v].valid
        /\ s.page_table[v].reference_bit = q[1][2]
        /\ s.frames[s.frame_pointer] = v
    <3>1. FrameOf(s, q, 1) = s.frame_pointer
      BY <1>1, <1>4, <2>1, FrameIs, PagingType
    <3> QED
      BY <2>1, <3>1, EntryIs
  <2>3. Paging!Victims(s) = {v}
    BY <1>1, <1>4, VictimsAre
  <2>4. \A i \in 2..MAX_FRAMES : q[i][1] # v /\ q[i][1] # page /\ q[i][1] \in Paging!Pages
    BY <1>1, <1>4, <2>1, QueueType, SMTT(30)
  <2> HIDE DEF v
  <2>5. (CHOOSE p \in Paging!Victims(s) : \A x \in Paging!Victims(s) : p <= x) = v
    <3>1. \E p \in Paging!Victims(s) : \A x \in Paging!Victims(s) : p <= x
      BY <2>1, <2>3 DEF Paging!Pages
    <3> QED
      BY <2>3, <3>1
  <2>6. /\ q[1][2] = 0 =>
             t = Paging!Placed([s EXCEPT !.page_table[v].valid = FALSE], page)
        /\ q[1][2] # 0 =>
             t = [s EXCEPT !.page_table[v].reference_bit = 0,
                           !.frame_pointer = (@ + 1) % MAX_FRAMES]
    <3> DEFINE victim == CHOOSE p \in Paging!Victims(s) : \A x \in Paging!Victims(s) : p <= x
    <3>1. t = IF s.page_table[victim].reference_bit = 0
              THEN Paging!Placed([s EXCEPT !.page_table[victim].valid = FALSE], page)
              ELSE [s EXCEPT !.page_table[victim].reference_bit = 0,
                             !.frame_pointer = (@ + 1) % MAX_FRAMES]
      BY <1>2, <2>3 DEF Paging!Turn
    <3> HIDE DEF victim
    <3>2. victim = v
      BY <2>5 DEF victim
    <3> QED
      BY <2>2, <3>1, <3>2
  <2>7. CASE q[1][2] = 0
    <3> DEFINE left == [s EXCEPT !.page_table[v].valid = FALSE]
    <3>1. t = Paging!Placed(left, page)
      BY <2>6, <2>7
    <3>2. /\ left \in PagingStates
          /\ left.page_table[v].valid = FALSE
          /\ \A x \in Paging!Pages : x # v => left.page_table[x] = s.page_table[x]
          /\ left.frames = s.frames /\ left.frame_pointer = s.frame_pointer
          /\ left.page_faults = s.page_faults
      BY <1>1, <2>1, LeaveIs
    <3> HIDE DEF left, t
    <3>3. /\ t \in PagingStates
          /\ t.page_table = [left.page_table EXCEPT ![page] =
               [frame_num |-> s.frame_pointer, valid |-> TRUE, reference_bit |-> 0]]
          /\ t.frames = [s.frames EXCEPT ![s.frame_pointer] = page]
          /\ t.frame_pointer = NextFrame(s.frame_pointer)
          /\ t.page_faults = s.page_faults
      BY <3>1, <3>2, PlacedIs
    <3>4. left.page_table \in [Paging!Pages -> PageEntries]
      BY <3>2, PagingType
    <3>5. /\ t.page_table[page] =
               [frame_num |-> s.frame_pointer, valid |-> TRUE, reference_bit |-> 0]
          /\ \A x \in Paging!Pages : x # page => t.page_table[x] = left.page_table[x]
      BY <3>3, <3>4
    <3>6. \A i \in 2..MAX_FRAMES : t.page_table[q[i][1]] = s.page_table[q[i][1]]
      BY <2>4, <3>2, <3>5
    <3>7. \A x \in Paging!Pages :
            t.page_table[x].valid => x = page \/ (x # v /\ s.page_table[x].valid)
      BY <3>2, <3>5
    <3>8. Holds(t, Append(Tail(q), <<page, 0>>))
      BY <1>4, <2>4, <3>3, <3>5, <3>6, <3>7, Rotated DEF v
    <3> QED
      BY <1>4, <2>7, <3>3, <3>8 DEF t
  <2>8. CASE q[1][2] # 0
    <3>1. t = [s EXCEPT !.page_table[v].reference_bit = 0,
                        !.frame_pointer = (@ + 1) % MAX_FRAMES]
      BY <2>6, <2>8
    <3> HIDE DEF t
    <3>2. /\ t \in PagingStates
          /\ t.page_table[v] = [frame_num |-> s.page_table[v].frame_num,
                                valid |-> s.page_table[v].valid, reference_bit |-> 0]
          /\ \A x \in Paging!Pages : x # v => t.page_table[x] = s.page_table[x]
          /\ t.frames = s.frames /\ t.frame_pointer = NextFrame(s.frame_pointer)
          /\ t.page_faults = s.page_faults
      BY <1>1, <2>1, <3>1, SpareIs, ZenonT(40)
    <3>3. /\ s.frames \in [Frames -> Paging!Pages \cup {-1}]
          /\ s.page_table[v].valid = TRUE
      BY <1>1, <2>1, <2>2, PagingType
    <3>4. t.frames = [s.frames EXCEPT ![s.frame_pointer] = v]
      BY <2>2, <3>2, <3>3
    <3>5. t.page_table[v] =
            [frame_num |-> s.frame_pointer, valid |-> TRUE, reference_bit |-> 0]
      BY <2>2, <3>2, <3>3
    <3>6. \A i \in 2..MAX_FRAMES : t.page_table[q[i][1]] = s.page_table[q[i][1]]
      BY <2>4, <3>2
    <3>7. \A x \in Paging!Pages :
            t.page_table[x].valid => x = v \/ (x # v /\ s.page_table[x].valid)
      BY <3>2
    <3>8. Holds(t, Append(Tail(q), <<v, 0>>))
      BY <1>4, <2>1, <2>4, <3>2, <3>4, <3>5, <3>6, <3>7, Rotated DEF v
    <3> QED
      BY <1>4, <2>8, <3>2, <3>8 DEF t, v
  <2> QED
    BY <2>7, <2>8
<1> QED
  BY <1>1, <1>3, <1>4

LEMMA AccessTurns ==
  ASSUME NEW s \in PagingStates, NEW page \in Paging!Pages, ~Paging!Valid(s, page)
  PROVE  \E f : /\ f[0] = [s EXCEPT !.page_faults = @ + 1]
                /\ f[MAX_FRAMES + 1] = Paging!Access(s, page)
                /\ \A k \in 0..MAX_FRAMES : f[k + 1] = Paging!Turn(f[k], page)
<1> USE FramesAssumption
<1> DEFINE n == MAX_FRAMES + 1
           base == [s EXCEPT !.page_faults = @ + 1]
           next == [z \in (0 .. n - 1) \X PagingStates |-> Paging!Turn(z[2], page)]
           F(f) == [k \in 0..n |-> IF k = 0 THEN base ELSE Paging!Turn(f[k - 1], page)]
           after == CHOOSE f : f = F(f)
<1>1. base \in PagingStates
  BY DEF PagingStates
<1>2. next \in [(0 .. n - 1) \X PagingStates -> PagingStates]
  BY TurnType
<1>3. PICK u \in [0..n -> PagingStates] : Turns(u, n, base, next)
  <2>1. n \in Nat
    OBVIOUS
  <2> HIDE DEF n, base, next
  <2> QED
    BY <1>1, <1>2, <2>1, TurnsExist
<1>4. u = F(u)
  <2>1. ASSUME NEW k \in 0..n, k # 0
        PROVE  next[<<k - 1, u[k - 1]>>] = Paging!Turn(u[k - 1], page)
    <3>1. k - 1 \in 0 .. n - 1 /\ u[k - 1] \in PagingStates
      BY <2>1
    <3> QED
      BY <3>1
  <2> HIDE DEF base, next
  <2> QED
    BY <1>3, <2>1 DEF Turns
<1>5. after = F(after)
  <2> HIDE DEF F
  <2> QED
    BY <1>4
<1>6. after[n] = Paging!Access(s, page)
  BY DEF after, Paging!Access
<1> HIDE DEF after, base
<1>7. after[0] = base /\ \A k \in 0..MAX_FRAMES : after[k + 1] = Paging!Turn(after[k], page)
  <2>1. \A k \in 0..n : after[k] = IF k = 0 THEN base ELSE Paging!Turn(after[k - 1], page)
    BY <1>5
  <2>2. \A k \in 0..MAX_FRAMES : k + 1 \in 0..n /\ k + 1 # 0 /\ (k + 1) - 1 = k
    OBVIOUS
  <2> QED
    BY <2>1, <2>2
<1> QED
  BY <1>6, <1>7 DEF base

-----------------------------------------------------------------------------
\* How many pages at the front of the queue have their bit set.
LEMMA SparedIs ==
  ASSUME NEW q \in PageQueues
  PROVE  /\ Paging!Spared(q) \in 0..Len(q)
         /\ \A i \in 1..Paging!Spared(q) : q[i][2] # 0
         /\ Paging!Spared(q) < Len(q) => q[Paging!Spared(q) + 1][2] = 0
<1> DEFINE Good(n) == /\ \A i \in 1..n : q[i][2] # 0
                      /\ n < Len(q) => q[n + 1][2] = 0
           B == {i \in 1..Len(q) : q[i][2] = 0}
<1>1. Len(q) \in Nat
  BY QueueType
<1>2. \E n \in 0..Len(q) : Good(n)
  <2>1. CASE B = {}
    <3>1. Len(q) \in 0..Len(q) /\ Good(Len(q))
      BY <1>1, <2>1
    <3> QED
      BY <3>1
  <2>2. CASE B # {}
    <3>1. PICK b \in B : \A i \in B : b <= i
      <4>1. B \subseteq Nat
        BY <1>1
      <4> HIDE DEF B
      <4> QED
        BY <2>2, <4>1, LeastNumber
    <3>2. b \in 1..Len(q) /\ q[b][2] = 0 /\ \A i \in 1 .. b - 1 : q[i][2] # 0
      <4>1. ASSUME NEW i \in 1 .. b - 1, q[i][2] = 0 PROVE FALSE
        <5>1. i \in B /\ i < b
          BY <1>1, <4>1
        <5> QED
          BY <3>1, <5>1
      <4> QED
        BY <4>1
    <3>3. b - 1 \in 0..Len(q) /\ (b - 1) + 1 = b /\ Good(b - 1)
      BY <1>1, <3>2
    <3> QED
      BY <3>3
  <2> QED
    BY <2>1, <2>2
<1> QED
  BY <1>2 DEF Paging!Spared

\* A full queue after k turns that spared a page each.
Rotation(q, k) ==
    [i \in 1..MAX_FRAMES |-> IF i + k <= MAX_FRAMES THEN q[i + k] ELSE <<q[i + k - MAX_FRAMES][1], 0>>]

LEMMA RotationIs ==
  ASSUME NEW q \in PageQueues, Len(q) = MAX_FRAMES, NEW k \in 0..MAX_FRAMES
  PROVE  /\ Rotation(q, k) \in Seq(Paging!Pages \X {0, 1}) /\ Len(Rotation(q, k)) = MAX_FRAMES
         /\ Rotation(q, 0) = q
         /\ k < MAX_FRAMES => Rotation(q, k)[1] = q[k + 1]
         /\ k = MAX_FRAMES => Rotation(q, k)[1] = <<q[1][1], 0>>
         /\ \A i \in 1..MAX_FRAMES : \E j \in 1..MAX_FRAMES : Rotation(q, k)[i][1] = q[j][1]
<1> USE FramesAssumption
<1>1. /\ q \in Seq(Paging!Pages \X {0, 1}) /\ Len(q) = MAX_FRAMES /\ DOMAIN q = 1..MAX_FRAMES
      /\ \A j \in 1..MAX_FRAMES : q[j] \in Paging!Pages \X {0, 1} /\ q[j][1] \in Paging!Pages
  BY QueueType
<1>2. ASSUME NEW i \in 1..MAX_FRAMES
      PROVE  /\ Rotation(q, k)[i] \in Paging!Pages \X {0, 1}
             /\ \E j \in 1..MAX_FRAMES : Rotation(q, k)[i][1] = q[j][1]
  <2>1. CASE i + k <= MAX_FRAMES
    <3>1. i + k \in 1..MAX_FRAMES /\ Rotation(q, k)[i] = q[i + k]
      BY <2>1 DEF Rotation
    <3> QED
      BY <1>1, <3>1
  <2>2. CASE i + k > MAX_FRAMES
    <3>1. /\ i + k - MAX_FRAMES \in 1..MAX_FRAMES
          /\ Rotation(q, k)[i] = <<q[i + k - MAX_FRAMES][1], 0>>
      BY <2>2 DEF Rotation
    <3>2. q[i + k - MAX_FRAMES][1] \in Paging!Pages
      BY <1>1, <3>1
    <3> QED
      BY <3>1, <3>2
  <2> QED
    BY <2>1, <2>2
<1>3. Rotation(q, k) \in Seq(Paging!Pages \X {0, 1}) /\ Len(Rotation(q, k)) = MAX_FRAMES
  <2>1. Rotation(q, k) = [i \in 1..MAX_FRAMES |-> Rotation(q, k)[i]]
    BY DEF Rotation
  <2> QED
    BY <1>2, <2>1, IsASeq
<1>4. Rotation(q, 0) = q
  <2>1. \A i \in 1..MAX_FRAMES : i + 0 <= MAX_FRAMES /\ i + 0 = i
    OBVIOUS
  <2>2. q = [i \in 1..MAX_FRAMES |-> q[i]]
    BY <1>1
  <2> QED
    BY <2>1, <2>2 DEF Rotation
<1>5. /\ k < MAX_FRAMES => Rotation(q, k)[1] = q[k + 1]
      /\ k = MAX_FRAMES => Rotation(q, k)[1] = <<q[1][1], 0>>
  <2>1. 1 \in 1..MAX_FRAMES /\ 1 + k = k + 1 /\ (k = MAX_FRAMES => 1 + k - MAX_FRAMES = 1)
    OBVIOUS
  <2> QED
    BY <2>1 DEF Rotation
<1> QED
  BY <1>2, <1>3, <1>4, <1>5

\* One more page spared.
LEMMA RotationNext ==
  ASSUME NEW q \in PageQueues, Len(q) = MAX_FRAMES, NEW k \in 0 .. MAX_FRAMES - 1
  PROVE  Append(Tail(Rotation(q, k)), <<Rotation(q, k)[1][1], 0>>) = Rotation(q, k + 1)
<1> USE FramesAssumption
<1> DEFINE a == Rotation(q, k)
           b == Rotation(q, k + 1)
           p == a[1][1]
<1>1. /\ a \in Seq(Paging!Pages \X {0, 1}) /\ Len(a) = MAX_FRAMES
      /\ b \in Seq(Paging!Pages \X {0, 1}) /\ Len(b) = MAX_FRAMES
      /\ a[1] = q[k + 1]
  <2>1. k \in 0..MAX_FRAMES /\ k + 1 \in 0..MAX_FRAMES /\ k < MAX_FRAMES
    OBVIOUS
  <2> QED
    BY <2>1, RotationIs
<1>2. /\ Tail(a) \in Seq(Paging!Pages \X {0, 1}) /\ Len(Tail(a)) = MAX_FRAMES - 1
      /\ \A i \in 1 .. MAX_FRAMES - 1 : Tail(a)[i] = a[i + 1]
  <2> HIDE DEF a
  <2>1. a # <<>>
    BY <1>1
  <2> QED
    BY <1>1, <2>1, HeadTailProperties
<1>3. p \in Paging!Pages /\ p = q[k + 1][1]
  BY <1>1, QueueType
<1> DEFINE c == Append(Tail(a), <<p, 0>>)
<1>4. /\ c \in Seq(Paging!Pages \X {0, 1}) /\ Len(c) = MAX_FRAMES
      /\ \A i \in 1 .. MAX_FRAMES - 1 : c[i] = a[i + 1]
      /\ c[MAX_FRAMES] = <<p, 0>>
  <2> DEFINE u == Tail(a)
  <2> HIDE DEF a, p, u
  <2>1. u \in Seq(Paging!Pages \X {0, 1}) /\ Len(u) = MAX_FRAMES - 1
    BY <1>2 DEF u
  <2>2. /\ Append(u, <<p, 0>>) \in Seq(Paging!Pages \X {0, 1})
        /\ Len(Append(u, <<p, 0>>)) = Len(u) + 1
        /\ \A i \in 1..Len(u) : Append(u, <<p, 0>>)[i] = u[i]
        /\ Append(u, <<p, 0>>)[Len(u) + 1] = <<p, 0>>
    BY <1>3, <2>1, AppendedIs
  <2>3. Len(u) + 1 = MAX_FRAMES
    BY <2>1
  <2> QED
    BY <1>2, <2>1, <2>2, <2>3 DEF u
<1>5. ASSUME NEW i \in 1..MAX_FRAMES PROVE c[i] = b[i]
  <2>1. CASE i < MAX_FRAMES
    <3>1. i \in 1 .. MAX_FRAMES - 1 /\ i + 1 \in 1..MAX_FRAMES /\ (i + 1) + k = i + (k + 1)
      BY <2>1
    <3>2. c[i] = a[i + 1]
      BY <1>4, <3>1
    <3>3. a[i + 1] = b[i]
      BY <3>1 DEF Rotation
    <3> QED
      BY <3>2, <3>3
  <2>2. CASE i = MAX_FRAMES
    <3>1. i + (k + 1) - MAX_FRAMES = k + 1 /\ ~(i + (k + 1) <= MAX_FRAMES)
      BY <2>2
    <3>2. b[i] = <<q[k + 1][1], 0>>
      BY <3>1 DEF Rotation
    <3> HIDE DEF c, b
    <3> QED
      BY <1>3, <1>4, <2>2, <3>2
  <2>3. i < MAX_FRAMES \/ i = MAX_FRAMES
    OBVIOUS
  <2> HIDE DEF c, b
  <2> QED
    BY <2>1, <2>2, <2>3
<1> HIDE DEF a, b, c
<1>6. c = b
  BY <1>1, <1>4, <1>5, SeqEqual
<1> QED
  BY <1>6 DEF a, b, c, p

\* The queue of the reference definition: as many turns as pages are spared.
LEMMA EnterIs ==
  ASSUME NEW q \in PageQueues, NEW page \in Paging!Pages
  PROVE  Paging!Enter(q, page) =
           IF Len(q) < MAX_FRAMES THEN Append(q, <<page, 0>>)
           ELSE Append(Tail(Rotation(q, Paging!Spared(q))), <<page, 0>>)
<1> USE FramesAssumption
<1> SUFFICES ASSUME ~(Len(q) < MAX_FRAMES)
             PROVE  Paging!Enter(q, page) =
                      Append(Tail(Rotation(q, Paging!Spared(q))), <<page, 0>>)
  BY DEF Paging!Enter
<1> DEFINE d == Paging!Spared(q)
           front == [i \in 1..d |-> <<q[i][1], 0>>]
           back == SubSeq(q, d + 1, Len(q))
           X == Paging!Pages \X {0, 1}
<1>1. Len(q) = MAX_FRAMES /\ d \in 0..MAX_FRAMES /\ q \in Seq(X)
  BY QueueType, SparedIs
<1>2. Paging!Enter(q, page) = Append(Tail(back \o front), <<page, 0>>)
  BY DEF Paging!Enter
<1> HIDE DEF d
<1>3. front \in Seq(X) /\ Len(front) = d /\ \A i \in 1..d : front[i] = <<q[i][1], 0>>
  <2>1. \A i \in 1..d : <<q[i][1], 0>> \in X
    BY <1>1, QueueType
  <2>2. front \in Seq(X)
    BY <1>1, <2>1, IsASeq
  <2>3. Len(front) = d
    BY <1>1
  <2> QED
    BY <2>2, <2>3
<1> HIDE DEF X
<1>4. /\ back \in Seq(X) /\ Len(back) = MAX_FRAMES - d
      /\ \A i \in 1 .. MAX_FRAMES - d : back[i] = q[d + i]
  <2>1. d + 1 \in 1 .. Len(q) + 1 /\ Len(q) \in d + 1 - 1 .. Len(q)
    BY <1>1
  <2>2. /\ SubSeq(q, d + 1, Len(q)) \in Seq(X)
        /\ Len(SubSeq(q, d + 1, Len(q))) =
             IF d + 1 <= Len(q) THEN Len(q) - (d + 1) + 1 ELSE 0
        /\ \A i \in 1 .. Len(q) - (d + 1) + 1 :
             SubSeq(q, d + 1, Len(q))[i] = q[d + 1 + i - 1]
    BY <1>1, <2>1, SubSeqProperties
  <2>3. /\ (IF d + 1 <= Len(q) THEN Len(q) - (d + 1) + 1 ELSE 0) = MAX_FRAMES - d
        /\ Len(q) - (d + 1) + 1 = MAX_FRAMES - d
        /\ \A i \in Nat : d + 1 + i - 1 = d + i
    BY <1>1
  <2> QED
    BY <1>1, <2>2, <2>3
<1> HIDE DEF front, back
<1>5. /\ back \o front \in Seq(X) /\ Len(back \o front) = MAX_FRAMES
      /\ \A i \in 1..MAX_FRAMES :
           (back \o front)[i] = IF i <= MAX_FRAMES - d THEN back[i] ELSE front[i - (MAX_FRAMES - d)]
  <2>1. /\ back \o front \in Seq(X)
        /\ Len(back \o front) = Len(back) + Len(front)
        /\ \A i \in 1 .. Len(back) + Len(front) :
             (back \o front)[i] = IF i <= Len(back) THEN back[i] ELSE front[i - Len(back)]
    BY <1>3, <1>4, ConcatProperties
  <2>2. Len(back) + Len(front) = MAX_FRAMES
    BY <1>1, <1>3, <1>4
  <2> QED
    BY <1>4, <2>1, <2>2
<1>6. Rotation(q, d) \in Seq(X) /\ Len(Rotation(q, d)) = MAX_FRAMES
  BY <1>1, RotationIs DEF X
<1>7. ASSUME NEW i \in 1..MAX_FRAMES PROVE (back \o front)[i] = Rotation(q, d)[i]
  <2>1. CASE i + d <= MAX_FRAMES
    <3>1. i \in 1 .. MAX_FRAMES - d /\ i <= MAX_FRAMES - d /\ d + i = i + d
      BY <1>1, <2>1
    <3>2. Rotation(q, d)[i] = q[i + d]
      BY <2>1 DEF Rotation
    <3> QED
      BY <1>4, <1>5, <3>1, <3>2
  <2>2. CASE i + d > MAX_FRAMES
    <3>1. /\ i - (MAX_FRAMES - d) \in 1..d /\ ~(i <= MAX_FRAMES - d) /\ ~(i + d <= MAX_FRAMES)
          /\ i - (MAX_FRAMES - d) = i + d - MAX_FRAMES
      BY <1>1, <2>2
    <3>2. Rotation(q, d)[i] = <<q[i + d - MAX_FRAMES][1], 0>>
      BY <3>1 DEF Rotation
    <3> QED
      BY <1>3, <1>5, <3>1, <3>2
  <2>3. i + d <= MAX_FRAMES \/ i + d > MAX_FRAMES
    BY <1>1
  <2> QED
    BY <2>1, <2>2, <2>3
<1>8. back \o front = Rotation(q, d)
  BY <1>5, <1>6, <1>7, SeqEqual
<1> QED
  BY <1>2, <1>8 DEF d

-----------------------------------------------------------------------------
\* A fault: the loop spares as many pages as the reference definition, then
\* places the page, in one round of the frames and a turn at most.
LEMMA FaultKeeps ==
  ASSUME NEW s, NEW q, Holds(s, q), NEW page \in Paging!Pages,
         \A i \in 1..Len(q) : q[i][1] # page
  PROVE  /\ Holds(Paging!Access(s, page), Paging!Enter(q, page))
         /\ Paging!Access(s, page).page_faults = s.page_faults + 1
<1> USE FramesAssumption
<1>1. s \in PagingStates /\ q \in PageQueues /\ Len(q) \in 0..MAX_FRAMES /\ s.page_faults \in Nat
  BY QueueType, PagingType DEF Holds
<1>2. ~Paging!Valid(s, page)
  BY Present
<1>3. PICK f : /\ f[0] = [s EXCEPT !.page_faults = @ + 1]
               /\ f[MAX_FRAMES + 1] = Paging!Access(s, page)
               /\ \A k \in 0..MAX_FRAMES : f[k + 1] = Paging!Turn(f[k], page)
  BY <1>1, <1>2, AccessTurns
<1>4. Holds(f[0], q) /\ f[0].page_faults = s.page_faults + 1
  <2>1. /\ f[0] \in PagingStates /\ f[0].frames = s.frames /\ f[0].page_table = s.page_table
        /\ f[0].frame_pointer = s.frame_pointer /\ f[0].page_faults = s.page_faults + 1
    BY <1>1, <1>3 DEF PagingStates
  <2>2. \A i : FrameOf(f[0], q, i) = FrameOf(s, q, i)
    BY <2>1 DEF FrameOf
  <2> QED
    BY <2>1, <2>2 DEF Holds
<1> DEFINE d == IF Len(q) < MAX_FRAMES THEN 0 ELSE Paging!Spared(q)
           r(k) == IF k = 0 THEN q ELSE Rotation(q, k)
           e == Paging!Enter(q, page)
<1>5. d \in 0..MAX_FRAMES
  BY <1>1, SparedIs
<1>0. Len(q) = MAX_FRAMES => \A k \in 0..MAX_FRAMES : r(k) = Rotation(q, k)
  <2>1. Len(q) = MAX_FRAMES => q = Rotation(q, 0)
    <3>1. 0 \in 0..MAX_FRAMES
      OBVIOUS
    <3> QED
      BY <1>1, <3>1, RotationIs
  <2> QED
    BY <2>1
\* The turns that spare a page.
<1>6. ASSUME NEW k \in 0 .. d - 1, NEW x, Holds(x, r(k))
      PROVE  Holds(Paging!Turn(x, page), r(k + 1)) /\ Paging!Turn(x, page).page_faults = x.page_faults
  <2>1. Len(q) = MAX_FRAMES /\ k \in 0 .. MAX_FRAMES - 1 /\ k \in 0..MAX_FRAMES
        /\ d = Paging!Spared(q) /\ k + 1 \in 1..d /\ k < MAX_FRAMES
    BY <1>1, <1>5
  <2> HIDE DEF d, r, e
  <2>2. r(k) = Rotation(q, k) /\ r(k + 1) = Rotation(q, k + 1)
    BY <1>0, <2>1
  <2>3. /\ Len(Rotation(q, k)) = MAX_FRAMES /\ Rotation(q, k)[1] = q[k + 1]
        /\ \A i \in 1..MAX_FRAMES : \E j \in 1..MAX_FRAMES : Rotation(q, k)[i][1] = q[j][1]
    BY <1>1, <2>1, RotationIs
  <2>4. q[k + 1][2] # 0
    BY <1>1, <2>1, SparedIs
  <2> DEFINE a == Rotation(q, k)
  <2>5. Append(Tail(a), <<a[1][1], 0>>) = Rotation(q, k + 1)
    BY <1>1, <2>1, RotationNext
  <2>6. /\ Holds(x, a) /\ Len(a) = MAX_FRAMES /\ a[1][2] # 0
        /\ \A i \in 1..Len(a) : a[i][1] # page
    BY <1>6, <2>1, <2>2, <2>3, <2>4
  <2> HIDE DEF a
  <2>7. Holds(Paging!Turn(x, page), Append(Tail(a), <<a[1][1], 0>>))
        /\ Paging!Turn(x, page).page_faults = x.page_faults
    BY <2>6, TurnIs
  <2> QED
    BY <2>2, <2>5, <2>7
\* The turn that places the page.
<1>7. ASSUME NEW x, Holds(x, r(d))
      PROVE  Holds(Paging!Turn(x, page), e) /\ Paging!Turn(x, page).page_faults = x.page_faults
  <2>1. CASE Len(q) < MAX_FRAMES
    <3>1. d = 0 /\ r(d) = q /\ e = Append(q, <<page, 0>>)
      BY <1>1, <2>1, EnterIs
    <3> HIDE DEF r, d, e
    <3> QED
      BY <1>7, <2>1, <3>1, TurnIs
  <2>2. CASE Len(q) = MAX_FRAMES
    <3>1. d = Paging!Spared(q) /\ r(d) = Rotation(q, d) /\ e = Append(Tail(Rotation(q, d)), <<page, 0>>)
      <4>1. r(d) = Rotation(q, d)
        BY <1>0, <1>5, <2>2
      <4>2. d = Paging!Spared(q)
        BY <2>2
      <4> HIDE DEF d, r
      <4> QED
        BY <1>1, <2>2, <4>1, <4>2, EnterIs
    <3>2. /\ Len(Rotation(q, d)) = MAX_FRAMES /\ Rotation(q, d)[1][2] = 0
          /\ \A i \in 1..MAX_FRAMES : \E j \in 1..MAX_FRAMES : Rotation(q, d)[i][1] = q[j][1]
      <4>1. d = Paging!Spared(q)
        BY <3>1
      <4> HIDE DEF d
      <4>2. d < MAX_FRAMES => q[d + 1][2] = 0
        BY <1>1, <2>2, <4>1, SparedIs
      <4>3. /\ Len(Rotation(q, d)) = MAX_FRAMES
            /\ d < MAX_FRAMES => Rotation(q, d)[1] = q[d + 1]
            /\ d = MAX_FRAMES => Rotation(q, d)[1] = <<q[1][1], 0>>
            /\ \A i \in 1..MAX_FRAMES : \E j \in 1..MAX_FRAMES : Rotation(q, d)[i][1] = q[j][1]
        BY <1>1, <1>5, <2>2, RotationIs
      <4>4. d < MAX_FRAMES \/ d = MAX_FRAMES
        BY <1>5
      <4>5. ASSUME d < MAX_FRAMES PROVE Rotation(q, d)[1][2] = 0
        BY <4>2, <4>3, <4>5
      <4>6. ASSUME d = MAX_FRAMES PROVE Rotation(q, d)[1][2] = 0
        BY <4>3, <4>6
      <4> QED
        BY <4>3, <4>4, <4>5, <4>6
    <3> DEFINE a == Rotation(q, d)
    <3>3. /\ Holds(x, a) /\ Len(a) = MAX_FRAMES /\ a[1][2] = 0
          /\ \A i \in 1..Len(a) : a[i][1] # page
      BY <1>7, <2>2, <3>1, <3>2, ZenonT(40)
    <3>4. e = Append(Tail(a), <<page, 0>>)
      BY <3>1
    <3> HIDE DEF a, e, r, d
    <3> QED
      BY <3>3, <3>4, TurnIs
  <2> QED
    BY <1>1, <2>1, <2>2
\* The page is there after that.
<1>8. \E i \in 1..Len(e) : e[i][1] = page
  <2>1. CASE Len(q) < MAX_FRAMES
    <3>1. e = Append(q, <<page, 0>>) /\ q \in Seq(Paging!Pages \X {0, 1})
      BY <1>1, <2>1, EnterIs, QueueType
    <3>2. Len(q) + 1 \in 1..Len(e) /\ e[Len(q) + 1][1] = page
      BY <1>1, <3>1, AppendedIs
    <3> QED
      BY <3>2
  <2>2. CASE Len(q) = MAX_FRAMES
    <3>1. e = Append(Tail(Rotation(q, Paging!Spared(q))), <<page, 0>>)
          /\ Paging!Spared(q) \in 0..MAX_FRAMES
      BY <1>1, <2>2, EnterIs, SparedIs
    <3> DEFINE a == Rotation(q, Paging!Spared(q))
               u == Tail(a)
    <3>2. a \in Seq(Paging!Pages \X {0, 1}) /\ Len(a) = MAX_FRAMES
      BY <1>1, <2>2, <3>1, RotationIs
    <3> HIDE DEF a
    <3>3. u \in Seq(Paging!Pages \X {0, 1}) /\ Len(u) \in Nat
      <4>1. a # <<>>
        BY <3>2
      <4> QED
        BY <3>2, <4>1, HeadTailProperties
    <3> HIDE DEF u, e
    <3>4. e = Append(u, <<page, 0>>)
      BY <3>1 DEF u, a
    <3>5. Len(u) + 1 \in 1..Len(e) /\ e[Len(u) + 1][1] = page
      BY <3>3, <3>4, AppendedIs
    <3> QED
      BY <3>5
  <2> QED
    BY <1>1, <2>1, <2>2
<1> HIDE DEF d, r, e
<1> DEFINE G == {k \in 0 .. MAX_FRAMES + 1 :
                   /\ f[k].page_faults = s.page_faults + 1
                   /\ IF k <= d THEN Holds(f[k], r(k)) ELSE Holds(f[k], e)}
<1>9. 0 \in G
  BY <1>4, <1>5 DEF r
<1>10. ASSUME NEW k \in 0 .. (MAX_FRAMES + 1) - 1, k \in G PROVE k + 1 \in G
  <2>1. k \in 0..MAX_FRAMES /\ k + 1 \in 0 .. MAX_FRAMES + 1 /\ f[k + 1] = Paging!Turn(f[k], page)
    BY <1>3
  <2>2. CASE k < d
    <3>1. k \in 0 .. d - 1 /\ Holds(f[k], r(k)) /\ k + 1 <= d
      BY <1>5, <1>10, <2>2
    <3> QED
      BY <1>6, <1>10, <2>1, <3>1
  <2>3. CASE k = d
    <3>1. Holds(f[k], r(d)) /\ ~(k + 1 <= d)
      BY <1>5, <1>10, <2>3
    <3> QED
      BY <1>7, <1>10, <2>1, <3>1
  <2>4. CASE k > d
    <3>1. Holds(f[k], e) /\ ~(k + 1 <= d)
      BY <1>5, <1>10, <2>4
    <3>2. Paging!Valid(f[k], page)
      BY <1>8, <3>1, Present
    <3>3. f[k + 1] = f[k]
      BY <2>1, <3>2 DEF Paging!Turn
    <3> QED
      BY <1>10, <2>1, <3>1, <3>3
  <2> QED
    BY <1>5, <2>1, <2>2, <2>3, <2>4
<1>11. MAX_FRAMES + 1 \in G
  <2>1. MAX_FRAMES + 1 \in Nat /\ MAX_FRAMES + 1 \in 0 .. MAX_FRAMES + 1
    OBVIOUS
  <2> HIDE DEF G
  <2>2. \A k \in 0 .. MAX_FRAMES + 1 : k \in G
    BY <1>9, <1>10, <2>1, AfterEachTurn
  <2> QED
    BY <2>1, <2>2
<1> QED
  BY <1>3, <1>5, <1>11 DEF e

-----------------------------------------------------------------------------
\* A hit sets the bit in both.
LEMMA HitKeeps ==
  ASSUME NEW s, NEW q, Holds(s, q), NEW page \in Paging!Pages, Paging!Valid(s, page)
  PROVE  /\ Holds(Paging!Access(s, page),
                  [i \in DOMAIN q |-> IF q[i][1] = page THEN <<page, 1>> ELSE q[i]])
         /\ Paging!Access(s, page).page_faults = s.page_faults
<1> USE FramesAssumption
<1> DEFINE t == [s EXCEPT !.page_table[page].reference_bit = 1]
           r == [i \in DOMAIN q |-> IF q[i][1] = page THEN <<page, 1>> ELSE q[i]]
<1>1. s \in PagingStates /\ q \in PageQueues
  BY DEF Holds
<1>2. Len(q) \in 0..MAX_FRAMES /\ DOMAIN q = 1..Len(q)
  BY <1>1, QueueType
<1>3. /\ t \in PagingStates
      /\ t.page_table[page] = [frame_num |-> s.page_table[page].frame_num,
                               valid |-> s.page_table[page].valid, reference_bit |-> 1]
      /\ \A x \in Paging!Pages : x # page => t.page_table[x] = s.page_table[x]
      /\ t.frames = s.frames /\ t.frame_pointer = s.frame_pointer
      /\ t.page_faults = s.page_faults
  BY <1>1, HitIs
<1>4. Paging!Access(s, page) = t
  BY DEF Paging!Access
<1>5. \A i \in 1..Len(q) :
         /\ r[i] = IF q[i][1] = page THEN <<page, 1>> ELSE q[i]
         /\ r[i] \in Paging!Pages \X {0, 1} /\ r[i][1] = q[i][1]
  <2> SUFFICES ASSUME NEW i \in 1..Len(q)
               PROVE  /\ r[i] = IF q[i][1] = page THEN <<page, 1>> ELSE q[i]
                      /\ r[i] \in Paging!Pages \X {0, 1} /\ r[i][1] = q[i][1]
    OBVIOUS
  <2>1. r[i] = IF q[i][1] = page THEN <<page, 1>> ELSE q[i]
    BY <1>2
  <2>2. q[i] \in Paging!Pages \X {0, 1}
    BY <1>1, QueueType, ElementOfSeq
  <2> HIDE DEF r
  <2> QED
    BY <2>1, <2>2
<1>6. Len(r) = Len(q) /\ r \in Seq(Paging!Pages \X {0, 1})
  <2>1. r = [i \in 1..Len(q) |-> r[i]]
    BY <1>2
  <2> HIDE DEF r
  <2>2. r \in Seq(Paging!Pages \X {0, 1})
    BY <1>2, <1>5, <2>1, IsASeq
  <2>3. DOMAIN r = 1..Len(q)
    BY <2>1
  <2> QED
    BY <1>2, <2>2, <2>3, LenProperties
<1> HIDE DEF t, r
<1>7. r \in PageQueues
  BY <1>1, <1>2, <1>5, <1>6, QueueType DEF PageQueues
<1>8. \A i : FrameOf(t, r, i) = FrameOf(s, q, i)
  BY <1>3, <1>6 DEF FrameOf
<1>9. ASSUME NEW i \in 1..Len(q)
      PROVE  /\ t.frames[FrameOf(t, r, i)] = r[i][1]
             /\ t.page_table[r[i][1]] =
                  [frame_num |-> FrameOf(t, r, i), valid |-> TRUE, reference_bit |-> r[i][2]]
  <2>1. /\ s.frames[FrameOf(s, q, i)] = q[i][1]
        /\ s.page_table[q[i][1]] =
             [frame_num |-> FrameOf(s, q, i), valid |-> TRUE, reference_bit |-> q[i][2]]
    BY DEF Holds
  <2>2. q[i][1] \in Paging!Pages
    BY <1>1, QueueType
  <2>3. CASE q[i][1] = page
    <3>1. r[i] = <<page, 1>>
      BY <1>5, <2>3
    <3>2. s.page_table[page].frame_num = FrameOf(s, q, i) /\ s.page_table[page].valid = TRUE
      BY <2>1, <2>3
    <3>3. r[i][1] = page /\ r[i][2] = 1
      BY <3>1
    <3>4. t.page_table[page] =
            [frame_num |-> FrameOf(s, q, i), valid |-> TRUE, reference_bit |-> 1]
      BY <1>3, <3>2
    <3>5. t.frames[FrameOf(s, q, i)] = page /\ FrameOf(t, r, i) = FrameOf(s, q, i)
      BY <1>3, <1>8, <2>1, <2>3
    <3> QED
      BY <3>3, <3>4, <3>5
  <2>4. CASE q[i][1] # page
    <3>1. r[i] = q[i] /\ t.page_table[q[i][1]] = s.page_table[q[i][1]]
      BY <1>3, <1>5, <2>2, <2>4
    <3> QED
      BY <1>3, <1>8, <2>1, <3>1
  <2> QED
    BY <2>3, <2>4
<1>10. ASSUME NEW x \in Paging!Pages, t.page_table[x].valid
       PROVE  \E i \in 1..Len(q) : r[i][1] = x
  <2>1. s.page_table[x].valid
    BY <1>3, <1>10 DEF Paging!Valid
  <2>2. PICK i \in 1..Len(q) : q[i][1] = x
    BY <2>1 DEF Holds
  <2> QED
    BY <1>5, <2>2
<1>11. Len(q) < MAX_FRAMES => t.frame_pointer = Len(q)
  BY <1>3 DEF Holds
<1>12. Holds(t, r)
  BY <1>3, <1>6, <1>7, <1>9, <1>10, <1>11 DEF Holds
<1> QED
  BY <1>3, <1>4, <1>12 DEF r

-----------------------------------------------------------------------------
QueueStates == [queue : PageQueues, faults : Nat]

Agree(s, t) == t \in QueueStates /\ Holds(s, t.queue) /\ s.page_faults = t.faults

LEMMA AccessAgrees ==
  ASSUME NEW s, NEW t, Agree(s, t), NEW page \in Paging!Pages
  PROVE  Agree(Paging!Access(s, page), Paging!Consider(t, page))
<1> DEFINE q == t.queue
<1>1. /\ q \in PageQueues /\ t.faults \in Nat /\ Holds(s, q) /\ s.page_faults = t.faults
      /\ t = [queue |-> q, faults |-> t.faults]
  BY DEF Agree, QueueStates
<1>2. DOMAIN q = 1..Len(q)
  BY <1>1, QueueType
<1>3. CASE Paging!Valid(s, page)
  <2> DEFINE r == [i \in DOMAIN q |-> IF q[i][1] = page THEN <<page, 1>> ELSE q[i]]
  <2>1. \E i \in DOMAIN q : q[i][1] = page
    BY <1>1, <1>2, <1>3, Present
  <2>2. Paging!Consider(t, page) = [t EXCEPT !.queue = r]
    BY <2>1 DEF Paging!Consider
  <2>3. Holds(Paging!Access(s, page), r) /\ Paging!Access(s, page).page_faults = s.page_faults
    BY <1>1, <1>3, HitKeeps
  <2> HIDE DEF r
  <2>4. Paging!Consider(t, page) = [queue |-> r, faults |-> t.faults]
    BY <1>1, <2>2
  <2>5. r \in PageQueues
    BY <2>3 DEF Holds
  <2> QED
    BY <1>1, <2>3, <2>4, <2>5 DEF Agree, QueueStates
<1>4. CASE ~Paging!Valid(s, page)
  <2> DEFINE r == Paging!Enter(q, page)
  <2>1. \A i \in 1..Len(q) : q[i][1] # page
    BY <1>1, <1>4, Present
  <2>2. Paging!Consider(t, page) = [queue |-> r, faults |-> t.faults + 1]
    BY <1>2, <2>1 DEF Paging!Consider
  <2> HIDE DEF q
  <2>3. Holds(Paging!Access(s, page), r) /\ Paging!Access(s, page).page_faults = s.page_faults + 1
    BY <1>1, <2>1, FaultKeeps
  <2> HIDE DEF r
  <2>4. r \in PageQueues
    BY <2>3 DEF Holds
  <2> QED
    BY <1>1, <2>2, <2>3, <2>4 DEF Agree, QueueStates
<1> QED
  BY <1>3, <1>4

LEMMA StartAgrees == Agree(Paging!Start, [queue |-> <<>>, faults |-> 0])
<1> USE FramesAssumption
<1> DEFINE entry == [frame_num |-> -1, valid |-> FALSE, reference_bit |-> 0]
<1>1. Paging!Start \in PagingStates /\ Paging!Start.page_faults = 0 /\ Paging!Start.frame_pointer = 0
  BY DEF Paging!Start, PagingStates, PageEntries, Frames
<1>2. <<>> \in PageQueues /\ Len(<<>>) = 0
  BY DEF PageQueues
<1>3. \A p \in Paging!Pages : Paging!Start.page_table[p].valid = FALSE
  BY DEF Paging!Start
<1>4. Holds(Paging!Start, <<>>)
  BY <1>1, <1>2, <1>3 DEF Holds
<1> QED
  BY <1>1, <1>2, <1>4 DEF Agree, QueueStates

\* Simulator and reference definition run side by side.
LEMMA SideBySide ==
  ASSUME NEW ref_string \in Seq(Paging!Pages)
  PROVE  Agree(Paging!Simulate(ref_string), Paging!Queue(ref_string))
<1> DEFINE n == Len(ref_string)
           first == [queue |-> <<>>, faults |-> 0]
           S == {s \in PagingStates : \E t \in QueueStates : Agree(s, t)}
           Q == {t \in QueueStates : \E s \in PagingStates : Agree(s, t)}
           Access == [z \in (0 .. n - 1) \X S |-> Paging!Access(z[2], ref_string[z[1] + 1])]
           Consider == [z \in (0 .. n - 1) \X Q |-> Paging!Consider(z[2], ref_string[z[1] + 1])]
           F(f) == [k \in 0..n |-> IF k = 0 THEN Paging!Start
                                   ELSE Paging!Access(f[k - 1], ref_string[k])]
           H(f) == [k \in 0..n |-> IF k = 0 THEN first
                                   ELSE Paging!Consider(f[k - 1], ref_string[k])]
           a == CHOOSE f : f = F(f)
           b == CHOOSE f : f = H(f)
<1>1. n \in Nat /\ \A k \in 1..n : ref_string[k] \in Paging!Pages
  BY ElementOfSeq
<1>2. \A k \in 0 .. n - 1 : k + 1 \in 1..n /\ ref_string[k + 1] \in Paging!Pages
  BY <1>1
<1>3. \A s, t : Agree(s, t) => s \in PagingStates /\ t \in QueueStates
  BY DEF Agree, Holds
<1>4. Paging!Start \in S /\ first \in Q /\ Agree(Paging!Start, first)
  <2>1. Agree(Paging!Start, first)
    BY StartAgrees
  <2> HIDE DEF first
  <2> QED
    BY <1>3, <2>1
<1>5. ASSUME NEW page \in Paging!Pages
      PROVE  /\ \A s \in S : Paging!Access(s, page) \in S
             /\ \A t \in Q : Paging!Consider(t, page) \in Q
  <2>1. ASSUME NEW s, NEW t, Agree(s, t)
        PROVE  Paging!Access(s, page) \in S /\ Paging!Consider(t, page) \in Q
    <3>1. Agree(Paging!Access(s, page), Paging!Consider(t, page))
      BY <2>1, AccessAgrees
    <3> QED
      BY <1>3, <3>1
  <2> QED
    BY <2>1
<1> HIDE DEF S, Q, first
<1>6. PICK u \in [0..n -> S] : Turns(u, n, Paging!Start, Access)
  <2>1. Access \in [(0 .. n - 1) \X S -> S]
    BY <1>2, <1>5
  <2> HIDE DEF Access, n
  <2> QED
    BY <1>1, <1>4, <2>1, TurnsExist
<1>7. PICK v \in [0..n -> Q] : Turns(v, n, first, Consider)
  <2>1. Consider \in [(0 .. n - 1) \X Q -> Q]
    BY <1>2, <1>5
  <2> HIDE DEF Consider, n
  <2> QED
    BY <1>1, <1>4, <2>1, TurnsExist
<1>8. u = F(u)
  <2>1. ASSUME NEW k \in 0..n, k # 0
        PROVE  Access[<<k - 1, u[k - 1]>>] = Paging!Access(u[k - 1], ref_string[k])
    <3>1. k - 1 \in 0 .. n - 1 /\ k - 1 \in 0..n /\ (k - 1) + 1 = k
      BY <1>1, <2>1
    <3>2. u[k - 1] \in S
      BY <3>1
    <3>3. <<k - 1, u[k - 1]>> \in (0 .. n - 1) \X S
      BY <3>1, <3>2
    <3> HIDE DEF n
    <3> QED
      BY <3>1, <3>3
  <2> HIDE DEF Access, n
  <2> QED
    BY <1>6, <2>1 DEF Turns
<1>9. v = H(v)
  <2>1. ASSUME NEW k \in 0..n, k # 0
        PROVE  Consider[<<k - 1, v[k - 1]>>] = Paging!Consider(v[k - 1], ref_string[k])
    <3>1. k - 1 \in 0 .. n - 1 /\ k - 1 \in 0..n /\ (k - 1) + 1 = k
      BY <1>1, <2>1
    <3>2. v[k - 1] \in Q
      BY <3>1
    <3>3. <<k - 1, v[k - 1]>> \in (0 .. n - 1) \X Q
      BY <3>1, <3>2
    <3> HIDE DEF n
    <3> QED
      BY <3>1, <3>3
  <2> HIDE DEF Consider, n
  <2> QED
    BY <1>7, <2>1 DEF Turns
<1>10. a = F(a) /\ b = H(b)
  <2> HIDE DEF F, H
  <2> QED
    BY <1>8, <1>9
<1>11. Paging!Simulate(ref_string) = a[n] /\ Paging!Queue(ref_string) = b[n]
  BY DEF Paging!Simulate, Paging!Queue, first
<1> HIDE DEF a, b, n
<1> DEFINE G == {k \in 0..n : Agree(a[k], b[k])}
<1>12. 0 \in G
  <2>1. 0 \in 0..n
    BY <1>1
  <2>2. a[0] = Paging!Start /\ b[0] = first
    BY <1>10, <2>1
  <2> QED
    BY <1>4, <2>1, <2>2
<1>13. ASSUME NEW k \in 0 .. n - 1, k \in G PROVE k + 1 \in G
  <2>1. k \in 0..n /\ k + 1 \in 0..n /\ k + 1 # 0 /\ (k + 1) - 1 = k
    BY <1>1
  <2>2. /\ a[k + 1] = Paging!Access(a[k], ref_string[k + 1])
        /\ b[k + 1] = Paging!Consider(b[k], ref_string[k + 1])
    BY <1>10, <2>1
  <2>3. Agree(a[k], b[k]) /\ ref_string[k + 1] \in Paging!Pages
    BY <1>2, <1>13
  <2> QED
    BY <2>1, <2>2, <2>3, AccessAgrees
<1>14. n \in G
  <2> HIDE DEF G
  <2>1. \A k \in 0..n : k \in G
    BY <1>1, <1>12, <1>13, AfterEachTurn
  <2> QED
    BY <1>1, <2>1
<1> QED
  BY <1>11, <1>14

-----------------------------------------------------------------------------
\* As many pages are valid as are in the queue.
LEMMA AsManyPages ==
  ASSUME NEW s, NEW q, Holds(s, q)
  PROVE  Cardinality({p \in Paging!Pages : Paging!Valid(s, p)}) = Len(q)
<1> DEFINE V == {p \in Paging!Pages : Paging!Valid(s, p)}
           f == [i \in 1..Len(q) |-> q[i][1]]
<1>1. q \in PageQueues /\ Len(q) \in Nat
  BY QueueType DEF Holds
<1>2. \A i \in 1..Len(q) : q[i][1] \in V
  BY <1>1, QueueType, Present
<1>3. \A p \in V : \E i \in 1..Len(q) : q[i][1] = p
  BY Present
<1>4. \A i, j \in 1..Len(q) : q[i][1] = q[j][1] => i = j
  BY <1>1, QueueType
<1> HIDE DEF V
<1>5. f \in Bijection(1..Len(q), V)
  BY <1>2, <1>3, <1>4, Fun_IsBij
<1>6. ExistsBijection(1..Len(q), V)
  <2> HIDE DEF f
  <2> QED
    BY <1>5 DEF ExistsBijection
<1>7. Cardinality(V) = Len(q)
  BY <1>1, <1>6, FS_CountingElements
<1> QED
  BY <1>7 DEF V

-----------------------------------------------------------------------------
\* For any reference string and any number of frames the simulator of src/lab10/q4
\* does what the queue of its reference definition does: the same pages in the
\* order of the pointer, with the same bits, and the same number of faults.
THEOREM SecondChanceIsQueue == MCSpec => []SecondChanceRight
<1>1. InputOK => SecondChanceRight
  <2> USE FramesAssumption
  <2> SUFFICES ASSUME program = "paging", input \in Seq(Paging!Pages)
               PROVE  SecondChanceRight
    BY DEF InputOK, SecondChanceRight
  <2> DEFINE s == Paging!Simulate(input)
             ref == Paging!Queue(input)
             size == Len(ref.queue)
             first == IF size = MAX_FRAMES THEN s.frame_pointer ELSE 0
  <2>1. Agree(s, ref)
    BY SideBySide
  <2> HIDE DEF s, ref
  <2>2. Holds(s, ref.queue) /\ s.page_faults = ref.faults
    BY <2>1 DEF Agree
  <2>3. ASSUME NEW i \in 1..size
        PROVE  LET k == (first + i - 1) % MAX_FRAMES
                   page == s.frames[k]
               IN  /\ page = ref.queue[i][1]
                   /\ s.page_table[page] =
                        [frame_num |-> k, valid |-> TRUE, reference_bit |-> ref.queue[i][2]]
    <3>1. (first + i - 1) % MAX_FRAMES = FrameOf(s, ref.queue, i)
      BY DEF FrameOf
    <3>2. /\ s.frames[FrameOf(s, ref.queue, i)] = ref.queue[i][1]
          /\ s.page_table[ref.queue[i][1]] =
               [frame_num |-> FrameOf(s, ref.queue, i), valid |-> TRUE,
                reference_bit |-> ref.queue[i][2]]
      BY <2>2 DEF Holds
    <3> QED
      BY <3>1, <3>2
  <2>4. Cardinality({p \in Paging!Pages : s.page_table[p].valid}) = size
    BY <2>2, AsManyPages DEF Paging!Valid
  <2> HIDE DEF size, first
  <2>5. /\ s.page_faults = ref.faults
        /\ \A i \in 1..size :
             LET k == (first + i - 1) % MAX_FRAMES
                 page == s.frames[k]
             IN  /\ page = ref.queue[i][1]
                 /\ s.page_table[page] =
                      [frame_num |-> k, valid |-> TRUE, reference_bit |-> ref.queue[i][2]]
        /\ Cardinality({p \in Paging!Pages : s.page_table[p].valid}) = size
    BY <2>2, <2>3, <2>4
  <2> QED
    BY <2>5 DEF SecondChanceRight, s, ref, size, first
<1> QED
  BY <1>1, Typed, PTL

-----------------------------------------------------------------------------
(***************************************************************************)
(* Segmentation.                                                           *)
(***************************************************************************)
LEMMA TableIs ==
  /\ DOMAIN Segments!segment_table = 0..4
  /\ Segments!segment_table[0] = [base |-> 1400, limit |-> 1000]
  /\ Segments!segment_table[1] = [base |-> 6300, limit |-> 400]
  /\ Segments!segment_table[2] = [base |-> 4300, limit |-> 400]
  /\ Segments!segment_table[3] = [base |-> 3200, limit |-> 1100]
  /\ Segments!segment_table[4] = [base |-> 4700, limit |-> 1000]
  BY DEF Segments!segment_table

\* Different logical addresses are different physical ones, whatever the offsets.
LEMMA TranslateApart ==
  ASSUME NEW s \in 0..4, NEW o \in Int, Segments!Translate(s, o) # NULL,
         NEW t \in 0..4, NEW p \in Int, Segments!Translate(t, p) # NULL,
         Segments!Translate(s, o) = Segments!Translate(t, p)
  PROVE  s = t /\ o = p
<1>1. /\ o >= 0 /\ o < Segments!segment_table[s].limit
      /\ Segments!Translate(s, o) = Segments!segment_table[s].base + o
  BY DEF Segments!Translate, Segments!InBounds
<1>2. /\ p >= 0 /\ p < Segments!segment_table[t].limit
      /\ Segments!Translate(t, p) = Segments!segment_table[t].base + p
  BY DEF Segments!Translate, Segments!InBounds
<1> DEFINE Row(r, base, limit) == /\ Segments!segment_table[r].base = base
                                  /\ Segments!segment_table[r].limit = limit
<1>3. ASSUME NEW r \in 0..4
      PROVE  \/ r = 0 /\ Row(r, 1400, 1000)
             \/ r = 1 /\ Row(r, 6300, 400)
             \/ r = 2 /\ Row(r, 4300, 400)
             \/ r = 3 /\ Row(r, 3200, 1100)
             \/ r = 4 /\ Row(r, 4700, 1000)
  <2>1. r = 0 \/ r = 1 \/ r = 2 \/ r = 3 \/ r = 4
    OBVIOUS
  <2> QED
    BY <2>1, TableIs
<1> DEFINE a == Segments!segment_table[s].base
           b == Segments!segment_table[t].base
           c == Segments!segment_table[s].limit
           d == Segments!segment_table[t].limit
<1>4. /\ \/ s = 0 /\ a = 1400 /\ c = 1000
         \/ s = 1 /\ a = 6300 /\ c = 400
         \/ s = 2 /\ a = 4300 /\ c = 400
         \/ s = 3 /\ a = 3200 /\ c = 1100
         \/ s = 4 /\ a = 4700 /\ c = 1000
      /\ \/ t = 0 /\ b = 1400 /\ d = 1000
         \/ t = 1 /\ b = 6300 /\ d = 400
         \/ t = 2 /\ b = 4300 /\ d = 400
         \/ t = 3 /\ b = 3200 /\ d = 1100
         \/ t = 4 /\ b = 4700 /\ d = 1000
  BY <1>3
<1>5. a + o = b + p /\ 0 <= o /\ o < c /\ 0 <= p /\ p < d
  BY <1>1, <1>2
<1> HIDE DEF a, b, c, d
<1> QED
  BY <1>4, <1>5

\* No two logical addresses are one physical address (the table of src/lab10/q3).
THEOREM SegmentsNeverMeet == MCSpec => []SegmentsApart
<1>1. SegmentsApart
  <2> DEFINE logical == {l \in (DOMAIN Segments!segment_table) \X (-1 .. 1101) :
                           Segments!Translate(l[1], l[2]) # NULL}
             physical == {Segments!Translate(l[1], l[2]) : l \in logical}
             f == [l \in logical |-> Segments!Translate(l[1], l[2])]
  <2>1. logical \subseteq (0..4) \X (-1 .. 1101)
    BY TableIs
  <2>2. IsFiniteSet(logical)
    <3>1. IsFiniteSet(0..4) /\ IsFiniteSet(-1 .. 1101)
      <4> DEFINE low == -1
                 last == 4
      <4>1. low \in Int /\ last \in Int
        OBVIOUS
      <4> HIDE DEF low, last
      <4>2. IsFiniteSet(low .. 1101)
        BY <4>1, FS_Interval
      <4>3. IsFiniteSet(0..last)
        BY <4>1, FS_Interval
      <4> QED
        BY <4>2, <4>3 DEF low, last
    <3>2. IsFiniteSet((0..4) \X (-1 .. 1101))
      BY <3>1, FS_Product
    <3> HIDE DEF logical
    <3> QED
      BY <2>1, <3>2, FS_Subset
  <2>3. ASSUME NEW x \in logical, NEW y \in logical,
               Segments!Translate(x[1], x[2]) = Segments!Translate(y[1], y[2])
        PROVE  x = y
    <3>1. /\ Segments!Translate(x[1], x[2]) # NULL /\ Segments!Translate(y[1], y[2]) # NULL
          /\ x[1] \in 0..4 /\ x[2] \in Int /\ y[1] \in 0..4 /\ y[2] \in Int
          /\ x = <<x[1], x[2]>> /\ y = <<y[1], y[2]>>
      BY <2>1
    <3>2. x[1] = y[1] /\ x[2] = y[2]
      BY <2>3, <3>1, TranslateApart
    <3> QED
      BY <3>1, <3>2
  <2> HIDE DEF logical
  <2>4. f \in Bijection(logical, physical)
    BY <2>3, Fun_IsBij
  <2>5. ExistsBijection(logical, physical)
    <3> HIDE DEF f, physical
    <3> QED
      BY <2>4 DEF ExistsBijection
  <2>6. Cardinality(physical) = Cardinality(logical)
    <3> HIDE DEF physical
    <3> QED
      BY <2>2, <2>5, FS_Bijection
  <2> QED
    BY <2>6 DEF SegmentsApart, logical
<1> QED
  BY <1>1, PTL

-----------------------------------------------------------------------------
(***************************************************************************)
(* Contiguous allocation, for any number of blocks: the map of the disk    *)
(* and the file table say the same.                                        *)
(***************************************************************************)
Files == [start_block : 0..MAX_BLOCKS, length : Int]

DiskStates == [disk : [Blocks!Blocks -> Int], spare_pool_idx : {0}, file_table : Seq(Files)]

\* What belongs to block b.
Belongs(bad, s, b) ==
    \/ /\ s.disk[b] = IF b \in bad THEN Blocks!Bad ELSE 0
       /\ \A f \in 1..Len(s.file_table) : b \notin Blocks!BlocksOf(s.file_table[f])
    \/ /\ b \notin bad /\ s.disk[b] \in 1..Len(s.file_table)
       /\ \A f \in 1..Len(s.file_table) :
            b \in Blocks!BlocksOf(s.file_table[f]) <=> f = s.disk[b]

SameMap(bad, s) ==
    /\ s \in DiskStates
    /\ \A b \in Blocks!Blocks : Belongs(bad, s, b)
    /\ \A f \in 1..Len(s.file_table) : Blocks!BlocksOf(s.file_table[f]) \subseteq Blocks!Blocks

LEMMA DiskType ==
  ASSUME NEW s \in DiskStates
  PROVE  /\ s.disk \in [Blocks!Blocks -> Int] /\ s.spare_pool_idx = 0
         /\ s.file_table \in Seq(Files) /\ Len(s.file_table) \in Nat
         /\ DOMAIN s.file_table = 1..Len(s.file_table)
         /\ s = [disk |-> s.disk, spare_pool_idx |-> 0, file_table |-> s.file_table]
         /\ \A f \in 1..Len(s.file_table) :
              /\ s.file_table[f].start_block \in 0..MAX_BLOCKS
              /\ s.file_table[f].length \in Int
<1>1. s.file_table \in Seq(Files)
  BY DEF DiskStates
<1>2. \A f \in 1..Len(s.file_table) : s.file_table[f] \in Files
  BY <1>1, ElementOfSeq
<1> QED
  BY <1>1, <1>2 DEF DiskStates, Files

LEMMA StartMap == \A bad : SameMap(bad, Blocks!Start(bad))
<1> TAKE bad
<1> DEFINE s == Blocks!Start(bad)
<1>1. /\ s \in DiskStates /\ s.file_table = <<>> /\ Len(s.file_table) = 0
      /\ \A b \in Blocks!Blocks : s.disk[b] = IF b \in bad THEN Blocks!Bad ELSE 0
  BY DEF Blocks!Start, DiskStates, Blocks!Bad
<1> HIDE DEF s
<1>2. \A b \in Blocks!Blocks : Belongs(bad, s, b)
  BY <1>1 DEF Belongs
<1> QED
  BY <1>1, <1>2 DEF SameMap, s

-----------------------------------------------------------------------------
\* A block is free on the disk if it is neither bad nor a file's.
LEMMA FreeIs ==
  ASSUME NEW bad, NEW s, SameMap(bad, s), NEW b \in Blocks!Blocks
  PROVE  s.disk[b] = 0 <=> b \notin Blocks!Occupied(bad, s.file_table)
<1>1. /\ Belongs(bad, s, b) /\ DOMAIN s.file_table = 1..Len(s.file_table) /\ Len(s.file_table) \in Nat
  BY DiskType DEF SameMap
<1> DEFINE owned == \E f \in 1..Len(s.file_table) : b \in Blocks!BlocksOf(s.file_table[f])
<1>2. b \in Blocks!Occupied(bad, s.file_table) <=> b \in bad \/ owned
  BY <1>1 DEF Blocks!Occupied
<1>3. s.disk[b] = 0 <=> ~(b \in bad \/ owned)
  BY <1>1 DEF Belongs, Blocks!Bad
<1> QED
  BY <1>2, <1>3

\* The least of two sets of numbers with the same least number.
LEMMA LeastIs ==
  ASSUME NEW A, A \subseteq Nat, NEW a \in A, \A x \in A : a <= x
  PROVE  Blocks!Min(A) = a
<1> DEFINE c == Blocks!Min(A)
<1>1. c \in A /\ \A x \in A : c <= x
  BY DEF Blocks!Min
<1> HIDE DEF c
<1>2. c <= a /\ a <= c /\ a \in Nat /\ c \in Nat
  BY <1>1
<1>3. c = a
  BY <1>2
<1> QED
  BY <1>3 DEF c

\* The scan finds the lowest place of the reference definition, if there is one.
LEMMA PlacesAre ==
  ASSUME NEW bad, NEW s, SameMap(bad, s), NEW length \in Int
  PROVE  LET free == Blocks!Blocks \ Blocks!Occupied(bad, s.file_table)
             places == {b \in 0..MAX_BLOCKS : Blocks!Area(b, length) \subseteq free}
             starts == Blocks!Starts(s.disk, length)
         IN  /\ starts = {} <=> places = {}
             /\ starts # {} => Blocks!Min(starts) = Blocks!Min(places) /\ Blocks!Min(starts) \in starts \cap places
<1> USE BlocksAssumption
<1> DEFINE free == Blocks!Blocks \ Blocks!Occupied(bad, s.file_table)
           places == {b \in 0..MAX_BLOCKS : Blocks!Area(b, length) \subseteq free}
           starts == Blocks!Starts(s.disk, length)
<1>1. \A b \in Blocks!Blocks : s.disk[b] = 0 <=> b \in free
  BY FreeIs
<1> HIDE DEF free
<1>2. starts \subseteq Nat /\ places \subseteq Nat
  BY DEF Blocks!Starts
<1> DEFINE Goal == /\ starts = {} <=> places = {}
                   /\ starts # {} => Blocks!Min(starts) = Blocks!Min(places) /\ Blocks!Min(starts) \in starts \cap places
<1>3. ASSUME length > 0 PROVE Goal
  <2>1. ASSUME NEW i \in starts PROVE i \in places
    <3>1. i \in 0 .. MAX_BLOCKS - length /\ \A b \in Blocks!Area(i, length) : s.disk[b] = 0
      BY DEF Blocks!Starts
    <3>2. Blocks!Area(i, length) \subseteq Blocks!Blocks
      BY <1>3, <3>1 DEF Blocks!Area, Blocks!Blocks
    <3> QED
      BY <1>1, <1>3, <3>1, <3>2
  <2>2. ASSUME NEW i \in places PROVE i \in starts
    <3>1. i \in 0..MAX_BLOCKS /\ Blocks!Area(i, length) \subseteq free
      OBVIOUS
    <3>2. free \subseteq Blocks!Blocks
      BY DEF free
    <3>3. i + length - 1 \in Blocks!Area(i, length)
      BY <1>3, <3>1 DEF Blocks!Area
    <3>4. i + length - 1 <= MAX_BLOCKS - 1
      BY <3>1, <3>2, <3>3 DEF Blocks!Blocks
    <3>5. i \in 0 .. MAX_BLOCKS - length
      BY <1>3, <3>1, <3>4
    <3> QED
      BY <1>1, <3>1, <3>2, <3>5 DEF Blocks!Starts
  <2>3. starts = places
    BY <2>1, <2>2
  <2>4. ASSUME starts # {} PROVE Blocks!Min(starts) \in starts
    <3> HIDE DEF starts, places
    <3>1. PICK a \in starts : \A x \in starts : a <= x
      BY <1>2, <2>4, LeastNumber
    <3> QED
      BY <1>2, <3>1, LeastIs
  <2> HIDE DEF starts, places
  <2> QED
    BY <2>3, <2>4
<1>4. ASSUME length <= 0 PROVE Goal
  <2>1. \A i \in Int : Blocks!Area(i, length) = {}
    BY <1>4 DEF Blocks!Area
  <2>2. 0 \in starts /\ 0 \in places
    BY <1>4, <2>1 DEF Blocks!Starts
  <2> HIDE DEF starts, places
  <2>0. (\A x \in starts : 0 <= x) /\ (\A x \in places : 0 <= x)
    BY <1>2
  <2>3. Blocks!Min(starts) = 0 /\ Blocks!Min(places) = 0
    BY <1>2, <2>0, <2>2, LeastIs
  <2> QED
    BY <2>2, <2>3
<1>5. Goal
  BY <1>3, <1>4
<1> QED
  BY <1>5 DEF free

\* One file more, in an area of free blocks.
LEMMA PlaceKeeps ==
  ASSUME NEW bad, NEW s, SameMap(bad, s), NEW length \in Int,
         NEW at \in Blocks!Starts(s.disk, length), at \in 0..MAX_BLOCKS,
         Blocks!Area(at, length) \subseteq Blocks!Blocks
  PROVE  LET t == Blocks!Place(s, at, length)
         IN  /\ SameMap(bad, t)
             /\ t.file_table = Append(s.file_table, [start_block |-> at, length |-> length])
<1> USE BlocksAssumption
<1> DEFINE t == Blocks!Place(s, at, length)
           file == [start_block |-> at, length |-> length]
           files == Append(s.file_table, file)
           n == Len(s.file_table)
           area == Blocks!Area(at, length)
           disk == [b \in Blocks!Blocks |-> IF b \in area THEN n + 1 ELSE s.disk[b]]
<1>1. /\ s \in DiskStates /\ s.disk \in [Blocks!Blocks -> Int] /\ s.spare_pool_idx = 0
      /\ s.file_table \in Seq(Files) /\ n \in Nat
  BY DiskType DEF SameMap
<1>2. \A b \in area : s.disk[b] = 0
  BY DEF Blocks!Starts
<1>3. Blocks!SparesNeeded(s, at, length) = 0
  <2> DEFINE B == {b \in area : s.disk[b] = Blocks!Bad}
  <2>1. B = {}
    BY <1>2 DEF Blocks!Bad
  <2>2. Blocks!SparesNeeded(s, at, length) = Cardinality(B)
    BY DEF Blocks!SparesNeeded, Blocks!Cardinality, Cardinality
  <2> HIDE DEF B
  <2> QED
    BY <2>1, <2>2, FS_EmptySet
<1>4. t = [disk |-> disk, spare_pool_idx |-> 0, file_table |-> files]
  <2>1. s.spare_pool_idx + Blocks!SparesNeeded(s, at, length) = 0 /\ ~(0 > SPARE_BLOCKS)
    BY <1>1, <1>3
  <2> HIDE DEF area
  <2> QED
    BY <2>1 DEF Blocks!Place, area
<1>5. file \in Files /\ Blocks!BlocksOf(file) = area
  BY DEF Files, Blocks!BlocksOf
<1> HIDE DEF area, file
<1>6. /\ files \in Seq(Files) /\ Len(files) = n + 1
      /\ \A f \in 1..n : files[f] = s.file_table[f]
      /\ files[n + 1] = file
  BY <1>1, <1>5, AppendProperties
<1>7. disk \in [Blocks!Blocks -> Int]
      /\ \A b \in Blocks!Blocks : disk[b] = IF b \in area THEN n + 1 ELSE s.disk[b]
  BY <1>1
<1> HIDE DEF disk, files, t
<1>8. t \in DiskStates /\ t.disk = disk /\ t.file_table = files
  BY <1>4, <1>6, <1>7 DEF DiskStates
<1>9. ASSUME NEW b \in Blocks!Blocks PROVE Belongs(bad, t, b)
  <2>1. Belongs(bad, s, b)
    BY DEF SameMap
  <2>2. CASE b \in area
    <3>1. /\ b \notin bad /\ \A f \in 1..n : b \notin Blocks!BlocksOf(s.file_table[f])
      BY <1>2, <2>1, <2>2 DEF Belongs, Blocks!Bad
    <3>2. t.disk[b] = n + 1
      BY <1>7, <1>8, <2>2
    <3>3. \A f \in 1 .. n + 1 : b \in Blocks!BlocksOf(files[f]) <=> f = n + 1
      <4>1. b \in Blocks!BlocksOf(files[n + 1])
        BY <1>5, <1>6, <2>2
      <4>2. \A f \in 1 .. n + 1 : f \in 1..n \/ f = n + 1
        BY <1>1
      <4>3. \A f \in 1..n : b \notin Blocks!BlocksOf(files[f]) /\ f # n + 1
        BY <1>1, <1>6, <3>1
      <4> QED
        BY <4>1, <4>2, <4>3
    <3> QED
      BY <1>1, <1>6, <1>8, <3>1, <3>2, <3>3 DEF Belongs
  <2>3. CASE b \notin area
    <3>1. t.disk[b] = s.disk[b]
      BY <1>7, <1>8, <2>3
    <3>2. b \notin Blocks!BlocksOf(files[n + 1])
      BY <1>5, <1>6, <2>3
    <3>3. \A f \in 1 .. n + 1 :
            \/ f \in 1..n /\ files[f] = s.file_table[f]
            \/ f = n + 1 /\ f \notin 1..n /\ b \notin Blocks!BlocksOf(files[f])
      BY <1>1, <1>6, <3>2
    <3>4. n \in Nat /\ Len(t.file_table) = n + 1 /\ t.file_table = files
      BY <1>1, <1>6, <1>8
    <3>6. CASE s.disk[b] = IF b \in bad THEN Blocks!Bad ELSE 0
      <4>1. \A f \in 1..n : b \notin Blocks!BlocksOf(s.file_table[f])
        BY <2>1, <3>6 DEF Belongs, Blocks!Bad
      <4>2. \A f \in 1 .. n + 1 : b \notin Blocks!BlocksOf(files[f])
        BY <3>3, <4>1
      <4> QED
        BY <3>1, <3>4, <3>6, <4>2 DEF Belongs
    <3>7. CASE b \notin bad /\ s.disk[b] \in 1..n
      <4>1. \A f \in 1..n : b \in Blocks!BlocksOf(s.file_table[f]) <=> f = s.disk[b]
        BY <2>1, <3>7 DEF Belongs
      <4>2. \A f \in 1 .. n + 1 : b \in Blocks!BlocksOf(files[f]) <=> f = s.disk[b]
        BY <3>3, <3>7, <4>1
      <4>3. s.disk[b] \in 1 .. n + 1
        BY <3>4, <3>7
      <4> QED
        BY <3>1, <3>4, <3>7, <4>2, <4>3 DEF Belongs
    <3> QED
      BY <2>1, <3>6, <3>7 DEF Belongs
  <2> QED
    BY <2>2, <2>3
<1>10. ASSUME NEW f \in 1 .. n + 1 PROVE Blocks!BlocksOf(files[f]) \subseteq Blocks!Blocks
  <2>1. CASE f = n + 1
    BY <1>5, <1>6, <2>1 DEF area
  <2>2. CASE f \in 1..n
    BY <1>6, <2>2 DEF SameMap
  <2>3. f = n + 1 \/ f \in 1..n
    BY <1>1
  <2> QED
    BY <2>1, <2>2, <2>3
<1>11. SameMap(bad, t)
  BY <1>6, <1>8, <1>9, <1>10 DEF SameMap
<1> QED
  BY <1>8, <1>11 DEF t, files, file

LEMMA AllocateKeeps ==
  ASSUME NEW bad, NEW s, SameMap(bad, s), NEW length \in Int
  PROVE  LET t == Blocks!AllocateFile(s, length)
         IN  /\ SameMap(bad, t)
             /\ t.file_table = Blocks!NextFile(bad, s.file_table, length)
             /\ \/ t.file_table = s.file_table
                \/ \E at : t.file_table = Append(s.file_table, [start_block |-> at, length |-> length])
<1> DEFINE t == Blocks!AllocateFile(s, length)
           free == Blocks!Blocks \ Blocks!Occupied(bad, s.file_table)
           places == {b \in 0..MAX_BLOCKS : Blocks!Area(b, length) \subseteq free}
           starts == Blocks!Starts(s.disk, length)
<1>1. /\ starts = {} <=> places = {}
      /\ starts # {} => Blocks!Min(starts) = Blocks!Min(places) /\ Blocks!Min(starts) \in starts \cap places
  BY PlacesAre
<1>2. Blocks!NextFile(bad, s.file_table, length) =
        IF places = {} THEN s.file_table
        ELSE Append(s.file_table, [start_block |-> Blocks!Min(places), length |-> length])
  BY DEF Blocks!NextFile
<1>3. \A b \in places : b \in 0..MAX_BLOCKS /\ Blocks!Area(b, length) \subseteq Blocks!Blocks
  OBVIOUS
<1> HIDE DEF places
<1>4. CASE starts = {}
  <2>1. t = s
    BY <1>4 DEF Blocks!AllocateFile
  <2> QED
    BY <1>1, <1>2, <1>4, <2>1
<1>5. CASE starts # {}
  <2> DEFINE at == Blocks!Min(starts)
  <2>1. t = Blocks!Place(s, at, length)
    BY <1>5 DEF Blocks!AllocateFile
  <2>2. at \in starts /\ at \in places /\ Blocks!Min(places) = at
    BY <1>1, <1>5
  <2> HIDE DEF at, t
  <2>3. SameMap(bad, t) /\ t.file_table = Append(s.file_table, [start_block |-> at, length |-> length])
    BY <1>3, <2>1, <2>2, PlaceKeeps
  <2> QED
    BY <1>1, <1>2, <1>5, <2>2, <2>3 DEF t
<1> QED
  BY <1>4, <1>5

-----------------------------------------------------------------------------
\* The files entered one after the other.
LEMMA RunTurns ==
  ASSUME NEW bad, NEW lengths \in Seq(Int)
  PROVE  \E f : /\ f[0] = Blocks!Start(bad)
                /\ Blocks!Run(bad, lengths) = f[Len(lengths)]
                /\ \A k \in 0..Len(lengths) : SameMap(bad, f[k])
                /\ \A k \in 0 .. Len(lengths) - 1 :
                     f[k + 1] = Blocks!AllocateFile(f[k], lengths[k + 1])
<1> DEFINE n == Len(lengths)
           base == Blocks!Start(bad)
           T == {s \in DiskStates : SameMap(bad, s)}
           next == [z \in (0 .. n - 1) \X T |-> Blocks!AllocateFile(z[2], lengths[z[1] + 1])]
           F(f) == [k \in 0..n |-> IF k = 0 THEN base ELSE Blocks!AllocateFile(f[k - 1], lengths[k])]
           after == CHOOSE f : f = F(f)
<1>1. n \in Nat /\ (\A k \in 1..n : lengths[k] \in Int) /\ \A k \in 0 .. n - 1 : k + 1 \in 1..n
  BY ElementOfSeq
<1>2. \A s : SameMap(bad, s) => s \in DiskStates
  BY DEF SameMap
<1>3. base \in T
  BY <1>2, StartMap
<1>4. \A s \in T, k \in 1..n : Blocks!AllocateFile(s, lengths[k]) \in T
  BY <1>1, <1>2, AllocateKeeps
<1>5. \A s \in T : SameMap(bad, s)
  OBVIOUS
<1>6. Blocks!Run(bad, lengths) = after[n]
  BY DEF Blocks!Run
<1> HIDE DEF T, n, base
<1>7. next \in [(0 .. n - 1) \X T -> T]
  BY <1>1, <1>4
<1>8. PICK u \in [0..n -> T] : Turns(u, n, base, next)
  <2> HIDE DEF next
  <2> QED
    BY <1>1, <1>3, <1>7, TurnsExist
<1>9. u = F(u)
  <2>1. ASSUME NEW k \in 0..n, k # 0
        PROVE  next[<<k - 1, u[k - 1]>>] = Blocks!AllocateFile(u[k - 1], lengths[k])
    <3>1. k - 1 \in 0 .. n - 1 /\ k - 1 \in 0..n /\ (k - 1) + 1 = k
      BY <1>1, <2>1
    <3>2. <<k - 1, u[k - 1]>> \in (0 .. n - 1) \X T
      BY <3>1
    <3> QED
      BY <3>1, <3>2
  <2> HIDE DEF next
  <2> QED
    BY <1>8, <2>1 DEF Turns
<1>10. after = F(after)
  <2> HIDE DEF F
  <2> QED
    BY <1>9
<1> HIDE DEF after
<1>11. after[0] = base /\ \A k \in 0 .. n - 1 : after[k + 1] = Blocks!AllocateFile(after[k], lengths[k + 1])
  <2>1. \A k \in 0..n : after[k] = IF k = 0 THEN base ELSE Blocks!AllocateFile(after[k - 1], lengths[k])
    BY <1>10
  <2>2. 0 \in 0..n /\ \A k \in 0 .. n - 1 : k + 1 \in 0..n /\ k + 1 # 0 /\ (k + 1) - 1 = k
    BY <1>1
  <2> QED
    BY <2>1, <2>2
<1>12. \A k \in 0..n : after[k] \in T
  <2> DEFINE G == {k \in 0..n : after[k] \in T}
  <2>1. 0 \in G
    BY <1>1, <1>3, <1>11
  <2>2. ASSUME NEW k \in 0 .. n - 1, k \in G PROVE k + 1 \in G
    <3>1. k \in 0..n /\ k + 1 \in 0..n /\ k + 1 \in 1..n /\ after[k] \in T
      BY <1>1, <2>2
    <3>2. Blocks!AllocateFile(after[k], lengths[k + 1]) \in T
      BY <1>4, <3>1
    <3> QED
      BY <1>11, <3>1, <3>2
  <2>3. \A k \in 0..n : k \in G
    <3> HIDE DEF G
    <3> QED
      BY <1>1, <2>1, <2>2, AfterEachTurn
  <2> QED
    BY <2>3
<1> QED
  BY <1>5, <1>6, <1>11, <1>12 DEF n, base

\* The last file is entered after the others.
LEMMA RunLast ==
  ASSUME NEW bad, NEW lengths \in Seq(Int), lengths # <<>>
  PROVE  /\ Front(lengths) \in Seq(Int) /\ Last(lengths) \in Int
         /\ Blocks!Run(bad, lengths) =
              Blocks!AllocateFile(Blocks!Run(bad, Front(lengths)), Last(lengths))
<1> DEFINE n == Len(lengths)
           front == Front(lengths)
<1>1. n \in Nat \ {0} /\ (\A k \in 1..n : lengths[k] \in Int) /\ lengths = [k \in 1..n |-> lengths[k]]
  BY ElementOfSeq
<1>2. front \in Seq(Int) /\ Len(front) = n - 1 /\ \A k \in 1 .. n - 1 : front[k] = lengths[k]
  <2>1. 1 \in 1 .. n + 1 /\ n - 1 \in 1 - 1 .. n
    BY <1>1
  <2>2. /\ SubSeq(lengths, 1, n - 1) \in Seq(Int)
        /\ Len(SubSeq(lengths, 1, n - 1)) = IF 1 <= n - 1 THEN (n - 1) - 1 + 1 ELSE 0
        /\ \A i \in 1 .. (n - 1) - 1 + 1 : SubSeq(lengths, 1, n - 1)[i] = lengths[1 + i - 1]
    BY <1>1, <2>1, SubSeqProperties
  <2>3. /\ (IF 1 <= n - 1 THEN (n - 1) - 1 + 1 ELSE 0) = n - 1 /\ (n - 1) - 1 + 1 = n - 1
        /\ \A i \in Int : 1 + i - 1 = i
    BY <1>1
  <2> QED
    BY <2>2, <2>3 DEF Front
<1>3. Last(lengths) = lengths[n] /\ lengths[n] \in Int
  BY <1>1 DEF Last
<1> DEFINE Runs(l, f) == /\ f[0] = Blocks!Start(bad)
                         /\ Blocks!Run(bad, l) = f[Len(l)]
                         /\ \A k \in 0 .. Len(l) - 1 :
                              f[k + 1] = Blocks!AllocateFile(f[k], l[k + 1])
<1>0. \A l \in Seq(Int) : \E f : Runs(l, f)
  <2> SUFFICES ASSUME NEW l \in Seq(Int) PROVE \E f : Runs(l, f)
    OBVIOUS
  <2>1. PICK f : /\ f[0] = Blocks!Start(bad)
                 /\ Blocks!Run(bad, l) = f[Len(l)]
                 /\ \A k \in 0..Len(l) : SameMap(bad, f[k])
                 /\ \A k \in 0 .. Len(l) - 1 : f[k + 1] = Blocks!AllocateFile(f[k], l[k + 1])
    BY RunTurns
  <2>2. Runs(l, f)
    BY <2>1
  <2> QED
    BY <2>2
<1> HIDE DEF front
<1>4. PICK f : Runs(lengths, f)
  <2> HIDE DEF Runs
  <2> QED
    BY <1>0
<1>5. PICK g : Runs(front, g)
  <2> HIDE DEF Runs
  <2> QED
    BY <1>0, <1>2
<1> HIDE DEF n
<1> DEFINE G == {k \in 0 .. n - 1 : f[k] = g[k]}
<1>6. 0 \in G
  BY <1>1, <1>4, <1>5
<1>7. ASSUME NEW k \in 0 .. (n - 1) - 1, k \in G PROVE k + 1 \in G
  <2>1. k + 1 \in 0 .. n - 1 /\ k + 1 \in 1 .. n - 1 /\ k \in 0 .. Len(lengths) - 1 /\ k \in 0 .. Len(front) - 1
    BY <1>1, <1>2 DEF n
  <2> QED
    BY <1>2, <1>4, <1>5, <1>7, <2>1
<1>8. n - 1 \in G
  <2>1. n - 1 \in Nat /\ n - 1 \in 0 .. n - 1
    BY <1>1
  <2> HIDE DEF G
  <2>2. \A k \in 0 .. n - 1 : k \in G
    BY <1>6, <1>7, <2>1, AfterEachTurn
  <2> QED
    BY <2>1, <2>2
<1>9. n - 1 \in 0 .. Len(lengths) - 1 /\ (n - 1) + 1 = n /\ n = Len(lengths)
  BY <1>1 DEF n
<1> QED
  BY <1>2, <1>3, <1>4, <1>5, <1>8, <1>9 DEF front

-----------------------------------------------------------------------------
\* Files of at least one block: as many as there are blocks, at most.
LEMMA FilesLong ==
  ASSUME NEW bad, NEW lengths \in Seq(Int), \A k \in 1..Len(lengths) : lengths[k] > 0
  PROVE  \A i \in 1..Len(Blocks!Run(bad, lengths).file_table) :
           Blocks!Run(bad, lengths).file_table[i].length > 0
<1> DEFINE n == Len(lengths)
           Long(s) == \A i \in 1..Len(s.file_table) : s.file_table[i].length > 0
<1>1. n \in Nat /\ \A k \in 1..n : lengths[k] \in Int
  BY ElementOfSeq
<1>2. PICK f : /\ f[0] = Blocks!Start(bad)
               /\ Blocks!Run(bad, lengths) = f[Len(lengths)]
               /\ \A k \in 0..Len(lengths) : SameMap(bad, f[k])
               /\ \A k \in 0 .. Len(lengths) - 1 :
                    f[k + 1] = Blocks!AllocateFile(f[k], lengths[k + 1])
  BY RunTurns
<1> DEFINE G == {k \in 0..n : Long(f[k])}
<1>3. 0 \in G
  <2>1. Len(f[0].file_table) = 0
    BY <1>2 DEF Blocks!Start
  <2> QED
    BY <1>1, <2>1
<1>4. ASSUME NEW k \in 0 .. n - 1, k \in G PROVE k + 1 \in G
  <2> DEFINE s == f[k]
             t == f[k + 1]
             l == lengths[k + 1]
  <2>1. k \in 0..n /\ k + 1 \in 0..n /\ k + 1 \in 1..n
    BY <1>1
  <2>2. SameMap(bad, s) /\ t = Blocks!AllocateFile(s, l) /\ l \in Int /\ l > 0 /\ Long(s)
    BY <1>1, <1>2, <1>4, <2>1
  <2>3. s.file_table \in Seq(Files)
    BY <2>2, DiskType DEF SameMap
  <2> HIDE DEF s, t, l
  <2>4. \/ t.file_table = s.file_table
        \/ \E at : t.file_table = Append(s.file_table, [start_block |-> at, length |-> l])
    BY <2>2, AllocateKeeps
  <2>5. CASE t.file_table = s.file_table
    BY <2>1, <2>2, <2>5 DEF t
  <2>6. ASSUME NEW at, t.file_table = Append(s.file_table, [start_block |-> at, length |-> l])
        PROVE  Long(t)
    <3> DEFINE file == [start_block |-> at, length |-> l]
               size == Len(s.file_table)
    <3>1. file.length > 0
      BY <2>2
    <3> HIDE DEF file
    <3>2. /\ Len(t.file_table) = size + 1 /\ size \in Nat
          /\ \A i \in 1..size : t.file_table[i] = s.file_table[i]
          /\ t.file_table[size + 1] = file
      <4>1. t.file_table = Append(s.file_table, file)
        BY <2>6 DEF file
      <4> QED
        BY <2>3, <4>1
    <3>3. ASSUME NEW i \in 1 .. size + 1 PROVE t.file_table[i].length > 0
      <4>1. i \in 1..size \/ i = size + 1
        BY <3>2
      <4> QED
        BY <2>2, <3>1, <3>2, <4>1
    <3> QED
      BY <3>2, <3>3
  <2>7. Long(t)
    BY <2>2, <2>4, <2>5, <2>6
  <2> QED
    BY <2>1, <2>7 DEF t
<1>5. n \in G
  <2> HIDE DEF G
  <2>1. \A k \in 0..n : k \in G
    BY <1>1, <1>3, <1>4, AfterEachTurn
  <2> QED
    BY <1>1, <2>1
<1> QED
  BY <1>2, <1>5

LEMMA FewFiles ==
  ASSUME NEW bad, NEW s, SameMap(bad, s),
         \A i \in 1..Len(s.file_table) : s.file_table[i].length > 0
  PROVE  Len(s.file_table) <= MAX_BLOCKS
<1> USE BlocksAssumption
<1> DEFINE n == Len(s.file_table)
           at(i) == s.file_table[i].start_block
           g == [i \in 1..n |-> at(i)]
<1>1. n \in Nat
  BY DiskType DEF SameMap
<1>2. ASSUME NEW i \in 1..n
      PROVE  at(i) \in Blocks!BlocksOf(s.file_table[i]) /\ at(i) \in Blocks!Blocks
  <2>1. s.file_table[i].start_block \in Int /\ s.file_table[i].length \in Int
    BY DiskType DEF SameMap
  <2>2. at(i) \in Blocks!BlocksOf(s.file_table[i])
    BY <2>1 DEF Blocks!BlocksOf, Blocks!Area
  <2> QED
    BY <2>2 DEF SameMap
<1>3. ASSUME NEW i \in 1..n, NEW j \in 1..n, at(i) = at(j) PROVE i = j
  <2> DEFINE b == at(i)
  <2>1. /\ b \in Blocks!BlocksOf(s.file_table[i]) /\ b \in Blocks!BlocksOf(s.file_table[j])
        /\ b \in Blocks!Blocks
    BY <1>2, <1>3
  <2> HIDE DEF b
  <2>2. Belongs(bad, s, b)
    BY <2>1 DEF SameMap
  <2> QED
    BY <2>1, <2>2 DEF Belongs
<1> HIDE DEF at
<1>4. g \in Injection(1..n, Blocks!Blocks)
  BY <1>2, <1>3, Fun_IsInj
<1> HIDE DEF g
<1>5. IsFiniteSet(Blocks!Blocks) /\ Cardinality(Blocks!Blocks) = MAX_BLOCKS
  <2> DEFINE top == MAX_BLOCKS - 1
  <2>1. top \in Int /\ 0 \in Int
    OBVIOUS
  <2> HIDE DEF top
  <2>2. IsFiniteSet(0..top) /\ Cardinality(0..top) = IF 0 > top THEN 0 ELSE top - 0 + 1
    BY <2>1, FS_Interval
  <2>3. (IF 0 > top THEN 0 ELSE top - 0 + 1) = MAX_BLOCKS
    BY DEF top
  <2> QED
    BY <2>2, <2>3 DEF top, Blocks!Blocks
<1>6. Cardinality(1..n) = n
  <2> DEFINE low == 1
  <2>1. low \in Int
    OBVIOUS
  <2> HIDE DEF low
  <2>2. Cardinality(low..n) = IF low > n THEN 0 ELSE n - low + 1
    BY <1>1, <2>1, FS_Interval, SMTT(30)
  <2> QED
    BY <1>1, <2>2 DEF low
<1>7. Cardinality(1..n) <= Cardinality(Blocks!Blocks)
  BY <1>4, <1>5, FS_Injection
<1> QED
  BY <1>5, <1>6, <1>7

-----------------------------------------------------------------------------
\* What BlocksRight says, for any bad blocks and lengths.
LEMMA AnyBlocks ==
  ASSUME NEW bad, NEW lengths \in Seq(Int)
  PROVE  LET s == Blocks!Run(bad, lengths)
         IN  /\ \A b \in Blocks!Blocks :
                  s.disk[b] = IF b \in bad THEN Blocks!Bad
                              ELSE Max({0} \cup {f \in DOMAIN s.file_table :
                                                    b \in Blocks!BlocksOf(s.file_table[f])})
             /\ \A f \in DOMAIN s.file_table :
                  Blocks!BlocksOf(s.file_table[f]) \subseteq Blocks!Blocks
             /\ lengths # <<>> =>
                  s.file_table = Blocks!NextFile(bad, Blocks!Run(bad, Front(lengths)).file_table,
                                                 Last(lengths))
             /\ s.spare_pool_idx = 0
             /\ (\A k \in DOMAIN lengths : lengths[k] > 0) => Len(s.file_table) <= MAX_BLOCKS
<1> DEFINE s == Blocks!Run(bad, lengths)
<1>1. \A l \in Seq(Int) : SameMap(bad, Blocks!Run(bad, l))
  <2> SUFFICES ASSUME NEW l \in Seq(Int) PROVE SameMap(bad, Blocks!Run(bad, l))
    OBVIOUS
  <2>1. PICK f : /\ f[0] = Blocks!Start(bad)
                 /\ Blocks!Run(bad, l) = f[Len(l)]
                 /\ \A k \in 0..Len(l) : SameMap(bad, f[k])
                 /\ \A k \in 0 .. Len(l) - 1 : f[k + 1] = Blocks!AllocateFile(f[k], l[k + 1])
    BY RunTurns
  <2>2. Len(l) \in 0..Len(l)
    OBVIOUS
  <2> QED
    BY <2>1, <2>2
<1>2. /\ SameMap(bad, s) /\ s \in DiskStates /\ s.spare_pool_idx = 0
      /\ Len(s.file_table) \in Nat /\ DOMAIN s.file_table = 1..Len(s.file_table)
  BY <1>1, DiskType DEF SameMap
<1>3. lengths # <<>> =>
        s.file_table = Blocks!NextFile(bad, Blocks!Run(bad, Front(lengths)).file_table, Last(lengths))
  <2> SUFFICES ASSUME lengths # <<>>
               PROVE  s.file_table = Blocks!NextFile(bad, Blocks!Run(bad, Front(lengths)).file_table,
                                                     Last(lengths))
    OBVIOUS
  <2> DEFINE before == Blocks!Run(bad, Front(lengths))
             last == Last(lengths)
  <2>1. Front(lengths) \in Seq(Int) /\ last \in Int /\ s = Blocks!AllocateFile(before, last)
    BY RunLast
  <2>2. SameMap(bad, before)
    BY <1>1, <2>1
  <2> HIDE DEF before, last, s
  <2>3. s.file_table = Blocks!NextFile(bad, before.file_table, last)
    BY <2>1, <2>2, AllocateKeeps
  <2> QED
    BY <2>3 DEF before, last
<1>4. (\A k \in DOMAIN lengths : lengths[k] > 0) => Len(s.file_table) <= MAX_BLOCKS
  <2>1. DOMAIN lengths = 1..Len(lengths)
    OBVIOUS
  <2> QED
    BY <1>2, <2>1, FilesLong, FewFiles
<1> HIDE DEF s
<1>5. ASSUME NEW b \in Blocks!Blocks
      PROVE  s.disk[b] = IF b \in bad THEN Blocks!Bad
                         ELSE Max({0} \cup {f \in DOMAIN s.file_table :
                                               b \in Blocks!BlocksOf(s.file_table[f])})
  <2> DEFINE mine == {f \in DOMAIN s.file_table : b \in Blocks!BlocksOf(s.file_table[f])}
             all == {0} \cup mine
  <2>1. Belongs(bad, s, b)
    BY <1>2 DEF SameMap
  <2>2. CASE \A f \in 1..Len(s.file_table) : b \notin Blocks!BlocksOf(s.file_table[f])
    <3>1. s.disk[b] = IF b \in bad THEN Blocks!Bad ELSE 0
      BY <2>1, <2>2 DEF Belongs
    <3>2. all = {0}
      BY <1>2, <2>2
    <3> HIDE DEF all
    <3>3. Max(all) = 0
      BY <3>2 DEF Max
    <3> QED
      BY <3>1, <3>3 DEF all
  <2>3. CASE ~\A f \in 1..Len(s.file_table) : b \notin Blocks!BlocksOf(s.file_table[f])
    <3> DEFINE o == s.disk[b]
    <3>1. /\ b \notin bad /\ o \in 1..Len(s.file_table)
          /\ \A f \in 1..Len(s.file_table) : b \in Blocks!BlocksOf(s.file_table[f]) <=> f = o
      BY <2>1, <2>3 DEF Belongs
    <3> HIDE DEF o
    <3>2. all = {0, o} /\ o \in Nat /\ o >= 0
      BY <1>2, <3>1
    <3> HIDE DEF all
    <3>3. Max(all) = o
      BY <3>2 DEF Max
    <3> QED
      BY <3>1, <3>3 DEF all, o
  <2> QED
    BY <2>2, <2>3
<1>6. \A f \in DOMAIN s.file_table : Blocks!BlocksOf(s.file_table[f]) \subseteq Blocks!Blocks
  BY <1>2 DEF SameMap
<1> QED
  BY <1>2, <1>3, <1>4, <1>5, <1>6 DEF s

-----------------------------------------------------------------------------
\* For any bad blocks and any files the allocation of src/lab11/q4 puts each file at
\* the lowest place free of both, refuses none that had a place, keeps the map of
\* the disk as the file table has it, and never takes a spare block.
THEOREM FilesApart == MCSpec => []BlocksRight
<1>1. InputOK => BlocksRight
  <2> SUFFICES ASSUME program = "blocks", input # <<>>, Tail(input) \in Seq(Int)
               PROVE  BlocksRight
    BY DEF InputOK, BlocksRight
  <2> DEFINE bad == Head(input)
             lengths == Tail(input)
  <2> HIDE DEF bad, lengths
  <2>1. lengths \in Seq(Int)
    BY DEF lengths
  <2> QED
    BY <2>1, AnyBlocks DEF BlocksRight, bad, lengths
<1> QED
  BY <1>1, Typed, PTL

-----------------------------------------------------------------------------
(***************************************************************************)
(* The disk, for any int and any requests.                                 *)
(***************************************************************************)
Width == 2 * (DiskMax + 1)
Ints == -(DiskMax + 1) .. DiskMax

LEMMA Multiple ==
  ASSUME NEW w \in Nat \ {0}, NEW x \in Int, x % w = 0
  PROVE  \E k \in Int : x = w * k
  OBVIOUS

\* An int differs from the number it stands for by a multiple of its width.
LEMMA WrapIs ==
  ASSUME NEW x \in Int
  PROVE  Disk!Wrap(x) \in Ints /\ (x - Disk!Wrap(x)) % Width = 0
<1> USE DiskAssumption
<1> DEFINE y == x + DiskMax + 1
<1>1. Width \in Nat \ {0}
  BY DEF Width
<1>2. Disk!Wrap(x) = (y % Width) - (DiskMax + 1)
  BY DEF Disk!Wrap, Width
<1>3. y \in Int
  OBVIOUS
<1> HIDE DEF y
<1>4. y = Width * (y \div Width) + (y % Width) /\ y \div Width \in Int /\ y % Width \in 0 .. Width - 1
  <2> HIDE DEF Width
  <2> QED
    BY <1>1, <1>3
<1>5. Disk!Wrap(x) \in Ints
  BY <1>2, <1>4 DEF Width, Ints
<1>6. x - Disk!Wrap(x) = Width * (y \div Width)
  <2> DEFINE a == Width * (y \div Width)
             b == y % Width
  <2>1. y = a + b /\ a \in Int /\ b \in Int
    BY <1>1, <1>4
  <2> HIDE DEF a, b
  <2>2. Disk!Wrap(x) = b - (DiskMax + 1) /\ y = x + DiskMax + 1
    BY <1>2 DEF b, y
  <2>3. x - Disk!Wrap(x) = a
    BY <2>1, <2>2
  <2> QED
    BY <2>3 DEF a
<1>7. \A q \in Int : (Width * q) % Width = 0
  <2> HIDE DEF Width
  <2> QED
    BY <1>1
<1> QED
  BY <1>4, <1>5, <1>6, <1>7

LEMMA DistanceIs ==
  ASSUME NEW a \in Int, NEW b \in Int
  PROVE  Disk!Distance(a, b) \in Ints /\ Disk!Distance(a, b) \in Int
<1> USE DiskAssumption
<1>1. a - b \in Int /\ Ints \subseteq Int
  BY DEF Ints
<1>2. Disk!Wrap(a - b) \in Ints
  BY <1>1, WrapIs
<1>3. Disk!Wrap(-Disk!Wrap(a - b)) \in Ints
  <2> DEFINE c == -Disk!Wrap(a - b)
  <2>1. c \in Int
    BY <1>2 DEF Ints
  <2> HIDE DEF c
  <2>2. Disk!Wrap(c) \in Ints
    BY <2>1, WrapIs
  <2> QED
    BY <2>2 DEF c
<1> QED
  BY <1>1, <1>2, <1>3 DEF Disk!Distance

\* So do sums of them.
LEMMA SumKeeps ==
  ASSUME NEW a \in Int, NEW t \in Int, NEW d \in Int, (a - t) % Width = 0
  PROVE  ((a + d) - Disk!Wrap(t + d)) % Width = 0
<1> USE DiskAssumption
<1> DEFINE w == Disk!Wrap(t + d)
           x == t + d
           e == x - w
<1>1. Width \in Nat \ {0}
  BY DEF Width
<1>2. w \in Int /\ e % Width = 0 /\ x \in Int
  <2>1. x \in Int
    OBVIOUS
  <2> HIDE DEF x
  <2>2. Disk!Wrap(x) \in Ints /\ (x - Disk!Wrap(x)) % Width = 0
    BY <2>1, WrapIs
  <2> QED
    BY <2>1, <2>2 DEF Ints, x
<1> HIDE DEF w
<1>3. e \in Int /\ a - t \in Int /\ (a + d) - w = (a - t) + e
  BY <1>2
<1> HIDE DEF e, x
<1> DEFINE b == a - t
<1>4. b \in Int /\ b % Width = 0
  OBVIOUS
<1>5. (a + d) - w = b + e
  BY <1>3
<1> HIDE DEF b, Width
<1>6. PICK p \in Int : b = Width * p
  BY <1>1, <1>4, Multiple
<1>7. PICK q \in Int : e = Width * q
  BY <1>1, <1>2, <1>3, Multiple
<1>8. b + e = Width * (p + q) /\ p + q \in Int
  BY <1>1, <1>6, <1>7
<1>9. \A k \in Int : (Width * k) % Width = 0
  BY <1>1
<1> QED
  BY <1>5, <1>8, <1>9 DEF w

-----------------------------------------------------------------------------
\* The sums of the reference definition.
AddsUp(requests, head, order, moves) ==
    /\ moves[0] = 0 /\ \A k \in 0..Len(order) : moves[k] \in Int
    /\ \A k \in 0 .. Len(order) - 1 :
         moves[k + 1] = moves[k] + Disk!Distance(requests[order[k + 1]],
                                                 Disk!At(requests, head, order, k))

LEMMA AtIs ==
  ASSUME NEW requests \in Seq(Int), NEW head \in Int, NEW order \in Seq(1..Len(requests))
  PROVE  /\ \A k \in 1..Len(order) : order[k] \in 1..Len(requests) /\ requests[order[k]] \in Int
         /\ \A k \in 0..Len(order) : Disk!At(requests, head, order, k) \in Int
<1>1. \A k \in 1..Len(order) : order[k] \in 1..Len(requests)
  BY ElementOfSeq
<1>2. \A i \in 1..Len(requests) : requests[i] \in Int
  BY ElementOfSeq
<1> QED
  BY <1>1, <1>2 DEF Disk!At

LEMMA MovesExist ==
  ASSUME NEW requests \in Seq(Int), NEW head \in Int, NEW order \in Seq(1..Len(requests))
  PROVE  \E moves : /\ AddsUp(requests, head, order, moves)
                    /\ \A total : Disk!TotalOf(requests, head, order, total) <=>
                                    (moves[Len(order)] - total) % Width = 0
<1> DEFINE n == Len(order)
           far(k) == Disk!Distance(requests[order[k]], Disk!At(requests, head, order, k - 1))
           next == [z \in (0 .. n - 1) \X Int |-> z[2] + far(z[1] + 1)]
           F(f) == [k \in 0..n |-> IF k = 0 THEN 0 ELSE f[k - 1] + far(k)]
           moves == CHOOSE f : f = F(f)
<1>1. n \in Nat /\ \A k \in 0 .. n - 1 : k \in 0..n /\ k + 1 \in 1..n /\ (k + 1) - 1 = k
  OBVIOUS
<1>2. \A k \in 1..n : far(k) \in Int
  <2> SUFFICES ASSUME NEW k \in 1..n PROVE far(k) \in Int
    OBVIOUS
  <2>1. requests[order[k]] \in Int /\ k - 1 \in 0..n
    BY <1>1, AtIs
  <2>2. Disk!At(requests, head, order, k - 1) \in Int
    BY <2>1, AtIs
  <2> QED
    BY <2>1, <2>2, DistanceIs
<1>3. \A total : Disk!TotalOf(requests, head, order, total) <=> (moves[n] - total) % Width = 0
  BY DEF Disk!TotalOf, Width
<1>4. \A k \in 0 .. n - 1 :
        far(k + 1) = Disk!Distance(requests[order[k + 1]], Disk!At(requests, head, order, k))
  BY <1>1
<1> HIDE DEF far, n
<1>5. next \in [(0 .. n - 1) \X Int -> Int]
  BY <1>1, <1>2
<1>6. PICK u \in [0..n -> Int] : Turns(u, n, 0, next)
  <2> DEFINE base == 0
  <2>1. base \in Int
    OBVIOUS
  <2> HIDE DEF next, base
  <2>2. \E u \in [0..n -> Int] : Turns(u, n, base, next)
    BY <1>1, <1>5, <2>1, TurnsExist
  <2> QED
    BY <2>2 DEF base
<1>7. u = F(u)
  <2>1. ASSUME NEW k \in 0..n, k # 0 PROVE next[<<k - 1, u[k - 1]>>] = u[k - 1] + far(k)
    <3>1. k - 1 \in 0 .. n - 1 /\ k - 1 \in 0..n /\ (k - 1) + 1 = k
      BY <1>1, <2>1
    <3>2. <<k - 1, u[k - 1]>> \in (0 .. n - 1) \X Int
      BY <3>1
    <3> QED
      BY <3>1, <3>2
  <2> HIDE DEF next
  <2> QED
    BY <1>6, <2>1 DEF Turns
<1>8. moves = F(moves)
  <2> HIDE DEF F
  <2> QED
    BY <1>7
<1> HIDE DEF moves
<1>9. moves[0] = 0 /\ \A k \in 0 .. n - 1 : moves[k + 1] = moves[k] + far(k + 1)
  <2>1. \A k \in 0..n : moves[k] = IF k = 0 THEN 0 ELSE moves[k - 1] + far(k)
    BY <1>8
  <2>2. 0 \in 0..n /\ \A k \in 0 .. n - 1 : k + 1 \in 0..n /\ k + 1 # 0 /\ (k + 1) - 1 = k
    BY <1>1
  <2> QED
    BY <2>1, <2>2
<1>10. \A k \in 0..n : moves[k] \in Int
  <2> DEFINE G == {k \in 0..n : moves[k] \in Int}
  <2>1. 0 \in G
    BY <1>1, <1>9
  <2>2. ASSUME NEW k \in 0 .. n - 1, k \in G PROVE k + 1 \in G
    BY <1>1, <1>2, <1>9, <2>2
  <2>3. \A k \in 0..n : k \in G
    <3> HIDE DEF G
    <3> QED
      BY <1>1, <2>1, <2>2, AfterEachTurn
  <2> QED
    BY <2>3
<1>11. AddsUp(requests, head, order, moves)
  BY <1>4, <1>9, <1>10 DEF AddsUp, n
<1> QED
  BY <1>3, <1>11 DEF n

\* One request more.
LEMMA TotalKeeps ==
  ASSUME NEW requests \in Seq(Int), NEW head \in Int, NEW order \in Seq(1..Len(requests)),
         NEW i \in 1..Len(requests), NEW total \in Int,
         Disk!TotalOf(requests, head, order, total)
  PROVE  Disk!TotalOf(requests, head, Append(order, i),
                      Disk!Wrap(total + Disk!Distance(requests[i],
                                          Disk!At(requests, head, order, Len(order)))))
<1> DEFINE n == Len(order)
           more == Append(order, i)
           from == Disk!At(requests, head, order, n)
           far == Disk!Distance(requests[i], from)
<1>1. /\ more \in Seq(1..Len(requests)) /\ Len(more) = n + 1 /\ n \in Nat
      /\ (\A k \in 1..n : more[k] = order[k]) /\ more[n + 1] = i
  BY AppendProperties
<1>2. PICK a : /\ AddsUp(requests, head, order, a)
               /\ \A t : Disk!TotalOf(requests, head, order, t) <=> (a[Len(order)] - t) % Width = 0
  BY MovesExist
<1> HIDE DEF more
<1>3. PICK b : /\ AddsUp(requests, head, more, b)
               /\ \A t : Disk!TotalOf(requests, head, more, t) <=> (b[Len(more)] - t) % Width = 0
  BY <1>1, MovesExist
<1> HIDE DEF n
<1>4. \A k \in 0..n : Disk!At(requests, head, more, k) = Disk!At(requests, head, order, k)
  BY <1>1, SMTT(30) DEF Disk!At
<1>5. n = Len(order)
  BY DEF n
<1> DEFINE G == {k \in 0..n : a[k] = b[k]}
<1>6. 0 \in G
  BY <1>1, <1>2, <1>3 DEF AddsUp
<1>7. ASSUME NEW k \in 0 .. n - 1, k \in G PROVE k + 1 \in G
  <2>1. k + 1 \in 0..n /\ k + 1 \in 1..n /\ k \in 0..n /\ k \in 0 .. Len(order) - 1 /\ k \in 0 .. Len(more) - 1
    BY <1>1, <1>5
  <2>2. a[k + 1] = a[k] + Disk!Distance(requests[order[k + 1]], Disk!At(requests, head, order, k))
    BY <1>2, <2>1 DEF AddsUp
  <2>3. b[k + 1] = b[k] + Disk!Distance(requests[more[k + 1]], Disk!At(requests, head, more, k))
    BY <1>3, <2>1 DEF AddsUp
  <2> QED
    BY <1>1, <1>4, <1>7, <2>1, <2>2, <2>3
<1>8. n \in G
  <2> HIDE DEF G
  <2>1. \A k \in 0..n : k \in G
    BY <1>1, <1>6, <1>7, AfterEachTurn
  <2> QED
    BY <1>1, <2>1
<1>9. b[n + 1] = b[n] + far
  <2>1. n \in 0 .. Len(more) - 1 /\ n \in 0..n
    BY <1>1
  <2>2. b[n + 1] = b[n] + Disk!Distance(requests[more[n + 1]], Disk!At(requests, head, more, n))
    BY <1>3, <2>1 DEF AddsUp
  <2> QED
    BY <1>1, <1>4, <2>1, <2>2
<1>10. far \in Int /\ a[n] \in Int
  <2>1. requests[i] \in Int
    BY ElementOfSeq
  <2>2. n \in 0..Len(order)
    BY <1>1, <1>5
  <2>3. from \in Int
    BY <2>2, AtIs
  <2>4. a[n] \in Int
    BY <1>2, <2>2 DEF AddsUp
  <2> HIDE DEF from
  <2> QED
    BY <2>1, <2>3, <2>4, DistanceIs
<1> HIDE DEF far
<1>11. (a[n] - total) % Width = 0
  BY <1>2, <1>5
<1>12. ((a[n] + far) - Disk!Wrap(total + far)) % Width = 0
  BY <1>10, <1>11, SumKeeps
<1>13. b[Len(more)] = a[n] + far
  BY <1>1, <1>8, <1>9
<1>14. Disk!TotalOf(requests, head, more, Disk!Wrap(total + far))
  BY <1>3, <1>12, <1>13
<1> QED
  BY <1>5, <1>14 DEF more, far, from

-----------------------------------------------------------------------------
DiskHeads(requests) == [left : [1..Len(requests) -> Int], head : Int, total_seek : Int,
                        order : Seq(1..Len(requests))]

\* The head is where it went last, and the total is right.
Tour(requests, head, s) ==
    /\ s \in DiskHeads(requests)
    /\ s.head = Disk!At(requests, head, s.order, Len(s.order))
    /\ Disk!TotalOf(requests, head, s.order, s.total_seek)

LEMMA HeadsAre ==
  ASSUME NEW requests, NEW s \in DiskHeads(requests)
  PROVE  /\ s.left \in [1..Len(requests) -> Int] /\ s.head \in Int /\ s.total_seek \in Int
         /\ s.order \in Seq(1..Len(requests)) /\ Len(s.order) \in Nat
         /\ s = [left |-> s.left, head |-> s.head, total_seek |-> s.total_seek, order |-> s.order]
<1>1. s.order \in Seq(1..Len(requests))
  BY DEF DiskHeads
<1>2. Len(s.order) \in Nat
  BY <1>1
<1> QED
  BY <1>1, <1>2 DEF DiskHeads

LEMMA StartTour ==
  ASSUME NEW requests \in Seq(Int), NEW head \in Int
  PROVE  /\ Tour(requests, head, Disk!Start(requests, head))
         /\ Disk!Start(requests, head).order = <<>>
         /\ Disk!Start(requests, head).left = requests
<1> DEFINE s == Disk!Start(requests, head)
<1>1. /\ s.order = <<>> /\ s.left = requests /\ s.head = head /\ s.total_seek = 0
      /\ s = [left |-> requests, head |-> head, total_seek |-> 0, order |-> <<>>]
  BY DEF Disk!Start
<1>2. requests \in [1..Len(requests) -> Int] /\ <<>> \in Seq(1..Len(requests)) /\ Len(<<>>) = 0
  <2>1. requests = [i \in 1..Len(requests) |-> requests[i]]
    OBVIOUS
  <2>2. \A i \in 1..Len(requests) : requests[i] \in Int
    BY ElementOfSeq
  <2> QED
    BY <2>1, <2>2
<1> HIDE DEF s
<1>3. s \in DiskHeads(requests)
  BY <1>1, <1>2 DEF DiskHeads
<1>4. Disk!TotalOf(requests, head, s.order, s.total_seek)
  <2> DEFINE order == <<>>
  <2>1. order \in Seq(1..Len(requests)) /\ Len(order) = 0
    BY <1>2
  <2> HIDE DEF order
  <2>2. PICK a : /\ AddsUp(requests, head, order, a)
                 /\ \A t : Disk!TotalOf(requests, head, order, t) <=> (a[Len(order)] - t) % Width = 0
    BY <2>1, MovesExist
  <2>3. a[Len(order)] = 0
    BY <2>1, <2>2 DEF AddsUp
  <2>4. (0 - 0) % Width = 0
    BY DiskAssumption DEF Width
  <2>5. Disk!TotalOf(requests, head, order, 0)
    BY <2>2, <2>3, <2>4
  <2> QED
    BY <1>1, <2>5 DEF order
<1> QED
  BY <1>1, <1>2, <1>3, <1>4 DEF Tour, s, Disk!At

LEMMA ServeKeeps ==
  ASSUME NEW requests \in Seq(Int), NEW head \in Int, NEW s, Tour(requests, head, s),
         NEW i \in 1..Len(requests)
  PROVE  LET t == Disk!Serve(s, i, requests[i])
         IN  /\ Tour(requests, head, t)
             /\ t.left = s.left /\ t.order = Append(s.order, i) /\ t.head = requests[i]
<1> DEFINE t == Disk!Serve(s, i, requests[i])
           far == Disk!Distance(requests[i], s.head)
           order == Append(s.order, i)
           total == Disk!Wrap(s.total_seek + far)
<1>1. /\ s \in DiskHeads(requests) /\ s.head = Disk!At(requests, head, s.order, Len(s.order))
      /\ Disk!TotalOf(requests, head, s.order, s.total_seek)
  BY DEF Tour
<1>2. /\ s.left \in [1..Len(requests) -> Int] /\ s.head \in Int /\ s.total_seek \in Int
      /\ s.order \in Seq(1..Len(requests)) /\ Len(s.order) \in Nat
      /\ s = [left |-> s.left, head |-> s.head, total_seek |-> s.total_seek, order |-> s.order]
  BY <1>1, HeadsAre
<1>3. t = [left |-> s.left, head |-> requests[i], total_seek |-> total, order |-> order]
  <2>1. t = [s EXCEPT !.head = requests[i], !.total_seek = total, !.order = order]
    BY <1>2 DEF Disk!Serve
  <2> HIDE DEF t, total, order
  <2> QED
    BY <1>2, <2>1
<1>4. requests[i] \in Int
  BY ElementOfSeq
<1>5. total \in Int
  <2>1. far \in Int
    BY <1>2, <1>4, DistanceIs
  <2> HIDE DEF far
  <2> DEFINE x == s.total_seek + far
  <2>2. x \in Int
    BY <1>2, <2>1
  <2> HIDE DEF x
  <2>3. Disk!Wrap(x) \in Ints
    BY <2>2, WrapIs
  <2>4. Ints \subseteq Int
    BY DiskAssumption DEF Ints
  <2> QED
    BY <2>3, <2>4 DEF x
<1>6. Disk!TotalOf(requests, head, order, total)
  BY <1>1, <1>2, TotalKeeps
<1>7. /\ order \in Seq(1..Len(requests)) /\ Len(order) = Len(s.order) + 1
      /\ order[Len(s.order) + 1] = i
  BY <1>2, AppendProperties
<1> HIDE DEF order, total, t
<1>8. /\ t \in DiskHeads(requests)
      /\ t.left = s.left /\ t.head = requests[i] /\ t.total_seek = total /\ t.order = order
  BY <1>2, <1>3, <1>4, <1>5, <1>7 DEF DiskHeads
<1>9. Disk!At(requests, head, order, Len(order)) = requests[i]
  BY <1>2, <1>7 DEF Disk!At
<1>10. Tour(requests, head, t)
  BY <1>6, <1>8, <1>9 DEF Tour
<1> QED
  BY <1>8, <1>10 DEF t, order

-----------------------------------------------------------------------------
\* fcfs goes to the requests as they were typed.
LEMMA FcfsIs ==
  ASSUME NEW requests \in Seq(Int), NEW head \in Int
  PROVE  LET s == Disk!Fcfs(requests, head)
         IN  /\ s.order = [i \in DOMAIN requests |-> i]
             /\ Disk!TotalOf(requests, head, s.order, s.total_seek)
<1> DEFINE n == Len(requests)
           base == Disk!Start(requests, head)
           T == {s \in DiskHeads(requests) : Tour(requests, head, s)}
           next == [z \in (0 .. n - 1) \X T |-> Disk!Serve(z[2], z[1] + 1, requests[z[1] + 1])]
           F(f) == [k \in 0..n |-> IF k = 0 THEN base ELSE Disk!Serve(f[k - 1], k, requests[k])]
           after == CHOOSE f : f = F(f)
<1>1. n \in Nat /\ \A k \in 0 .. n - 1 : k \in 0..n /\ k + 1 \in 1..n /\ k + 1 \in 0..n /\ (k + 1) - 1 = k
  OBVIOUS
<1>2. \A s : Tour(requests, head, s) <=> s \in T
  BY DEF Tour
<1>3. base \in T /\ base.order = <<>>
  BY <1>2, StartTour
<1>4. ASSUME NEW s \in T, NEW k \in 1..n
      PROVE  Disk!Serve(s, k, requests[k]) \in T
             /\ Disk!Serve(s, k, requests[k]).order = Append(s.order, k)
  <2>1. Tour(requests, head, s) /\ k \in 1..Len(requests)
    BY <1>2, <1>4
  <2> HIDE DEF T
  <2>2. /\ Tour(requests, head, Disk!Serve(s, k, requests[k]))
        /\ Disk!Serve(s, k, requests[k]).order = Append(s.order, k)
    BY <2>1, ServeKeeps
  <2> QED
    BY <1>2, <2>2
<1>5. Disk!Fcfs(requests, head) = after[n]
  BY DEF Disk!Fcfs
<1> HIDE DEF T, n, base
<1>6. next \in [(0 .. n - 1) \X T -> T]
  BY <1>1, <1>4
<1>7. PICK u \in [0..n -> T] : Turns(u, n, base, next)
  <2> HIDE DEF next
  <2> QED
    BY <1>1, <1>3, <1>6, TurnsExist
<1>8. u = F(u)
  <2>1. ASSUME NEW k \in 0..n, k # 0
        PROVE  next[<<k - 1, u[k - 1]>>] = Disk!Serve(u[k - 1], k, requests[k])
    <3>1. k - 1 \in 0 .. n - 1 /\ k - 1 \in 0..n /\ (k - 1) + 1 = k
      BY <1>1, <2>1
    <3>2. <<k - 1, u[k - 1]>> \in (0 .. n - 1) \X T
      BY <3>1
    <3> QED
      BY <3>1, <3>2
  <2> HIDE DEF next
  <2> QED
    BY <1>7, <2>1 DEF Turns
<1>9. after = F(after)
  <2> HIDE DEF F
  <2> QED
    BY <1>8
<1> HIDE DEF after
<1>10. after[0] = base /\ \A k \in 0 .. n - 1 : after[k + 1] = Disk!Serve(after[k], k + 1, requests[k + 1])
  <2>1. \A k \in 0..n : after[k] = IF k = 0 THEN base ELSE Disk!Serve(after[k - 1], k, requests[k])
    BY <1>9
  <2>2. 0 \in 0..n /\ \A k \in 0 .. n - 1 : k + 1 # 0
    BY <1>1
  <2> QED
    BY <1>1, <2>1, <2>2
<1> DEFINE G == {k \in 0..n : after[k] \in T /\ after[k].order = [i \in 1..k |-> i]}
<1>11. 0 \in G
  <2>1. <<>> = [i \in 1..0 |-> i]
    OBVIOUS
  <2> QED
    BY <1>1, <1>3, <1>10, <2>1
<1>12. ASSUME NEW k \in 0 .. n - 1, k \in G PROVE k + 1 \in G
  <2>1. /\ after[k] \in T /\ after[k].order = [i \in 1..k |-> i]
        /\ after[k + 1] = Disk!Serve(after[k], k + 1, requests[k + 1])
    BY <1>10, <1>12
  <2>2. after[k + 1] \in T /\ after[k + 1].order = Append([i \in 1..k |-> i], k + 1)
    <3> DEFINE t == after[k]
    <3>1. t \in T /\ k + 1 \in 1..n /\ t.order = [i \in 1..k |-> i]
      BY <1>1, <2>1
    <3> HIDE DEF t
    <3>2. /\ Disk!Serve(t, k + 1, requests[k + 1]) \in T
          /\ Disk!Serve(t, k + 1, requests[k + 1]).order = Append(t.order, k + 1)
      BY <1>4, <3>1
    <3>3. after[k + 1] = Disk!Serve(t, k + 1, requests[k + 1])
      BY <2>1 DEF t
    <3> QED
      BY <3>1, <3>2, <3>3
  <2>3. Append([i \in 1..k |-> i], k + 1) = [i \in 1 .. k + 1 |-> i]
    <3> DEFINE a == [i \in 1..k |-> i]
               b == [i \in 1 .. k + 1 |-> i]
    <3>1. k \in Nat /\ a \in Seq(Nat) /\ Len(a) = k /\ b \in Seq(Nat) /\ Len(b) = k + 1
          /\ (\A i \in 1..k : a[i] = i) /\ \A i \in 1 .. k + 1 : b[i] = i
      BY <1>1
    <3> HIDE DEF a, b
    <3>2. /\ Append(a, k + 1) \in Seq(Nat) /\ Len(Append(a, k + 1)) = k + 1
          /\ (\A i \in 1..k : Append(a, k + 1)[i] = a[i]) /\ Append(a, k + 1)[k + 1] = k + 1
      BY <3>1, AppendProperties
    <3>3. \A i \in 1 .. k + 1 : Append(a, k + 1)[i] = b[i]
      BY <3>1, <3>2
    <3>4. Append(a, k + 1) = b
      BY <3>1, <3>2, <3>3, SeqEqual
    <3> QED
      BY <3>4 DEF a, b
  <2> QED
    BY <1>1, <2>2, <2>3
<1>13. n \in G
  <2> HIDE DEF G
  <2>1. \A k \in 0..n : k \in G
    BY <1>1, <1>11, <1>12, AfterEachTurn
  <2> QED
    BY <1>1, <2>1
<1>14. Tour(requests, head, after[n]) /\ after[n].order = [i \in 1..n |-> i]
  BY <1>2, <1>13
<1>15. DOMAIN requests = 1..n
  BY DEF n
<1> QED
  BY <1>5, <1>14, <1>15 DEF Tour

-----------------------------------------------------------------------------
\* What the inner loop of sstf finds.
Far(s, j) == Disk!Distance(s.left[j], s.head)

LEMMA NearestIs ==
  ASSUME NEW requests \in Seq(Int), NEW s \in DiskHeads(requests), Disk!Candidates(s) # {}
  PROVE  LET i == Disk!Nearest(s)
         IN  /\ i \in Disk!Candidates(s) /\ i \in 1..Len(requests)
             /\ \A j \in Disk!Candidates(s) : Far(s, i) < Far(s, j) \/ (Far(s, i) = Far(s, j) /\ i <= j)
<1> DEFINE D == Disk!Candidates(s)
           close == {j \in D : \A k \in D : ~(Far(s, k) < Far(s, j))}
<1>1. s.left \in [1..Len(requests) -> Int] /\ s.head \in Int
  BY HeadsAre
<1>2. D \subseteq 1..Len(requests) /\ D # {}
  BY <1>1 DEF Disk!Candidates
<1>3. Disk!Nearest(s) = Disk!Min(close)
  BY DEF Disk!Nearest, Disk!Closer, Far
<1>4. \A j \in 1..Len(requests) : Far(s, j) \in Ints /\ Far(s, j) \in Int
  <2> SUFFICES ASSUME NEW j \in 1..Len(requests) PROVE Far(s, j) \in Ints /\ Far(s, j) \in Int
    OBVIOUS
  <2>1. s.left[j] \in Int
    BY <1>1
  <2> QED
    BY <1>1, <2>1, DistanceIs DEF Far
<1> HIDE DEF D
<1>5. close # {}
  <2> DEFINE up(j) == Far(s, j) + DiskMax + 1
             B == {up(j) : j \in D}
  <2>1. \A j \in D : up(j) \in Nat
    BY <1>2, <1>4, DiskAssumption DEF Ints
  <2>2. B \subseteq Nat /\ B # {}
    BY <1>2, <2>1
  <2> HIDE DEF B
  <2>3. PICK b \in B : \A k \in B : b <= k
    BY <2>2, LeastNumber
  <2>4. PICK j \in D : b = up(j)
    BY DEF B
  <2>5. ASSUME NEW k \in D PROVE ~(Far(s, k) < Far(s, j))
    <3>1. up(k) \in B
      BY DEF B
    <3>2. up(j) <= up(k)
      BY <2>3, <2>4, <3>1
    <3>3. Far(s, k) \in Int /\ Far(s, j) \in Int
      BY <1>2, <1>4
    <3> QED
      BY <3>2, <3>3, DiskAssumption
  <2> QED
    BY <2>5
<1>6. close \subseteq Nat
  <2>1. close \subseteq D /\ 1..Len(requests) \subseteq Nat
    OBVIOUS
  <2> QED
    BY <1>2, <2>1
<1> DEFINE i == Disk!Min(close)
<1>7. i \in close /\ \A j \in close : i <= j
  <2> HIDE DEF close
  <2>1. \E n \in close : \A k \in close : n <= k
    BY <1>5, <1>6, LeastNumber
  <2> QED
    BY <2>1 DEF Disk!Min
<1> HIDE DEF i
<1>8. i \in D /\ i \in 1..Len(requests) /\ \A k \in D : ~(Far(s, k) < Far(s, i))
  BY <1>2, <1>7
<1>9. ASSUME NEW j \in D PROVE Far(s, i) < Far(s, j) \/ (Far(s, i) = Far(s, j) /\ i <= j)
  <2>1. Far(s, i) \in Int /\ \A k \in D : Far(s, k) \in Int
    BY <1>2, <1>4, <1>8
  <2>2. Far(s, i) <= Far(s, j)
    BY <1>8, <2>1
  <2>3. CASE Far(s, i) = Far(s, j)
    <3>1. \A k \in D : ~(Far(s, k) < Far(s, j))
      BY <1>8, <2>3
    <3>2. j \in close
      BY <3>1
    <3> QED
      BY <1>7, <2>3, <3>2
  <2>4. CASE Far(s, i) # Far(s, j)
    BY <2>1, <2>2, <2>4
  <2> QED
    BY <2>3, <2>4
<1> QED
  BY <1>3, <1>8, <1>9 DEF D, i

-----------------------------------------------------------------------------
\* What holds of sstf after each turn: the requests it served are struck out, and
\* each was the nearest of those left.
Struck(requests, s) ==
    \A i \in 1..Len(requests) :
        s.left[i] = IF \E k \in 1..Len(s.order) : s.order[k] = i THEN Disk!Served ELSE requests[i]

Nearby(requests, head, s) ==
    /\ Tour(requests, head, s)
    /\ Struck(requests, s)
    /\ Disk!ShortestFirst(requests, head, s.order)

LEMMA CandidatesAre ==
  ASSUME NEW requests \in Seq(Int), NEW head \in Int, NEW s, Nearby(requests, head, s)
  PROVE  /\ Disk!Candidates(s) = {i \in Disk!Waiting(requests, s.order, Len(s.order)) :
                                    Disk!Distance(requests[i], s.head) < DiskMax}
         /\ Disk!Waiting(requests, s.order, Len(s.order)) \subseteq 1..Len(requests)
         /\ \A i \in Disk!Waiting(requests, s.order, Len(s.order)) : s.left[i] = requests[i]
<1> DEFINE W == Disk!Waiting(requests, s.order, Len(s.order))
<1>1. s \in DiskHeads(requests)
  BY DEF Nearby, Tour
<1>2. DOMAIN s.left = 1..Len(requests) /\ DOMAIN requests = 1..Len(requests)
  BY <1>1, HeadsAre
<1>3. \A i \in 1..Len(requests) :
        s.left[i] = IF \E k \in 1..Len(s.order) : s.order[k] = i THEN Disk!Served ELSE requests[i]
  BY DEF Nearby, Struck
<1>4. W = {i \in 1..Len(requests) : requests[i] # Disk!Served
             /\ \A k \in 1..Len(s.order) : s.order[k] # i}
  BY <1>2 DEF Disk!Waiting
<1>5. \A i \in W : s.left[i] = requests[i]
  BY <1>3, <1>4
<1>6. \A i \in 1..Len(requests) : i \in W <=> s.left[i] # Disk!Served
  BY <1>3, <1>4
<1>7. Disk!Candidates(s) = {i \in 1..Len(requests) :
         s.left[i] # Disk!Served /\ Disk!Distance(s.left[i], s.head) < DiskMax}
  BY <1>2 DEF Disk!Candidates
<1> HIDE DEF W
<1>8. W \subseteq 1..Len(requests)
  BY <1>4
<1>9. Disk!Candidates(s) = {i \in W : Disk!Distance(requests[i], s.head) < DiskMax}
  BY <1>5, <1>6, <1>7, <1>8
<1> QED
  BY <1>5, <1>8, <1>9 DEF W

LEMMA AppendShortest ==
  ASSUME NEW requests \in Seq(Int), NEW head \in Int, NEW order \in Seq(1..Len(requests)),
         NEW i \in 1..Len(requests), Disk!ShortestFirst(requests, head, order),
         i \in Disk!Waiting(requests, order, Len(order)),
         \A j \in Disk!Waiting(requests, order, Len(order)) :
            LET from == Disk!At(requests, head, order, Len(order))
            IN  \/ Disk!Distance(requests[i], from) < Disk!Distance(requests[j], from)
                \/ /\ Disk!Distance(requests[i], from) = Disk!Distance(requests[j], from)
                   /\ i <= j
  PROVE  Disk!ShortestFirst(requests, head, Append(order, i))
<1> DEFINE n == Len(order)
           more == Append(order, i)
<1>1. /\ Len(more) = n + 1 /\ n \in Nat /\ DOMAIN more = 1 .. n + 1 /\ DOMAIN order = 1..n
      /\ (\A k \in 1..n : more[k] = order[k]) /\ more[n + 1] = i
  BY AppendProperties
<1> HIDE DEF more
<1>2. ASSUME NEW k \in 0..n
      PROVE  /\ Disk!At(requests, head, more, k) = Disk!At(requests, head, order, k)
             /\ Disk!Waiting(requests, more, k) = Disk!Waiting(requests, order, k)
  <2>1. \A j \in 1..k : more[j] = order[j]
    BY <1>1
  <2>2. k # 0 => k \in 1..k
    BY <1>1
  <2> QED
    BY <2>1, <2>2 DEF Disk!At, Disk!Waiting
<1> DEFINE Best(o, k, x) ==
             LET from == Disk!At(requests, head, o, k - 1)
                 far(j) == Disk!Distance(requests[j], from)
             IN  /\ x \in Disk!Waiting(requests, o, k - 1)
                 /\ \A j \in Disk!Waiting(requests, o, k - 1) :
                      far(x) < far(j) \/ (far(x) = far(j) /\ x <= j)
<1>3. \A k \in 1..n : Best(order, k, order[k])
  BY <1>1 DEF Disk!ShortestFirst
<1>4. \A k \in 1 .. n + 1 : k - 1 \in 0..n
  BY <1>1
<1>5. Best(order, n + 1, i)
  <2>1. (n + 1) - 1 = n
    BY <1>1
  <2> QED
    BY <2>1
<1>6. \A x : \A k \in 1 .. n + 1 : Best(more, k, x) <=> Best(order, k, x)
  BY <1>2, <1>4
<1> HIDE DEF Best
<1>7. ASSUME NEW k \in 1 .. n + 1 PROVE Best(more, k, more[k])
  <2>1. CASE k = n + 1
    BY <1>1, <1>5, <1>6, <2>1
  <2>2. CASE k # n + 1
    <3>1. k \in 1..n
      BY <1>1, <2>2
    <3> QED
      BY <1>1, <1>3, <1>6, <3>1
  <2> QED
    BY <2>1, <2>2
<1>8. Disk!ShortestFirst(requests, head, more)
  BY <1>1, <1>7 DEF Best, Disk!ShortestFirst
<1> QED
  BY <1>8 DEF more

\* A turn that finds a request.
LEMMA TurnKeeps ==
  ASSUME NEW requests \in Seq(Int), NEW head \in Int, NEW s, Nearby(requests, head, s),
         Disk!Candidates(s) # {}
  PROVE  /\ Nearby(requests, head, Disk!Turn(s))
         /\ Len(Disk!Turn(s).order) = Len(s.order) + 1
<1> DEFINE i == Disk!Nearest(s)
           W == Disk!Waiting(requests, s.order, Len(s.order))
           u == Disk!Serve(s, i, requests[i])
           t == Disk!Turn(s)
           left == [s.left EXCEPT ![i] = Disk!Served]
           n == Len(s.order)
<1>1. /\ Tour(requests, head, s) /\ s \in DiskHeads(requests) /\ Struck(requests, s)
      /\ Disk!ShortestFirst(requests, head, s.order)
      /\ s.head = Disk!At(requests, head, s.order, Len(s.order))
  BY DEF Nearby, Tour
<1>2. /\ s.left \in [1..Len(requests) -> Int] /\ s.order \in Seq(1..Len(requests))
      /\ n \in Nat
  BY <1>1, HeadsAre
<1>3. /\ i \in Disk!Candidates(s) /\ i \in 1..Len(requests)
      /\ \A j \in Disk!Candidates(s) : Far(s, i) < Far(s, j) \/ (Far(s, i) = Far(s, j) /\ i <= j)
  BY <1>1, NearestIs
<1>4. /\ Disk!Candidates(s) = {j \in W : Disk!Distance(requests[j], s.head) < DiskMax}
      /\ W \subseteq 1..Len(requests) /\ \A j \in W : s.left[j] = requests[j]
  BY CandidatesAre
<1>5. t = [u EXCEPT !.left[i] = Disk!Served]
  <2>1. i # 0 /\ s.left[i] = requests[i]
    BY <1>3, <1>4
  <2> QED
    BY <2>1 DEF Disk!Turn
<1> HIDE DEF i, W, t
<1>6. /\ Tour(requests, head, u)
      /\ u.left = s.left /\ u.order = Append(s.order, i) /\ u.head = requests[i]
  BY <1>1, <1>3, ServeKeeps
<1> HIDE DEF u
<1>7. /\ u \in DiskHeads(requests)
      /\ u = [left |-> u.left, head |-> u.head, total_seek |-> u.total_seek, order |-> u.order]
      /\ u.head \in Int /\ u.total_seek \in Int /\ u.order \in Seq(1..Len(requests))
  <2>1. u \in DiskHeads(requests)
    BY <1>6 DEF Tour
  <2> QED
    BY <2>1, HeadsAre
<1>8. left \in [1..Len(requests) -> Int]
  BY <1>2, <1>3 DEF Disk!Served
<1>9. t = [left |-> left, head |-> u.head, total_seek |-> u.total_seek, order |-> u.order]
  <2>1. t = [u EXCEPT !.left = left]
    BY <1>5, <1>6
  <2> HIDE DEF left
  <2> QED
    BY <1>7, <2>1
<1> HIDE DEF left
<1>10. /\ t \in DiskHeads(requests) /\ t.left = left /\ t.head = u.head
       /\ t.total_seek = u.total_seek /\ t.order = u.order
  BY <1>7, <1>8, <1>9 DEF DiskHeads
<1>11. Tour(requests, head, t)
  BY <1>6, <1>10 DEF Tour
<1>12. /\ t.order = Append(s.order, i) /\ Len(t.order) = n + 1
       /\ \A k \in 1..n : t.order[k] = s.order[k]
       /\ t.order[n + 1] = i
  <2>1. t.order = Append(s.order, i)
    BY <1>6, <1>10
  <2> QED
    BY <1>2, <1>3, <2>1, AppendProperties
<1>13. Struck(requests, t)
  <2> SUFFICES ASSUME NEW j \in 1..Len(requests)
               PROVE  t.left[j] = IF \E k \in 1..Len(t.order) : t.order[k] = j
                                  THEN Disk!Served ELSE requests[j]
    BY DEF Struck
  <2>1. s.left[j] = IF \E k \in 1..n : s.order[k] = j THEN Disk!Served ELSE requests[j]
    BY <1>1 DEF Struck
  <2>2. t.left[j] = IF j = i THEN Disk!Served ELSE s.left[j]
    BY <1>2, <1>3, <1>10 DEF left
  <2>3. (\E k \in 1..Len(t.order) : t.order[k] = j) <=> (j = i \/ \E k \in 1..n : s.order[k] = j)
    <3> HIDE DEF n
    <3>1. /\ \A k \in 1 .. n + 1 : k \in 1..n \/ k = n + 1
          /\ 1..n \subseteq 1 .. n + 1 /\ n + 1 \in 1 .. n + 1
      BY <1>2
    <3> QED
      BY <1>12, <3>1
  <2> QED
    BY <2>1, <2>2, <2>3
<1>14. Disk!ShortestFirst(requests, head, t.order)
  <2>1. i \in W /\ Disk!Distance(requests[i], s.head) < DiskMax
    BY <1>3, <1>4
  <2>2. ASSUME NEW j \in W
        PROVE  \/ Disk!Distance(requests[i], s.head) < Disk!Distance(requests[j], s.head)
               \/ /\ Disk!Distance(requests[i], s.head) = Disk!Distance(requests[j], s.head)
                  /\ i <= j
    <3>1. CASE j \in Disk!Candidates(s)
      BY <1>3, <1>4, <2>1, <3>1 DEF Far
    <3>2. CASE j \notin Disk!Candidates(s)
      <4>1. ~(Disk!Distance(requests[j], s.head) < DiskMax)
        BY <1>4, <3>2
      <4>2. requests[i] \in Int /\ requests[j] \in Int /\ s.head \in Int
        BY <1>1, <1>3, <1>4, HeadsAre, ElementOfSeq
      <4>3. Disk!Distance(requests[i], s.head) \in Int /\ Disk!Distance(requests[j], s.head) \in Int
        BY <4>2, DistanceIs
      <4> QED
        BY <2>1, <4>1, <4>3, DiskAssumption
    <3> QED
      BY <3>1, <3>2
  <2>3. i \in Disk!Waiting(requests, s.order, Len(s.order))
    BY <2>1 DEF W
  <2>4. \A j \in Disk!Waiting(requests, s.order, Len(s.order)) :
            LET from == Disk!At(requests, head, s.order, Len(s.order))
            IN  \/ Disk!Distance(requests[i], from) < Disk!Distance(requests[j], from)
                \/ /\ Disk!Distance(requests[i], from) = Disk!Distance(requests[j], from)
                   /\ i <= j
    BY <1>1, <2>2 DEF W
  <2>5. Disk!ShortestFirst(requests, head, Append(s.order, i))
    BY <1>1, <1>2, <1>3, <2>3, <2>4, AppendShortest
  <2> QED
    BY <1>12, <2>5
<1> QED
  BY <1>11, <1>12, <1>13, <1>14 DEF Nearby, t

\* As many requests served as there are leave none.
LEMMA NoneLeft ==
  ASSUME NEW requests \in Seq(Int), NEW head \in Int, NEW order \in Seq(1..Len(requests)),
         Disk!ShortestFirst(requests, head, order), Len(order) = Len(requests)
  PROVE  Disk!Waiting(requests, order, Len(order)) = {}
<1> DEFINE n == Len(order)
<1>1. /\ n \in Nat /\ DOMAIN order = 1..n /\ DOMAIN requests = 1..n
      /\ order \in [1..n -> 1..n] /\ 1..Len(requests) = 1..n
  <2>1. \A k \in 1..n : order[k] \in 1..Len(requests)
    BY ElementOfSeq
  <2> QED
    BY <2>1
<1>2. \A k \in 1..n : \A j \in 1 .. k - 1 : order[j] # order[k]
  BY <1>1 DEF Disk!ShortestFirst, Disk!Waiting
<1>3. ASSUME NEW j \in 1..n, NEW k \in 1..n, order[j] = order[k] PROVE j = k
  <2>1. j \in 1 .. k - 1 \/ k \in 1 .. j - 1 \/ j = k
    BY <1>1
  <2> QED
    BY <1>2, <1>3, <2>1
<1> HIDE DEF n
<1>4. order \in Injection(1..n, 1..n)
  BY <1>1, <1>3, Fun_IsInj
<1>5. IsFiniteSet(1..n)
  <2> DEFINE low == 1
  <2>1. low \in Int
    OBVIOUS
  <2> HIDE DEF low
  <2>2. IsFiniteSet(low..n)
    BY <1>1, <2>1, FS_Interval
  <2> QED
    BY <2>2 DEF low
<1>6. order \in Surjection(1..n, 1..n)
  BY <1>4, <1>5, FS_Injection
<1>7. \A i \in 1..n : \E k \in 1..n : order[k] = i
  BY <1>6 DEF Surjection
<1> QED
  BY <1>1, <1>7 DEF n, Disk!Waiting
-----------------------------------------------------------------------------
\* All the turns of sstf.
LEMMA SstfIs ==
  ASSUME NEW requests \in Seq(Int), NEW head \in Int
  PROVE  LET s == Disk!Sstf(requests, head)
         IN  /\ Nearby(requests, head, s)
             /\ Len(s.order) = Len(requests) \/ Disk!Candidates(s) = {}
<1> DEFINE n == Len(requests)
           base == Disk!Start(requests, head)
           T == {s \in DiskHeads(requests) : Nearby(requests, head, s)}
           next == [z \in (0 .. n - 1) \X T |-> Disk!Turn(z[2])]
           F(f) == [k \in 0..n |-> IF k = 0 THEN base ELSE Disk!Turn(f[k - 1])]
           after == CHOOSE f : f = F(f)
<1>1. n \in Nat /\ \A k \in 0 .. n - 1 : k \in 0..n /\ k + 1 \in 1..n /\ k + 1 \in 0..n /\ (k + 1) - 1 = k
  OBVIOUS
<1>2. \A s : Nearby(requests, head, s) <=> s \in T
  BY DEF Nearby, Tour
<1>3. base \in T /\ base.order = <<>>
  <2>1. /\ Tour(requests, head, base) /\ base.order = <<>> /\ base.left = requests
    BY StartTour
  <2> HIDE DEF base
  <2>2. Struck(requests, base) /\ Disk!ShortestFirst(requests, head, base.order)
    BY <2>1 DEF Struck, Disk!ShortestFirst
  <2>3. Nearby(requests, head, base)
    BY <2>1, <2>2 DEF Nearby
  <2> QED
    BY <1>2, <2>1, <2>3
<1>4. ASSUME NEW s \in T
      PROVE  /\ Disk!Turn(s) \in T
             /\ Disk!Candidates(s) = {} => Disk!Turn(s) = s
             /\ Disk!Candidates(s) # {} => Len(Disk!Turn(s).order) = Len(s.order) + 1
  <2>1. Nearby(requests, head, s)
    BY <1>2
  <2> HIDE DEF T
  <2>2. CASE Disk!Candidates(s) = {}
    <3>1. Disk!Turn(s) = s
      BY <2>2 DEF Disk!Turn, Disk!Nearest
    <3> QED
      BY <2>2, <3>1
  <2>3. CASE Disk!Candidates(s) # {}
    <3>1. /\ Nearby(requests, head, Disk!Turn(s))
          /\ Len(Disk!Turn(s).order) = Len(s.order) + 1
      BY <2>1, <2>3, TurnKeeps
    <3> QED
      BY <1>2, <2>3, <3>1
  <2> QED
    BY <2>2, <2>3
<1>5. Disk!Sstf(requests, head) = after[n]
  BY DEF Disk!Sstf
<1> HIDE DEF T, n, base
<1>6. next \in [(0 .. n - 1) \X T -> T]
  BY <1>4
<1>7. PICK u \in [0..n -> T] : Turns(u, n, base, next)
  <2> HIDE DEF next
  <2> QED
    BY <1>1, <1>3, <1>6, TurnsExist
<1>8. u = F(u)
  <2>1. ASSUME NEW k \in 0..n, k # 0
        PROVE  next[<<k - 1, u[k - 1]>>] = Disk!Turn(u[k - 1])
    <3>1. k - 1 \in 0 .. n - 1 /\ k - 1 \in 0..n
      BY <1>1, <2>1
    <3>2. <<k - 1, u[k - 1]>> \in (0 .. n - 1) \X T
      BY <3>1
    <3> QED
      BY <3>1, <3>2
  <2> HIDE DEF next
  <2> QED
    BY <1>7, <2>1 DEF Turns
<1>9. after = F(after)
  <2> HIDE DEF F
  <2> QED
    BY <1>8
<1> HIDE DEF after
<1>10. after[0] = base /\ \A k \in 0 .. n - 1 : after[k + 1] = Disk!Turn(after[k])
  <2>1. \A k \in 0..n : after[k] = IF k = 0 THEN base ELSE Disk!Turn(after[k - 1])
    BY <1>9
  <2>2. 0 \in 0..n /\ \A k \in 0 .. n - 1 : k + 1 # 0
    BY <1>1
  <2> QED
    BY <1>1, <2>1, <2>2
<1> DEFINE G == {k \in 0..n : /\ after[k] \in T
                              /\ Len(after[k].order) = k \/ Disk!Candidates(after[k]) = {}}
<1>11. 0 \in G
  <2>1. Len(<<>>) = 0
    OBVIOUS
  <2> QED
    BY <1>1, <1>3, <1>10, <2>1
<1>12. ASSUME NEW k \in 0 .. n - 1, k \in G PROVE k + 1 \in G
  <2> DEFINE s == after[k]
  <2>1. /\ s \in T
        /\ Len(s.order) = k \/ Disk!Candidates(s) = {}
        /\ after[k + 1] = Disk!Turn(s)
    BY <1>10, <1>12
  <2> HIDE DEF s
  <2>2. /\ Disk!Turn(s) \in T
        /\ Disk!Candidates(s) = {} => Disk!Turn(s) = s
        /\ Disk!Candidates(s) # {} => Len(Disk!Turn(s).order) = Len(s.order) + 1
    BY <1>4, <2>1
  <2>3. Len(Disk!Turn(s).order) = k + 1 \/ Disk!Candidates(Disk!Turn(s)) = {}
    BY <2>1, <2>2
  <2> QED
    BY <1>1, <2>1, <2>2, <2>3
<1>13. n \in G
  <2> HIDE DEF G
  <2>1. \A k \in 0..n : k \in G
    BY <1>1, <1>11, <1>12, AfterEachTurn
  <2> QED
    BY <1>1, <2>1
<1>14. Nearby(requests, head, after[n]) /\ (Len(after[n].order) = n \/ Disk!Candidates(after[n]) = {})
  BY <1>2, <1>13
<1> QED
  BY <1>5, <1>14 DEF n

-----------------------------------------------------------------------------
\* What sstf leaves out.
LEMMA LeftOut ==
  ASSUME NEW requests \in Seq(Int), NEW head \in Int, NEW s, Nearby(requests, head, s),
         Len(s.order) = Len(requests) \/ Disk!Candidates(s) = {},
         NEW i \in Disk!Waiting(requests, s.order, Len(s.order))
  PROVE  Disk!Distance(requests[i], s.head) = DiskMax
<1>1. /\ s.order \in Seq(1..Len(requests)) /\ s.head \in Int
      /\ Disk!ShortestFirst(requests, head, s.order)
  BY HeadsAre DEF Nearby, Tour
<1>2. Disk!Candidates(s) = {}
  BY <1>1, NoneLeft
<1>3. i \in 1..Len(requests) /\ ~(Disk!Distance(requests[i], s.head) < DiskMax)
  BY <1>2, CandidatesAre
<1>4. requests[i] \in Int
  BY <1>3, ElementOfSeq
<1>5. Disk!Distance(requests[i], s.head) \in Ints
  BY <1>1, <1>4, DistanceIs
<1> QED
  BY <1>3, <1>5, DiskAssumption DEF Ints

-----------------------------------------------------------------------------
\* For any requests and any width of an int, fcfs and sstf of src/lab11/q3 report the
\* distance their heads travelled, up to overflow; sstf always goes to the first of
\* the nearest requests left, and leaves out only requests for cylinder -1 and those
\* the largest int away.
THEOREM DiskServesNearest == MCSpec => []DiskRight
<1>1. InputOK => DiskRight
  <2> SUFFICES ASSUME program = "disk", Len(input) > 1, input \in Seq(Int)
               PROVE  DiskRight
    BY DEF InputOK, DiskRight
  <2> DEFINE head == Head(input)
             requests == Tail(input)
             sstf == Disk!Sstf(requests, head)
  <2>1. head \in Int /\ requests \in Seq(Int)
    OBVIOUS
  <2> HIDE DEF head, requests
  <2>2. LET fcfs == Disk!Fcfs(requests, head)
        IN  /\ fcfs.order = [i \in DOMAIN requests |-> i]
            /\ Disk!TotalOf(requests, head, fcfs.order, fcfs.total_seek)
    BY <2>1, FcfsIs
  <2>3. /\ Nearby(requests, head, sstf)
        /\ Len(sstf.order) = Len(requests) \/ Disk!Candidates(sstf) = {}
    BY <2>1, SstfIs
  <2> HIDE DEF sstf
  <2>4. /\ Disk!TotalOf(requests, head, sstf.order, sstf.total_seek)
        /\ Disk!ShortestFirst(requests, head, sstf.order)
    BY <2>3 DEF Nearby, Tour
  <2>5. \A i \in Disk!Waiting(requests, sstf.order, Len(sstf.order)) :
          Disk!Distance(requests[i], sstf.head) = DiskMax
    BY <2>1, <2>3, LeftOut
  <2> QED
    BY <2>2, <2>4, <2>5 DEF DiskRight, head, requests, sstf
<1> QED
  BY <1>1, Typed, PTL
-----------------------------------------------------------------------------
(***************************************************************************)
(* The multilevel queue, for any slices and any bursts that are not empty. *)
(***************************************************************************)
\* What a process has run for after its turn at each level.
LEMMA UpToIs ==
  ASSUME NEW b \in Nat \ {0}
  PROVE  /\ Scheduler!UpTo(0, b) = 0 /\ Scheduler!UpTo(3, b) = b
         /\ \A l \in 0..3 : Scheduler!UpTo(l, b) \in 0..b
         /\ \A l \in 1..3 : Scheduler!UpTo(l - 1, b) = b => Scheduler!UpTo(l, b) = b
         /\ \A l \in 1..3 : Scheduler!UpTo(l - 1, b) <= Scheduler!UpTo(l, b)
<1> USE SlicesAssumption
<1>1. /\ Scheduler!UpTo(0, b) = 0
      /\ Scheduler!UpTo(1, b) = IF b < TIME_SLICE_Q1 THEN b ELSE TIME_SLICE_Q1
      /\ Scheduler!UpTo(2, b) = IF b < TIME_SLICE_Q1 + TIME_SLICE_Q2 THEN b
                                ELSE TIME_SLICE_Q1 + TIME_SLICE_Q2
      /\ Scheduler!UpTo(3, b) = b
  BY DEF Scheduler!UpTo, Scheduler!Lesser
<1>2. \A l \in 1..3 : (l = 1 /\ l - 1 = 0) \/ (l = 2 /\ l - 1 = 1) \/ (l = 3 /\ l - 1 = 2)
  OBVIOUS
<1>3. \A l \in 0..3 : l = 0 \/ l = 1 \/ l = 2 \/ l = 3
  OBVIOUS
<1>4. \A l \in 0..3 : Scheduler!UpTo(l, b) \in 0..b
  BY <1>1, <1>3
<1>5. \A l \in 1..3 : /\ Scheduler!UpTo(l - 1, b) = b => Scheduler!UpTo(l, b) = b
                      /\ Scheduler!UpTo(l - 1, b) <= Scheduler!UpTo(l, b)
  BY <1>1, <1>2
<1> QED
  BY <1>1, <1>4, <1>5

\* How long its turn at a level is.
LEMMA TurnLasts ==
  ASSUME NEW b \in Nat \ {0}
  PROVE  /\ \A l \in 1..2 : Scheduler!UpTo(l, b) - Scheduler!UpTo(l - 1, b) =
               Scheduler!Lesser(b - Scheduler!UpTo(l - 1, b),
                                IF l = 1 THEN TIME_SLICE_Q1 ELSE TIME_SLICE_Q2)
         /\ \A l \in 1..3 : Scheduler!UpTo(l - 1, b) < b =>
               Scheduler!UpTo(l - 1, b) < Scheduler!UpTo(l, b)
<1> USE SlicesAssumption
<1>1. /\ Scheduler!UpTo(0, b) = 0
      /\ Scheduler!UpTo(1, b) = IF b < TIME_SLICE_Q1 THEN b ELSE TIME_SLICE_Q1
      /\ Scheduler!UpTo(2, b) = IF b < TIME_SLICE_Q1 + TIME_SLICE_Q2 THEN b
                                ELSE TIME_SLICE_Q1 + TIME_SLICE_Q2
      /\ Scheduler!UpTo(3, b) = b
  BY DEF Scheduler!UpTo, Scheduler!Lesser
<1>2. \A l \in 1..3 : (l = 1 /\ l - 1 = 0) \/ (l = 2 /\ l - 1 = 1) \/ (l = 3 /\ l - 1 = 2)
  OBVIOUS
<1>3. \A l \in 1..2 : (l = 1 /\ l - 1 = 0) \/ (l = 2 /\ l - 1 = 1)
  OBVIOUS
<1>4. \A l \in 1..3 : Scheduler!UpTo(l - 1, b) < b =>
               Scheduler!UpTo(l - 1, b) < Scheduler!UpTo(l, b)
  BY <1>1, <1>2
<1>5. /\ Scheduler!UpTo(1, b) - 0 = Scheduler!Lesser(b - 0, TIME_SLICE_Q1)
      /\ Scheduler!UpTo(2, b) - Scheduler!UpTo(1, b) =
           Scheduler!Lesser(b - Scheduler!UpTo(1, b), TIME_SLICE_Q2)
  BY <1>1 DEF Scheduler!Lesser
<1>6. \A l \in 1..2 : Scheduler!UpTo(l, b) - Scheduler!UpTo(l - 1, b) =
               Scheduler!Lesser(b - Scheduler!UpTo(l - 1, b),
                                IF l = 1 THEN TIME_SLICE_Q1 ELSE TIME_SLICE_Q2)
  BY <1>1, <1>3, <1>5
<1> QED
  BY <1>4, <1>6

-----------------------------------------------------------------------------
Bursting == Seq(Nat \ {0})

\* What process i has run for when those up to k had their turn at the level.
Ran(b, level, k, i) == Scheduler!UpTo(IF i <= k THEN level ELSE level - 1, b[i])

LEMMA RanIs ==
  ASSUME NEW b \in Bursting, NEW level \in 1..3, NEW k \in Int, NEW i \in 1..Len(b)
  PROVE  Ran(b, level, k, i) \in 0..b[i] /\ b[i] \in Nat \ {0} /\ Ran(b, level, k, i) \in Int
<1>1. b[i] \in Nat \ {0}
  BY ElementOfSeq DEF Bursting
<1>2. level \in 0..3 /\ level - 1 \in 0..3
  OBVIOUS
<1>3. Ran(b, level, k, i) \in 0..b[i]
  BY <1>1, <1>2, UpToIs DEF Ran
<1> QED
  BY <1>1, <1>3

LEMMA TimeSum ==
  ASSUME NEW b \in Bursting, NEW level \in 1..3, NEW k \in Int
  PROVE  \E sum : /\ sum[0] = 0 /\ \A i \in 0..Len(b) : sum[i] \in Int
                  /\ \A i \in 0 .. Len(b) - 1 : sum[i + 1] = sum[i] + Ran(b, level, k, i + 1)
                  /\ Scheduler!TimeAt(b, level, k) = sum[Len(b)]
<1> DEFINE n == Len(b)
           ran(i) == Ran(b, level, k, i)
           next == [z \in (0 .. n - 1) \X Int |-> z[2] + ran(z[1] + 1)]
           F(f) == [i \in 0..n |-> IF i = 0 THEN 0 ELSE f[i - 1] + ran(i)]
           sum == CHOOSE f : f = F(f)
<1>1. n \in Nat /\ \A i \in 0 .. n - 1 : i \in 0..n /\ i + 1 \in 1..n /\ i + 1 \in 0..n /\ (i + 1) - 1 = i
  BY DEF Bursting
<1>2. \A i \in 1..n : ran(i) \in Int
  BY RanIs
<1>3. Scheduler!TimeAt(b, level, k) = sum[n]
  BY DEF Scheduler!TimeAt, Ran
<1> HIDE DEF ran, n
<1>5. next \in [(0 .. n - 1) \X Int -> Int]
  BY <1>1, <1>2
<1>6. PICK u \in [0..n -> Int] : Turns(u, n, 0, next)
  <2> DEFINE base == 0
  <2>1. base \in Int
    OBVIOUS
  <2> HIDE DEF next, base
  <2>2. \E u \in [0..n -> Int] : Turns(u, n, base, next)
    BY <1>1, <1>5, <2>1, TurnsExist
  <2> QED
    BY <2>2 DEF base
<1>7. u = F(u)
  <2>1. ASSUME NEW i \in 0..n, i # 0 PROVE next[<<i - 1, u[i - 1]>>] = u[i - 1] + ran(i)
    <3>1. i - 1 \in 0 .. n - 1 /\ i - 1 \in 0..n /\ (i - 1) + 1 = i
      BY <1>1, <2>1
    <3>2. <<i - 1, u[i - 1]>> \in (0 .. n - 1) \X Int
      BY <3>1
    <3> QED
      BY <3>1, <3>2
  <2> HIDE DEF next
  <2> QED
    BY <1>6, <2>1 DEF Turns
<1>8. sum = F(sum)
  <2> HIDE DEF F
  <2> QED
    BY <1>7
<1> HIDE DEF sum
<1>9. sum[0] = 0 /\ \A i \in 0 .. n - 1 : sum[i + 1] = sum[i] + ran(i + 1)
  <2>1. \A i \in 0..n : sum[i] = IF i = 0 THEN 0 ELSE sum[i - 1] + ran(i)
    BY <1>8
  <2>2. 0 \in 0..n /\ \A i \in 0 .. n - 1 : i + 1 # 0
    BY <1>1
  <2> QED
    BY <1>1, <2>1, <2>2
<1>10. \A i \in 0..n : sum[i] \in Int
  <2> DEFINE G == {i \in 0..n : sum[i] \in Int}
  <2>1. 0 \in G
    BY <1>1, <1>9
  <2>2. ASSUME NEW i \in 0 .. n - 1, i \in G PROVE i + 1 \in G
    BY <1>1, <1>2, <1>9, <2>2
  <2>3. \A i \in 0..n : i \in G
    <3> HIDE DEF G
    <3> QED
      BY <1>1, <2>1, <2>2, AfterEachTurn
  <2> QED
    BY <2>3
<1> QED
  BY <1>3, <1>9, <1>10 DEF n, ran

\* One turn of process j adds its time to the sum, if there is such a process.
Adds(b, level, k, l, h, j, d) ==
    \A i \in 1..Len(b) : Ran(b, l, h, i) = Ran(b, level, k, i) + (IF i = j THEN d ELSE 0)

LEMMA TimeInt ==
  ASSUME NEW b \in Bursting, NEW level \in 1..3, NEW k \in Int
  PROVE  Scheduler!TimeAt(b, level, k) \in Int
<1> DEFINE n == Len(b)
           t == Scheduler!TimeAt(b, level, k)
<1>1. n \in Nat /\ n \in 0..n
  BY DEF Bursting
<1>2. PICK sum : /\ sum[0] = 0 /\ \A i \in 0..n : sum[i] \in Int
                 /\ \A i \in 0 .. n - 1 : sum[i + 1] = sum[i] + Ran(b, level, k, i + 1)
                 /\ t = sum[n]
  BY TimeSum
<1> HIDE DEF n, t
<1>3. t \in Int
  BY <1>1, <1>2
<1> QED
  BY <1>3 DEF t

LEMMA TimePlus ==
  ASSUME NEW b \in Bursting, NEW level \in 1..3, NEW k \in Int,
         NEW l \in 1..3, NEW h \in Int, NEW j \in Int, NEW d \in Int,
         Adds(b, level, k, l, h, j, d)
  PROVE  Scheduler!TimeAt(b, l, h) =
           Scheduler!TimeAt(b, level, k) + (IF j \in 1..Len(b) THEN d ELSE 0)
<1> DEFINE n == Len(b)
<1>1. n \in Nat /\ \A i \in 0 .. n - 1 : i \in 0..n /\ i + 1 \in 1..n
  BY DEF Bursting
<1>2. PICK f : /\ f[0] = 0 /\ \A i \in 0..Len(b) : f[i] \in Int
               /\ \A i \in 0 .. Len(b) - 1 : f[i + 1] = f[i] + Ran(b, level, k, i + 1)
               /\ Scheduler!TimeAt(b, level, k) = f[Len(b)]
  BY TimeSum
<1>3. PICK g : /\ g[0] = 0 /\ \A i \in 0..Len(b) : g[i] \in Int
               /\ \A i \in 0 .. Len(b) - 1 : g[i + 1] = g[i] + Ran(b, l, h, i + 1)
               /\ Scheduler!TimeAt(b, l, h) = g[Len(b)]
  BY TimeSum
<1>4. \A i \in 1..n : /\ Ran(b, l, h, i) \in Int /\ Ran(b, level, k, i) \in Int
                      /\ Ran(b, l, h, i) = Ran(b, level, k, i) + (IF i = j THEN d ELSE 0)
  BY RanIs DEF Adds
<1> DEFINE G == {i \in 0..n : g[i] = f[i] + (IF j \in 1..i THEN d ELSE 0)}
<1>5. 0 \in G
  <2>1. j \notin 1..0 /\ f[0] = 0 /\ g[0] = 0 /\ 0 \in 0..n
    BY <1>1, <1>2, <1>3
  <2> QED
    BY <2>1
<1>6. ASSUME NEW i \in 0 .. n - 1, i \in G PROVE i + 1 \in G
  <2>1. /\ i \in 0..n /\ i + 1 \in 1..n /\ i + 1 \in 0..n /\ f[i] \in Int /\ g[i] \in Int
        /\ f[i + 1] = f[i] + Ran(b, level, k, i + 1)
        /\ g[i + 1] = g[i] + Ran(b, l, h, i + 1)
        /\ g[i] = f[i] + (IF j \in 1..i THEN d ELSE 0)
        /\ Ran(b, l, h, i + 1) \in Int /\ Ran(b, level, k, i + 1) \in Int
        /\ Ran(b, l, h, i + 1) = Ran(b, level, k, i + 1) + (IF i + 1 = j THEN d ELSE 0)
    BY <1>1, <1>2, <1>3, <1>4, <1>6
  <2>2. g[i + 1] = f[i + 1] + (IF j \in 1 .. i + 1 THEN d ELSE 0)
    <3>1. CASE j = i + 1
      <4>1. j \notin 1..i /\ j \in 1 .. i + 1
        BY <3>1
      <4> QED
        BY <2>1, <3>1, <4>1
    <3>2. CASE j # i + 1
      <4>1. j \in 1..i <=> j \in 1 .. i + 1
        BY <3>2
      <4> QED
        BY <2>1, <3>2, <4>1
    <3> QED
      BY <3>1, <3>2
  <2> QED
    BY <2>1, <2>2
<1>7. n \in G
  <2> HIDE DEF G
  <2>1. \A i \in 0..n : i \in G
    BY <1>1, <1>5, <1>6, AfterEachTurn
  <2> QED
    BY <1>1, <2>1
<1> QED
  BY <1>2, <1>3, <1>7

-----------------------------------------------------------------------------
\* A queue holds the processes of A in the order of their numbers, with so much
\* left to run.
PCBs(n) == [pid : 1..n, remaining_time : Int]

InOrder(q, n, A, left) ==
    /\ q \in Seq(PCBs(n)) /\ A \subseteq 1..n
    /\ \A j, k \in 1..Len(q) : j < k => q[j].pid < q[k].pid
    /\ \A j \in 1..Len(q) : q[j].pid \in A /\ q[j].remaining_time = left[q[j].pid]
    /\ \A i \in A : \E j \in 1..Len(q) : q[j].pid = i

LEMMA ListEmpty ==
  ASSUME NEW n \in Nat, NEW q, NEW A, NEW left, InOrder(q, n, A, left)
  PROVE  q = <<>> <=> A = {}
<1>1. q \in Seq(PCBs(n)) /\ Len(q) \in Nat
  BY DEF InOrder
<1>2. ASSUME q = <<>> PROVE A = {}
  <2>1. Len(q) = 0
    BY <1>2
  <2> QED
    BY <2>1 DEF InOrder
<1>3. ASSUME q # <<>> PROVE A # {}
  <2>1. 1 \in 1..Len(q)
    BY <1>1, <1>3
  <2> QED
    BY <2>1 DEF InOrder
<1> QED
  BY <1>2, <1>3

LEMMA ListNone ==
  ASSUME NEW n \in Nat, NEW left
  PROVE  InOrder(<<>>, n, {}, left)
<1>1. <<>> \in Seq(PCBs(n)) /\ 1..Len(<<>>) = {}
  OBVIOUS
<1> QED
  BY <1>1 DEF InOrder

LEMMA ListHead ==
  ASSUME NEW n \in Nat, NEW q, NEW A, NEW left, InOrder(q, n, A, left), q # <<>>
  PROVE  /\ Head(q) \in PCBs(n) /\ Head(q).pid \in A
         /\ Head(q).remaining_time = left[Head(q).pid]
         /\ \A i \in A : Head(q).pid <= i
         /\ InOrder(Tail(q), n, A \ {Head(q).pid}, left)
<1> DEFINE t == Tail(q)
           h == Head(q)
<1>1. q \in Seq(PCBs(n)) /\ A \subseteq 1..n /\ Len(q) \in Nat \ {0} /\ 1 \in 1..Len(q)
  <2>1. q \in Seq(PCBs(n)) /\ A \subseteq 1..n
    BY DEF InOrder
  <2> QED
    BY <2>1
<1>2. h = q[1] /\ t \in Seq(PCBs(n)) /\ Len(t) = Len(q) - 1
      /\ \A j \in 1..Len(t) : t[j] = q[j + 1]
  BY <1>1, HeadTailProperties
<1>3. \A j \in 1..Len(q) : q[j] \in PCBs(n) /\ q[j].pid \in 1..n
  <2>1. \A j \in 1..Len(q) : q[j] \in PCBs(n)
    BY <1>1, ElementOfSeq
  <2> QED
    BY <2>1 DEF PCBs
<1>4. /\ \A j, k \in 1..Len(q) : j < k => q[j].pid < q[k].pid
      /\ \A j \in 1..Len(q) : q[j].pid \in A /\ q[j].remaining_time = left[q[j].pid]
      /\ \A i \in A : \E j \in 1..Len(q) : q[j].pid = i
  BY DEF InOrder
<1> HIDE DEF h, t
<1>5. h \in PCBs(n) /\ h.pid \in A /\ h.remaining_time = left[h.pid]
  BY <1>1, <1>2, <1>3, <1>4
<1>6. \A j \in 1..Len(q) : h.pid <= q[j].pid
  <2> SUFFICES ASSUME NEW j \in 1..Len(q) PROVE h.pid <= q[j].pid
    OBVIOUS
  <2>1. q[1].pid \in 1..n /\ q[j].pid \in 1..n
    BY <1>1, <1>3
  <2>2. CASE j = 1
    BY <1>2, <2>1, <2>2
  <2>3. CASE j # 1
    <3>1. 1 < j
      BY <2>3
    <3>2. q[1].pid < q[j].pid
      BY <1>1, <1>4, <3>1
    <3> QED
      BY <1>2, <2>1, <3>2
  <2> QED
    BY <2>2, <2>3
<1>7. \A i \in A : h.pid <= i
  BY <1>4, <1>6
<1>8. \A j \in 1..Len(t) : j + 1 \in 1..Len(q) /\ 1 < j + 1
  BY <1>1, <1>2
<1>9. InOrder(t, n, A \ {h.pid}, left)
  <2>1. \A j, k \in 1..Len(t) : j < k => t[j].pid < t[k].pid
    <3> SUFFICES ASSUME NEW j \in 1..Len(t), NEW k \in 1..Len(t), j < k PROVE t[j].pid < t[k].pid
      OBVIOUS
    <3>1. j + 1 < k + 1
      OBVIOUS
    <3> QED
      BY <1>2, <1>4, <1>8, <3>1
  <2>2. ASSUME NEW j \in 1..Len(t)
        PROVE  t[j].pid \in A \ {h.pid} /\ t[j].remaining_time = left[t[j].pid]
    <3>1. t[j] = q[j + 1] /\ j + 1 \in 1..Len(q) /\ 1 < j + 1
      BY <1>2, <1>8
    <3>2. q[1].pid < q[j + 1].pid /\ q[1].pid \in 1..n /\ q[j + 1].pid \in 1..n
      BY <1>1, <1>3, <1>4, <3>1
    <3>3. q[1].pid # q[j + 1].pid
      BY <3>2
    <3> QED
      BY <1>2, <1>4, <3>1, <3>3
  <2>3. ASSUME NEW i \in A \ {h.pid} PROVE \E j \in 1..Len(t) : t[j].pid = i
    <3>1. PICK j \in 1..Len(q) : q[j].pid = i
      BY <1>4
    <3>2. j # 1
      BY <1>2, <3>1
    <3>3. j - 1 \in 1..Len(t) /\ (j - 1) + 1 = j
      BY <1>1, <1>2, <3>2
    <3> QED
      BY <1>2, <3>1, <3>3
  <2> QED
    BY <1>1, <1>2, <2>1, <2>2, <2>3 DEF InOrder
<1> QED
  BY <1>5, <1>7, <1>9 DEF h, t

LEMMA ListAppend ==
  ASSUME NEW n \in Nat, NEW q, NEW A, NEW left, InOrder(q, n, A, left),
         NEW p \in PCBs(n), \A i \in A : i < p.pid, p.remaining_time = left[p.pid]
  PROVE  InOrder(Append(q, p), n, A \cup {p.pid}, left)
<1> DEFINE r == Append(q, p)
<1>1. q \in Seq(PCBs(n)) /\ A \subseteq 1..n /\ Len(q) \in Nat /\ p.pid \in 1..n
  BY DEF InOrder, PCBs
<1>2. /\ r \in Seq(PCBs(n)) /\ Len(r) = Len(q) + 1 /\ r[Len(q) + 1] = p
      /\ \A j \in 1..Len(q) : r[j] = q[j]
  BY <1>1, AppendProperties
<1>3. /\ \A j, k \in 1..Len(q) : j < k => q[j].pid < q[k].pid
      /\ \A j \in 1..Len(q) : q[j].pid \in A /\ q[j].remaining_time = left[q[j].pid]
      /\ \A i \in A : \E j \in 1..Len(q) : q[j].pid = i
  BY DEF InOrder
<1> HIDE DEF r
<1>4. /\ \A j \in 1..Len(r) : j \in 1..Len(q) \/ j = Len(q) + 1
      /\ 1..Len(q) \subseteq 1..Len(r) /\ Len(q) + 1 \in 1..Len(r)
  BY <1>1, <1>2
<1>5. ASSUME NEW j \in 1..Len(r), NEW k \in 1..Len(r), j < k PROVE r[j].pid < r[k].pid
  <2>1. j \in 1..Len(q)
    BY <1>1, <1>2, <1>5
  <2> QED
    BY <1>2, <1>3, <1>4, <1>5, <2>1
<1>6. ASSUME NEW j \in 1..Len(r)
      PROVE  r[j].pid \in A \cup {p.pid} /\ r[j].remaining_time = left[r[j].pid]
  BY <1>2, <1>3, <1>4
<1>7. ASSUME NEW i \in A \cup {p.pid} PROVE \E j \in 1..Len(r) : r[j].pid = i
  BY <1>2, <1>3, <1>4
<1>8. InOrder(r, n, A \cup {p.pid}, left)
  BY <1>1, <1>2, <1>5, <1>6, <1>7 DEF InOrder
<1> QED
  BY <1>8 DEF r
-----------------------------------------------------------------------------
Ends(n) == [pid : 1..n, at : Int]
SchedStates(n) == [queues : [1..3 -> Seq(PCBs(n))], time : Int, finished : Seq(Ends(n))]

\* A turn of the first process of queue q, which runs for so long.
After(s, q, run) ==
    LET p == Head(s.queues[q])
        rest == p.remaining_time - run
    IN  [queues |-> [r \in 1..3 |->
            IF r = q THEN Tail(s.queues[r])
            ELSE IF r = q + 1 /\ rest > 0
            THEN Append(s.queues[r], [pid |-> p.pid, remaining_time |-> rest])
            ELSE s.queues[r]],
         time |-> s.time + run,
         finished |-> IF rest > 0 THEN s.finished
                      ELSE Append(s.finished, [pid |-> p.pid, at |-> s.time + run])]

LEMMA SchedType ==
  ASSUME NEW n, NEW s \in SchedStates(n)
  PROVE  /\ s.queues \in [1..3 -> Seq(PCBs(n))] /\ s.time \in Int
         /\ s.finished \in Seq(Ends(n))
         /\ s = [queues |-> s.queues, time |-> s.time, finished |-> s.finished]
  BY DEF SchedStates

LEMMA RunIs ==
  ASSUME NEW n \in Nat, NEW s \in SchedStates(n), NEW q \in 1..2, NEW slice \in Int,
         s.queues[q] # <<>>
  PROVE  Scheduler!Run(s, q, slice) =
           After(s, q, Scheduler!Lesser(Head(s.queues[q]).remaining_time, slice))
<1> DEFINE p == Head(s.queues[q])
           run == Scheduler!Lesser(p.remaining_time, slice)
           later == [p EXCEPT !.remaining_time = @ - run]
           rest == p.remaining_time - run
           next == IF rest > 0 THEN Append(s.queues[q + 1], later) ELSE s.queues[q + 1]
           time == s.time + run
           finished == IF rest > 0 THEN s.finished
                       ELSE Append(s.finished, [pid |-> p.pid, at |-> s.time + run])
           queues == [[s.queues EXCEPT ![q] = Tail(s.queues[q])] EXCEPT ![q + 1] = next]
<1>1. /\ s.queues \in [1..3 -> Seq(PCBs(n))]
      /\ s = [queues |-> s.queues, time |-> s.time, finished |-> s.finished]
  BY SchedType
<1>2. q \in 1..3 /\ q + 1 \in 1..3 /\ q # q + 1
  OBVIOUS
<1>3. p \in PCBs(n)
  <2>1. s.queues[q] \in Seq(PCBs(n))
    BY <1>1, <1>2
  <2> QED
    BY <2>1
<1>4. later = [pid |-> p.pid, remaining_time |-> rest] /\ later.remaining_time = rest
  <2> HIDE DEF p, run
  <2> QED
    BY <1>3 DEF PCBs
<1>5. Scheduler!Run(s, q, slice) =
        [s EXCEPT !.queues = queues, !.time = time, !.finished = finished]
  <2>1. Scheduler!Run(s, q, slice) =
          [s EXCEPT !.queues[q] = Tail(@),
                    !.queues[q + 1] = IF later.remaining_time > 0
                                      THEN Append(@, later) ELSE @,
                    !.time = @ + run,
                    !.finished = IF later.remaining_time > 0 THEN @
                                 ELSE Append(@, [pid |-> p.pid, at |-> s.time + run])]
    BY DEF Scheduler!Run, Scheduler!Enqueue
  <2>2. [s.queues EXCEPT ![q] = Tail(s.queues[q])][q + 1] = s.queues[q + 1]
    BY <1>1, <1>2
  <2> HIDE DEF run, rest, p
  <2> QED
    BY <1>1, <1>4, <2>1, <2>2
<1>6. queues = [r \in 1..3 |->
            IF r = q THEN Tail(s.queues[r])
            ELSE IF r = q + 1 /\ rest > 0
            THEN Append(s.queues[r], later) ELSE s.queues[r]]
  <2> HIDE DEF rest, later
  <2> QED
    BY <1>1, <1>2
<1>7. Scheduler!Run(s, q, slice) = [queues |-> queues, time |-> time, finished |-> finished]
  <2> HIDE DEF queues, time, finished
  <2> QED
    BY <1>1, <1>5
<1> HIDE DEF queues
<1> QED
  BY <1>4, <1>6, <1>7 DEF After

LEMMA RunToEndIs ==
  ASSUME NEW n \in Nat, NEW s \in SchedStates(n), s.queues[3] # <<>>
  PROVE  Scheduler!RunToEnd(s) = After(s, 3, Head(s.queues[3]).remaining_time)
<1> DEFINE p == Head(s.queues[3])
           run == p.remaining_time
           queues == [s.queues EXCEPT ![3] = Tail(s.queues[3])]
           time == s.time + run
           finished == Append(s.finished, [pid |-> p.pid, at |-> s.time + run])
<1>1. /\ s.queues \in [1..3 -> Seq(PCBs(n))]
      /\ s = [queues |-> s.queues, time |-> s.time, finished |-> s.finished]
  BY SchedType
<1>2. p \in PCBs(n)
  <2>1. s.queues[3] \in Seq(PCBs(n))
    BY <1>1
  <2> QED
    BY <2>1
<1>3. ~(p.remaining_time - run > 0)
  BY <1>2 DEF PCBs
<1>4. Scheduler!RunToEnd(s) = [s EXCEPT !.queues = queues, !.time = time, !.finished = finished]
  BY <1>1 DEF Scheduler!RunToEnd
<1>5. Scheduler!RunToEnd(s) = [queues |-> queues, time |-> time, finished |-> finished]
  <2> HIDE DEF queues, time, finished
  <2> QED
    BY <1>1, <1>4
<1>6. queues = [r \in 1..3 |-> IF r = 3 THEN Tail(s.queues[r]) ELSE s.queues[r]]
  BY <1>1
<1> HIDE DEF queues
<1>7. queues = [r \in 1..3 |->
            IF r = 3 THEN Tail(s.queues[r])
            ELSE IF r = 3 + 1 /\ p.remaining_time - run > 0
            THEN Append(s.queues[r], [pid |-> p.pid, remaining_time |-> p.remaining_time - run])
            ELSE s.queues[r]]
  <2> HIDE DEF p, run
  <2> QED
    BY <1>3, <1>6
<1> QED
  BY <1>3, <1>5, <1>7 DEF After
-----------------------------------------------------------------------------
\* What is left to the processes of queue q, and who is in it when those up to k
\* have had their turn at a level and the others had theirs at the level before.
Left(b, q) == [i \in 1..Len(b) |-> b[i] - Scheduler!UpTo(q - 1, b[i])]

Members(b, level, k, q) ==
    {i \in 1..Len(b) : /\ Scheduler!UpTo(q - 1, b[i]) < b[i]
                       /\ (q = level /\ k < i) \/ (q = level + 1 /\ i <= k)}

Ended(s, i) == \E j \in 1..Len(s.finished) : s.finished[j].pid = i

EndsRight(b, s) ==
    /\ \A j \in 1..Len(s.finished) :
         s.finished[j].at = Scheduler!FinishTime(b, s.finished[j].pid)
    /\ \A i, j \in 1..Len(s.finished) : s.finished[i].pid = s.finished[j].pid => i = j

Reached(b, s, level, k) ==
    /\ s \in SchedStates(Len(b)) /\ EndsRight(b, s)
    /\ \A q \in 1..3 : InOrder(s.queues[q], Len(b), Members(b, level, k, q), Left(b, q))
    /\ s.time = Scheduler!TimeAt(b, level, k)
    /\ \A i \in 1..Len(b) : Ended(s, i) <=> Ran(b, level, k, i) = b[i]

LEMMA BurstIs ==
  ASSUME NEW b \in Bursting
  PROVE  Len(b) \in Nat /\ DOMAIN b = 1..Len(b) /\ \A i \in 1..Len(b) : b[i] \in Nat \ {0}
<1>1. \A i \in 1..Len(b) : b[i] \in Nat \ {0}
  BY ElementOfSeq DEF Bursting
<1> QED
  BY <1>1 DEF Bursting

\* Who finishes in the turn at a level finishes when the closed form says.
LEMMA LastLevel ==
  ASSUME NEW b \in Bursting, NEW level \in 1..3, NEW h \in 1..Len(b),
         Scheduler!UpTo(level - 1, b[h]) < b[h], Scheduler!UpTo(level, b[h]) = b[h]
  PROVE  Scheduler!FinishTime(b, h) = Scheduler!TimeAt(b, level, h)
<1> DEFINE x == b[h]
           Last1(l) == /\ Scheduler!UpTo(l, x) = x
                       /\ \A lower \in 1 .. l - 1 : Scheduler!UpTo(lower, x) # x
           last == CHOOSE l \in 1..3 : Last1(l)
<1>1. x \in Nat \ {0}
  BY BurstIs
<1>2. Scheduler!FinishTime(b, h) = Scheduler!TimeAt(b, last, h)
  BY DEF Scheduler!FinishTime
<1>3. Scheduler!UpTo(level - 1, x) < x /\ Scheduler!UpTo(level, x) = x
  OBVIOUS
<1> HIDE DEF x
<1>4. /\ \A l \in 0..3 : Scheduler!UpTo(l, x) \in 0..x
      /\ \A l \in 1..3 : Scheduler!UpTo(l - 1, x) = x => Scheduler!UpTo(l, x) = x
  BY <1>1, UpToIs
<1>5. \A l \in 0 .. level - 1 : Scheduler!UpTo(l, x) # x
  <2> DEFINE u == [l \in 0..3 |-> Scheduler!UpTo(l, x)]
  <2>1. \A l \in 0..3 : u[l] \in 0..x /\ u[l] = Scheduler!UpTo(l, x)
    BY <1>4
  <2>2. \A l \in 1..3 : l - 1 \in 0..3 /\ (u[l - 1] = x => u[l] = x)
    BY <1>4
  <2>3. level - 1 \in 0..2 /\ u[level - 1] # x /\ x \in Nat
    BY <1>1, <1>3, <1>4
  <2> HIDE DEF u
  <2>4. u[0] = x => u[1] = x
    BY <2>2
  <2>5. u[1] = x => u[2] = x
    BY <2>2
  <2>6. \A l \in 0 .. level - 1 : u[l] # x
    BY <2>3, <2>4, <2>5
  <2> QED
    BY <2>1, <2>6
<1>6. Last1(level)
  BY <1>3, <1>5
<1>7. \A l \in 1..3 : Last1(l) => l = level
  <2> SUFFICES ASSUME NEW l \in 1..3, Last1(l) PROVE l = level
    OBVIOUS
  <2>1. ~(l < level)
    BY <1>5
  <2>2. ~(level < l)
    BY <1>3
  <2> QED
    BY <2>1, <2>2
<1> HIDE DEF Last1
<1>8. last = level
  BY <1>6, <1>7
<1> QED
  BY <1>2, <1>8

\* When a queue is empty the next level begins.
LEMMA NextLevel ==
  ASSUME NEW b \in Bursting, NEW s, NEW level \in 1..2, NEW k \in 0..Len(b),
         Reached(b, s, level, k), s.queues[level] = <<>>
  PROVE  Reached(b, s, level + 1, 0)
<1> DEFINE n == Len(b)
<1>1. n \in Nat /\ \A i \in 1..n : b[i] \in Nat \ {0}
  BY BurstIs
<1>2. /\ level \in 1..3 /\ level + 1 \in 1..3 /\ level - 1 \in 0..3 /\ level \in 0..3
      /\ (level + 1) - 1 = level
  OBVIOUS
<1>3. \A i \in 1..n : k < i => Scheduler!UpTo(level - 1, b[i]) = b[i] /\ Scheduler!UpTo(level, b[i]) = b[i]
  <2> SUFFICES ASSUME NEW i \in 1..n, k < i
               PROVE  Scheduler!UpTo(level - 1, b[i]) = b[i] /\ Scheduler!UpTo(level, b[i]) = b[i]
    OBVIOUS
  <2>1. InOrder(s.queues[level], n, Members(b, level, k, level), Left(b, level))
    BY <1>2 DEF Reached
  <2>2. Members(b, level, k, level) = {}
    BY <1>1, <2>1, ListEmpty
  <2>3. ~(Scheduler!UpTo(level - 1, b[i]) < b[i])
    BY <2>2 DEF Members
  <2>4. b[i] \in Nat \ {0} /\ Scheduler!UpTo(level - 1, b[i]) \in 0..b[i]
    BY <1>1, <1>2, UpToIs
  <2>5. Scheduler!UpTo(level - 1, b[i]) = b[i]
    BY <2>3, <2>4
  <2> QED
    BY <1>2, <2>4, <2>5, UpToIs
<1>4. ASSUME NEW i \in 1..n PROVE Ran(b, level + 1, 0, i) = Ran(b, level, k, i)
  <2>1. ~(i <= 0) /\ (k < i <=> ~(i <= k))
    OBVIOUS
  <2>2. Ran(b, level + 1, 0, i) = Scheduler!UpTo(level, b[i])
    BY <1>2, <2>1 DEF Ran
  <2>3. CASE k < i
    BY <1>3, <2>1, <2>2, <2>3 DEF Ran
  <2>4. CASE ~(k < i)
    BY <2>1, <2>2, <2>4 DEF Ran
  <2> QED
    BY <2>3, <2>4
<1>5. Scheduler!TimeAt(b, level + 1, 0) = Scheduler!TimeAt(b, level, k)
  <2> DEFINE none == 0
             d == 0
             l == level + 1
             t == Scheduler!TimeAt(b, level, k)
  <2>1. /\ none \in Int /\ none = 0 /\ none \notin 1..n /\ l \in 1..3 /\ k \in Int
        /\ d \in Int /\ d = 0 /\ level \in 1..3
    BY <1>2
  <2>2. \A i \in 1..n : Ran(b, level, k, i) \in Int
    BY <1>2, <2>1, RanIs
  <2>3. t \in Int
    <3> HIDE DEF none, d, l
    <3> QED
      BY <2>1, TimeInt
  <2>4. Adds(b, level, k, l, none, none, d)
    BY <1>4, <2>1, <2>2 DEF Adds
  <2> HIDE DEF none, l, d, t
  <2>5. Scheduler!TimeAt(b, l, none) =
          Scheduler!TimeAt(b, level, k) + (IF none \in 1..Len(b) THEN d ELSE 0)
    BY <2>1, <2>4, TimePlus
  <2>6. Scheduler!TimeAt(b, l, none) = t
    BY <2>1, <2>3, <2>5 DEF t
  <2> QED
    BY <2>6 DEF none, l, t
<1>6. ASSUME NEW q \in 1..3 PROVE Members(b, level + 1, 0, q) = Members(b, level, k, q)
  <2>1. ASSUME NEW i \in 1..n
        PROVE  (/\ Scheduler!UpTo(q - 1, b[i]) < b[i]
                /\ (q = level + 1 /\ 0 < i) \/ (q = (level + 1) + 1 /\ i <= 0))
               <=> (/\ Scheduler!UpTo(q - 1, b[i]) < b[i]
                    /\ (q = level /\ k < i) \/ (q = level + 1 /\ i <= k))
    <3>1. 0 < i /\ ~(i <= 0) /\ (k < i <=> ~(i <= k)) /\ b[i] \in Nat
      BY <1>1
    <3>2. CASE q = level
      <4>1. q # level + 1 /\ q - 1 = level - 1
        BY <3>2
      <4>2. k < i => ~(Scheduler!UpTo(q - 1, b[i]) < b[i])
        BY <1>3, <3>1, <4>1
      <4> QED
        BY <3>1, <3>2, <4>1, <4>2
    <3>3. CASE q = level + 1
      <4>1. q # level /\ q - 1 = level
        BY <3>3
      <4>2. k < i => ~(Scheduler!UpTo(q - 1, b[i]) < b[i])
        BY <1>3, <3>1, <4>1
      <4> QED
        BY <3>1, <3>3, <4>1, <4>2
    <3>4. CASE q # level /\ q # level + 1
      BY <3>1, <3>4
    <3> QED
      BY <3>2, <3>3, <3>4
  <2> QED
    BY <2>1 DEF Members
<1> QED
  BY <1>4, <1>5, <1>6 DEF Reached
-----------------------------------------------------------------------------
\* The first of the queue of the level takes its turn.
Length(b, level, h) == Scheduler!UpTo(level, b[h]) - Scheduler!UpTo(level - 1, b[h])

LEMMA TurnServes ==
  ASSUME NEW b \in Bursting, NEW s, NEW level \in 1..3, NEW k \in 0..Len(b),
         Reached(b, s, level, k), s.queues[level] # <<>>
  PROVE  LET h == Head(s.queues[level]).pid
         IN  /\ h \in 1..Len(b) /\ k < h
             /\ Head(s.queues[level]).remaining_time = b[h] - Scheduler!UpTo(level - 1, b[h])
             /\ Reached(b, After(s, level, Length(b, level, h)), level, h)
<1> DEFINE n == Len(b)
           p == Head(s.queues[level])
           h == p.pid
           A == Members(b, level, k, level)
           run == Length(b, level, h)
           rest == p.remaining_time - run
           t == After(s, level, run)
           up == Scheduler!UpTo(level, b[h])
           before == Scheduler!UpTo(level - 1, b[h])
<1>1. n \in Nat /\ \A i \in 1..n : b[i] \in Nat \ {0}
  BY BurstIs
<1>2. level \in 0..3 /\ level - 1 \in 0..3 /\ (level + 1) - 1 = level /\ level # level + 1
  OBVIOUS
<1>3. /\ s \in SchedStates(n) /\ EndsRight(b, s)
      /\ \A q \in 1..3 : InOrder(s.queues[q], n, Members(b, level, k, q), Left(b, q))
      /\ s.time = Scheduler!TimeAt(b, level, k)
      /\ \A i \in 1..n : Ended(s, i) <=> Ran(b, level, k, i) = b[i]
  BY DEF Reached
<1>4. /\ s.queues \in [1..3 -> Seq(PCBs(n))] /\ s.time \in Int /\ s.finished \in Seq(Ends(n))
  BY <1>3, SchedType
<1>5. /\ p \in PCBs(n) /\ h \in A /\ p.remaining_time = Left(b, level)[h]
      /\ \A i \in A : h <= i
      /\ InOrder(Tail(s.queues[level]), n, A \ {h}, Left(b, level))
  <2> DEFINE q == s.queues[level]
             left == Left(b, level)
  <2>1. InOrder(q, n, A, left) /\ q # <<>> /\ p = Head(q)
    BY <1>3
  <2> HIDE DEF q, left, A, p
  <2>2. /\ Head(q) \in PCBs(n) /\ Head(q).pid \in A
        /\ Head(q).remaining_time = left[Head(q).pid]
        /\ \A i \in A : Head(q).pid <= i
        /\ InOrder(Tail(q), n, A \ {Head(q).pid}, left)
    BY <1>1, <2>1, ListHead
  <2> QED
    BY <2>1, <2>2 DEF q, left
<1> HIDE DEF p
<1>6. /\ h \in 1..n /\ k < h /\ before < b[h]
      /\ p.remaining_time = b[h] - before
  BY <1>5 DEF Members, Left
<1>7. b[h] \in Nat \ {0} /\ up \in 0..b[h] /\ before \in 0..b[h]
  BY <1>1, <1>2, <1>6, UpToIs
<1>8. run = up - before /\ run \in Int /\ rest = b[h] - up /\ rest \in Int /\ (rest > 0 <=> up # b[h])
  <2>1. run = up - before
    BY DEF Length
  <2> HIDE DEF run, up, before
  <2> QED
    BY <1>6, <1>7, <2>1, SMTT(30)
\* Those between k and h have nothing left.
<1>9. ASSUME NEW i \in 1..n, k < i, i < h
      PROVE  Scheduler!UpTo(level - 1, b[i]) = b[i] /\ Scheduler!UpTo(level, b[i]) = b[i]
  <2>1. i \notin A
    BY <1>5, <1>6, <1>9
  <2>2. ~(Scheduler!UpTo(level - 1, b[i]) < b[i])
    BY <1>9, <2>1 DEF Members
  <2>3. b[i] \in Nat \ {0} /\ Scheduler!UpTo(level - 1, b[i]) \in 0..b[i]
    BY <1>1, <1>2, UpToIs
  <2>4. Scheduler!UpTo(level - 1, b[i]) = b[i]
    BY <2>2, <2>3
  <2> QED
    BY <2>3, <2>4, UpToIs
<1>10. /\ t.time = s.time + run
       /\ t.queues = [q \in 1..3 |->
            IF q = level THEN Tail(s.queues[q])
            ELSE IF q = level + 1 /\ rest > 0
            THEN Append(s.queues[q], [pid |-> h, remaining_time |-> rest])
            ELSE s.queues[q]]
       /\ t.finished = IF rest > 0 THEN s.finished
                       ELSE Append(s.finished, [pid |-> h, at |-> s.time + run])
       /\ t = [queues |-> t.queues, time |-> t.time, finished |-> t.finished]
  BY DEF After, p
<1> HIDE DEF t, A, run, rest, up, before, h, n
<1>11. ASSUME NEW i \in 1..n
       PROVE  Ran(b, level, h, i) = Ran(b, level, k, i) + (IF i = h THEN run ELSE 0)
  <2>1. Ran(b, level, k, i) \in Int
    BY <1>6, RanIs DEF n
  <2>2. CASE i = h
    <3>1. i <= h /\ ~(i <= k)
      BY <1>6, <2>2
    <3>2. Ran(b, level, h, i) = up /\ Ran(b, level, k, i) = before
      BY <2>2, <3>1 DEF Ran, up, before
    <3> QED
      BY <1>7, <1>8, <2>2, <3>2
  <2>3. CASE i # h
    <3>1. Ran(b, level, h, i) = Ran(b, level, k, i)
      <4>1. CASE i <= k \/ h < i
        <5>1. i <= h <=> i <= k
          BY <1>6, <4>1
        <5> QED
          BY <5>1 DEF Ran
      <4>2. CASE k < i /\ i < h
        BY <1>9, <4>2 DEF Ran
      <4> QED
        BY <1>6, <2>3, <4>1, <4>2
    <3> QED
      BY <2>1, <2>3, <3>1
  <2> QED
    BY <2>2, <2>3
<1>12. t.time = Scheduler!TimeAt(b, level, h)
  <2>1. Adds(b, level, k, level, h, h, run)
    BY <1>11 DEF Adds, n
  <2>2. h \in Int /\ k \in Int /\ h \in 1..Len(b)
    BY <1>6 DEF n
  <2>3. Scheduler!TimeAt(b, level, h) =
          Scheduler!TimeAt(b, level, k) + (IF h \in 1..Len(b) THEN run ELSE 0)
    BY <1>8, <2>1, <2>2, TimePlus
  <2> QED
    BY <1>3, <1>10, <2>2, <2>3
<1>13. ASSUME NEW q \in 1..3
       PROVE  InOrder(t.queues[q], n, Members(b, level, h, q), Left(b, q))
  <2>1. CASE q = level
    <3>1. t.queues[q] = Tail(s.queues[level])
      BY <1>10, <2>1
    <3>2. Members(b, level, h, q) = A \ {h}
      <4>1. ASSUME NEW i \in Members(b, level, h, q) PROVE i \in A \ {h}
        <5>1. i \in 1..n /\ Scheduler!UpTo(level - 1, b[i]) < b[i] /\ h < i
          BY <2>1 DEF Members, n
        <5>2. k < i /\ i # h
          BY <1>6, <5>1
        <5> QED
          BY <5>1, <5>2 DEF A, Members, n
      <4>2. ASSUME NEW i \in A \ {h} PROVE i \in Members(b, level, h, q)
        <5>1. i \in 1..n /\ Scheduler!UpTo(level - 1, b[i]) < b[i] /\ h <= i /\ i # h
          BY <1>5 DEF A, Members, n
        <5>2. h < i
          BY <1>6, <5>1
        <5> QED
          BY <2>1, <5>1, <5>2 DEF Members, n
      <4> QED
        BY <4>1, <4>2
    <3> QED
      BY <1>5, <2>1, <3>1, <3>2
  <2>2. CASE q = level + 1
    <3> DEFINE B == Members(b, level, k, q)
               later == [pid |-> h, remaining_time |-> rest]
    <3>1. q - 1 = level /\ q # level /\ level + 1 \in 1..3
      BY <2>2
    <3>2. \A i \in B : i \in 1..n /\ Scheduler!UpTo(level, b[i]) < b[i] /\ i <= k
      BY <3>1 DEF Members, n
    <3>3. ASSUME NEW i \in 1..n
          PROVE  i \in Members(b, level, h, q) <=> i \in B \/ (i = h /\ rest > 0)
      <4>1. i \in Members(b, level, h, q) <=> Scheduler!UpTo(level, b[i]) < b[i] /\ i <= h
        BY <2>2, <3>1 DEF Members, n
      <4>2. i \in B <=> Scheduler!UpTo(level, b[i]) < b[i] /\ i <= k
        BY <2>2, <3>1 DEF Members, n
      <4>3. CASE i = h
        <5>1. i <= h /\ ~(i <= k)
          BY <1>6, <4>3
        <5>2. Scheduler!UpTo(level, b[i]) < b[i] <=> rest > 0
          BY <1>7, <1>8, <4>3 DEF up
        <5> QED
          BY <4>1, <4>2, <4>3, <5>1, <5>2
      <4>4. CASE k < i /\ i < h
        <5>1. Scheduler!UpTo(level, b[i]) = b[i] /\ b[i] \in Nat /\ i # h
          BY <1>1, <1>6, <1>9, <4>4
        <5> QED
          BY <4>1, <4>2, <5>1
      <4>5. CASE i <= k \/ h < i
        <5>1. (i <= k <=> i <= h) /\ i # h
          BY <1>6, <4>5
        <5> QED
          BY <4>1, <4>2, <5>1
      <4> QED
        BY <1>6, <4>3, <4>4, <4>5
    <3>4. B \subseteq 1..n /\ Members(b, level, h, q) \subseteq 1..n
      BY DEF Members, n
    <3>5. InOrder(s.queues[q], n, B, Left(b, q))
      BY <1>3
    <3> HIDE DEF B
    <3>6. CASE rest > 0
      <4>1. later \in PCBs(n) /\ later.pid = h /\ later.remaining_time = rest
        BY <1>6, <1>8 DEF PCBs
      <4>2. later.remaining_time = Left(b, q)[h]
        BY <1>6, <1>8, <3>1, <4>1 DEF Left, up, n
      <4>3. \A i \in B : i < later.pid
        BY <1>6, <3>2, <4>1
      <4>4. t.queues[q] = Append(s.queues[q], later)
        BY <1>10, <2>2, <3>1, <3>6
      <4>5. Members(b, level, h, q) = B \cup {h}
        BY <1>6, <3>3, <3>4, <3>6
      <4> HIDE DEF later
      <4>6. InOrder(Append(s.queues[q], later), n, B \cup {later.pid}, Left(b, q))
        BY <1>1, <3>5, <4>1, <4>2, <4>3, ListAppend
      <4> QED
        BY <4>1, <4>4, <4>5, <4>6
    <3>7. CASE ~(rest > 0)
      <4>1. t.queues[q] = s.queues[q]
        BY <1>10, <3>1, <3>7
      <4>2. Members(b, level, h, q) = B
        BY <3>3, <3>4, <3>7
      <4> QED
        BY <3>5, <4>1, <4>2
    <3> QED
      BY <3>6, <3>7
  <2>3. CASE q # level /\ q # level + 1
    <3>1. t.queues[q] = s.queues[q]
      BY <1>10, <2>3
    <3>2. Members(b, level, h, q) = Members(b, level, k, q)
      BY <2>3 DEF Members
    <3> QED
      BY <1>3, <3>1, <3>2
  <2> QED
    BY <2>1, <2>2, <2>3
<1>14. t \in SchedStates(n)
  <2>1. \A q \in 1..3 : t.queues[q] \in Seq(PCBs(n))
    BY <1>13 DEF InOrder
  <2>2. t.queues \in [1..3 -> Seq(PCBs(n))]
    BY <1>10, <2>1
  <2>3. t.time \in Int
    BY <1>4, <1>8, <1>10, SMTT(30)
  <2>4. t.finished \in Seq(Ends(n))
    <3> DEFINE e == [pid |-> h, at |-> s.time + run]
    <3>1. e \in Ends(n)
      BY <1>4, <1>6, <1>8 DEF Ends
    <3> HIDE DEF e
    <3>2. Append(s.finished, e) \in Seq(Ends(n))
      BY <1>4, <3>1
    <3> QED
      BY <1>4, <1>10, <3>2 DEF e
  <2> QED
    BY <1>10, <2>2, <2>3, <2>4 DEF SchedStates
<1>15. EndsRight(b, t) /\ \A i \in 1..n : Ended(t, i) <=> Ended(s, i) \/ (i = h /\ ~(rest > 0))
  <2>1. CASE rest > 0
    BY <1>3, <1>10, <2>1 DEF EndsRight, Ended
  <2>2. CASE ~(rest > 0)
    <3> DEFINE e == [pid |-> h, at |-> s.time + run]
               m0 == Len(s.finished)
    <3>1. t.finished = Append(s.finished, e)
      BY <1>10, <2>2
    <3>2. e.pid = h /\ e.at = Scheduler!FinishTime(b, h)
      <4>1. Scheduler!UpTo(level, b[h]) = b[h] /\ Scheduler!UpTo(level - 1, b[h]) < b[h]
        BY <1>6, <1>7, <1>8, <2>2 DEF up, before
      <4>2. Scheduler!FinishTime(b, h) = Scheduler!TimeAt(b, level, h)
        BY <1>6, <4>1, LastLevel DEF n
      <4> QED
        BY <1>10, <1>12, <4>2
    <3> HIDE DEF e
    <3>3. /\ Len(t.finished) = m0 + 1 /\ m0 \in Nat /\ t.finished[m0 + 1] = e
          /\ \A j \in 1..m0 : t.finished[j] = s.finished[j]
      BY <1>4, <3>1, AppendProperties
    <3> HIDE DEF m0
    <3>4. /\ \A j \in 1..Len(t.finished) : j \in 1..m0 \/ j = m0 + 1
          /\ 1..m0 \subseteq 1..Len(t.finished) /\ m0 + 1 \in 1..Len(t.finished)
      BY <3>3
    <3>5. ~Ended(s, h)
      <4>1. Ran(b, level, k, h) = before
        BY <1>6 DEF Ran, before
      <4> QED
        BY <1>3, <1>6, <1>7, <4>1
    <3>6. /\ \A j \in 1..m0 : s.finished[j].at = Scheduler!FinishTime(b, s.finished[j].pid)
          /\ \A i, j \in 1..m0 : s.finished[i].pid = s.finished[j].pid => i = j
          /\ \A j \in 1..m0 : s.finished[j].pid # h
      BY <1>3, <3>5 DEF EndsRight, Ended, m0
    <3>7. EndsRight(b, t)
      <4>1. \A j \in 1..Len(t.finished) :
              t.finished[j].at = Scheduler!FinishTime(b, t.finished[j].pid)
        BY <3>2, <3>3, <3>4, <3>6
      <4>2. \A i, j \in 1..Len(t.finished) : t.finished[i].pid = t.finished[j].pid => i = j
        BY <3>2, <3>3, <3>4, <3>6
      <4> QED
        BY <4>1, <4>2 DEF EndsRight
    <3>8. ASSUME NEW i \in 1..n PROVE Ended(t, i) <=> Ended(s, i) \/ i = h
      BY <3>2, <3>3, <3>4 DEF Ended, m0
    <3> QED
      BY <2>2, <3>7, <3>8
  <2> QED
    BY <2>1, <2>2
<1>16. ASSUME NEW i \in 1..n PROVE Ended(t, i) <=> Ran(b, level, h, i) = b[i]
  <2>1. CASE i = h
    <3>1. i <= h /\ ~(i <= k)
      BY <1>6, <2>1
    <3>2. Ran(b, level, h, i) = up /\ Ran(b, level, k, i) = before
      BY <2>1, <3>1 DEF Ran, up, before
    <3> QED
      BY <1>3, <1>6, <1>7, <1>8, <1>15, <2>1, <3>2
  <2>2. CASE i # h
    <3>1. Ran(b, level, k, i) \in Int
      BY <1>6, RanIs DEF n
    <3>2. Ran(b, level, h, i) = Ran(b, level, k, i)
      BY <1>11, <2>2, <3>1
    <3> QED
      BY <1>3, <1>15, <2>2, <3>2
  <2> QED
    BY <2>1, <2>2
<1>17. Reached(b, t, level, h)
  BY <1>12, <1>13, <1>14, <1>15, <1>16 DEF Reached, n
<1> QED
  BY <1>6, <1>17 DEF h, p, n, t, run, before
-----------------------------------------------------------------------------
\* All have finished when as many have as there are.
LEMMA AllEnded ==
  ASSUME NEW b \in Bursting, NEW s \in SchedStates(Len(b)), EndsRight(b, s)
  PROVE  Len(s.finished) = Len(b) <=> \A i \in 1..Len(b) : Ended(s, i)
<1> DEFINE n == Len(b)
           l == Len(s.finished)
           f == [j \in 1..l |-> s.finished[j].pid]
<1>1. n \in Nat /\ l \in Nat /\ s.finished \in Seq(Ends(n))
  <2>1. s.finished \in Seq(Ends(n))
    BY SchedType
  <2> QED
    BY <2>1, BurstIs
<1>2. \A j \in 1..l : s.finished[j].pid \in 1..n
  <2>1. \A j \in 1..l : s.finished[j] \in Ends(n)
    BY <1>1, ElementOfSeq
  <2> QED
    BY <2>1 DEF Ends
<1>3. \A i, j \in 1..l : s.finished[i].pid = s.finished[j].pid => i = j
  BY DEF EndsRight
<1>4. \A i \in 1..n : Ended(s, i) <=> \E j \in 1..l : f[j] = i
  BY DEF Ended
<1>5. f \in [1..l -> 1..n] /\ \A i, j \in 1..l : f[i] = f[j] => i = j
  BY <1>2, <1>3
<1> HIDE DEF f, l, n
<1>6. f \in Injection(1..l, 1..n)
  BY <1>5, Fun_IsInj
<1>7. \A x \in Nat : IsFiniteSet(1..x) /\ Cardinality(1..x) = x
  <2> SUFFICES ASSUME NEW x \in Nat PROVE IsFiniteSet(1..x) /\ Cardinality(1..x) = x
    OBVIOUS
  <2> DEFINE low == 1
  <2>1. low \in Int /\ low = 1
    OBVIOUS
  <2> HIDE DEF low
  <2>2. IsFiniteSet(low..x) /\ Cardinality(low..x) = IF low > x THEN 0 ELSE x - low + 1
    BY <2>1, FS_Interval
  <2>3. (IF low > x THEN 0 ELSE x - low + 1) = x
    BY <2>1
  <2> QED
    BY <2>2, <2>3 DEF low
<1>8. Cardinality(1..l) = Cardinality(1..n) <=> f \in Surjection(1..l, 1..n)
  BY <1>1, <1>6, <1>7, FS_Injection
<1>9. f \in Surjection(1..l, 1..n) <=> \A i \in 1..n : \E j \in 1..l : f[j] = i
  BY <1>5 DEF Surjection
<1>10. l = n <=> \A i \in 1..n : Ended(s, i)
  BY <1>1, <1>4, <1>7, <1>8, <1>9
<1> QED
  BY <1>10 DEF l, n

\* Which queue a turn serves.
LEMMA ServesFirst ==
  ASSUME NEW b \in Bursting, NEW s, NEW level \in 1..3, NEW k \in 0..Len(b),
         Reached(b, s, level, k), s.queues[level] # <<>>, Len(s.finished) # Len(b)
  PROVE  \E j \in 1..Len(b) : k < j /\ Reached(b, Scheduler!TurnOf(s, Len(b)), level, j)
<1> DEFINE n == Len(b)
           p == Head(s.queues[level])
           h == p.pid
           run == Length(b, level, h)
<1>1. /\ h \in 1..n /\ k < h
      /\ p.remaining_time = b[h] - Scheduler!UpTo(level - 1, b[h])
      /\ Reached(b, After(s, level, run), level, h)
  BY TurnServes
<1>2. /\ n \in Nat /\ b[h] \in Nat \ {0} /\ s \in SchedStates(n)
      /\ \A q \in 1..3 : InOrder(s.queues[q], n, Members(b, level, k, q), Left(b, q))
  BY <1>1, BurstIs DEF Reached
<1>3. ASSUME NEW q \in 1..3, q < level PROVE s.queues[q] = <<>>
  <2>1. Members(b, level, k, q) = {}
    BY <1>3 DEF Members
  <2> QED
    BY <1>2, <2>1, ListEmpty
<1>4. Scheduler!TurnOf(s, n) = IF level = 1 THEN Scheduler!Run(s, 1, TIME_SLICE_Q1)
                               ELSE IF level = 2 THEN Scheduler!Run(s, 2, TIME_SLICE_Q2)
                               ELSE Scheduler!RunToEnd(s)
  <2>1. level = 1 \/ level = 2 \/ level = 3
    OBVIOUS
  <2>2. level = 2 => s.queues[1] = <<>>
    BY <1>3
  <2>3. level = 3 => s.queues[1] = <<>> /\ s.queues[2] = <<>>
    BY <1>3
  <2> QED
    BY <2>1, <2>2, <2>3 DEF Scheduler!TurnOf
<1>5. Scheduler!TurnOf(s, n) = After(s, level, run)
  <2> HIDE DEF p, h, n, run
  <2>1. CASE level \in 1..2
    <3> DEFINE slice == IF level = 1 THEN TIME_SLICE_Q1 ELSE TIME_SLICE_Q2
    <3>1. slice \in Int
      BY SlicesAssumption
    <3>2. Scheduler!TurnOf(s, n) = Scheduler!Run(s, level, slice)
      BY <1>4, <2>1
    <3>3. Scheduler!Lesser(p.remaining_time, slice) = run
      <4>1. run = Scheduler!Lesser(b[h] - Scheduler!UpTo(level - 1, b[h]), slice)
        BY <1>2, <2>1, TurnLasts DEF run, Length
      <4> QED
        BY <1>1, <4>1
    <3> HIDE DEF slice
    <3>4. Scheduler!Run(s, level, slice) =
            After(s, level, Scheduler!Lesser(Head(s.queues[level]).remaining_time, slice))
      BY <1>2, <2>1, <3>1, RunIs
    <3> QED
      BY <3>2, <3>3, <3>4 DEF p
  <2>2. CASE level = 3
    <3>1. Scheduler!RunToEnd(s) = After(s, 3, Head(s.queues[3]).remaining_time)
      BY <1>2, <2>2, RunToEndIs
    <3>2. run = p.remaining_time
      BY <1>1, <1>2, <2>2, UpToIs DEF run, Length
    <3> QED
      BY <1>4, <2>2, <3>1, <3>2 DEF p
  <2> QED
    BY <2>1, <2>2
<1> HIDE DEF run, h, p
<1>6. Reached(b, Scheduler!TurnOf(s, n), level, h)
  BY <1>1, <1>5
<1> QED
  BY <1>1, <1>6

\* Somebody who has not finished is in the queue of the level or in the next.
LEMMA SomebodyWaits ==
  ASSUME NEW b \in Bursting, NEW s, NEW level \in 1..3, NEW k \in 0..Len(b),
         Reached(b, s, level, k), Len(s.finished) # Len(b)
  PROVE  s.queues[level] # <<>> \/ (level \in 1..2 /\ s.queues[level + 1] # <<>>)
<1> DEFINE n == Len(b)
<1>1. /\ n \in Nat /\ s \in SchedStates(n) /\ EndsRight(b, s)
      /\ \A q \in 1..3 : InOrder(s.queues[q], n, Members(b, level, k, q), Left(b, q))
      /\ \A i \in 1..n : Ended(s, i) <=> Ran(b, level, k, i) = b[i]
  BY BurstIs DEF Reached
<1>2. PICK i \in 1..n : Ran(b, level, k, i) # b[i]
  BY <1>1, AllEnded
<1>3. b[i] \in Nat \ {0} /\ Ran(b, level, k, i) < b[i]
  BY <1>2, RanIs
<1>4. CASE k < i
  <2>1. ~(i <= k)
    BY <1>4
  <2>2. Scheduler!UpTo(level - 1, b[i]) < b[i]
    BY <1>3, <2>1 DEF Ran
  <2>3. i \in Members(b, level, k, level)
    BY <1>4, <2>2 DEF Members
  <2> QED
    BY <1>1, <2>3, ListEmpty
<1>5. CASE ~(k < i)
  <2>1. i <= k
    BY <1>5
  <2>2. Scheduler!UpTo(level, b[i]) < b[i]
    BY <1>3, <2>1 DEF Ran
  <2>3. level # 3
    <3>1. ASSUME level = 3 PROVE FALSE
      <4>1. Scheduler!UpTo(3, b[i]) < b[i] /\ Scheduler!UpTo(3, b[i]) = b[i]
        BY <1>3, <2>2, <3>1, UpToIs
      <4> QED
        BY <1>3, <4>1
    <3> QED
      BY <3>1
  <2>4. level + 1 \in 1..3 /\ (level + 1) - 1 = level /\ level \in 1..2
    BY <2>3
  <2>5. i \in Members(b, level, k, level + 1)
    BY <2>1, <2>2, <2>4 DEF Members
  <2>6. s.queues[level + 1] # <<>>
    BY <1>1, <2>4, <2>5, ListEmpty
  <2> QED
    BY <2>4, <2>6
<1> QED
  BY <1>4, <1>5

-----------------------------------------------------------------------------
\* How many turns there have been at least.
TurnsBy(n, level, k) == (IF level = 1 THEN 0 ELSE IF level = 2 THEN n ELSE n + n) + k

\* Every turn but those after the last has finished is somebody's.
Progress(b, s, turn) ==
    \E level \in 1..3, k \in 0..Len(b) :
        Reached(b, s, level, k) /\ (Len(s.finished) = Len(b) \/ TurnsBy(Len(b), level, k) >= turn)

LEMMA TurnProgress ==
  ASSUME NEW b \in Bursting, NEW s, NEW turn \in Nat, Progress(b, s, turn)
  PROVE  Progress(b, Scheduler!TurnOf(s, Len(b)), turn + 1)
<1> DEFINE n == Len(b)
           t == Scheduler!TurnOf(s, n)
<1>1. PICK level \in 1..3, k \in 0..n :
         Reached(b, s, level, k) /\ (Len(s.finished) = n \/ TurnsBy(n, level, k) >= turn)
  BY DEF Progress
<1>2. n \in Nat
  BY BurstIs
<1>3. CASE Len(s.finished) = n
  <2>1. t = s
    BY <1>3 DEF Scheduler!TurnOf
  <2> QED
    BY <1>1, <1>3, <2>1 DEF Progress
<1>4. CASE Len(s.finished) # n /\ s.queues[level] # <<>>
  <2> HIDE DEF t
  <2>1. PICK h \in 1..n : k < h /\ Reached(b, t, level, h)
    BY <1>1, <1>4, ServesFirst DEF t
  <2>2. TurnsBy(n, level, h) >= turn + 1 /\ h \in 0..n
    BY <1>1, <1>2, <1>4, <2>1 DEF TurnsBy
  <2> QED
    BY <2>1, <2>2 DEF Progress, t
<1>5. CASE Len(s.finished) # n /\ s.queues[level] = <<>>
  <2> HIDE DEF t
  <2> DEFINE l == level + 1
             none == 0
  <2>1. level \in 1..2 /\ s.queues[l] # <<>>
    BY <1>1, <1>5, SomebodyWaits
  <2>2. Reached(b, s, l, none)
    BY <1>1, <1>5, <2>1, NextLevel
  <2>3. l \in 1..3 /\ none \in 0..n
    BY <1>2, <2>1
  <2> HIDE DEF l, none
  <2>4. PICK h \in 1..n : none < h /\ Reached(b, t, l, h)
    BY <1>5, <2>1, <2>2, <2>3, ServesFirst DEF t
  <2>5. TurnsBy(n, l, h) >= turn + 1 /\ h \in 0..n
    BY <1>1, <1>2, <1>5, <2>1, <2>4 DEF TurnsBy, l
  <2> QED
    BY <2>3, <2>4, <2>5 DEF Progress, t
<1> QED
  BY <1>3, <1>4, <1>5
-----------------------------------------------------------------------------
\* Before the first turn.
LEMMA StartReached ==
  ASSUME NEW b \in Bursting
  PROVE  Reached(b, Scheduler!Start(b), 1, 0) /\ Scheduler!Start(b).finished = <<>>
<1> DEFINE n == Len(b)
           s == Scheduler!Start(b)
           all == [pid \in 1..n |-> [pid |-> pid, remaining_time |-> b[pid]]]
           level == 1
           none == 0
<1>1. n \in Nat /\ \A i \in 1..n : b[i] \in Nat \ {0}
  BY BurstIs
<1>2. /\ s.queues = <<all, <<>>, <<>>>> /\ s.time = 0 /\ s.finished = <<>>
      /\ s = [queues |-> s.queues, time |-> s.time, finished |-> s.finished]
  BY DEF Scheduler!Start
<1>3. /\ \A i \in 1..n : all[i] \in PCBs(n) /\ all[i].pid = i /\ all[i].remaining_time = b[i]
      /\ all \in Seq(PCBs(n)) /\ Len(all) = n
  <2>1. \A i \in 1..n : all[i] \in PCBs(n) /\ all[i].pid = i /\ all[i].remaining_time = b[i]
    BY <1>1 DEF PCBs
  <2> QED
    BY <1>1, <2>1, IsASeq
<1>4. \A i \in 1..n : Scheduler!UpTo(0, b[i]) = 0 /\ 0 < b[i] /\ 0 # b[i]
  BY <1>1, UpToIs, SMTT(30)
<1>5. level \in 1..3 /\ none \in 0..n /\ none \in Int /\ level = 1 /\ none = 0
  BY <1>1
<1>6. \A i \in 1..n : Ran(b, level, none, i) = 0
  <2>1. \A i \in 1..n : ~(i <= none) /\ level - 1 = 0
    BY <1>5
  <2> QED
    BY <1>4, <2>1 DEF Ran
<1> HIDE DEF all, s
<1>7. s.queues \in [1..3 -> Seq(PCBs(n))] /\ s.queues[1] = all /\ s.queues[2] = <<>> /\ s.queues[3] = <<>>
  <2>1. <<>> \in Seq(PCBs(n))
    OBVIOUS
  <2>2. s.queues[1] = all /\ s.queues[2] = <<>> /\ s.queues[3] = <<>>
    BY <1>2
  <2>3. s.queues = [q \in 1..3 |-> s.queues[q]]
    BY <1>2
  <2>4. ASSUME NEW q \in 1..3 PROVE s.queues[q] \in Seq(PCBs(n))
    <3>1. q = 1 \/ q = 2 \/ q = 3
      OBVIOUS
    <3> QED
      BY <1>3, <2>1, <2>2, <3>1
  <2> QED
    BY <2>2, <2>3, <2>4
<1>8. <<>> \in Seq(Ends(n)) /\ 1..Len(<<>>) = {}
  OBVIOUS
<1>9. s \in SchedStates(n)
  BY <1>2, <1>7, <1>8 DEF SchedStates
<1>10. EndsRight(b, s) /\ \A i \in 1..n : ~Ended(s, i)
  BY <1>2, <1>8 DEF EndsRight, Ended
<1>11. Scheduler!TimeAt(b, level, none) = 0
  <2> HIDE DEF level, none
  <2>1. PICK sum : /\ sum[0] = 0
                   /\ \A i \in 0 .. n - 1 : sum[i + 1] = sum[i] + Ran(b, level, none, i + 1)
                   /\ Scheduler!TimeAt(b, level, none) = sum[n]
    BY <1>5, TimeSum
  <2> DEFINE G == {i \in 0..n : sum[i] = 0}
  <2>2. 0 \in G
    BY <1>1, <2>1
  <2>3. ASSUME NEW i \in 0 .. n - 1, i \in G PROVE i + 1 \in G
    <3>1. i + 1 \in 1..n /\ i + 1 \in 0..n
      BY <1>1
    <3>2. sum[i] = 0 /\ Ran(b, level, none, i + 1) = 0 /\ sum[i + 1] = sum[i] + Ran(b, level, none, i + 1)
      BY <1>6, <2>1, <2>3, <3>1
    <3> QED
      BY <3>1, <3>2
  <2>4. n \in G
    <3> HIDE DEF G
    <3>1. \A i \in 0..n : i \in G
      BY <1>1, <2>2, <2>3, AfterEachTurn
    <3> QED
      BY <1>1, <3>1
  <2> QED
    BY <2>1, <2>4
<1>12. ASSUME NEW q \in 1..3
       PROVE  InOrder(s.queues[q], n, Members(b, level, none, q), Left(b, q))
  <2>1. CASE q = 1
    <3>1. Members(b, level, none, q) = 1..n
      <4>1. q - 1 = 0 /\ q = level /\ \A i \in 1..n : none < i
        BY <1>5, <2>1
      <4> QED
        BY <1>4, <4>1 DEF Members
    <3>2. \A i \in 1..n : Left(b, q)[i] = b[i]
      <4>1. q - 1 = 0
        BY <2>1
      <4> QED
        BY <1>1, <1>4, <4>1 DEF Left
    <3> QED
      BY <1>3, <1>7, <2>1, <3>1, <3>2 DEF InOrder
  <2>2. CASE q # 1
    <3>1. Members(b, level, none, q) = {}
      <4>1. q # level /\ \A i \in 1..n : ~(i <= none)
        BY <1>5, <2>2
      <4> QED
        BY <4>1 DEF Members
    <3>2. s.queues[q] = <<>>
      BY <1>7, <2>2
    <3> QED
      BY <1>1, <3>1, <3>2, ListNone
  <2> QED
    BY <2>1, <2>2
<1>13. \A i \in 1..n : Ran(b, level, none, i) # b[i]
  BY <1>4, <1>6
<1> QED
  BY <1>2, <1>9, <1>10, <1>11, <1>12, <1>13 DEF Reached, s

\* All the turns.
LEMMA ScheduleIs ==
  ASSUME NEW b \in Bursting
  PROVE  Progress(b, Scheduler!Schedule(b), 3 * Len(b))
<1> DEFINE n == Len(b)
           last == 3 * n
           base == Scheduler!Start(b)
           T == {s \in SchedStates(n) : \E turn \in Nat : Progress(b, s, turn)}
           next == [z \in (0 .. last - 1) \X T |-> Scheduler!TurnOf(z[2], n)]
           F(f) == [k \in 0..last |-> IF k = 0 THEN base ELSE Scheduler!TurnOf(f[k - 1], n)]
           after == CHOOSE f : f = F(f)
<1>1. n \in Nat /\ last \in Nat
  BY BurstIs
<1>2. /\ \A k \in 0 .. last - 1 : k \in 0..last /\ k \in Nat /\ k + 1 \in 0..last /\ k + 1 # 0 /\ (k + 1) - 1 = k
      /\ 0 \in 0..last /\ last \in 0..last
  BY <1>1
<1>3. \A s, turn : Progress(b, s, turn) => s \in SchedStates(n)
  BY DEF Progress, Reached
<1>4. Progress(b, base, 0)
  <2>1. Reached(b, base, 1, 0)
    BY StartReached
  <2>2. TurnsBy(n, 1, 0) >= 0 /\ 1 \in 1..3 /\ 0 \in 0..n
    BY <1>1 DEF TurnsBy
  <2> QED
    BY <2>1, <2>2 DEF Progress
<1>5. Scheduler!Schedule(b) = after[last]
  BY DEF Scheduler!Schedule
<1>6. \A s \in T : Scheduler!TurnOf(s, n) \in T
  <2> SUFFICES ASSUME NEW s \in T PROVE Scheduler!TurnOf(s, n) \in T
    OBVIOUS
  <2>1. PICK turn \in Nat : Progress(b, s, turn)
    OBVIOUS
  <2>2. Progress(b, Scheduler!TurnOf(s, n), turn + 1) /\ turn + 1 \in Nat
    BY <2>1, TurnProgress
  <2>3. Scheduler!TurnOf(s, n) \in SchedStates(n)
    BY <1>3, <2>2
  <2> QED
    BY <2>2, <2>3
<1>7. base \in T
  BY <1>3, <1>4
<1> HIDE DEF T, n, base, last
<1>8. next \in [(0 .. last - 1) \X T -> T]
  BY <1>6
<1>9. PICK u \in [0..last -> T] : Turns(u, last, base, next)
  <2> HIDE DEF next
  <2> QED
    BY <1>1, <1>7, <1>8, TurnsExist
<1>10. u = F(u)
  <2>1. ASSUME NEW k \in 0..last, k # 0
        PROVE  next[<<k - 1, u[k - 1]>>] = Scheduler!TurnOf(u[k - 1], n)
    <3>1. k - 1 \in 0 .. last - 1 /\ k - 1 \in 0..last
      BY <1>1, <2>1
    <3>2. <<k - 1, u[k - 1]>> \in (0 .. last - 1) \X T
      BY <3>1
    <3> QED
      BY <3>1, <3>2
  <2> HIDE DEF next
  <2> QED
    BY <1>9, <2>1 DEF Turns
<1>11. after = F(after)
  <2> HIDE DEF F
  <2> QED
    BY <1>10
<1> HIDE DEF after
<1>12. after[0] = base /\ \A k \in 0 .. last - 1 : after[k + 1] = Scheduler!TurnOf(after[k], n)
  <2>1. \A k \in 0..last : after[k] = IF k = 0 THEN base ELSE Scheduler!TurnOf(after[k - 1], n)
    BY <1>11
  <2> QED
    BY <1>2, <2>1
<1> DEFINE G == {k \in 0..last : Progress(b, after[k], k)}
<1>13. 0 \in G
  BY <1>2, <1>4, <1>12
<1>14. ASSUME NEW k \in 0 .. last - 1, k \in G PROVE k + 1 \in G
  <2> DEFINE s == after[k]
  <2>1. k \in Nat /\ Progress(b, s, k) /\ after[k + 1] = Scheduler!TurnOf(s, n)
    BY <1>2, <1>12, <1>14
  <2> HIDE DEF s
  <2>2. Progress(b, Scheduler!TurnOf(s, Len(b)), k + 1)
    BY <2>1, TurnProgress
  <2> QED
    BY <1>2, <2>1, <2>2 DEF n
<1>15. last \in G
  <2> HIDE DEF G
  <2>1. \A k \in 0..last : k \in G
    BY <1>1, <1>13, <1>14, AfterEachTurn
  <2> QED
    BY <1>2, <2>1
<1> QED
  BY <1>5, <1>15 DEF last, n

LEMMA EveryoneEnds ==
  ASSUME NEW b \in Bursting, NEW s, Progress(b, s, 3 * Len(b))
  PROVE  /\ s \in SchedStates(Len(b)) /\ EndsRight(b, s) /\ Len(s.finished) = Len(b)
         /\ \A i \in 1..Len(b) : Ended(s, i)
<1> DEFINE n == Len(b)
<1>1. n \in Nat
  BY BurstIs
<1>2. PICK level \in 1..3, k \in 0..n :
         Reached(b, s, level, k) /\ (Len(s.finished) = n \/ TurnsBy(n, level, k) >= 3 * n)
  BY DEF Progress
<1>3. s \in SchedStates(n) /\ EndsRight(b, s)
  BY <1>2 DEF Reached
<1>4. CASE Len(s.finished) = n
  BY <1>3, <1>4, AllEnded
<1>5. CASE TurnsBy(n, level, k) >= 3 * n
  <2>1. (level = 3 /\ k = n) \/ n = 0
    BY <1>1, <1>2, <1>5 DEF TurnsBy
  <2>2. ASSUME NEW i \in 1..n PROVE Ended(s, i)
    <3>1. level = 3 /\ i <= k
      BY <1>1, <2>1
    <3>2. b[i] \in Nat \ {0}
      BY BurstIs
    <3>3. Ran(b, level, k, i) = b[i]
      BY <3>1, <3>2, UpToIs DEF Ran
    <3> QED
      BY <1>2, <3>3 DEF Reached
  <2>3. Len(s.finished) = n
    BY <1>3, <2>2, AllEnded
  <2> QED
    BY <1>3, <2>2, <2>3
<1> QED
  BY <1>2, <1>4, <1>5

\* simulate_scheduler of src/lab10/q2, for any slices and any bursts: no process is
\* lost between two queues, the processor is never idle while somebody is left, and
\* every process finishes when its level and its place among the others say.
THEOREM NobodyLost == MCSpec => []ScheduleRight
<1>1. InputOK => ScheduleRight
  <2> SUFFICES ASSUME program = "scheduler", input \in Bursting PROVE ScheduleRight
    BY DEF InputOK, ScheduleRight, Bursting
  <2> DEFINE s == Scheduler!Schedule(input)
             n == Len(input)
  <2>1. /\ s \in SchedStates(n) /\ EndsRight(input, s) /\ Len(s.finished) = n
        /\ \A i \in 1..n : Ended(s, i)
    BY ScheduleIs, EveryoneEnds
  <2> HIDE DEF s
  <2>2. DOMAIN s.finished = 1..n /\ DOMAIN input = 1..n /\ \A j \in 1..n : s.finished[j].pid \in 1..n
    <3>1. s.finished \in Seq(Ends(n))
      BY <2>1, SchedType
    <3>2. \A j \in 1..Len(s.finished) : s.finished[j] \in Ends(n)
      BY <3>1, ElementOfSeq
    <3>3. DOMAIN s.finished = 1..Len(s.finished)
      BY <3>1
    <3> QED
      BY <2>1, <3>2, <3>3, BurstIs DEF Ends
  <2>3. {s.finished[i].pid : i \in DOMAIN s.finished} = DOMAIN input
    BY <2>1, <2>2 DEF Ended
  <2>4. \A i \in DOMAIN s.finished :
          s.finished[i].at = Scheduler!FinishTime(input, s.finished[i].pid)
    BY <2>1, <2>2 DEF EndsRight
  <2> QED
    BY <2>1, <2>3, <2>4 DEF ScheduleRight, s
<1> QED
  BY <1>1, Typed, PTL

-----------------------------------------------------------------------------
(***************************************************************************)
(* The child threads, for any int.                                         *)
(***************************************************************************)
Modulus == 2 * (IntMax + 1)

\* Equal up to overflow.
Same(x, y) == \E k \in Int : x = y + Modulus * k

LEMMA SameIs ==
  ASSUME NEW x \in Int, NEW y \in Int, Same(x, y)
  PROVE  (x - y) % Modulus = 0
<1>1. Modulus \in Nat \ {0}
  BY ThreadsAssumption DEF Modulus
<1>2. PICK k \in Int : x = y + Modulus * k
  BY DEF Same
<1> HIDE DEF Modulus
<1>3. x - y = Modulus * k
  BY <1>1, <1>2
<1>4. (Modulus * k) % Modulus = 0
  BY <1>1
<1> QED
  BY <1>3, <1>4

LEMMA SameTwice ==
  ASSUME NEW x \in Int, NEW y \in Int, NEW z \in Int, Same(x, y), Same(y, z)
  PROVE  Same(x, z)
<1>1. Modulus \in Int
  BY ThreadsAssumption DEF Modulus
<1>2. PICK j \in Int : x = y + Modulus * j
  BY DEF Same
<1>3. PICK k \in Int : y = z + Modulus * k
  BY DEF Same
<1> HIDE DEF Modulus
<1>4. j + k \in Int /\ Modulus * (j + k) = Modulus * j + Modulus * k
  BY <1>1
<1>5. x = z + Modulus * (j + k)
  BY <1>1, <1>2, <1>3, <1>4
<1> QED
  BY <1>4, <1>5 DEF Same

LEMMA SameSum ==
  ASSUME NEW v \in Int, NEW w \in Int, NEW x \in Int, NEW y \in Int, Same(v, w), Same(x, y)
  PROVE  Same(v + x, w + y)
<1>1. Modulus \in Int
  BY ThreadsAssumption DEF Modulus
<1>2. PICK j \in Int : v = w + Modulus * j
  BY DEF Same
<1>3. PICK k \in Int : x = y + Modulus * k
  BY DEF Same
<1> HIDE DEF Modulus
<1>4. j + k \in Int /\ Modulus * (j + k) = Modulus * j + Modulus * k
  BY <1>1
<1>5. v + x = (w + y) + Modulus * (j + k)
  BY <1>1, <1>2, <1>3, <1>4
<1> QED
  BY <1>4, <1>5 DEF Same

LEMMA SameSelf ==
  ASSUME NEW x \in Int
  PROVE  Same(x, x)
<1>1. Modulus \in Int
  BY ThreadsAssumption DEF Modulus
<1> HIDE DEF Modulus
<1>2. 0 \in Int /\ x = x + Modulus * 0
  BY <1>1
<1> QED
  BY <1>2 DEF Same

LEMMA WrapSame ==
  ASSUME NEW x \in Int
  PROVE  Threads!Wrap(x) \in Int /\ Same(Threads!Wrap(x), x)
<1> USE ThreadsAssumption
<1> DEFINE y == x + IntMax + 1
           q == y \div Modulus
<1>1. Modulus \in Nat \ {0}
  BY DEF Modulus
<1>2. Threads!Wrap(x) = (y % Modulus) - (IntMax + 1)
  BY DEF Threads!Wrap, Modulus
<1>3. y \in Int
  OBVIOUS
<1>4. y = Modulus * q + (y % Modulus) /\ q \in Int /\ y % Modulus \in Int
  <2> HIDE DEF Modulus, y
  <2> QED
    BY <1>1, <1>3
<1> HIDE DEF q
<1> DEFINE r == y % Modulus
           t == Modulus * q
<1>5. r \in Int /\ t \in Int /\ y = t + r /\ Threads!Wrap(x) = r - (IntMax + 1)
  BY <1>1, <1>2, <1>4
<1> HIDE DEF r
<1>6. -q \in Int /\ Modulus * (-q) = -t
  <2> HIDE DEF Modulus
  <2> QED
    BY <1>1, <1>4
<1> HIDE DEF t
<1>7. Threads!Wrap(x) = x - t
  BY <1>5
<1>8. Threads!Wrap(x) = x + Modulus * (-q)
  BY <1>5, <1>6, <1>7
<1> QED
  BY <1>5, <1>6, <1>7, <1>8 DEF Same

\* An int that fits is what it is.
LEMMA WrapFits ==
  ASSUME NEW x \in 0..IntMax
  PROVE  Threads!Wrap(x) = x
<1> USE ThreadsAssumption
<1> DEFINE y == x + IntMax + 1
<1>1. Modulus \in Nat \ {0} /\ y \in 0 .. Modulus - 1
  BY DEF Modulus
<1>2. Threads!Wrap(x) = (y % Modulus) - (IntMax + 1)
  BY DEF Threads!Wrap, Modulus
<1>3. y % Modulus = y
  <2> HIDE DEF Modulus, y
  <2> QED
    BY <1>1
<1> QED
  BY <1>2, <1>3

\* No int is larger than the largest.
LEMMA WrapAtMost ==
  ASSUME NEW x \in Int
  PROVE  ~(Threads!Wrap(x) > IntMax)
<1> USE ThreadsAssumption
<1> DEFINE y == x + IntMax + 1
<1>1. Modulus \in Nat \ {0} /\ y \in Int
  BY DEF Modulus
<1>2. Threads!Wrap(x) = (y % Modulus) - (IntMax + 1)
  BY DEF Threads!Wrap, Modulus
<1>3. y % Modulus \in 0 .. Modulus - 1
  <2> HIDE DEF Modulus, y
  <2> QED
    BY <1>1
<1> DEFINE r == y % Modulus
<1>4. r \in 0 .. Modulus - 1 /\ Threads!Wrap(x) = r - (IntMax + 1)
  BY <1>2, <1>3
<1> HIDE DEF r, y
<1> QED
  BY <1>4 DEF Modulus

\* A loop over integers that begins at zero.
LEMMA IntLoop ==
  ASSUME NEW n \in Nat, NEW step \in [(1..n) \X Int -> Int]
  PROVE  \E u \in [0..n -> Int] : u[0] = 0 /\ \A i \in 1..n : u[i] = step[<<i, u[i - 1]>>]
<1> DEFINE next == [z \in (0 .. n - 1) \X Int |-> step[<<z[1] + 1, z[2]>>]]
           base == 0
<1>1. next \in [(0 .. n - 1) \X Int -> Int]
  <2>1. \A i \in 0 .. n - 1 : i + 1 \in 1..n
    OBVIOUS
  <2>2. \A z \in (0 .. n - 1) \X Int : z[1] \in 0 .. n - 1 /\ z[2] \in Int
    OBVIOUS
  <2>3. \A z \in (0 .. n - 1) \X Int : <<z[1] + 1, z[2]>> \in (1..n) \X Int
    BY <2>1, <2>2
  <2> QED
    BY <2>3
<1>2. base \in Int /\ base = 0
  OBVIOUS
<1>3. \A i \in 1..n, x \in Int : next[<<i - 1, x>>] = step[<<i, x>>]
  <2> SUFFICES ASSUME NEW i \in 1..n, NEW x \in Int PROVE next[<<i - 1, x>>] = step[<<i, x>>]
    OBVIOUS
  <2>1. i - 1 \in 0 .. n - 1 /\ (i - 1) + 1 = i
    OBVIOUS
  <2>2. <<i - 1, x>> \in (0 .. n - 1) \X Int
    BY <2>1
  <2> QED
    BY <2>1, <2>2
<1> HIDE DEF next, base
<1>4. PICK u \in [0..n -> Int] : Turns(u, n, base, next)
  BY <1>1, <1>2, TurnsExist
<1>5. u[0] = 0
  <2>1. 0 \in 0..n
    OBVIOUS
  <2> QED
    BY <1>2, <1>4, <2>1 DEF Turns
<1>6. ASSUME NEW i \in 1..n PROVE u[i] = step[<<i, u[i - 1]>>]
  <2>1. i \in 0..n /\ i # 0 /\ i - 1 \in 0..n
    OBVIOUS
  <2>2. u[i] = next[<<i - 1, u[i - 1]>>]
    BY <1>4, <2>1 DEF Turns
  <2>3. u[i - 1] \in Int
    BY <2>1
  <2> QED
    BY <1>3, <2>2, <2>3
<1> QED
  BY <1>5, <1>6

-----------------------------------------------------------------------------
LEMMA NextTriangle ==
  ASSUME NEW i \in Nat \ {0}
  PROVE  (i * (i + 1)) \div 2 = ((i - 1) * i) \div 2 + i
<1> DEFINE p == (i - 1) * i
<1>1. p \in Int /\ i * (i + 1) = p + 2 * i
  OBVIOUS
<1> HIDE DEF p
<1>2. (p + 2 * i) \div 2 = p \div 2 + i
  BY <1>1
<1> QED
  BY <1>1, <1>2 DEF p

\* The child of q2.
LEMMA SumRunnerIs ==
  ASSUME NEW n \in Nat
  PROVE  Threads!SumRunner(n) \in Int /\ Same(Threads!SumRunner(n), (n * (n + 1)) \div 2)
<1> DEFINE F(f) == [i \in 0..n |-> IF i = 0 THEN 0 ELSE Threads!Wrap(f[i - 1] + i)]
           sum == CHOOSE f : f = F(f)
           step == [z \in (1..n) \X Int |-> Threads!Wrap(z[2] + z[1])]
           Half(i) == (i * (i + 1)) \div 2
<1>1. Threads!SumRunner(n) = sum[n]
  BY DEF Threads!SumRunner
<1>2. step \in [(1..n) \X Int -> Int]
  <2>1. \A z \in (1..n) \X Int : z[2] + z[1] \in Int
    OBVIOUS
  <2> QED
    BY <2>1, WrapSame
<1>3. \A i \in 1..n, x \in Int : step[<<i, x>>] = Threads!Wrap(x + i)
  OBVIOUS
<1> HIDE DEF step
<1>4. PICK u \in [0..n -> Int] : u[0] = 0 /\ \A i \in 1..n : u[i] = step[<<i, u[i - 1]>>]
  BY <1>2, IntLoop
<1>5. u = F(u)
  <2>1. \A i \in 0..n : u[i] = IF i = 0 THEN 0 ELSE Threads!Wrap(u[i - 1] + i)
    <3>1. \A i \in 0..n : i # 0 => i \in 1..n /\ i - 1 \in 0..n
      OBVIOUS
    <3> QED
      BY <1>3, <1>4, <3>1
  <2> QED
    BY <2>1
<1>6. sum = F(sum)
  <2> HIDE DEF F
  <2> QED
    BY <1>5
<1> HIDE DEF sum
<1>7. sum[0] = 0 /\ \A i \in 1..n : sum[i] = Threads!Wrap(sum[i - 1] + i)
  <2>1. 0 \in 0..n /\ \A i \in 1..n : i \in 0..n /\ i # 0
    OBVIOUS
  <2>2. \A i \in 0..n : sum[i] = IF i = 0 THEN 0 ELSE Threads!Wrap(sum[i - 1] + i)
    BY <1>6
  <2> QED
    BY <2>1, <2>2
<1> DEFINE G == {i \in 0..n : sum[i] \in Int /\ Same(sum[i], Half(i))}
<1>8. \A i \in 0..n : Half(i) \in Int
  <2>1. \A i \in 0..n : i * (i + 1) \in Int
    OBVIOUS
  <2> QED
    BY <2>1
<1>9. 0 \in G
  <2>1. Half(0) = 0 /\ 0 \in Int
    OBVIOUS
  <2>2. Same(sum[0], Half(0))
    BY <1>7, <2>1, SameSelf
  <2> QED
    BY <1>7, <2>2
<1>10. ASSUME NEW i \in 0 .. n - 1, i \in G PROVE i + 1 \in G
  <2> DEFINE j == i + 1
  <2>1. j \in 1..n /\ j \in 0..n /\ j - 1 = i /\ j \in Nat \ {0} /\ j \in Int
    OBVIOUS
  <2>2. Half(j) = Half(i) + j
    <3> HIDE DEF j
    <3>1. (j * (j + 1)) \div 2 = ((j - 1) * j) \div 2 + j
      BY <2>1, NextTriangle
    <3>2. j - 1 = i /\ j = i + 1
      BY <2>1 DEF j
    <3> QED
      BY <3>1, <3>2
  <2> HIDE DEF j, Half
  <2>3. sum[j] = Threads!Wrap(sum[i] + j)
    BY <1>7, <2>1
  <2>4. sum[i] \in Int /\ Same(sum[i], Half(i)) /\ Half(i) \in Int /\ i \in 0..n
    BY <1>8, <1>10
  <2>5. Same(sum[i] + j, Half(i) + j)
    BY <2>1, <2>4, SameSelf, SameSum
  <2> DEFINE x == sum[i] + j
             y == Half(i) + j
  <2>6. x \in Int /\ y \in Int /\ Same(x, y)
    BY <2>1, <2>4, <2>5
  <2> HIDE DEF x, y
  <2>7. Threads!Wrap(x) \in Int /\ Same(Threads!Wrap(x), x)
    BY <2>6, WrapSame
  <2>8. Same(Threads!Wrap(x), y)
    BY <2>6, <2>7, SameTwice
  <2>9. sum[j] \in Int /\ Same(sum[j], Half(j))
    BY <2>2, <2>3, <2>7, <2>8 DEF x, y
  <2> QED
    BY <2>1, <2>9 DEF j
<1>11. \A i \in 0..n : i \in G
  <2> HIDE DEF G
  <2> QED
    BY <1>9, <1>10, AfterEachTurn
<1>12. n \in 0..n
  OBVIOUS
<1> QED
  BY <1>1, <1>11, <1>12

-----------------------------------------------------------------------------
\* The sum of all numbers, and the children of q4.
TotalOf(array) ==
    LET total[k \in 0..Len(array)] == IF k = 0 THEN 0 ELSE total[k - 1] + array[k]
    IN  total[Len(array)]

Chosen(x, remainder) == (x % 2 = 0) = (remainder = 0)

\* What the loop of one child adds up to.
LEMMA SumOfIs ==
  ASSUME NEW array \in Seq(Int), NEW r \in {0, 1}
  PROVE  \E u : /\ u[0] = 0 /\ \A i \in 0..Len(array) : u[i] \in Int
                /\ \A i \in 1..Len(array) :
                     u[i] = IF Chosen(array[i], r) THEN Threads!Wrap(u[i - 1] + array[i])
                            ELSE u[i - 1]
                /\ Threads!SumOf(array, r) = u[Len(array)]
<1> DEFINE n == Len(array)
           F(f) == [i \in 0..n |-> IF i = 0 THEN 0
                                   ELSE IF (array[i] % 2 = 0) = (r = 0)
                                   THEN Threads!Wrap(f[i - 1] + array[i])
                                   ELSE f[i - 1]]
           sum == CHOOSE f : f = F(f)
           step == [z \in (1..n) \X Int |-> IF Chosen(array[z[1]], r)
                                            THEN Threads!Wrap(z[2] + array[z[1]]) ELSE z[2]]
<1>1. n \in Nat /\ \A i \in 1..n : array[i] \in Int
  OBVIOUS
<1>2. Threads!SumOf(array, r) = sum[n]
  BY DEF Threads!SumOf
<1>3. step \in [(1..n) \X Int -> Int]
  <2>1. \A z \in (1..n) \X Int : z[2] + array[z[1]] \in Int /\ z[2] \in Int
    BY <1>1
  <2> QED
    BY <2>1, WrapSame
<1>4. \A i \in 1..n, x \in Int :
        step[<<i, x>>] = IF Chosen(array[i], r) THEN Threads!Wrap(x + array[i]) ELSE x
  OBVIOUS
<1> HIDE DEF step, n
<1>5. PICK u \in [0..n -> Int] : u[0] = 0 /\ \A i \in 1..n : u[i] = step[<<i, u[i - 1]>>]
  BY <1>1, <1>3, IntLoop
<1>6. u = F(u)
  <2>1. \A i \in 0..n : u[i] = IF i = 0 THEN 0
                               ELSE IF Chosen(array[i], r)
                               THEN Threads!Wrap(u[i - 1] + array[i]) ELSE u[i - 1]
    <3>1. ASSUME NEW i \in 1..n
          PROVE  u[i] = IF Chosen(array[i], r) THEN Threads!Wrap(u[i - 1] + array[i]) ELSE u[i - 1]
      <4>1. i - 1 \in 0..n /\ u[i - 1] \in Int
        BY <1>1
      <4> QED
        BY <1>4, <1>5, <4>1
    <3>2. \A i \in 0..n : i # 0 => i \in 1..n
      BY <1>1
    <3> QED
      BY <1>5, <3>1, <3>2
  <2> QED
    BY <2>1 DEF Chosen
<1>7. sum = F(sum)
  <2> HIDE DEF F
  <2> QED
    BY <1>6
<1> HIDE DEF sum
<1>8. /\ sum[0] = 0
      /\ \A i \in 1..n : sum[i] = IF Chosen(array[i], r)
                                  THEN Threads!Wrap(sum[i - 1] + array[i]) ELSE sum[i - 1]
  <2>1. 0 \in 0..n /\ \A i \in 1..n : i \in 0..n /\ i # 0
    BY <1>1
  <2>2. \A i \in 0..n : sum[i] = IF i = 0 THEN 0
                                 ELSE IF Chosen(array[i], r)
                                 THEN Threads!Wrap(sum[i - 1] + array[i]) ELSE sum[i - 1]
    BY <1>7 DEF Chosen
  <2> QED
    BY <2>1, <2>2
<1>9. \A i \in 0..n : sum[i] \in Int
  <2> DEFINE G == {i \in 0..n : sum[i] \in Int}
  <2>1. 0 \in G
    BY <1>1, <1>8
  <2>2. ASSUME NEW i \in 0 .. n - 1, i \in G PROVE i + 1 \in G
    <3>1. i + 1 \in 1..n /\ i + 1 \in 0..n /\ (i + 1) - 1 = i
      BY <1>1
    <3>2. array[i + 1] \in Int /\ sum[i] \in Int /\ sum[i] + array[i + 1] \in Int
      BY <1>1, <2>2, <3>1
    <3> QED
      BY <1>8, <3>1, <3>2, WrapSame
  <2>3. \A i \in 0..n : i \in G
    <3> HIDE DEF G
    <3> QED
      BY <1>1, <2>1, <2>2, AfterEachTurn
  <2> QED
    BY <2>3
<1> QED
  BY <1>2, <1>8, <1>9 DEF n

LEMMA TotalIs ==
  ASSUME NEW array \in Seq(Int)
  PROVE  \E u : /\ u[0] = 0 /\ \A i \in 0..Len(array) : u[i] \in Int
                /\ \A i \in 1..Len(array) : u[i] = u[i - 1] + array[i]
                /\ TotalOf(array) = u[Len(array)]
<1> DEFINE n == Len(array)
           F(f) == [i \in 0..n |-> IF i = 0 THEN 0 ELSE f[i - 1] + array[i]]
           sum == CHOOSE f : f = F(f)
           step == [z \in (1..n) \X Int |-> z[2] + array[z[1]]]
<1>1. n \in Nat /\ \A i \in 1..n : array[i] \in Int
  OBVIOUS
<1>2. TotalOf(array) = sum[n]
  BY DEF TotalOf
<1>3. step \in [(1..n) \X Int -> Int]
  <2>1. \A z \in (1..n) \X Int : z[2] + array[z[1]] \in Int
    BY <1>1
  <2> QED
    BY <2>1
<1>4. \A i \in 1..n, x \in Int : step[<<i, x>>] = x + array[i]
  OBVIOUS
<1> HIDE DEF step, n
<1>5. PICK u \in [0..n -> Int] : u[0] = 0 /\ \A i \in 1..n : u[i] = step[<<i, u[i - 1]>>]
  BY <1>1, <1>3, IntLoop
<1>6. u = F(u)
  <2>1. \A i \in 0..n : u[i] = IF i = 0 THEN 0 ELSE u[i - 1] + array[i]
    <3>1. \A i \in 0..n : i # 0 => i \in 1..n /\ i - 1 \in 0..n
      BY <1>1
    <3> QED
      BY <1>4, <1>5, <3>1
  <2> QED
    BY <2>1
<1>7. sum = F(sum)
  <2> HIDE DEF F
  <2> QED
    BY <1>6
<1> HIDE DEF sum
<1>8. sum[0] = 0 /\ \A i \in 1..n : sum[i] = sum[i - 1] + array[i]
  <2>1. 0 \in 0..n /\ \A i \in 1..n : i \in 0..n /\ i # 0
    BY <1>1
  <2>2. \A i \in 0..n : sum[i] = IF i = 0 THEN 0 ELSE sum[i - 1] + array[i]
    BY <1>7
  <2> QED
    BY <2>1, <2>2
<1>9. \A i \in 0..n : sum[i] \in Int
  <2> DEFINE G == {i \in 0..n : sum[i] \in Int}
  <2>1. 0 \in G
    BY <1>1, <1>8
  <2>2. ASSUME NEW i \in 0 .. n - 1, i \in G PROVE i + 1 \in G
    <3>1. i + 1 \in 1..n /\ i + 1 \in 0..n /\ (i + 1) - 1 = i
      BY <1>1
    <3>2. array[i + 1] \in Int /\ sum[i] \in Int
      BY <1>1, <2>2, <3>1
    <3>3. sum[i + 1] = sum[i] + array[i + 1]
      BY <1>8, <3>1
    <3> QED
      BY <3>1, <3>2, <3>3
  <2>3. \A i \in 0..n : i \in G
    <3> HIDE DEF G
    <3> QED
      BY <1>1, <2>1, <2>2, AfterEachTurn
  <2> QED
    BY <2>3
<1> QED
  BY <1>2, <1>8, <1>9 DEF n

\* Every number is added by one child and left alone by the other.
LEMMA AddedOnce ==
  ASSUME NEW x \in Int
  PROVE  Chosen(x, 0) <=> ~Chosen(x, 1)
  BY DEF Chosen

LEMMA OneAdds ==
  ASSUME NEW v \in Int, NEW w \in Int, NEW x \in Int, NEW y \in Int, Same(v + w, y)
  PROVE  Same(Threads!Wrap(v + x) + w, y + x)
<1> DEFINE a == v + x
           b == Threads!Wrap(a)
<1>1. a \in Int
  OBVIOUS
<1>2. b \in Int /\ Same(b, a)
  <2> HIDE DEF a
  <2> QED
    BY <1>1, WrapSame
<1>3. (v + w) + x = a + w
  OBVIOUS
<1> HIDE DEF a
<1>4. Same(b + w, a + w)
  <2> HIDE DEF b
  <2> QED
    BY <1>1, <1>2, SameSelf, SameSum
<1> DEFINE c == v + w
<1>5. c \in Int /\ Same(c, y)
  OBVIOUS
<1> HIDE DEF c
<1>6. Same(c + x, y + x)
  BY <1>5, SameSelf, SameSum
<1> DEFINE d == c + x
           e == b + w
           f == y + x
<1>7. d \in Int /\ e \in Int /\ f \in Int /\ Same(e, d) /\ Same(d, f)
  BY <1>2, <1>3, <1>4, <1>5, <1>6 DEF c
<1> HIDE DEF d, e, f
<1>8. Same(e, f)
  BY <1>7, SameTwice
<1> QED
  BY <1>8 DEF e, f, b, a

LEMMA HalvesAre ==
  ASSUME NEW array \in Seq(Int)
  PROVE  /\ Threads!SumOf(array, 0) \in Int /\ Threads!SumOf(array, 1) \in Int
         /\ TotalOf(array) \in Int
         /\ Same(Threads!SumOf(array, 0) + Threads!SumOf(array, 1), TotalOf(array))
<1> DEFINE n == Len(array)
<1>1. n \in Nat /\ \A i \in 1..n : array[i] \in Int
  OBVIOUS
<1>2. PICK e : /\ e[0] = 0 /\ \A i \in 0..n : e[i] \in Int
               /\ \A i \in 1..n : e[i] = IF Chosen(array[i], 0) THEN Threads!Wrap(e[i - 1] + array[i])
                                         ELSE e[i - 1]
               /\ Threads!SumOf(array, 0) = e[n]
  <2> DEFINE r == 0
  <2>1. r \in {0, 1}
    OBVIOUS
  <2> HIDE DEF r
  <2>2. \E u : /\ u[0] = 0 /\ \A i \in 0..n : u[i] \in Int
               /\ \A i \in 1..n : u[i] = IF Chosen(array[i], r) THEN Threads!Wrap(u[i - 1] + array[i])
                                         ELSE u[i - 1]
               /\ Threads!SumOf(array, r) = u[n]
    BY <2>1, SumOfIs
  <2> QED
    BY <2>2 DEF r
<1>3. PICK o : /\ o[0] = 0 /\ \A i \in 0..n : o[i] \in Int
               /\ \A i \in 1..n : o[i] = IF Chosen(array[i], 1) THEN Threads!Wrap(o[i - 1] + array[i])
                                         ELSE o[i - 1]
               /\ Threads!SumOf(array, 1) = o[n]
  <2> DEFINE r == 1
  <2>1. r \in {0, 1}
    OBVIOUS
  <2> HIDE DEF r
  <2>2. \E u : /\ u[0] = 0 /\ \A i \in 0..n : u[i] \in Int
               /\ \A i \in 1..n : u[i] = IF Chosen(array[i], r) THEN Threads!Wrap(u[i - 1] + array[i])
                                         ELSE u[i - 1]
               /\ Threads!SumOf(array, r) = u[n]
    BY <2>1, SumOfIs
  <2> QED
    BY <2>2 DEF r
<1>4. PICK t : /\ t[0] = 0 /\ \A i \in 0..n : t[i] \in Int
               /\ \A i \in 1..n : t[i] = t[i - 1] + array[i]
               /\ TotalOf(array) = t[n]
  BY TotalIs
<1> DEFINE G == {i \in 0..n : Same(e[i] + o[i], t[i])}
<1> HIDE DEF n
<1>5. 0 \in G
  <2>1. e[0] + o[0] = 0 /\ t[0] = 0 /\ 0 \in 0..n
    BY <1>1, <1>2, <1>3, <1>4
  <2>2. Same(0, 0)
    BY SameSelf
  <2> QED
    BY <2>1, <2>2
<1>6. ASSUME NEW i \in 0 .. n - 1, i \in G PROVE i + 1 \in G
  <2> DEFINE j == i + 1
             x == array[j]
             v == e[i]
             w == o[i]
             y == t[i]
  <2>1. j \in 1..n /\ j \in 0..n /\ j - 1 = i /\ i \in 0..n
    BY <1>1
  <2> HIDE DEF j
  <2>2. x \in Int /\ v \in Int /\ w \in Int /\ y \in Int /\ Same(v + w, y) /\ w + v = v + w
    BY <1>1, <1>2, <1>3, <1>4, <1>6, <2>1
  <2>3. /\ e[j] = IF Chosen(x, 0) THEN Threads!Wrap(v + x) ELSE v
        /\ o[j] = IF Chosen(x, 1) THEN Threads!Wrap(w + x) ELSE w
        /\ t[j] = y + x
    BY <1>2, <1>3, <1>4, <2>1
  <2> HIDE DEF x, v, w, y
  <2>4. CASE Chosen(x, 0)
    <3>1. e[j] + o[j] = Threads!Wrap(v + x) + w
      BY <2>2, <2>3, <2>4, AddedOnce
    <3> QED
      BY <2>1, <2>2, <2>3, <3>1, OneAdds DEF j
  <2>5. CASE ~Chosen(x, 0)
    <3>1. o[j] = Threads!Wrap(w + x) /\ e[j] = v
      BY <2>2, <2>3, <2>5, AddedOnce
    <3>2. w + x \in Int
      BY <2>2
    <3>3. Threads!Wrap(w + x) \in Int
      BY <3>2, WrapSame
    <3>4. e[j] + o[j] = Threads!Wrap(w + x) + v
      BY <2>2, <3>1, <3>3
    <3>5. Same(w + v, y)
      BY <2>2
    <3>6. Same(Threads!Wrap(w + x) + v, y + x)
      BY <2>2, <3>5, OneAdds
    <3> QED
      BY <2>1, <2>3, <3>4, <3>6 DEF j
  <2> QED
    BY <2>4, <2>5
<1>7. \A i \in 0..n : i \in G
  <2> HIDE DEF G
  <2> QED
    BY <1>1, <1>5, <1>6, AfterEachTurn
<1>8. n \in 0..n
  BY <1>1
<1> QED
  BY <1>2, <1>3, <1>4, <1>7, <1>8 DEF n

-----------------------------------------------------------------------------
\* The child of q1.
LEMMA SeriesIs ==
  ASSUME NEW n \in Nat \ {0}
  PROVE  LET s == Threads!Fibonacci(n)
         IN  /\ s \in [0 .. n - 1 -> Int]
             /\ s[0] = 0 /\ (n > 1 => s[1] = 1)
             /\ \A i \in 2 .. n - 1 : Same(s[i], s[i - 1] + s[i - 2])
<1> DEFINE F(f) == [i \in 0 .. n - 1 |-> IF i <= 1 THEN i ELSE Threads!Wrap(f[i - 1] + f[i - 2])]
           s == CHOOSE f : f = F(f)
           T == Int \X Int
           base == <<0, 1>>
           next == [z \in (0 .. n - 1) \X T |-> <<z[2][2], Threads!Wrap(z[2][2] + z[2][1])>>]
<1>1. Threads!Fibonacci(n) = s
  BY DEF Threads!Fibonacci
<1>2. base \in T
  OBVIOUS
<1>3. next \in [(0 .. n - 1) \X T -> T]
  <2>1. \A z \in (0 .. n - 1) \X T : z[2][2] \in Int /\ z[2][2] + z[2][1] \in Int
    OBVIOUS
  <2> QED
    BY <2>1, WrapSame
<1>4. \A i \in 0 .. n - 1, z \in T : next[<<i, z>>] = <<z[2], Threads!Wrap(z[2] + z[1])>>
  OBVIOUS
<1>5. PICK p \in [0..n -> T] : Turns(p, n, base, next)
  <2> HIDE DEF base, next, T
  <2> QED
    BY <1>2, <1>3, TurnsExist
<1>6. /\ p[0] = base
      /\ \A i \in 0 .. n - 1 : p[i + 1] = <<p[i][2], Threads!Wrap(p[i][2] + p[i][1])>>
  <2>1. p[0] = base
    <3>1. 0 \in 0..n
      OBVIOUS
    <3> HIDE DEF base, next
    <3> QED
      BY <1>5, <3>1 DEF Turns
  <2>2. ASSUME NEW i \in 0 .. n - 1
        PROVE  p[i + 1] = <<p[i][2], Threads!Wrap(p[i][2] + p[i][1])>>
    <3>1. i + 1 \in 0..n /\ i + 1 # 0 /\ (i + 1) - 1 = i /\ i \in 0..n
      OBVIOUS
    <3>2. p[i] \in T
      BY <3>1
    <3> HIDE DEF base, next, T
    <3>3. p[i + 1] = next[<<i, p[i]>>]
      BY <1>5, <3>1 DEF Turns
    <3> QED
      BY <1>4, <3>2, <3>3
  <2> QED
    BY <2>1, <2>2
<1> DEFINE u == [i \in 0 .. n - 1 |-> p[i][1]]
<1> HIDE DEF next
<1>7. u = F(u)
  <2>1. ASSUME NEW i \in 0 .. n - 1
        PROVE  u[i] = IF i <= 1 THEN i ELSE Threads!Wrap(u[i - 1] + u[i - 2])
    <3>1. CASE i = 0
      BY <1>6, <3>1
    <3>2. CASE i = 1
      <4>1. 0 \in 0 .. n - 1 /\ 0 + 1 = 1
        BY <3>2
      <4>2. p[1] = <<p[0][2], Threads!Wrap(p[0][2] + p[0][1])>>
        BY <1>6, <4>1
      <4>3. p[1][1] = 1
        BY <1>6, <4>2
      <4> QED
        BY <3>2, <4>3
    <3>3. CASE i > 1
      <4>1. /\ i - 1 \in 0 .. n - 1 /\ i - 2 \in 0 .. n - 1
            /\ (i - 1) + 1 = i /\ (i - 2) + 1 = i - 1
        BY <3>3
      <4>2. /\ p[i] = <<p[i - 1][2], Threads!Wrap(p[i - 1][2] + p[i - 1][1])>>
            /\ p[i - 1] = <<p[i - 2][2], Threads!Wrap(p[i - 2][2] + p[i - 2][1])>>
        BY <1>6, <4>1
      <4>3. p[i][1] = p[i - 1][2] /\ p[i - 1][1] = p[i - 2][2]
        BY <4>2
      <4>4. p[i - 1][2] = Threads!Wrap(p[i - 2][2] + p[i - 2][1])
        BY <4>2
      <4>5. u[i] = p[i][1] /\ u[i - 1] = p[i - 1][1] /\ u[i - 2] = p[i - 2][1]
        BY <4>1
      <4> QED
        BY <3>3, <4>3, <4>4, <4>5
    <3> QED
      BY <3>1, <3>2, <3>3
  <2> QED
    BY <2>1
<1>8. s = F(s)
  <2> HIDE DEF F
  <2> QED
    BY <1>7
<1> HIDE DEF s
<1>9. /\ \A i \in 0 .. n - 1 : s[i] = IF i <= 1 THEN i ELSE Threads!Wrap(s[i - 1] + s[i - 2])
      /\ s = [i \in 0 .. n - 1 |-> s[i]]
  BY <1>8
<1>12. s[0] = 0 /\ (n > 1 => s[1] = 1)
  <2>1. 0 \in 0 .. n - 1 /\ (n > 1 => 1 \in 0 .. n - 1) /\ 0 <= 1 /\ 1 <= 1
    OBVIOUS
  <2> QED
    BY <1>9, <2>1
<1>10. \A i \in 0 .. n - 1 : s[i] \in Int
  <2> DEFINE G == {i \in 0..n : (i < n => s[i] \in Int) /\ (0 < i => s[i - 1] \in Int)}
  <2>1. 0 \in G
    BY <1>12
  <2>2. ASSUME NEW i \in 0 .. n - 1, i \in G PROVE i + 1 \in G
    <3>1. i + 1 \in 0..n /\ (i + 1) - 1 = i /\ s[i] \in Int
      BY <2>2
    <3>2. ASSUME i + 1 < n PROVE s[i + 1] \in Int
      <4>1. CASE i = 0
        BY <1>12, <3>2, <4>1
      <4>2. CASE i > 0
        <5>1. i + 1 \in 0 .. n - 1 /\ ~(i + 1 <= 1) /\ (i + 1) - 1 = i /\ (i + 1) - 2 = i - 1
          BY <3>2, <4>2
        <5>2. s[i + 1] = Threads!Wrap(s[i] + s[i - 1])
          BY <1>9, <5>1
        <5>3. s[i] + s[i - 1] \in Int
          BY <2>2, <4>2, SMTT(30)
        <5> QED
          BY <5>2, <5>3, WrapSame
      <4> QED
        BY <4>1, <4>2
    <3> QED
      BY <3>1, <3>2
  <2>3. \A i \in 0..n : i \in G
    <3> HIDE DEF G
    <3> QED
      BY <2>1, <2>2, AfterEachTurn
  <2> QED
    BY <2>3
<1>11. \A i \in 2 .. n - 1 : Same(s[i], s[i - 1] + s[i - 2])
  <2> SUFFICES ASSUME NEW i \in 2 .. n - 1 PROVE Same(s[i], s[i - 1] + s[i - 2])
    OBVIOUS
  <2>1. i \in 0 .. n - 1 /\ i - 1 \in 0 .. n - 1 /\ i - 2 \in 0 .. n - 1 /\ ~(i <= 1)
    OBVIOUS
  <2>2. s[i - 1] + s[i - 2] \in Int
    BY <1>10, <2>1, SMTT(30)
  <2> QED
    BY <1>9, <2>1, <2>2, WrapSame
<1>13. s \in [0 .. n - 1 -> Int]
  BY <1>9, <1>10
<1> QED
  BY <1>1, <1>11, <1>12, <1>13

\* The sums of the first numbers of a series.
SumsOf(n, s) ==
    LET before[k \in 0..n] == IF k = 0 THEN 0 ELSE before[k - 1] + s[k - 1]
    IN  before

LEMMA SumsOfIs ==
  ASSUME NEW n \in Nat, NEW s \in [0 .. n - 1 -> Int]
  PROVE  /\ SumsOf(n, s)[0] = 0 /\ \A i \in 0..n : SumsOf(n, s)[i] \in Int
         /\ \A i \in 1..n : SumsOf(n, s)[i] = SumsOf(n, s)[i - 1] + s[i - 1]
<1> DEFINE F(f) == [k \in 0..n |-> IF k = 0 THEN 0 ELSE f[k - 1] + s[k - 1]]
           before == CHOOSE f : f = F(f)
           step == [z \in (1..n) \X Int |-> z[2] + s[z[1] - 1]]
<1>1. SumsOf(n, s) = before
  BY DEF SumsOf
<1>2. \A i \in 1..n : s[i - 1] \in Int
  OBVIOUS
<1>3. step \in [(1..n) \X Int -> Int]
  <2>1. \A z \in (1..n) \X Int : z[2] + s[z[1] - 1] \in Int
    BY <1>2
  <2> QED
    BY <2>1
<1>4. \A i \in 1..n, x \in Int : step[<<i, x>>] = x + s[i - 1]
  OBVIOUS
<1> HIDE DEF step
<1>5. PICK u \in [0..n -> Int] : u[0] = 0 /\ \A i \in 1..n : u[i] = step[<<i, u[i - 1]>>]
  BY <1>3, IntLoop
<1>6. u = F(u)
  <2>1. \A i \in 0..n : u[i] = IF i = 0 THEN 0 ELSE u[i - 1] + s[i - 1]
    <3>1. \A i \in 0..n : i # 0 => i \in 1..n /\ i - 1 \in 0..n
      OBVIOUS
    <3> QED
      BY <1>4, <1>5, <3>1
  <2> QED
    BY <2>1
<1>7. before = F(before)
  <2> HIDE DEF F
  <2> QED
    BY <1>6
<1> HIDE DEF before
<1>8. before[0] = 0 /\ \A i \in 1..n : before[i] = before[i - 1] + s[i - 1]
  <2>1. 0 \in 0..n /\ \A i \in 1..n : i \in 0..n /\ i # 0
    OBVIOUS
  <2>2. \A i \in 0..n : before[i] = IF i = 0 THEN 0 ELSE before[i - 1] + s[i - 1]
    BY <1>7
  <2> QED
    BY <2>1, <2>2
<1>9. \A i \in 0..n : before[i] \in Int
  <2> DEFINE G == {i \in 0..n : before[i] \in Int}
  <2>1. 0 \in G
    BY <1>8
  <2>2. ASSUME NEW i \in 0 .. n - 1, i \in G PROVE i + 1 \in G
    <3>1. i + 1 \in 1..n /\ i + 1 \in 0..n /\ (i + 1) - 1 = i
      OBVIOUS
    <3>2. s[i] \in Int /\ before[i] \in Int
      BY <2>2
    <3>3. before[i + 1] = before[i] + s[i]
      BY <1>8, <3>1
    <3> QED
      BY <3>1, <3>2, <3>3
  <2>3. \A i \in 0..n : i \in G
    <3> HIDE DEF G
    <3> QED
      BY <2>1, <2>2, AfterEachTurn
  <2> QED
    BY <2>3
<1> QED
  BY <1>1, <1>8, <1>9

\* Each number of the series is one more than the sum of all but the one before.
LEMMA SeriesSums ==
  ASSUME NEW n \in Nat \ {0}, NEW k \in 2 .. n - 1
  PROVE  LET s == Threads!Fibonacci(n) IN Same(s[k], SumsOf(n, s)[k - 1] + 1)
<1> DEFINE s == Threads!Fibonacci(n)
           b == SumsOf(n, s)
           Summed(i) == Same(s[i], b[i - 1] + 1)
           G == {i \in 0 .. n - 3 : Summed(i + 2)}
<1>1. /\ s \in [0 .. n - 1 -> Int] /\ s[0] = 0 /\ s[1] = 1
      /\ \A i \in 2 .. n - 1 : Same(s[i], s[i - 1] + s[i - 2])
  BY SeriesIs
<1> HIDE DEF s
<1>2. /\ b[0] = 0 /\ \A i \in 0..n : b[i] \in Int
      /\ \A i \in 1..n : b[i] = b[i - 1] + s[i - 1]
  BY <1>1, SumsOfIs
<1> HIDE DEF b
<1>3. 0 \in G
  <2>1. 2 \in 2 .. n - 1 /\ 0 \in 0 .. n - 3 /\ 1 \in 1..n /\ 1 - 1 = 0 /\ 2 - 1 = 1 /\ 2 - 2 = 0
    OBVIOUS
  <2>2. b[1] = 0
    BY <1>1, <1>2, <2>1
  <2>3. Same(s[2], s[1] + s[0])
    BY <1>1, <2>1
  <2>4. s[1] + s[0] = b[1] + 1
    BY <1>1, <2>2
  <2> QED
    BY <2>1, <2>3, <2>4
<1>4. ASSUME NEW i \in 0 .. (n - 3) - 1, i \in G PROVE i + 1 \in G
  <2> DEFINE x == s[i + 1]
             y == s[i + 2]
             z == s[i + 3]
             v == b[i + 1]
             w == b[i + 2]
  <2>1. /\ i + 1 \in 0 .. n - 1 /\ i + 2 \in 0 .. n - 1 /\ i + 3 \in 0 .. n - 1
        /\ i + 3 \in 2 .. n - 1 /\ (i + 3) - 1 = i + 2 /\ (i + 3) - 2 = i + 1
        /\ i + 1 \in 0..n /\ i + 2 \in 1..n /\ i + 2 \in 0..n /\ (i + 2) - 1 = i + 1
        /\ (i + 1) + 2 = i + 3 /\ i + 1 \in 0 .. n - 3
    OBVIOUS
  <2>2. x \in Int /\ y \in Int /\ z \in Int /\ v \in Int /\ w \in Int
    BY <1>1, <1>2, <2>1
  <2>3. Same(z, y + x) /\ w = v + x
    BY <1>1, <1>2, <2>1
  <2>4. Same(y, v + 1)
    BY <1>4, <2>1
  <2> HIDE DEF x, y, z, v, w
  <2>5. v + 1 \in Int /\ y + x \in Int /\ w + 1 \in Int /\ (v + 1) + x = w + 1
    BY <2>2, <2>3
  <2>6. Same(y + x, (v + 1) + x)
    BY <2>2, <2>4, <2>5, SameSelf, SameSum
  <2>7. Same(z, w + 1)
    BY <2>2, <2>3, <2>5, <2>6, SameTwice
  <2> QED
    BY <2>1, <2>7 DEF z, w
<1>5. n - 3 \in Nat
  OBVIOUS
<1>6. \A i \in 0 .. n - 3 : i \in G
  <2> DEFINE top == n - 3
  <2>1. top \in Nat /\ top = n - 3
    BY <1>5
  <2> HIDE DEF G, top
  <2>2. \A i \in 0 .. top - 1 : i \in G => i + 1 \in G
    BY <1>4, <2>1
  <2>3. \A i \in 0..top : i \in G
    BY <1>3, <2>1, <2>2, AfterEachTurn
  <2> QED
    BY <2>1, <2>3
<1>7. k - 2 \in 0 .. n - 3 /\ (k - 2) + 2 = k
  OBVIOUS
<1>8. Summed(k)
  BY <1>6, <1>7
<1> QED
  BY <1>8 DEF s, b

-----------------------------------------------------------------------------
LEMMA Larger ==
  ASSUME NEW a \in Nat, NEW b \in Nat, NEW c \in Nat, a <= b, a <= c
  PROVE  a * a <= b * c
<1>1. a * a <= a * c
  OBVIOUS
<1>2. a * c <= b * c
  OBVIOUS
<1> QED
  BY <1>1, <1>2

LEMMA DivisorsPair ==
  ASSUME NEW n \in Nat \ {0, 1}, NEW d \in 2 .. n - 1, n % d = 0
  PROVE  \E e \in 2 .. n - 1 : n = d * e /\ n % e = 0
<1> DEFINE e == n \div d
<1>1. e \in Int /\ n = d * e
  OBVIOUS
<1> HIDE DEF e
<1>2. e >= 0
  <2>1. CASE e < 0
    <3>1. d * e < 0
      BY <1>1, <2>1
    <3> QED
      BY <1>1, <3>1
  <2> QED
    BY <1>1, <2>1
<1>3. e # 0 /\ e # 1
  BY <1>1
<1>4. e < n
  <2>1. 2 * e <= d * e
    BY <1>1, <1>2
  <2> QED
    BY <1>1, <1>2, <1>3, <2>1
<1>5. e \in 2 .. n - 1
  BY <1>1, <1>2, <1>3, <1>4
<1>6. d * e = e * d /\ (e * d) % e = 0
  BY <1>1, <1>5
<1> QED
  BY <1>1, <1>5, <1>6

\* The child of q3.  Stops are where its loop could end.
Stops(n) == {i \in 2..n : Threads!Wrap(i * i) > n \/ n % i = 0}

LEMMA StopIs ==
  ASSUME NEW n \in 2..IntMax
  PROVE  \E i \in Stops(n) : /\ \A j \in Stops(n) : i <= j
                             /\ Threads!IsPrime(n) <=> Threads!Wrap(i * i) > n
<1>1. n \in Stops(n)
  <2>1. n \in 2..n /\ n % n = 0
    BY ThreadsAssumption
  <2> QED
    BY <2>1 DEF Stops
<1>2. Stops(n) \subseteq Nat
  BY DEF Stops
<1>3. PICK least \in Stops(n) : \A j \in Stops(n) : least <= j
  BY <1>1, <1>2, LeastNumber
<1> DEFINE i == CHOOSE i \in Stops(n) : \A j \in Stops(n) : i <= j
<1>4. i \in Stops(n) /\ \A j \in Stops(n) : i <= j
  BY <1>3
<1>5. Threads!IsPrime(n) <=> Threads!Wrap(i * i) > n
  BY DEF Threads!IsPrime, Threads!Min, Stops
<1> QED
  BY <1>4, <1>5

LEMMA SquareIs ==
  ASSUME NEW n \in 2..IntMax, NEW i \in Nat
  PROVE  /\ i * i <= n => Threads!Wrap(i * i) <= n
         /\ n < i * i /\ i * i <= IntMax => Threads!Wrap(i * i) > n
<1>1. i * i \in Nat /\ IntMax \in Nat
  BY ThreadsAssumption
<1> DEFINE x == i * i
<1> HIDE DEF x
<1>2. x \in Nat
  BY <1>1 DEF x
<1>3. x <= n => Threads!Wrap(x) = x
  BY <1>1, <1>2, WrapFits
<1>4. x <= IntMax => Threads!Wrap(x) = x
  BY <1>1, <1>2, WrapFits
<1> QED
  BY <1>1, <1>2, <1>3, <1>4 DEF x

LEMMA PrimesAre ==
  ASSUME NEW n \in 2..IntMax, Threads!IsPrime(n), NEW d \in 2 .. n - 1
  PROVE  n % d # 0
<1>1. PICK i \in Stops(n) : (\A j \in Stops(n) : i <= j) /\ Threads!Wrap(i * i) > n
  BY StopIs
<1>2. i \in Nat /\ n \in Nat \ {0, 1} /\ n \in Int
  BY ThreadsAssumption DEF Stops
<1>3. i * i \in Int /\ ~(i * i <= n)
  <2>1. i * i \in Int /\ Threads!Wrap(i * i) \in Int
    BY <1>2, WrapSame
  <2> QED
    BY <1>1, <1>2, <2>1, SquareIs
<1>4. SUFFICES ASSUME n % d = 0 PROVE FALSE
  OBVIOUS
<1>5. PICK e \in 2 .. n - 1 : n = d * e /\ n % e = 0
  BY <1>2, <1>4, DivisorsPair
<1>6. d \in Stops(n) /\ e \in Stops(n)
  BY <1>2, <1>4, <1>5 DEF Stops
<1>7. i <= d /\ i <= e /\ d \in Nat /\ e \in Nat
  BY <1>1, <1>2, <1>6
<1>8. i * i <= d * e
  BY <1>2, <1>7, Larger
<1> QED
  BY <1>3, <1>5, <1>8

LEMMA PrimesFound ==
  ASSUME NEW n \in 2..IntMax, \A d \in 2 .. n - 1 : n % d # 0,
         NEW root \in Nat, root * root > n, root * root <= IntMax
  PROVE  Threads!IsPrime(n)
<1>1. PICK i \in Stops(n) : /\ \A j \in Stops(n) : i <= j
                            /\ Threads!IsPrime(n) <=> Threads!Wrap(i * i) > n
  BY StopIs
<1>2. /\ n \in Nat /\ n >= 2 /\ i \in 2..n /\ IntMax \in Nat
      /\ Threads!Wrap(i * i) > n \/ n % i = 0
  BY ThreadsAssumption DEF Stops
<1>3. CASE i # n
  <2>1. i \in 2 .. n - 1
    BY <1>2, <1>3
  <2> QED
    BY <1>1, <1>2, <2>1
<1>4. CASE i = n
  <2>1. root > 1
    <3>1. root # 0 /\ root # 1
      BY <1>2
    <3> QED
      BY <3>1
  <2>2. root >= n
    <3>1. SUFFICES ASSUME root < n PROVE FALSE
      BY <1>2
    <3>2. root \in 2..n /\ Threads!Wrap(root * root) > n
      BY <1>2, <2>1, <3>1, SquareIs
    <3>3. root \in Stops(n)
      BY <3>2 DEF Stops
    <3> QED
      BY <1>1, <1>2, <1>4, <3>1, <3>3
  <2>3. n * n <= root * root
    BY <1>2, <2>2, Larger
  <2>4. n < n * n /\ n * n \in Int /\ root * root \in Int
    <3>1. 2 * n <= n * n
      BY <1>2
    <3> QED
      BY <1>2, <3>1
  <2>5. n * n <= IntMax
    BY <1>2, <2>3, <2>4
  <2> QED
    BY <1>1, <1>2, <1>4, <2>4, <2>5, SquareIs
<1> QED
  BY <1>3, <1>4

\* A loop ends unless it goes up to the largest int.
LEMMA LoopEndIs ==
  ASSUME NEW start \in 0..IntMax, NEW end \in start..IntMax
  PROVE  Threads!LoopEnds(start, end) <=> end # IntMax
<1> USE ThreadsAssumption
<1>1. ASSUME end = IntMax, NEW k \in 0 .. 2 * (IntMax + 1)
      PROVE  ~(Threads!Wrap(start + k) > end)
  BY <1>1, WrapAtMost
<1>2. CASE end = IntMax
  BY <1>1, <1>2 DEF Threads!LoopEnds, Threads!PastEnd
<1>3. CASE end # IntMax
  <2> DEFINE k == (end + 1) - start
  <2>1. k \in 0 .. 2 * (IntMax + 1) /\ start + k = end + 1 /\ end + 1 \in 0..IntMax
    BY <1>3
  <2>2. Threads!Wrap(start + k) > end
    BY <2>1, WrapFits
  <2> HIDE DEF k
  <2> QED
    BY <1>3, <2>1, <2>2 DEF Threads!LoopEnds, Threads!PastEnd
<1> QED
  BY <1>2, <1>3

\* One that ends takes every value up to its end.
LEMMA RangeIs ==
  ASSUME NEW start \in 0..IntMax, NEW end \in start .. IntMax - 1
  PROVE  Threads!FindPrimes(start, end) = {i \in start..end : Threads!IsPrime(i)}
<1> USE ThreadsAssumption
<1> DEFINE P == Threads!PastEnd(start, end)
           turns == (end + 1) - start
           least == CHOOSE k \in P : \A j \in P : k <= j
<1>1. turns \in 0 .. 2 * (IntMax + 1) /\ start + turns = end + 1 /\ end + 1 \in 0..IntMax
  OBVIOUS
<1>2. ASSUME NEW k \in 0 .. turns - 1
      PROVE  start + k \in start..end /\ Threads!Wrap(start + k) = start + k
  <2>1. start + k \in start..end /\ start + k \in 0..IntMax
    BY <1>1
  <2> QED
    BY <2>1, WrapFits
<1>3. turns \in P
  <2>1. Threads!Wrap(start + turns) > end
    BY <1>1, WrapFits
  <2> HIDE DEF turns
  <2> QED
    BY <1>1, <2>1 DEF Threads!PastEnd
<1>4. ASSUME NEW k \in P PROVE k \in Nat /\ turns <= k
  <2>1. k \in Nat /\ Threads!Wrap(start + k) > end
    BY DEF Threads!PastEnd
  <2>2. ASSUME k < turns PROVE FALSE
    <3>1. k \in 0 .. turns - 1
      BY <1>1, <2>1, <2>2
    <3>2. start + k \in start..end /\ Threads!Wrap(start + k) = start + k
      BY <1>2, <3>1
    <3> QED
      BY <2>1, <3>2
  <2> QED
    BY <1>1, <2>1, <2>2
<1>5. least = turns
  <2> HIDE DEF P, turns
  <2>1. least \in P /\ \A j \in P : least <= j
    BY <1>3, <1>4
  <2> HIDE DEF least
  <2>2. least <= turns /\ turns <= least /\ least \in Nat /\ turns \in Nat
    BY <1>1, <1>3, <1>4, <2>1
  <2> QED
    BY <2>2
<1>6. Threads!Min(P) = least
  BY DEF Threads!Min
<1>7. {Threads!Wrap(start + k) : k \in 0 .. turns - 1} = start..end
  <2>1. ASSUME NEW x \in start..end
        PROVE  \E k \in 0 .. turns - 1 : x = Threads!Wrap(start + k)
    <3>1. x - start \in 0 .. turns - 1 /\ start + (x - start) = x
      OBVIOUS
    <3>2. Threads!Wrap(start + (x - start)) = start + (x - start)
      BY <1>2, <3>1
    <3> QED
      BY <3>1, <3>2
  <2> HIDE DEF turns
  <2> QED
    BY <1>2, <2>1
<1> HIDE DEF P, turns, least
<1> QED
  BY <1>5, <1>6, <1>7 DEF Threads!FindPrimes, P

\* What is_prime says of a number, as far as it is right.
Prime(x) == x > 1 /\ \A d \in 2 .. x - 1 : x % d # 0
SquareFits(x) == \E root \in 0 .. x + 1 : root * root > x /\ root * root <= IntMax
Right(x, called) == (called => Prime(x)) /\ (SquareFits(x) => called = Prime(x))

LEMMA IsPrimeRight ==
  ASSUME NEW n \in -(IntMax + 1) .. IntMax
  PROVE  Right(n, Threads!IsPrime(n))
<1>1. n \in Int /\ IntMax \in Nat
  BY ThreadsAssumption
<1>2. ASSUME Threads!IsPrime(n) PROVE Prime(n)
  <2>1. n > 1
    BY <1>2 DEF Threads!IsPrime
  <2>2. n \in 2..IntMax
    BY <1>1, <2>1
  <2> QED
    BY <1>2, <2>1, <2>2, PrimesAre DEF Prime
<1>3. ASSUME SquareFits(n), Prime(n) PROVE Threads!IsPrime(n)
  <2>1. PICK root \in 0 .. n + 1 : root * root > n /\ root * root <= IntMax
    BY <1>3 DEF SquareFits
  <2>2. n \in 2..IntMax /\ root \in Nat /\ \A d \in 2 .. n - 1 : n % d # 0
    BY <1>1, <1>3 DEF Prime
  <2> QED
    BY <2>1, <2>2, PrimesFound
<1>4. Threads!IsPrime(n) \in BOOLEAN /\ Prime(n) \in BOOLEAN
  BY DEF Threads!IsPrime, Prime
<1> QED
  BY <1>2, <1>3, <1>4 DEF Right

\* The child threads of src/lab9, for any width of an int: a number called prime is
\* one, a prime is called one as long as the next square fits, and a range is
\* searched to its end unless that is the largest int, when the search goes on for
\* ever; the series begins with 0 and 1 and goes on by its sums, and the sums are
\* right up to overflow; main reads through a null pointer for a series of no
\* numbers only.
THEOREM ChildrenRight == MCSpec => []ThreadsRight
<1>1. InputOK => ThreadsRight
  <2> SUFFICES ASSUME program = "threads", input # <<>>,
                      input \in Seq(-(IntMax + 1) .. IntMax)
               PROVE  ThreadsRight
    BY DEF InputOK, ThreadsRight
  <2> DEFINE n == Head(input)
             to == Last(input)
             count == IF n \in 0..MaxSeries THEN n ELSE 0
             series == Threads!Fibonacci(count)
             found == Threads!FindPrimes(n, to)
  <2>1. /\ n \in -(IntMax + 1) .. IntMax /\ n \in Int /\ to \in -(IntMax + 1) .. IntMax
        /\ IntMax \in Nat /\ input \in Seq(Int)
    <3>1. n = input[1] /\ to = input[Len(input)] /\ 1 \in 1..Len(input) /\ Len(input) \in 1..Len(input)
      BY DEF Last
    <3> QED
      BY <3>1, ThreadsAssumption
  <2>2. Right(n, Threads!IsPrime(n))
    BY <2>1, IsPrimeRight
  <2>3. ASSUME 0 <= n, n <= to
        PROVE  /\ Threads!LoopEnds(n, to) = (to # IntMax)
               /\ to # IntMax => found \subseteq n..to /\ \A x \in n..to : Right(x, x \in found)
    <3> HIDE DEF n, to
    <3>1. n \in 0..IntMax /\ to \in n..IntMax
      BY <2>1, <2>3
    <3>2. Threads!LoopEnds(n, to) = (to # IntMax)
      <4>1. Threads!LoopEnds(n, to) <=> to # IntMax
        BY <3>1, LoopEndIs
      <4>2. Threads!LoopEnds(n, to) \in BOOLEAN
        BY DEF Threads!LoopEnds
      <4> QED
        BY <4>1, <4>2
    <3>3. ASSUME to # IntMax
          PROVE  found \subseteq n..to /\ \A x \in n..to : Right(x, x \in found)
      <4>1. to \in n .. IntMax - 1
        BY <2>1, <3>1, <3>3
      <4>2. found = {i \in n..to : Threads!IsPrime(i)}
        BY <3>1, <4>1, RangeIs
      <4> HIDE DEF found
      <4>3. ASSUME NEW x \in n..to PROVE Right(x, x \in found)
        <5>1. x \in -(IntMax + 1) .. IntMax
          BY <2>1, <3>1
        <5>2. Right(x, Threads!IsPrime(x))
          BY <5>1, IsPrimeRight
        <5>3. Threads!IsPrime(x) \in BOOLEAN
          BY DEF Threads!IsPrime
        <5>4. (x \in found) = Threads!IsPrime(x)
          BY <4>2, <5>3
        <5> QED
          BY <5>2, <5>4
      <4> QED
        BY <4>2, <4>3
    <3> QED
      BY <3>2, <3>3
  <2>12. n >= 0 => Threads!LoopEnds(0, n) = (n # IntMax)
    <3> DEFINE zero == 0
    <3>1. zero \in 0..IntMax /\ (n >= zero => n \in zero..IntMax)
      BY <2>1
    <3>2. Threads!LoopEnds(zero, n) \in BOOLEAN
      BY DEF Threads!LoopEnds
    <3> HIDE DEF zero, n
    <3>3. n >= zero => (Threads!LoopEnds(zero, n) <=> n # IntMax)
      BY <3>1, LoopEndIs
    <3>4. n >= zero => Threads!LoopEnds(zero, n) = (n # IntMax)
      BY <3>2, <3>3
    <3> QED
      BY <3>4 DEF zero
  <2>4. count \in 0..MaxSeries /\ count \in Nat
    BY ThreadsAssumption
  <2> HIDE DEF n
  <2>5. count > 0 => /\ series \in [0 .. count - 1 -> Int]
                     /\ series # NULL
    <3> SUFFICES ASSUME count > 0 PROVE series \in [0 .. count - 1 -> Int] /\ series # NULL
      OBVIOUS
    <3>1. count \in Nat \ {0} /\ count \in 1..MaxSeries
      BY <2>4
    <3> HIDE DEF count
    <3>2. series \in [0 .. count - 1 -> Int]
      BY <3>1, SeriesIs
    <3> QED
      BY <3>1, <3>2, ThreadsAssumption
  <2>6. (series = NULL) <=> (count = 0)
    <3>1. count = 0 => series = NULL
      BY DEF Threads!Fibonacci
    <3> HIDE DEF series, count
    <3> QED
      BY <2>4, <2>5, <3>1
  <2>7. count > 0 => DOMAIN series = 0 .. count - 1
    <3> HIDE DEF series, count
    <3> QED
      BY <2>5
  <2>8. ASSUME NEW k \in 2 .. count - 1
        PROVE  (series[k] - (SumsOf(count, series)[k - 1] + 1)) % (2 * (IntMax + 1)) = 0
    <3> HIDE DEF count
    <3>1. count \in Nat \ {0} /\ count > 0 /\ count \in Nat
      BY <2>4
    <3>2. Same(series[k], SumsOf(count, series)[k - 1] + 1)
      BY <3>1, SeriesSums
    <3>3. series \in [0 .. count - 1 -> Int]
      BY <2>5, <3>1
    <3> HIDE DEF series
    <3>4. series[k] \in Int
      BY <3>1, <3>3
    <3>5. SumsOf(count, series)[k - 1] \in Int
      <4>1. k - 1 \in 0..count
        BY <3>1
      <4> QED
        BY <3>1, <3>3, <4>1, SumsOfIs
    <3>6. SumsOf(count, series)[k - 1] + 1 \in Int
      BY <3>5
    <3> QED
      BY <3>2, <3>4, <3>6, SameIs DEF Modulus
  <2>13. (count > 0 => series[0] = 0) /\ (count > 1 => series[1] = 1)
    <3> HIDE DEF count
    <3>1. count > 0 => series[0] = 0 /\ (count > 1 => series[1] = 1)
      BY <2>4, SeriesIs
    <3>2. count > 1 => count > 0
      BY <2>4
    <3> QED
      BY <3>1, <3>2
  <2>9. (Threads!SumRunner(count) - ((count * (count + 1)) \div 2)) % (2 * (IntMax + 1)) = 0
    <3> HIDE DEF count
    <3>1. (count * (count + 1)) \div 2 \in Int
      <4>1. count * (count + 1) \in Int
        BY <2>4
      <4> QED
        BY <4>1
    <3> QED
      BY <2>4, <3>1, SumRunnerIs, SameIs DEF Modulus
  <2>10. ((Threads!SumOf(input, 0) + Threads!SumOf(input, 1)) - TotalOf(input))
            % (2 * (IntMax + 1)) = 0
    BY <2>1, HalvesAre, SameIs DEF Modulus
  <2> HIDE DEF series, count, found
  <2>11. count > 0 => DOMAIN series = 0 .. count - 1
    BY <2>7
  <2> QED
    BY <2>2, <2>3, <2>6, <2>8, <2>9, <2>10, <2>11, <2>12, <2>13
       DEF ThreadsRight, n, to, count, series, found, Prime, SquareFits, Right, SumsOf, TotalOf
<1> QED
  BY <1>1, Typed, PTL

-----------------------------------------------------------------------------
(***************************************************************************)
(* Lines over a socket, for any bytes and any text.                        *)
(***************************************************************************)
Bytes == Seq(Int)

LEMMA QuotientIs ==
  ASSUME NEW x \in Nat, NEW c \in Nat \ {0}, NEW p \in Nat, NEW r \in 0 .. c - 1, x = c * p + r
  PROVE  x \div c = p
<1> DEFINE q == x \div c
           t == x % c
<1>1. q \in Int /\ t \in 0 .. c - 1 /\ x = c * q + t
  OBVIOUS
<1> HIDE DEF q, t
<1>2. ~(p >= q + 1)
  <2>1. SUFFICES ASSUME p >= q + 1 PROVE FALSE
    OBVIOUS
  <2>2. c * p >= c * (q + 1) /\ c * (q + 1) = c * q + c
    BY <1>1, <2>1
  <2> QED
    BY <1>1, <2>2
<1>3. ~(q >= p + 1)
  <2>1. SUFFICES ASSUME q >= p + 1 PROVE FALSE
    OBVIOUS
  <2>2. c * q >= c * (p + 1) /\ c * (p + 1) = c * p + c
    BY <1>1, <2>1
  <2> QED
    BY <1>1, <2>2
<1> QED
  BY <1>1, <1>2, <1>3 DEF q

LEMMA QuotientTwice ==
  ASSUME NEW x \in Nat, NEW a \in Nat \ {0}, NEW b \in Nat \ {0}
  PROVE  x \div (a * b) = (x \div a) \div b
<1> DEFINE q == x \div a
           r == x % a
           p == q \div b
           s == q % b
<1>1. q \in Nat /\ r \in 0 .. a - 1 /\ x = a * q + r
  OBVIOUS
<1> HIDE DEF q, r
<1>2. p \in Nat /\ s \in 0 .. b - 1 /\ q = b * p + s
  BY <1>1
<1> HIDE DEF p, s
<1>3. a * b \in Nat \ {0}
  OBVIOUS
<1>4. x = (a * b) * p + (a * s + r)
  <2>1. a * q = a * (b * p) + a * s
    BY <1>1, <1>2
  <2>2. a * (b * p) = (a * b) * p
    BY <1>2
  <2> QED
    BY <1>1, <1>2, <2>1, <2>2
<1>5. a * s + r \in 0 .. (a * b) - 1
  <2>1. a * s <= a * (b - 1) /\ a * (b - 1) = a * b - a
    BY <1>2
  <2> QED
    BY <1>1, <1>2, <2>1
<1> DEFINE c == a * b
           t == a * s + r
<1>6. x = c * p + t /\ c \in Nat \ {0} /\ t \in 0 .. c - 1
  BY <1>3, <1>4, <1>5
<1> HIDE DEF c, t
<1>7. x \div c = p
  BY <1>2, <1>6, QuotientIs
<1> QED
  BY <1>7 DEF c, p, q

LEMMA DivisionIs ==
  ASSUME NEW x \in Nat, NEW a \in Nat \ {0}
  PROVE  x \div a \in Nat /\ x % a \in Nat /\ x = a * (x \div a) + (x % a)
  OBVIOUS

\* What be32_to_u32 makes of u32_to_be32.
LEMMA DigitsAre ==
  ASSUME NEW x \in Nat, x < BYTE * BYTE * BYTE * BYTE
  PROVE  /\ Lines!U32ToBe32(x) \in Bytes /\ Len(Lines!U32ToBe32(x)) = 4
         /\ Lines!Be32ToU32(Lines!U32ToBe32(x)) = x
<1> DEFINE B == BYTE
           one == x \div B
           two == x \div (B * B)
           three == x \div (B * B * B)
<1>1. B \in Nat \ {0}
  BY WireAssumption
<1>2. B * B \in Nat \ {0} /\ B * B * B \in Nat \ {0} /\ B * B * B = (B * B) * B
  BY <1>1
<1>3. two = one \div B
  <2> HIDE DEF B
  <2> QED
    BY <1>1, QuotientTwice
<1>4. three = two \div B
  <2> DEFINE bb == B * B
  <2>1. bb \in Nat \ {0} /\ three = x \div (bb * B) /\ two = x \div bb
    BY <1>2
  <2> HIDE DEF B, bb, three, two
  <2> QED
    BY <1>1, <2>1, QuotientTwice
<1>5. one \in Nat /\ x % B \in Nat /\ x = B * one + (x % B)
  <2> HIDE DEF B
  <2> QED
    BY <1>1, DivisionIs
<1>6. two \in Nat /\ one % B \in Nat /\ one = B * two + (one % B)
  <2> HIDE DEF B, one, two
  <2> QED
    BY <1>1, <1>3, <1>5, DivisionIs
<1>7. three \in Nat /\ two % B \in Nat /\ two = B * three + (two % B)
  <2> HIDE DEF B, one, two, three
  <2> QED
    BY <1>1, <1>4, <1>6, DivisionIs
<1> DEFINE d0 == x % B
           d1 == one % B
           d2 == two % B
<1> HIDE DEF one, two, three, d0, d1, d2
<1>8. /\ B \in Nat \ {0} /\ one \in Nat /\ two \in Nat /\ three \in Nat
      /\ d0 \in Nat /\ d1 \in Nat /\ d2 \in Nat
      /\ x = B * one + d0 /\ one = B * two + d1 /\ two = B * three + d2
  BY <1>1, <1>5, <1>6, <1>7 DEF d0, d1, d2
<1>9. x < B * B * B * B
  OBVIOUS
<1> HIDE DEF B
<1>10. x = three * (B * B * B) + d2 * (B * B) + d1 * B + d0
  <2>1. B * two = (B * B) * three + B * d2
    BY <1>8
  <2>2. B * one = B * (B * two) + B * d1
    BY <1>8
  <2>3. B * (B * two) = (B * B * B) * three + (B * B) * d2
    BY <1>8
  <2> QED
    BY <1>8, <2>2, <2>3
<1>11. three \in 0 .. B - 1
  <2>1. SUFFICES ASSUME three >= B PROVE FALSE
    BY <1>8
  <2>2. three * (B * B * B) >= B * (B * B * B)
    BY <1>8, <2>1
  <2>3. B * (B * B * B) = B * B * B * B
    BY <1>8
  <2>4. d2 * (B * B) \in Nat /\ d1 * B \in Nat
    BY <1>8
  <2> DEFINE t3 == three * (B * B * B)
             t2 == d2 * (B * B)
             t1 == d1 * B
             top == B * B * B * B
  <2>5. t3 \in Int /\ top \in Int /\ t3 >= top /\ t2 \in Nat /\ t1 \in Nat /\ x = t3 + t2 + t1 + d0
        /\ x < top
    BY <1>8, <1>9, <1>10, <2>2, <2>3, <2>4
  <2> HIDE DEF t3, t2, t1, top
  <2> QED
    BY <1>8, <2>5
<1>12. three % B = three
  BY <1>8, <1>11
<1>13. Lines!U32ToBe32(x) = <<three, d2, d1, d0>>
  BY <1>12 DEF Lines!U32ToBe32, three, two, one, d2, d1, d0, B
<1>14. Lines!Be32ToU32(<<three, d2, d1, d0>>) = x
  BY <1>10 DEF Lines!Be32ToU32, B
<1>15. <<three, d2, d1, d0>> \in Seq(Int) /\ Len(<<three, d2, d1, d0>>) = 4
  BY <1>8
<1> HIDE DEF three, d2, d1, d0
<1> QED
  BY <1>13, <1>14, <1>15 DEF Bytes

LEMMA XcryptIs ==
  ASSUME NEW b \in Bytes
  PROVE  /\ Lines!Xcrypt(b) \in Bytes /\ Len(Lines!Xcrypt(b)) = Len(b)
         /\ Lines!Xcrypt(Lines!Xcrypt(b)) = b
<1> DEFINE x == Lines!Xcrypt(b)
<1>1. BYTE \in Int /\ Len(b) \in Nat /\ DOMAIN b = 1..Len(b) /\ \A k \in 1..Len(b) : b[k] \in Int
  BY WireAssumption DEF Bytes
<1>2. x = [k \in 1..Len(b) |-> BYTE - 1 - b[k]]
  BY <1>1 DEF Lines!Xcrypt
<1>3. x \in Seq(Int) /\ Len(x) = Len(b) /\ DOMAIN x = 1..Len(b)
  BY <1>1, <1>2, IsASeq
<1> HIDE DEF x
<1>4. Lines!Xcrypt(x) = [k \in 1..Len(b) |-> BYTE - 1 - x[k]]
  BY <1>3 DEF Lines!Xcrypt
<1>5. \A k \in 1..Len(b) : BYTE - 1 - x[k] = b[k]
  BY <1>1, <1>2
<1>6. b = [k \in 1..Len(b) |-> b[k]]
  BY <1>1 DEF Bytes
<1>7. Lines!Xcrypt(x) = b
  BY <1>4, <1>5, <1>6
<1> QED
  BY <1>3, <1>7 DEF Bytes, x

-----------------------------------------------------------------------------
LEMMA LeastOfThree ==
  ASSUME NEW a \in Int, NEW b \in Int, NEW c \in Int
  PROVE  /\ Lines!Min({a, b, c}) \in {a, b, c}
         /\ Lines!Min({a, b, c}) <= a /\ Lines!Min({a, b, c}) <= b /\ Lines!Min({a, b, c}) <= c
<1> DEFINE S == {a, b, c}
<1>1. \E l \in S : \A j \in S : l <= j
  <2>1. CASE a <= b /\ a <= c
    BY <2>1
  <2>2. CASE b <= a /\ b <= c
    BY <2>2
  <2>3. CASE c <= a /\ c <= b
    BY <2>3
  <2> QED
    BY <2>1, <2>2, <2>3
<1>2. Lines!Min(S) \in S /\ \A j \in S : Lines!Min(S) <= j
  <2> HIDE DEF S
  <2> QED
    BY <1>1 DEF Lines!Min
<1> QED
  BY <1>2

Least(a, b) == IF a <= b THEN a ELSE b

\* read_exact gets what it asks for or all there is, whatever portions it comes in.
LEMMA ReadIs ==
  ASSUME NEW stream \in Bytes, NEW count \in Nat, NEW pace \in Seq(Nat \ {0}),
         NEW reset \in BOOLEAN, count <= Len(pace)
  PROVE  LET got == Least(count, Len(stream))
         IN  Lines!ReadExact(stream, count, pace, reset)
               = [n |-> IF got < count /\ reset THEN -1 ELSE got, bytes |-> SubSeq(stream, 1, got)]
<1> DEFINE n == Len(pace)
           size == Len(stream)
           got == Least(count, size)
           Part(k, x) == Lines!Min({pace[k], count - x, size - x})
           F(f) == [k \in 0..n |-> IF k = 0 THEN 0 ELSE f[k - 1] + Part(k, f[k - 1])]
           total == CHOOSE f : f = F(f)
           step == [z \in (1..n) \X Int |-> z[2] + Part(z[1], z[2])]
<1>1. n \in Nat /\ size \in Nat /\ \A k \in 1..n : pace[k] \in Nat \ {0}
  BY DEF Bytes
<1>2. Lines!ReadExact(stream, count, pace, reset)
        = [n |-> IF total[n] < count /\ reset THEN -1 ELSE total[n],
           bytes |-> SubSeq(stream, 1, total[n])]
  BY DEF Lines!ReadExact
<1> HIDE DEF n, size
<1>3. \A k \in 1..n, x \in Int : /\ Part(k, x) \in {pace[k], count - x, size - x}
                                 /\ Part(k, x) <= pace[k]
                                 /\ Part(k, x) <= count - x /\ Part(k, x) <= size - x
                                 /\ Part(k, x) \in Int
  <2> SUFFICES ASSUME NEW k \in 1..n, NEW x \in Int
               PROVE  /\ Part(k, x) \in {pace[k], count - x, size - x}
                      /\ Part(k, x) <= pace[k]
                      /\ Part(k, x) <= count - x /\ Part(k, x) <= size - x
                      /\ Part(k, x) \in Int
    OBVIOUS
  <2>1. pace[k] \in Int /\ count - x \in Int /\ size - x \in Int
    BY <1>1
  <2>2. /\ Part(k, x) \in {pace[k], count - x, size - x}
        /\ Part(k, x) <= pace[k] /\ Part(k, x) <= count - x /\ Part(k, x) <= size - x
    BY <2>1, LeastOfThree
  <2> QED
    BY <2>1, <2>2
<1> HIDE DEF Part
<1>4. step \in [(1..n) \X Int -> Int]
  <2>1. \A k \in 1..n, x \in Int : x + Part(k, x) \in Int
    BY <1>3
  <2>2. \A z \in (1..n) \X Int : z[1] \in 1..n /\ z[2] \in Int
    OBVIOUS
  <2> QED
    BY <2>1, <2>2
<1>5. \A k \in 1..n, x \in Int : step[<<k, x>>] = x + Part(k, x)
  OBVIOUS
<1> HIDE DEF step
<1>6. PICK u \in [0..n -> Int] : u[0] = 0 /\ \A k \in 1..n : u[k] = step[<<k, u[k - 1]>>]
  BY <1>1, <1>4, IntLoop
<1>7. u = F(u)
  <2>1. \A k \in 0..n : u[k] = IF k = 0 THEN 0 ELSE u[k - 1] + Part(k, u[k - 1])
    <3>1. ASSUME NEW k \in 1..n PROVE u[k] = u[k - 1] + Part(k, u[k - 1])
      <4>1. k - 1 \in 0..n /\ u[k - 1] \in Int
        BY <1>1
      <4> QED
        BY <1>5, <1>6, <4>1
    <3>2. \A k \in 0..n : k # 0 => k \in 1..n
      BY <1>1
    <3> QED
      BY <1>6, <3>1, <3>2
  <2> QED
    BY <2>1
<1>8. total = F(total)
  <2> HIDE DEF F
  <2> QED
    BY <1>7
<1> HIDE DEF total
<1>9. total[0] = 0 /\ \A k \in 1..n : total[k] = total[k - 1] + Part(k, total[k - 1])
  <2>1. 0 \in 0..n /\ \A k \in 1..n : k \in 0..n /\ k # 0
    BY <1>1
  <2>2. \A k \in 0..n : total[k] = IF k = 0 THEN 0 ELSE total[k - 1] + Part(k, total[k - 1])
    BY <1>8
  <2> QED
    BY <2>1, <2>2
<1>10. got \in Nat /\ got <= count /\ got <= size /\ (got = count \/ got = size)
  BY <1>1 DEF Least
<1> HIDE DEF got
<1> DEFINE G == {k \in 0..n : total[k] \in 0..got /\ (k <= total[k] \/ total[k] = got)}
<1>11. 0 \in G
  BY <1>1, <1>9, <1>10
<1>12. ASSUME NEW k \in 0 .. n - 1, k \in G PROVE k + 1 \in G
  <2> DEFINE j == k + 1
             x == total[k]
             y == Part(j, x)
  <2>1. j \in 1..n /\ j \in 0..n /\ j - 1 = k
    BY <1>1
  <2> HIDE DEF j
  <2>2. x \in Int /\ x \in 0..got /\ (k <= x \/ x = got)
    BY <1>12
  <2>3. total[j] = x + y
    BY <1>9, <2>1
  <2> HIDE DEF x
  <2>4. /\ y \in {pace[j], count - x, size - x} /\ y \in Int
        /\ y <= count - x /\ y <= size - x /\ pace[j] >= 1 /\ pace[j] \in Int
    <3>1. pace[j] \in Nat \ {0}
      BY <1>1, <2>1
    <3>2. /\ y \in {pace[j], count - x, size - x} /\ y \in Int
          /\ y <= count - x /\ y <= size - x
      BY <1>3, <2>1, <2>2
    <3> QED
      BY <3>1, <3>2
  <2> HIDE DEF y
  <2>5. total[j] \in 0..got /\ (j <= total[j] \/ total[j] = got)
    <3>1. j \in Int /\ j = k + 1 /\ k \in Int
      BY <1>1 DEF j
    <3>2. CASE y = pace[j]
      <4>1. y >= 1 /\ x + y <= count /\ x + y <= size /\ x # got
        BY <1>1, <1>10, <2>2, <2>4, <3>2
      <4> QED
        BY <1>1, <1>10, <2>2, <2>3, <2>4, <3>1, <4>1
    <3>3. CASE y = count - x
      BY <1>1, <1>10, <2>2, <2>3, <2>4, <3>1, <3>3
    <3>4. CASE y = size - x
      BY <1>1, <1>10, <2>2, <2>3, <2>4, <3>1, <3>4
    <3> QED
      BY <2>4, <3>2, <3>3, <3>4
  <2> QED
    BY <2>1, <2>5 DEF j
<1>13. \A k \in 0..n : k \in G
  <2> HIDE DEF G
  <2> QED
    BY <1>1, <1>11, <1>12, AfterEachTurn
<1>14. total[n] = got
  <2>1. n \in 0..n /\ count <= n
    BY <1>1 DEF n
  <2> QED
    BY <1>1, <1>10, <1>13, <2>1
<1> QED
  BY <1>2, <1>14 DEF got, size

-----------------------------------------------------------------------------
LEMMA SameBytes ==
  ASSUME NEW s \in Bytes, NEW t \in Bytes, Len(s) = Len(t), \A l \in 1..Len(s) : s[l] = t[l]
  PROVE  s = t
  BY DEF Bytes

\* A piece of a sequence of bytes, from behind the i-th to the j-th.
LEMMA PieceIs ==
  ASSUME NEW s \in Bytes, NEW i \in Nat, NEW j \in Nat, j <= Len(s)
  PROVE  /\ SubSeq(s, i + 1, j) \in Bytes
         /\ i <= j => Len(SubSeq(s, i + 1, j)) = j - i
         /\ j <= i => SubSeq(s, i + 1, j) = <<>>
         /\ \A l \in 1 .. j - i : SubSeq(s, i + 1, j)[l] = s[i + l]
<1> DEFINE first == i + 1
<1>1. first \in Int /\ j \in Int /\ \A l \in first..j : s[l] \in Int
  BY DEF Bytes
<1> HIDE DEF first
<1>2. /\ SubSeq(s, first, j) \in Seq(Int)
      /\ Len(SubSeq(s, first, j)) = IF first <= j THEN j - first + 1 ELSE 0
      /\ \A l \in 1 .. j - first + 1 : SubSeq(s, first, j)[l] = s[first + l - 1]
  BY <1>1, SubSeqProperties
<1>3. first = i + 1
  BY DEF first
<1>4. \A l \in 1 .. j - i : l \in 1 .. j - first + 1 /\ first + l - 1 = i + l
  BY <1>3
<1>5. j <= i => SubSeq(s, first, j) = <<>>
  BY <1>1, <1>3, SubSeqEmpty
<1>6. i <= j => Len(SubSeq(s, first, j)) = j - i
  BY <1>2, <1>3
<1> QED
  BY <1>2, <1>4, <1>5, <1>6 DEF Bytes, first

LEMMA PieceOfPiece ==
  ASSUME NEW s \in Bytes, NEW i \in Nat, NEW j \in Nat, i <= j, j <= Len(s),
         NEW a \in Nat, NEW b \in Nat, a <= b, b <= j - i
  PROVE  SubSeq(SubSeq(s, i + 1, j), a + 1, b) = SubSeq(s, (i + a) + 1, i + b)
<1> DEFINE p == SubSeq(s, i + 1, j)
           q == SubSeq(p, a + 1, b)
           r == SubSeq(s, (i + a) + 1, i + b)
<1>1. p \in Bytes /\ Len(p) = j - i /\ \A l \in 1 .. j - i : p[l] = s[i + l]
  BY PieceIs
<1> HIDE DEF p
<1>2. q \in Bytes /\ Len(q) = b - a /\ \A l \in 1 .. b - a : q[l] = p[a + l]
  BY <1>1, PieceIs
<1> DEFINE c == i + a
           d == i + b
<1>3. c \in Nat /\ d \in Nat /\ d <= Len(s) /\ c <= d /\ d - c = b - a /\ Len(s) \in Int
  BY DEF Bytes
<1>4. c = i + a /\ r = SubSeq(s, c + 1, d)
  OBVIOUS
<1> HIDE DEF c, d, q, r
<1>5. r \in Bytes /\ Len(r) = b - a /\ \A l \in 1 .. b - a : r[l] = s[c + l]
  <2>1. /\ SubSeq(s, c + 1, d) \in Bytes /\ Len(SubSeq(s, c + 1, d)) = d - c
        /\ \A l \in 1 .. d - c : SubSeq(s, c + 1, d)[l] = s[c + l]
    BY <1>3, PieceIs
  <2> QED
    BY <1>3, <1>4, <2>1
<1>6. ASSUME NEW l \in 1 .. b - a PROVE q[l] = r[l]
  <2>1. a + l \in 1 .. j - i /\ i + (a + l) = c + l
    BY <1>4
  <2> QED
    BY <1>1, <1>2, <1>5, <2>1
<1>7. q = r
  BY <1>2, <1>5, <1>6, SameBytes
<1> QED
  BY <1>7 DEF q, p, r

\* A piece of a beginning, and a beginning of a piece.
LEMMA PieceOfStart ==
  ASSUME NEW s \in Bytes, NEW j \in Nat, j <= Len(s), NEW a \in Nat, NEW b \in Nat, a <= b, b <= j
  PROVE  SubSeq(SubSeq(s, 1, j), a + 1, b) = SubSeq(s, a + 1, b)
<1> DEFINE i == 0
<1>1. i \in Nat /\ i <= j /\ b <= j - i /\ i + 1 = 1 /\ i + a = a /\ i + b = b
  OBVIOUS
<1> HIDE DEF i
<1>2. SubSeq(SubSeq(s, i + 1, j), a + 1, b) = SubSeq(s, (i + a) + 1, i + b)
  BY <1>1, PieceOfPiece
<1> QED
  BY <1>1, <1>2

LEMMA StartOfPiece ==
  ASSUME NEW s \in Bytes, NEW i \in Nat, NEW j \in Nat, i <= j, j <= Len(s),
         NEW b \in Nat, b <= j - i
  PROVE  SubSeq(SubSeq(s, i + 1, j), 1, b) = SubSeq(s, i + 1, i + b)
<1> DEFINE a == 0
<1>1. a \in Nat /\ a <= b /\ a + 1 = 1 /\ i + a = i
  OBVIOUS
<1> HIDE DEF a
<1>2. SubSeq(SubSeq(s, i + 1, j), a + 1, b) = SubSeq(s, (i + a) + 1, i + b)
  BY <1>1, PieceOfPiece
<1> QED
  BY <1>1, <1>2

LEMMA StartOfStart ==
  ASSUME NEW s \in Bytes, NEW j \in Nat, j <= Len(s), NEW b \in Nat, b <= j
  PROVE  SubSeq(SubSeq(s, 1, j), 1, b) = SubSeq(s, 1, b)
<1> DEFINE i == 0
<1>1. i \in Nat /\ i <= j /\ b <= j - i /\ i + 1 = 1 /\ i + b = b
  OBVIOUS
<1> HIDE DEF i
<1>2. SubSeq(SubSeq(s, i + 1, j), 1, b) = SubSeq(s, i + 1, i + b)
  BY <1>1, StartOfPiece
<1> QED
  BY <1>1, <1>2

\* All of it.
LEMMA PieceAll ==
  ASSUME NEW s \in Bytes
  PROVE  SubSeq(s, 1, Len(s)) = s
  BY SubSeqFull DEF Bytes

-----------------------------------------------------------------------------
\* A line as it is sent: its length fits into four bytes.
Short == {b \in Bytes : Len(b) < BYTE * BYTE * BYTE * BYTE}
Frame(b) == Lines!U32ToBe32(Len(b)) \o Lines!Xcrypt(b)

LEMMA FrameIsSent ==
  ASSUME NEW b \in Short
  PROVE  /\ Frame(b) \in Bytes /\ Len(Frame(b)) = 4 + Len(b) /\ Len(b) \in Nat
         /\ SubSeq(Frame(b), 1, 4) = Lines!U32ToBe32(Len(b))
         /\ SubSeq(Frame(b), 5, 4 + Len(b)) = Lines!Xcrypt(b)
<1> DEFINE h == Lines!U32ToBe32(Len(b))
           x == Lines!Xcrypt(b)
           f == h \o x
           n == Len(b)
<1>1. n \in Nat /\ n < BYTE * BYTE * BYTE * BYTE
  BY DEF Short, Bytes
<1>2. h \in Bytes /\ Len(h) = 4
  <2> HIDE DEF n
  <2>1. Lines!U32ToBe32(n) \in Bytes /\ Len(Lines!U32ToBe32(n)) = 4
    BY <1>1, DigitsAre
  <2> QED
    BY <2>1 DEF n
<1>3. x \in Bytes /\ Len(x) = n
  BY XcryptIs DEF Short
<1>4. Frame(b) = f
  BY DEF Frame
<1> HIDE DEF h, x, n
<1>5. f \in Seq(Int) /\ Len(f) = 4 + n /\ (\A l \in 1..4 : f[l] = h[l])
      /\ \A l \in 1..n : f[4 + l] = x[l]
  <2>1. f \in Seq(Int) /\ Len(f) = Len(h) + Len(x)
    BY <1>2, <1>3, ConcatProperties DEF Bytes
  <2>2. \A l \in 1 .. Len(h) + Len(x) : f[l] = IF l <= Len(h) THEN h[l] ELSE x[l - Len(h)]
    BY <1>2, <1>3, ConcatProperties DEF Bytes
  <2>3. \A l \in 1..4 : l \in 1 .. 4 + n /\ l <= 4
    BY <1>1
  <2>4. \A l \in 1..n : 4 + l \in 1 .. 4 + n /\ ~(4 + l <= 4) /\ (4 + l) - 4 = l
    BY <1>1
  <2> HIDE DEF f
  <2> QED
    BY <1>2, <1>3, <2>1, <2>2, <2>3, <2>4
<1> HIDE DEF f
<1> DEFINE none == 0
           four == 4
           all == 4 + n
<1>6. none \in Nat /\ four \in Nat /\ all \in Nat /\ f \in Bytes /\ Len(f) = all /\ four <= all /\ all <= Len(f)
      /\ none <= four /\ four - none = 4 /\ all - four = n /\ none + 1 = 1 /\ four + 1 = 5
  BY <1>1, <1>5 DEF Bytes
<1> HIDE DEF none, four, all
<1>7. LET p == SubSeq(f, none + 1, four)
      IN  p \in Bytes /\ Len(p) = 4 /\ \A l \in 1..4 : p[l] = f[none + l]
  <2>1. LET p == SubSeq(f, none + 1, four)
        IN  p \in Bytes /\ Len(p) = four - none /\ \A l \in 1 .. four - none : p[l] = f[none + l]
    BY <1>6, PieceIs
  <2> QED
    BY <1>6, <2>1
<1>8. LET p == SubSeq(f, four + 1, all)
      IN  p \in Bytes /\ Len(p) = n /\ \A l \in 1..n : p[l] = f[four + l]
  <2>1. LET p == SubSeq(f, four + 1, all)
        IN  p \in Bytes /\ Len(p) = all - four /\ \A l \in 1 .. all - four : p[l] = f[four + l]
    BY <1>6, PieceIs
  <2> QED
    BY <1>6, <2>1
<1>9. SubSeq(f, none + 1, four) = h
  <2> DEFINE p == SubSeq(f, none + 1, four)
  <2>1. p \in Bytes /\ Len(p) = 4 /\ \A l \in 1..4 : p[l] = h[l]
    <3>1. \A l \in 1..4 : none + l = l
      BY DEF none
    <3> QED
      BY <1>5, <1>7, <3>1
  <2> HIDE DEF p
  <2>2. p = h
    BY <1>2, <2>1, SameBytes
  <2> QED
    BY <2>2 DEF p
<1>10. SubSeq(f, four + 1, all) = x
  <2> DEFINE p == SubSeq(f, four + 1, all)
  <2>1. p \in Bytes /\ Len(p) = n /\ \A l \in 1..n : p[l] = x[l]
    BY <1>5, <1>8 DEF four
  <2> HIDE DEF p
  <2>2. p = x
    BY <1>3, <2>1, SameBytes
  <2> QED
    BY <2>2 DEF p
<1> QED
  BY <1>1, <1>4, <1>6, <1>9, <1>10 DEF h, x, n, none, four, all

-----------------------------------------------------------------------------
Paces == {p \in Seq(Nat \ {0}) : 4 <= Len(p)}

\* What the server has taken from a stream and what it has got.
Server(stream, messages) == [stream |-> stream, messages |-> messages]

\* A message that has arrived as a whole.
LEMMA WholeFrame ==
  ASSUME NEW stream \in Bytes, NEW b \in Short, b # <<>>, NEW messages,
         NEW pace \in Paces, Len(b) <= Len(pace), NEW reset \in BOOLEAN,
         4 + Len(b) <= Len(stream), SubSeq(stream, 1, 4 + Len(b)) = Frame(b)
  PROVE  Lines!ReceiveFrame(Server(stream, messages), pace, reset)
           = Server(SubSeq(stream, (4 + Len(b)) + 1, Len(stream)), Append(messages, b))
<1> DEFINE n == Len(b)
           size == Len(stream)
           four == 4
           all == four + n
           after == SubSeq(stream, four + 1, size)
<1>1. /\ Frame(b) \in Bytes /\ Len(Frame(b)) = 4 + n /\ n \in Nat /\ b \in Bytes
      /\ SubSeq(Frame(b), 1, 4) = Lines!U32ToBe32(n)
      /\ SubSeq(Frame(b), 5, 4 + n) = Lines!Xcrypt(b)
  BY FrameIsSent DEF Short
<1>2. n # 0 /\ n < BYTE * BYTE * BYTE * BYTE
  BY <1>1 DEF Short, Bytes
<1>3. /\ size \in Nat /\ all <= size /\ four \in Nat /\ all \in Nat /\ four <= all
      /\ four <= size /\ four + 1 = 5 /\ four = 4 /\ all = four + n
      /\ size <= Len(stream)
  <2>1. size \in Nat /\ n \in Nat /\ 4 + n <= size /\ size <= Len(stream)
    BY <1>1 DEF Bytes
  <2> HIDE DEF size, n
  <2> QED
    BY <2>1
<1>4. SubSeq(stream, 1, all) = Frame(b)
  OBVIOUS
<1>5. n \in Nat /\ four \in Nat /\ 4 <= Len(pace) /\ four <= Len(pace) /\ pace \in Seq(Nat \ {0})
  BY <1>1 DEF Paces
<1> HIDE DEF n, size, four, all
<1>6. SubSeq(stream, 1, four) = Lines!U32ToBe32(n)
  <2>1. SubSeq(SubSeq(stream, 1, all), 1, four) = SubSeq(stream, 1, four)
    BY <1>3, StartOfStart DEF size
  <2> QED
    BY <1>1, <1>3, <1>4, <2>1
<1>7. SubSeq(stream, four + 1, all) = Lines!Xcrypt(b)
  <2>1. SubSeq(SubSeq(stream, 1, all), four + 1, all) = SubSeq(stream, four + 1, all)
    BY <1>3, PieceOfStart DEF size
  <2> QED
    BY <1>1, <1>3, <1>4, <2>1
<1>8. Lines!ReadExact(stream, four, pace, reset) = [n |-> four, bytes |-> Lines!U32ToBe32(n)]
  <2>1. Least(four, size) = four /\ ~(four < four)
    BY <1>3 DEF Least
  <2>2. Lines!ReadExact(stream, four, pace, reset)
          = [n |-> IF four < four /\ reset THEN -1 ELSE four, bytes |-> SubSeq(stream, 1, four)]
    BY <1>5, <2>1, ReadIs DEF size
  <2> QED
    BY <1>3, <1>6, <2>1, <2>2
<1>9. after \in Bytes /\ Len(after) = size - four
  BY <1>3, PieceIs
<1>10. SubSeq(after, 1, n) = Lines!Xcrypt(b)
  <2>1. n <= size - four /\ four + n = all
    BY <1>3, <1>5
  <2>2. SubSeq(SubSeq(stream, four + 1, size), 1, n) = SubSeq(stream, four + 1, four + n)
    BY <1>3, <1>5, <2>1, StartOfPiece DEF size
  <2> QED
    BY <1>7, <2>1, <2>2
<1>11. SubSeq(after, n + 1, size - four) = SubSeq(stream, all + 1, size)
  <2>1. /\ n <= size - four /\ size - four \in Nat /\ four + n = all /\ four + (size - four) = size
        /\ size - four <= size - four
    BY <1>3, <1>5
  <2>2. SubSeq(SubSeq(stream, four + 1, size), n + 1, size - four)
          = SubSeq(stream, (four + n) + 1, four + (size - four))
    BY <1>3, <1>5, <2>1, PieceOfPiece DEF size
  <2> QED
    BY <2>1, <2>2
<1> HIDE DEF after
<1>12. Lines!ReadExact(after, n, pace, reset) = [n |-> n, bytes |-> Lines!Xcrypt(b)]
  <2>1. Least(n, Len(after)) = n /\ ~(n < n)
    BY <1>3, <1>5, <1>9 DEF Least
  <2>2. n <= Len(pace)
    BY DEF n
  <2>3. Lines!ReadExact(after, n, pace, reset)
          = [n |-> IF n < n /\ reset THEN -1 ELSE n, bytes |-> SubSeq(after, 1, n)]
    BY <1>5, <1>9, <2>1, <2>2, ReadIs
  <2> QED
    BY <1>3, <1>10, <2>1, <2>3
<1>13. Lines!Be32ToU32(Lines!U32ToBe32(n)) = n
  BY <1>2, <1>5, DigitsAre
<1>14. Lines!Xcrypt(Lines!Xcrypt(b)) = b
  BY <1>1, XcryptIs
<1> DEFINE s == Server(stream, messages)
           header == Lines!ReadExact(s.stream, 4, pace, reset)
           rest == SubSeq(s.stream, header.n + 1, Len(s.stream))
           msg_len == Lines!Be32ToU32(header.bytes)
           body == Lines!ReadExact(rest, msg_len, pace, reset)
<1>15. s.stream = stream /\ s.messages = messages
  BY DEF Server
<1>16. header.n = four /\ header.bytes = Lines!U32ToBe32(n)
  BY <1>3, <1>8, <1>15
<1>17. rest = after /\ msg_len = n
  BY <1>13, <1>15, <1>16 DEF after, size
<1> HIDE DEF header, rest, msg_len
<1>18. body.n = n /\ body.bytes = Lines!Xcrypt(b)
  BY <1>12, <1>17
<1>19. Lines!ReceiveFrame(s, pace, reset)
         = IF header.n < 4 \/ body.n <= 0 \/ body.n < msg_len THEN [s EXCEPT !.stream = <<>>]
           ELSE [stream |-> SubSeq(rest, msg_len + 1, Len(rest)),
                 messages |-> Append(s.messages, Lines!Xcrypt(body.bytes))]
  BY DEF Lines!ReceiveFrame, header, rest, msg_len
<1> HIDE DEF s, body
<1>20. ~(header.n < 4 \/ body.n <= 0 \/ body.n < msg_len)
  BY <1>2, <1>3, <1>5, <1>16, <1>17, <1>18
<1>21. Lines!ReceiveFrame(s, pace, reset)
         = [stream |-> SubSeq(stream, all + 1, size), messages |-> Append(messages, b)]
  BY <1>9, <1>11, <1>14, <1>15, <1>17, <1>18, <1>19, <1>20
<1> QED
  BY <1>21 DEF Server, s, all, size, n, four

\* A message that has not, or one without a byte.
LEMMA PartFrame ==
  ASSUME NEW stream \in Bytes, NEW b \in Short, NEW messages,
         NEW pace \in Paces, Len(b) <= Len(pace), NEW reset \in BOOLEAN,
         \/ Len(stream) < 4
         \/ SubSeq(stream, 1, 4) = Lines!U32ToBe32(Len(b)) /\ (b = <<>> \/ Len(stream) < 4 + Len(b))
  PROVE  Lines!ReceiveFrame(Server(stream, messages), pace, reset) = Server(<<>>, messages)
<1> DEFINE n == Len(b)
           size == Len(stream)
           four == 4
           s == Server(stream, messages)
           header == Lines!ReadExact(s.stream, four, pace, reset)
           rest == SubSeq(s.stream, header.n + 1, Len(s.stream))
           msg_len == Lines!Be32ToU32(header.bytes)
           body == Lines!ReadExact(rest, msg_len, pace, reset)
<1>1. s.stream = stream /\ s.messages = messages /\ [s EXCEPT !.stream = <<>>] = Server(<<>>, messages)
  BY DEF Server
<1>2. Lines!ReceiveFrame(s, pace, reset)
         = IF header.n < 4 \/ body.n <= 0 \/ body.n < msg_len THEN [s EXCEPT !.stream = <<>>]
           ELSE [stream |-> SubSeq(rest, msg_len + 1, Len(rest)),
                 messages |-> Append(s.messages, Lines!Xcrypt(body.bytes))]
  BY DEF Lines!ReceiveFrame
<1>3. /\ size \in Nat /\ n \in Nat /\ four \in Nat /\ four = 4 /\ four <= Len(pace)
      /\ pace \in Seq(Nat \ {0}) /\ n <= Len(pace) /\ n < BYTE * BYTE * BYTE * BYTE
      /\ (b = <<>> => n = 0) /\ size <= Len(stream)
  BY DEF Short, Bytes, Paces
<1>4. \/ size < four
      \/ /\ SubSeq(stream, 1, four) = Lines!U32ToBe32(n) /\ four <= size
         /\ n = 0 \/ size < four + n
  BY <1>3
<1> HIDE DEF n, size, four, s, rest, msg_len, body
<1>5. Lines!ReadExact(stream, four, pace, reset)
        = LET got == Least(four, size)
          IN  [n |-> IF got < four /\ reset THEN -1 ELSE got, bytes |-> SubSeq(stream, 1, got)]
  BY <1>3, ReadIs DEF size
<1>6. header.n = (IF Least(four, size) < four /\ reset THEN -1 ELSE Least(four, size))
      /\ header.bytes = SubSeq(stream, 1, Least(four, size))
  <2> DEFINE got == Least(four, size)
             n0 == IF got < four /\ reset THEN -1 ELSE got
             bytes0 == SubSeq(stream, 1, got)
  <2>1. header = Lines!ReadExact(stream, four, pace, reset)
    BY <1>1
  <2>2. header = [n |-> n0, bytes |-> bytes0]
    BY <1>5, <2>1
  <2> HIDE DEF header, n0, bytes0
  <2>3. header.n = n0 /\ header.bytes = bytes0
    BY <2>2
  <2> QED
    BY <2>3 DEF n0, bytes0
<1> HIDE DEF header
<1>7. CASE size < four
  <2>1. Least(four, size) = size
    BY <1>3, <1>7 DEF Least
  <2>2. header.n < 4
    BY <1>3, <1>6, <1>7, <2>1
  <2> QED
    BY <1>1, <1>2, <2>2 DEF s
<1>8. CASE SubSeq(stream, 1, four) = Lines!U32ToBe32(n) /\ four <= size /\ (n = 0 \/ size < four + n)
  <2>1. Least(four, size) = four /\ ~(four < four)
    BY <1>3, <1>8 DEF Least
  <2>2. header.n = four /\ header.bytes = Lines!U32ToBe32(n)
    BY <1>6, <1>8, <2>1
  <2>3. msg_len = n
    BY <1>3, <2>2, DigitsAre DEF msg_len
  <2>4. rest = SubSeq(stream, four + 1, size)
    BY <1>1, <2>2 DEF rest, size
  <2>5. rest \in Bytes /\ Len(rest) = size - four
    <3>1. /\ SubSeq(stream, four + 1, size) \in Bytes
          /\ Len(SubSeq(stream, four + 1, size)) = size - four
      BY <1>3, <1>8, PieceIs
    <3> QED
      BY <2>4, <3>1
  <2>6. Lines!ReadExact(rest, n, pace, reset)
          = LET got == Least(n, Len(rest))
            IN  [n |-> IF got < n /\ reset THEN -1 ELSE got, bytes |-> SubSeq(rest, 1, got)]
    BY <1>3, <2>5, ReadIs
  <2>7. body.n = IF Least(n, Len(rest)) < n /\ reset THEN -1 ELSE Least(n, Len(rest))
    BY <2>3, <2>6 DEF body
  <2>8. body.n <= 0 \/ body.n < msg_len
    <3>1. CASE n = 0
      <4>1. Least(n, Len(rest)) = 0
        BY <1>3, <1>8, <2>5, <3>1 DEF Least
      <4> QED
        BY <2>7, <3>1, <4>1
    <3>2. CASE size < four + n
      <4>1. Least(n, Len(rest)) = size - four /\ size - four < n
        BY <1>3, <1>8, <2>5, <3>2 DEF Least
      <4> QED
        BY <1>3, <1>8, <2>3, <2>7, <4>1
    <3> QED
      BY <1>8, <3>1, <3>2
  <2> QED
    BY <1>1, <1>2, <2>8 DEF s
<1> QED
  BY <1>4, <1>7, <1>8

-----------------------------------------------------------------------------
LEMMA SizesAre ==
  ASSUME NEW bodies \in Seq(Short)
  PROVE  LET sizes == Lines!Sizes(bodies)
         IN  /\ sizes[0] = 0
             /\ \A k \in 1..Len(bodies) : sizes[k] = sizes[k - 1] + 4 + Len(bodies[k])
             /\ \A k \in 0..Len(bodies) : sizes[k] \in Nat
<1> DEFINE n == Len(bodies)
           F(f) == [k \in 0..n |-> IF k = 0 THEN 0 ELSE f[k - 1] + 4 + Len(bodies[k])]
           size == CHOOSE f : f = F(f)
           step == [z \in (1..n) \X Int |-> z[2] + 4 + Len(bodies[z[1]])]
<1>1. n \in Nat /\ \A k \in 1..n : bodies[k] \in Short /\ Len(bodies[k]) \in Nat
  <2>1. n \in Nat /\ \A k \in 1..n : bodies[k] \in Short
    OBVIOUS
  <2> QED
    BY <2>1 DEF Short, Bytes
<1>2. Lines!Sizes(bodies) = size
  BY DEF Lines!Sizes
<1> HIDE DEF n
<1>3. step \in [(1..n) \X Int -> Int]
  <2>1. \A z \in (1..n) \X Int : z[2] + 4 + Len(bodies[z[1]]) \in Int
    BY <1>1
  <2> QED
    BY <2>1
<1>4. \A k \in 1..n, x \in Int : step[<<k, x>>] = x + 4 + Len(bodies[k])
  OBVIOUS
<1> HIDE DEF step
<1>5. PICK u \in [0..n -> Int] : u[0] = 0 /\ \A k \in 1..n : u[k] = step[<<k, u[k - 1]>>]
  BY <1>1, <1>3, IntLoop
<1>6. u = F(u)
  <2>1. \A k \in 0..n : u[k] = IF k = 0 THEN 0 ELSE u[k - 1] + 4 + Len(bodies[k])
    <3>1. ASSUME NEW k \in 1..n PROVE u[k] = u[k - 1] + 4 + Len(bodies[k])
      <4>1. k - 1 \in 0..n /\ u[k - 1] \in Int
        BY <1>1
      <4> QED
        BY <1>4, <1>5, <4>1
    <3>2. \A k \in 0..n : k # 0 => k \in 1..n
      BY <1>1
    <3> QED
      BY <1>5, <3>1, <3>2
  <2> QED
    BY <2>1
<1>7. size = F(size)
  <2> HIDE DEF F
  <2> QED
    BY <1>6
<1> HIDE DEF size
<1>8. size[0] = 0 /\ \A k \in 1..n : size[k] = size[k - 1] + 4 + Len(bodies[k])
  <2>1. 0 \in 0..n /\ \A k \in 1..n : k \in 0..n /\ k # 0
    BY <1>1
  <2>2. \A k \in 0..n : size[k] = IF k = 0 THEN 0 ELSE size[k - 1] + 4 + Len(bodies[k])
    BY <1>7
  <2> QED
    BY <2>1, <2>2
<1>9. \A k \in 0..n : size[k] \in Nat
  <2> DEFINE G == {k \in 0..n : size[k] \in Nat}
  <2>1. 0 \in G
    BY <1>1, <1>8
  <2>2. ASSUME NEW k \in 0 .. n - 1, k \in G PROVE k + 1 \in G
    <3>1. k + 1 \in 1..n /\ k + 1 \in 0..n /\ (k + 1) - 1 = k
      BY <1>1
    <3>2. Len(bodies[k + 1]) \in Nat /\ size[k] \in Nat
      BY <1>1, <2>2, <3>1
    <3>3. size[k + 1] = size[k] + 4 + Len(bodies[k + 1])
      BY <1>8, <3>1
    <3> QED
      BY <3>1, <3>2, <3>3
  <2>3. \A k \in 0..n : k \in G
    <3> HIDE DEF G
    <3> QED
      BY <1>1, <2>1, <2>2, AfterEachTurn
  <2> QED
    BY <2>3
<1> QED
  BY <1>2, <1>8, <1>9 DEF n

LEMMA SizesGrow ==
  ASSUME NEW bodies \in Seq(Short), NEW j \in 0..Len(bodies), NEW k \in 0..Len(bodies), j <= k
  PROVE  Lines!Sizes(bodies)[j] <= Lines!Sizes(bodies)[k]
<1> DEFINE n == Len(bodies)
           sizes == Lines!Sizes(bodies)
           G == {i \in 0..n : j <= i => sizes[j] <= sizes[i]}
<1>1. /\ n \in Nat
      /\ \A i \in 1..n : sizes[i] = sizes[i - 1] + 4 + Len(bodies[i])
      /\ \A i \in 0..n : sizes[i] \in Nat
  BY SizesAre
<1>2. \A i \in 1..n : Len(bodies[i]) \in Nat
  BY DEF Short, Bytes
<1> HIDE DEF sizes, n
<1>3. j \in 0..n /\ k \in 0..n
  BY DEF n
<1>4. 0 \in G
  BY <1>1, <1>3
<1>5. ASSUME NEW i \in 0 .. n - 1, i \in G PROVE i + 1 \in G
  <2>1. i + 1 \in 1..n /\ i + 1 \in 0..n /\ (i + 1) - 1 = i /\ i \in 0..n
    BY <1>1
  <2>2. sizes[i + 1] = sizes[i] + 4 + Len(bodies[i + 1]) /\ Len(bodies[i + 1]) \in Nat
        /\ sizes[i] \in Nat /\ sizes[i + 1] \in Nat /\ sizes[j] \in Nat
    BY <1>1, <1>2, <1>3, <2>1
  <2>3. CASE j <= i
    BY <1>5, <2>1, <2>2, <2>3
  <2>4. CASE ~(j <= i)
    <3>1. j <= i + 1 => j = i + 1
      BY <1>1, <1>3, <2>1, <2>4
    <3> QED
      BY <2>1, <2>2, <3>1
  <2> QED
    BY <2>3, <2>4
<1>6. \A i \in 0..n : i \in G
  <2> HIDE DEF G
  <2> QED
    BY <1>1, <1>4, <1>5, AfterEachTurn
<1> QED
  BY <1>3, <1>6 DEF sizes

LEMMA SizesLong ==
  ASSUME NEW bodies \in Seq(Short), NEW top \in 0..Len(bodies), \A k \in 1..top : bodies[k] # <<>>
  PROVE  \A k \in 0..top : 5 * k <= Lines!Sizes(bodies)[k]
<1> DEFINE n == Len(bodies)
           sizes == Lines!Sizes(bodies)
           G == {i \in 0..top : 5 * i <= sizes[i]}
<1>1. /\ n \in Nat /\ sizes[0] = 0
      /\ \A i \in 1..n : sizes[i] = sizes[i - 1] + 4 + Len(bodies[i])
      /\ \A i \in 0..n : sizes[i] \in Nat
  BY SizesAre
<1>2. \A i \in 1..n : Len(bodies[i]) \in Nat /\ (bodies[i] # <<>> => Len(bodies[i]) # 0)
  BY DEF Short, Bytes
<1> HIDE DEF sizes, n
<1>3. top \in 0..n /\ top \in Nat
  BY DEF n
<1>4. 0 \in G
  BY <1>1, <1>3
<1>5. ASSUME NEW i \in 0 .. top - 1, i \in G PROVE i + 1 \in G
  <2>1. i + 1 \in 1..n /\ i + 1 \in 1..top /\ i + 1 \in 0..top /\ (i + 1) - 1 = i /\ i \in 0..n
    BY <1>1, <1>3
  <2>2. sizes[i + 1] = sizes[i] + 4 + Len(bodies[i + 1]) /\ Len(bodies[i + 1]) \in Nat
        /\ Len(bodies[i + 1]) # 0 /\ sizes[i] \in Nat
    BY <1>1, <1>2, <2>1
  <2> DEFINE l == Len(bodies[i + 1])
             x == sizes[i]
             y == sizes[i + 1]
  <2>3. 5 * i <= x /\ y = x + 4 + l /\ l \in Nat \ {0} /\ x \in Nat
    BY <1>5, <2>2
  <2> HIDE DEF l, x, y
  <2>4. 5 * (i + 1) <= y
    BY <2>3
  <2> QED
    BY <2>1, <2>4 DEF y
<1>6. \A i \in 0..top : i \in G
  <2> HIDE DEF G
  <2> QED
    BY <1>3, <1>4, <1>5, AfterEachTurn
<1> QED
  BY <1>6 DEF sizes

-----------------------------------------------------------------------------
\* The stream in which the lines are sent, and what has arrived when it ends early.
Carries(sent, bodies) ==
    LET sizes == Lines!Sizes(bodies)
    IN  /\ sent \in Bytes /\ Len(sent) = sizes[Len(bodies)]
        /\ \A k \in 1..Len(bodies) : SubSeq(sent, sizes[k - 1] + 1, sizes[k]) = Frame(bodies[k])

UpToEmpty(bodies, upTo) ==
    /\ upTo \in 0..Len(bodies)
    /\ \A k \in 1..upTo : bodies[k] # <<>>
    /\ upTo < Len(bodies) => bodies[upTo + 1] = <<>>

Arrives(bodies, upTo, cut, arrived) ==
    LET sizes == Lines!Sizes(bodies)
    IN  /\ arrived \in 0..upTo /\ sizes[arrived] <= cut
        /\ \A k \in 0..upTo : sizes[k] <= cut => k <= arrived

\* The server when it has read r messages.
At(sent, bodies, cut, r) ==
    Server(SubSeq(sent, Lines!Sizes(bodies)[r] + 1, cut), SubSeq(bodies, 1, r))

Enough(bodies, pace) == \A k \in 1..Len(bodies) : Len(bodies[k]) <= Len(pace)

LEMMA OneMore ==
  ASSUME NEW S, NEW s \in Seq(S), NEW r \in 0 .. Len(s) - 1
  PROVE  Append(SubSeq(s, 1, r), s[r + 1]) = SubSeq(s, 1, r + 1)
<1> DEFINE one == 1
           j == r + 1
           p == SubSeq(s, 1, r)
<1>1. one \in 1..Len(s) /\ j \in one..Len(s) /\ j - 1 = r /\ one = 1 /\ r \in Int
      /\ \A i \in 1..r : s[i] \in S
  OBVIOUS
<1> HIDE DEF one, j
<1>2. SubSeq(s, one, j) = SubSeq(s, one, j - 1) \o <<s[j]>>
  BY <1>1, SubSeqRecursiveSecond
<1>3. p \in Seq(S)
  BY <1>1, SubSeqProperties
<1>4. s[j] \in S
  BY <1>1
<1> HIDE DEF p
<1>5. Append(p, s[j]) = p \o <<s[j]>>
  BY <1>3, <1>4, AppendIsConcat
<1> QED
  BY <1>1, <1>2, <1>5 DEF p, j

LEMMA NextArrives ==
  ASSUME NEW bodies \in Seq(Short), NEW sent, Carries(sent, bodies), NEW cut \in 0..Len(sent),
         NEW upTo, UpToEmpty(bodies, upTo), NEW arrived, Arrives(bodies, upTo, cut, arrived),
         NEW pace \in Paces, Enough(bodies, pace), NEW reset \in BOOLEAN, NEW r \in 0 .. arrived - 1
  PROVE  Lines!ReceiveFrame(At(sent, bodies, cut, r), pace, reset) = At(sent, bodies, cut, r + 1)
<1> DEFINE n == Len(bodies)
           sizes == Lines!Sizes(bodies)
           b == bodies[r + 1]
           from == sizes[r]
           to == sizes[r + 1]
           stream == SubSeq(sent, from + 1, cut)
<1>1. /\ n \in Nat /\ upTo \in 0..n /\ arrived \in 0..upTo
      /\ r + 1 \in 1..n /\ r + 1 \in 1..upTo /\ (r + 1) - 1 = r /\ r \in 0 .. n - 1
      /\ r + 1 \in 0..n /\ r \in 0..n /\ arrived \in 0..n /\ r + 1 <= arrived
  <2>1. n \in Nat /\ upTo \in 0..n /\ arrived \in 0..upTo
    BY DEF UpToEmpty, Arrives
  <2> HIDE DEF n
  <2> QED
    BY <2>1
<1>2. /\ from \in Nat /\ to \in Nat /\ to = from + 4 + Len(b)
      /\ to <= sizes[arrived] /\ sizes[arrived] \in Nat /\ sizes[arrived] <= cut
  <2>1. from \in Nat /\ to \in Nat /\ to = from + 4 + Len(b) /\ sizes[arrived] \in Nat
    BY <1>1, SizesAre
  <2>2. to <= sizes[arrived]
    BY <1>1, SizesGrow
  <2>3. sizes[arrived] <= cut
    BY DEF Arrives
  <2> QED
    BY <2>1, <2>2, <2>3
<1>3. b \in Short /\ b # <<>> /\ Len(b) \in Nat /\ Len(b) <= Len(pace)
  <2>1. b \in Short /\ b # <<>>
    BY <1>1 DEF UpToEmpty
  <2> QED
    BY <1>1, <2>1 DEF Short, Bytes, Enough
<1>4. sent \in Bytes /\ cut \in Nat /\ cut <= Len(sent)
      /\ SubSeq(sent, from + 1, to) = Frame(b)
  <2>1. sent \in Bytes /\ SubSeq(sent, from + 1, to) = Frame(b)
    BY <1>1 DEF Carries
  <2> QED
    BY <2>1 DEF Bytes
<1>6. At(sent, bodies, cut, r) = Server(stream, SubSeq(bodies, 1, r))
  BY DEF At
<1> HIDE DEF b, from, to, sizes
<1> DEFINE all == 4 + Len(b)
<1>5. /\ all \in Nat /\ from <= cut /\ to <= cut /\ all <= cut - from /\ from + all = to
      /\ cut - from \in Nat /\ from + (cut - from) = cut /\ cut - from <= cut - from
      /\ all <= cut - from
  BY <1>2, <1>3, <1>4
<1> HIDE DEF all
<1>7. stream \in Bytes /\ Len(stream) = cut - from
  BY <1>2, <1>4, <1>5, PieceIs
<1>8. SubSeq(stream, 1, all) = Frame(b)
  <2>1. SubSeq(SubSeq(sent, from + 1, cut), 1, all) = SubSeq(sent, from + 1, from + all)
    BY <1>2, <1>4, <1>5, StartOfPiece
  <2> QED
    BY <1>4, <1>5, <2>1
<1>9. SubSeq(stream, all + 1, cut - from) = SubSeq(sent, to + 1, cut)
  <2>1. SubSeq(SubSeq(sent, from + 1, cut), all + 1, cut - from)
          = SubSeq(sent, (from + all) + 1, from + (cut - from))
    BY <1>2, <1>4, <1>5, PieceOfPiece
  <2> QED
    BY <1>5, <2>1
<1> HIDE DEF stream
<1> DEFINE messages == SubSeq(bodies, 1, r)
<1>10. Append(messages, b) = SubSeq(bodies, 1, r + 1)
  BY <1>1, OneMore DEF b
<1> HIDE DEF messages
<1>11. Lines!ReceiveFrame(Server(stream, messages), pace, reset)
         = Server(SubSeq(stream, all + 1, Len(stream)), Append(messages, b))
  <2>1. 4 + Len(b) <= Len(stream) /\ SubSeq(stream, 1, 4 + Len(b)) = Frame(b)
    BY <1>5, <1>7, <1>8 DEF all
  <2> QED
    BY <1>3, <1>7, <2>1, WholeFrame DEF all
<1>12. At(sent, bodies, cut, r + 1) = Server(SubSeq(sent, to + 1, cut), SubSeq(bodies, 1, r + 1))
  BY DEF At, to, sizes
<1> QED
  BY <1>6, <1>7, <1>9, <1>10, <1>11, <1>12 DEF messages

LEMMA EmptyIsShort == <<>> \in Short
<1>1. BYTE * BYTE * BYTE * BYTE > 0
  <2>1. BYTE \in Nat \ {0}
    BY WireAssumption
  <2>2. BYTE * BYTE \in Nat \ {0} /\ BYTE * BYTE * BYTE \in Nat \ {0}
    BY <2>1
  <2> QED
    BY <2>1, <2>2
<1> QED
  BY <1>1 DEF Short, Bytes

\* The first message that has not arrived is the last that the server looks at.
LEMMA LastArrives ==
  ASSUME NEW bodies \in Seq(Short), NEW sent, Carries(sent, bodies), NEW cut \in 0..Len(sent),
         NEW upTo, UpToEmpty(bodies, upTo), NEW arrived, Arrives(bodies, upTo, cut, arrived),
         NEW pace \in Paces, Enough(bodies, pace), NEW reset \in BOOLEAN
  PROVE  Lines!ReceiveFrame(At(sent, bodies, cut, arrived), pace, reset)
           = Server(<<>>, SubSeq(bodies, 1, arrived))
<1> DEFINE n == Len(bodies)
           sizes == Lines!Sizes(bodies)
           from == sizes[arrived]
           stream == SubSeq(sent, from + 1, cut)
           messages == SubSeq(bodies, 1, arrived)
<1>1. /\ n \in Nat /\ upTo \in 0..n /\ arrived \in 0..upTo /\ arrived \in 0..n
      /\ \A k \in 0..n : sizes[k] \in Nat
  <2>1. n \in Nat /\ upTo \in 0..n /\ arrived \in 0..upTo
    BY DEF UpToEmpty, Arrives
  <2>2. \A k \in 0..n : sizes[k] \in Nat
    BY SizesAre
  <2> HIDE DEF n, sizes
  <2> QED
    BY <2>1, <2>2
<1>2. from \in Nat /\ from <= cut /\ sent \in Bytes /\ cut \in Nat /\ cut <= Len(sent)
      /\ Len(sent) = sizes[n]
  <2>1. sent \in Bytes /\ Len(sent) = sizes[n]
    BY DEF Carries
  <2>2. from <= cut
    BY DEF Arrives
  <2> QED
    BY <1>1, <2>1, <2>2 DEF Bytes
<1>3. At(sent, bodies, cut, arrived) = Server(stream, messages)
  BY DEF At
<1> HIDE DEF from
<1>4. stream \in Bytes /\ Len(stream) = cut - from
  BY <1>2, PieceIs
<1> HIDE DEF messages
<1>5. CASE Len(stream) < 4
  <2> DEFINE b == <<>>
  <2>1. b \in Short /\ Len(b) <= Len(pace)
    BY EmptyIsShort DEF Paces
  <2> HIDE DEF b, stream
  <2> QED
    BY <1>3, <1>4, <1>5, <2>1, PartFrame DEF messages
<1>6. CASE Len(stream) >= 4
  <2>1. arrived # n
    <3>1. arrived = n => cut - from <= 0
      BY <1>2 DEF from
    <3> HIDE DEF stream, n
    <3> QED
      BY <1>2, <1>4, <1>6, <3>1
  <2> DEFINE b == bodies[arrived + 1]
             to == sizes[arrived + 1]
             four == 4
  <2>2. /\ arrived + 1 \in 1..n /\ arrived + 1 \in 0..n /\ (arrived + 1) - 1 = arrived
        /\ arrived + 1 \in Nat
    <3> HIDE DEF n
    <3> QED
      BY <1>1, <2>1
  <2>3. b \in Short /\ Len(b) \in Nat /\ Len(b) <= Len(pace)
    <3>1. b \in Short
      BY <2>2
    <3> QED
      BY <2>2, <3>1 DEF Short, Bytes, Enough
  <2>4. to \in Nat /\ to = from + 4 + Len(b)
    BY <2>2, SizesAre DEF from
  <2>5. SubSeq(sent, from + 1, to) = Frame(b)
    BY <2>2 DEF Carries, from
  <2>6. to <= Len(sent)
    <3>1. sizes[arrived + 1] <= sizes[n]
      <4>1. n \in 0..n /\ arrived + 1 <= n
        BY <1>1, <2>2
      <4> QED
        BY <2>2, <4>1, SizesGrow
    <3> QED
      BY <1>2, <3>1
  <2>7. b = <<>> \/ cut < to
    <3>1. CASE arrived = upTo
      BY <1>1, <2>1, <3>1 DEF UpToEmpty
    <3>2. CASE arrived # upTo
      <4>1. arrived + 1 \in 0..upTo /\ ~(arrived + 1 <= arrived)
        BY <1>1, <3>2
      <4>2. ~(to <= cut)
        BY <4>1 DEF Arrives
      <4>3. cut \in Nat /\ to \in Nat
        BY <1>2, <2>4
      <4> HIDE DEF to, b
      <4> QED
        BY <4>2, <4>3
    <3> QED
      BY <3>1, <3>2
  <2>8. SubSeq(Frame(b), 1, 4) = Lines!U32ToBe32(Len(b))
    BY <2>3, FrameIsSent
  <2> HIDE DEF b, to, four
  <2>9. /\ four \in Nat /\ from <= to /\ four <= to - from /\ four <= cut - from /\ four = 4
        /\ cut < to => cut - from < 4 + Len(b)
    <3>1. four = 4
      BY DEF four
    <3> HIDE DEF stream
    <3> QED
      BY <1>2, <1>4, <1>6, <2>3, <2>4, <3>1
  <2>10. SubSeq(SubSeq(sent, from + 1, to), 1, four) = SubSeq(sent, from + 1, from + four)
    BY <1>2, <2>4, <2>6, <2>9, StartOfPiece
  <2>11. SubSeq(SubSeq(sent, from + 1, cut), 1, four) = SubSeq(sent, from + 1, from + four)
    BY <1>2, <2>9, StartOfPiece
  <2>12. SubSeq(stream, 1, 4) = Lines!U32ToBe32(Len(b))
    BY <2>5, <2>8, <2>9, <2>10, <2>11
  <2>13. b = <<>> \/ Len(stream) < 4 + Len(b)
    <3> HIDE DEF stream
    <3> QED
      BY <1>4, <2>7, <2>9
  <2> HIDE DEF stream
  <2> QED
    BY <1>3, <1>4, <2>3, <2>12, <2>13, PartFrame DEF messages
<1>7. Len(stream) < 4 \/ Len(stream) >= 4
  <2>1. Len(stream) \in Nat
    BY <1>4 DEF Bytes
  <2> HIDE DEF stream
  <2> QED
    BY <2>1
<1> QED
  BY <1>5, <1>6, <1>7

\* Having disconnected, the server reads nothing.
LEMMA NothingMore ==
  ASSUME NEW messages, NEW pace \in Paces, NEW reset \in BOOLEAN
  PROVE  Lines!ReceiveFrame(Server(<<>>, messages), pace, reset) = Server(<<>>, messages)
<1> DEFINE b == <<>>
<1>1. b \in Short /\ b \in Bytes /\ Len(b) < 4 /\ Len(b) <= Len(pace)
  BY EmptyIsShort DEF Paces, Bytes
<1> HIDE DEF b
<1>2. Lines!ReceiveFrame(Server(b, messages), pace, reset) = Server(<<>>, messages)
  BY <1>1, PartFrame
<1> QED
  BY <1>2 DEF b

\* The server gets what has arrived as a whole.
LEMMA ReceiveIs ==
  ASSUME NEW bodies \in Seq(Short), NEW sent, Carries(sent, bodies), NEW cut \in 0..Len(sent),
         NEW upTo, UpToEmpty(bodies, upTo), NEW arrived, Arrives(bodies, upTo, cut, arrived),
         NEW pace \in Paces, Enough(bodies, pace), NEW reset \in BOOLEAN
  PROVE  Lines!Receive(SubSeq(sent, 1, cut), pace, reset).messages = SubSeq(bodies, 1, arrived)
<1> DEFINE stream == SubSeq(sent, 1, cut)
           turns == Len(stream) \div 5 + 1
           done == Server(<<>>, SubSeq(bodies, 1, arrived))
           Read(s) == Lines!ReceiveFrame(s, pace, reset)
           F(f) == [t \in 0..turns |-> IF t = 0 THEN [stream |-> stream, messages |-> <<>>]
                                       ELSE Read(f[t - 1])]
           after == CHOOSE f : f = F(f)
           u == [t \in 0..turns |-> IF t <= arrived THEN At(sent, bodies, cut, t) ELSE done]
<1>1. Lines!Receive(stream, pace, reset) = after[turns]
  BY DEF Lines!Receive
<1>2. /\ sent \in Bytes /\ cut \in Nat /\ cut <= Len(sent) /\ Len(bodies) \in Nat
      /\ upTo \in 0..Len(bodies) /\ arrived \in 0..upTo /\ arrived \in Nat
      /\ Lines!Sizes(bodies)[arrived] <= cut
  BY DEF Carries, UpToEmpty, Arrives, Bytes
<1>3. stream \in Bytes /\ Len(stream) = cut
  <2> DEFINE none == 0
  <2>1. none \in Nat /\ none <= cut /\ none + 1 = 1 /\ cut - none = cut
    BY <1>2
  <2> HIDE DEF none
  <2>2. SubSeq(sent, none + 1, cut) \in Bytes /\ Len(SubSeq(sent, none + 1, cut)) = cut - none
    BY <1>2, <2>1, PieceIs
  <2> QED
    BY <2>1, <2>2
<1>4. At(sent, bodies, cut, 0) = [stream |-> stream, messages |-> <<>>]
  <2>1. Lines!Sizes(bodies)[0] = 0 /\ 0 + 1 = 1
    BY SizesAre
  <2>2. SubSeq(bodies, 1, 0) = <<>>
    BY SubSeqEmpty
  <2> QED
    BY <2>1, <2>2 DEF At, Server
<1> HIDE DEF stream
<1>5. turns \in Nat /\ arrived < turns /\ cut \div 5 \in Nat
  <2>1. cut \div 5 \in Nat /\ cut < 5 * (cut \div 5 + 1)
    BY <1>2
  <2>2. 5 * arrived <= cut
    <3>1. \A k \in 0..upTo : 5 * k <= Lines!Sizes(bodies)[k]
      BY SizesLong DEF UpToEmpty
    <3>2. Lines!Sizes(bodies)[arrived] \in Nat
      BY <1>2, SizesAre
    <3> QED
      BY <1>2, <3>1, <3>2
  <2> QED
    BY <1>2, <1>3, <2>1, <2>2
<1> HIDE DEF turns
<1>6. ASSUME NEW t \in 0 .. turns - 1 PROVE u[t + 1] = Read(u[t])
  <2>1. t \in 0..turns /\ t + 1 \in 0..turns
    BY <1>5
  <2>2. CASE t < arrived
    <3>1. t <= arrived /\ t + 1 <= arrived /\ t \in 0 .. arrived - 1
      BY <1>2, <1>5, <2>2
    <3>2. Read(At(sent, bodies, cut, t)) = At(sent, bodies, cut, t + 1)
      BY <3>1, NextArrives
    <3> HIDE DEF done, Read
    <3> QED
      BY <2>1, <3>1, <3>2
  <2>3. CASE t = arrived
    <3>1. t <= arrived /\ ~(t + 1 <= arrived)
      BY <1>2, <2>3
    <3>2. Read(At(sent, bodies, cut, arrived)) = done
      BY LastArrives
    <3> HIDE DEF done, Read
    <3> QED
      BY <2>1, <2>3, <3>1, <3>2
  <2>4. CASE t > arrived
    <3>1. ~(t <= arrived) /\ ~(t + 1 <= arrived)
      BY <1>2, <1>5, <2>4
    <3>2. Read(done) = done
      BY NothingMore
    <3> HIDE DEF done, Read
    <3> QED
      BY <2>1, <3>1, <3>2
  <2> QED
    BY <1>2, <1>5, <2>2, <2>3, <2>4
<1>7. u[0] = [stream |-> stream, messages |-> <<>>] /\ u[turns] = done
  <2>1. 0 \in 0..turns /\ turns \in 0..turns /\ 0 <= arrived /\ ~(turns <= arrived)
    BY <1>2, <1>5
  <2> HIDE DEF done
  <2> QED
    BY <1>4, <2>1
<1>8. u = F(u)
  <2>1. \A t \in 0..turns : u[t] = IF t = 0 THEN [stream |-> stream, messages |-> <<>>] ELSE Read(u[t - 1])
    <3>1. \A t \in 0..turns : t # 0 => t - 1 \in 0 .. turns - 1 /\ (t - 1) + 1 = t
      BY <1>5
    <3> HIDE DEF u, Read
    <3> QED
      BY <1>6, <1>7, <3>1
  <2>2. u = [t \in 0..turns |-> u[t]]
    OBVIOUS
  <2> HIDE DEF u, Read
  <2> QED
    BY <2>1, <2>2
<1> HIDE DEF u, Read
<1>9. after = F(after)
  <2> HIDE DEF F
  <2> QED
    BY <1>8
<1> HIDE DEF after
<1>10. after[0] = u[0] /\ \A t \in 0 .. turns - 1 : after[t + 1] = Read(after[t])
  <2>1. \A t \in 0..turns : after[t] = IF t = 0 THEN [stream |-> stream, messages |-> <<>>]
                                       ELSE Read(after[t - 1])
    BY <1>9
  <2>2. 0 \in 0..turns /\ \A t \in 0 .. turns - 1 : t + 1 \in 0..turns /\ t + 1 # 0 /\ (t + 1) - 1 = t
    BY <1>5
  <2> QED
    BY <1>7, <2>1, <2>2
<1> DEFINE G == {t \in 0..turns : after[t] = u[t]}
<1>11. 0 \in G
  BY <1>5, <1>10
<1>12. ASSUME NEW t \in 0 .. turns - 1, t \in G PROVE t + 1 \in G
  <2>1. t + 1 \in 0..turns
    BY <1>5
  <2> QED
    BY <1>6, <1>10, <1>12, <2>1
<1>13. \A t \in 0..turns : t \in G
  <2> HIDE DEF G
  <2> QED
    BY <1>5, <1>11, <1>12, AfterEachTurn
<1>14. after[turns] = done
  BY <1>5, <1>7, <1>13
<1> QED
  BY <1>1, <1>14 DEF Server, stream

-----------------------------------------------------------------------------
LEMMA PairIs ==
  ASSUME NEW A, NEW B, NEW z \in A \X B
  PROVE  z[1] \in A /\ z[2] \in B
  OBVIOUS

\* Two sequences of bytes in a row.
LEMMA JoinIs ==
  ASSUME NEW s \in Bytes, NEW t \in Bytes
  PROVE  /\ s \o t \in Bytes /\ Len(s \o t) = Len(s) + Len(t)
         /\ \A a \in Nat, b \in Nat :
              a <= b /\ b <= Len(s) => SubSeq(s \o t, a + 1, b) = SubSeq(s, a + 1, b)
         /\ SubSeq(s \o t, Len(s) + 1, Len(s) + Len(t)) = t
<1> DEFINE j == s \o t
           half == Len(s)
           n == Len(t)
<1>1. half \in Nat /\ n \in Nat
  BY DEF Bytes
<1>2. j \in Bytes /\ Len(j) = half + n /\ (\A l \in 1..half : j[l] = s[l])
      /\ \A l \in 1..n : j[half + l] = t[l]
  <2>1. j \in Bytes /\ Len(j) = half + n
    BY ConcatProperties DEF Bytes
  <2>2. \A l \in 1 .. half + n : j[l] = IF l <= half THEN s[l] ELSE t[l - half]
    BY ConcatProperties DEF Bytes
  <2> HIDE DEF j, half, n
  <2>3. \A l \in 1..half : l \in 1 .. half + n /\ l <= half
    BY <1>1
  <2>4. \A l \in 1..n : half + l \in 1 .. half + n /\ ~(half + l <= half) /\ (half + l) - half = l
    BY <1>1
  <2> QED
    BY <2>1, <2>2, <2>3, <2>4
<1> HIDE DEF j
<1>3. ASSUME NEW a \in Nat, NEW b \in Nat, a <= b, b <= half
      PROVE  SubSeq(j, a + 1, b) = SubSeq(s, a + 1, b)
  <2> DEFINE p == SubSeq(j, a + 1, b)
             q == SubSeq(s, a + 1, b)
  <2>1. b <= Len(j)
    <3> HIDE DEF half, n
    <3> QED
      BY <1>1, <1>2, <1>3
  <2>2. p \in Bytes /\ Len(p) = b - a /\ \A l \in 1 .. b - a : p[l] = j[a + l]
    BY <1>2, <1>3, <2>1, PieceIs
  <2>3. q \in Bytes /\ Len(q) = b - a /\ \A l \in 1 .. b - a : q[l] = s[a + l]
    BY <1>3, PieceIs
  <2> HIDE DEF p, q, half, n
  <2>4. \A l \in 1 .. b - a : a + l \in 1..half
    BY <1>1, <1>3
  <2>5. p = q
    BY <1>2, <2>2, <2>3, <2>4, SameBytes, ZenonT(40)
  <2> QED
    BY <2>5 DEF p, q
<1>4. SubSeq(j, half + 1, half + n) = t
  <2> DEFINE all == half + n
             p == SubSeq(j, half + 1, all)
  <2>1. all \in Nat /\ half <= all /\ all <= Len(j) /\ all - half = n
    <3> HIDE DEF half, n
    <3> QED
      BY <1>1, <1>2
  <2> HIDE DEF all
  <2>2. p \in Bytes /\ Len(p) = all - half /\ \A l \in 1 .. all - half : p[l] = j[half + l]
    BY <1>1, <1>2, <2>1, PieceIs
  <2> HIDE DEF p
  <2>3. p = t
    BY <1>2, <2>1, <2>2, SameBytes DEF n
  <2> QED
    BY <2>3 DEF p, all
<1> QED
  BY <1>2, <1>3, <1>4 DEF j, half, n

\* The lines sent so far.
Sent(bodies, sent) ==
    /\ sent \in [0..Len(bodies) -> Bytes] /\ sent[0] = <<>>
    /\ \A k \in 1..Len(bodies) : sent[k] = sent[k - 1] \o Frame(bodies[k])

LEMMA SentExists ==
  ASSUME NEW bodies \in Seq(Short)
  PROVE  \E sent : Sent(bodies, sent)
<1> DEFINE n == Len(bodies)
           next == [z \in (0 .. n - 1) \X Bytes |-> z[2] \o Frame(bodies[z[1] + 1])]
           base == <<>>
<1>1. n \in Nat /\ \A k \in 1..n : bodies[k] \in Short
  OBVIOUS
<1> HIDE DEF n
<1>2. next \in [(0 .. n - 1) \X Bytes -> Bytes]
  <2>1. ASSUME NEW z \in (0 .. n - 1) \X Bytes PROVE z[2] \o Frame(bodies[z[1] + 1]) \in Bytes
    <3>1. z[1] \in 0 .. n - 1 /\ z[2] \in Bytes
      BY PairIs
    <3>2. z[1] + 1 \in 1..n
      BY <1>1, <3>1
    <3>3. Frame(bodies[z[1] + 1]) \in Bytes
      BY <1>1, <3>2, FrameIsSent
    <3> QED
      BY <3>1, <3>3, JoinIs
  <2> QED
    BY <2>1
<1>3. base \in Bytes /\ base = <<>>
  BY DEF Bytes
<1>4. \A k \in 1..n, x \in Bytes : next[<<k - 1, x>>] = x \o Frame(bodies[k])
  <2> SUFFICES ASSUME NEW k \in 1..n, NEW x \in Bytes PROVE next[<<k - 1, x>>] = x \o Frame(bodies[k])
    OBVIOUS
  <2>1. k - 1 \in 0 .. n - 1 /\ (k - 1) + 1 = k
    BY <1>1
  <2>2. <<k - 1, x>> \in (0 .. n - 1) \X Bytes
    BY <2>1
  <2> QED
    BY <2>1, <2>2
<1> HIDE DEF next, base
<1>5. PICK u \in [0..n -> Bytes] : Turns(u, n, base, next)
  BY <1>1, <1>2, <1>3, TurnsExist
<1>6. u[0] = <<>>
  <2>1. 0 \in 0..n
    BY <1>1
  <2> QED
    BY <1>3, <1>5, <2>1 DEF Turns
<1>7. ASSUME NEW k \in 1..n PROVE u[k] = u[k - 1] \o Frame(bodies[k])
  <2>1. k \in 0..n /\ k # 0 /\ k - 1 \in 0..n
    BY <1>1
  <2>2. u[k] = next[<<k - 1, u[k - 1]>>]
    BY <1>5, <2>1 DEF Turns
  <2>3. u[k - 1] \in Bytes
    BY <2>1
  <2> QED
    BY <1>4, <2>2, <2>3
<1>8. Sent(bodies, u)
  BY <1>6, <1>7 DEF Sent, n
<1> QED
  BY <1>8

\* Each is found where the sizes of those before it say.
LEMMA SentCarries ==
  ASSUME NEW bodies \in Seq(Short), NEW sent, Sent(bodies, sent)
  PROVE  Carries(sent[Len(bodies)], bodies)
<1> DEFINE n == Len(bodies)
           sizes == Lines!Sizes(bodies)
           G == {k \in 0..n : /\ Len(sent[k]) = sizes[k]
                              /\ \A i \in 1..k : SubSeq(sent[k], sizes[i - 1] + 1, sizes[i])
                                                   = Frame(bodies[i])}
<1>1. /\ n \in Nat /\ sizes[0] = 0
      /\ \A k \in 1..n : sizes[k] = sizes[k - 1] + 4 + Len(bodies[k])
      /\ \A k \in 0..n : sizes[k] \in Nat
      /\ \A k \in 1..n : bodies[k] \in Short
  BY SizesAre
<1>2. sent \in [0..n -> Bytes] /\ sent[0] = <<>>
      /\ \A k \in 1..n : sent[k] = sent[k - 1] \o Frame(bodies[k])
  BY DEF Sent
<1>3. 0 \in G
  <2>1. Len(sent[0]) = sizes[0] /\ \A i \in 1..0 : FALSE
    BY <1>1, <1>2
  <2>2. 0 \in 0..n
    BY <1>1
  <2> HIDE DEF sizes, n
  <2> QED
    BY <2>1, <2>2
<1>4. \A j \in 0..n, k \in 0..n : j <= k => sizes[j] <= sizes[k]
  BY SizesGrow
<1> HIDE DEF sizes, n
<1>5. ASSUME NEW k \in 0 .. n - 1, k \in G PROVE k + 1 \in G
  <2> DEFINE b == bodies[k + 1]
             f == Frame(b)
             p == sent[k]
  <2>1. k + 1 \in 1..n /\ k + 1 \in 0..n /\ (k + 1) - 1 = k /\ k \in 0..n
    BY <1>1
  <2>2. /\ b \in Short /\ f \in Bytes /\ Len(f) = 4 + Len(b) /\ p \in Bytes
        /\ sent[k + 1] = p \o f /\ sizes[k + 1] = sizes[k] + 4 + Len(b) /\ Len(b) \in Nat
    BY <1>1, <1>2, <2>1, FrameIsSent
  <2>3. /\ Len(p) = sizes[k]
        /\ \A i \in 1..k : SubSeq(p, sizes[i - 1] + 1, sizes[i]) = Frame(bodies[i])
    BY <1>5
  <2> HIDE DEF b, f, p
  <2>4. sizes[k + 1] = Len(p) + Len(f) /\ sizes[k] \in Nat /\ sizes[k + 1] \in Nat
    <3>1. sizes[k] \in Nat /\ sizes[k + 1] \in Nat
      BY <1>1, <2>1
    <3> DEFINE l == Len(b)
               x == sizes[k]
               y == sizes[k + 1]
               w == Len(f)
    <3>2. x \in Nat /\ l \in Nat /\ y = x + 4 + l /\ w = 4 + l /\ Len(p) = x
      BY <2>2, <2>3, <3>1
    <3> HIDE DEF l, x, y, w
    <3>3. y = Len(p) + w
      BY <3>2
    <3> QED
      BY <3>1, <3>3 DEF x, y, w
  <2>5. Len(p \o f) = sizes[k + 1]
    BY <2>2, <2>4, JoinIs
  <2>6. ASSUME NEW i \in 1 .. k + 1
        PROVE  SubSeq(p \o f, sizes[i - 1] + 1, sizes[i]) = Frame(bodies[i])
    <3>1. CASE i = k + 1
      <4>1. SubSeq(p \o f, Len(p) + 1, Len(p) + Len(f)) = f
        BY <2>2, JoinIs
      <4> QED
        BY <2>1, <2>3, <2>4, <3>1, <4>1 DEF f, b
    <3>2. CASE i # k + 1
      <4>1. i \in 1..k /\ i - 1 \in 0..n /\ i \in 0..n /\ i - 1 <= i /\ i <= k
        BY <1>1, <3>2
      <4>2. sizes[i - 1] \in Nat /\ sizes[i] \in Nat /\ sizes[i - 1] <= sizes[i] /\ sizes[i] <= Len(p)
        BY <1>1, <1>4, <2>1, <2>3, <4>1
      <4>3. SubSeq(p \o f, sizes[i - 1] + 1, sizes[i]) = SubSeq(p, sizes[i - 1] + 1, sizes[i])
        <5> DEFINE a == sizes[i - 1]
                   c == sizes[i]
        <5>1. a \in Nat /\ c \in Nat /\ a <= c /\ c <= Len(p)
          BY <4>2
        <5> HIDE DEF a, c
        <5>2. SubSeq(p \o f, a + 1, c) = SubSeq(p, a + 1, c)
          BY <2>2, <5>1, JoinIs
        <5> QED
          BY <5>2 DEF a, c
      <4> QED
        BY <2>3, <4>1, <4>3
    <3> QED
      BY <3>1, <3>2
  <2> QED
    BY <2>1, <2>2, <2>5, <2>6
<1>6. \A k \in 0..n : k \in G
  <2> HIDE DEF G
  <2> QED
    BY <1>1, <1>3, <1>5, AfterEachTurn
<1>7. n \in 0..n
  BY <1>1
<1> QED
  BY <1>2, <1>6, <1>7 DEF Carries, n, sizes

-----------------------------------------------------------------------------
LEMMA SameCardinality ==
  ASSUME NEW S
  PROVE  Lines!Cardinality(S) = Cardinality(S)
  BY DEF Lines!Cardinality, Cardinality

\* How many lines end up to a place.
Upto(text, p) == {e \in Lines!Ends(text) : e <= p}
Count(text, p) == Cardinality(Upto(text, p))

LEMMA EndsIs ==
  ASSUME NEW text \in Bytes
  PROVE  /\ \A p : p \in Lines!Ends(text)
                     <=> p \in 1..Len(text) /\ (text[p] = NewLine \/ p = Len(text))
         /\ Lines!Ends(text) \subseteq 1..Len(text) /\ IsFiniteSet(Lines!Ends(text))
         /\ Len(text) \in Nat
<1>1. Len(text) \in Nat /\ DOMAIN text = 1..Len(text)
  BY DEF Bytes
<1>2. \A p : p \in Lines!Ends(text)
               <=> p \in 1..Len(text) /\ (text[p] = NewLine \/ p = Len(text))
  BY <1>1 DEF Lines!Ends
<1>3. IsFiniteSet(1..Len(text))
  <2> DEFINE n == Len(text)
             one == 1
  <2>1. n \in Int /\ one \in Int
    BY <1>1
  <2> HIDE DEF n, one
  <2>2. IsFiniteSet(one..n)
    BY <2>1, FS_Interval
  <2> QED
    BY <2>2 DEF n, one
<1>4. Lines!Ends(text) \subseteq 1..Len(text)
  BY <1>2
<1>5. IsFiniteSet(Lines!Ends(text))
  BY <1>3, <1>4, FS_Subset
<1> QED
  BY <1>1, <1>2, <1>4, <1>5

LEMMA CountIs ==
  ASSUME NEW text \in Bytes
  PROVE  /\ Count(text, 0) = 0
         /\ \A p \in 0..Len(text) : Count(text, p) \in 0..p
         /\ \A p \in 0 .. Len(text) - 1 :
              Count(text, p + 1) = IF p + 1 \in Lines!Ends(text) THEN Count(text, p) + 1
                                   ELSE Count(text, p)
         /\ Count(text, Len(text)) = Cardinality(Lines!Ends(text))
<1> DEFINE E == Lines!Ends(text)
           n == Len(text)
<1>1. n \in Nat /\ E \subseteq 1..n /\ IsFiniteSet(E)
  BY EndsIs
<1> HIDE DEF E, n
<1>2. \A p : IsFiniteSet(Upto(text, p)) /\ Upto(text, p) = {e \in E : e <= p}
  <2> SUFFICES ASSUME NEW p PROVE IsFiniteSet(Upto(text, p)) /\ Upto(text, p) = {e \in E : e <= p}
    OBVIOUS
  <2>1. Upto(text, p) = {e \in E : e <= p}
    BY DEF Upto, E
  <2>2. Upto(text, p) \subseteq E
    BY <2>1
  <2> QED
    BY <1>1, <2>1, <2>2, FS_Subset
<1>3. Count(text, 0) = 0
  <2>2. Upto(text, 0) = {e \in E : e <= 0} /\ \A e \in E : ~(e <= 0)
    BY <1>1, <1>2
  <2>1. Upto(text, 0) = {}
    BY <2>2
  <2> QED
    BY <2>1, FS_EmptySet DEF Count
<1>4. ASSUME NEW p \in 0 .. n - 1
      PROVE  Count(text, p + 1) = IF p + 1 \in E THEN Count(text, p) + 1 ELSE Count(text, p)
  <2> DEFINE U == Upto(text, p)
             V == Upto(text, p + 1)
             q == p + 1
  <2>1. U = {e \in E : e <= p} /\ V = {e \in E : e <= q} /\ IsFiniteSet(U)
    BY <1>2
  <2>2. /\ \A e \in E : e <= q <=> e <= p \/ e = q
        /\ ~(q <= p)
    BY <1>1
  <2>4. Count(text, p) = Cardinality(U) /\ Count(text, p + 1) = Cardinality(V)
    BY DEF Count
  <2> HIDE DEF U, V, q
  <2>3. CASE q \in E
    <3>1. V = U \cup {q} /\ q \notin U
      BY <2>1, <2>2, <2>3
    <3>2. Cardinality(U \cup {q}) = Cardinality(U) + 1
      BY <2>1, <3>1, FS_AddElement
    <3> QED
      BY <2>3, <2>4, <3>1, <3>2 DEF q
  <2>5. CASE q \notin E
    <3>1. V = U
      BY <2>1, <2>2, <2>5
    <3> QED
      BY <2>4, <2>5, <3>1 DEF q
  <2> QED
    BY <2>3, <2>5
<1>5. Count(text, n) = Cardinality(E)
  <2>2. Upto(text, n) = {e \in E : e <= n} /\ \A e \in E : e <= n
    BY <1>1, <1>2
  <2>1. Upto(text, n) = E
    BY <2>2
  <2> QED
    BY <2>1 DEF Count
<1> DEFINE G == {p \in 0..n : Count(text, p) \in 0..p}
<1>6. 0 \in G
  BY <1>1, <1>3
<1>7. ASSUME NEW p \in 0 .. n - 1, p \in G PROVE p + 1 \in G
  <2> DEFINE c == Count(text, p)
             d == Count(text, p + 1)
  <2>1. c \in 0..p /\ (d = c + 1 \/ d = c)
    BY <1>4, <1>7
  <2> HIDE DEF c, d
  <2>2. d \in 0 .. p + 1 /\ p + 1 \in 0..n
    BY <1>1, <2>1
  <2> QED
    BY <2>2 DEF d
<1>8. \A p \in 0..n : p \in G
  <2> HIDE DEF G
  <2> QED
    BY <1>1, <1>6, <1>7, AfterEachTurn
<1> QED
  BY <1>3, <1>4, <1>5, <1>8 DEF E, n

LEMMA CountGrows ==
  ASSUME NEW text \in Bytes, NEW j \in 0..Len(text), NEW k \in 0..Len(text), j <= k
  PROVE  Count(text, j) <= Count(text, k)
<1> DEFINE n == Len(text)
           c == [i \in 0..n |-> Count(text, i)]
           G == {i \in 0..n : j <= i => c[j] <= c[i]}
<1>1. n \in Nat /\ j \in 0..n /\ k \in 0..n
  BY EndsIs
<1>2. \A i \in 0..n : c[i] \in Nat
  <2>1. \A i \in 0..n : Count(text, i) \in 0..i
    BY CountIs
  <2> HIDE DEF n
  <2> QED
    BY <1>1, <2>1
<1>3. \A i \in 0 .. n - 1 : c[i + 1] = c[i] + 1 \/ c[i + 1] = c[i]
  <2>1. \A i \in 0 .. n - 1 : Count(text, i + 1) = Count(text, i) + 1
                              \/ Count(text, i + 1) = Count(text, i)
    BY CountIs
  <2>2. \A i \in 0 .. n - 1 : i \in 0..n /\ i + 1 \in 0..n
    BY <1>1
  <2> HIDE DEF n
  <2> QED
    BY <2>1, <2>2
<1>4. c[j] = Count(text, j) /\ c[k] = Count(text, k)
  BY <1>1
<1> HIDE DEF c, n
<1>5. 0 \in G
  BY <1>1, <1>2
<1>6. ASSUME NEW i \in 0 .. n - 1, i \in G PROVE i + 1 \in G
  <2>1. i \in 0..n /\ i + 1 \in 0..n
    BY <1>1
  <2>2. c[i] \in Nat /\ c[j] \in Nat /\ c[i + 1] \in Nat
    BY <1>1, <1>2, <2>1
  <2>3. c[i] <= c[i + 1]
    BY <1>3, <2>2
  <2>4. CASE j <= i
    BY <1>6, <2>1, <2>2, <2>3, <2>4
  <2>5. CASE ~(j <= i)
    <3>1. j <= i + 1 => j = i + 1
      BY <1>1, <2>1, <2>5
    <3> QED
      BY <2>1, <2>2, <3>1
  <2> QED
    BY <2>4, <2>5
<1>7. \A i \in 0..n : i \in G
  <2> HIDE DEF G
  <2> QED
    BY <1>1, <1>5, <1>6, AfterEachTurn
<1> QED
  BY <1>1, <1>4, <1>7

\* Where the k-th line ends; the first begins where the zeroth would.
EndOf(text, k) ==
    CHOOSE p \in Lines!Ends(text) : Lines!Cardinality({e \in Lines!Ends(text) : e <= p}) = k
EndAt(text, k) == IF k = 0 THEN 0 ELSE EndOf(text, k)

LEMMA EndIs ==
  ASSUME NEW text \in Bytes, NEW k \in 1..Cardinality(Lines!Ends(text))
  PROVE  EndAt(text, k) \in Lines!Ends(text) /\ Count(text, EndAt(text, k)) = k
<1> DEFINE n == Len(text)
           E == Lines!Ends(text)
           last == Cardinality(E)
           G == {p \in 0..n : k <= Count(text, p) => \E q \in E : Count(text, q) = k}
<1>1. n \in Nat /\ n \in 0..n
  BY EndsIs
<1>2. Count(text, 0) = 0 /\ (\A p \in 0..n : Count(text, p) \in 0..p) /\ Count(text, n) = last
      /\ (\A p \in 0 .. n - 1 : Count(text, p + 1) = IF p + 1 \in E THEN Count(text, p) + 1
                                                     ELSE Count(text, p))
  BY CountIs
<1> HIDE DEF n, E
<1>3. last \in Nat /\ k \in 1..last
  <2>1. last \in 0..n
    BY <1>1, <1>2
  <2>2. k \in 1..last
    BY DEF E
  <2> HIDE DEF last
  <2> QED
    BY <1>1, <2>1, <2>2
<1> HIDE DEF last
<1>4. 0 \in G
  BY <1>1, <1>2, <1>3
<1>5. ASSUME NEW p \in 0 .. n - 1, p \in G PROVE p + 1 \in G
  <2> DEFINE c == Count(text, p)
             d == Count(text, p + 1)
  <2>1. p \in 0..n /\ p + 1 \in 0..n
    BY <1>1
  <2>2. c \in Nat /\ d = IF p + 1 \in E THEN c + 1 ELSE c
    <3>1. c \in 0..p /\ d = IF p + 1 \in E THEN c + 1 ELSE c
      BY <1>2, <2>1
    <3> HIDE DEF c, d
    <3> QED
      BY <3>1, <2>1
  <2>3. k <= c => \E q \in E : Count(text, q) = k
    BY <1>5
  <2>4. SUFFICES ASSUME k <= d PROVE \E q \in E : Count(text, q) = k
    BY <2>1
  <2> HIDE DEF c
  <2>5. k <= c \/ (p + 1 \in E /\ d = k)
    <3> HIDE DEF d
    <3> QED
      BY <1>3, <2>2, <2>4
  <2> QED
    BY <2>3, <2>5
<1>6. n \in G
  <2> HIDE DEF G
  <2> QED
    BY <1>1, <1>4, <1>5, AfterEachTurn
<1>7. \E q \in E : Count(text, q) = k
  <2>1. k <= last
    BY <1>3
  <2> QED
    BY <1>2, <1>6, <2>1
<1>8. \E q \in E : Lines!Cardinality({e \in E : e <= q}) = k
  <2>1. PICK q \in E : Count(text, q) = k
    BY <1>7
  <2>2. Lines!Cardinality(Upto(text, q)) = k
    BY <2>1, SameCardinality DEF Count
  <2> QED
    BY <2>1, <2>2 DEF Upto, E
<1>9. k # 0
  BY <1>3
<1>10. EndAt(text, k) = CHOOSE q \in E : Lines!Cardinality({e \in E : e <= q}) = k
  BY <1>9 DEF EndAt, EndOf, E
<1>11. EndAt(text, k) \in E /\ Lines!Cardinality({e \in E : e <= EndAt(text, k)}) = k
  BY <1>8, <1>10
<1>12. Lines!Cardinality(Upto(text, EndAt(text, k))) = k
  BY <1>11 DEF E, Upto
<1> QED
  BY <1>11, <1>12, SameCardinality DEF E, Count

\* The lines follow each other without a gap, from the first byte to the last.
LEMMA EndsFollow ==
  ASSUME NEW text \in Bytes
  PROVE  LET last == Cardinality(Lines!Ends(text))
         IN  /\ last \in 0..Len(text) /\ EndAt(text, 0) = 0 /\ EndAt(text, last) = Len(text)
             /\ \A k \in 0..last : EndAt(text, k) \in 0..Len(text)
             /\ \A k \in 1..last :
                  /\ EndAt(text, k - 1) < EndAt(text, k) /\ EndAt(text, k) \in Lines!Ends(text)
                  /\ \A e \in Lines!Ends(text) : EndAt(text, k - 1) < e => EndAt(text, k) <= e
<1> DEFINE n == Len(text)
           E == Lines!Ends(text)
           last == Cardinality(E)
           C(p) == Count(text, p)
<1>1. n \in Nat /\ n \in 0..n /\ E \subseteq 1..n /\ (n # 0 => n \in E)
  <2>1. n \in Nat /\ E \subseteq 1..n /\ \A p : p \in E <=> p \in 1..n /\ (text[p] = NewLine \/ p = n)
    BY EndsIs
  <2> HIDE DEF n, E
  <2>2. n # 0 => n \in 1..n
    BY <2>1
  <2>3. n \in 0..n
    BY <2>1
  <2> QED
    BY <2>1, <2>2, <2>3
<1>2. C(0) = 0 /\ (\A p \in 0..n : C(p) \in 0..p) /\ C(n) = last
      /\ (\A p \in 0 .. n - 1 : C(p + 1) = IF p + 1 \in E THEN C(p) + 1 ELSE C(p))
  BY CountIs
<1>3. \A j \in 0..n, k \in 0..n : j <= k => C(j) <= C(k)
  BY CountGrows
<1>4. \A k \in 1..last : EndAt(text, k) \in E /\ C(EndAt(text, k)) = k
  BY EndIs
<1>5. EndAt(text, 0) = 0
  BY DEF EndAt
<1>6. last \in 0..n
  BY <1>1, <1>2
<1> HIDE DEF n, E, C, last
\* A line that ends later is counted later.
<1>7. ASSUME NEW p \in 0..n, NEW e \in E, p < e PROVE C(p) < C(e)
  <2>1. e \in 1..n /\ e - 1 \in 0..n /\ e - 1 \in 0 .. n - 1 /\ (e - 1) + 1 = e /\ p <= e - 1
    BY <1>1, <1>7
  <2>2. C(p) <= C(e - 1) /\ C(e) = C(e - 1) + 1
    BY <1>2, <1>3, <2>1
  <2>3. C(p) \in Nat /\ C(e - 1) \in Nat
    <3>1. C(p) \in 0..p /\ C(e - 1) \in 0 .. e - 1
      BY <1>2, <2>1
    <3> QED
      BY <2>1, <3>1
  <2> QED
    BY <2>2, <2>3
<1>8. ASSUME NEW k \in 0..last PROVE EndAt(text, k) \in 0..n /\ C(EndAt(text, k)) = k
  <2>1. CASE k = 0
    BY <1>1, <1>2, <1>5, <2>1
  <2>2. CASE k # 0
    <3>1. k \in 1..last
      BY <1>6, <2>2
    <3>2. EndAt(text, k) \in E /\ C(EndAt(text, k)) = k
      BY <1>4, <3>1
    <3>3. \A p \in 1..n : p \in 0..n
      BY <1>1
    <3> QED
      BY <1>1, <3>2, <3>3
  <2> QED
    BY <2>1, <2>2
<1>9. ASSUME NEW k \in 1..last
      PROVE  /\ EndAt(text, k - 1) < EndAt(text, k) /\ EndAt(text, k) \in E
             /\ \A e \in E : EndAt(text, k - 1) < e => EndAt(text, k) <= e
  <2> DEFINE p == EndAt(text, k - 1)
             q == EndAt(text, k)
  <2>1. k - 1 \in 0..last /\ k \in 0..last /\ k - 1 < k /\ k \in Int
    BY <1>6
  <2>2. p \in 0..n /\ q \in 0..n /\ C(p) = k - 1 /\ C(q) = k /\ q \in E
    BY <1>4, <1>8, <2>1
  <2> HIDE DEF p, q
  <2>3. p < q
    <3>1. q <= p => C(q) <= C(p)
      BY <1>3, <2>2
    <3>2. ~(q <= p)
      BY <2>1, <2>2, <3>1
    <3> QED
      BY <1>1, <2>2, <3>2
  <2>4. ASSUME NEW e \in E, p < e PROVE q <= e
    <3>1. e \in 0..n
      BY <1>1
    <3>2. C(p) < C(e)
      BY <1>7, <2>2, <2>4
    <3>3. e < q => C(e) < C(q)
      BY <1>7, <2>2, <3>1
    <3>4. C(e) \in Int
      <4>1. C(e) \in 0..e
        BY <1>2, <3>1
      <4> QED
        BY <3>1, <4>1
    <3>5. ~(e < q)
      BY <2>1, <2>2, <3>2, <3>3, <3>4
    <3> QED
      BY <1>1, <2>2, <3>1, <3>5
  <2> QED
    BY <2>2, <2>3, <2>4 DEF p, q
<1>10. EndAt(text, last) = n
  <2> DEFINE q == EndAt(text, last)
  <2>1. last \in 0..last
    BY <1>1, <1>6
  <2>2. q \in 0..n /\ C(q) = last
    BY <1>8, <2>1
  <2> HIDE DEF q
  <2>3. ASSUME q < n PROVE FALSE
    <3>1. n \in E
      BY <1>1, <2>2, <2>3
    <3>2. C(q) < C(n)
      BY <1>7, <2>2, <2>3, <3>1
    <3> QED
      BY <1>1, <1>2, <1>6, <2>2, <3>2
  <2>4. q = n
    BY <1>1, <2>2, <2>3
  <2> QED
    BY <2>4 DEF q
<1> QED
  BY <1>5, <1>6, <1>8, <1>9, <1>10 DEF n, E, last

-----------------------------------------------------------------------------
\* A buffer with a line and room behind it, nothing stored outside.
Buffers == {b \in [n: Nat \ {0}, line: Bytes, inside: {TRUE}] : Len(b.line) <= b.n - 1}

LEMMA StoreIs ==
  ASSUME NEW b \in Buffers, NEW c \in Int
  PROVE  Lines!StoreChar(b, c) \in Buffers /\ Lines!StoreChar(b, c).line = Append(b.line, c)
<1> DEFINE k == IF Len(b.line) >= b.n - 1 THEN b.n * 2 ELSE b.n
           l == Len(b.line)
           r == Lines!StoreChar(b, c)
<1>1. b.n \in Nat \ {0} /\ b.line \in Bytes /\ b.inside = TRUE /\ l <= b.n - 1 /\ l \in Nat
  <2>1. b.n \in Nat \ {0} /\ b.line \in Bytes /\ b.inside = TRUE /\ l <= b.n - 1
    BY DEF Buffers
  <2>2. l \in Nat
    BY <2>1 DEF Bytes
  <2> HIDE DEF l
  <2> QED
    BY <2>1, <2>2
<1>2. r = [n |-> k, line |-> Append(b.line, c), inside |-> b.inside /\ l < k]
  BY DEF Lines!StoreChar
<1>3. k \in Nat \ {0} /\ l < k /\ l + 1 <= k - 1
  <2>1. k = IF l >= b.n - 1 THEN b.n * 2 ELSE b.n
    OBVIOUS
  <2> DEFINE n == b.n
  <2>2. n \in Nat \ {0} /\ l <= n - 1 /\ l \in Nat /\ k = IF l >= n - 1 THEN n * 2 ELSE n
    BY <1>1
  <2> HIDE DEF k, l, n
  <2> QED
    BY <2>2
<1>4. Append(b.line, c) \in Bytes /\ Len(Append(b.line, c)) = l + 1
  BY <1>1, AppendProperties DEF Bytes
<1> HIDE DEF k, l
<1>5. r = [n |-> k, line |-> Append(b.line, c), inside |-> TRUE]
  BY <1>1, <1>2, <1>3
<1> HIDE DEF r
<1>6. r \in [n: Nat \ {0}, line: Bytes, inside: {TRUE}]
  BY <1>3, <1>4, <1>5
<1>7. r.line = Append(b.line, c) /\ r.n = k
  BY <1>5
<1>8. Len(r.line) <= r.n - 1
  BY <1>3, <1>4, <1>7
<1> QED
  BY <1>6, <1>7, <1>8 DEF Buffers, r

\* getline_from_fd takes the bytes up to the first newline, or all of them.
LEMMA GetlineIs ==
  ASSUME NEW text \in Bytes, NEW taken \in 0..Len(text),
         taken = Lines!Min({p \in DOMAIN text : text[p] = NewLine} \cup {Len(text)})
  PROVE  Lines!GetlineFromFd(text)
           = [line |-> SubSeq(text, 1, taken), inside |-> TRUE,
              rest |-> SubSeq(text, taken + 1, Len(text))]
<1> DEFINE base == [n |-> INITIAL_BUF_SIZE, line |-> <<>>, inside |-> TRUE]
           F(f) == [i \in 0..taken |-> IF i = 0 THEN base ELSE Lines!StoreChar(f[i - 1], text[i])]
           buffer == CHOOSE f : f = F(f)
           next == [z \in (0 .. taken - 1) \X Buffers |-> Lines!StoreChar(z[2], text[z[1] + 1])]
<1>1. Lines!GetlineFromFd(text)
        = [line |-> buffer[taken].line,
           inside |-> buffer[taken].inside /\ Len(buffer[taken].line) < buffer[taken].n,
           rest |-> SubSeq(text, taken + 1, Len(text))]
  BY DEF Lines!GetlineFromFd
<1>2. taken \in Nat /\ Len(text) \in Nat /\ taken <= Len(text)
      /\ \A i \in 1..taken : text[i] \in Int /\ i \in 1..Len(text)
  <2>1. Len(text) \in Nat /\ \A i \in 1..Len(text) : text[i] \in Int
    BY DEF Bytes
  <2> DEFINE l == Len(text)
  <2>2. l \in Nat /\ taken \in 0..l
    BY <2>1
  <2> HIDE DEF l
  <2>3. taken \in Nat /\ taken <= l /\ \A i \in 1..taken : i \in 1..l
    <3>1. ASSUME NEW i \in 1..taken PROVE i \in 1..l
      BY <2>2
    <3>2. taken \in Nat /\ taken <= l
      BY <2>2
    <3> QED
      BY <3>1, <3>2
  <2> QED
    BY <2>1, <2>3 DEF l
<1>3. base \in Buffers
  <2>1. <<>> \in Bytes /\ Len(<<>>) = 0
    BY DEF Bytes
  <2>2. INITIAL_BUF_SIZE \in Nat \ {0}
    BY WireAssumption
  <2>3. base \in [n: Nat \ {0}, line: Bytes, inside: {TRUE}]
    BY <2>1, <2>2
  <2>4. base.line = <<>> /\ base.n = INITIAL_BUF_SIZE
    OBVIOUS
  <2> HIDE DEF base
  <2>5. Len(base.line) <= base.n - 1
    BY <2>1, <2>2, <2>4
  <2> QED
    BY <2>3, <2>5 DEF Buffers
<1>4. base.line = <<>>
  OBVIOUS
<1> HIDE DEF base
<1>5. next \in [(0 .. taken - 1) \X Buffers -> Buffers]
  <2>1. ASSUME NEW z \in (0 .. taken - 1) \X Buffers
        PROVE  Lines!StoreChar(z[2], text[z[1] + 1]) \in Buffers
    <3>1. z[1] \in 0 .. taken - 1 /\ z[2] \in Buffers
      BY PairIs
    <3>2. z[1] + 1 \in 1..taken
      BY <1>2, <3>1
    <3> QED
      BY <1>2, <3>1, <3>2, StoreIs
  <2> QED
    BY <2>1
<1>6. \A k \in 1..taken, x \in Buffers : next[<<k - 1, x>>] = Lines!StoreChar(x, text[k])
  <2> SUFFICES ASSUME NEW k \in 1..taken, NEW x \in Buffers
               PROVE  next[<<k - 1, x>>] = Lines!StoreChar(x, text[k])
    OBVIOUS
  <2>1. k - 1 \in 0 .. taken - 1 /\ (k - 1) + 1 = k
    BY <1>2
  <2>2. <<k - 1, x>> \in (0 .. taken - 1) \X Buffers
    BY <2>1
  <2> QED
    BY <2>1, <2>2
<1> HIDE DEF next
<1>7. PICK u \in [0..taken -> Buffers] : Turns(u, taken, base, next)
  BY <1>2, <1>3, <1>5, TurnsExist
<1>8. \A k \in 0..taken : u[k] = IF k = 0 THEN base ELSE Lines!StoreChar(u[k - 1], text[k])
  <2> SUFFICES ASSUME NEW k \in 0..taken
               PROVE  u[k] = IF k = 0 THEN base ELSE Lines!StoreChar(u[k - 1], text[k])
    OBVIOUS
  <2>1. u[k] = IF k = 0 THEN base ELSE next[<<k - 1, u[k - 1]>>]
    BY <1>7 DEF Turns
  <2>2. CASE k = 0
    BY <2>1, <2>2
  <2>3. CASE k # 0
    <3>1. k \in 1..taken /\ k - 1 \in 0..taken
      BY <1>2, <2>3
    <3>2. u[k - 1] \in Buffers
      BY <3>1
    <3> QED
      BY <1>6, <2>1, <2>3, <3>1, <3>2
  <2> QED
    BY <2>2, <2>3
<1>9. u = F(u)
  <2>1. u = [i \in 0..taken |-> u[i]]
    OBVIOUS
  <2> QED
    BY <1>8, <2>1
<1>10. buffer = F(buffer)
  <2> HIDE DEF F
  <2> QED
    BY <1>9
<1> HIDE DEF buffer
<1>11. \A k \in 0..taken : buffer[k] = IF k = 0 THEN base ELSE Lines!StoreChar(buffer[k - 1], text[k])
  BY <1>10
<1> HIDE DEF F
<1> DEFINE G == {k \in 0..taken : buffer[k] = u[k] /\ u[k].line = SubSeq(text, 1, k)}
<1>12. 0 \in G
  <2>1. 0 \in 0..taken
    BY <1>2
  <2>2. u[0] = base /\ buffer[0] = base
    BY <1>8, <1>11, <2>1
  <2>3. SubSeq(text, 1, 0) = <<>>
    BY SubSeqEmpty
  <2> QED
    BY <1>4, <2>1, <2>2, <2>3
<1>13. ASSUME NEW k \in 0 .. taken - 1, k \in G PROVE k + 1 \in G
  <2> DEFINE j == k + 1
  <2>1. j \in 0..taken /\ j \in 1..taken /\ j # 0 /\ j - 1 = k /\ k \in 0..taken
        /\ k \in 0 .. Len(text) - 1
    BY <1>2
  <2> HIDE DEF j
  <2>2. buffer[k] = u[k] /\ u[k].line = SubSeq(text, 1, k) /\ u[k] \in Buffers
    BY <1>13, <2>1
  <2>3. u[j] = Lines!StoreChar(u[k], text[j]) /\ buffer[j] = Lines!StoreChar(buffer[k], text[j])
    BY <1>8, <1>11, <2>1
  <2>4. u[j].line = Append(u[k].line, text[j])
    BY <1>2, <2>1, <2>2, <2>3, StoreIs
  <2>5. Append(SubSeq(text, 1, k), text[k + 1]) = SubSeq(text, 1, k + 1)
    BY <2>1, OneMore DEF Bytes
  <2> QED
    BY <2>1, <2>2, <2>3, <2>4, <2>5 DEF j
<1>14. \A k \in 0..taken : k \in G
  <2> HIDE DEF G
  <2> QED
    BY <1>2, <1>12, <1>13, AfterEachTurn
<1>15. taken \in 0..taken
  BY <1>2
<1>16. buffer[taken] \in Buffers /\ buffer[taken].line = SubSeq(text, 1, taken)
  BY <1>14, <1>15
<1> DEFINE b == buffer[taken]
<1>17. b.inside = TRUE /\ Len(b.line) < b.n
  <2>1. b.inside = TRUE /\ Len(b.line) <= b.n - 1 /\ b.n \in Nat /\ b.line \in Bytes
    BY <1>16 DEF Buffers
  <2>2. Len(b.line) \in Nat
    BY <2>1 DEF Bytes
  <2> HIDE DEF b
  <2> QED
    BY <2>1, <2>2
<1> QED
  BY <1>1, <1>16, <1>17

-----------------------------------------------------------------------------
\* The k-th line.
Body(text, k) ==
    LET q == EndAt(text, k)
    IN  SubSeq(text, EndAt(text, k - 1) + 1, IF text[q] = NewLine THEN q - 1 ELSE q)

LEMMA BodiesAre ==
  ASSUME NEW text \in Bytes, Len(text) < BYTE * BYTE * BYTE * BYTE
  PROVE  /\ Lines!Bodies(text) \in Seq(Short)
         /\ Len(Lines!Bodies(text)) = Cardinality(Lines!Ends(text))
         /\ \A k \in 1..Cardinality(Lines!Ends(text)) :
              Lines!Bodies(text)[k] = Body(text, k) /\ Len(Body(text, k)) <= Len(text)
<1> DEFINE last == Cardinality(Lines!Ends(text))
           n == Len(text)
           huge == BYTE * BYTE * BYTE * BYTE
           bodies == Lines!Bodies(text)
<1>1. /\ n \in Nat /\ last \in 0..n /\ \A k \in 0..last : EndAt(text, k) \in 0..n
      /\ \A k \in 1..last : EndAt(text, k - 1) < EndAt(text, k) /\ EndAt(text, k) \in Lines!Ends(text)
  BY EndsIs, EndsFollow
<1> HIDE DEF last, n
<1>2. bodies = [k \in 1..last |-> Body(text, k)]
  <2> DEFINE from(k) == IF k = 1 THEN 1 ELSE EndOf(text, k - 1) + 1
             to(k) == IF text[EndOf(text, k)] = NewLine THEN EndOf(text, k) - 1 ELSE EndOf(text, k)
  <2>1. bodies = [k \in 1..last |-> SubSeq(text, from(k), to(k))]
    <3>1. last = Lines!Cardinality(Lines!Ends(text))
      BY SameCardinality DEF last
    <3> QED
      BY <3>1 DEF Lines!Bodies, EndOf
  <2>2. ASSUME NEW k \in 1..last PROVE SubSeq(text, from(k), to(k)) = Body(text, k)
    <3>1. k # 0 /\ (k - 1 = 0 <=> k = 1) /\ 0 + 1 = 1
      BY <1>1
    <3>2. EndAt(text, k) = EndOf(text, k)
      BY <3>1 DEF EndAt
    <3>3. from(k) = EndAt(text, k - 1) + 1
      <4>1. CASE k = 1
        BY <3>1, <4>1 DEF EndAt
      <4>2. CASE k # 1
        BY <3>1, <4>2 DEF EndAt
      <4> QED
        BY <4>1, <4>2
    <3> HIDE DEF from
    <3> QED
      BY <3>2, <3>3 DEF Body
  <2> HIDE DEF from, to
  <2> QED
    BY <2>1, <2>2
<1>3. ASSUME NEW k \in 1..last
      PROVE  Body(text, k) \in Short /\ Len(Body(text, k)) <= n
  <2> DEFINE p == EndAt(text, k - 1)
             q == EndAt(text, k)
             r == IF text[q] = NewLine THEN q - 1 ELSE q
  <2>1. k - 1 \in 0..last /\ k \in 0..last
    BY <1>1
  <2>2. p \in 0..n /\ q \in 0..n /\ p < q
    BY <1>1, <2>1
  <2>3. Body(text, k) = SubSeq(text, p + 1, r)
    BY DEF Body
  <2> HIDE DEF p, q
  <2>4. p \in Nat /\ r \in Nat /\ p <= r /\ r <= n
    BY <1>1, <2>2
  <2> HIDE DEF r
  <2>5. SubSeq(text, p + 1, r) \in Bytes /\ Len(SubSeq(text, p + 1, r)) = r - p
    BY <2>4, PieceIs DEF n
  <2>6. n < huge
    BY DEF n
  <2>7. huge \in Int
    <3>1. BYTE \in Int
      BY WireAssumption
    <3> QED
      BY <3>1
  <2> HIDE DEF huge
  <2>8. r - p <= n /\ r - p < huge
    BY <1>1, <2>4, <2>6, <2>7
  <2> QED
    BY <2>3, <2>5, <2>8 DEF Short, huge
<1>4. last \in Nat
  BY <1>1
<1>5. bodies \in Seq(Short) /\ Len(bodies) = last
  BY <1>2, <1>3, <1>4, IsASeq
<1>6. \A k \in 1..last : bodies[k] = Body(text, k)
  BY <1>2
<1> QED
  BY <1>3, <1>5, <1>6 DEF last, n

-----------------------------------------------------------------------------
LEMMA MinIs ==
  ASSUME NEW S \in SUBSET Int, NEW x \in S, \A y \in S : x <= y
  PROVE  Lines!Min(S) = x
<1>1. Lines!Min(S) \in S /\ \A y \in S : Lines!Min(S) <= y
  BY DEF Lines!Min
<1>2. Lines!Min(S) <= x /\ x <= Lines!Min(S) /\ Lines!Min(S) \in Int /\ x \in Int
  BY <1>1
<1> HIDE DEF Lines!Min
<1> QED
  BY <1>2

\* What the client has left to read behind the k-th line, and what it has sent.
Client(text, k, sent) ==
    [text |-> SubSeq(text, EndAt(text, k) + 1, Len(text)), sent |-> sent, inside |-> TRUE]

\* getline_from_fd returns the lines one after the other.
LEMMA LineIs ==
  ASSUME NEW text \in Bytes, NEW k \in 1..Cardinality(Lines!Ends(text))
  PROVE  Lines!GetlineFromFd(SubSeq(text, EndAt(text, k - 1) + 1, Len(text)))
           = [line |-> SubSeq(text, EndAt(text, k - 1) + 1, EndAt(text, k)), inside |-> TRUE,
              rest |-> SubSeq(text, EndAt(text, k) + 1, Len(text))]
<1> DEFINE last == Cardinality(Lines!Ends(text))
           n == Len(text)
           p == EndAt(text, k - 1)
           q == EndAt(text, k)
           t == SubSeq(text, p + 1, n)
           taken == q - p
           size == n - p
           S == {j \in DOMAIN t : t[j] = NewLine} \cup {Len(t)}
<1>1. /\ n \in Nat /\ last \in 0..n /\ k \in 1..last
      /\ \A j \in 0..last : EndAt(text, j) \in 0..n
      /\ p < q /\ q \in Lines!Ends(text) /\ \A e \in Lines!Ends(text) : p < e => q <= e
  BY EndsIs, EndsFollow
<1>2. \A e : e \in Lines!Ends(text) <=> e \in 1..n /\ (text[e] = NewLine \/ e = n)
  BY EndsIs
<1> HIDE DEF last
<1>3. p \in 0..n /\ q \in 0..n
  <2>1. k - 1 \in 0..last /\ k \in 0..last
    <3> HIDE DEF n, p, q
    <3> QED
      BY <1>1
  <2> QED
    BY <1>1, <2>1
<1> HIDE DEF p, q
<1>4. t \in Bytes /\ Len(t) = size /\ \A j \in 1..size : t[j] = text[p + j]
  <2>1. p \in Nat /\ n \in Nat /\ p <= n
    BY <1>1, <1>3
  <2> QED
    BY <2>1, PieceIs
<1>5. DOMAIN t = 1..size
  <2> HIDE DEF t
  <2> QED
    BY <1>4 DEF Bytes
<1> HIDE DEF t
<1>6. p \in Nat /\ q \in Nat /\ taken \in 1..size /\ taken \in 0..size /\ p + taken = q
      /\ size \in Nat /\ taken \in Nat
  <2> HIDE DEF n
  <2> QED
    BY <1>1, <1>3
<1>7. S = {j \in 1..size : t[j] = NewLine} \cup {size}
  BY <1>4, <1>5
<1> HIDE DEF n, taken, S
<1>8. size \in 1..size /\ p + size = n
  <2>1. size >= 1
    BY <1>1, <1>3
  <2> QED
    BY <1>1, <1>3, <2>1
<1> HIDE DEF size
<1>9. taken \in S
  <2>1. text[q] = NewLine \/ q = n
    BY <1>1, <1>2
  <2>2. CASE text[q] = NewLine
    <3>1. t[taken] = NewLine
      BY <1>4, <1>6, <2>2
    <3> QED
      BY <1>6, <1>7, <3>1
  <2>3. CASE q = n
    <3>1. taken = size
      BY <1>6, <1>8, <2>3
    <3> QED
      BY <1>7, <3>1
  <2> QED
    BY <2>1, <2>2, <2>3
<1>10. ASSUME NEW j \in S PROVE taken <= j
  <2>1. j \in 1..size /\ (t[j] = NewLine \/ j = size)
    BY <1>7, <1>8
  <2>2. p + j \in 1..n /\ p < p + j
    BY <1>1, <1>6, <1>8, <2>1
  <2>3. text[p + j] = NewLine \/ p + j = n
    BY <1>4, <1>8, <2>1
  <2>4. q <= p + j
    BY <1>1, <1>2, <2>2, <2>3
  <2> QED
    BY <1>6, <2>1, <2>4
<1>11. S \in SUBSET Int
  <2>1. size \in Int /\ \A j \in 1..size : j \in Int
    BY <1>6
  <2> QED
    BY <1>7, <2>1
<1>12. taken = Lines!Min(S)
  BY <1>9, <1>10, <1>11, MinIs
<1>13. taken = Lines!Min({j \in DOMAIN t : t[j] = NewLine} \cup {Len(t)}) /\ taken \in 0..Len(t)
  BY <1>4, <1>6, <1>12 DEF S
<1>14. Lines!GetlineFromFd(t)
         = [line |-> SubSeq(t, 1, taken), inside |-> TRUE, rest |-> SubSeq(t, taken + 1, Len(t))]
  BY <1>4, <1>13, GetlineIs
<1>15. SubSeq(t, 1, taken) = SubSeq(text, p + 1, q)
  <2>1. p <= n /\ n <= Len(text) /\ taken <= n - p /\ n \in Nat
    <3>1. n <= Len(text)
      BY <1>1 DEF n
    <3> QED
      BY <1>1, <1>3, <1>6, <1>8, <3>1
  <2>2. SubSeq(SubSeq(text, p + 1, n), 1, taken) = SubSeq(text, p + 1, p + taken)
    BY <1>6, <2>1, StartOfPiece
  <2> QED
    BY <1>6, <2>2 DEF t
<1>16. SubSeq(t, taken + 1, Len(t)) = SubSeq(text, q + 1, n)
  <2>1. p <= n /\ n <= Len(text) /\ taken <= size /\ size <= n - p /\ n \in Nat
    <3>1. n <= Len(text)
      BY <1>1 DEF n
    <3> QED
      BY <1>1, <1>3, <1>6, <1>8, <3>1
  <2>2. SubSeq(SubSeq(text, p + 1, n), taken + 1, size) = SubSeq(text, (p + taken) + 1, p + size)
    BY <1>6, <2>1, PieceOfPiece
  <2> QED
    BY <1>4, <1>6, <1>8, <2>2 DEF t
<1> QED
  BY <1>14, <1>15, <1>16 DEF n, p, q, t

\* At the end of the file there is none.
LEMMA NoLine == Lines!GetlineFromFd(<<>>).line = <<>>
<1> DEFINE t == <<>>
           taken == 0
           S == {j \in DOMAIN t : t[j] = NewLine} \cup {Len(t)}
<1>1. t \in Bytes /\ Len(t) = 0 /\ DOMAIN t = {}
  BY DEF Bytes
<1>2. S = {taken} /\ taken \in 0..Len(t)
  BY <1>1
<1>3. taken \in S /\ S \in SUBSET Int /\ \A y \in S : taken <= y
  BY <1>2
<1> HIDE DEF S, taken, t
<1>4. taken = Lines!Min(S)
  BY <1>3, MinIs
<1>5. taken = Lines!Min({j \in DOMAIN t : t[j] = NewLine} \cup {Len(t)})
  BY <1>4 DEF S
<1>6. Lines!GetlineFromFd(t).line = SubSeq(t, 1, taken)
  BY <1>1, <1>2, <1>5, GetlineIs
<1>7. SubSeq(t, 1, 0) = <<>>
  BY SubSeqEmpty
<1> QED
  BY <1>6, <1>7 DEF taken, t

\* The client sends a line as the frame of what is before its newline.
LEMMA SendLineIs ==
  ASSUME NEW text \in Bytes, NEW k \in 1..Cardinality(Lines!Ends(text))
  PROVE  LET line == SubSeq(text, EndAt(text, k - 1) + 1, EndAt(text, k))
         IN  line # <<>> /\ Lines!SendLine(line) = Frame(Body(text, k))
<1> DEFINE last == Cardinality(Lines!Ends(text))
           n == Len(text)
           p == EndAt(text, k - 1)
           q == EndAt(text, k)
           line == SubSeq(text, p + 1, q)
           r == IF text[q] = NewLine THEN q - 1 ELSE q
           size == IF line[Len(line)] = NewLine THEN Len(line) - 1 ELSE Len(line)
           all == q - p
<1>1. /\ n \in Nat /\ last \in 0..n /\ k \in 1..last
      /\ \A j \in 0..last : EndAt(text, j) \in 0..n
      /\ p < q
  BY EndsIs, EndsFollow
<1> HIDE DEF last
<1>2. p \in 0..n /\ q \in 0..n
  <2>1. k - 1 \in 0..last /\ k \in 0..last
    <3> HIDE DEF n, p, q
    <3> QED
      BY <1>1
  <2> QED
    BY <1>1, <2>1
<1>3. Body(text, k) = SubSeq(text, p + 1, r)
  BY DEF Body
<1>4. Lines!SendLine(line) = Lines!U32ToBe32(size) \o Lines!Xcrypt(SubSeq(line, 1, size))
  BY DEF Lines!SendLine
<1> HIDE DEF p, q
<1>5. p \in Nat /\ q \in Nat /\ p <= q /\ q <= n /\ all \in Nat /\ all # 0 /\ p + all = q /\ all \in 1..all
  <2> HIDE DEF n
  <2> QED
    BY <1>1, <1>2
<1>6. line \in Bytes /\ Len(line) = all /\ \A j \in 1..all : line[j] = text[p + j]
  BY <1>5, PieceIs
<1> HIDE DEF line
<1>7. line[Len(line)] = text[q]
  <2> HIDE DEF all
  <2> QED
    BY <1>5, <1>6
<1>8. size = r - p /\ r \in Nat /\ p <= r /\ r <= q /\ size \in Nat /\ size <= all /\ p + size = r
  <2>1. size = IF text[q] = NewLine THEN all - 1 ELSE all
    BY <1>6, <1>7
  <2> HIDE DEF size, n
  <2>2. CASE text[q] = NewLine
    <3>1. size = all - 1 /\ r = q - 1
      BY <2>1, <2>2
    <3> HIDE DEF r
    <3> QED
      BY <1>1, <1>5, <3>1
  <2>3. CASE text[q] # NewLine
    <3>1. size = all /\ r = q
      BY <2>1, <2>3
    <3> HIDE DEF r
    <3> QED
      BY <1>1, <1>5, <3>1
  <2> QED
    BY <2>2, <2>3
<1> HIDE DEF size, r
<1>9. SubSeq(line, 1, size) = SubSeq(text, p + 1, r)
  <2>1. size <= q - p /\ q <= Len(text)
    BY <1>5, <1>8
  <2>2. SubSeq(SubSeq(text, p + 1, q), 1, size) = SubSeq(text, p + 1, p + size)
    BY <1>5, <1>8, <2>1, StartOfPiece
  <2> QED
    BY <1>8, <2>2 DEF line
<1>10. Len(SubSeq(text, p + 1, r)) = size
  <2>1. r <= Len(text)
    <3>1. r <= n
      <4> HIDE DEF n
      <4> QED
        BY <1>1, <1>5, <1>8
    <3> QED
      BY <3>1
  <2>2. Len(SubSeq(text, p + 1, r)) = r - p
    BY <1>5, <1>8, <2>1, PieceIs
  <2> QED
    BY <1>8, <2>2
<1>11. Lines!SendLine(line) = Frame(Body(text, k))
  BY <1>3, <1>4, <1>9, <1>10 DEF Frame
<1>12. line # <<>>
  BY <1>5, <1>6
<1> QED
  BY <1>11, <1>12 DEF line, p, q

\* A turn of the client's loop sends the next line, until there is none.
LEMMA TypeLineIs ==
  ASSUME NEW text \in Bytes, NEW k \in 1..Cardinality(Lines!Ends(text)), NEW sent
  PROVE  Lines!TypeLine(Client(text, k - 1, sent)) = Client(text, k, sent \o Frame(Body(text, k)))
<1> DEFINE t == SubSeq(text, EndAt(text, k - 1) + 1, Len(text))
           line == SubSeq(text, EndAt(text, k - 1) + 1, EndAt(text, k))
           rest == SubSeq(text, EndAt(text, k) + 1, Len(text))
           s == Client(text, k - 1, sent)
           got == Lines!GetlineFromFd(s.text)
<1>1. Lines!GetlineFromFd(t) = [line |-> line, inside |-> TRUE, rest |-> rest]
  BY LineIs
<1>2. line # <<>> /\ Lines!SendLine(line) = Frame(Body(text, k))
  BY SendLineIs
<1>3. s.text = t /\ s.sent = sent /\ s.inside = TRUE
  BY DEF Client
<1>6. Lines!TypeLine(s)
        = IF got.line = <<>> THEN s
          ELSE [text |-> got.rest, sent |-> s.sent \o Lines!SendLine(got.line),
                inside |-> s.inside /\ got.inside]
  BY DEF Lines!TypeLine
<1>4. Client(text, k, sent \o Frame(Body(text, k)))
        = [text |-> rest, sent |-> sent \o Frame(Body(text, k)), inside |-> TRUE]
  BY DEF Client
<1> HIDE DEF t, line, rest, s
<1>5. got.line = line /\ got.inside = TRUE /\ got.rest = rest
  BY <1>1, <1>3
<1> HIDE DEF got
<1> QED
  BY <1>2, <1>3, <1>4, <1>5, <1>6 DEF s

LEMMA TypeNothing ==
  ASSUME NEW text \in Bytes, NEW sent
  PROVE  LET s == Client(text, Cardinality(Lines!Ends(text)), sent)
         IN  Lines!TypeLine(s) = s
<1> DEFINE n == Len(text)
           s == Client(text, Cardinality(Lines!Ends(text)), sent)
           got == Lines!GetlineFromFd(s.text)
<1>1. n \in Nat /\ n <= n /\ n <= Len(text) /\ EndAt(text, Cardinality(Lines!Ends(text))) = n
  <2>1. n \in Nat
    BY EndsIs
  <2>2. EndAt(text, Cardinality(Lines!Ends(text))) = n
    BY EndsFollow
  <2> QED
    BY <2>1, <2>2
<1>2. SubSeq(text, n + 1, n) = <<>>
  <2> HIDE DEF n
  <2> QED
    BY <1>1, PieceIs
<1>3. s.text = <<>>
  BY <1>1, <1>2 DEF Client
<1>4. got.line = <<>>
  BY <1>3, NoLine
<1> HIDE DEF s
<1>5. Lines!TypeLine(s)
        = IF got.line = <<>> THEN s
          ELSE [text |-> got.rest, sent |-> s.sent \o Lines!SendLine(got.line),
                inside |-> s.inside /\ got.inside]
  BY DEF Lines!TypeLine
<1> QED
  BY <1>4, <1>5 DEF s

\* The client sends all lines of its input.
LEMMA SendIs ==
  ASSUME NEW text \in Bytes, NEW bodies, NEW sent, Sent(bodies, sent),
         Len(bodies) = Cardinality(Lines!Ends(text)),
         \A k \in 1..Len(bodies) : bodies[k] = Body(text, k)
  PROVE  Lines!Send(text).sent = sent[Len(bodies)] /\ Lines!Send(text).inside
<1> DEFINE n == Len(text)
           last == Cardinality(Lines!Ends(text))
           Turn(t) == IF t <= last THEN t ELSE last
           base == [text |-> text, sent |-> <<>>, inside |-> TRUE]
           F(f) == [t \in 0..n |-> IF t = 0 THEN base ELSE Lines!TypeLine(f[t - 1])]
           after == CHOOSE f : f = F(f)
           C(k) == Client(text, k, sent[k])
           u == [t \in 0..n |-> C(Turn(t))]
<1>1. n \in Nat /\ last \in 0..n /\ last \in Nat /\ EndAt(text, 0) = 0
  <2>1. n \in Nat /\ last \in 0..n /\ EndAt(text, 0) = 0
    BY EndsIs, EndsFollow
  <2> HIDE DEF n, last
  <2> QED
    BY <2>1
<1>2. Lines!Send(text) = after[n]
  BY DEF Lines!Send
<1>3. ASSUME NEW k \in 1..last PROVE Lines!TypeLine(C(k - 1)) = C(k)
  <2>1. Lines!TypeLine(Client(text, k - 1, sent[k - 1]))
          = Client(text, k, sent[k - 1] \o Frame(Body(text, k)))
    BY TypeLineIs
  <2>2. sent[k] = sent[k - 1] \o Frame(Body(text, k))
    BY DEF Sent
  <2> QED
    BY <2>1, <2>2
<1>4. Lines!TypeLine(C(last)) = C(last)
  BY TypeNothing
<1>5. C(0) = base
  <2>1. SubSeq(text, 1, Len(text)) = text
    BY PieceAll
  <2>2. sent[0] = <<>> /\ 0 + 1 = 1
    BY DEF Sent
  <2> QED
    BY <1>1, <2>1, <2>2 DEF Client
<1>6. C(last).sent = sent[Len(bodies)] /\ C(last).inside = TRUE
  BY DEF Client
<1> HIDE DEF n, last, C, base
<1>7. ASSUME NEW t \in 1..n PROVE u[t] = Lines!TypeLine(u[t - 1])
  <2>1. t \in 0..n /\ t - 1 \in 0..n
    BY <1>1
  <2>2. CASE t <= last
    <3>1. t \in 1..last /\ t - 1 <= last
      BY <1>1, <2>2
    <3>2. Turn(t) = t /\ Turn(t - 1) = t - 1
      BY <2>2, <3>1
    <3> HIDE DEF Turn
    <3> QED
      BY <1>3, <2>1, <3>1, <3>2
  <2>3. CASE ~(t <= last)
    <3>1. Turn(t) = last
      BY <2>3
    <3>2. Turn(t - 1) = last
      <4>1. t - 1 <= last => t - 1 = last
        BY <1>1, <2>3
      <4> QED
        BY <4>1
    <3> HIDE DEF Turn
    <3> QED
      BY <1>4, <2>1, <3>1, <3>2
  <2> QED
    BY <2>2, <2>3
<1>8. u[0] = base /\ u[n] = C(last)
  <2>1. 0 \in 0..n /\ n \in 0..n /\ Turn(0) = 0
    BY <1>1
  <2>2. Turn(n) = last
    <3>1. n <= last => n = last
      BY <1>1
    <3> QED
      BY <3>1
  <2> HIDE DEF Turn
  <2> QED
    BY <1>5, <2>1, <2>2
<1>9. u = F(u)
  <2>1. \A t \in 0..n : u[t] = IF t = 0 THEN base ELSE Lines!TypeLine(u[t - 1])
    <3>1. \A t \in 0..n : t # 0 => t \in 1..n
      BY <1>1
    <3> HIDE DEF u
    <3> QED
      BY <1>7, <1>8, <3>1
  <2>2. u = [t \in 0..n |-> u[t]]
    OBVIOUS
  <2> HIDE DEF u
  <2> QED
    BY <2>1, <2>2
<1> HIDE DEF u
<1>10. after = F(after)
  <2> HIDE DEF F
  <2> QED
    BY <1>9
<1> HIDE DEF after
<1>11. \A t \in 0..n : after[t] = IF t = 0 THEN base ELSE Lines!TypeLine(after[t - 1])
  BY <1>10
<1> HIDE DEF F
<1> DEFINE G == {t \in 0..n : after[t] = u[t]}
<1>12. 0 \in G
  <2>1. 0 \in 0..n
    BY <1>1
  <2> QED
    BY <1>8, <1>11, <2>1
<1>13. ASSUME NEW t \in 0 .. n - 1, t \in G PROVE t + 1 \in G
  <2> DEFINE j == t + 1
  <2>1. j \in 0..n /\ j \in 1..n /\ j # 0 /\ j - 1 = t
    BY <1>1
  <2> HIDE DEF j
  <2>2. after[j] = u[j]
    BY <1>7, <1>11, <1>13, <2>1
  <2> QED
    BY <2>1, <2>2 DEF j
<1>14. \A t \in 0..n : t \in G
  <2> HIDE DEF G
  <2> QED
    BY <1>1, <1>12, <1>13, AfterEachTurn
<1>15. after[n] = C(last)
  <2>1. n \in 0..n
    BY <1>1
  <2> QED
    BY <1>8, <1>14, <2>1
<1> QED
  BY <1>2, <1>6, <1>15

-----------------------------------------------------------------------------
\* Each line typed gets through the client's getline_from_fd, its frames, any cut
\* of the stream and read_exact, and is a message of the server: getline_from_fd,
\* u32_to_be32 and be32_to_u32 in src/helper/helper.c, the loops of
\* src/lab7/q_client.c and src/lab7/q_server.c.  For a text as long as four bytes
\* can count, buffers of any first size and bytes of any width.
THEOREM LinesGetThrough == MCSpec => []LinesArrive
<1>1. InputOK => LinesArrive
  <2> SUFFICES ASSUME InputOK, program = "wire" PROVE LinesArrive
    BY DEF LinesArrive
  <2> DEFINE bodies == Lines!Bodies(input)
             sizes == Lines!Sizes(bodies)
             out == Lines!Send(input)
             stops == {k \in DOMAIN bodies : bodies[k] = <<>>} \cup {Len(bodies) + 1}
             upTo == Min(stops) - 1
             n == Len(bodies)
  <2>1. input \in Bytes /\ Len(input) <= MaxText /\ Len(input) \in Nat /\ MaxText \in Nat
        /\ Len(input) < BYTE * BYTE * BYTE * BYTE
    <3> DEFINE huge == BYTE * BYTE * BYTE * BYTE
               l == Len(input)
    <3>1. input \in Bytes /\ l <= MaxText
      BY DEF InputOK, Bytes
    <3>2. MaxText \in Nat /\ MaxText < huge
      BY WireAssumption
    <3>3. huge \in Int
      <4>1. BYTE \in Int
        BY WireAssumption
      <4> QED
        BY <4>1
    <3>4. l \in Nat
      BY <3>1 DEF Bytes
    <3> HIDE DEF huge, l
    <3>5. l < huge
      BY <3>1, <3>2, <3>3, <3>4
    <3> QED
      BY <3>1, <3>2, <3>4, <3>5 DEF huge, l
  <2>2. /\ bodies \in Seq(Short) /\ n = Cardinality(Lines!Ends(input))
        /\ \A k \in 1..n : bodies[k] = Body(input, k) /\ Len(Body(input, k)) <= Len(input)
    BY <2>1, BodiesAre
  <2>3. PICK sent : Sent(bodies, sent)
    BY <2>2, SentExists
  <2>4. out.sent = sent[n] /\ out.inside
    BY <2>1, <2>2, <2>3, SendIs
  <2>5. Carries(out.sent, bodies)
    BY <2>2, <2>3, <2>4, SentCarries
  <2> HIDE DEF bodies, out
  <2>6. UpToEmpty(bodies, upTo)
    <3>1. n \in Nat /\ DOMAIN bodies = 1..n
      BY <2>2
    <3>2. stops = {k \in 1..n : bodies[k] = <<>>} \cup {n + 1}
      BY <3>1
    <3> HIDE DEF stops, n
    <3>3. n + 1 \in stops /\ stops \subseteq Nat /\ \A k \in stops : k \in 1 .. n + 1
      BY <3>1, <3>2
    <3>4. \E k \in stops : \A i \in stops : k <= i
      BY <3>3, LeastNumber
    <3> DEFINE first == Min(stops)
    <3>5. first \in stops /\ \A i \in stops : first <= i
      BY <3>4 DEF Min
    <3>6. upTo = first - 1
      OBVIOUS
    <3> HIDE DEF first, upTo
    <3>7. upTo \in 0..n /\ first = upTo + 1 /\ first \in 1 .. n + 1
      BY <3>1, <3>3, <3>5, <3>6
    <3>8. ASSUME NEW k \in 1..upTo PROVE bodies[k] # <<>>
      <4>1. k \in 1..n /\ ~(first <= k)
        BY <3>1, <3>7
      <4> QED
        BY <3>2, <3>5, <4>1
    <3>9. upTo < n => bodies[upTo + 1] = <<>>
      <4>1. upTo < n => first # n + 1
        BY <3>1, <3>7
      <4> QED
        BY <3>2, <3>5, <3>7, <4>1
    <3> QED
      BY <3>7, <3>8, <3>9 DEF UpToEmpty, n
  <2> HIDE DEF upTo
  <2>7. ASSUME NEW cut \in 0 .. Len(out.sent), NEW odd \in {1, 3}, NEW even \in {1, 3},
               NEW reset \in BOOLEAN
        PROVE  LET pace == [k \in 1 .. MaxText + 4 |-> IF k % 2 = 0 THEN even ELSE odd]
                   arrived == Max({k \in 0..upTo : sizes[k] <= cut})
               IN  Lines!Receive(SubSeq(out.sent, 1, cut), pace, reset).messages
                     = SubSeq(bodies, 1, arrived)
    <3> DEFINE pace == [k \in 1 .. MaxText + 4 |-> IF k % 2 = 0 THEN even ELSE odd]
               A == {k \in 0..upTo : sizes[k] <= cut}
               arrived == Max(A)
    <3>1. pace \in Paces /\ Len(pace) = MaxText + 4
      <4> DEFINE w == MaxText + 4
      <4>1. w \in Nat /\ 4 <= w
        BY <2>1
      <4> HIDE DEF w
      <4>2. \A k \in 1..w : (IF k % 2 = 0 THEN even ELSE odd) \in Nat \ {0}
        OBVIOUS
      <4>3. [k \in 1..w |-> IF k % 2 = 0 THEN even ELSE odd] \in Seq(Nat \ {0})
            /\ Len([k \in 1..w |-> IF k % 2 = 0 THEN even ELSE odd]) = w
        BY <4>1, <4>2, IsASeq
      <4> QED
        BY <4>1, <4>3 DEF Paces, w
    <3> HIDE DEF pace
    <3>2. Enough(bodies, pace)
      <4> SUFFICES ASSUME NEW k \in 1..n PROVE Len(bodies[k]) <= Len(pace)
        BY DEF Enough
      <4> DEFINE l == Len(bodies[k])
      <4>1. l <= Len(input) /\ l \in Nat
        <5>1. bodies[k] \in Bytes /\ bodies[k] = Body(input, k)
          BY <2>2 DEF Short
        <5>2. Len(bodies[k]) <= Len(input)
          BY <2>2, <5>1
        <5> QED
          BY <5>1, <5>2 DEF Bytes
      <4> HIDE DEF l
      <4>2. l <= MaxText + 4
        BY <2>1, <4>1
      <4> QED
        BY <3>1, <4>2 DEF l
    <3>3. Arrives(bodies, upTo, cut, arrived)
      <4>1. upTo \in Nat
        BY <2>2, <2>6 DEF UpToEmpty
      <4>2. sizes[0] = 0
        BY <2>2, SizesAre
      <4>6. cut \in Nat
        <5>1. out.sent \in Bytes
          BY <2>5 DEF Carries
        <5>2. Len(out.sent) \in Nat
          BY <5>1 DEF Bytes
        <5> QED
          BY <5>2
      <4> HIDE DEF sizes
      <4>3. 0 \in A /\ A \subseteq 0..upTo
        BY <4>1, <4>2, <4>6
      <4> HIDE DEF A
      <4>4. \E k \in A : \A i \in A : i <= k
        BY <4>1, <4>3, GreatestNumber
      <4>5. arrived \in A /\ \A i \in A : i <= arrived
        BY <4>4 DEF Max
      <4> HIDE DEF arrived
      <4> QED
        BY <4>5 DEF Arrives, A, sizes
    <3> HIDE DEF arrived
    <3>4. Lines!Receive(SubSeq(out.sent, 1, cut), pace, reset).messages
            = SubSeq(bodies, 1, arrived)
      BY <2>2, <2>5, <2>6, <3>1, <3>2, <3>3, ReceiveIs
    <3> QED
      BY <3>4 DEF pace, arrived, A
  <2> QED
    BY <2>4, <2>7 DEF LinesArrive, bodies, sizes, out, upTo, stops
<1> QED
  BY <1>1, Typed, PTL
=============================================================================
