----------------------------- MODULE PipesProofs -----------------------------
(***************************************************************************)
(* Producer and consumer over two pipes (module Pipes) stay in step for    *)
(* any number of items, whoever is killed and wherever.                    *)
(***************************************************************************)
EXTENDS Pipes, SequenceTheorems, TLAPS

TypeOK ==
    /\ data \in Seq(Nat) /\ ack \in Seq(Nat) /\ shown \in Seq(Nat)
    /\ i \in [Processes -> Nat]
    /\ pc \in [Processes -> {"forked", "closing", "write", "ack", "wait", "read", "reply",
                             "done", "leaving", "return", "gone"}]

\* How many numbers have been written.
Written == Len(shown) + Len(data)

\* A process that is gone may have been stopped in the middle of a turn.
Counts ==
    /\ Len(ack) = i["consumer"] - i["producer"]
    /\ Written \in {i["producer"], i["producer"] + 1}
    /\ pc["producer"] # "gone" =>
         Written = i["producer"] + (IF pc["producer"] = "ack" THEN 1 ELSE 0)
    /\ Len(shown) \in {i["consumer"], i["consumer"] + 1}
    /\ pc["consumer"] # "gone" =>
         Len(shown) = i["consumer"] + (IF pc["consumer"] = "reply" THEN 1 ELSE 0)

InOrder ==
    /\ \A k \in 1..Len(shown) : shown[k] = k - 1
    /\ \A k \in 1..Len(data) : data[k] = Len(shown)

IInv == TypeOK /\ Counts /\ InOrder

-----------------------------------------------------------------------------
LEMMA OneOnItsWay ==
  ASSUME NEW d \in Nat, NEW a \in Nat, NEW s \in Nat, NEW p \in Nat, NEW c \in Nat,
         a = c - p, s + d \in {p, p + 1}, s \in {c, c + 1}
  PROVE  d + a <= 1 /\ p <= s /\ s <= p + 1
OBVIOUS

\* The counts leave room for one message, and that is what InStep says.
LEMMA Room ==
  ASSUME IInv
  PROVE  /\ Len(data) \in Nat /\ Len(ack) \in Nat /\ Len(shown) \in Nat
         /\ i["producer"] \in Nat /\ i["consumer"] \in Nat
         /\ Len(data) + Len(ack) <= 1
         /\ i["producer"] <= Len(shown) /\ Len(shown) <= i["producer"] + 1
<1>1. /\ Len(data) \in Nat /\ Len(ack) \in Nat /\ Len(shown) \in Nat
      /\ i["producer"] \in Nat /\ i["consumer"] \in Nat
  BY DEF IInv, TypeOK, Processes
<1>2. /\ Len(ack) = i["consumer"] - i["producer"]
      /\ Len(shown) + Len(data) \in {i["producer"], i["producer"] + 1}
      /\ Len(shown) \in {i["consumer"], i["consumer"] + 1}
  BY DEF IInv, Counts, Written
<1> QED
  BY <1>1, <1>2, OneOnItsWay

LEMMA InStepFollows == IInv => InStep
<1> SUFFICES ASSUME IInv PROVE InStep
  OBVIOUS
<1>1. DOMAIN shown = 1..Len(shown) /\ DOMAIN data = 1..Len(data)
  BY DEF IInv, TypeOK
<1> QED
  BY <1>1, Room DEF IInv, InOrder, InStep

LEMMA InitIInv == Init => IInv
BY DEF Init, IInv, TypeOK, Counts, InOrder, Written, Processes

\* What changes only places and ends changes nothing of the counts, as long as
\* nobody gets into the middle of a turn that way.
LEMMA Moves ==
  ASSUME IInv, NEW p \in Processes, NEW from, NEW to,
         Goes(p, from, to), UNCHANGED <<data, ack, i, shown>>,
         from \notin {"ack", "reply", "gone"},
         to \in {"closing", "write", "wait", "read", "done", "leaving", "return"}
  PROVE  IInv'
<1>1. TypeOK'
  BY DEF IInv, TypeOK, Goes, Processes
<1>2. Counts'
  BY DEF IInv, TypeOK, Counts, Written, Goes, Processes
<1>3. InOrder'
  BY DEF IInv, InOrder
<1> QED
  BY <1>1, <1>2, <1>3 DEF IInv

LEMMA ExitIInv ==
  ASSUME IInv, NEW p \in Processes, NEW from, Exit(p, from)
  PROVE  IInv'
<1>1. TypeOK'
  BY DEF IInv, TypeOK, Exit, Goes, Processes
<1>2. Counts'
  BY DEF IInv, TypeOK, Counts, Written, Exit, Goes, Processes
<1>3. InOrder'
  BY DEF IInv, InOrder, Exit
<1> QED
  BY <1>1, <1>2, <1>3 DEF IInv

LEMMA CloseIInv ==
  ASSUME IInv, NEW p \in Processes, NEW foreign, NEW own, NEW loop,
         loop \in {"read", "write"}, Close(p, foreign, own, loop)
  PROVE  IInv'
<1>1. ASSUME NEW from \in {"forked", "closing", "done", "leaving"}, NEW end,
             NEW to \in {"closing", "read", "write", "leaving", "return"}, CloseEnd(p, from, end, to)
      PROVE  IInv'
  BY <1>1, Moves DEF CloseEnd
<1> QED
  BY <1>1, ExitIInv DEF Close
-----------------------------------------------------------------------------
LEMMA ProducerStep == ASSUME IInv, Producer PROVE IInv'
<1> USE DEF Processes
<1>1. CASE ProducerClose
  BY <1>1, CloseIInv DEF ProducerClose
<1>2. CASE Write
  <2>1. data = <<>> /\ Len(shown) = i["producer"]
    BY <1>2 DEF Write, Goes, IInv, TypeOK, Counts, Written
  <2>2. data' = <<i["producer"]>> /\ i["producer"] \in Nat
    BY <1>2, <2>1 DEF Write, IInv, TypeOK
  <2>3. TypeOK'
    BY <1>2, <2>2 DEF Write, Goes, IInv, TypeOK
  <2>4. Counts'
    BY <1>2, <2>1, <2>2 DEF Write, Goes, IInv, TypeOK, Counts, Written
  <2>5. InOrder'
    BY <1>2, <2>1, <2>2 DEF Write, IInv, InOrder
  <2> QED
    BY <2>3, <2>4, <2>5 DEF IInv
<1>3. CASE ReadAck
  <2>1. ack \in Seq(Nat) /\ ack # <<>> /\ ack' = Tail(ack)
    BY <1>3 DEF ReadAck, IInv, TypeOK
  <2>2. ack' \in Seq(Nat) /\ Len(ack') = Len(ack) - 1 /\ Len(ack) \in Nat
    BY <2>1
  <2>3. TypeOK'
    BY <1>3, <2>2 DEF ReadAck, Turn, Goes, IInv, TypeOK
  <2>4. Counts'
    BY <1>3, <2>2 DEF ReadAck, Turn, Goes, IInv, TypeOK, Counts, Written
  <2>5. InOrder'
    BY <1>3 DEF ReadAck, IInv, InOrder
  <2> QED
    BY <2>3, <2>4, <2>5 DEF IInv
<1>4. CASE WriteBroken \/ ReadAckEnd
  BY <1>4, ExitIInv DEF WriteBroken, ReadAckEnd
<1>5. CASE WaitForChild
  BY <1>5, Moves DEF WaitForChild
<1> QED
  BY <1>1, <1>2, <1>3, <1>4, <1>5 DEF Producer

LEMMA ConsumerStep == ASSUME IInv, Consumer PROVE IInv'
<1> USE DEF Processes
<1>1. CASE ConsumerClose
  BY <1>1, CloseIInv DEF ConsumerClose
<1>2. CASE Read
  <2>1. data \in Seq(Nat) /\ data # <<>> /\ shown \in Seq(Nat)
    BY <1>2 DEF Read, IInv, TypeOK
  <2>2. Len(data) = 1 /\ Head(data) = Len(shown)
    <3>1. Len(data) \in Nat \ {0} /\ Head(data) = data[1]
      BY <2>1
    <3>2. Len(data) = 1
      <4>1. \A d, a \in Nat : d + a <= 1 /\ d # 0 => d = 1
        OBVIOUS
      <4> QED
        BY <3>1, <4>1, Room
    <3>3. \A k \in 1..Len(data) : data[k] = Len(shown)
      BY DEF IInv, InOrder
    <3> QED
      BY <3>1, <3>2, <3>3
  <2>3. data' = <<>> /\ shown' = Append(shown, Len(shown))
    <3>1. Len(Tail(data)) = 0 /\ Tail(data) \in Seq(Nat)
      BY <2>1, <2>2
    <3>2. Tail(data) = <<>>
      BY <3>1, EmptySeq
    <3> QED
      BY <1>2, <2>2, <3>2 DEF Read
  <2>4. /\ shown' \in Seq(Nat) /\ Len(shown') = Len(shown) + 1
        /\ \A k \in 1..Len(shown) : shown'[k] = shown[k]
        /\ shown'[Len(shown) + 1] = Len(shown)
    BY <2>1, <2>3
  <2>5. TypeOK'
    BY <1>2, <2>3, <2>4 DEF Read, Goes, IInv, TypeOK
  <2>6. Counts'
    <3>1. /\ Len(data') = 0 /\ i' = i /\ ack' = ack
          /\ pc["consumer"] = "read" /\ pc'["consumer"] = "reply" /\ pc'["producer"] = pc["producer"]
      BY <1>2, <2>3 DEF Read, Goes, IInv, TypeOK
    <3>2. Len(shown') + Len(data') = Len(shown) + Len(data)
      BY <2>2, <2>4, <3>1, Room
    <3>3. Len(shown) = i["consumer"]
      BY <3>1, Room, SMTT(60) DEF IInv, Counts
    <3> QED
      BY <2>4, <3>1, <3>2, <3>3, Room DEF IInv, Counts, Written
  <2>7. InOrder'
    BY <2>1, <2>3, <2>4 DEF IInv, InOrder
  <2> QED
    BY <2>5, <2>6, <2>7 DEF IInv
<1>3. CASE Reply
  <2>1. ack' \in Seq(Nat) /\ Len(ack') = Len(ack) + 1 /\ Len(ack) \in Nat
    BY <1>3 DEF Reply, IInv, TypeOK
  <2>2. TypeOK'
    BY <1>3, <2>1 DEF Reply, Turn, Goes, IInv, TypeOK
  <2>3. Counts'
    BY <1>3, <2>1 DEF Reply, Turn, Goes, IInv, TypeOK, Counts, Written
  <2>4. InOrder'
    BY <1>3 DEF Reply, IInv, InOrder
  <2> QED
    BY <2>2, <2>3, <2>4 DEF IInv
<1>4. CASE ReadEnd \/ ReplyBroken
  BY <1>4, ExitIInv DEF ReadEnd, ReplyBroken
<1> QED
  BY <1>1, <1>2, <1>3, <1>4 DEF Consumer

\* The counts and the order of the numbers survive every step, kills included.
LEMMA Inductive == Spec => []IInv
<1>1. ASSUME IInv, [Next]_vars PROVE IInv'
  <2>1. CASE \E p \in Processes : Kill(p)
    BY <1>1, <2>1, ExitIInv DEF Kill
  <2>2. CASE UNCHANGED vars
    BY <1>1, <2>2 DEF vars, IInv, TypeOK, Counts, Written, InOrder
  <2> QED
    BY <1>1, <2>1, <2>2, ProducerStep, ConsumerStep DEF Next, Over
<1> QED
  BY InitIInv, <1>1, PTL DEF Spec

\* Producer and consumer stay in step: the numbers are shown in their order, and
\* at most one of them or its acknowledgement is on its way (the loops of
\* src/lab6/q1 from line 27 and from line 46).
THEOREM StaysInStep == Spec => []InStep
BY Inductive, InStepFollows, PTL
=============================================================================
